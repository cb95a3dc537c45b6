----------------------------- MODULE Reservations -----------------------------
(***************************************************************************)
(* Table reservations: modules/reservations.  A guest books through the     *)
(* public route; staff confirm, seat, cancel or no-show a booking.  Both    *)
(* are several awaits, with the other requests between any two of them:     *)
(*                                                                          *)
(*   booking   new -> [CheckOverlap] -> insert -> notify -> created         *)
(*                          |                       |                       *)
(*                       rejected (409)         unnotified (500, but kept)  *)
(*   staff     idle -> update -> table -> done                              *)
(*                                                                          *)
(* The staff request writes the reservation and then, apart from it, the    *)
(* status of its table.  A reservation is named by the request that made    *)
(* it; none is ever deleted (DELETE cancels).                               *)
(***************************************************************************)
EXTENDS TableSessions

CONSTANTS Bookings,       \* requests to POST /reservations
          Booking,        \* [Bookings -> their dto]
          Branches,       \* branch ids a dto may name
          OverlapWindow,  \* RESERVATION_OVERLAP_WINDOW_MS, in the unit of dto.time
          DeskCalls,      \* staff requests: PATCH and DELETE /reservations/:id
          AssignTables    \* tableIds a PATCH that confirms may carry, None for none

BookingDto == [table: Tables \cup {None}, time: Nat, branch: Branches]

ASSUME BookingAssumption == /\ Booking \in [Bookings -> BookingDto]
                            /\ OverlapWindow \in Nat
                            /\ AssignTables \subseteq Tables \cup {None}

VARIABLES resStatus,   \* Reservation.status, NoBooking before it is created
          resTable,    \* Reservation.tableId
          bookPc,
          seenBookings,  \* history: the reservations there were at the overlap check
          reassigned,    \* history: reservations a confirm revived or moved
          deskPc, deskOp, deskRes,
          deskTable,     \* dto.tableId until the update, updated.tableId after it
          contended,     \* history: reservations two staff requests had at once
          deskWrote,     \* history: tables whose status a staff request wrote last
          deskLoose      \* history: tables a confirm moved a reservation away from, or
                         \* whose status write died with its instance

bookVars == <<resStatus, resTable, bookPc, seenBookings>>
callVars == <<deskPc, deskOp, deskRes, deskTable>>
deskVars == <<bookVars, callVars, reassigned, contended, deskLoose>>  \* all but deskWrote
notTable == <<currentOrder, ordersServed, sessionVars, scanVars>>

ReservationStatus == {"PENDING", "CONFIRMED", "SEATED", "CANCELLED", "NO_SHOW"}
Holding   == {"PENDING", "CONFIRMED"}
NoBooking == "NONE"
BookPc    == {"new", "insert", "notify", "created", "unnotified", "rejected", "lost"}
DeskPc    == {"idle", "update", "table", "done", "lost"}
DeskOps   == {"confirm", "seat", "cancel", "noShow"}

Booked    == {b \in Bookings : resStatus[b] # NoBooking}
Busy(d)   == deskPc[d] \in {"update", "table"}

ReservationsInit ==
    /\ resStatus = [b \in Bookings |-> NoBooking]
    /\ resTable  = [b \in Bookings |-> None]
    /\ bookPc    = [b \in Bookings |-> "new"]
    /\ seenBookings = [b \in Bookings |-> {}]
    /\ deskPc    = [d \in DeskCalls |-> "idle"]
    /\ deskOp    = [d \in DeskCalls |-> None]
    /\ deskRes   = [d \in DeskCalls |-> None]
    /\ deskTable = [d \in DeskCalls |-> None]
    /\ reassigned = {} /\ contended = {} /\ deskWrote = {} /\ deskLoose = {}

-----------------------------------------------------------------------------
(* createReservation.                                                      *)

\* findAll with a date range: both ends belong to it.
InWindow_Open(a, b) ==
    /\ Booking[a].time < Booking[b].time + OverlapWindow
    /\ Booking[b].time < Booking[a].time + OverlapWindow

InWindow(a, b) ==
    /\ Booking[a].time <= Booking[b].time + OverlapWindow
    /\ Booking[b].time <= Booking[a].time + OverlapWindow

\* findAll: the reservations of the branch the dto names, whatever the table's branch.
FindAll(b) == {a \in Booked : Booking[a].branch = Booking[b].branch /\ InWindow(a, b)}

Conflict(b) ==
    \E a \in FindAll(b) : resTable[a] = Booking[b].table /\ resStatus[a] \in Holding

\* The lookups before the insert; a dto that names no table has none.
CheckOverlap(b) ==
    /\ bookPc[b] = "new"
    /\ bookPc' = [bookPc EXCEPT
                    ![b] = IF Booking[b].table # None /\ Conflict(b) THEN "rejected"
                                                                     ELSE "insert"]
    /\ seenBookings' = [seenBookings EXCEPT ![b] = Booked]
    /\ UNCHANGED <<resStatus, resTable, callVars, reassigned, contended, deskWrote,
                   deskLoose, tableStatus, notTable>>

InsertReservation(b) ==
    /\ bookPc[b] = "insert"
    /\ resStatus' = [resStatus EXCEPT ![b] = "PENDING"]
    /\ resTable'  = [resTable EXCEPT ![b] = Booking[b].table]
    /\ bookPc'    = [bookPc EXCEPT ![b] = "notify"]
    /\ UNCHANGED <<seenBookings, callVars, reassigned, contended, deskWrote, deskLoose,
                   tableStatus, notTable>>

\* queueService.enqueue may throw: the guest reads 500 and the reservation stays.
NotifyGuest(b) ==
    /\ bookPc[b] = "notify"
    /\ \E pc \in {"created", "unnotified"} : bookPc' = [bookPc EXCEPT ![b] = pc]
    /\ UNCHANGED <<resStatus, resTable, seenBookings, callVars, reassigned, contended,
                   deskWrote, deskLoose, tableStatus, notTable>>

-----------------------------------------------------------------------------
(* Staff requests.                                                         *)

\* The handler up to its first write: the status of the dto picks the operation, and
\* the reservation it names exists.  Only a confirm uses the tableId of the dto.
FindReservation(d) ==
    /\ deskPc[d] = "idle"
    /\ \E op \in DeskOps, b \in Booked, t \in AssignTables \cup {None} :
          /\ op # "confirm" => t = None
          /\ deskOp'    = [deskOp EXCEPT ![d] = op]
          /\ deskRes'   = [deskRes EXCEPT ![d] = b]
          /\ deskTable' = [deskTable EXCEPT ![d] = t]
          /\ contended' = IF \E e \in DeskCalls : Busy(e) /\ deskRes[e] = b
                          THEN contended \cup {b} ELSE contended
    /\ deskPc' = [deskPc EXCEPT ![d] = "update"]
    /\ UNCHANGED <<bookVars, reassigned, deskWrote, deskLoose, tableStatus, notTable>>

StatusOf(op) ==
    CASE op = "confirm" -> "CONFIRMED" [] op = "seat"   -> "SEATED"
      [] op = "cancel"  -> "CANCELLED" [] op = "noShow" -> "NO_SHOW"

\* findOneAndUpdate: no status is refused, and a confirm takes any tableId unchecked.
\* Without a table there is nothing more to write.
UpdateReservation(d) ==
    LET b == deskRes[d]
        t == IF deskTable[d] # None THEN deskTable[d] ELSE resTable[b]
    IN
    /\ deskPc[d] = "update"
    /\ resStatus' = [resStatus EXCEPT ![b] = StatusOf(deskOp[d])]
    /\ resTable'  = [resTable EXCEPT ![b] = t]
    /\ deskTable' = [deskTable EXCEPT ![d] = t]
    /\ deskPc'    = [deskPc EXCEPT ![d] = IF t = None THEN "done" ELSE "table"]
    /\ reassigned' = IF deskOp[d] = "confirm" /\ (resStatus[b] \notin Holding \/ t # resTable[b])
                     THEN reassigned \cup {b} ELSE reassigned
    /\ deskLoose' = IF resTable[b] \notin {t, None} THEN deskLoose \cup {resTable[b]}
                                                    ELSE deskLoose
    /\ UNCHANGED <<bookPc, seenBookings, deskOp, deskRes, contended, deskWrote,
                   tableStatus, notTable>>

\* A no-show leaves its table as it is.
TableStatusOf_NoShowKeeps(op) ==
    CASE op \in {"confirm", "noShow"} -> "RESERVED" [] op = "seat" -> "OCCUPIED"
      [] op = "cancel" -> "AVAILABLE"

TableStatusOf(op) ==
    CASE op = "confirm" -> "RESERVED" [] op = "seat" -> "OCCUPIED"
      [] op \in {"cancel", "noShow"} -> "AVAILABLE"

\* The table is written by id, whatever it is used for by now.
UpdateReservedTable(d) ==
    LET t == deskTable[d] IN
    /\ deskPc[d] = "table"
    /\ tableStatus' = [tableStatus EXCEPT ![t] = TableStatusOf(deskOp[d])]
    /\ deskPc'      = [deskPc EXCEPT ![d] = "done"]
    /\ deskWrote'   = deskWrote \cup {t}
    /\ UNCHANGED <<bookVars, deskOp, deskRes, deskTable, reassigned, contended, deskLoose,
                   notTable>>

-----------------------------------------------------------------------------
(* The instance that runs a request dies: no further step of it happens.   *)

LoseBooking(b) ==
    /\ bookPc[b] \in {"insert", "notify"}
    /\ bookPc' = [bookPc EXCEPT ![b] = "lost"]
    /\ UNCHANGED <<resStatus, resTable, seenBookings, callVars, reassigned, contended,
                   deskWrote, deskLoose, tableStatus, notTable>>

LoseDeskCall(d) ==
    /\ Busy(d)
    /\ deskPc'    = [deskPc EXCEPT ![d] = "lost"]
    /\ deskLoose' = IF deskPc[d] = "table" THEN deskLoose \cup {deskTable[d]} ELSE deskLoose
    /\ UNCHANGED <<bookVars, deskOp, deskRes, deskTable, reassigned, contended, deskWrote,
                   tableStatus, notTable>>

-----------------------------------------------------------------------------
BookStep(b) == CheckOverlap(b) \/ InsertReservation(b) \/ NotifyGuest(b)
DeskStep(d) == UpdateReservation(d) \/ UpdateReservedTable(d)

ReservationsTypeOK ==
    /\ resStatus \in [Bookings -> ReservationStatus \cup {NoBooking}]
    /\ resTable  \in [Bookings -> Tables \cup {None}]
    /\ bookPc    \in [Bookings -> BookPc]
    /\ seenBookings \in [Bookings -> SUBSET Bookings]
    /\ deskPc    \in [DeskCalls -> DeskPc]
    /\ deskOp    \in [DeskCalls -> DeskOps \cup {None}]
    /\ deskRes   \in [DeskCalls -> Bookings \cup {None}]
    /\ deskTable \in [DeskCalls -> Tables \cup {None}]
    /\ reassigned \subseteq Bookings /\ contended \subseteq Bookings
    /\ deskWrote \subseteq Tables /\ deskLoose \subseteq Tables
    /\ \A d \in DeskCalls : deskPc[d] # "idle" => deskOp[d] \in DeskOps /\ deskRes[d] \in Bookings
    /\ \A d \in DeskCalls : deskPc[d] = "table" => deskTable[d] \in Tables

\* Two reservations of one branch hold one table within the window of each other.
Clash(a, b) ==
    /\ a # b /\ {resStatus[a], resStatus[b]} \subseteq Holding
    /\ resTable[a] # None /\ resTable[a] = resTable[b]
    /\ Booking[a].branch = Booking[b].branch
    /\ \E gap \in 0 .. OverlapWindow : \/ Booking[a].time + gap = Booking[b].time
                                      \/ Booking[b].time + gap = Booking[a].time

\* Two reservations hold one table within two hours of each other only if their overlap
\* checks both ran before the other was there, if they name different branches, or if a
\* confirm, which checks nothing, revived or moved one of them: in any other order the
\* second booking is refused (reservations/service.ts:27-38).
ClashOnlyOverlap ==
    \A a, b \in Booked \ reassigned :
        Clash(a, b) => a \notin seenBookings[b] /\ b \notin seenBookings[a]

\* The tables a staff request still has to write, or left behind, or wrote in an order
\* of its own.
Unsettled == {deskTable[d] : d \in {e \in DeskCalls : deskPc[e] = "table"}}
             \cup deskLoose \cup {resTable[b] : b \in contended}
=============================================================================
