--------------------------- MODULE FrontDeskProofs ---------------------------
(***************************************************************************)
(* Proofs about FrontDesk, for any number of tables, scans, orders,         *)
(* bookings, staff requests and chats.  A step is one of the orders and     *)
(* scans, one of the desk or one of the chats; what OrderPlacementProofs    *)
(* says of the first kind is used here as it stands.                        *)
(***************************************************************************)
EXTENDS FrontDesk, OrderPlacementProofs

-----------------------------------------------------------------------------
(* The three kinds of step.                                                *)

DeskMove ==
    /\ \/ \E b \in Bookings : BookStep(b) \/ LoseBooking(b)
       \/ \E d \in DeskCalls : FindReservation(d) \/ DeskStep(d) \/ LoseDeskCall(d)
    /\ UNCHANGED <<placeVars, releaseVars, couponVars, chatVars>>
    /\ lostTasks' \in {lostTasks, lostTasks + 1}

ChatMove ==
    /\ \/ \E k \in Binds : BindStep(k) \/ LoseBind(k) \/ \E s \in Scans, c \in Chats :
             ReadToken(k, s, c)
       \/ \E s \in Scans : OpenChat(s) \/ MintToken(s) \/ CloseChat(s) \/ ExpireToken(s)
                           \/ LoseChat(s)
       \/ \E c \in Chats : ExpireBinding(c) \/ \E t \in Tables : SaveTableBinding(c, t)
    /\ UNCHANGED <<placeVars, releaseVars, couponVars, visitVars, deskVars, deskWrote>>
    /\ lostTasks' \in {lostTasks, lostTasks + 1}

\* Of the tables the desk wrote last, those stay that nobody else changes.
TakenFromDesk ==
    deskWrote' = {t \in deskWrote : /\ tableStatus'[t]  = tableStatus[t]
                                   /\ currentOrder'[t] = currentOrder[t]}

LEMMA FrontSteps ==
    ASSUME [FrontNext]_frontVars
    PROVE  /\ \/ [Next]_vars /\ UNCHANGED <<deskVars, chatVars>> /\ TakenFromDesk
              \/ DeskMove
              \/ ChatMove
           /\ chatWrites' \in {chatWrites, chatWrites + 1}
<1>1. CASE OrdersAndScans
  BY <1>1 DEF OrdersAndScans, TakenFromDesk
<1>2. CASE DeskCall
  BY <1>2 DEF DeskCall, DeskMove, notDesk, orderVars
<1>3. CASE ChatCall
  <2>1. /\ UNCHANGED <<placeVars, releaseVars, couponVars, visitVars, deskVars, deskWrote>>
        /\ UNCHANGED lostTasks
        /\ chatWrites' \in {chatWrites, chatWrites + 1}
    BY <1>3 DEF ChatCall, notChat, orderVars
  <2>2. QED BY <1>3, <2>1 DEF ChatCall, ChatMove
<1>4. CASE FrontInstanceDies
  <2>1. /\ UNCHANGED <<placeVars, releaseVars, couponVars, chatWrites>>
        /\ lostTasks' \in {lostTasks, lostTasks + 1}
    BY <1>4 DEF FrontInstanceDies
  <2>2. QED BY <1>4, <2>1 DEF FrontInstanceDies, DeskMove, ChatMove
<1>5. CASE UNCHANGED frontVars
  <2>1. UNCHANGED <<vars, deskVars, deskWrote, chatVars, chatWrites, tableStatus, currentOrder>>
    BY <1>5 DEF frontVars, vars, visitVars, tableVars
  <2>2. QED BY <2>1 DEF TakenFromDesk
<1>6. QED BY <1>1, <1>2, <1>3, <1>4, <1>5 DEF FrontNext

\* A step of the desk writes, of all that OrderPlacement keeps, the status of one table.
LEMMA DeskWrites ==
    ASSUME TypeOK, ReservationsTypeOK, DeskMove
    PROVE  /\ UNCHANGED <<placeVars, releaseVars, couponVars, chatVars, notTable>>
           /\ \/ UNCHANGED <<tableStatus, deskWrote>>
              \/ \E d \in DeskCalls : UpdateReservedTable(d)
<1> USE DEF DeskMove, BookStep, DeskStep
<1>1. CASE \E b \in Bookings : BookStep(b) \/ LoseBooking(b)
  BY <1>1 DEF CheckOverlap, InsertReservation, NotifyGuest, LoseBooking
<1>2. CASE \E d \in DeskCalls : FindReservation(d) \/ DeskStep(d) \/ LoseDeskCall(d)
  BY <1>2 DEF FindReservation, UpdateReservation, UpdateReservedTable, LoseDeskCall
<1>3. QED BY <1>1, <1>2

-----------------------------------------------------------------------------
(* Type correctness.                                                       *)

\* A step of the desk keeps the types of the orders and scans.
LEMMA DeskTyping ==
    ASSUME TypeOK, ReservationsTypeOK, DeskMove PROVE TypeOK'
<1>1. /\ UNCHANGED <<placeVars, releaseVars, couponVars, notTable>>
      /\ tableStatus' \in [Tables -> TableStatus]
  <2>1. CASE \E d \in DeskCalls : UpdateReservedTable(d)
    <3> PICK d \in DeskCalls : UpdateReservedTable(d) BY <2>1
    <3>1. TableStatusOf(deskOp[d]) \in TableStatus
      BY DEF UpdateReservedTable, ReservationsTypeOK, DeskOps, TableStatusOf, TableStatus
    <3>2. QED BY <3>1, DeskWrites DEF UpdateReservedTable, TypeOK, TablesTypeOK
  <2>2. QED BY <2>1, DeskWrites DEF TypeOK, TablesTypeOK
<1>2. lostTasks' \in Nat
  BY DEF DeskMove, TypeOK
<1>3. QED
  BY <1>1, <1>2 DEF TypeOK, TablesTypeOK, CouponsTypeOK, placeVars, releaseVars, staffVars,
     couponVars, notTable, sessionVars, scanVars

LEMMA ReservationTyping ==
    ASSUME ReservationsTypeOK, DeskMove PROVE ReservationsTypeOK'
<1> USE DEF ReservationsTypeOK, bookVars, callVars
<1>1. ASSUME NEW b \in Bookings, CheckOverlap(b) PROVE ReservationsTypeOK'
  BY <1>1 DEF CheckOverlap, BookPc, Booked
<1>2. ASSUME NEW b \in Bookings, InsertReservation(b) PROVE ReservationsTypeOK'
  <2>1. Booking[b].table \in Tables \cup {None}
    BY BookingAssumption DEF BookingDto
  <2>2. QED BY <1>2, <2>1 DEF InsertReservation, BookPc, ReservationStatus
<1>3. ASSUME NEW b \in Bookings, NotifyGuest(b) PROVE ReservationsTypeOK'
  BY <1>3 DEF NotifyGuest, BookPc
<1>4. ASSUME NEW b \in Bookings, LoseBooking(b) PROVE ReservationsTypeOK'
  BY <1>4 DEF LoseBooking, BookPc
<1>5. ASSUME NEW d \in DeskCalls, FindReservation(d) PROVE ReservationsTypeOK'
  <2>1. PICK op \in DeskOps, b \in Booked, t \in AssignTables \cup {None} :
          /\ deskOp'    = [deskOp EXCEPT ![d] = op]
          /\ deskRes'   = [deskRes EXCEPT ![d] = b]
          /\ deskTable' = [deskTable EXCEPT ![d] = t]
          /\ contended' = IF \E e \in DeskCalls : Busy(e) /\ deskRes[e] = b
                          THEN contended \cup {b} ELSE contended
    BY <1>5 DEF FindReservation
  <2>2. b \in Bookings /\ t \in Tables \cup {None}
    BY BookingAssumption DEF Booked
  <2>3. QED BY <1>5, <2>1, <2>2 DEF FindReservation, DeskPc
<1>6. ASSUME NEW d \in DeskCalls, UpdateReservation(d) PROVE ReservationsTypeOK'
  <2> DEFINE b == deskRes[d]
             t == IF deskTable[d] # None THEN deskTable[d] ELSE resTable[b]
  <2>1. b \in Bookings /\ deskOp[d] \in DeskOps
    BY <1>6 DEF UpdateReservation
  <2>2. t \in Tables \cup {None} /\ resTable[b] \in Tables \cup {None}
    BY <2>1
  <2>3. StatusOf(deskOp[d]) \in ReservationStatus
    BY <2>1 DEF StatusOf, DeskOps, ReservationStatus
  <2>4. /\ resStatus' = [resStatus EXCEPT ![b] = StatusOf(deskOp[d])]
        /\ resTable'  = [resTable EXCEPT ![b] = t]
        /\ deskTable' = [deskTable EXCEPT ![d] = t]
        /\ deskPc'    = [deskPc EXCEPT ![d] = IF t = None THEN "done" ELSE "table"]
        /\ reassigned' \in {reassigned, reassigned \cup {b}}
        /\ deskLoose' = IF resTable[b] \notin {t, None} THEN deskLoose \cup {resTable[b]}
                                                        ELSE deskLoose
        /\ UNCHANGED <<bookPc, seenBookings, deskOp, deskRes, contended, deskWrote>>
    BY <1>6 DEF UpdateReservation
  <2> HIDE DEF b, t
  <2>5. resStatus' \in [Bookings -> ReservationStatus \cup {NoBooking}]
    BY <2>1, <2>3, <2>4
  <2>6. /\ resTable'  \in [Bookings -> Tables \cup {None}]
        /\ deskTable' \in [DeskCalls -> Tables \cup {None}]
    BY <2>1, <2>2, <2>4
  <2>7. deskPc' \in [DeskCalls -> DeskPc]
    BY <2>4 DEF DeskPc
  <2>8. reassigned' \subseteq Bookings /\ deskLoose' \subseteq Tables
    BY <2>1, <2>2, <2>4
  <2>9. \A e \in DeskCalls :
         /\ deskPc'[e] # "idle" => deskOp[e] \in DeskOps /\ deskRes[e] \in Bookings
         /\ deskPc'[e] = "table" => deskTable'[e] \in Tables
    BY <1>6, <2>1, <2>2, <2>4 DEF UpdateReservation
  <2>10. QED BY <2>4, <2>5, <2>6, <2>7, <2>8, <2>9
<1>7. ASSUME NEW d \in DeskCalls, UpdateReservedTable(d) PROVE ReservationsTypeOK'
  BY <1>7 DEF UpdateReservedTable, DeskPc
<1>8. ASSUME NEW d \in DeskCalls, LoseDeskCall(d) PROVE ReservationsTypeOK'
  BY <1>8 DEF LoseDeskCall, DeskPc, Busy
<1>9. QED BY <1>1, <1>2, <1>3, <1>4, <1>5, <1>6, <1>7, <1>8 DEF DeskMove, BookStep, DeskStep

LEMMA ChatTyping ==
    ASSUME TypeOK, ChatTypeOK, ChatMove PROVE ChatTypeOK'
<1> USE DEF ChatTypeOK, chatKeys, bindVars
<1> /\ scanSid \in [Scans -> Scans \cup {None}]
    /\ scanTable \in [Scans -> Tables \cup {None}]
  BY DEF TypeOK, TablesTypeOK
<1>1. ASSUME NEW k \in Binds, NEW s \in Scans, NEW c \in Chats, ReadToken(k, s, c)
      PROVE  ChatTypeOK'
  BY <1>1 DEF ReadToken, BindPc
<1>2. ASSUME NEW k \in Binds, ReadChatSession(k) PROVE ChatTypeOK'
  BY <1>2 DEF ReadChatSession, BindPc
<1>3. ASSUME NEW k \in Binds, SetBinding(k) PROVE ChatTypeOK'
  BY <1>3 DEF SetBinding, BindPc
<1>4. ASSUME NEW k \in Binds, DropToken(k) PROVE ChatTypeOK'
  <2>1. bindToken[k] \in Scans
    BY <1>4 DEF DropToken
  <2>2. QED BY <1>4, <2>1 DEF DropToken, BindPc
<1>5. ASSUME NEW k \in Binds, LoseBind(k) PROVE ChatTypeOK'
  BY <1>5 DEF LoseBind, BindPc
<1>6. ASSUME NEW s \in Scans, OpenChat(s) PROVE ChatTypeOK'
  BY <1>6 DEF OpenChat, ChatPc
<1>7. ASSUME NEW s \in Scans, MintToken(s) PROVE ChatTypeOK'
  BY <1>7 DEF MintToken, ChatPc
<1>8. ASSUME NEW s \in Scans, CloseChat(s) \/ ExpireToken(s) \/ LoseChat(s)
      PROVE  ChatTypeOK'
  BY <1>8 DEF CloseChat, ExpireToken, LoseChat, ChatPc
<1>9. ASSUME NEW c \in Chats, ExpireBinding(c) \/ \E t \in Tables : SaveTableBinding(c, t)
      PROVE  ChatTypeOK'
  BY <1>9 DEF ExpireBinding, SaveTableBinding
<1>10. QED
  BY <1>1, <1>2, <1>3, <1>4, <1>5, <1>6, <1>7, <1>8, <1>9 DEF ChatMove, BindStep

LEMMA FrontTypesInit == FrontInit => FrontTypeOK
<1> SUFFICES ASSUME FrontInit PROVE FrontTypeOK
  OBVIOUS
<1>1. TypeOK
  BY LimitsAssumption DEF FrontInit, TypeOK, TablesTypeOK, CouponsTypeOK, Init, TablesInit,
     CouponsInit, TableStatus, ScanPc, CouponState, Uses, OrderStatus, NoOrder, ReqPc
<1>2. ReservationsTypeOK
  BY DEF FrontInit, ReservationsInit, ReservationsTypeOK, NoBooking, BookPc, DeskPc
<1>3. ChatTypeOK
  BY DEF FrontInit, ChatInit, ChatTypeOK, ChatPc, BindPc
<1>4. QED BY <1>1, <1>2, <1>3 DEF FrontInit, FrontTypeOK

LEMMA FrontTyping == ASSUME FrontTypeOK, [FrontNext]_frontVars PROVE FrontTypeOK'
<1> TypeOK /\ ReservationsTypeOK /\ ChatTypeOK /\ chatWrites \in Nat
  BY DEF FrontTypeOK
<1> USE DEF FrontTypeOK
<1>0. chatWrites' \in Nat
  BY FrontSteps
<1>1. UNCHANGED deskVars /\ deskWrote' \subseteq deskWrote => ReservationsTypeOK'
  BY DEF ReservationsTypeOK, deskVars, bookVars, callVars
<1>2. UNCHANGED chatVars => ChatTypeOK'
  BY DEF ChatTypeOK, chatVars, chatKeys, bindVars
<1>3. CASE [Next]_vars /\ UNCHANGED <<deskVars, chatVars>> /\ TakenFromDesk
  <2>1. deskWrote' \subseteq deskWrote
    BY <1>3 DEF TakenFromDesk
  <2>2. QED BY <1>0, <1>1, <1>2, <1>3, <2>1, TypingStep
<1>4. CASE DeskMove
  <2>1. UNCHANGED chatVars
    BY <1>4 DEF DeskMove
  <2>2. TypeOK' /\ ReservationsTypeOK'
    BY <1>4, DeskTyping, ReservationTyping
  <2>3. QED BY <1>0, <1>2, <2>1, <2>2
<1>5. CASE ChatMove
  <2>1. UNCHANGED <<placeVars, releaseVars, couponVars, visitVars, deskVars, deskWrote>>
    BY <1>5 DEF ChatMove
  <2>2. lostTasks' \in Nat
    BY <1>5 DEF ChatMove, TypeOK
  <2>3. TypeOK'
    BY <2>1, <2>2 DEF TypeOK, TablesTypeOK, CouponsTypeOK, placeVars, releaseVars, staffVars,
       couponVars, visitVars, tableVars, sessionVars, scanVars
  <2>4. QED BY <1>0, <1>1, <1>5, <2>1, <2>3, ChatTyping
<1>6. QED BY <1>3, <1>4, <1>5, FrontSteps

\* Every variable of the branch keeps its type, whatever orders, scans, bookings, staff
\* requests and chats run and in whatever order.
THEOREM FrontTypes == FrontSpec => []FrontTypeOK
BY FrontTypesInit, FrontTyping, PTL DEF FrontSpec

-----------------------------------------------------------------------------
(* Reservations and chats leave orders and sessions as they are: what holds *)
(* of those in OrderPlacement holds in the whole branch.                    *)

VisitInv == PlacementInv /\ SessionInv

LEMMA VisitStep ==
    ASSUME FrontTypeOK, VisitInv, [FrontNext]_frontVars PROVE VisitInv'
<1> TypeOK /\ ReservationsTypeOK
  BY DEF FrontTypeOK
<1> USE DEF VisitInv
<1>1. CASE [Next]_vars
  BY <1>1, PlacementStep, SessionStep
<1>2. ASSUME UNCHANGED <<placeVars, releaseVars, notTable>> PROVE VisitInv'
  BY <1>2 DEF PlacementInv, SessionInv, placeVars, releaseVars, staffVars, notTable,
     sessionVars, scanVars
<1>3. CASE DeskMove
  BY <1>2, <1>3, DeskWrites
<1>4. CASE ChatMove
  BY <1>2, <1>4 DEF ChatMove, visitVars, tableVars, notTable
<1>5. QED BY <1>1, <1>3, <1>4, FrontSteps

\* PlacementInv and SessionInv for every instance of the whole branch.
THEOREM VisitsKept == FrontSpec => []VisitInv
<1>1. FrontInit => VisitInv
  BY PlacementInit, SessionInit DEF FrontInit, VisitInv
<1>2. FrontTypeOK /\ VisitInv /\ [FrontNext]_frontVars => VisitInv'
  BY VisitStep
<1>3. QED BY <1>1, <1>2, FrontTypes, PTL DEF FrontSpec

-----------------------------------------------------------------------------
(* Status and order of a table, with the desk writing statuses too.         *)

\* The order of a table that is not OCCUPIED is there, and the desk wrote the table last.
Misleads(t) ==
    currentOrder[t] # None /\ tableStatus[t] # "OCCUPIED" =>
        /\ t \in deskWrote
        /\ \E d \in DeskCalls : /\ deskPc[d] = "done" /\ deskTable[d] = t
                                /\ tableStatus[t] = TableStatusOf(deskOp[d])

\* A staff request that has ended stays as it was.
LEMMA EndedCallsStay ==
    ASSUME ReservationsTypeOK, DeskMove, NEW d \in DeskCalls, deskPc[d] = "done"
    PROVE  deskPc'[d] = "done" /\ deskTable'[d] = deskTable[d] /\ deskOp'[d] = deskOp[d]
<1> /\ deskPc \in [DeskCalls -> DeskPc]
    /\ deskOp \in [DeskCalls -> DeskOps \cup {None}]
    /\ deskTable \in [DeskCalls -> Tables \cup {None}]
  BY DEF ReservationsTypeOK
<1>1. CASE \E b \in Bookings : BookStep(b) \/ LoseBooking(b)
  BY <1>1 DEF BookStep, CheckOverlap, InsertReservation, NotifyGuest, LoseBooking, callVars
<1>2. CASE \E e \in DeskCalls : FindReservation(e) \/ DeskStep(e) \/ LoseDeskCall(e)
  <2> PICK e \in DeskCalls : FindReservation(e) \/ DeskStep(e) \/ LoseDeskCall(e) BY <1>2
  <2>1. CASE FindReservation(e)
    BY <2>1 DEF FindReservation
  <2>2. CASE UpdateReservation(e)
    BY <2>2 DEF UpdateReservation
  <2>3. CASE UpdateReservedTable(e)
    BY <2>3 DEF UpdateReservedTable
  <2>4. CASE LoseDeskCall(e)
    BY <2>4 DEF LoseDeskCall, Busy
  <2>5. QED BY <2>1, <2>2, <2>3, <2>4 DEF DeskStep
<1>3. QED BY <1>1, <1>2 DEF DeskMove

LEMMA MisleadsStep ==
    ASSUME FrontTypeOK, OnlyDeskMisleadsTable, [FrontNext]_frontVars
    PROVE  OnlyDeskMisleadsTable'
<1> TypeOK /\ ReservationsTypeOK
  BY DEF FrontTypeOK
<1> SUFFICES ASSUME NEW t \in Tables, t \notin handEdited'
             PROVE  Misleads(t)'
  BY DEF OnlyDeskMisleadsTable, Misleads
<1>0. t \notin handEdited => Misleads(t)
  BY DEF OnlyDeskMisleadsTable, Misleads
<1>1. CASE [Next]_vars /\ UNCHANGED <<deskVars, chatVars>> /\ TakenFromDesk
  <2>1. t \notin handEdited
    BY <1>1, HandEditsStay
  <2>2. UNCHANGED <<deskPc, deskTable, deskOp>>
    BY <1>1 DEF deskVars, callVars
  <2>3. CASE Seated(t)'
    BY <2>3 DEF Seated, Misleads
  <2>4. CASE tableStatus'[t] = tableStatus[t] /\ currentOrder'[t] = currentOrder[t]
    <3>1. t \in deskWrote => t \in deskWrote'
      BY <1>1, <2>4 DEF TakenFromDesk
    <3>2. QED BY <1>0, <2>1, <2>2, <2>4, <3>1 DEF Misleads
  <2>5. QED BY <1>1, <2>3, <2>4, TableWrites
<1>2. CASE DeskMove
  <2>1. UNCHANGED <<handEdited, currentOrder>>
    BY <1>2, DeskWrites DEF releaseVars, staffVars, notTable
  <2>2. CASE \E d \in DeskCalls : UpdateReservedTable(d) /\ deskTable[d] = t
    <3> PICK d \in DeskCalls : UpdateReservedTable(d) /\ deskTable[d] = t BY <2>2
    <3>1. /\ tableStatus'[t] = TableStatusOf(deskOp[d]) /\ t \in deskWrote'
          /\ deskPc'[d] = "done" /\ deskTable'[d] = t /\ deskOp'[d] = deskOp[d]
      BY DEF UpdateReservedTable, ReservationsTypeOK, TypeOK, TablesTypeOK
    <3>2. TableStatusOf(deskOp[d])' = TableStatusOf(deskOp'[d])
      BY DEF TableStatusOf
    <3>3. QED BY <3>1, <3>2 DEF Misleads
  <2>3. CASE tableStatus'[t] = tableStatus[t] /\ (t \in deskWrote => t \in deskWrote')
    BY <1>0, <1>2, <2>1, <2>3, EndedCallsStay DEF Misleads
  <2>4. QED BY <1>2, <2>2, <2>3, DeskWrites DEF UpdateReservedTable, TypeOK, TablesTypeOK
<1>3. CASE ChatMove
  <2>1. UNCHANGED <<handEdited, currentOrder, tableStatus, deskWrote, deskPc, deskTable, deskOp>>
    BY <1>3 DEF ChatMove, releaseVars, staffVars, visitVars, tableVars, deskVars, callVars
  <2>2. QED BY <1>0, <2>1 DEF Misleads
<1>4. QED BY <1>1, <1>2, <1>3, FrontSteps

\* While a table with an order is not OCCUPIED, a staff request for one of its reservations
\* was the last to write it, and the table says what that request came for.
THEOREM DeskMisleads == FrontSpec => []OnlyDeskMisleadsTable
<1>1. FrontInit => OnlyDeskMisleadsTable
  BY DEF FrontInit, Init, TablesInit, OnlyDeskMisleadsTable
<1>2. FrontTypeOK /\ OnlyDeskMisleadsTable /\ [FrontNext]_frontVars => OnlyDeskMisleadsTable'
  BY MisleadsStep
<1>3. QED BY <1>1, <1>2, FrontTypes, PTL DEF FrontSpec

-----------------------------------------------------------------------------
(* Bookings and the overlap check.                                          *)

\* A booking is there from its insert on; its overlap check saw bookings that were there,
\* and of those nobody revived or moved none that holds its table within the window; what
\* only a confirm may do is left to confirms.
BookInv ==
    /\ \A b \in Bookings :
         /\ bookPc[b] \in {"new", "insert", "rejected"} => resStatus[b] = NoBooking
         /\ seenBookings[b] \subseteq Booked
         /\ b \in Booked \ reassigned => resTable[b] = Booking[b].table
         /\ bookPc[b] \notin {"new", "rejected"} /\ Booking[b].table # None =>
              \A a \in seenBookings[b] \ reassigned :
                 /\ Booking[a].branch = Booking[b].branch
                 /\ InWindow(a, b)
                 /\ resStatus[a] \in Holding
                 => resTable[a] # Booking[b].table
    /\ \A d \in DeskCalls :
         /\ Busy(d) => deskRes[d] \in Booked
         /\ deskPc[d] = "update" /\ deskOp[d] # "confirm" => deskTable[d] = None

LEMMA BookingStep ==
    ASSUME ReservationsTypeOK, BookInv, DeskMove PROVE BookInv'
<1> USE DEF BookInv, Booked, Busy, InWindow, NoBooking
<1> /\ resStatus \in [Bookings -> ReservationStatus \cup {NoBooking}]
    /\ resTable  \in [Bookings -> Tables \cup {None}]
    /\ bookPc \in [Bookings -> BookPc]
    /\ seenBookings \in [Bookings -> SUBSET Bookings]
    /\ deskPc \in [DeskCalls -> DeskPc]
    /\ deskOp \in [DeskCalls -> DeskOps \cup {None}]
    /\ deskRes \in [DeskCalls -> Bookings \cup {None}]
    /\ deskTable \in [DeskCalls -> Tables \cup {None}]
  BY DEF ReservationsTypeOK
<1>1. ASSUME NEW b \in Bookings, CheckOverlap(b) PROVE BookInv'
  BY <1>1 DEF CheckOverlap, Conflict, FindAll, callVars
<1>2. ASSUME NEW b \in Bookings, InsertReservation(b) PROVE BookInv'
  BY <1>2 DEF InsertReservation, callVars
<1>3. ASSUME NEW b \in Bookings, NotifyGuest(b) PROVE BookInv'
  BY <1>3 DEF NotifyGuest, callVars
<1>4. ASSUME NEW b \in Bookings, LoseBooking(b) PROVE BookInv'
  BY <1>4 DEF LoseBooking, callVars
<1>5. ASSUME NEW d \in DeskCalls, FindReservation(d) PROVE BookInv'
  BY <1>5 DEF FindReservation, bookVars
<1>6. ASSUME NEW d \in DeskCalls, UpdateReservation(d) PROVE BookInv'
  <2> DEFINE b == deskRes[d]
  <2>1. b \in Bookings /\ resStatus[b] # NoBooking /\ deskOp[d] \in DeskOps
    BY <1>6 DEF UpdateReservation, ReservationsTypeOK
  <2>2. /\ \A a \in Bookings : a # b => resStatus'[a] = resStatus[a] /\ resTable'[a] = resTable[a]
        /\ resStatus'[b] # NoBooking
        /\ b \notin reassigned' =>
             /\ resTable'[b] = resTable[b]
             /\ resStatus'[b] \in Holding => resStatus[b] \in Holding
        /\ reassigned \subseteq reassigned'
    BY <1>6, <2>1 DEF UpdateReservation, StatusOf, DeskOps, Holding
  <2>3. /\ UNCHANGED <<bookPc, seenBookings, deskOp, deskRes>>
        /\ \A e \in DeskCalls : e # d => deskPc'[e] = deskPc[e] /\ deskTable'[e] = deskTable[e]
        /\ deskPc'[d] # "update"
    BY <1>6 DEF UpdateReservation
  <2>4. \A a \in Bookings : resStatus'[a] = NoBooking <=> resStatus[a] = NoBooking
    BY <2>1, <2>2
  <2> HIDE DEF b
  <2>5. \A x \in Bookings :
         /\ bookPc[x] \in {"new", "insert", "rejected"} => resStatus'[x] = NoBooking
         /\ seenBookings[x] \subseteq Booked'
         /\ x \in Booked' \ reassigned' => resTable'[x] = Booking[x].table
    BY <2>1, <2>2, <2>4
  <2>6. ASSUME NEW x \in Bookings, bookPc[x] \notin {"new", "rejected"}, Booking[x].table # None,
               NEW a \in seenBookings[x] \ reassigned',
               Booking[a].branch = Booking[x].branch, InWindow(a, x), resStatus'[a] \in Holding
        PROVE  resTable'[a] # Booking[x].table
    <3> HIDE DEF InWindow
    <3>1. a \in Bookings /\ a \notin reassigned
      BY <2>2, <2>6
    <3>2. resStatus[a] \in Holding /\ resTable'[a] = resTable[a]
      BY <2>2, <2>6, <3>1
    <3>3. QED BY <2>6, <3>1, <3>2
  <2>7. \A e \in DeskCalls :
         /\ deskPc'[e] \in {"update", "table"} => deskRes[e] \in Booked'
         /\ deskPc'[e] = "update" /\ deskOp[e] # "confirm" => deskTable'[e] = None
    BY <1>6, <2>1, <2>3, <2>4 DEF UpdateReservation, b
  <2>8. QED
    <3> HIDE DEF InWindow
    <3>1. \A x, y \in Bookings : InWindow(x, y)' <=> InWindow(x, y)
      BY DEF InWindow
    <3>2. QED BY <2>3, <2>5, <2>6, <2>7, <3>1
<1>7. ASSUME NEW d \in DeskCalls, UpdateReservedTable(d) PROVE BookInv'
  BY <1>7 DEF UpdateReservedTable, bookVars
<1>8. ASSUME NEW d \in DeskCalls, LoseDeskCall(d) PROVE BookInv'
  BY <1>8 DEF LoseDeskCall, bookVars
<1>9. QED BY <1>1, <1>2, <1>3, <1>4, <1>5, <1>6, <1>7, <1>8 DEF DeskMove, BookStep, DeskStep

\* BookInv for every instance: the bookkeeping of bookings and staff requests.
THEOREM BookingsKept == FrontSpec => []BookInv
<1>1. FrontInit => BookInv
  BY DEF FrontInit, ReservationsInit, BookInv, Booked, Busy, NoBooking
<1>2. FrontTypeOK /\ BookInv /\ [FrontNext]_frontVars => BookInv'
  <2> SUFFICES ASSUME FrontTypeOK, BookInv, [FrontNext]_frontVars PROVE BookInv'
    OBVIOUS
  <2>1. CASE UNCHANGED deskVars
    BY <2>1 DEF BookInv, Booked, Busy, InWindow, deskVars, bookVars, callVars
  <2>2. CASE DeskMove
    BY <2>2, BookingStep DEF FrontTypeOK
  <2>3. QED BY <2>1, <2>2, FrontSteps DEF ChatMove
<1>3. QED BY <1>1, <1>2, FrontTypes, PTL DEF FrontSpec

\* Two bookings hold one table within the window of each other only if the overlap checks
\* of both ran before the other was there, or a confirm revived or moved one of them.
THEOREM ClashesOverlap == FrontSpec => []ClashOnlyOverlap
<1>1. ASSUME NEW a \in Bookings, NEW b \in Bookings, NEW gap \in 0 .. OverlapWindow,
             \/ Booking[a].time + gap = Booking[b].time
             \/ Booking[b].time + gap = Booking[a].time
      PROVE  InWindow(a, b) /\ InWindow(b, a)
  <2>1. Booking[a].time \in Nat /\ Booking[b].time \in Nat /\ OverlapWindow \in Nat
    BY BookingAssumption DEF BookingDto
  <2>2. QED BY <1>1, <2>1 DEF InWindow
<1>2. BookInv => ClashOnlyOverlap
  BY <1>1 DEF BookInv, ClashOnlyOverlap, Clash, Booked, NoBooking
<1>3. QED BY <1>2, BookingsKept, PTL

-----------------------------------------------------------------------------
(* RESERVED tables.                                                         *)

\* Two staff requests have one booking at once only if it counts as contended; a request
\* that still has to write a table has its booking on that table, in the status it gave
\* it, unless the booking is contended.
DeskInv ==
    /\ contended \subseteq Booked
    /\ \A d, e \in DeskCalls : d # e /\ Busy(d) /\ Busy(e) /\ deskRes[d] = deskRes[e]
          => deskRes[d] \in contended
    /\ \A d \in DeskCalls : deskPc[d] = "table" =>
          /\ resTable[deskRes[d]] = deskTable[d] \/ deskTable[d] \in deskLoose
          /\ deskRes[d] \notin contended =>
               /\ resTable[deskRes[d]] = deskTable[d]
               /\ resStatus[deskRes[d]] = StatusOf(deskOp[d])

LEMMA DeskInvStep ==
    ASSUME ReservationsTypeOK, BookInv, DeskInv, DeskMove PROVE DeskInv'
<1> USE DEF DeskInv, Busy
<1> /\ resStatus \in [Bookings -> ReservationStatus \cup {NoBooking}]
    /\ resTable  \in [Bookings -> Tables \cup {None}]
    /\ deskPc \in [DeskCalls -> DeskPc]
    /\ deskOp \in [DeskCalls -> DeskOps \cup {None}]
    /\ deskRes \in [DeskCalls -> Bookings \cup {None}]
    /\ deskTable \in [DeskCalls -> Tables \cup {None}]
  BY DEF ReservationsTypeOK
<1>0. \A d \in DeskCalls : Busy(d) => deskRes[d] \in Booked
  BY DEF BookInv
<1>1. ASSUME NEW b \in Bookings, CheckOverlap(b) \/ NotifyGuest(b) \/ LoseBooking(b)
      PROVE  DeskInv'
  BY <1>1 DEF CheckOverlap, NotifyGuest, LoseBooking, callVars, Booked
<1>2. ASSUME NEW b \in Bookings, InsertReservation(b) PROVE DeskInv'
  <2>1. b \notin Booked
    BY <1>2 DEF InsertReservation, BookInv, Booked
  <2>2. \A a \in Bookings : a # b => resStatus'[a] = resStatus[a] /\ resTable'[a] = resTable[a]
    BY <1>2 DEF InsertReservation
  <2>3. Booked \subseteq Booked'
    BY <1>2 DEF InsertReservation, Booked, NoBooking
  <2>4. UNCHANGED <<callVars, contended, deskLoose>>
    BY <1>2 DEF InsertReservation
  <2>5. \A d \in DeskCalls : Busy(d) => deskRes[d] \in Bookings /\ deskRes[d] # b
    BY <1>0, <2>1 DEF Booked
  <2>6. QED BY <2>2, <2>3, <2>4, <2>5 DEF callVars
<1>3. ASSUME NEW d \in DeskCalls, FindReservation(d) PROVE DeskInv'
  <2> HIDE DEF Busy
  <2>1. PICK op \in DeskOps, b \in Booked, t \in AssignTables \cup {None} :
          /\ deskOp'    = [deskOp EXCEPT ![d] = op]
          /\ deskRes'   = [deskRes EXCEPT ![d] = b]
          /\ deskTable' = [deskTable EXCEPT ![d] = t]
          /\ contended' = IF \E e \in DeskCalls : Busy(e) /\ deskRes[e] = b
                          THEN contended \cup {b} ELSE contended
    BY <1>3 DEF FindReservation
  <2>2. /\ deskPc[d] = "idle" /\ deskPc' = [deskPc EXCEPT ![d] = "update"]
        /\ UNCHANGED <<resStatus, resTable, deskLoose>>
    BY <1>3 DEF FindReservation, bookVars
  <2>3. Booked' = Booked
    BY <2>2 DEF Booked
  <2>4. \A e \in DeskCalls : e # d => /\ deskPc'[e] = deskPc[e] /\ deskRes'[e] = deskRes[e]
                                     /\ deskOp'[e] = deskOp[e] /\ deskTable'[e] = deskTable[e]
    BY <2>1, <2>2
  <2>5. deskPc'[d] = "update" /\ deskRes'[d] = b
    BY <2>1, <2>2
  <2>6. contended \subseteq contended' /\ contended' \subseteq Booked'
    BY <2>1, <2>3
  <2>7. ASSUME NEW e \in DeskCalls, Busy(e), deskRes[e] = b PROVE b \in contended'
    BY <2>1, <2>7
  <2>8. \A e, f \in DeskCalls : e # f /\ Busy(e)' /\ Busy(f)' /\ deskRes'[e] = deskRes'[f]
          => deskRes'[e] \in contended'
    BY <2>4, <2>5, <2>6, <2>7 DEF Busy
  <2>9. QED BY <2>2, <2>4, <2>5, <2>6, <2>8 DEF Busy
<1>4. ASSUME NEW d \in DeskCalls, UpdateReservation(d) PROVE DeskInv'
  <2> DEFINE b == deskRes[d]
             t == IF deskTable[d] # None THEN deskTable[d] ELSE resTable[b]
  <2>1. b \in Bookings /\ resStatus[b] # NoBooking /\ deskPc[d] = "update"
    BY <1>0, <1>4 DEF UpdateReservation, Booked
  <2>2. /\ resStatus' = [resStatus EXCEPT ![b] = StatusOf(deskOp[d])]
        /\ resTable'  = [resTable EXCEPT ![b] = t]
        /\ deskTable' = [deskTable EXCEPT ![d] = t]
        /\ deskPc'    = [deskPc EXCEPT ![d] = IF t = None THEN "done" ELSE "table"]
        /\ deskLoose' = IF resTable[b] \notin {t, None} THEN deskLoose \cup {resTable[b]}
                                                        ELSE deskLoose
        /\ UNCHANGED <<deskOp, deskRes, contended>>
    BY <1>4 DEF UpdateReservation
  <2>3. deskOp[d] \in DeskOps
    BY <2>1 DEF ReservationsTypeOK
  <2>4. StatusOf(deskOp[d]) # NoBooking
    BY <2>3 DEF StatusOf, DeskOps, NoBooking
  <2>5. Booked' = Booked
    BY <2>1, <2>2, <2>4 DEF Booked
  <2>6. \A e \in DeskCalls : e # d => deskPc'[e] = deskPc[e] /\ deskTable'[e] = deskTable[e]
    BY <2>2
  <2>7. \A a \in Bookings : a # b => resStatus'[a] = resStatus[a] /\ resTable'[a] = resTable[a]
    BY <2>2
  <2>8. /\ resTable'[b] = t /\ resStatus'[b] = StatusOf(deskOp[d]) /\ deskTable'[d] = t
        /\ deskPc'[d] \in {"done", "table"} /\ deskLoose \subseteq deskLoose'
        /\ resTable[b] = t \/ resTable[b] = None \/ resTable[b] \in deskLoose'
    BY <2>1, <2>2
  <2>9. \A e \in DeskCalls : deskPc[e] = "table" => deskTable[e] \in Tables /\ deskTable[e] # None
    BY NoneAssumption DEF ReservationsTypeOK
  <2> HIDE DEF b, t
  <2>10. \A e \in DeskCalls : e # d /\ Busy(e) /\ deskRes[e] = b => b \in contended
    BY <2>1 DEF b
  <2>11. \A e \in DeskCalls : Busy(e)' => Busy(e)
    BY <2>1, <2>6
  <2>12. ASSUME NEW e \in DeskCalls, deskPc'[e] = "table"
         PROVE  /\ resTable'[deskRes[e]] = deskTable'[e] \/ deskTable'[e] \in deskLoose'
                /\ deskRes[e] \notin contended =>
                     /\ resTable'[deskRes[e]] = deskTable'[e]
                     /\ resStatus'[deskRes[e]] = StatusOf(deskOp[e])
    <3>1. CASE e = d
      BY <2>8, <3>1 DEF b
    <3>2. CASE e # d /\ deskRes[e] = b
      BY <2>6, <2>8, <2>9, <2>10, <2>12, <3>2
    <3>3. CASE e # d /\ deskRes[e] # b
      <4>1. deskPc[e] = "table" /\ deskRes[e] \in Bookings
        BY <1>0, <2>6, <2>12, <3>3 DEF Booked
      <4>2. QED BY <2>6, <2>7, <2>8, <3>3, <4>1
    <3>4. QED BY <3>1, <3>2, <3>3
  <2>13. QED BY <2>2, <2>5, <2>11, <2>12
<1>5. ASSUME NEW d \in DeskCalls, UpdateReservedTable(d) PROVE DeskInv'
  BY <1>5 DEF UpdateReservedTable, bookVars, Booked
<1>6. ASSUME NEW d \in DeskCalls, LoseDeskCall(d) PROVE DeskInv'
  BY <1>6 DEF LoseDeskCall, bookVars, Booked
<1>7. QED BY <1>1, <1>2, <1>3, <1>4, <1>5, <1>6 DEF DeskMove, BookStep, DeskStep

\* Orders and scans never make a table RESERVED; only staff do, by hand.
LEMMA NotReservedByOrders ==
    ASSUME TypeOK, [Next]_vars, NEW t \in Tables, t \notin handEdited',
           tableStatus'[t] = "RESERVED"
    PROVE  tableStatus[t] = "RESERVED"
<1> tableStatus \in [Tables -> TableStatus]
  BY DEF TypeOK, TablesTypeOK
<1>1. CASE \E r \in Requests : PlaceOrder(r)
  BY <1>1 DEF PlaceOrder, SyncLookup, FindByOfflineGuid, CheckCoupon, CheckSession,
     InsertOrder, OccupyTable, SeatOrder, requestVars, visitVars, tableVars
<1>2. CASE StaffStep
  BY <1>2 DEF StaffStep, ConfirmByCashier, CompleteByKitchen, CompleteOrder,
     UpdateOrderStatus, WriteStatus, ManualTableEdit, UpdateTable, visitVars, tableVars
<1>3. CASE \E x \in releasing : ReleaseTable(x)
  BY <1>3 DEF ReleaseTable
<1>4. CASE \E x \in closing : CloseTableSession(x)
  BY <1>4 DEF CloseTableSession, DeleteSession, tableVars
<1>5. CASE TablesStep
  BY <1>5 DEF TablesStep, ContinueScan, ReadTable, ReadSession, OpenSession, SaveTable,
     ExpireSession, tableVars
<1>6. CASE CouponsStep
  BY <1>6 DEF CouponsStep, visitVars, tableVars
<1>7. CASE InstanceDies
  BY <1>7 DEF InstanceDies, LoseRequest, LoseRelease, LoseClose, LoseScan, visitVars,
     tableVars
<1>8. CASE UNCHANGED vars
  BY <1>8 DEF vars, visitVars, tableVars
<1>9. QED BY <1>1, <1>2, <1>3, <1>4, <1>5, <1>6, <1>7, <1>8 DEF Next

\* A confirmed booking is on the table, or the desk is not done with it.
Claimed(t) ==
    \/ \E b \in Booked : resTable[b] = t /\ resStatus[b] = "CONFIRMED"
    \/ \E d \in DeskCalls : deskPc[d] = "table" /\ deskTable[d] = t
    \/ t \in deskLoose
    \/ \E b \in contended : resTable[b] = t

LEMMA ClaimedSays ==
    ASSUME NEW t
    PROVE  Claimed(t) <=> \/ \E b \in Booked : resTable[b] = t /\ resStatus[b] = "CONFIRMED"
                          \/ t \in Unsettled
BY DEF Claimed, Unsettled

\* A claim on a table ends only with the write of its status.
LEMMA ClaimStays ==
    ASSUME ReservationsTypeOK, BookInv, DeskInv, DeskMove, NEW t \in Tables, Claimed(t)
    PROVE  Claimed(t)' \/ \E d \in DeskCalls : UpdateReservedTable(d) /\ deskTable[d] = t
<1> USE DEF Claimed
<1> /\ resStatus \in [Bookings -> ReservationStatus \cup {NoBooking}]
    /\ resTable  \in [Bookings -> Tables \cup {None}]
    /\ deskPc \in [DeskCalls -> DeskPc]
    /\ deskRes \in [DeskCalls -> Bookings \cup {None}]
    /\ deskTable \in [DeskCalls -> Tables \cup {None}]
    /\ t # None
  BY NoneAssumption DEF ReservationsTypeOK
<1>1. ASSUME NEW b \in Bookings, CheckOverlap(b) \/ NotifyGuest(b) \/ LoseBooking(b)
      PROVE  Claimed(t)'
  BY <1>1 DEF CheckOverlap, NotifyGuest, LoseBooking, callVars, Booked
<1>2. ASSUME NEW b \in Bookings, InsertReservation(b) PROVE Claimed(t)'
  <2>1. b \notin Booked
    BY <1>2 DEF InsertReservation, BookInv, Booked
  <2>2. \A a \in Bookings : a # b => resStatus'[a] = resStatus[a] /\ resTable'[a] = resTable[a]
    BY <1>2 DEF InsertReservation
  <2>3. Booked \subseteq Booked' /\ contended \subseteq Booked
    BY <1>2 DEF InsertReservation, Booked, NoBooking, DeskInv
  <2>4. UNCHANGED <<callVars, contended, deskLoose>>
    BY <1>2 DEF InsertReservation
  <2>5. Booked \subseteq Bookings
    BY DEF Booked
  <2>6. QED BY <2>1, <2>2, <2>3, <2>4, <2>5 DEF callVars
<1>3. ASSUME NEW d \in DeskCalls, FindReservation(d) PROVE Claimed(t)'
  <2>1. /\ deskPc[d] = "idle" /\ UNCHANGED <<resStatus, resTable, deskLoose>>
        /\ \A e \in DeskCalls : e # d => deskPc'[e] = deskPc[e] /\ deskTable'[e] = deskTable[e]
        /\ contended \subseteq contended'
    BY <1>3 DEF FindReservation, bookVars
  <2>2. QED BY <2>1 DEF Booked
<1>4. ASSUME NEW d \in DeskCalls, UpdateReservation(d) PROVE Claimed(t)'
  <2> DEFINE b == deskRes[d]
             u == IF deskTable[d] # None THEN deskTable[d] ELSE resTable[b]
  <2>1. b \in Bookings /\ resStatus[b] # NoBooking /\ deskPc[d] = "update"
    BY <1>4 DEF UpdateReservation, BookInv, Booked, Busy
  <2>2. /\ resStatus' = [resStatus EXCEPT ![b] = StatusOf(deskOp[d])]
        /\ resTable'  = [resTable EXCEPT ![b] = u]
        /\ deskTable' = [deskTable EXCEPT ![d] = u]
        /\ deskPc'    = [deskPc EXCEPT ![d] = IF u = None THEN "done" ELSE "table"]
        /\ deskLoose' = IF resTable[b] \notin {u, None} THEN deskLoose \cup {resTable[b]}
                                                        ELSE deskLoose
        /\ UNCHANGED contended
    BY <1>4 DEF UpdateReservation
  <2> HIDE DEF b, u
  <2>3. deskLoose \subseteq deskLoose'
    BY <2>2
  <2>4. CASE resTable[b] = t
    <3>1. u = t => deskPc'[d] = "table" /\ deskTable'[d] = t
      BY <2>2
    <3>2. u # t => t \in deskLoose'
      BY <2>2, <2>4
    <3>3. QED BY <3>1, <3>2
  <2>5. CASE resTable[b] # t
    <3>1. \A a \in Booked : resTable[a] = t => a # b /\ a \in Booked' /\ resTable'[a] = t
                                               /\ resStatus'[a] = resStatus[a]
      BY <2>2, <2>5 DEF Booked
    <3>2. \A e \in DeskCalls : deskPc[e] = "table" =>
             e # d /\ deskPc'[e] = "table" /\ deskTable'[e] = deskTable[e]
      BY <2>1, <2>2
    <3>3. contended \subseteq Booked
      BY DEF DeskInv
    <3>4. QED BY <2>2, <2>3, <3>1, <3>2, <3>3
  <2>6. QED BY <2>4, <2>5
<1>5. ASSUME NEW d \in DeskCalls, UpdateReservedTable(d), deskTable[d] # t PROVE Claimed(t)'
  BY <1>5 DEF UpdateReservedTable, bookVars, Booked
<1>6. ASSUME NEW d \in DeskCalls, LoseDeskCall(d) PROVE Claimed(t)'
  BY <1>6 DEF LoseDeskCall, bookVars, Booked
<1>7. QED BY <1>1, <1>2, <1>3, <1>4, <1>5, <1>6 DEF DeskMove, BookStep, DeskStep

LEMMA ReservedStep ==
    ASSUME FrontTypeOK, BookInv, DeskInv, ReservedTableHasReservation, [FrontNext]_frontVars
    PROVE  ReservedTableHasReservation'
<1> TypeOK /\ ReservationsTypeOK
  BY DEF FrontTypeOK
<1> SUFFICES ASSUME NEW t \in Tables, t \notin handEdited', tableStatus'[t] = "RESERVED"
             PROVE  Claimed(t)'
  BY DEF ReservedTableHasReservation, Claimed, Unsettled
<1>0. t \notin handEdited /\ tableStatus[t] = "RESERVED" => Claimed(t)
  BY ClaimedSays DEF ReservedTableHasReservation
<1>1. UNCHANGED deskVars /\ Claimed(t) => Claimed(t)'
  BY DEF Claimed, Booked, deskVars, bookVars, callVars
<1>2. CASE [Next]_vars /\ UNCHANGED <<deskVars, chatVars>>
  BY <1>0, <1>1, <1>2, HandEditsStay, NotReservedByOrders
<1>3. CASE DeskMove
  <2>1. UNCHANGED handEdited
    BY <1>3, DeskWrites DEF releaseVars, staffVars
  <2>2. ASSUME NEW d \in DeskCalls, UpdateReservedTable(d), deskTable[d] = t
        PROVE  Claimed(t)'
    <3>1. deskPc[d] = "table" /\ deskOp[d] \in DeskOps /\ tableStatus \in [Tables -> TableStatus]
      BY <2>2 DEF UpdateReservedTable, ReservationsTypeOK, TypeOK, TablesTypeOK
    <3>2. deskOp[d] = "confirm"
      BY <2>2, <3>1 DEF UpdateReservedTable, TableStatusOf, DeskOps
    <3>3. deskRes[d] \in Booked
      BY <3>1 DEF BookInv, Busy
    <3>4. UNCHANGED <<resStatus, resTable, contended, deskLoose>>
      BY <2>2 DEF UpdateReservedTable, bookVars
    <3>5. StatusOf(deskOp[d]) = "CONFIRMED"
      BY <3>2 DEF StatusOf
    <3>6. QED BY <2>2, <3>1, <3>3, <3>4, <3>5 DEF DeskInv, Claimed, Booked
  <2>3. ASSUME \A d \in DeskCalls : UpdateReservedTable(d) => deskTable[d] # t
        PROVE  Claimed(t)'
    <3>1. tableStatus \in [Tables -> TableStatus]
      BY DEF TypeOK, TablesTypeOK
    <3>2. tableStatus'[t] = tableStatus[t]
      BY <1>3, <2>3, <3>1, DeskWrites DEF UpdateReservedTable
    <3>3. QED BY <1>0, <1>3, <2>1, <2>3, <3>2, ClaimStays
  <2>4. QED BY <2>2, <2>3
<1>4. CASE ChatMove
  BY <1>0, <1>1, <1>4 DEF ChatMove, releaseVars, staffVars, visitVars, tableVars
<1>5. QED BY <1>2, <1>3, <1>4, FrontSteps

\* DeskInv for every instance: what a staff request under way may count on.
THEOREM DeskKept == FrontSpec => []DeskInv
<1>1. FrontInit => DeskInv
  BY DEF FrontInit, ReservationsInit, DeskInv, Booked, Busy
<1>2. FrontTypeOK /\ BookInv /\ DeskInv /\ [FrontNext]_frontVars => DeskInv'
  <2> SUFFICES ASSUME FrontTypeOK, BookInv, DeskInv, [FrontNext]_frontVars PROVE DeskInv'
    OBVIOUS
  <2>1. CASE UNCHANGED deskVars
    BY <2>1 DEF DeskInv, Booked, Busy, deskVars, bookVars, callVars
  <2>2. CASE DeskMove
    BY <2>2, DeskInvStep DEF FrontTypeOK
  <2>3. QED BY <2>1, <2>2, FrontSteps DEF ChatMove
<1>3. QED BY <1>1, <1>2, FrontTypes, BookingsKept, PTL DEF FrontSpec

\* A table says RESERVED only while a confirmed booking is on it, unless the desk still
\* has to write it, left it behind, had two requests on one booking, or staff set it by hand.
THEOREM ReservedTablesClaimed == FrontSpec => []ReservedTableHasReservation
<1>1. FrontInit => ReservedTableHasReservation
  BY DEF FrontInit, Init, TablesInit, ReservedTableHasReservation
<1>2. FrontTypeOK /\ BookInv /\ DeskInv /\ ReservedTableHasReservation
        /\ [FrontNext]_frontVars => ReservedTableHasReservation'
  BY ReservedStep
<1>3. QED BY <1>1, <1>2, FrontTypes, BookingsKept, DeskKept, PTL DEF FrontSpec

-----------------------------------------------------------------------------
(* What a scan hands out.                                                   *)

\* A scan that is through was given a session that a scan of its table opened.
HandedInv ==
    \A s \in Scans : scanPc[s] \in {"occupy", "done"} =>
        scanSid[s] \in opened /\ scanTable[scanSid[s]] = scanTable[s]

\* Nothing is taken back: sessions stay opened, for their table, and a scan that is done
\* keeps its answer.
ScansKeep ==
    /\ opened \subseteq opened'
    /\ \A sid \in opened : scanTable'[sid] = scanTable[sid]
    /\ \A s \in Scans : scanPc[s] = "done" => scanPc'[s] = "done" /\ scanSid'[s] = scanSid[s]

LEMMA ScanStep ==
    ASSUME TypeOK, SessionInv, HandedInv, [Next]_vars PROVE ScansKeep /\ HandedInv'
<1> /\ session \in [Tables -> Scans \cup {None}]
    /\ scanPc \in [Scans -> ScanPc]
    /\ scanTable \in [Scans -> Tables \cup {None}]
    /\ scanSid \in [Scans -> Scans \cup {None}]
    /\ opened \subseteq Scans
    /\ \A s \in Scans : scanPc[s] # "new" => scanTable[s] \in Tables
  BY DEF TypeOK, TablesTypeOK
<1> /\ \A s \in opened : scanPc[s] \in {"occupy", "done", "lost"}
    /\ \A t \in Tables : session[t] # None => session[t] \in opened /\ scanTable[session[t]] = t
  BY DEF SessionInv
<1> USE DEF ScansKeep, HandedInv
<1>1. ASSUME NEW s \in Scans, ReadSession(s) PROVE ScansKeep /\ HandedInv'
  BY <1>1 DEF ReadSession, sessionVars
<1>2. ASSUME NEW s \in Scans, OpenSession(s) PROVE ScansKeep /\ HandedInv'
  BY <1>2 DEF OpenSession
<1>3. ASSUME NEW s \in Scans, SaveTable(s) \/ LoseScan(s) PROVE ScansKeep /\ HandedInv'
  BY <1>3 DEF SaveTable, LoseScan, sessionVars
<1>4. ASSUME NEW s \in Scans, NEW t \in Tables, ReadTable(s, t) PROVE ScansKeep /\ HandedInv'
  BY <1>4 DEF ReadTable, sessionVars
<1>5. CASE UNCHANGED <<opened, scanVars>>
  BY <1>5 DEF scanVars
<1>6. QED
  BY <1>1, <1>2, <1>3, <1>4, <1>5, SessionSteps DEF ContinueScan, ExpireSession,
     CloseTableSession, DeleteSession, WriteStatus, LoseRequest, visitVars, sessionVars

-----------------------------------------------------------------------------
(* Chats.                                                                   *)

\* A token stands for the session its scan handed out; chat sessions and bindings name
\* opened sessions; a bind under way holds a session; a token that was used up is gone.
ChatInv ==
    /\ \A s \in Scans :
         /\ chatPc[s] # "none" => scanPc[s] = "done"
         /\ tokenSid[s] # None => chatPc[s] = "minted" /\ tokenSid[s] = scanSid[s]
         /\ s \in spent => chatPc[s] = "minted" /\ tokenSid[s] = None
         /\ chatSession[s] # None => s \in opened /\ chatSession[s] = scanTable[s]
    /\ \A c \in Chats : binding[c] # None => binding[c] \in opened
    /\ \A k \in Binds :
         /\ bindSid[k] # None => /\ bindToken[k] \in Scans /\ chatPc[bindToken[k]] = "minted"
                                 /\ bindSid[k] = scanSid[bindToken[k]]
         /\ bindPc[k] \in {"session", "bind", "drop"} => bindSid[k] # None
    /\ lateReads = {}

LEMMA ChatStep ==
    ASSUME TypeOK, ChatTypeOK, HandedInv, ChatInv, ChatMove PROVE ChatInv'
<1> /\ scanPc \in [Scans -> ScanPc]
    /\ scanSid \in [Scans -> Scans \cup {None}]
    /\ scanTable \in [Scans -> Tables \cup {None}]
    /\ opened \subseteq Scans
  BY DEF TypeOK, TablesTypeOK
<1> /\ chatSession  \in [Scans -> Tables \cup {None}]
    /\ tokenSid     \in [Scans -> Scans \cup {None}]
    /\ binding      \in [Chats -> Scans \cup {None}]
    /\ chatPc       \in [Scans -> ChatPc]
    /\ bindPc       \in [Binds -> BindPc]
    /\ bindToken \in [Binds -> Scans \cup {None}]
    /\ bindSid   \in [Binds -> Scans \cup {None}]
    /\ bindChat  \in [Binds -> Chats \cup {None}]
    /\ spent \subseteq Scans
    /\ \A k \in Binds : bindPc[k] \in {"session", "bind", "drop"} => bindToken[k] \in Scans
  BY DEF ChatTypeOK
<1>0. UNCHANGED <<scanPc, scanSid, scanTable, opened>>
  BY DEF ChatMove, visitVars, sessionVars, scanVars
<1> USE <1>0 DEF ChatInv, chatKeys, bindVars
<1>1. ASSUME NEW k \in Binds, NEW s \in Scans, NEW c \in Chats, ReadToken(k, s, c)
      PROVE  ChatInv'
  BY <1>1 DEF ReadToken
<1>2. ASSUME NEW k \in Binds, ReadChatSession(k) PROVE ChatInv'
  BY <1>2 DEF ReadChatSession
<1>3. ASSUME NEW k \in Binds, SetBinding(k) PROVE ChatInv'
  <2>1. bindSid[k] # None /\ bindSid[k] \in opened
    BY <1>3 DEF SetBinding, HandedInv
  <2>2. QED BY <1>3, <2>1 DEF SetBinding
<1>4. ASSUME NEW k \in Binds, DropToken(k) PROVE ChatInv'
  BY <1>4 DEF DropToken
<1>5. ASSUME NEW k \in Binds, LoseBind(k) PROVE ChatInv'
  BY <1>5 DEF LoseBind
<1>6. ASSUME NEW s \in Scans, OpenChat(s) PROVE ChatInv'
  <2>1. scanSid[s] \in opened /\ scanTable[scanSid[s]] = scanTable[s]
    BY <1>6 DEF OpenChat, HandedInv
  <2>2. QED BY <1>6, <2>1 DEF OpenChat
<1>7. ASSUME NEW s \in Scans, MintToken(s) PROVE ChatInv'
  BY <1>7 DEF MintToken
<1>8. ASSUME NEW s \in Scans, CloseChat(s) \/ ExpireToken(s) \/ LoseChat(s) PROVE ChatInv'
  BY <1>8 DEF CloseChat, ExpireToken, LoseChat
<1>9. ASSUME NEW c \in Chats, ExpireBinding(c) \/ \E t \in Tables : SaveTableBinding(c, t)
      PROVE  ChatInv'
  BY <1>9 DEF ExpireBinding, SaveTableBinding
<1>10. QED
  BY <1>1, <1>2, <1>3, <1>4, <1>5, <1>6, <1>7, <1>8, <1>9 DEF ChatMove, BindStep

LEMMA ChatsStep ==
    ASSUME FrontTypeOK, VisitInv, HandedInv, ChatInv, [FrontNext]_frontVars
    PROVE  HandedInv' /\ ChatInv'
<1> TypeOK /\ ReservationsTypeOK /\ ChatTypeOK /\ SessionInv
  BY DEF FrontTypeOK, VisitInv
<1>1. CASE [Next]_vars /\ UNCHANGED <<deskVars, chatVars>>
  <2>1. ScansKeep /\ HandedInv'
    BY <1>1, ScanStep
  <2>2. UNCHANGED <<chatSession, tokenSid, binding, chatPc, bindPc, bindToken, bindSid, spent,
                    lateReads>>
    BY <1>1 DEF chatVars, chatKeys, bindVars
  <2>3. QED BY <2>1, <2>2 DEF ScansKeep, ChatInv
<1>2. ASSUME UNCHANGED <<scanVars, opened>> PROVE HandedInv'
  BY <1>2 DEF HandedInv, scanVars
<1>3. CASE DeskMove
  <2>1. UNCHANGED <<scanVars, opened, chatVars>>
    BY <1>3, DeskWrites DEF notTable, sessionVars
  <2>2. QED BY <1>2, <2>1 DEF ChatInv, chatVars, chatKeys, bindVars, scanVars
<1>4. CASE ChatMove
  <2>1. UNCHANGED <<scanVars, opened>>
    BY <1>4 DEF ChatMove, visitVars, sessionVars
  <2>2. QED BY <1>2, <1>4, <2>1, ChatStep
<1>5. QED BY <1>1, <1>3, <1>4, FrontSteps

\* HandedInv and ChatInv for every instance: what tokens, chat sessions and bindings say.
THEOREM ChatsKept == FrontSpec => [](HandedInv /\ ChatInv)
<1>1. FrontInit => HandedInv /\ ChatInv
  BY DEF FrontInit, Init, TablesInit, ChatInit, HandedInv, ChatInv
<1>2. FrontTypeOK /\ VisitInv /\ (HandedInv /\ ChatInv) /\ [FrontNext]_frontVars
        => (HandedInv /\ ChatInv)'
  BY ChatsStep
<1>3. QED BY <1>1, <1>2, FrontTypes, VisitsKept, PTL DEF FrontSpec

\* No bind reads a token that another one has used up.
THEOREM SpentTokensStaySpent == FrontSpec => []SpentTokenStaysSpent
<1>1. ChatInv => SpentTokenStaysSpent
  BY DEF ChatInv, SpentTokenStaysSpent
<1>2. QED BY <1>1, ChatsKept, PTL

\* A chat is served for a table that somebody scanned, through a session opened there.
THEOREM ChatsServeScannedTables == FrontSpec => []ChatServedForScannedTable
<1>1. ChatTypeOK /\ ChatInv => ChatServedForScannedTable
  BY DEF ChatTypeOK, ChatInv, ChatServedForScannedTable
<1>2. FrontTypeOK => ChatTypeOK
  BY DEF FrontTypeOK
<1>3. QED BY <1>1, <1>2, FrontTypes, ChatsKept, PTL
=============================================================================
