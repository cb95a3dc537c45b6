------------------------------ MODULE FrontDesk ------------------------------
(***************************************************************************)
(* Everything that touches the tables of a branch at once: the orders and   *)
(* scans of OrderPlacement, the Reservations that write Table.status next   *)
(* to them, and the ChatSessions that scans open.                           *)
(***************************************************************************)
EXTENDS OrderPlacement, Reservations, ChatSessions

CONSTANTS MaxStarted,     \* bound on requests of all kinds: scans, orders, bookings, ...
          MaxChatWrites   \* bound on closes, table bindings and TTLs of the chat keys

VARIABLE chatWrites

frontVars == <<vars, deskVars, deskWrote, chatVars, chatWrites>>
notDesk   == <<orderVars, couponVars, chatVars, chatWrites>>
notChat   == <<orderVars, couponVars, visitVars, deskVars, deskWrote>>

FrontInit == Init /\ ReservationsInit /\ ChatInit /\ chatWrites = 0

\* Whoever else changes a table takes it from the staff request that wrote it.
OrdersAndScans ==
    /\ Next
    /\ deskWrote' = {t \in deskWrote : /\ tableStatus'[t]  = tableStatus[t]
                                      /\ currentOrder'[t] = currentOrder[t]}
    /\ UNCHANGED <<deskVars, chatVars, chatWrites>>

DeskCall ==
    /\ \/ \E b \in Bookings : BookStep(b)
       \/ \E d \in DeskCalls : FindReservation(d) \/ DeskStep(d)
    /\ UNCHANGED notDesk

\* The 90-minute TTL of a chat session does what closing it does.
ChatCall ==
    /\ \/ /\ \/ \E k \in Binds : BindStep(k) \/ \E s \in Scans, c \in Chats : ReadToken(k, s, c)
             \/ \E s \in Scans : OpenChat(s) \/ MintToken(s)
          /\ UNCHANGED chatWrites
       \/ /\ chatWrites < MaxChatWrites
          /\ chatWrites' = chatWrites + 1
          /\ \/ \E s \in Scans : CloseChat(s) \/ ExpireToken(s)
             \/ \E c \in Chats : ExpireBinding(c) \/ \E t \in Tables : SaveTableBinding(c, t)
    /\ UNCHANGED notChat

FrontInstanceDies ==
    /\ lostTasks < MaxLost
    /\ lostTasks' = lostTasks + 1
    /\ \/ /\ \/ \E b \in Bookings : LoseBooking(b)
             \/ \E d \in DeskCalls : LoseDeskCall(d)
          /\ UNCHANGED chatVars
       \/ /\ \/ \E s \in Scans : LoseChat(s)
             \/ \E k \in Binds : LoseBind(k)
          /\ UNCHANGED <<visitVars, deskVars, deskWrote>>
    /\ UNCHANGED <<placeVars, releaseVars, couponVars, chatWrites>>

\* The requests of every kind that have begun.
Started == Cardinality({s \in Scans : scanPc[s] # "new"})
           + Cardinality({r \in Requests : reqPc[r] # "arrived"})
           + Cardinality({b \in Bookings : bookPc[b] # "new"})
           + Cardinality({d \in DeskCalls : deskPc[d] # "idle"})
           + Cardinality({k \in Binds : bindPc[k] # "new"})

FrontNext == /\ OrdersAndScans \/ DeskCall \/ ChatCall \/ FrontInstanceDies
             /\ Started' <= MaxStarted

FrontSpec == FrontInit /\ [][FrontNext]_frontVars

-----------------------------------------------------------------------------
FrontTypeOK == TypeOK /\ ReservationsTypeOK /\ ChatTypeOK /\ chatWrites \in Nat

\* A table says RESERVED only while a confirmed reservation is on it, except where a staff
\* request still has to write it or died before it did, a confirm moved the reservation to
\* another table (nobody frees the old one), two staff requests had one reservation at once,
\* or staff set the table by hand (reservations/service.ts:70-81, 92-102, 113-123, 134-144).
ReservedTableHasReservation ==
    \A t \in Tables \ handEdited : tableStatus[t] = "RESERVED" =>
        \/ \E b \in Booked : resTable[b] = t /\ resStatus[b] = "CONFIRMED"
        \/ t \in Unsettled

\* A table with guests says something other than OCCUPIED only while the last to write it was
\* a staff request for one of its reservations, and it says what that request came for: a
\* confirm, a cancellation or a no-show that landed after the order sat down, looking at no
\* order (reservations/service.ts:78-80, 120-122, 141-143).  Whatever the desk wrote before,
\* the next order to sit down and the next scan make the table OCCUPIED again, and the
\* release takes the order off it (orders/service.ts:110-116, 360-366, tables:123-126).
OnlyDeskMisleadsTable ==
    \A t \in Tables \ handEdited :
        currentOrder[t] # None /\ tableStatus[t] # "OCCUPIED" =>
            /\ t \in deskWrote
            /\ \E d \in DeskCalls : /\ deskPc[d] = "done" /\ deskTable[d] = t
                                    /\ tableStatus[t] = TableStatusOf(deskOp[d])

\* A chat is served for the table somebody scanned: its session id was opened by a scan of
\* that table, also when the scan was given the session of an earlier one and when the chat
\* session was closed and opened again (tables/service.ts:147-153, chat-sessions:66-81).
ChatServedForScannedTable ==
    /\ \A c \in Chats : binding[c] # None => binding[c] \in opened
    /\ \A sid \in Scans : chatSession[sid] # None =>
          sid \in opened /\ chatSession[sid] = scanTable[sid]
    /\ \A k \in Binds : bindSid[k] # None =>
          bindToken[k] \in Scans /\ bindSid[k] = scanSid[bindToken[k]]
=============================================================================
