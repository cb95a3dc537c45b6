---------------------------- MODULE OrderPlacement ----------------------------
(***************************************************************************)
(* modules/orders/service.ts on the MongoDB and cache side: the createOrder *)
(* pipeline behind its four routes, the status writes of cashier, kitchen   *)
(* and staff, and what they do to the tables and sessions (TableSessions)   *)
(* and to the coupons (Coupons).  The Firestore side is OrderProjections.   *)
(*                                                                          *)
(* A request runs one action per await; an order is named by the request    *)
(* that created it.                                                         *)
(*                                                                          *)
(*   arrived -> [coupon] -> [session] -> insert -> [occupy] -> created      *)
(*      |           |           |                                           *)
(*      existing    rejected    rejected                                    *)
(*                                                                          *)
(* An order of an offline batch waits for the one before it (syncLookup).   *)
(* A terminal status write leaves a release of the table to do, and the     *)
(* release leaves the deletion of the session, which nobody awaits.         *)
(***************************************************************************)
EXTENDS TableSessions, Coupons

CONSTANTS Req,             \* [Requests -> what the request asks for]
          Guids,           \* offlineGuids
          Transactional,   \* FALSE: a standalone MongoDB (withTransactionOrFallback)
          StaffStatuses,   \* statuses staff write
          ManualStatuses, ManualOrders,  \* what staff set on a table by hand
          MaxStaffWrites,  \* bound on status writes and manual table edits
          MaxLost          \* bound on tasks that die with their instance

OrderStatus   == {"PENDING", "CONFIRMED", "PREPARING", "READY", "SERVED", "PAID",
                  "COMPLETED", "CANCELLED"}
Terminal      == {"PAID", "COMPLETED", "CANCELLED"}
NoOrder       == "NONE"   \* orderStatus of a request that has created nothing
ReqKinds      == {"qr", "staff", "customer", "sync"}

\* seats: the channel is DINE_IN and the table is one of the order's branch.
RequestRecord == [kind: ReqKinds, table: Tables \cup {None}, seats: BOOLEAN,
                  coupon: Coupons \cup {None}, subtotal: Nat,
                  guid: Guids \cup {None}, after: Requests \cup {None}]

ASSUME ReqAssumption == Req \in [Requests -> RequestRecord]
ASSUME NoneAssumption == None \notin Requests \cup Tables \cup Scans \cup Guids
ASSUME TransactionalAssumption == Transactional \in BOOLEAN
ASSUME StaffAssumption == /\ StaffStatuses \subseteq OrderStatus
                          /\ ManualStatuses \subseteq TableStatus
                          /\ ManualOrders \subseteq Requests \cup {None}
ASSUME LimitsAssumption == /\ InitialLimit \in [Coupons -> (Nat \ {0}) \cup {NoLimit}]
                           /\ NewLimits \subseteq Nat \ {0}

VARIABLES orderStatus, reqPc,
          reqSid,    \* tableSessionId of the dto
          seenAt,    \* history: the orders that existed at the offlineGuid lookup
          releasing, \* table releases to do after a terminal status write
          closing,   \* session deletions to do after a release
          lostReleases, \* history: orders whose table release died
          handEdited,   \* history: tables staff edited by hand
          handSeated,   \* history: tables staff put an order on by hand
          staffWrites, lostTasks

placeVars   == <<orderStatus, reqPc, reqSid, seenAt>>
staffVars   == <<handEdited, handSeated, staffWrites>>
releaseVars == <<releasing, closing, lostReleases, staffVars>>
requestVars == <<orderStatus, reqSid, seenAt, releaseVars, lostTasks>>  \* all but reqPc
orderVars   == <<placeVars, releaseVars, lostTasks>>
visitVars   == <<tableVars, sessionVars, scanVars>>
vars        == <<orderVars, visitVars, couponVars>>

ReqPc == {"waiting", "skipped", "arrived", "existing", "coupon", "session", "rejected",
          "insert", "occupy", "created", "lost"}

Orders           == {o \in Requests : orderStatus[o] # NoOrder}
Goto(r, pc)      == reqPc' = [reqPc EXCEPT ![r] = pc]
OccupiesTable(r) == Req[r].seats /\ Req[r].table # None
NeedsSession(r)  == Req[r].kind = "qr" /\ Req[r].table # None
SameGuid(r, o)   == Req[r].guid # None /\ Req[o].guid = Req[r].guid
HandedOut        == {scanSid[s] : s \in {x \in Scans : scanPc[x] = "done"}}

\* The tableSessionId of the dto: a QR guest claims any session handed out before,
\* for any table, or one that was never opened (None).
ClaimableSids(r) == IF NeedsSession(r) THEN HandedOut \cup {None} ELSE {None}

Init ==
    /\ TablesInit /\ CouponsInit
    /\ orderStatus = [r \in Requests |-> NoOrder]
    /\ reqPc  = [r \in Requests |-> IF Req[r].kind = "sync" THEN "waiting" ELSE "arrived"]
    /\ reqSid = [r \in Requests |-> None]
    /\ seenAt = [r \in Requests |-> {}]
    /\ releasing = {} /\ closing = {} /\ lostReleases = {}
    /\ handEdited = {} /\ handSeated = {} /\ staffWrites = 0 /\ lostTasks = 0

-----------------------------------------------------------------------------
(* Placing an order.                                                       *)

\* syncOfflineOrders: the next order of the batch.  The loop stops for good when
\* createOrder throws.
SyncLookup(r) ==
    /\ reqPc[r] = "waiting"
    /\ Req[r].after # None => reqPc[Req[r].after] \in {"skipped", "existing", "created"}
    /\ Goto(r, IF Req[r].guid = None \/ \E o \in Orders : SameGuid(r, o)
               THEN "skipped" ELSE "arrived")
    /\ UNCHANGED <<requestVars, visitVars, couponVars>>

AfterCoupon(r) == IF NeedsSession(r) THEN "session" ELSE "insert"

AfterLookup(r) == IF Req[r].coupon # None THEN "coupon" ELSE AfterCoupon(r)

\* The dto is created whether or not its guid is already there.
FindByOfflineGuid_Blind(r) ==
    /\ reqPc[r] = "arrived"
    /\ Goto(r, AfterLookup(r))
    /\ seenAt' = [seenAt EXCEPT ![r] = Orders]
    /\ \E sid \in ClaimableSids(r) : reqSid' = [reqSid EXCEPT ![r] = sid]
    /\ UNCHANGED <<orderStatus, releaseVars, lostTasks, visitVars, couponVars>>

\* The use is recorded at the lookup, before the coupon is checked.
FindByOfflineGuid_UsesCoupon(r) ==
    /\ reqPc[r] = "arrived"
    /\ Goto(r, AfterLookup(r))
    /\ IF Req[r].coupon # None THEN ApplyCoupon(r, Req[r].coupon) ELSE UNCHANGED couponVars
    /\ UNCHANGED <<requestVars, visitVars>>

\* createOrder up to its first write: a dto whose offlineGuid is known gets the
\* existing order back.
FindByOfflineGuid(r) ==
    /\ reqPc[r] = "arrived"
    /\ Goto(r, IF \E o \in Orders : SameGuid(r, o) THEN "existing" ELSE AfterLookup(r))
    /\ seenAt' = [seenAt EXCEPT ![r] = Orders]
    /\ \E sid \in ClaimableSids(r) : reqSid' = [reqSid EXCEPT ![r] = sid]
    /\ UNCHANGED <<orderStatus, releaseVars, lostTasks, visitVars, couponVars>>

\* The use is recorded from here on, whatever becomes of the order.
CheckCoupon(r) ==
    /\ reqPc[r] = "coupon"
    /\ \/ /\ ValidCoupon(Req[r].coupon, Req[r].subtotal)
          /\ Goto(r, AfterCoupon(r))
          /\ ApplyCoupon(r, Req[r].coupon)
       \/ /\ ~ValidCoupon(Req[r].coupon, Req[r].subtotal)
          /\ Goto(r, "rejected")
          /\ UNCHANGED couponVars
    /\ UNCHANGED <<requestVars, visitVars>>

\* Any session open on the table will do, whichever the caller claims.
CheckSession_AnyOpen(r) ==
    /\ reqPc[r] = "session"
    /\ Goto(r, IF session[Req[r].table] # None THEN "insert" ELSE "rejected")
    /\ UNCHANGED <<requestVars, visitVars, couponVars>>

CheckSession(r) ==
    /\ reqPc[r] = "session"
    /\ Goto(r, IF SessionMatches(Req[r].table, reqSid[r]) THEN "insert" ELSE "rejected")
    /\ UNCHANGED <<requestVars, visitVars, couponVars>>

\* A table that is reserved stays so, whoever sits at it.
SeatOrder_KeepsReserved(r) ==
    /\ tableStatus'  = [tableStatus EXCEPT ![Req[r].table] = IF @ = "RESERVED" THEN @
                                                                              ELSE "OCCUPIED"]
    /\ currentOrder' = [currentOrder EXCEPT ![Req[r].table] = r]
    /\ UNCHANGED ordersServed

SeatOrder(r) ==
    /\ tableStatus'  = [tableStatus EXCEPT ![Req[r].table] = "OCCUPIED"]
    /\ currentOrder' = [currentOrder EXCEPT ![Req[r].table] = r]
    /\ UNCHANGED ordersServed

\* The transaction around the two writes is dropped, as on a standalone MongoDB.
InsertOrder_TwoWrites(r) ==
    /\ reqPc[r] = "insert"
    /\ orderStatus' = [orderStatus EXCEPT ![r] = "PENDING"]
    /\ Goto(r, IF OccupiesTable(r) THEN "occupy" ELSE "created")
    /\ UNCHANGED <<reqSid, seenAt, releaseVars, lostTasks, visitVars, couponVars>>

\* withTransactionOrFallback: the order and the table in one transaction, or, where
\* MongoDB has none, the order now and the table in OccupyTable.
InsertOrder(r) ==
    /\ reqPc[r] = "insert"
    /\ orderStatus' = [orderStatus EXCEPT ![r] = "PENDING"]
    /\ Goto(r, IF OccupiesTable(r) /\ ~Transactional THEN "occupy" ELSE "created")
    /\ IF OccupiesTable(r) /\ Transactional THEN SeatOrder(r) ELSE UNCHANGED tableVars
    /\ UNCHANGED <<reqSid, seenAt, releaseVars, lostTasks, sessionVars, scanVars,
                   couponVars>>

OccupyTable(r) ==
    /\ reqPc[r] = "occupy"
    /\ SeatOrder(r)
    /\ Goto(r, "created")
    /\ UNCHANGED <<requestVars, sessionVars, scanVars, couponVars>>

-----------------------------------------------------------------------------
(* Status writes.  findOneAndUpdate by id: no status is refused, none is    *)
(* compared with the one the caller saw.                                    *)

WriteStatus(o, st) ==
    /\ staffWrites < MaxStaffWrites
    /\ o \in Orders
    /\ orderStatus' = [orderStatus EXCEPT ![o] = st]
    /\ staffWrites' = staffWrites + 1
    /\ releasing'   = IF st \in Terminal /\ Req[o].table # None
                      THEN releasing \cup {[op |-> staffWrites, order |-> o,
                                            inc |-> IF st = "CANCELLED" THEN 0 ELSE 1]}
                      ELSE releasing
    /\ UNCHANGED <<reqPc, reqSid, seenAt, closing, lostReleases, handEdited, handSeated,
                   lostTasks, visitVars, couponVars>>

ConfirmByCashier(o)      == WriteStatus(o, "CONFIRMED")
CompleteByKitchen(o)     == WriteStatus(o, "READY")
CompleteOrder(o)         == WriteStatus(o, "COMPLETED")
UpdateOrderStatus(o, st) == WriteStatus(o, st)

\* The table is freed by id, whatever order it holds by now; the deletion of the
\* session is started and not awaited.
ReleaseTable_KeepsOrder(x) ==
    LET t == Req[x.order].table IN
    /\ x \in releasing
    /\ tableStatus'  = [tableStatus EXCEPT ![t] = "AVAILABLE"]
    /\ ordersServed' = [ordersServed EXCEPT ![t] = @ + x.inc]
    /\ releasing'    = releasing \ {x}
    /\ closing'      = closing \cup {[op |-> x.op, table |-> t]}
    /\ UNCHANGED <<placeVars, staffVars, lostReleases, lostTasks, currentOrder, sessionVars,
                   scanVars, couponVars>>

ReleaseTable(x) ==
    LET t == Req[x.order].table IN
    /\ x \in releasing
    /\ tableStatus'  = [tableStatus EXCEPT ![t] = "AVAILABLE"]
    /\ currentOrder' = [currentOrder EXCEPT ![t] = None]
    /\ ordersServed' = [ordersServed EXCEPT ![t] = @ + x.inc]
    /\ releasing'    = releasing \ {x}
    /\ closing'      = closing \cup {[op |-> x.op, table |-> t]}
    /\ UNCHANGED <<placeVars, staffVars, lostReleases, lostTasks, sessionVars, scanVars,
                   couponVars>>

CloseTableSession(x) ==
    /\ x \in closing
    /\ closing' = closing \ {x}
    /\ DeleteSession(x.table)
    /\ UNCHANGED <<placeVars, staffVars, releasing, lostReleases, lostTasks, couponVars>>

\* An order put on the table by hand need not be one for this table.
ManualTableEdit(t, st, o) ==
    /\ staffWrites < MaxStaffWrites
    /\ staffWrites' = staffWrites + 1
    /\ handEdited'  = handEdited \cup {t}
    /\ handSeated'  = IF o \in {None, currentOrder[t]} THEN handSeated
                                                       ELSE handSeated \cup {t}
    /\ UpdateTable(t, st, o)
    /\ UNCHANGED <<placeVars, releasing, closing, lostReleases, lostTasks, couponVars>>

-----------------------------------------------------------------------------
(* A serverless instance dies with the work it had in flight.  Each task is *)
(* lost on its own, so any subset of them can be.                           *)

LoseRequest(r) ==
    /\ reqPc[r] \in {"coupon", "session", "insert", "occupy"}
    /\ Goto(r, "lost")
    /\ UNCHANGED <<orderStatus, reqSid, seenAt, releaseVars, visitVars, couponVars>>

LoseRelease(x) ==
    /\ releasing'    = releasing \ {x}
    /\ lostReleases' = lostReleases \cup {x.order}
    /\ UNCHANGED <<placeVars, staffVars, closing, visitVars, couponVars>>

LoseClose(x) ==
    /\ closing' = closing \ {x}
    /\ UNCHANGED <<placeVars, staffVars, releasing, lostReleases, visitVars, couponVars>>

InstanceDies ==
    /\ lostTasks < MaxLost
    /\ lostTasks' = lostTasks + 1
    /\ \/ \E r \in Requests : LoseRequest(r)
       \/ \E x \in releasing : LoseRelease(x)
       \/ \E x \in closing : LoseClose(x)
       \/ \E s \in Scans : LoseScan(s) /\ UNCHANGED <<placeVars, releaseVars, couponVars>>

-----------------------------------------------------------------------------
(* The next-state relation and the fairness of the event loop.             *)

ContinueScan(s) == ReadSession(s) \/ OpenSession(s) \/ SaveTable(s)

TablesStep ==
    /\ \/ \E s \in Scans : ContinueScan(s) \/ \E t \in Tables : ReadTable(s, t)
       \/ \E t \in Tables : ExpireSession(t)
    /\ UNCHANGED <<orderVars, couponVars>>

CouponsStep == CouponsNext /\ UNCHANGED <<orderVars, visitVars>>

PlaceOrder(r) ==
    \/ SyncLookup(r)  \/ FindByOfflineGuid(r) \/ CheckCoupon(r)
    \/ CheckSession(r) \/ InsertOrder(r) \/ OccupyTable(r)

StaffStep ==
    \/ \E o \in Requests :
          \/ ConfirmByCashier(o) \/ CompleteByKitchen(o) \/ CompleteOrder(o)
          \/ \E st \in StaffStatuses : UpdateOrderStatus(o, st)
    \/ \E t \in Tables : \E st \in ManualStatuses \cup {tableStatus[t]},
                           o \in ManualOrders \cup {currentOrder[t]} :
          ManualTableEdit(t, st, o)

Next ==
    \/ \E r \in Requests : PlaceOrder(r)
    \/ StaffStep
    \/ \E x \in releasing : ReleaseTable(x)
    \/ \E x \in closing : CloseTableSession(x)
    \/ TablesStep
    \/ CouponsStep
    \/ InstanceDies

Spec == Init /\ [][Next]_vars

\* A handler that has written the terminal status is resumed when that write settles
\* and frees the table, unless its instance dies; nobody has to scan, order or edit.
Fairness == WF_vars(\E x \in releasing : ReleaseTable(x))

FairSpec == Spec /\ Fairness

-----------------------------------------------------------------------------
(* Properties.                                                             *)

TypeOK ==
    /\ TablesTypeOK /\ CouponsTypeOK
    /\ currentOrder \in [Tables -> Requests \cup {None}]
    /\ orderStatus  \in [Requests -> OrderStatus \cup {NoOrder}]
    /\ reqPc  \in [Requests -> ReqPc]
    /\ \A r \in Requests : reqPc[r] = "coupon" => Req[r].coupon \in Coupons
    /\ reqSid \in [Requests -> Scans \cup {None}]
    /\ seenAt \in [Requests -> SUBSET Requests]
    /\ releasing \subseteq [op: Nat, order: Requests, inc: {0, 1}]
    /\ \A x \in releasing : Req[x.order].table \in Tables
    /\ closing   \subseteq [op: Nat, table: Tables]
    /\ lostReleases \subseteq Requests
    /\ handEdited   \subseteq Tables
    /\ handSeated   \subseteq handEdited
    /\ staffWrites \in Nat /\ lostTasks \in Nat

\* With transactions, a table never keeps pointing at a finished order unless the
\* write that frees it is still to come or died with its instance, or staff put it
\* there by hand: no interleaving of order creation, status writes, scans and other
\* manual edits puts a finished order back on a table (orders/service.ts:107-118,
\* 293-297, 359-366).
FinishedOrderLeavesTable ==
    Transactional =>
      \A t \in Tables \ handSeated :
        LET o == currentOrder[t] IN
        o # None /\ orderStatus[o] \in Terminal =>
            o \in lostReleases \cup {x.order : x \in releasing}

\* A table that holds an order says OCCUPIED, except where staff edited it by hand: a scan
\* that read the table before the order was seated or after it was freed cannot leave the
\* two fields apart (tables/service.ts:123-126 saves status only; the orders module writes
\* both fields together).
SeatedTableOccupied ==
    \A t \in Tables \ handEdited : currentOrder[t] # None => tableStatus[t] = "OCCUPIED"

\* Two orders with one offlineGuid come only from requests whose lookups overlapped:
\* a retry or a replayed batch that starts after the order exists gets it back
\* (orders/service.ts:38-43, 330-334).
DuplicatesOnlyOverlap ==
    \A r, o \in Orders : r # o /\ SameGuid(r, o) => o \notin seenAt[r]

\* A dine-in order placed through the QR route was placed by a guest who scanned
\* that very table: its session id was opened by a scan of the order's table
\* (orders/service.ts:100-103, tables/service.ts:179-188).
QrOrderProof ==
    \A r \in Orders : NeedsSession(r) =>
        /\ reqSid[r] \in opened
        /\ scanTable[reqSid[r]] = Req[r].table

\* A session that was closed, replaced or has expired never becomes valid again, on
\* its table or on another: a session id enters the cache once
\* (tables/service.ts:116-121, 193-195).
SessionsNeverRevive ==
    [][\A t \in Tables : session'[t] # session[t] /\ session'[t] # None
            => session'[t] \notin opened]_vars

\* A finished order is eventually taken off its table, whatever the other requests
\* do meanwhile, unless the instance that was to free the table died or staff put the
\* order there by hand.
FinishedOrderEventuallyOff ==
    \A t \in Tables, o \in Requests :
        currentOrder[t] = o /\ orderStatus[o] \in Terminal
            ~> currentOrder[t] # o \/ o \in lostReleases \/ t \in handSeated

\* What makes the properties above inductive.  An order exists exactly from the insert on;
\* a table holds an existing order placed at that very table, unless staff put one there by
\* hand; a request that went past its lookup saw no order with its guid.
PlacementInv ==
    /\ \A r \in Requests :
         /\ orderStatus[r] # NoOrder => reqPc[r] \in {"occupy", "created", "lost"}
         /\ reqPc[r] \in {"occupy", "created"} => orderStatus[r] # NoOrder
         /\ reqPc[r] = "occupy" => ~Transactional
         /\ reqPc[r] # "existing" => \A o \in seenAt[r] : ~SameGuid(r, o)
    /\ \A t \in Tables \ handSeated : currentOrder[t] # None =>
         /\ Req[currentOrder[t]].table = t
         /\ orderStatus[currentOrder[t]] # NoOrder

\* A session id is opened by one scan, which stays at its table; the cache holds it under
\* that table only; a QR request past the check holds one for its table.
SessionInv ==
    /\ \A s \in opened : scanPc[s] \in {"occupy", "done", "lost"}
    /\ \A t \in Tables : session[t] # None =>
          session[t] \in opened /\ scanTable[session[t]] = t
    /\ \A r \in Requests :
          /\ NeedsSession(r)
          /\ orderStatus[r] # NoOrder \/ reqPc[r] \in {"insert", "occupy", "created"}
          => reqSid[r] \in opened /\ scanTable[reqSid[r]] = Req[r].table

\* A request uses its coupon once, on leaving the coupon check.
UseInv ==
    /\ \A u \in recording \cup counted \cup uncounted \cup lostUses :
          reqPc[u[1]] \notin {"waiting", "arrived", "coupon"}
    /\ IsFiniteSet(counted)

-----------------------------------------------------------------------------
(* Promises of the documents and comments that the code does not keep.     *)

\* "One active session per table: if session open and table is OCCUPIED, reuse
\* existing" (tables/service.ts:105): while a table is OCCUPIED its open session may
\* close, and is never replaced by another one.
SessionReusedWhileOccupied ==
    [][\A t \in Tables :
          session[t] # None /\ tableStatus[t] = "OCCUPIED" /\ session'[t] # None
              => session'[t] = session[t]]_vars

\* "zero duplicate billing" of offline orders (docs/phase-3-core-domain-modules.md:30):
\* no two orders carry the same offlineGuid.
NoDuplicateOfflineOrders ==
    \A r, o \in Orders : r # o => ~SameGuid(r, o)
=============================================================================
