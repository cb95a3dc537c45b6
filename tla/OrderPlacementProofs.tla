------------------------ MODULE OrderPlacementProofs ------------------------
(***************************************************************************)
(* Proofs about OrderPlacement, for any number of tables, scans, requests  *)
(* and coupons.                                                            *)
(***************************************************************************)
EXTENDS OrderPlacement, FiniteSetTheorems, TLAPS

-----------------------------------------------------------------------------
(* Type correctness.                                                       *)

\* A step of any handler keeps the types.
LEMMA TypingStep == ASSUME TypeOK, [Next]_vars PROVE TypeOK'
<1> USE DEF TypeOK, TablesTypeOK, CouponsTypeOK
<1>1. CASE \E r \in Requests : PlaceOrder(r)
  <2> PICK r \in Requests : PlaceOrder(r) BY <1>1
  <2> USE DEF requestVars, releaseVars, staffVars, visitVars, tableVars, sessionVars,
              scanVars, couponVars, Goto, ReqPc
  <2>1. CASE SyncLookup(r)
    BY <2>1 DEF SyncLookup
  <2>2. CASE FindByOfflineGuid(r)
    <3>1. Req[r].coupon \in Coupons \cup {None}
      BY ReqAssumption DEF RequestRecord
    <3>2. QED
      BY <2>2, <3>1 DEF FindByOfflineGuid, AfterLookup, AfterCoupon, ClaimableSids,
         HandedOut, Orders
  <2>3. CASE CheckCoupon(r)
    BY <2>3 DEF CheckCoupon, ApplyCoupon, AfterCoupon, Uses
  <2>4. CASE CheckSession(r)
    BY <2>4 DEF CheckSession
  <2>5. CASE InsertOrder(r)
    BY <2>5 DEF InsertOrder, SeatOrder, TableStatus, OrderStatus
  <2>6. CASE OccupyTable(r)
    BY <2>6 DEF OccupyTable, SeatOrder, TableStatus
  <2>7. QED BY <2>1, <2>2, <2>3, <2>4, <2>5, <2>6 DEF PlaceOrder
<1>2. CASE StaffStep
  <2> USE DEF requestVars, placeVars, releaseVars, staffVars, visitVars, tableVars, sessionVars,
              scanVars, couponVars
  <2>1. ASSUME NEW o \in Requests, NEW st \in OrderStatus, WriteStatus(o, st)
        PROVE  TypeOK'
    <3>1. Req[o].table \in Tables \cup {None}
      BY ReqAssumption DEF RequestRecord
    <3>2. QED BY <2>1, <3>1 DEF WriteStatus, Orders
  <2>2. ASSUME NEW t \in Tables, NEW st \in ManualStatuses \cup {tableStatus[t]},
               NEW o \in ManualOrders \cup {currentOrder[t]}, ManualTableEdit(t, st, o)
        PROVE  TypeOK'
    BY <2>2, StaffAssumption DEF ManualTableEdit, UpdateTable
  <2>3. QED
    BY <1>2, <2>1, <2>2, StaffAssumption DEF StaffStep, ConfirmByCashier,
       CompleteByKitchen, CompleteOrder,
       UpdateOrderStatus, OrderStatus
<1>3. CASE \E x \in releasing : ReleaseTable(x)
  <2> PICK x \in releasing : ReleaseTable(x) BY <1>3
  <2> USE DEF ReleaseTable, placeVars, staffVars, sessionVars, scanVars, couponVars
  <2>1. ordersServed' \in [Tables -> Nat]
    OBVIOUS
  <2>2. /\ tableStatus' \in [Tables -> TableStatus]
        /\ currentOrder' \in [Tables -> Requests \cup {None}]
    BY DEF TableStatus
  <2>3. closing' \subseteq [op: Nat, table: Tables]
    OBVIOUS
  <2>4. QED BY <2>1, <2>2, <2>3
<1>4. CASE \E x \in closing : CloseTableSession(x)
  BY <1>4 DEF CloseTableSession, DeleteSession, placeVars, staffVars, tableVars,
     scanVars, couponVars
<1>5. CASE TablesStep
  <2> USE DEF orderVars, placeVars, releaseVars, staffVars, tableVars, sessionVars, scanVars,
              couponVars, ScanPc, TableStatus
  <2>0. UNCHANGED <<orderVars, couponVars>>
    BY <1>5 DEF TablesStep
  <2>1. ASSUME NEW s \in Scans, NEW t \in Tables, ReadTable(s, t) PROVE TypeOK'
    BY <2>0, <2>1 DEF ReadTable
  <2>2. ASSUME NEW s \in Scans, ReadSession(s) PROVE TypeOK'
    BY <2>0, <2>2 DEF ReadSession
  <2>3. ASSUME NEW s \in Scans, OpenSession(s) PROVE TypeOK'
    BY <2>0, <2>3 DEF OpenSession
  <2>4. ASSUME NEW s \in Scans, SaveTable(s) PROVE TypeOK'
    BY <2>0, <2>4 DEF SaveTable
  <2>5. ASSUME NEW t \in Tables, ExpireSession(t) PROVE TypeOK'
    BY <2>0, <2>5 DEF ExpireSession
  <2>6. QED BY <1>5, <2>1, <2>2, <2>3, <2>4, <2>5 DEF TablesStep, ContinueScan
<1>6. CASE CouponsStep
  <2> USE DEF CouponsStep, orderVars, placeVars, releaseVars, staffVars, visitVars, tableVars,
              sessionVars, scanVars
  <2>1. CASE \E u \in recording : RecordUsage(u)
    BY <1>6, <2>1 DEF RecordUsage, IncrementUsage, Uses
  <2>2. CASE \E u \in recording : LoseUsage(u)
    BY <1>6, <2>2 DEF LoseUsage
  <2>3. CASE \E c \in Coupons : \E st \in CouponState \ {"DELETED"},
             l \in NewLimits \cup {usageLimit[c]} : UpdateCoupon(c, st, l)
    BY <1>6, <2>3, LimitsAssumption DEF UpdateCoupon
  <2>4. CASE \E c \in Coupons : DeleteCoupon(c)
    BY <1>6, <2>4 DEF DeleteCoupon, CouponState
  <2>5. CASE \E c \in Coupons : ExpireCoupon(c)
    BY <1>6, <2>5 DEF ExpireCoupon, CouponState
  <2>6. QED BY <1>6, <2>1, <2>2, <2>3, <2>4, <2>5 DEF CouponsNext
<1>7. CASE InstanceDies
  <2> USE DEF InstanceDies, requestVars, placeVars, releaseVars, staffVars, visitVars, tableVars,
              sessionVars, scanVars, couponVars
  <2>1. CASE \E r \in Requests : LoseRequest(r)
    BY <1>7, <2>1 DEF LoseRequest, Goto, ReqPc
  <2>2. CASE \E x \in releasing : LoseRelease(x)
    BY <1>7, <2>2 DEF LoseRelease
  <2>3. CASE \E x \in closing : LoseClose(x)
    BY <1>7, <2>3 DEF LoseClose
  <2>4. CASE \E s \in Scans : LoseScan(s) /\ UNCHANGED <<placeVars, releaseVars,
                                                        couponVars>>
    BY <1>7, <2>4 DEF LoseScan, ScanPc
  <2>5. QED BY <1>7, <2>1, <2>2, <2>3, <2>4
<1>8. CASE UNCHANGED vars
  BY <1>8 DEF vars, orderVars, placeVars, releaseVars, staffVars, visitVars, tableVars,
     sessionVars, scanVars, couponVars
<1>9. QED BY <1>1, <1>2, <1>3, <1>4, <1>5, <1>6, <1>7, <1>8 DEF Next

\* Every variable keeps its type, whatever handlers run and in whatever order.
THEOREM Typing == Spec => []TypeOK
<1>1. Init => TypeOK
  BY LimitsAssumption DEF TypeOK, TablesTypeOK, CouponsTypeOK, Init, TablesInit, CouponsInit,
     TableStatus, ScanPc, CouponState, Uses, OrderStatus, NoOrder, ReqPc
<1>2. TypeOK /\ [Next]_vars => TypeOK'
  BY TypingStep
<1>3. QED BY <1>1, <1>2, PTL DEF Spec

-----------------------------------------------------------------------------
(* Which steps touch what.  Each invariant below looks at a few variables   *)
(* only, and these lemmas name the steps that change them.                  *)

\* The steps that change an order, a request or what a table holds.
LEMMA OrderSteps ==
    ASSUME [Next]_vars
    PROVE  \/ \E r \in Requests : PlaceOrder(r)
           \/ \E o \in Requests, st \in OrderStatus : WriteStatus(o, st)
           \/ \E x \in releasing : ReleaseTable(x)
           \/ \E r \in Requests : LoseRequest(r)
           \/ \E x \in releasing : LoseRelease(x)
           \/ \E t \in Tables : \E st, o : ManualTableEdit(t, st, o)
           \/ UNCHANGED <<placeVars, releasing, lostReleases, currentOrder, handSeated>>
<1>1. CASE StaffStep
  BY <1>1, StaffAssumption DEF StaffStep, ConfirmByCashier, CompleteByKitchen,
     CompleteOrder, UpdateOrderStatus, OrderStatus
<1>2. CASE \E x \in closing : CloseTableSession(x)
  BY <1>2 DEF CloseTableSession, DeleteSession, tableVars, staffVars
<1>3. CASE TablesStep
  <2>1. UNCHANGED <<placeVars, releasing, lostReleases, handSeated>>
    BY <1>3 DEF TablesStep, orderVars, releaseVars, staffVars
  <2>2. UNCHANGED currentOrder
    BY <1>3 DEF TablesStep, ContinueScan, ReadTable, ReadSession, OpenSession, SaveTable,
       ExpireSession, tableVars
  <2>3. QED BY <2>1, <2>2
<1>4. CASE CouponsStep
  BY <1>4 DEF CouponsStep, orderVars, releaseVars, staffVars, visitVars, tableVars
<1>5. CASE InstanceDies
  BY <1>5 DEF InstanceDies, LoseClose, LoseScan, visitVars, tableVars, releaseVars,
     staffVars
<1>6. CASE UNCHANGED vars
  BY <1>6 DEF vars, orderVars, releaseVars, staffVars, visitVars, tableVars
<1>7. QED BY <1>1, <1>2, <1>3, <1>4, <1>5, <1>6 DEF Next

-----------------------------------------------------------------------------
(* Orders, the tables that hold them, and duplicates.                       *)

LEMMA PlacementInit == Init => PlacementInv
BY DEF Init, TablesInit, PlacementInv, ReqPc, NoOrder

LEMMA PlacementStep ==
    ASSUME TypeOK, PlacementInv, [Next]_vars PROVE PlacementInv'
<1> USE DEF PlacementInv, NoOrder, SameGuid, placeVars, staffVars
<1> /\ orderStatus \in [Requests -> OrderStatus \cup {NoOrder}]
    /\ reqPc \in [Requests -> ReqPc]
    /\ seenAt \in [Requests -> SUBSET Requests]
    /\ currentOrder \in [Tables -> Requests \cup {None}]
  BY DEF TypeOK
<1>1. ASSUME NEW r \in Requests, PlaceOrder(r) PROVE PlacementInv'
  <2> USE DEF Goto, requestVars, releaseVars, visitVars, tableVars, ReqPc
  <2>1. CASE SyncLookup(r)
    BY <2>1 DEF SyncLookup
  <2>2. CASE FindByOfflineGuid(r)
    BY <2>2 DEF FindByOfflineGuid, AfterLookup, AfterCoupon, Orders
  <2>3. CASE CheckCoupon(r)
    BY <2>3 DEF CheckCoupon, AfterCoupon
  <2>4. CASE CheckSession(r)
    BY <2>4 DEF CheckSession
  <2>5. CASE InsertOrder(r)
    BY <2>5 DEF InsertOrder, SeatOrder, OccupiesTable
  <2>6. CASE OccupyTable(r)
    BY <2>6 DEF OccupyTable, SeatOrder
  <2>7. QED BY <1>1, <2>1, <2>2, <2>3, <2>4, <2>5, <2>6 DEF PlaceOrder
<1>2. ASSUME NEW o \in Requests, NEW st \in OrderStatus, WriteStatus(o, st)
      PROVE  PlacementInv'
  BY <1>2 DEF WriteStatus, Orders, OrderStatus, visitVars, tableVars
<1>3. ASSUME NEW x \in releasing, ReleaseTable(x) PROVE PlacementInv'
  BY <1>3 DEF ReleaseTable
<1>4. ASSUME NEW r \in Requests, LoseRequest(r) PROVE PlacementInv'
  BY <1>4 DEF LoseRequest, Goto, releaseVars, visitVars, tableVars
<1>5. ASSUME NEW x \in releasing, LoseRelease(x) PROVE PlacementInv'
  BY <1>5 DEF LoseRelease, visitVars, tableVars
<1>6. ASSUME NEW t \in Tables, NEW st, NEW o, ManualTableEdit(t, st, o)
      PROVE  PlacementInv'
  BY <1>6 DEF ManualTableEdit, UpdateTable
<1>7. CASE UNCHANGED <<placeVars, currentOrder, handSeated>>
  BY <1>7
<1>8. QED BY OrderSteps, <1>1, <1>2, <1>3, <1>4, <1>5, <1>6, <1>7

\* PlacementInv for every instance.
THEOREM Placement == Spec => []PlacementInv
<1>1. TypeOK /\ PlacementInv /\ [Next]_vars => PlacementInv'
  BY PlacementStep
<1>2. QED BY PlacementInit, <1>1, Typing, PTL DEF Spec

\* Two orders share an offlineGuid only if the later lookup ran before the other order
\* existed.
THEOREM OnlyOverlappingDuplicates == Spec => []DuplicatesOnlyOverlap
<1>1. PlacementInv => DuplicatesOnlyOverlap
  BY DEF PlacementInv, DuplicatesOnlyOverlap, Orders
<1>2. QED BY <1>1, Placement, PTL

-----------------------------------------------------------------------------
(* A finished order and its table.                                          *)

LEMMA FinishedStep ==
    ASSUME TypeOK, PlacementInv, FinishedOrderLeavesTable, [Next]_vars
    PROVE  FinishedOrderLeavesTable'
<1> SUFFICES ASSUME Transactional, NEW t \in Tables, t \notin handSeated',
                    currentOrder'[t] # None, orderStatus'[currentOrder'[t]] \in Terminal
             PROVE  currentOrder'[t] \in lostReleases' \cup {x.order : x \in releasing'}
  BY DEF FinishedOrderLeavesTable
<1> DEFINE Held(o) == currentOrder[t] = o /\ orderStatus[o] \in Terminal
<1> /\ orderStatus \in [Requests -> OrderStatus \cup {NoOrder}]
    /\ reqPc \in [Requests -> ReqPc]
    /\ currentOrder \in [Tables -> Requests \cup {None}]
    /\ \A x \in releasing : x.order \in Requests /\ Req[x.order].table \in Tables
  BY DEF TypeOK
<1>0. t \notin handSeated => \A o \in Requests : Held(o) =>
          Req[o].table = t /\ o \in lostReleases \cup {x.order : x \in releasing}
  BY NoneAssumption DEF PlacementInv, FinishedOrderLeavesTable
<1>1. CASE \E r \in Requests : PlaceOrder(r)
  <2> PICK r \in Requests : PlaceOrder(r) BY <1>1
  <2>1. UNCHANGED <<releasing, lostReleases, handSeated>>
    BY DEF PlaceOrder, SyncLookup, FindByOfflineGuid, CheckCoupon, CheckSession,
       InsertOrder,
       OccupyTable, requestVars, releaseVars, staffVars
  <2>2. CASE UNCHANGED <<orderStatus, currentOrder>>
    BY <1>0, <2>1, <2>2
  <2>3. CASE InsertOrder(r)
    <3>1. currentOrder'[t] # r
      BY <2>3 DEF InsertOrder, Terminal
    <3>2. currentOrder'[t] = currentOrder[t]
      BY <2>3, <3>1 DEF InsertOrder, SeatOrder, tableVars
    <3>3. QED BY <1>0, <2>1, <2>3, <3>1, <3>2 DEF InsertOrder
  <2>4. CASE OccupyTable(r)
    BY <2>4 DEF OccupyTable, PlacementInv
  <2>5. QED
    BY <2>2, <2>3, <2>4 DEF PlaceOrder, SyncLookup, FindByOfflineGuid, CheckCoupon,
       CheckSession, requestVars, visitVars, tableVars
<1>2. CASE \E o \in Requests, st \in OrderStatus : WriteStatus(o, st)
  <2> PICK o \in Requests, st \in OrderStatus : WriteStatus(o, st) BY <1>2
  <2>1. UNCHANGED <<currentOrder, lostReleases, handSeated>>
    BY DEF WriteStatus, visitVars, tableVars
  <2>2. CASE currentOrder[t] = o
    <3>1. st \in Terminal /\ Req[o].table = t
      BY <2>1, <2>2 DEF WriteStatus, PlacementInv
    <3> DEFINE x == [op |-> staffWrites, order |-> o,
                     inc |-> IF st = "CANCELLED" THEN 0 ELSE 1]
    <3>2. x \in releasing' /\ x.order = o
      BY <3>1, NoneAssumption DEF WriteStatus
    <3>3. QED BY <2>1, <2>2, <3>2
  <2>3. CASE currentOrder[t] # o
    <3>1. Held(currentOrder[t])
      BY <2>1, <2>3 DEF WriteStatus
    <3>2. releasing \subseteq releasing'
      BY DEF WriteStatus
    <3>3. QED BY <1>0, <2>1, <3>1, <3>2
  <2>4. QED BY <2>2, <2>3
<1>3. CASE \E x \in releasing : ReleaseTable(x)
  <2> PICK x \in releasing : ReleaseTable(x) BY <1>3
  <2>1. UNCHANGED <<orderStatus, lostReleases, handSeated>> /\ releasing' = releasing \ {x}
    BY DEF ReleaseTable, placeVars, staffVars
  <2>2. Req[x.order].table # t /\ currentOrder'[t] = currentOrder[t]
    BY DEF ReleaseTable
  <2>3. QED BY <1>0, <2>1, <2>2
<1>4. CASE \E r \in Requests : LoseRequest(r)
  BY <1>0, <1>4 DEF LoseRequest, releaseVars, staffVars, visitVars, tableVars
<1>5. CASE \E x \in releasing : LoseRelease(x)
  BY <1>0, <1>5 DEF LoseRelease, placeVars, staffVars, visitVars, tableVars
<1>6. CASE UNCHANGED <<placeVars, releasing, lostReleases, currentOrder, handSeated>>
  BY <1>0, <1>6 DEF placeVars
<1>7. CASE \E t2 \in Tables : \E st, o : ManualTableEdit(t2, st, o)
  <2> PICK t2 \in Tables : \E st, o : ManualTableEdit(t2, st, o) BY <1>7
  <2> PICK st, o : ManualTableEdit(t2, st, o) OBVIOUS
  <2>1. /\ UNCHANGED <<orderStatus, releasing, lostReleases>>
        /\ handSeated \subseteq handSeated'
    BY DEF ManualTableEdit, placeVars
  <2>2. currentOrder'[t] = currentOrder[t]
    BY DEF ManualTableEdit, UpdateTable
  <2>3. QED BY <1>0, <2>1, <2>2
<1>8. QED BY OrderSteps, <1>1, <1>2, <1>3, <1>4, <1>5, <1>6, <1>7

\* With transactions no table is left holding a finished order, except while the write
\* that frees it is pending or after it died.
THEOREM FinishedOrdersLeave == Spec => []FinishedOrderLeavesTable
<1>1. Init => FinishedOrderLeavesTable
  BY DEF Init, TablesInit, FinishedOrderLeavesTable
<1>2. TypeOK /\ PlacementInv /\ FinishedOrderLeavesTable /\ [Next]_vars
        => FinishedOrderLeavesTable'
  BY FinishedStep
<1>3. QED BY <1>1, <1>2, Typing, Placement, PTL DEF Spec

-----------------------------------------------------------------------------
(* Sessions.                                                                *)

\* The steps that change a scan, a session or what a request claims of one.
LEMMA SessionSteps ==
    ASSUME [Next]_vars
    PROVE  \/ UNCHANGED <<sessionVars, scanVars>> /\ \E r \in Requests : PlaceOrder(r)
           \/ UNCHANGED placeVars /\ \E s \in Scans : ContinueScan(s) \/ LoseScan(s)
           \/ UNCHANGED placeVars /\ \E s \in Scans, t \in Tables : ReadTable(s, t)
           \/ UNCHANGED placeVars /\ \E t \in Tables : ExpireSession(t)
           \/ \E x \in closing : CloseTableSession(x)
           \/ \E o \in Requests, st \in OrderStatus : WriteStatus(o, st)
           \/ \E r \in Requests : LoseRequest(r)
           \/ UNCHANGED <<placeVars, sessionVars, scanVars>>
<1>1. CASE \E r \in Requests : PlaceOrder(r)
  BY <1>1 DEF PlaceOrder, SyncLookup, FindByOfflineGuid, CheckCoupon, CheckSession,
     InsertOrder, OccupyTable, visitVars
<1>2. CASE StaffStep
  BY <1>2, StaffAssumption DEF StaffStep, ConfirmByCashier, CompleteByKitchen,
     CompleteOrder, UpdateOrderStatus, OrderStatus, ManualTableEdit, UpdateTable
<1>3. CASE \E x \in releasing : ReleaseTable(x)
  BY <1>3 DEF ReleaseTable
<1>4. CASE TablesStep
  BY <1>4 DEF TablesStep, orderVars
<1>5. CASE CouponsStep
  BY <1>5 DEF CouponsStep, orderVars, visitVars
<1>6. CASE InstanceDies
  BY <1>6 DEF InstanceDies, LoseRelease, LoseClose, visitVars
<1>7. CASE UNCHANGED vars
  BY <1>7 DEF vars, orderVars, visitVars
<1>8. QED BY <1>1, <1>2, <1>3, <1>4, <1>5, <1>6, <1>7 DEF Next

LEMMA SessionInit == Init => SessionInv
BY DEF Init, TablesInit, SessionInv, NoOrder

LEMMA SessionStep ==
    ASSUME TypeOK, PlacementInv, SessionInv, [Next]_vars PROVE SessionInv'
<1> USE DEF SessionInv, NoOrder, placeVars, sessionVars, scanVars
<1> /\ orderStatus \in [Requests -> OrderStatus \cup {NoOrder}]
    /\ reqPc \in [Requests -> ReqPc]
    /\ reqSid \in [Requests -> Scans \cup {None}]
    /\ session \in [Tables -> Scans \cup {None}]
    /\ scanPc \in [Scans -> ScanPc]
    /\ scanTable \in [Scans -> Tables \cup {None}]
    /\ opened \subseteq Scans
  BY DEF TypeOK, TablesTypeOK
<1>1. ASSUME UNCHANGED <<sessionVars, scanVars>>, NEW r \in Requests, PlaceOrder(r)
      PROVE  SessionInv'
  <2> USE <1>1 DEF Goto, requestVars, PlacementInv, NeedsSession, OccupiesTable
  <2>1. CASE SyncLookup(r)
    BY <2>1 DEF SyncLookup
  <2>2. CASE FindByOfflineGuid(r)
    BY <2>2 DEF FindByOfflineGuid, AfterLookup, AfterCoupon
  <2>3. CASE CheckCoupon(r)
    BY <2>3 DEF CheckCoupon, AfterCoupon
  <2>4. CASE CheckSession(r)
    <3>1. Req[r].table \in Tables \cup {None}
      BY ReqAssumption DEF RequestRecord
    <3>2. QED BY <2>4, <3>1 DEF CheckSession, SessionMatches
  <2>5. CASE InsertOrder(r)
    BY <2>5 DEF InsertOrder
  <2>6. CASE OccupyTable(r)
    BY <2>6 DEF OccupyTable
  <2>7. QED BY <2>1, <2>2, <2>3, <2>4, <2>5, <2>6 DEF PlaceOrder
<1>2. ASSUME UNCHANGED placeVars, NEW s \in Scans, ContinueScan(s) \/ LoseScan(s)
      PROVE  SessionInv'
  BY <1>2 DEF ContinueScan, ReadSession, OpenSession, SaveTable, LoseScan
<1>3. ASSUME UNCHANGED placeVars, NEW s \in Scans, NEW t \in Tables, ReadTable(s, t)
      PROVE  SessionInv'
  BY <1>3 DEF ReadTable
<1>4. ASSUME UNCHANGED placeVars, NEW t \in Tables, ExpireSession(t) PROVE SessionInv'
  BY <1>4 DEF ExpireSession
<1>5. ASSUME NEW x \in closing, CloseTableSession(x) PROVE SessionInv'
  BY <1>5 DEF CloseTableSession, DeleteSession
<1>6. ASSUME NEW o \in Requests, NEW st \in OrderStatus, WriteStatus(o, st)
      PROVE  SessionInv'
  BY <1>6 DEF WriteStatus, Orders, visitVars
<1>7. ASSUME NEW r \in Requests, LoseRequest(r) PROVE SessionInv'
  BY <1>7 DEF LoseRequest, Goto, visitVars
<1>8. CASE UNCHANGED <<placeVars, sessionVars, scanVars>>
  BY <1>8
<1>9. QED BY SessionSteps, <1>1, <1>2, <1>3, <1>4, <1>5, <1>6, <1>7, <1>8

\* SessionInv for every instance.
THEOREM SessionBookkeeping == Spec => []SessionInv
<1>1. TypeOK /\ PlacementInv /\ SessionInv /\ [Next]_vars => SessionInv'
  BY SessionStep
<1>2. QED BY SessionInit, <1>1, Typing, Placement, PTL DEF Spec

\* Every dine-in order of the QR route was placed with a session opened by a scan of the
\* order's own table.
THEOREM QrOrdersProven == Spec => []QrOrderProof
<1>1. SessionInv => QrOrderProof
  BY DEF SessionInv, QrOrderProof, Orders
<1>2. QED BY <1>1, SessionBookkeeping, PTL

\* A session id that has left the cache never comes back.
THEOREM SessionsStayClosed == Spec => SessionsNeverRevive
<1> DEFINE Fresh == \A t \in Tables :
             session'[t] # session[t] /\ session'[t] # None => session'[t] \notin opened
<1>1. TypeOK /\ SessionInv /\ [Next]_vars => [Fresh]_vars
  <2> SUFFICES ASSUME TypeOK, SessionInv, [Next]_vars PROVE Fresh
    OBVIOUS
  <2> /\ session \in [Tables -> Scans \cup {None}]
      /\ scanTable \in [Scans -> Tables \cup {None}]
    BY DEF TypeOK, TablesTypeOK
  <2>1. ASSUME NEW s \in Scans, OpenSession(s) PROVE Fresh
    BY <2>1 DEF OpenSession, SessionInv
  <2>2. ASSUME NEW t \in Tables, DeleteSession(t) \/ ExpireSession(t) PROVE Fresh
    BY <2>2 DEF DeleteSession, ExpireSession
  <2>3. CASE UNCHANGED session
    BY <2>3
  <2>4. \A x \in closing : CloseTableSession(x) => \E t \in Tables : DeleteSession(t)
    BY DEF CloseTableSession, TypeOK
  <2>5. \/ \E s \in Scans : OpenSession(s)
        \/ \E t \in Tables : DeleteSession(t) \/ ExpireSession(t)
        \/ UNCHANGED session
    BY SessionSteps, <2>4 DEF ContinueScan, ReadSession, SaveTable, LoseScan, ReadTable,
       WriteStatus, LoseRequest, visitVars, sessionVars
  <2>6. QED BY <2>1, <2>2, <2>3, <2>5
<1>2. QED BY <1>1, Typing, SessionBookkeeping, PTL DEF Spec, SessionsNeverRevive

-----------------------------------------------------------------------------
(* Status and order of a table.                                             *)

\* A table staff edited by hand counts as edited from then on.
LEMMA HandEditsStay == ASSUME [Next]_vars PROVE handEdited \subseteq handEdited'
BY DEF Next, vars, PlaceOrder, SyncLookup, FindByOfflineGuid, CheckCoupon, CheckSession,
   InsertOrder, OccupyTable, requestVars, releaseVars, staffVars, orderVars, StaffStep,
   ConfirmByCashier, CompleteByKitchen, CompleteOrder, UpdateOrderStatus, WriteStatus,
   ManualTableEdit, ReleaseTable, CloseTableSession, TablesStep, CouponsStep, InstanceDies,
   LoseRequest, LoseRelease, LoseClose

Seated(t) == currentOrder[t] # None => tableStatus[t] = "OCCUPIED"

\* Whoever writes a table, but for staff by hand, leaves it OCCUPIED or without an order.
LEMMA TableWrites ==
    ASSUME TypeOK, [Next]_vars, NEW t \in Tables
    PROVE  \/ t \in handEdited'
           \/ Seated(t)'
           \/ tableStatus'[t] = tableStatus[t] /\ currentOrder'[t] = currentOrder[t]
<1> USE DEF Seated
<1> /\ currentOrder \in [Tables -> Requests \cup {None}]
    /\ tableStatus \in [Tables -> TableStatus]
    /\ handEdited \subseteq Tables
  BY DEF TypeOK, TablesTypeOK
<1>1. CASE \E r \in Requests : PlaceOrder(r)
  BY <1>1 DEF PlaceOrder, SyncLookup, FindByOfflineGuid, CheckCoupon, CheckSession,
     InsertOrder, OccupyTable, SeatOrder, requestVars, releaseVars, staffVars, visitVars,
     tableVars
<1>2. CASE StaffStep
  BY <1>2 DEF StaffStep, ConfirmByCashier, CompleteByKitchen, CompleteOrder,
     UpdateOrderStatus, WriteStatus, ManualTableEdit, UpdateTable, visitVars, tableVars
<1>3. CASE \E x \in releasing : ReleaseTable(x)
  BY <1>3 DEF ReleaseTable, staffVars
<1>4. CASE \E x \in closing : CloseTableSession(x)
  BY <1>4 DEF CloseTableSession, DeleteSession, tableVars, staffVars
<1>5. CASE TablesStep
  BY <1>5 DEF TablesStep, ContinueScan, ReadTable, ReadSession, OpenSession, SaveTable,
     ExpireSession, tableVars, orderVars, releaseVars, staffVars
<1>6. CASE CouponsStep
  BY <1>6 DEF CouponsStep, visitVars, tableVars, orderVars, releaseVars, staffVars
<1>7. CASE InstanceDies
  BY <1>7 DEF InstanceDies, LoseRequest, LoseRelease, LoseClose, LoseScan, visitVars,
     tableVars, releaseVars, staffVars
<1>8. CASE UNCHANGED vars
  BY <1>8 DEF vars, visitVars, tableVars, orderVars, releaseVars, staffVars
<1>9. QED BY <1>1, <1>2, <1>3, <1>4, <1>5, <1>6, <1>7, <1>8 DEF Next

\* Nobody but staff, by hand, takes a seated table off OCCUPIED.
LEMMA SeatedStep ==
    ASSUME TypeOK, [Next]_vars, NEW t \in Tables, Seated(t)
    PROVE  handEdited \subseteq handEdited' /\ (t \in handEdited' \/ Seated(t)')
BY TableWrites, HandEditsStay DEF Seated

\* A table that holds an order is OCCUPIED unless staff edited it by hand.
THEOREM SeatedTables == Spec => []SeatedTableOccupied
<1>1. Init => SeatedTableOccupied
  BY DEF Init, TablesInit, SeatedTableOccupied
<1>2. TypeOK /\ SeatedTableOccupied /\ [Next]_vars => SeatedTableOccupied'
  <2> SUFFICES ASSUME TypeOK, SeatedTableOccupied, [Next]_vars, NEW t \in Tables,
                      t \notin handEdited'
               PROVE  Seated(t)'
    BY DEF SeatedTableOccupied, Seated
  <2>1. Seated(t) \/ t \in handEdited
    BY DEF SeatedTableOccupied, Seated
  <2>2. handEdited \subseteq handEdited'
    BY HandEditsStay
  <2>3. QED BY <2>1, <2>2, SeatedStep
<1>3. QED BY <1>1, <1>2, Typing, PTL DEF Spec

-----------------------------------------------------------------------------
(* The coupons an order uses: the usage limit, and that each use is counted *)
(* once.                                                                   *)

\* The steps that change a coupon or one of its uses.
LEMMA CouponSteps ==
    ASSUME [Next]_vars
    PROVE  \/ \E r \in Requests : CheckCoupon(r)
           \/ CouponsNext /\ UNCHANGED reqPc
           \/ UNCHANGED couponVars
<1>1. CASE \E r \in Requests : PlaceOrder(r)
  BY <1>1 DEF PlaceOrder, SyncLookup, FindByOfflineGuid, CheckSession, InsertOrder,
     OccupyTable
<1>2. CASE StaffStep
  BY <1>2 DEF StaffStep, ConfirmByCashier, CompleteByKitchen, CompleteOrder,
     UpdateOrderStatus, WriteStatus, ManualTableEdit
<1>3. CASE \E x \in releasing : ReleaseTable(x)
  BY <1>3 DEF ReleaseTable
<1>4. CASE \E x \in closing : CloseTableSession(x)
  BY <1>4 DEF CloseTableSession
<1>5. CASE TablesStep
  BY <1>5 DEF TablesStep
<1>6. CASE CouponsStep
  BY <1>6 DEF CouponsStep, orderVars, placeVars
<1>7. CASE InstanceDies
  BY <1>7 DEF InstanceDies, LoseRequest, LoseRelease, LoseClose
<1>8. CASE UNCHANGED vars
  BY <1>8 DEF vars
<1>9. QED BY <1>1, <1>2, <1>3, <1>4, <1>5, <1>6, <1>7, <1>8 DEF Next

\* A request past its coupon check is never back before it.
LEMMA PastCoupon ==
    ASSUME TypeOK, [Next]_vars, NEW r \in Requests,
           reqPc'[r] \in {"waiting", "arrived", "coupon"}
    PROVE  reqPc[r] \in {"waiting", "arrived", "coupon"}
<1> USE DEF Goto
<1> reqPc \in [Requests -> ReqPc]
  BY DEF TypeOK
<1>1. ASSUME NEW q \in Requests, PlaceOrder(q)
      PROVE  reqPc[r] \in {"waiting", "arrived", "coupon"}
  BY <1>1 DEF PlaceOrder, SyncLookup, FindByOfflineGuid, CheckCoupon, CheckSession,
     InsertOrder, OccupyTable, AfterCoupon
<1>2. CASE \E q \in Requests : LoseRequest(q)
  BY <1>2 DEF LoseRequest
<1>3. CASE UNCHANGED reqPc
  BY <1>3
<1>4. QED
  BY OrderSteps, <1>1, <1>2, <1>3 DEF WriteStatus, ReleaseTable, LoseRelease,
     ManualTableEdit,
     placeVars

-----------------------------------------------------------------------------
LEMMA LimitStep ==
    ASSUME TypeOK, LimitNeverOverrun, [Next]_vars PROVE LimitNeverOverrun'
<1> USE DEF LimitNeverOverrun
<1> /\ usageLimit \in [Coupons -> Nat \cup {NoLimit}]
    /\ timesUsed \in [Coupons -> Nat]
    /\ recording \subseteq Uses
  BY DEF TypeOK, CouponsTypeOK
<1>1. ASSUME NEW r \in Requests, CheckCoupon(r) PROVE LimitNeverOverrun'
  BY <1>1 DEF CheckCoupon, ApplyCoupon, couponVars
<1>2. ASSUME NEW u \in recording, RecordUsage(u) PROVE LimitNeverOverrun'
  BY <1>2 DEF RecordUsage, IncrementUsage, BelowLimit, Uses
<1>3. ASSUME NEW u \in recording, LoseUsage(u) PROVE LimitNeverOverrun'
  BY <1>3 DEF LoseUsage
<1>4. ASSUME NEW c \in Coupons, NEW st \in CouponState,
             NEW l \in NewLimits \cup {usageLimit[c]}, UpdateCoupon(c, st, l)
      PROVE  LimitNeverOverrun'
  BY <1>4, LimitsAssumption DEF UpdateCoupon
<1>5. ASSUME NEW c \in Coupons, DeleteCoupon(c) \/ ExpireCoupon(c)
      PROVE  LimitNeverOverrun'
  BY <1>5 DEF DeleteCoupon, ExpireCoupon
<1>6. CASE UNCHANGED couponVars
  BY <1>6 DEF couponVars
<1>7. QED BY CouponSteps, <1>1, <1>2, <1>3, <1>4, <1>5, <1>6 DEF CouponsNext

\* Any number of orders may race for a coupon: its counted uses stay within its limit.
THEOREM LimitsHold == Spec => []LimitNeverOverrun
<1>1. Init => LimitNeverOverrun
  BY LimitsAssumption DEF Init, CouponsInit, LimitNeverOverrun
<1>2. TypeOK /\ LimitNeverOverrun /\ [Next]_vars => LimitNeverOverrun'
  BY LimitStep
<1>3. QED BY <1>1, <1>2, Typing, PTL DEF Spec

-----------------------------------------------------------------------------
CountedOf(c) == {u \in counted : u[2] = c}

LEMMA UsesInit == Init => UseInv /\ EachUseCountedOnce
<1> SUFFICES ASSUME Init PROVE UseInv /\ EachUseCountedOnce
  OBVIOUS
<1>1. counted = {} /\ recording = {} /\ uncounted = {} /\ lostUses = {}
      /\ \A c \in Coupons : timesUsed[c] = 0
  BY DEF Init, CouponsInit
<1>2. \A c : {u \in counted : u[2] = c} = {}
  BY <1>1
<1>3. QED BY <1>1, <1>2, FS_EmptySet DEF UseInv, EachUseCountedOnce

LEMMA UsesStep ==
    ASSUME TypeOK, UseInv, EachUseCountedOnce, [Next]_vars
    PROVE  UseInv' /\ EachUseCountedOnce'
<1> USE DEF UseInv, EachUseCountedOnce
<1> /\ timesUsed \in [Coupons -> Nat]
    /\ reqPc \in [Requests -> ReqPc]
    /\ recording \subseteq Uses /\ counted \subseteq Uses
    /\ uncounted \subseteq Uses /\ lostUses \subseteq Uses
  BY DEF TypeOK, CouponsTypeOK
<1>1. ASSUME NEW r \in Requests, CheckCoupon(r) PROVE UseInv' /\ EachUseCountedOnce'
  BY <1>1 DEF CheckCoupon, ApplyCoupon, AfterCoupon, couponVars, Goto, Uses
<1>2. ASSUME UNCHANGED reqPc, NEW u \in recording, RecordUsage(u)
      PROVE  UseInv' /\ EachUseCountedOnce'
  <2> DEFINE d == u[2]
  <2>0. u = <<u[1], d>> /\ u[1] \in Requests /\ d \in Coupons /\ u \notin counted
    BY DEF Uses
  <2>1. CASE /\ recording' = recording \ {u} /\ counted' = counted \cup {u}
             /\ timesUsed' = [timesUsed EXCEPT ![d] = @ + 1]
             /\ UNCHANGED <<uncounted, lostUses>>
    <3>1. \A c \in Coupons : IsFiniteSet(CountedOf(c))
      BY FS_Subset DEF CountedOf
    <3>2. /\ CountedOf(d)' = CountedOf(d) \cup {u}
          /\ \A c \in Coupons \ {d} : CountedOf(c)' = CountedOf(c)
      BY <2>1 DEF CountedOf
    <3>3. Cardinality(CountedOf(d) \cup {u}) = Cardinality(CountedOf(d)) + 1
      <4>1. u \notin CountedOf(d)
        BY <2>0 DEF CountedOf
      <4>2. QED BY <2>0, <3>1, <4>1, FS_AddElement
    <3>4. ASSUME NEW c \in Coupons PROVE timesUsed'[c] = Cardinality(CountedOf(c)')
      <4>1. timesUsed[c] = Cardinality(CountedOf(c))
        BY DEF CountedOf
      <4>2. CASE c = d
        BY <2>1, <3>2, <3>3, <4>1, <4>2
      <4>3. CASE c # d
        BY <2>1, <3>2, <4>1, <4>3
      <4>4. QED BY <4>2, <4>3
    <3>5. IsFiniteSet(counted')
      BY <2>1, FS_AddElement
    <3>6. recording' \cap (counted' \cup uncounted' \cup lostUses') = {}
      BY <2>1
    <3>7. QED BY <1>2, <2>1, <3>4, <3>5, <3>6 DEF CountedOf
  <2>2. CASE /\ recording' = recording \ {u} /\ uncounted' = uncounted \cup {u}
             /\ UNCHANGED <<timesUsed, counted, lostUses>>
    BY <1>2, <2>2
  <2>3. QED BY <1>2, <2>0, <2>1, <2>2 DEF RecordUsage, IncrementUsage
<1>3. ASSUME UNCHANGED reqPc, NEW u \in recording, LoseUsage(u)
      PROVE  UseInv' /\ EachUseCountedOnce'
  BY <1>3 DEF LoseUsage
<1>4. ASSUME UNCHANGED <<reqPc, timesUsed, recording, counted, uncounted, lostUses>>
      PROVE  UseInv' /\ EachUseCountedOnce'
  BY <1>4
<1>5. CASE UNCHANGED couponVars
  BY <1>5, PastCoupon DEF couponVars, Uses
<1>6. QED
  BY CouponSteps, <1>1, <1>2, <1>3, <1>4, <1>5 DEF CouponsNext, UpdateCoupon, DeleteCoupon,
     ExpireCoupon

\* UseInv for every instance: a request uses its coupon once, on leaving the check.
THEOREM UseOnce == Spec => []UseInv
<1>1. TypeOK /\ UseInv /\ EachUseCountedOnce /\ [Next]_vars
          => UseInv' /\ EachUseCountedOnce'
  BY UsesStep
<1>2. QED BY UsesInit, <1>1, Typing, PTL DEF Spec

\* timesUsed counts each application of the coupon that was recorded, once.
THEOREM UsesCountedOnce == Spec => []EachUseCountedOnce
<1>1. TypeOK /\ UseInv /\ EachUseCountedOnce /\ [Next]_vars
          => UseInv' /\ EachUseCountedOnce'
  BY UsesStep
<1>2. QED BY UsesInit, <1>1, Typing, PTL DEF Spec
=============================================================================
