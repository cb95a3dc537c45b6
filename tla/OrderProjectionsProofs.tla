----------------------- MODULE OrderProjectionsProofs -----------------------
(***************************************************************************)
(* Proofs about OrderProjections, for any number of orders, status writes   *)
(* and retries.                                                             *)
(***************************************************************************)
EXTENDS OrderProjections, TLAPS

Pending == calls \cup jobs

-----------------------------------------------------------------------------
(* The steps: a status write launches calls, or one pending write settles.  *)

\* A status write and its calls: active_orders is always among the collections, with what
\* it is to show of the order.
StatusWrite(o, st, colls, data) ==
    /\ Launch(o, st, colls, data)
    /\ "active_orders" \in colls
    /\ st \in Statuses /\ data = IF st \in Terminal THEN Absent ELSE st
    /\ "kitchen_orders" \in colls => data \in {"CONFIRMED", "READY", Absent}

LEMMA StatusWrites ==
    ASSUME NEW o \in Orders,
           \/ CreateOrder(o) \/ ConfirmByCashier(o) \/ CompleteByKitchen(o) \/ CompleteOrder(o)
           \/ \E st \in StaffStatuses : UpdateOrderStatus(o, st)
    PROVE  \E st, data, colls : StatusWrite(o, st, colls, data)
<1> USE DEF StatusWrite, Statuses, Terminal, Collections, Rewrite
<1>1. CASE CreateOrder(o)
  BY <1>1 DEF CreateOrder
<1>2. CASE ConfirmByCashier(o)
  BY <1>2 DEF ConfirmByCashier
<1>3. CASE CompleteByKitchen(o)
  BY <1>3 DEF CompleteByKitchen
<1>4. CASE CompleteOrder(o)
  BY <1>4 DEF CompleteOrder
<1>5. ASSUME NEW st \in StaffStatuses, UpdateOrderStatus(o, st)
      PROVE  \E s, data, colls : StatusWrite(o, s, colls, data)
  <2>1. st \in Statuses
    BY SetsAssumption
  <2>2. CASE st \in Terminal
    BY <1>5, <2>1, <2>2 DEF UpdateOrderStatus
  <2>3. CASE st \notin Terminal
    BY <1>5, <2>1, <2>3 DEF UpdateOrderStatus
  <2>4. QED BY <2>2, <2>3
<1>6. QED BY <1>1, <1>2, <1>3, <1>4, <1>5

LEMMA Steps ==
    ASSUME [Next]_vars
    PROVE  \/ \E o \in Orders : \E st, data, colls : StatusWrite(o, st, colls, data)
           \/ \E x \in calls : CallSucceeds(x) \/ PublishFails(x) \/ CallLost(x)
           \/ \E j \in jobs : RetrySucceeds(j) \/ RetryFails(j) \/ JobLost(j)
           \/ UNCHANGED vars
BY StatusWrites DEF Next

-----------------------------------------------------------------------------
(* Type correctness.                                                       *)

LEMMA JobTyping ==
    ASSUME NEW x \in Call, x.data # Absent, NEW v \in {"qstash", "local"}
    PROVE  RetryJob(x, v) \in Job
BY DEF RetryJob, Call, Job

LEMMA RetryTyping ==
    ASSUME NEW j \in Job PROVE [j EXCEPT !.tries = @ + 1] \in Job
BY DEF Job

LEMMA TypingStep == ASSUME TypeOK, [Next]_vars PROVE TypeOK'
<1> USE DEF TypeOK
<1>1. ASSUME NEW o \in Orders, NEW st, NEW data, NEW colls, StatusWrite(o, st, colls, data)
      PROVE  TypeOK'
  <2>1. st \in Statuses /\ data \in Statuses \cup {Absent}
    BY <1>1 DEF StatusWrite
  <2>2. /\ status' \in [Orders -> Statuses \cup {Absent}]
        /\ written' \in [Orders -> SUBSET Statuses]
        /\ writes' \in [Orders -> Nat]
    BY <1>1, <2>1 DEF StatusWrite, Launch
  <2>3. calls' \subseteq Call
    <3>1. ASSUME NEW c \in colls \cap Watched
          PROVE  [at |-> writes[o], coll |-> c, order |-> o, data |-> data] \in Call
      BY <2>1 DEF Call
    <3>2. QED BY <1>1, <3>1 DEF StatusWrite, Launch
  <2>4. QED BY <1>1, <2>2, <2>3 DEF StatusWrite, Launch
<1>2. ASSUME NEW x \in calls, CallSucceeds(x) PROVE TypeOK'
  <2>1. x.coll \in Watched /\ x.order \in Orders /\ x.data \in Statuses \cup {Absent}
    BY DEF Call
  <2>2. doc' \in [Watched -> [Orders -> Statuses \cup {Absent}]]
    BY <1>2, <2>1 DEF CallSucceeds, Write
  <2>3. QED BY <1>2, <2>2 DEF CallSucceeds
<1>3. ASSUME NEW x \in calls, PublishFails(x) PROVE TypeOK'
  <2>1. PICK vias \in SUBSET {"qstash", "local"} :
           jobs' = jobs \cup {RetryJob(x, v) : v \in vias}
    BY <1>3 DEF PublishFails
  <2>2. jobs' \subseteq Job
    BY <1>3, <2>1, JobTyping DEF PublishFails
  <2>3. QED BY <1>3, <2>2 DEF PublishFails
<1>4. ASSUME NEW x \in calls, CallLost(x) PROVE TypeOK'
  BY <1>4 DEF CallLost, Call
<1>5. ASSUME NEW j \in jobs, RetrySucceeds(j) PROVE TypeOK'
  <2>1. j.coll \in Watched /\ j.order \in Orders /\ j.data \in Statuses
    BY DEF Job
  <2>2. doc' \in [Watched -> [Orders -> Statuses \cup {Absent}]]
    BY <1>5, <2>1 DEF RetrySucceeds, Write
  <2>3. jobs' \subseteq Job
    BY <1>5 DEF RetrySucceeds
  <2>4. QED BY <1>5, <2>2, <2>3 DEF RetrySucceeds
<1>6. ASSUME NEW j \in jobs, RetryFails(j) PROVE TypeOK'
  BY <1>6, RetryTyping DEF RetryFails
<1>7. ASSUME NEW j \in jobs, JobLost(j) PROVE TypeOK'
  BY <1>7 DEF JobLost, Job
<1>8. CASE UNCHANGED vars
  BY <1>8 DEF vars
<1>9. QED BY <1>1, <1>2, <1>3, <1>4, <1>5, <1>6, <1>7, <1>8, Steps

\* Every variable keeps its type, whatever calls and retries land and in whatever order.
THEOREM ProjectionTypes == Spec => []TypeOK
<1>1. Init => TypeOK
  BY DEF Init, TypeOK
<1>2. TypeOK /\ [Next]_vars => TypeOK'
  BY TypingStep
<1>3. QED BY <1>1, <1>2, PTL DEF Spec

-----------------------------------------------------------------------------
(* Where a pending write goes and what it carries outlives its failures.    *)

Same(x, y) == x.coll = y.coll /\ x.order = y.order /\ x.data = y.data

LEMMA Settles ==
    ASSUME TypeOK,
           \/ \E x \in calls : CallSucceeds(x) \/ PublishFails(x) \/ CallLost(x)
           \/ \E j \in jobs : RetrySucceeds(j) \/ RetryFails(j) \/ JobLost(j)
    PROVE  /\ UNCHANGED <<status, written, overlapped>>
           /\ \A y \in Pending' : \E x \in Pending : Same(x, y)
           /\ \E x \in Pending :
                \/ /\ Write(x) /\ UNCHANGED dropped
                   /\ \A y \in Pending : y = x \/ y \in Pending'
                \/ /\ UNCHANGED <<doc, dropped>>
                   /\ \A y \in Pending : \E z \in Pending' : Same(y, z)
                \/ /\ UNCHANGED doc /\ dropped' = dropped \cup {x.order}
                   /\ \A y \in Pending : y = x \/ y \in Pending'
<1> USE DEF Pending
<1>1. ASSUME NEW x \in calls, CallSucceeds(x)
      PROVE  /\ UNCHANGED <<status, written, overlapped, dropped>> /\ Write(x)
             /\ calls' = calls \ {x} /\ jobs' = jobs
  BY <1>1 DEF CallSucceeds
<1>2. ASSUME NEW x \in calls, CallLost(x)
      PROVE  /\ UNCHANGED <<status, written, overlapped, doc>>
             /\ calls' = calls \ {x} /\ jobs' = jobs /\ dropped' = dropped \cup {x.order}
  BY <1>2 DEF CallLost
<1>3. ASSUME NEW x \in calls, PublishFails(x)
      PROVE  /\ UNCHANGED <<status, written, overlapped, doc, dropped>>
             /\ calls' = calls \ {x} /\ jobs \subseteq jobs'
             /\ \A y \in jobs' : y \in jobs \/ Same(x, y)
             /\ \E y \in jobs' : Same(x, y)
  <2>1. UNCHANGED <<status, written, overlapped, doc, dropped>> /\ calls' = calls \ {x}
    BY <1>3 DEF PublishFails
  <2>2. PICK vias \in (SUBSET {"qstash", "local"}) \ {{}} :
           jobs' = jobs \cup {RetryJob(x, v) : v \in vias}
    BY <1>3 DEF PublishFails
  <2>3. \A v \in vias : Same(x, RetryJob(x, v))
    BY DEF Same, RetryJob
  <2>4. \A y \in jobs' : y \in jobs \/ Same(x, y)
    BY <2>2, <2>3
  <2>5. vias # {}
    BY Zenon
  <2>6. PICK v \in vias : TRUE
    BY <2>5
  <2>7. RetryJob(x, v) \in jobs' /\ Same(x, RetryJob(x, v))
    BY <2>2, <2>3
  <2>8. jobs \subseteq jobs'
    BY <2>2
  <2>9. QED BY <2>1, <2>4, <2>7, <2>8
<1>4. ASSUME NEW j \in jobs, RetrySucceeds(j)
      PROVE  /\ UNCHANGED <<status, written, overlapped, dropped, calls>> /\ Write(j)
             /\ jobs' = jobs \ {j} \/ jobs' = jobs
  BY <1>4 DEF RetrySucceeds
<1>5. ASSUME NEW j \in jobs, RetryFails(j)
      PROVE  /\ UNCHANGED <<status, written, overlapped, doc, dropped, calls>>
             /\ \E k : Same(j, k) /\ jobs' = (jobs \ {j}) \cup {k}
  <2>1. Same(j, [j EXCEPT !.tries = @ + 1])
    BY DEF Same, TypeOK, Job
  <2>2. QED BY <1>5, <2>1 DEF RetryFails
<1>6. ASSUME NEW j \in jobs, JobLost(j)
      PROVE  /\ UNCHANGED <<status, written, overlapped, doc, calls>>
             /\ jobs' = jobs \ {j} /\ dropped' = dropped \cup {j.order}
  BY <1>6 DEF JobLost
<1>7. \A x : Same(x, x)
  BY DEF Same
<1>8. CASE \E x \in calls : CallSucceeds(x)
  BY <1>1, <1>7, <1>8
<1>9. CASE \E x \in calls : CallLost(x)
  BY <1>2, <1>7, <1>9
<1>10. CASE \E x \in calls : PublishFails(x)
  BY <1>3, <1>7, <1>10
<1>11. CASE \E j \in jobs : RetrySucceeds(j)
  BY <1>4, <1>7, <1>11
<1>12. CASE \E j \in jobs : RetryFails(j)
  BY <1>5, <1>7, <1>12
<1>13. CASE \E j \in jobs : JobLost(j)
  BY <1>6, <1>7, <1>13
<1>14. QED BY <1>8, <1>9, <1>10, <1>11, <1>12, <1>13

-----------------------------------------------------------------------------
(* Screens show only what the order went through.                           *)

\* What is pending carries a status the order had; for the kitchen, one it may see.
HistoryInv ==
    /\ ScreensShowHistory
    /\ \A x \in Pending :
         /\ x.data \in written[x.order] \cup {Absent}
         /\ x.coll = "kitchen_orders" => x.data \in {"CONFIRMED", "READY", Absent}

\* What is pending has a place to go.
LEMMA PendingTyped ==
    ASSUME TypeOK, NEW x \in Pending
    PROVE  x.coll \in Watched /\ x.order \in Orders /\ x.data \in Statuses \cup {Absent}
BY DEF TypeOK, Pending, Call, Job

LEMMA HistoryStep ==
    ASSUME TypeOK, HistoryInv, [Next]_vars PROVE HistoryInv'
<1> USE DEF HistoryInv, ScreensShowHistory
<1> /\ status  \in [Orders -> Statuses \cup {Absent}]
    /\ written \in [Orders -> SUBSET Statuses]
    /\ doc     \in [Watched -> [Orders -> Statuses \cup {Absent}]]
  BY DEF TypeOK
<1>1. ASSUME NEW o \in Orders, NEW st, NEW data, NEW colls, StatusWrite(o, st, colls, data)
      PROVE  HistoryInv'
  <2>1. /\ written' = [written EXCEPT ![o] = @ \cup {st}] /\ doc' = doc
        /\ st \in Statuses /\ data \in {st, Absent}
        /\ "kitchen_orders" \in colls => data \in {"CONFIRMED", "READY", Absent}
    BY <1>1 DEF StatusWrite, Launch
  <2>2. \A p \in Orders : written[p] \subseteq written'[p]
    BY <2>1
  <2>3. \A x \in Pending' : \/ x \in Pending
                            \/ x.order = o /\ x.data = data /\ x.coll \in colls
    BY <1>1 DEF StatusWrite, Launch, Pending
  <2>4. st \in written'[o]
    BY <2>1
  <2>5. \A x \in Pending : x.order \in Orders
    BY PendingTyped
  <2>6. QED BY <2>1, <2>2, <2>3, <2>4, <2>5
<1>2. ASSUME \/ \E x \in calls : CallSucceeds(x) \/ PublishFails(x) \/ CallLost(x)
             \/ \E j \in jobs : RetrySucceeds(j) \/ RetryFails(j) \/ JobLost(j)
      PROVE  HistoryInv'
  <2>1. written' = written /\ \A y \in Pending' : \E x \in Pending : Same(x, y)
    BY <1>2, Settles
  <2>2. \E x \in Pending : Write(x) \/ UNCHANGED doc
    BY <1>2, Settles
  <2>3. ScreensShowHistory'
    <3>1. CASE UNCHANGED doc
      BY <2>1, <3>1
    <3>2. ASSUME NEW x \in Pending, Write(x) PROVE ScreensShowHistory'
      <4>1. x.coll \in Watched /\ x.order \in Orders
        BY PendingTyped
      <4>2. \A c \in Watched, o \in Orders :
               doc'[c][o] = IF c = x.coll /\ o = x.order THEN x.data ELSE doc[c][o]
        BY <3>2, <4>1 DEF Write
      <4>3. QED BY <2>1, <4>1, <4>2, WatchedAssumption
    <3>3. QED BY <2>2, <3>1, <3>2
  <2>4. QED BY <2>1, <2>3 DEF Same
<1>3. CASE UNCHANGED vars
  BY <1>3 DEF vars, Pending
<1>4. QED BY <1>1, <1>2, <1>3, Steps

\* In whatever order calls and retries land, no screen shows a status the order never had,
\* and the kitchen none but those it may see.
THEOREM ScreensTrue == Spec => []ScreensShowHistory
<1>1. Init => HistoryInv
  BY WatchedAssumption DEF Init, HistoryInv, ScreensShowHistory, Pending
<1>2. TypeOK /\ HistoryInv /\ [Next]_vars => HistoryInv'
  BY HistoryStep
<1>3. HistoryInv => ScreensShowHistory
  BY DEF HistoryInv
<1>4. QED BY <1>1, <1>2, <1>3, ProjectionTypes, PTL DEF Spec

-----------------------------------------------------------------------------
(* The screens in the end.                                                  *)

\* Of an order whose writes did not overlap and whose calls were not lost, all that is
\* pending for active_orders carries what is to be shown, and it shows that already or
\* something is still pending.
ReflectInv ==
    \A o \in Orders \ (overlapped \cup dropped) :
        /\ \A x \in Pending : x.order = o /\ x.coll = "active_orders" => x.data = Shown(o)
        /\ \/ doc["active_orders"][o] = Shown(o)
           \/ \E x \in Pending : x.order = o /\ x.coll = "active_orders"

LEMMA ReflectStep ==
    ASSUME TypeOK, ReflectInv, [Next]_vars PROVE ReflectInv'
<1> DEFINE Active == "active_orders"
<1> /\ status  \in [Orders -> Statuses \cup {Absent}]
    /\ doc     \in [Watched -> [Orders -> Statuses \cup {Absent}]]
    /\ Active \in Watched
  BY WatchedAssumption DEF TypeOK
<1>1. ASSUME NEW o \in Orders, NEW st, NEW data, NEW colls, StatusWrite(o, st, colls, data)
      PROVE  ReflectInv'
  <2> SUFFICES ASSUME NEW p \in Orders, p \notin overlapped' \cup dropped'
               PROVE  /\ \A x \in Pending' : x.order = p /\ x.coll = Active => x.data = Shown(p)'
                      /\ \/ doc'[Active][p] = Shown(p)'
                         \/ \E x \in Pending' : x.order = p /\ x.coll = Active
    BY DEF ReflectInv
  <2>1. /\ p \notin overlapped \cup dropped
        /\ doc' = doc /\ status' = [status EXCEPT ![o] = st]
        /\ p = o => PendingOf(o) = {}
    BY <1>1 DEF StatusWrite, Launch
  <2>2. \A x \in Pending' : x \in Pending \/ (x.order = o /\ x.data = data)
    <3>1. \A x \in calls' : x \in calls \/ (x.order = o /\ x.data = data)
      BY <1>1 DEF StatusWrite, Launch
    <3>2. jobs' = jobs
      BY <1>1 DEF StatusWrite, Launch
    <3>3. QED BY <3>1, <3>2 DEF Pending
  <2> DEFINE call == [at |-> writes[o], coll |-> Active, order |-> o, data |-> data]
  <2>3. Pending \subseteq Pending' /\ call \in Pending'
    BY <1>1 DEF StatusWrite, Launch, Pending
  <2>4. CASE p = o
    <3>1. \A x \in Pending : x.order # o
      BY <2>1, <2>4 DEF PendingOf, Pending
    <3>2. Shown(p)' = data
      BY <1>1, <2>1, <2>4 DEF StatusWrite, Shown
    <3>3. call.order = o /\ call.coll = Active
      OBVIOUS
    <3>4. QED BY <2>2, <2>3, <2>4, <3>1, <3>2, <3>3
  <2>5. CASE p # o
    <3>1. Shown(p)' = Shown(p)
      BY <2>1, <2>5 DEF Shown
    <3>2. QED BY <2>1, <2>2, <2>3, <2>5, <3>1 DEF ReflectInv
  <2>6. QED BY <2>4, <2>5
<1>2. ASSUME \/ \E x \in calls : CallSucceeds(x) \/ PublishFails(x) \/ CallLost(x)
             \/ \E j \in jobs : RetrySucceeds(j) \/ RetryFails(j) \/ JobLost(j)
      PROVE  ReflectInv'
  <2>1. /\ UNCHANGED <<status, overlapped>>
        /\ \A y \in Pending' : \E x \in Pending : Same(x, y)
    BY <1>2, Settles
  <2>2. PICK x \in Pending :
          \/ /\ Write(x) /\ UNCHANGED dropped
             /\ \A y \in Pending : y = x \/ y \in Pending'
          \/ /\ UNCHANGED <<doc, dropped>>
             /\ \A y \in Pending : \E z \in Pending' : Same(y, z)
          \/ /\ UNCHANGED doc /\ dropped' = dropped \cup {x.order}
             /\ \A y \in Pending : y = x \/ y \in Pending'
    BY <1>2, Settles
  <2>3. x.coll \in Watched /\ x.order \in Orders
    BY PendingTyped
  <2> SUFFICES ASSUME NEW p \in Orders, p \notin overlapped' \cup dropped'
               PROVE  /\ \A y \in Pending' : y.order = p /\ y.coll = Active => y.data = Shown(p)
                      /\ \/ doc'[Active][p] = Shown(p)
                         \/ \E y \in Pending' : y.order = p /\ y.coll = Active
    BY <2>1 DEF ReflectInv, Shown
  <2>4. p \notin overlapped \cup dropped
    BY <2>1, <2>2
  <2>5. /\ \A y \in Pending : y.order = p /\ y.coll = Active => y.data = Shown(p)
        /\ \/ doc[Active][p] = Shown(p)
           \/ \E y \in Pending : y.order = p /\ y.coll = Active
    BY <2>4 DEF ReflectInv
  <2>6. \A y \in Pending' : y.order = p /\ y.coll = Active => y.data = Shown(p)
    BY <2>1, <2>5 DEF Same
  <2>7. CASE /\ Write(x) /\ UNCHANGED dropped
             /\ \A y \in Pending : y = x \/ y \in Pending'
    <3>1. doc'[Active][p] = IF x.coll = Active /\ x.order = p THEN x.data ELSE doc[Active][p]
      BY <2>3, <2>7 DEF Write
    <3>2. QED BY <2>5, <2>6, <2>7, <3>1
  <2>8. CASE /\ UNCHANGED <<doc, dropped>>
             /\ \A y \in Pending : \E z \in Pending' : Same(y, z)
    BY <2>5, <2>6, <2>8 DEF Same
  <2>9. CASE /\ UNCHANGED doc /\ dropped' = dropped \cup {x.order}
             /\ \A y \in Pending : y = x \/ y \in Pending'
    BY <2>5, <2>6, <2>9
  <2>10. QED BY <2>2, <2>7, <2>8, <2>9
<1>3. CASE UNCHANGED vars
  BY <1>3 DEF vars, Pending, ReflectInv, Shown
<1>4. QED BY <1>1, <1>2, <1>3, Steps

\* Once everything an order launched has settled, active_orders shows its status, unless
\* its writes overlapped or a call or job of it was lost.
THEOREM SettledProjections == Spec => []SettledProjectionMatches
<1>1. Init => ReflectInv
  BY WatchedAssumption DEF Init, ReflectInv, Shown, Pending, Terminal, Absent
<1>2. TypeOK /\ ReflectInv /\ [Next]_vars => ReflectInv'
  BY ReflectStep
<1>3. ReflectInv => SettledProjectionMatches
  BY DEF ReflectInv, SettledProjectionMatches, PendingOf, Pending
<1>4. QED BY <1>1, <1>2, <1>3, ProjectionTypes, PTL DEF Spec
=============================================================================
