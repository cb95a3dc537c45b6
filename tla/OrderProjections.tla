--------------------------- MODULE OrderProjections ---------------------------
(***************************************************************************)
(* The Firestore projections of an order (active_orders, cashier_orders,   *)
(* kitchen_orders), which the screens of guests, cashier and kitchen show. *)
(* Every status write of modules/orders/service.ts launches publishes or   *)
(* deletions that nobody awaits, so they settle in any order.  A publish   *)
(* that fails becomes a retry job that carries the data of that publish    *)
(* (services/realtime, services/queue, workers/firestore-retry.worker.ts); *)
(* a deletion that fails is forgotten.                                     *)
(***************************************************************************)
EXTENDS Naturals, FiniteSets

CONSTANTS Orders,
          StaffStatuses,  \* statuses staff write with updateOrderStatus
          Watched,        \* the collections followed: their calls never interact
          MaxRetries,     \* deliveries QStash adds to the first one
          MaxWrites       \* bound on status writes, the creation of the order included

Collections == {"active_orders", "cashier_orders", "kitchen_orders"}
Statuses    == {"PENDING", "CONFIRMED", "PREPARING", "READY", "SERVED", "PAID", "COMPLETED",
                "CANCELLED"}
Terminal    == {"PAID", "COMPLETED", "CANCELLED"}
Absent      == "ABSENT"    \* no document, or no order yet

ASSUME SetsAssumption == StaffStatuses \subseteq Statuses /\ Watched \subseteq Collections
ASSUME WatchedAssumption == {"active_orders", "kitchen_orders"} \subseteq Watched
ASSUME BoundsAssumption == MaxRetries \in Nat /\ MaxWrites \in Nat

VARIABLES status,      \* Order.status in MongoDB
          written,     \* history: the statuses an order has had
          writes,      \* history: how often it was written
          doc,         \* [Watched -> [Orders -> status of the Firestore document]]
          calls,       \* Firestore calls in flight
          jobs,        \* firestore-retry jobs
          overlapped,  \* history: orders written while a call or job of theirs was pending
          dropped      \* history: orders that lost a call or job for good

vars == <<status, written, writes, doc, calls, jobs, overlapped, dropped>>

Call == [at: Nat, coll: Watched, order: Orders, data: Statuses \cup {Absent}]
Job  == [at: Nat, coll: Watched, order: Orders, data: Statuses,
         via: {"qstash", "local"}, tries: Nat]

Init ==
    /\ status  = [o \in Orders |-> Absent]
    /\ written = [o \in Orders |-> {}]
    /\ writes  = [o \in Orders |-> 0]
    /\ doc     = [c \in Watched |-> [o \in Orders |-> Absent]]
    /\ calls = {} /\ jobs = {} /\ overlapped = {} /\ dropped = {}

PendingOf(o) == {x \in calls \cup jobs : x.order = o}

-----------------------------------------------------------------------------
(* Status writes, with the Firestore calls each of them launches.          *)

\* One publish (or deletion, data = Absent) for each of the collections.
Launch(o, st, colls, data) ==
    /\ status'  = [status EXCEPT ![o] = st]
    /\ writes'  = [writes EXCEPT ![o] = @ + 1]
    /\ written' = [written EXCEPT ![o] = @ \cup {st}]
    /\ calls'   = calls \cup {[at |-> writes[o], coll |-> c, order |-> o, data |-> data] :
                              c \in colls \cap Watched}
    /\ overlapped' = IF PendingOf(o) = {} THEN overlapped ELSE overlapped \cup {o}
    /\ UNCHANGED <<doc, jobs, dropped>>

\* A new order goes to every screen at once.
CreateOrder_ToKitchen(o) ==
    /\ status[o] = Absent
    /\ Launch(o, "PENDING", Collections, "PENDING")

CreateOrder(o) ==
    /\ status[o] = Absent
    /\ Launch(o, "PENDING", {"active_orders", "cashier_orders"}, "PENDING")

\* A later write, by id and with no look at the status it replaces.
Rewrite(o, st, colls, data) ==
    /\ status[o] # Absent /\ writes[o] < MaxWrites
    /\ Launch(o, st, colls, data)

ConfirmByCashier(o)  == Rewrite(o, "CONFIRMED", Collections, "CONFIRMED")
CompleteByKitchen(o) == Rewrite(o, "READY", Collections, "READY")
CompleteOrder(o)     == Rewrite(o, "COMPLETED", Collections, Absent)

UpdateOrderStatus(o, st) ==
    IF st \in Terminal THEN Rewrite(o, st, Collections, Absent)
                       ELSE Rewrite(o, st, {"active_orders"}, st)

-----------------------------------------------------------------------------
(* What becomes of a Firestore call.                                       *)

\* publish (set with merge: true) and delete: the document as the call leaves it.
Write(x) == doc' = [doc EXCEPT ![x.coll][x.order] = x.data]

CallSucceeds(x) ==
    /\ x \in calls
    /\ Write(x)
    /\ calls' = calls \ {x}
    /\ UNCHANGED <<status, written, writes, jobs, overlapped, dropped>>

RetryJob(x, via) == [at |-> x.at, coll |-> x.coll, order |-> x.order, data |-> x.data,
                     via |-> via, tries |-> 0]

\* The error is logged, and that is all.
PublishFails_Logged(x) ==
    /\ x \in calls /\ x.data # Absent
    /\ calls' = calls \ {x}
    /\ UNCHANGED <<status, written, writes, doc, jobs, overlapped, dropped>>

\* A failed deletion is queued like a failed publish, with no data.
PublishFails_Deletions(x) ==
    /\ x \in calls
    /\ jobs'  = jobs \cup {RetryJob(x, "qstash")}
    /\ calls' = calls \ {x}
    /\ UNCHANGED <<status, written, writes, doc, overlapped, dropped>>

\* publishSafe enqueues a job: through QStash, in-process where there is no QStash or it
\* cannot be reached, and both when QStash took the job and the answer was lost.
PublishFails(x) ==
    /\ x \in calls /\ x.data # Absent
    /\ \E vias \in (SUBSET {"qstash", "local"}) \ {{}} :
          jobs' = jobs \cup {RetryJob(x, v) : v \in vias}
    /\ calls' = calls \ {x}
    /\ UNCHANGED <<status, written, writes, doc, overlapped, dropped>>

\* A failed deletion is swallowed by .catch(() => null); any call dies with its instance.
CallLost(x) ==
    /\ x \in calls
    /\ calls'   = calls \ {x}
    /\ dropped' = dropped \cup {x.order}
    /\ UNCHANGED <<status, written, writes, doc, jobs, overlapped>>

\* processFirestoreRetryJob writes the data of the failed publish.  QStash delivers at
\* least once: the job may come again although it succeeded.
RetrySucceeds(j) ==
    /\ j \in jobs
    /\ Write(j)
    /\ \/ jobs' = jobs \ {j}
       \/ j.via = "qstash" /\ UNCHANGED jobs
    /\ UNCHANGED <<status, written, writes, calls, overlapped, dropped>>

\* The handler answers 500 and QStash tries again; an in-process job has one attempt.
RetryFails(j) ==
    /\ j \in jobs /\ j.via = "qstash" /\ j.tries < MaxRetries
    /\ jobs' = (jobs \ {j}) \cup {[j EXCEPT !.tries = @ + 1]}
    /\ UNCHANGED <<status, written, writes, doc, calls, overlapped, dropped>>

JobLost(j) ==
    /\ j \in jobs
    /\ j.via = "qstash" => j.tries = MaxRetries
    /\ jobs'    = jobs \ {j}
    /\ dropped' = dropped \cup {j.order}
    /\ UNCHANGED <<status, written, writes, doc, calls, overlapped>>

Next ==
    \/ \E o \in Orders :
          \/ CreateOrder(o) \/ ConfirmByCashier(o)
          \/ CompleteByKitchen(o) \/ CompleteOrder(o)
          \/ \E st \in StaffStatuses : UpdateOrderStatus(o, st)
    \/ \E x \in calls : CallSucceeds(x) \/ PublishFails(x) \/ CallLost(x)
    \/ \E j \in jobs : RetrySucceeds(j) \/ RetryFails(j) \/ JobLost(j)

Spec == Init /\ [][Next]_vars

-----------------------------------------------------------------------------
TypeOK ==
    /\ status  \in [Orders -> Statuses \cup {Absent}]
    /\ written \in [Orders -> SUBSET Statuses]
    /\ writes  \in [Orders -> Nat]
    /\ doc     \in [Watched -> [Orders -> Statuses \cup {Absent}]]
    /\ calls \subseteq Call
    /\ jobs  \subseteq Job
    /\ overlapped \subseteq Orders /\ dropped \subseteq Orders

\* What active_orders shows of an order: its status, and nothing once it is finished.
Shown(o) == IF status[o] \in Terminal THEN Absent ELSE status[o]

\* Once everything an order launched has settled, active_orders shows its status in
\* MongoDB, failed publishes and repeated deliveries included; it can be stale only where
\* a status was written before the calls of an earlier one had settled, or where a call or
\* the last delivery of a job was lost.
SettledProjectionMatches ==
    \A o \in Orders \ (overlapped \cup dropped) :
        PendingOf(o) = {} => doc["active_orders"][o] = Shown(o)

\* In whatever order calls and retries land, no screen shows a status the order never had,
\* and the kitchen sees no order that neither the cashier confirmed nor the kitchen made
\* ready.
ScreensShowHistory ==
    \A o \in Orders :
        /\ \A c \in Watched : doc[c][o] \in written[o] \cup {Absent}
        /\ doc["kitchen_orders"][o] \in {"CONFIRMED", "READY", Absent}

\* "On success: Firestore projection is brought back in sync with MongoDB"
\* (workers/firestore-retry.worker.ts:16), at the least when the retry is the last thing
\* the order had pending.
RetryRestoresProjection ==
    [][\A j \in jobs :
          PendingOf(j.order) = {j} /\ j.coll = "active_orders" /\ RetrySucceeds(j)
          => doc'["active_orders"][j.order] = Shown(j.order)]_vars
=============================================================================
