----------------------------- MODULE VectorIndex -----------------------------
(***************************************************************************)
(* The vector index the chatbot searches: modules/vector and the worker     *)
(* vector-sync.worker.ts.  A writer of the menu enqueues a job when it has  *)
(* saved; the queue delivers jobs in any order, several at a time, and      *)
(* again when the handler throws.  A job names a product, never its value:  *)
(* the worker reads the menu as it is when it runs.                         *)
(*                                                                          *)
(*   upsert    idle -> read -> write | delete -> idle                       *)
(*   delete    idle -> delete -> idle                                       *)
(*   rebuild   idle -> reset -> read -> write -> idle                       *)
(***************************************************************************)
EXTENDS MenuCatalog

VARIABLES vec,         \* the tenant's namespace: [id -> the product embedded, or None]
          work,        \* [call -> the delivery at work on its job]
          crossed,     \* history: a delivery began while another was at work
          early,       \* history: calls whose rebuild read the menu before they committed
          dropped      \* history: calls whose job ran out of retries

vectorVars == <<vec, work, crossed, early, dropped>>

NoWork   == [pc |-> "idle", op |-> None, read |-> None]
AtWork   == {c \in Calls : work[c].pc # "idle"}
WorkPc   == {"idle", "reset", "read", "write", "delete"}
Delivery == [pc: WorkPc, op: {"upsert", "delete", "rebuild", None}, read: Arrays \cup {None}]

VectorInit ==
    /\ vec = products
    /\ work = [c \in Calls |-> NoWork]
    /\ crossed = FALSE /\ early = {} /\ dropped = {}

WorkGoto(c, pc) == work' = [work EXCEPT ![c].pc = pc]

\* Two jobs of one call are not at work together.
TakeJob(j) ==
    /\ work[j.by].pc = "idle"
    /\ jobs' = jobs \ {j}
    /\ work' = [work EXCEPT ![j.by] = [NoWork EXCEPT !.op = j.op,
                   !.pc = CASE j.op = "rebuild" -> "reset"
                            [] j.op = "upsert"  -> "read"
                            [] j.op = "delete"  -> "delete"]]
    /\ crossed' = (crossed \/ AtWork # {})
    /\ UNCHANGED <<menuVars, catName, cache, mcall, unsynced, faults, renamed,
                   vec, early, dropped>>

\* rebuildTenant wipes the namespace before it reads the menu.
ResetNamespace(c) ==
    /\ work[c].pc = "reset"
    /\ vec' = NoProducts
    /\ WorkGoto(c, "read")
    /\ UNCHANGED <<catalogVars, crossed, early, dropped>>

\* All products, or the one the job names; what a transaction has not committed is not seen.
ReadMenu(c) ==
    LET id == mcall[c].id
        all == work[c].op = "rebuild"
        next == IF all THEN IF Live = {} THEN "idle" ELSE "write"
                ELSE IF products[id] = None THEN "delete" ELSE "write"
    IN
    /\ work[c].pc = "read"
    /\ work' = [work EXCEPT ![c] =
           IF next = "idle" THEN NoWork
           ELSE [@ EXCEPT !.read = [i \in Ids |-> IF all \/ i = id THEN products[i] ELSE None],
                          !.pc = next]]
    /\ early' = IF c \in Uncommitted THEN early \cup {c} ELSE early
    /\ UNCHANGED <<catalogVars, vec, crossed, dropped>>

\* One batch: the chunks of 100 only add.
WriteVectors(c) ==
    LET read == work[c].read IN
    /\ work[c].pc = "write"
    /\ vec' = IF work[c].op = "rebuild"
              THEN [id \in Ids |-> IF read[id] # None THEN read[id] ELSE vec[id]]
              ELSE [vec EXCEPT ![mcall[c].id] = read[mcall[c].id]]
    /\ work' = [work EXCEPT ![c] = NoWork]
    /\ UNCHANGED <<catalogVars, crossed, early, dropped>>

DeleteVector(c) ==
    /\ work[c].pc = "delete"
    /\ vec' = [vec EXCEPT ![mcall[c].id] = None]
    /\ work' = [work EXCEPT ![c] = NoWork]
    /\ UNCHANGED <<catalogVars, crossed, early, dropped>>

\* The embedding client or the index throws, or the worker dies: the queue delivers the job
\* again while it has retries, and a job run in the process that enqueued it is lost.
JobFails(c) ==
    /\ work[c].pc \in {"write", "delete"} /\ faults < MaxFaults
    /\ faults' = faults + 1
    /\ work' = [work EXCEPT ![c] = NoWork]
    /\ \/ jobs' = jobs \cup {[by |-> c, op |-> work[c].op]} /\ UNCHANGED dropped
       \/ dropped' = dropped \cup {c} /\ UNCHANGED jobs
    /\ UNCHANGED <<menuVars, catName, cache, mcall, unsynced, renamed,
                   vec, crossed, early>>

VectorNext ==
    \/ \E j \in jobs : TakeJob(j)
    \/ \E c \in Calls : ResetNamespace(c) \/ ReadMenu(c) \/ WriteVectors(c) \/ DeleteVector(c)
                        \/ JobFails(c)

-----------------------------------------------------------------------------
VectorTypeOK ==
    /\ vec \in Arrays
    /\ work \in [Calls -> Delivery]
    /\ crossed \in BOOLEAN
    /\ early \cup dropped \subseteq Calls

Settled == /\ jobs = {} /\ AtWork = {}
           /\ \A c \in Calls : mcall[c].pc \in {"idle", "done", "denied", "failed", "lost"}

\* When nothing is left to do, the index holds the products of the menu as they are, unless
\* deliveries crossed, a job ran out of retries or was never enqueued, or the rebuild of an
\* import read the menu before the import committed, for the job is enqueued inside the
\* transaction (vector-sync.worker.ts:18-40, vector/sync.service.ts:37-72,
\* menu/repository.ts:131-134).
IndexMatchesMenu ==
    Settled /\ ~crossed /\ early = {} /\ dropped = {} /\ unsynced = {} => vec = products
=============================================================================
