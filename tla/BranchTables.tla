----------------------------- MODULE BranchTables -----------------------------
(***************************************************************************)
(* Creating and deleting the tables of a branch, and Branch.tableCount:    *)
(* modules/tables/service.ts and modules/branches.  The counter is kept    *)
(* next to the tables by $inc updates of its own, in no transaction:       *)
(*                                                                         *)
(*   createTable:  new -> insert -> sign -> count -> done                  *)
(*   deleteTable:  new -> remove -> count -> done                          *)
(*                                                                         *)
(* A table is named by the request that creates it (a fresh ObjectId).     *)
(***************************************************************************)
EXTENDS Integers, FiniteSets

CONSTANTS Branches, None,
          Creates,        \* requests to POST /tables, and the tables they insert
          Deletes,        \* requests to DELETE /tables/:id
          Number,         \* [Creates -> the table number its dto carries]
          Counts,         \* values of tableCount a branch dto may carry
          MaxBranchEdits  \* bound on updateBranch

ASSUME CountsAssumption == Counts \subseteq Nat
ASSUME RequestsAssumption == IsFiniteSet(Creates) /\ IsFiniteSet(Deletes)
ASSUME NoneAssumption == None \notin Branches \cup Creates

VARIABLES branchState,  \* ABSENT, LIVE or DELETED
          tableCount,   \* Branch.tableCount
          tables,       \* the Table documents
          home,         \* Table.branchId, kept of deleted tables too
          createPc, deletePc,
          target,       \* the table a delete request names, once it was found
          edited,       \* history: branches whose tableCount came from a dto
          branchEdits

branchVars == <<branchState, edited, branchEdits>>
docVars    == <<tables, home>>
pcVars     == <<createPc, deletePc, target>>
vars       == <<branchVars, tableCount, docVars, pcVars>>

BranchState == {"ABSENT", "LIVE", "DELETED"}
CreatePc    == {"new", "insert", "sign", "count", "done", "rejected", "lost", "uncounted"}
DeletePc    == {"new", "remove", "count", "done", "rejected", "lost", "uncounted"}

Init ==
    /\ branchState = [b \in Branches |-> "ABSENT"]
    /\ tableCount  = [b \in Branches |-> 0]
    /\ edited = {} /\ branchEdits = 0
    /\ tables = {}
    /\ home     = [r \in Creates |-> None]
    /\ createPc = [r \in Creates |-> "new"]
    /\ deletePc = [d \in Deletes |-> "new"]
    /\ target   = [d \in Deletes |-> None]

-----------------------------------------------------------------------------
(* modules/branches                                                        *)

CreateBranch(b, n) ==
    /\ branchState[b] = "ABSENT"
    /\ branchState' = [branchState EXCEPT ![b] = "LIVE"]
    /\ tableCount'  = [tableCount EXCEPT ![b] = n]
    /\ edited'      = IF n = 0 THEN edited ELSE edited \cup {b}
    /\ UNCHANGED <<branchEdits, docVars, pcVars>>

\* The dto holds tableCount when the caller sent it, and the schema's default 0 when
\* partial() applies the default.
UpdateBranch(b, n) ==
    /\ branchEdits < MaxBranchEdits
    /\ branchState[b] = "LIVE"
    /\ tableCount'  = [tableCount EXCEPT ![b] = n]
    /\ edited'      = edited \cup {b}
    /\ branchEdits' = branchEdits + 1
    /\ UNCHANGED <<branchState, docVars, pcVars>>

\* The tables of the branch stay behind.
DeleteBranch(b) ==
    /\ branchState[b] = "LIVE"
    /\ branchState' = [branchState EXCEPT ![b] = "DELETED"]
    /\ UNCHANGED <<tableCount, edited, branchEdits, docVars, pcVars>>

\* updateOne { _id: branch } { $inc: { tableCount: n } }: nothing when it is gone.
IncTableCount(b, n) ==
    tableCount' = IF branchState[b] = "LIVE" THEN [tableCount EXCEPT ![b] = @ + n]
                                             ELSE tableCount

-----------------------------------------------------------------------------
(* createTable                                                             *)

\* A tenant without a branch is let through.
ResolveBranch_NoneIsFine(r) ==
    /\ createPc[r] = "new"
    /\ \E b \in {x \in Branches : branchState[x] # "ABSENT"} \cup {None} :
          home' = [home EXCEPT ![r] = b]
    /\ createPc' = [createPc EXCEPT ![r] = "insert"]
    /\ UNCHANGED <<branchVars, tableCount, tables, deletePc, target>>

\* The branch of the dto, which nobody looks up, or else the only branch there is.
ResolveBranch(r) ==
    /\ createPc[r] = "new"
    /\ \E b \in {x \in Branches : branchState[x] # "ABSENT"} :
          home' = [home EXCEPT ![r] = b]
    /\ createPc' = [createPc EXCEPT ![r] = "insert"]
    /\ UNCHANGED <<branchVars, tableCount, tables, deletePc, target>>

\* The unique index on (tenantId, branchId, number) refuses a number in use.
InsertTable(r) ==
    LET taken == \E t \in tables : home[t] = home[r] /\ Number[t] = Number[r] IN
    /\ createPc[r] = "insert"
    /\ createPc' = [createPc EXCEPT ![r] = IF taken THEN "rejected" ELSE "sign"]
    /\ tables'   = IF taken THEN tables ELSE tables \cup {r}
    /\ UNCHANGED <<branchVars, tableCount, home, deletePc, target>>

\* The signed QR token is written in an update of its own; when the table is gone by
\* then, `|| table` goes on with the old document.
SignToken(r) ==
    /\ createPc[r] = "sign"
    /\ createPc' = [createPc EXCEPT ![r] = "count"]
    /\ UNCHANGED <<branchVars, tableCount, docVars, deletePc, target>>

CountUp(r) ==
    /\ createPc[r] = "count"
    /\ createPc' = [createPc EXCEPT ![r] = "done"]
    /\ IncTableCount(home[r], 1)
    /\ UNCHANGED <<branchVars, docVars, deletePc, target>>

-----------------------------------------------------------------------------
(* deleteTable                                                             *)

FindTable(d, t) ==
    /\ deletePc[d] = "new"
    /\ t \in tables
    /\ deletePc' = [deletePc EXCEPT ![d] = "remove"]
    /\ target'   = [target EXCEPT ![d] = t]
    /\ UNCHANGED <<branchVars, tableCount, docVars, createPc>>

\* The answer of deleteOne is not looked at: the table was found a moment ago.
RemoveTable_Unchecked(d) ==
    /\ deletePc[d] = "remove"
    /\ tables'   = tables \ {target[d]}
    /\ deletePc' = [deletePc EXCEPT ![d] = "count"]
    /\ UNCHANGED <<branchVars, tableCount, home, createPc, target>>

\* deleteOne: of two concurrent deletions one finds nothing left and fails.
RemoveTable(d) ==
    /\ deletePc[d] = "remove"
    /\ tables'   = tables \ {target[d]}
    /\ deletePc' = [deletePc EXCEPT
                      ![d] = IF target[d] \in tables THEN "count" ELSE "rejected"]
    /\ UNCHANGED <<branchVars, tableCount, home, createPc, target>>

\* { $inc: { tableCount: -1 } }, whatever the counter holds.
CountDown(d) ==
    /\ deletePc[d] = "count"
    /\ deletePc' = [deletePc EXCEPT ![d] = "done"]
    /\ IncTableCount(home[target[d]], -1)
    /\ UNCHANGED <<branchVars, docVars, createPc, target>>

-----------------------------------------------------------------------------
(* A request stops between two writes: its instance dies or an update fails. *)

LoseCreate(r) ==
    /\ createPc[r] \in {"insert", "sign", "count"}
    /\ createPc' = [createPc EXCEPT ![r] = IF @ = "insert" THEN "lost" ELSE "uncounted"]
    /\ UNCHANGED <<branchVars, tableCount, docVars, deletePc, target>>

LoseDelete(d) ==
    /\ deletePc[d] \in {"remove", "count"}
    /\ deletePc' = [deletePc EXCEPT ![d] = IF @ = "remove" THEN "lost" ELSE "uncounted"]
    /\ UNCHANGED <<branchVars, tableCount, docVars, createPc, target>>

Next ==
    \/ \E b \in Branches :
          \/ DeleteBranch(b)
          \/ \E n \in Counts : CreateBranch(b, n) \/ UpdateBranch(b, n)
    \/ \E r \in Creates :
          \/ ResolveBranch(r) \/ InsertTable(r) \/ SignToken(r) \/ CountUp(r)
          \/ LoseCreate(r)
    \/ \E d \in Deletes :
          \/ \E t \in Creates : FindTable(d, t)
          \/ RemoveTable(d) \/ CountDown(d) \/ LoseDelete(d)

Spec == Init /\ [][Next]_vars

-----------------------------------------------------------------------------
TypeOK ==
    /\ branchState \in [Branches -> BranchState]
    /\ tableCount  \in [Branches -> Int]
    /\ tables \subseteq Creates
    /\ home   \in [Creates -> Branches \cup {None}]
    /\ \A r \in Creates : createPc[r] # "new" => home[r] \in Branches
    /\ createPc \in [Creates -> CreatePc]
    /\ deletePc \in [Deletes -> DeletePc]
    /\ target   \in [Deletes -> Creates \cup {None}]
    /\ \A d \in Deletes : deletePc[d] # "new" => target[d] \in Creates
    /\ edited \subseteq Branches
    /\ branchEdits \in Nat

TablesOf(b)     == {t \in tables : home[t] = b}
CountsToAdd(b)  ==
    {r \in Creates : createPc[r] \in {"sign", "count", "uncounted"} /\ home[r] = b}
CountsToDrop(b) ==
    {d \in Deletes : deletePc[d] \in {"count", "uncounted"} /\ home[target[d]] = b}

\* tableCount is the number of tables of the branch, less the insertions and plus the
\* deletions whose $inc is still to come or was lost: concurrent creations and deletions,
\* of one table too, never drift it otherwise (tables/service.ts:39-65, 203-217).
TableCountAccountsForTables ==
    \A b \in Branches \ edited : branchState[b] = "LIVE" =>
        tableCount[b] + Cardinality(CountsToAdd(b))
            = Cardinality(TablesOf(b)) + Cardinality(CountsToDrop(b))

\* "Decrement branch table count (guard against negative)" (tables/service.ts:210).
TableCountNeverNegative == \A b \in Branches : tableCount[b] >= 0
=============================================================================
