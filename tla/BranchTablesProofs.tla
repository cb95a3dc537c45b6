-------------------------- MODULE BranchTablesProofs --------------------------
(***************************************************************************)
(* Proofs about BranchTables, for any number of branches, creations and    *)
(* deletions.                                                              *)
(***************************************************************************)
EXTENDS BranchTables, FiniteSetTheorems, TLAPS

-----------------------------------------------------------------------------
(* Type correctness.                                                       *)

LEMMA TypeStep == ASSUME TypeOK, [Next]_vars PROVE TypeOK'
<1> USE DEF TypeOK, branchVars, docVars, pcVars, BranchState, CreatePc, DeletePc
<1>1. ASSUME NEW b \in Branches, NEW n \in Counts, CreateBranch(b, n) \/ UpdateBranch(b, n)
      PROVE  TypeOK'
  BY <1>1, CountsAssumption DEF CreateBranch, UpdateBranch
<1>2. ASSUME NEW b \in Branches, DeleteBranch(b) PROVE TypeOK'
  BY <1>2 DEF DeleteBranch
<1>3. ASSUME NEW r \in Creates, ResolveBranch(r) \/ InsertTable(r) PROVE TypeOK'
  BY <1>3 DEF ResolveBranch, InsertTable
<1>4. ASSUME NEW r \in Creates, SignToken(r) \/ CountUp(r) \/ LoseCreate(r) PROVE TypeOK'
  BY <1>4 DEF SignToken, CountUp, LoseCreate, IncTableCount
<1>5. ASSUME NEW d \in Deletes, NEW t \in Creates, FindTable(d, t) PROVE TypeOK'
  BY <1>5 DEF FindTable
<1>6. ASSUME NEW d \in Deletes, RemoveTable(d) \/ CountDown(d) \/ LoseDelete(d) PROVE TypeOK'
  BY <1>6 DEF RemoveTable, CountDown, LoseDelete, IncTableCount
<1>7. CASE UNCHANGED vars
  BY <1>7 DEF vars
<1>8. QED BY <1>1, <1>2, <1>3, <1>4, <1>5, <1>6, <1>7 DEF Next

\* Every variable keeps its type; tableCount is an integer, of either sign.
THEOREM Typing == Spec => []TypeOK
<1>1. Init => TypeOK
  BY DEF Init, TypeOK, BranchState, CreatePc, DeletePc
<1>2. TypeOK /\ [Next]_vars => TypeOK'
  BY TypeStep
<1>3. QED BY <1>1, <1>2, PTL DEF Spec

-----------------------------------------------------------------------------
(* The counter and the tables.                                             *)

Inserted == {r \in Creates : createPc[r] \in {"sign", "count", "done", "uncounted"}}

\* A table comes from a creation past its insert, a deletion found such a table, and
\* nothing is homed at a branch before the branch exists.
CountInv ==
    /\ tables \subseteq Inserted
    /\ \A d \in Deletes : deletePc[d] # "new" => target[d] \in Inserted
    /\ \A b \in Branches : branchState[b] = "ABSENT" => \A r \in Creates : home[r] # b

LEMMA CountInvInit == Init => CountInv
BY NoneAssumption DEF Init, CountInv

LEMMA CountInvStep == ASSUME TypeOK, CountInv, [Next]_vars PROVE CountInv'
<1> USE DEF TypeOK, CountInv, Inserted, branchVars, docVars, pcVars, CreatePc, DeletePc
<1>1. ASSUME NEW b \in Branches,
             DeleteBranch(b) \/ \E n \in Counts : CreateBranch(b, n) \/ UpdateBranch(b, n)
      PROVE  CountInv'
  BY <1>1 DEF CreateBranch, UpdateBranch, DeleteBranch, BranchState
<1>2. ASSUME NEW r \in Creates, ResolveBranch(r) \/ InsertTable(r) PROVE CountInv'
  BY <1>2 DEF ResolveBranch, InsertTable
<1>3. ASSUME NEW r \in Creates, SignToken(r) \/ CountUp(r) \/ LoseCreate(r) PROVE CountInv'
  BY <1>3 DEF SignToken, CountUp, LoseCreate
<1>4. ASSUME NEW d \in Deletes, NEW t \in Creates, FindTable(d, t) PROVE CountInv'
  BY <1>4 DEF FindTable
<1>5. ASSUME NEW d \in Deletes, RemoveTable(d) \/ CountDown(d) \/ LoseDelete(d)
      PROVE  CountInv'
  BY <1>5 DEF RemoveTable, CountDown, LoseDelete
<1>6. CASE UNCHANGED vars
  BY <1>6 DEF vars
<1>7. QED BY <1>1, <1>2, <1>3, <1>4, <1>5, <1>6 DEF Next

Balanced(b) ==
    tableCount[b] + Cardinality(CountsToAdd(b))
        = Cardinality(TablesOf(b)) + Cardinality(CountsToDrop(b))

\* The three sets are finite, so one element more or less is one more or less to count.
LEMMA FiniteParts ==
    ASSUME TypeOK, NEW b \in Branches
    PROVE  \A S \in {TablesOf(b), CountsToAdd(b), CountsToDrop(b)} :
              IsFiniteSet(S) /\ Cardinality(S) \in Nat
<1>1. /\ TablesOf(b) \in SUBSET Creates
      /\ CountsToAdd(b) \in SUBSET Creates
      /\ CountsToDrop(b) \in SUBSET Deletes
  BY DEF TypeOK, TablesOf, CountsToAdd, CountsToDrop
<1>2. \A S \in {TablesOf(b), CountsToAdd(b), CountsToDrop(b)} : IsFiniteSet(S)
  BY <1>1, RequestsAssumption, FS_Subset
<1>3. QED BY <1>2, FS_CardinalityType

\* Whatever leaves the counter of b and the three sets alone leaves it balanced.
LEMMA SameParts ==
    ASSUME NEW b \in Branches, Balanced(b), tableCount'[b] = tableCount[b],
           TablesOf(b)' = TablesOf(b), CountsToAdd(b)' = CountsToAdd(b),
           CountsToDrop(b)' = CountsToDrop(b)
    PROVE  Balanced(b)'
BY DEF Balanced

LEMMA BalanceStep ==
    ASSUME TypeOK, CountInv, [Next]_vars, NEW b \in Branches,
           b \notin edited', branchState'[b] = "LIVE",
           b \notin edited /\ branchState[b] = "LIVE" => Balanced(b)
    PROVE  Balanced(b)'
<1> USE DEF TypeOK, branchVars, docVars, pcVars, TablesOf, CountsToAdd, CountsToDrop
<1> DEFINE Same == /\ TablesOf(b)' = TablesOf(b)
                   /\ CountsToAdd(b)' = CountsToAdd(b)
                   /\ CountsToDrop(b)' = CountsToDrop(b)
           Live == b \notin edited /\ branchState[b] = "LIVE"
<1>1. ASSUME NEW c \in Branches, NEW n \in Counts, CreateBranch(c, n) PROVE Balanced(b)'
  <2>1. CASE b = c
    <3>1. tableCount'[b] = 0
      BY <1>1, <2>1, CountsAssumption DEF CreateBranch
    <3>2. TablesOf(b)' = {} /\ CountsToAdd(b)' = {} /\ CountsToDrop(b)' = {}
      BY <1>1, <2>1 DEF CreateBranch, CountInv, Inserted
    <3>3. QED BY <3>1, <3>2, FS_EmptySet DEF Balanced
  <2>2. CASE b # c
    <3>1. Live /\ Same /\ tableCount'[b] = tableCount[b]
      BY <1>1, <2>2 DEF CreateBranch
    <3>2. QED BY <3>1, SameParts
  <2>3. QED BY <2>1, <2>2
<1>2. ASSUME NEW c \in Branches,
             DeleteBranch(c) \/ \E n \in Counts : UpdateBranch(c, n)
      PROVE  Balanced(b)'
  <2>1. Live /\ Same /\ tableCount'[b] = tableCount[b]
    BY <1>2 DEF DeleteBranch, UpdateBranch
  <2>2. QED BY <2>1, SameParts
<1>3. ASSUME NEW r \in Creates, ResolveBranch(r) \/ SignToken(r) \/ LoseCreate(r)
      PROVE  Balanced(b)'
  <2>1. Live /\ tableCount'[b] = tableCount[b]
    BY <1>3 DEF ResolveBranch, SignToken, LoseCreate
  <2>2. Same
    BY <1>3 DEF ResolveBranch, SignToken, LoseCreate, CountInv, Inserted, CreatePc
  <2>3. QED BY <2>1, <2>2, SameParts
<1>4. ASSUME NEW r \in Creates, InsertTable(r) PROVE Balanced(b)'
  <2>1. Live /\ tableCount'[b] = tableCount[b] /\ CountsToDrop(b)' = CountsToDrop(b)
    BY <1>4 DEF InsertTable
  <2>2. CASE r \in tables' /\ home[r] = b
    <3>1. /\ TablesOf(b)' = TablesOf(b) \cup {r} /\ r \notin TablesOf(b)
          /\ CountsToAdd(b)' = CountsToAdd(b) \cup {r} /\ r \notin CountsToAdd(b)
      BY <1>4, <2>2 DEF InsertTable, CountInv, Inserted
    <3> HIDE DEF TablesOf, CountsToAdd, CountsToDrop
    <3>2. /\ Cardinality(TablesOf(b)') = Cardinality(TablesOf(b)) + 1
          /\ Cardinality(CountsToAdd(b)') = Cardinality(CountsToAdd(b)) + 1
      BY <3>1, FiniteParts, FS_AddElement
    <3>3. QED BY <2>1, <3>2, FiniteParts DEF Balanced
  <2>3. CASE ~(r \in tables' /\ home[r] = b)
    <3>1. Same
      BY <1>4, <2>1, <2>3 DEF InsertTable, CountInv, Inserted
    <3>2. QED BY <2>1, <3>1, SameParts
  <2>4. QED BY <2>2, <2>3
<1>5. ASSUME NEW r \in Creates, CountUp(r) PROVE Balanced(b)'
  <2>1. Live /\ TablesOf(b)' = TablesOf(b) /\ CountsToDrop(b)' = CountsToDrop(b)
    BY <1>5 DEF CountUp
  <2>2. CASE home[r] = b
    <3>1. CountsToAdd(b)' = CountsToAdd(b) \ {r} /\ r \in CountsToAdd(b)
      BY <1>5, <2>2 DEF CountUp
    <3>2. tableCount'[b] = tableCount[b] + 1
      BY <1>5, <2>1, <2>2 DEF CountUp, IncTableCount
    <3> HIDE DEF TablesOf, CountsToAdd, CountsToDrop
    <3>3. Cardinality(CountsToAdd(b)') = Cardinality(CountsToAdd(b)) - 1
      BY <3>1, FiniteParts, FS_RemoveElement
    <3>4. QED BY <2>1, <3>2, <3>3, FiniteParts DEF Balanced
  <2>3. CASE home[r] # b
    <3>1. Same /\ tableCount'[b] = tableCount[b]
      BY <1>5, <2>1, <2>3 DEF CountUp, IncTableCount
    <3>2. QED BY <2>1, <3>1, SameParts
  <2>4. QED BY <2>2, <2>3
<1>6. ASSUME NEW d \in Deletes, NEW t \in Creates, FindTable(d, t) PROVE Balanced(b)'
  <2>1. Live /\ Same /\ tableCount'[b] = tableCount[b]
    BY <1>6 DEF FindTable
  <2>2. QED BY <2>1, SameParts
<1>7. ASSUME NEW d \in Deletes, LoseDelete(d) PROVE Balanced(b)'
  <2>1. Live /\ Same /\ tableCount'[b] = tableCount[b]
    BY <1>7 DEF LoseDelete
  <2>2. QED BY <2>1, SameParts
<1>8. ASSUME NEW d \in Deletes, RemoveTable(d) PROVE Balanced(b)'
  <2> PICK t : t = target[d]
    OBVIOUS
  <2>1. Live /\ tableCount'[b] = tableCount[b] /\ CountsToAdd(b)' = CountsToAdd(b)
    BY <1>8 DEF RemoveTable
  <2>2. CASE t \in tables /\ home[t] = b
    <3>1. /\ TablesOf(b)' = TablesOf(b) \ {t} /\ t \in TablesOf(b)
          /\ CountsToDrop(b)' = CountsToDrop(b) \cup {d} /\ d \notin CountsToDrop(b)
      BY <1>8, <2>2 DEF RemoveTable
    <3> HIDE DEF TablesOf, CountsToAdd, CountsToDrop
    <3>2. Cardinality(TablesOf(b)') = Cardinality(TablesOf(b)) - 1
      <4>1. IsFiniteSet(TablesOf(b)) /\ t \in TablesOf(b)
        BY <3>1, FiniteParts
      <4>2. Cardinality(TablesOf(b) \ {t}) = Cardinality(TablesOf(b)) - 1
        BY <4>1, FS_RemoveElement
      <4>3. QED BY <3>1, <4>2
    <3>3. Cardinality(CountsToDrop(b)') = Cardinality(CountsToDrop(b)) + 1
      BY <3>1, FiniteParts, FS_AddElement
    <3>4. QED BY <2>1, <3>2, <3>3, FiniteParts DEF Balanced
  <2>3. CASE ~(t \in tables /\ home[t] = b)
    <3>1. Same
      BY <1>8, <2>1, <2>3 DEF RemoveTable
    <3>2. QED BY <2>1, <3>1, SameParts
  <2>4. QED BY <2>2, <2>3
<1>9. ASSUME NEW d \in Deletes, CountDown(d) PROVE Balanced(b)'
  <2>1. Live /\ TablesOf(b)' = TablesOf(b) /\ CountsToAdd(b)' = CountsToAdd(b)
    BY <1>9 DEF CountDown
  <2>2. CASE home[target[d]] = b
    <3>1. CountsToDrop(b)' = CountsToDrop(b) \ {d} /\ d \in CountsToDrop(b)
      BY <1>9, <2>2 DEF CountDown
    <3>2. tableCount'[b] = tableCount[b] - 1
      BY <1>9, <2>1, <2>2 DEF CountDown, IncTableCount
    <3> HIDE DEF TablesOf, CountsToAdd, CountsToDrop
    <3>3. Cardinality(CountsToDrop(b)') = Cardinality(CountsToDrop(b)) - 1
      BY <3>1, FiniteParts, FS_RemoveElement
    <3>4. QED BY <2>1, <3>2, <3>3, FiniteParts DEF Balanced
  <2>3. CASE home[target[d]] # b
    <3>1. Same /\ tableCount'[b] = tableCount[b]
      BY <1>9, <2>1, <2>3 DEF CountDown, IncTableCount
    <3>2. QED BY <2>1, <3>1, SameParts
  <2>4. QED BY <2>2, <2>3
<1>10. CASE UNCHANGED vars
  <2>1. Live /\ Same /\ tableCount'[b] = tableCount[b]
    BY <1>10 DEF vars
  <2>2. QED BY <2>1, SameParts
<1>11. QED
  BY <1>1, <1>2, <1>3, <1>4, <1>5, <1>6, <1>7, <1>8, <1>9, <1>10 DEF Next

\* The counter of every branch accounts for its tables, up to the increments that are on
\* their way or were lost, however creations and deletions interleave.
THEOREM CountAccounts == Spec => []TableCountAccountsForTables
<1>1. Init => TableCountAccountsForTables
  BY DEF Init, TableCountAccountsForTables
<1>2. TypeOK /\ CountInv /\ TableCountAccountsForTables /\ [Next]_vars
        => CountInv' /\ TableCountAccountsForTables'
  BY BalanceStep, CountInvStep DEF TableCountAccountsForTables, Balanced
<1>3. QED BY <1>1, <1>2, CountInvInit, Typing, PTL DEF Spec
=============================================================================
