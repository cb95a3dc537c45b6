--------------------------- MODULE MCBranchTables ---------------------------
(***************************************************************************)
(* A small instance of BranchTables: three creations, two of one number.   *)
(***************************************************************************)
EXTENDS BranchTables, TLC

CONSTANTS b1, b2, n1, n2, n3, d1, d2

CreateNumbers == n1 :> 1 @@ n2 :> 2 @@ n3 :> 1
Symmetry == Permutations({d1, d2}) \cup Permutations({b1, b2})
=============================================================================
