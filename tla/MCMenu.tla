------------------------------- MODULE MCMenu -------------------------------
(***************************************************************************)
(* A small instance of MenuIngestion: one product in one category, and two  *)
(* requests of any kinds.                                                   *)
(***************************************************************************)
EXTENDS MenuIngestion, TLC

CONSTANTS c1, c2, n1, n2, g1, g2, old, starters

MCOldMenu  == old :> [name |-> n1, cat |-> starters, label |-> g1, price |-> None]
MCOldNames == starters :> g1

\* A file of a new product in a new category, unless another request brings them first.
MCFiles == {<<n2, g2>>}

\* The old name in a category, and a new one in none.
MCAdds == {<<n1, TRUE>>, <<n2, FALSE>>}

\* A rename with a category.
MCEdits == {<<n2, TRUE>>}

\* An edit sends the variants anew, an addition and a file come without any: of two that
\* overlap one is refused or both are merged.
MCSetsVariants == {"update"}

\* Requests are alike but for their names.
MenuSymmetry == Permutations(Calls)

\* What is read from the menu: searches, and the prices of guests' orders.
Searches == INSTANCE SearchCases WITH own <- c1, other <- c2
Prices   == INSTANCE PricingCases

ASSUME CatalogSearches == Searches!SearchCasesHold
ASSUME OrderPrices == Prices!PricingCasesHold
=============================================================================
