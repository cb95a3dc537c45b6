----------------------------- MODULE SearchCases -----------------------------
(***************************************************************************)
(* CatalogSearch over small menus and queries.                              *)
(***************************************************************************)
EXTENDS CatalogSearch, FiniteSets

CONSTANTS own, other        \* two tenants

Product(i, name, description, available) ==
    [id |-> i, name |-> name, description |-> description, categoryName |-> <<"grill">>,
     isAvailable |-> available]

Hot == <<"hot", "wings">>
Products ==
    <<Product(1, <<"wings">>, <<"hot", "wings">>, TRUE), Product(2, Hot, <<>>, TRUE),
      Product(3, <<"very", "hot", "wings">>, <<>>, TRUE), Product(4, Hot, <<>>, FALSE),
      Product(5, <<"wings", "so", "hot">>, <<"hot", "and", "wings">>, TRUE)>>

MenuFor(t, active, products) ==
    [id |-> 1, tenantId |-> t, isActive |-> active, products |-> products]

Menus == {MenuFor(own, TRUE, Products), MenuFor(own, FALSE, <<>>),
          MenuFor(other, TRUE, SubSeq(Products, 1, 1))}

Queries == {<<>>, <<"wings">>, Hot, <<"grill">>, <<"tea">>, <<"wings", "grill">>}

\* A search of the menu answers with what is on sale, the best first and each once, leaves
\* out nothing that scores higher than what it answers with, and stays within topK.
BestOnSale ==
    \A q \in Queries, topK \in 1..4 :
        LET found == SearchMenu(MenuOf(Menus, own), q, topK)
            ids   == {found[k].id : k \in DOMAIN found}
            rest  == {i \in DOMAIN Products : Products[i].isAvailable} \ ids
        IN  /\ Len(found) <= topK
            /\ Cardinality(ids) = Len(found)
            /\ \A k \in DOMAIN found : Products[found[k].id].isAvailable
            /\ \A j, k \in DOMAIN found : j < k => found[j].score >= found[k].score
            /\ \A i \in rest, k \in DOMAIN found : Score(Products[i], q) <= found[k].score
            /\ rest # {} /\ Len(found) < topK => \A i \in rest : Score(Products[i], q) = 0

\* A product whose name is the query can rank below one that has its words scattered over
\* the name and the description.
ExactNameNotFirst ==
    LET found == SearchMenu(MenuOf(Menus, own), Hot, 2)
    IN  found[1].id = 5 /\ found[2].id = 2

\* While a chat session lasts the caller's tenantId counts for nothing.
SessionDecides ==
    \A named \in {None, own, other}, id \in {"s1", "gone"} :
        LET dto == [sessionId |-> id, tenantId |-> named, query |-> <<"wings">>]
            hits == own :> None @@ other :> <<>>
            answer == SessionSearch(Menus, {[id |-> "s1", tenantId |-> own]}, hits, dto, 4)
            menuOf(t) == SearchMenu(MenuOf(Menus, t), dto.query, 4)
        IN  answer = IF id = "s1" THEN menuOf(own)
                     ELSE IF named = None THEN None ELSE menuOf(named)

SearchCasesHold == BestOnSale /\ ExactNameNotFirst /\ SessionDecides
=============================================================================
