---------------------------- MODULE CatalogSearch ----------------------------
(***************************************************************************)
(* Searching a tenant's products: by the vectors of the index, or, when it  *)
(* is empty or fails, by the words of the menu itself.  A text is a         *)
(* sequence of words in lower case.                                        *)
(***************************************************************************)
EXTENDS Integers, SequencesExt

CONSTANT None

(* A menu is [id, tenantId, isActive, products], its products a sequence of  *)
(* [id, name, description, categoryName, isAvailable].                      *)

Includes(text, words) == words \in SubSeqs(text)

\* Tenths. A part of the name counts in whole or word by word, never both.
Score(product, query) ==
    LET word(w) == (IF Includes(product.name, <<w>>) THEN 4 ELSE 0)
                 + (IF Includes(product.description, <<w>>) THEN 2 ELSE 0)
                 + (IF Includes(product.categoryName, <<w>>) THEN 1 ELSE 0)
    IN  IF product.name = query THEN 10
        ELSE IF Includes(product.name, query) THEN 8
        ELSE FoldLeft(LAMBDA sum, w : sum + word(w), 0, query)

\* The active menu, or else any of the tenant's.
MenuOf(menus, tenantId) ==
    LET own    == {m \in menus : m.tenantId = tenantId}
        active == {m \in own : m.isActive}
    IN  IF own = {} THEN None
        ELSE CHOOSE m \in IF active # {} THEN active ELSE own : TRUE

\* The best first; equal scores stay in the order of the menu. At most topK.
SearchMenu(menu, query, topK) ==
    LET products == menu.products
        found    == {i \in DOMAIN products : /\ products[i].isAvailable
                                             /\ Score(products[i], query) > 0}
        ranked   == SetToSortSeq(found, LAMBDA i, j :
                        LET a == Score(products[i], query)
                            b == Score(products[j], query)
                        IN  a > b \/ (a = b /\ i < j))
    IN  [k \in 1 .. (IF topK < Len(ranked) THEN topK ELSE Len(ranked)) |->
            [id |-> products[ranked[k]].id, score |-> Score(products[ranked[k]], query)]]

\* hits is what the index answers in the namespace of the tenant, None if it or the
\* embedding fails. Its hits are passed on as they are, products since removed included.
SearchProducts(menus, hits, tenantId, query, topK) ==
    LET menu == MenuOf(menus, tenantId)
    IN  IF hits \notin {None, <<>>} THEN hits
        ELSE IF menu = None THEN <<>>
        ELSE SearchMenu(menu, query, topK)

\* The tenant of a public search: of the chat session, while it lasts, and else the one
\* the caller names. Neither is answered with 404, here None.
SearchTenant(sessions, dto) ==
    LET own == {s \in sessions : s.id = dto.sessionId}
    IN  IF own # {} THEN (CHOOSE s \in own : TRUE).tenantId ELSE dto.tenantId

SessionSearch(menus, sessions, hits, dto, topK) ==
    LET tenantId == SearchTenant(sessions, dto)
    IN  IF tenantId = None THEN None
        ELSE SearchProducts(menus, hits[tenantId], tenantId, dto.query, topK)
=============================================================================
