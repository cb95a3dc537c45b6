---------------------------- MODULE PricingCases ----------------------------
(***************************************************************************)
(* Pricing over a small menu and the orders of up to two items on it.       *)
(***************************************************************************)
EXTENDS Pricing, FiniteSets

Crust == <<[id |-> "crust", minSelect |-> 1, maxSelect |-> 2,
            options |-> <<[name |-> "thin", priceDelta |-> 0],
                          [name |-> "cheese", priceDelta |-> 3502]>>]>>

Plain(id, base) == [id |-> id, isAvailable |-> TRUE, basePrice |-> base, variants |-> <<>>]

Menu == {[Plain("pizza", 9998) EXCEPT !.variants = Imported(Crust)],
         Plain("cola", 1504), [Plain("soup", 700) EXCEPT !.isAvailable = FALSE]}

RawItems ==
    [productId : {"pizza", "cola", "soup", "ghost"}, quantity : {1, 3},
     variantId : {None, "crust"}, selectedOptionNames : {{}, {"thin"}, {"thin", "cheese"}}]

RawOrders == {<<a>> : a \in RawItems} \cup {<<a, b>> : a, b \in RawItems}

Exact(raw) ==
    LET product == CHOOSE p \in Menu : p.id = raw.productId
    IN  raw.quantity * (product.basePrice + PriceDelta(product, raw))

\* An order costs what its items do, to half a cent a piece; no other order is accepted.
TotalsAddUp ==
    \A order \in RawOrders :
        LET priced == PriceOrderItems(Menu, order)
            off(i) == priced.items[i].totalPrice - Exact(order[i])
        IN  IF priced.refused = None
            THEN /\ \A i \in DOMAIN order : off(i) <= 5 * order[i].quantity
                                            /\ off(i) >= -5 * order[i].quantity
                 /\ priced.totalAmount = Total([i \in DOMAIN order |-> priced.items[i].totalPrice])
                 /\ priced.totalAmount % 10 = 0
            ELSE \E i \in DOMAIN order : Refusal(Menu, order[i]) = priced.refused

\* The order of the items does not change the sum.
OrderOfItemsFree ==
    \A a, b \in RawItems :
        LET ab == PriceOrderItems(Menu, <<a, b>>)
            ba == PriceOrderItems(Menu, <<b, a>>)
        IN  /\ ab.refused = None <=> ba.refused = None
            /\ ab.refused = None => ab.totalAmount = ba.totalAmount

\* The cheese crust is charged on a product that was imported, and is free on one that was
\* added or edited by the other routes; an edit that leaves the variants out removes them.
OptionsOnTheirWay ==
    LET asked == [productId |-> "pizza", quantity |-> 1, variantId |-> "crust",
                  selectedOptionNames |-> {"cheese"}]
        charged(variants) == PriceOrderItems({[Plain("pizza", 10000) EXCEPT
                                                 !.variants = variants]}, <<asked>>)
    IN  /\ charged(Imported(Crust)).totalAmount = 13500
        /\ charged(Added(Imported(Crust), Crust)).totalAmount = 10000
        /\ charged(Added(Imported(Crust), <<>>)).totalAmount = 13500
        /\ charged(Replaced(Crust)).totalAmount = 10000
        /\ charged(Replaced(None)).refused = "404"

PricingCasesHold == TotalsAddUp /\ OrderOfItemsFree /\ OptionsOnTheirWay
=============================================================================
