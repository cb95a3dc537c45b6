-------------------------------- MODULE Pricing --------------------------------
(***************************************************************************)
(* What a guest pays: how the menu keeps the price of an option, and        *)
(* priceOrderItems, which prices the orders of guests from the menu alone.  *)
(* Amounts are tenths of a cent, so that rounding to cents shows.           *)
(***************************************************************************)
EXTENDS Integers, SequencesExt

CONSTANT None

(* A product is [id, isAvailable, basePrice, variants]; a variant [id,       *)
(* minSelect, maxSelect, options]; an option [name, price] in the menu, and *)
(* [name, priceDelta] in the body of a request.                             *)

-----------------------------------------------------------------------------
(* Options on their way into the menu.                                     *)

WithPrices(variants, mapped) ==
    [i \in DOMAIN variants |-> [variants[i] EXCEPT !.options =
        [j \in DOMAIN @ |-> [name  |-> @[j].name,
                             price |-> IF mapped THEN @[j].priceDelta ELSE 0]]]]

\* bulkImport maps priceDelta to price, the path of the menu's schema.
Imported(variants) == WithPrices(variants, TRUE)

\* The other routes save the variants as validated. priceDelta is no path of the menu's
\* schema and is dropped; price is missing and takes its default.
Saved(variants) == WithPrices(variants, FALSE)

\* addOrUpdateProduct: a product of that name keeps its variants when none are sent.
Added(old, variants) == IF variants = <<>> THEN old ELSE Saved(variants)

\* updateProduct: singleProductSchema.partial() fills in the default [] of variants that
\* were not sent, and [] is not falsy.
Replaced(variants) == IF variants = None THEN <<>> ELSE Saved(variants)

-----------------------------------------------------------------------------
(* priceOrderItems                                                         *)

Total(amounts) == FoldLeft(LAMBDA sum, x : sum + x, 0, amounts)

\* toFixed(2). An amount half-way between two cents goes where its binary value lies.
ToFixed2(amount) == 10 * ((amount + 5) \div 10)

Options(variant, raw) ==
    SelectSeq(variant.options, LAMBDA o : o.name \in raw.selectedOptionNames)

\* An item that cannot be sold as asked: the status of the answer.
Refusal(products, raw) ==
    LET product == CHOOSE p \in products : p.id = raw.productId
        index   == SelectInSeq(product.variants, LAMBDA v : v.id = raw.variantId)
        variant == product.variants[index]
        chosen  == Len(Options(variant, raw))
    IN  IF \A p \in products : p.id # raw.productId THEN "404"
        ELSE IF ~product.isAvailable THEN "400"
        ELSE IF raw.variantId = None THEN None
        ELSE IF index = 0 THEN "404"
        ELSE IF chosen < variant.minSelect \/ chosen > variant.maxSelect THEN "400"
        ELSE None

\* Names that are asked for twice, or are not the variant's, add nothing.
PriceDelta(product, raw) ==
    IF raw.variantId = None THEN 0
    ELSE LET index   == SelectInSeq(product.variants, LAMBDA v : v.id = raw.variantId)
             options == Options(product.variants[index], raw)
         IN  Total([j \in DOMAIN options |-> options[j].price])

PriceItem(products, raw) ==
    LET product   == CHOOSE p \in products : p.id = raw.productId
        unitPrice == ToFixed2(product.basePrice + PriceDelta(product, raw))
    IN  [productId |-> raw.productId, quantity |-> raw.quantity, unitPrice |-> unitPrice,
         totalPrice |-> ToFixed2(unitPrice * raw.quantity)]

\* The items are priced in order; the first that cannot be sold refuses the order.
PriceOrderItems(products, rawItems) ==
    LET bad   == SelectInSeq(rawItems, LAMBDA raw : Refusal(products, raw) # None)
        items == [i \in DOMAIN rawItems |-> PriceItem(products, rawItems[i])]
        subtotal == ToFixed2(Total([i \in DOMAIN items |-> items[i].totalPrice]))
    IN  IF bad # 0 THEN [refused |-> Refusal(products, rawItems[bad])]
        ELSE [refused |-> None, items |-> items, subtotal |-> subtotal,
              totalAmount |-> subtotal]
=============================================================================
