------------------------------ MODULE PriceCases ------------------------------
(***************************************************************************)
(* Carts, promo codes and settings to price: prices that do not divide     *)
(* evenly, every way to combine rules, every kind of code, fees at each    *)
(* boundary.  Amounts are cents.                                           *)
(***************************************************************************)
EXTENDS Naturals, Sequences

Tiered(mode, tiers) == [mode |-> mode, tiers |-> tiers]
Rule(mode, type, value) == Tiered(mode, {[min |-> 1, type |-> type, value |-> value]})

P10 == Rule("BEST_PRICE", "PERCENT", 10)
F50 == Rule("BEST_PRICE", "FIXED", 50)
At  == Rule("BEST_PRICE", "FIXED_PRICE", 555)
M7  == Rule("MAX_OF", "PERCENT", 7)
M80 == Rule("MAX_OF", "FIXED", 80)
S10 == Rule("STACK", "PERCENT", 10)
S15 == Rule("STACK", "PERCENT", 15)
S30 == Rule("STACK", "FIXED", 30)
T3  == Tiered("BEST_PRICE", {[min |-> 1, type |-> "PERCENT", value |-> 5],
                             [min |-> 3, type |-> "PERCENT", value |-> 12]})

RuleLists   == {<<>>, <<F50, P10>>, <<At>>, <<M7, M80>>, <<S15, P10, S10>>, <<S10, S30>>, <<S30>>, <<T3>>}
AmountRules == {<<>>, <<F50>>, <<At, S30>>}

Item(card, qty, rules) ==
  [card |-> card, sales |-> 0, scope |-> "ALL", qty |-> qty, retail |-> rules, wholesale |-> <<>>]
Sold(card, sales, scope, qty, rules) ==
  [card |-> card, sales |-> sales, scope |-> scope, qty |-> qty, retail |-> <<>>, wholesale |-> rules]
Retail(items)    == [role |-> "USER", contractor |-> 0, items |-> items]
Wholesale(items) == [role |-> "WHOLESALER", contractor |-> 7, items |-> items]

PlainCarts(lists) ==
  {Retail(<<Item(333, qty, rules)>>) : qty \in {1, 3}, rules \in lists}
  \cup {Retail(<<Item(995, 1, rules), Item(7, 9, <<>>)>>) : rules \in lists}

AmountCarts == PlainCarts(AmountRules)

SomeCarts ==
  PlainCarts(RuleLists)
  \cup {Wholesale(<<Sold(999, 0, "ALL", 2, rules)>>) : rules \in {<<>>, <<S30>>, <<S10>>}}
  \cup {Wholesale(<<Sold(card, 870, scope, 1, <<P10>>), Sold(405, 0, "ALL", 1, <<>>)>>) :
          card \in {0, 860}, scope \in {"GROUP", "COMPANY"}}

Plain == Retail(<<Item(333, 1, <<>>)>>)

Everyone == {"ALL", "GROUP", "COMPANY"}
Code(type, scope, value, stacks) ==
  [id |-> 0, type |-> type, scope |-> scope, value |-> value, stacks |-> stacks, min |-> 0,
   targets |-> {1, 2}, sources |-> Everyone, eligible |-> 0]

Stack15 == Code("PERCENT", "PRODUCTS", 15, TRUE)
Best20  == Code("PERCENT", "PRODUCTS", 20, FALSE)
All5    == Code("PERCENT", "PRODUCTS_AND_SHIPPING", 5, TRUE)
Ship50  == Code("PERCENT", "SHIPPING_ONLY", 50, TRUE)
Company == [Best20 EXCEPT !.sources = {"COMPANY"}]
Off(value, scope) == Code("FIXED", scope, value, FALSE)
Second  == [Off(100, "PRODUCTS") EXCEPT !.targets = {2}]
Present == Code("GIFT", "PRODUCTS", 499, FALSE)

Offs == {Off(250, "PRODUCTS"), Off(400, "PRODUCTS_AND_SHIPPING"), Off(9000, "PRODUCTS_AND_SHIPPING"),
         Off(300, "SHIPPING_ONLY"), Second}

SomePromos ==
  {<<>>, <<Stack15>>, <<Best20>>, <<Best20, Stack15>>, <<Company>>, <<[All5 EXCEPT !.min = 2000]>>, <<Present, Ship50>>}
  \cup {<<off>> : off \in Offs} \cup {<<off, All5, Ship50>> : off \in Offs}

AmountPromos == {<<>>, <<Present>>} \cup {<<off>> : off \in Offs}

NoCod == [kind |-> "none", supported |-> TRUE, fee |-> 0, percent |-> 0, tiers |-> {}, base |-> "products",
          isNet |-> TRUE, max |-> 0, serviceMax |-> 0]
UpTo(limit, fee) == [upTo |-> limit, fee |-> fee]

Courier ==
  [delivery |-> "rated", fee |-> 0, tariff |-> {UpTo(500, 311), UpTo(1500, 475)}, insurance |-> {},
   maxParcel |-> 1500, fuel |-> 9, toll |-> 3, handIn |-> 0, weight |-> 1720, volume |-> 40,
   packaging |-> "boxes", packageFee |-> 99, boxWeight |-> 1000, boxVolume |-> 25, pots |-> 0, potsOnPallet |-> 1,
   tariffNet |-> TRUE, packagingNet |-> TRUE,
   minimum |-> 0, below |-> "fee", belowFee |-> 0, cod |-> NoCod]
Flat == [Courier EXCEPT !.delivery = "fixed", !.fee = 295, !.packaging = "flat", !.tariffNet = FALSE, !.packagingNet = FALSE]

SomeShops ==
  {Courier, Flat,
   [Courier EXCEPT !.minimum = 1500, !.belowFee = 101, !.cod = [NoCod EXCEPT !.kind = "fixed", !.fee = 105]],
   [Courier EXCEPT !.insurance = {UpTo(1000, 0), UpTo(2500, 80)}, !.weight = 450, !.handIn = 25,
                   !.cod = [NoCod EXCEPT !.kind = "tiers", !.tiers = {UpTo(1500, 49), UpTo(9999, 149)}, !.base = "collected",
                                         !.isNet = FALSE, !.serviceMax = 3000]],
   [Flat EXCEPT !.delivery = "free", !.packaging = "pallet", !.pots = 13, !.potsOnPallet = 6, !.packagingNet = TRUE,
                !.minimum = 900, !.below = "reject",
                !.cod = [NoCod EXCEPT !.kind = "percent", !.percent = 2, !.max = 2500]]}
=============================================================================
