----------------------------- MODULE OrderPricing -----------------------------
(***************************************************************************)
(* From a cart to the document in the ERP: the quote prices the lines and  *)
(* applies the promo codes one by one (PricingService.quote), the order    *)
(* stores totals and a snapshot of each line (OrdersService.executeCreate),*)
(* the export makes lines of them, and refuses if they do not add up to    *)
(* the order (FlexiService.exportOrder).  Codes here exist, are allowed to *)
(* the buyer and may be combined; goods are in stock; amounts are EUR.     *)
(* A code gives a discount or a present; one with both is not here.  Items *)
(* have an SKU, and delivery and boxes a code in the ERP's price list.     *)
(***************************************************************************)
EXTENDS LinePrice, CheckoutTotals

CONSTANTS Carts,   \* carts: role, contractor's percent, items with prices and matching rules
          Promos,  \* lists of promo codes, in the order of the request
          Shops,   \* settings for a delivery and payment method
          Taxes    \* regimes: "included", "reverse_charge", and a rate

(* What they are: amounts in cents and whole percents; the administration  *)
(* refuses rules and codes of more than 100 percent and rules of nothing,  *)
(* settings are never negative.  That the contractor's percent, which no   *)
(* code checks, is at most 100 is assumed.                                 *)
Lists == {"ALL", "GROUP", "COMPANY"}

TierSet ==
  {t \in [min : Nat, type : {"PERCENT", "FIXED", "FIXED_PRICE"}, value : Nat \ {0}] :
     t.type = "PERCENT" => t.value <= 100}
RuleSet == [mode : {"BEST_PRICE", "MAX_OF", "STACK"}, tiers : SUBSET TierSet]
ItemSet == [card : Nat, sales : Nat, scope : Lists, qty : Nat \ {0}, retail : Seq(RuleSet), wholesale : Seq(RuleSet)]
CartSet == [role : STRING, contractor : 0..100, items : Seq(ItemSet)]

PromoSet ==
  {p \in [id : Nat, type : {"PERCENT", "FIXED", "GIFT"}, scope : {"PRODUCTS", "SHIPPING_ONLY", "PRODUCTS_AND_SHIPPING"},
          value : Nat, stacks : BOOLEAN, min : Nat, targets : SUBSET Nat, sources : SUBSET Lists, eligible : Nat] :
     p.type = "PERCENT" => p.value <= 100}

IsShop(s) ==
  /\ {s.fee, s.maxParcel, s.fuel, s.toll, s.handIn, s.weight, s.volume, s.packageFee,
      s.boxWeight, s.boxVolume, s.pots, s.potsOnPallet, s.belowFee} \subseteq Nat
  /\ s.tariff \cup s.insurance \subseteq [upTo : Nat, fee : Nat]
  /\ s.delivery \in {"free", "fixed", "rated"} /\ s.packaging \in {"boxes", "pallet", "flat"}

ASSUME PriceAssumption ==
  /\ Carts \subseteq CartSet /\ Promos \subseteq Seq(PromoSet)
  /\ \A s \in Shops : IsShop(s)
  /\ \A t \in Taxes : t.rate \in Nat

VARIABLES basket, promos, shop, tax,
          stage,    \* "cart", "quoting", "refused", "placed", "exported" or "held"
          todo,     \* codes the quote has yet to look at
          lines,    \* the lines of the quote
          used,     \* codes that were applied, or had nothing left to give
          fixedOff, \* fixed amounts off the products
          awaiting, \* codes that wait for the delivery's amount
          order,    \* the order's row: totals and line snapshots
          document  \* the lines sent to the ERP

input == <<basket, promos, shop, tax>>
vars  == <<input, stage, todo, lines, used, fixedOff, awaiting, order, document>>

NoOrder == [totals |-> <<>>, items |-> <<>>]

Init ==
  /\ basket \in Carts /\ promos \in Promos /\ shop \in Shops /\ tax \in Taxes
  /\ stage = "cart" /\ todo = <<>> /\ lines = <<>> /\ used = {}
  /\ fixedOff = 0 /\ awaiting = <<>> /\ order = NoOrder /\ document = <<>>

-----------------------------------------------------------------------------
(* A code is for some items, and of these for prices of some lists; it     *)
(* reaches the delivery if a line has a price of its lists, or it is for   *)
(* all lists.                                                              *)
OnProducts(promo) == promo.scope # "SHIPPING_ONLY"
OnDelivery(promo) == promo.scope # "PRODUCTS"
Targeted(promo)   == promo.targets \cap DOMAIN lines
EligibleLines(promo) == {i \in Targeted(promo) : lines[i].source \in promo.sources}
Ships(promo) == promo.sources = {"ALL", "GROUP", "COMPANY"} \/ \E i \in DOMAIN lines : lines[i].source \in promo.sources

(* The minimum of a code is compared with the cart at card prices.           *)
CardPrice(item) == IF item.card > 0 THEN item.card ELSE item.sales
CardSubtotal == SumOf([i \in DOMAIN basket.items |-> CardPrice(basket.items[i]) * basket.items[i].qty])

Numbered(promo, n) == [promo EXCEPT !.id = n]

(* Percents that reach products come first, then those of the delivery     *)
(* only, then fixed amounts, then presents.                                *)
Ordered(list) ==
  LET all == [n \in DOMAIN list |-> Numbered(list[n], n)] IN
     Chosen(all, {p \in Range(all) : p.type = "PERCENT" /\ OnProducts(p)})
  \o Chosen(all, {p \in Range(all) : p.type = "PERCENT" /\ ~OnProducts(p)})
  \o Chosen(all, {p \in Range(all) : p.type = "FIXED"})
  \o Chosen(all, {p \in Range(all) : p.type = "GIFT"})

Quote ==
  /\ stage = "cart"
  /\ lines' = [i \in DOMAIN basket.items |-> DualOffer(basket, basket.items[i])]
  /\ todo' = Ordered(promos)
  /\ stage' = "quoting"
  /\ UNCHANGED <<input, used, fixedOff, awaiting, order, document>>

(* A code whose minimum is not met is passed over, and not used.           *)
Looks(type) == stage = "quoting" /\ todo # <<>> /\ Head(todo).type = type
Met(promo)  == CardSubtotal >= promo.min

PassOver ==
  /\ stage = "quoting" /\ todo # <<>> /\ ~Met(Head(todo))
  /\ todo' = Tail(todo)
  /\ UNCHANGED <<input, stage, lines, used, fixedOff, awaiting, order, document>>

(* A percent on products: it may help a line, reach the delivery, or find  *)
(* the lines cheaper already, which is no reason to refuse the order.      *)
PercentOnProducts ==
  LET promo == Head(todo)
      helps == \E i \in EligibleLines(promo) : Improves(lines[i], promo)
      ships == OnDelivery(promo) /\ (helps \/ Ships(promo))
  IN
  /\ Looks("PERCENT") /\ OnProducts(promo) /\ Met(promo)
  /\ lines' = [i \in DOMAIN lines |-> IF i \in EligibleLines(promo) THEN WithPercent(lines[i], promo) ELSE lines[i]]
  /\ used' = IF helps \/ ships \/ (~OnDelivery(promo) /\ Targeted(promo) # {}) THEN used \cup {promo.id} ELSE used
  /\ awaiting' = IF ships THEN Append(awaiting, promo) ELSE awaiting
  /\ todo' = Tail(todo)
  /\ UNCHANGED <<input, stage, fixedOff, order, document>>

PercentOnShipping ==
  LET promo == Head(todo) IN
  /\ Looks("PERCENT") /\ ~OnProducts(promo) /\ Met(promo)
  /\ used' = IF Ships(promo) THEN used \cup {promo.id} ELSE used
  /\ awaiting' = IF Ships(promo) THEN Append(awaiting, promo) ELSE awaiting
  /\ todo' = Tail(todo)
  /\ UNCHANGED <<input, stage, lines, fixedOff, order, document>>

Eligible(promo) == SumOf([i \in DOMAIN lines |-> IF i \in EligibleLines(promo) THEN lines[i].unit * lines[i].qty ELSE 0])

(* A fixed amount leaves the lines; on products it is known now, with the  *)
(* delivery it waits.                                                      *)
FixedOff ==
  LET promo == Head(todo)
      goods == IF OnProducts(promo) THEN Eligible(promo) ELSE 0
      takes == IF OnDelivery(promo) THEN Ships(promo) ELSE goods > 0
  IN
  /\ Looks("FIXED") /\ Met(promo)
  /\ used' = IF takes THEN used \cup {promo.id} ELSE used
  /\ fixedOff' = IF takes /\ ~OnDelivery(promo) THEN fixedOff + Less(promo.value, goods) ELSE fixedOff
  /\ awaiting' = IF takes /\ OnDelivery(promo) THEN Append(awaiting, [promo EXCEPT !.eligible = goods]) ELSE awaiting
  /\ todo' = Tail(todo)
  /\ UNCHANGED <<input, stage, lines, order, document>>

(* A present costs nothing: its price with 100 percent off (below).        *)
Gift ==
  LET promo == Head(todo) IN
  /\ Looks("GIFT") /\ Met(promo)
  /\ used' = IF Targeted(promo) # {} THEN used \cup {promo.id} ELSE used
  /\ todo' = Tail(todo)
  /\ UNCHANGED <<input, stage, lines, fixedOff, awaiting, order, document>>

-----------------------------------------------------------------------------
(* Units of lines have four places more than cents.                        *)
Fine == 10000

UnitOf(amount, qty) == RoundDiv(amount * Fine, qty)

(* What an order keeps of a line: amount and unit as charged, and, if the  *)
(* price is a percent of the base, that percent and the base's unit.  With *)
(* the tax included the code compares base, percent and charge twice more, *)
(* per unit and per line: in whole cents both say what exact says.         *)
Snapshot(line) ==
  LET amount == Stripped(line.unit * line.qty, tax)
      plain  == [unit |-> UnitOf(amount, line.qty), amount |-> amount, qty |-> line.qty,
                 baseUnit |-> Unknown, sleva |-> Unknown]
      based  == UnitOf(Stripped(line.base * line.qty, tax), line.qty)
      exact  == PercentOff(line.base, line.pct) = line.unit
  IN CASE line.pct = Unknown \/ line.base = 0 -> plain
       [] line.pct = 0 /\ line.base > 0  -> IF exact THEN [plain EXCEPT !.baseUnit = plain.unit, !.sleva = 0] ELSE plain
       [] line.pct > 0 /\ line.base > 0  -> IF exact THEN [plain EXCEPT !.baseUnit = based, !.sleva = line.pct] ELSE plain

Presents ==
  LET all   == [n \in DOMAIN promos |-> Numbered(promos[n], n)]
      given == Chosen(all, {p \in Range(all) : p.type = "GIFT" /\ p.id \in used})
  IN
  [n \in DOMAIN given |-> [base |-> given[n].value, unit |-> 0, qty |-> 1,
                           pct |-> IF given[n].value > 0 THEN 100 ELSE Unknown]]

(* executeCreate: every code of the request must be used, the totals must  *)
(* let the order pass.                                                     *)
PlaceOrder ==
  LET totals == Totals(shop, tax, lines, fixedOff, awaiting)
      sold   == lines \o Presents
  IN
  /\ stage = "quoting" /\ todo = <<>>
  /\ IF used = DOMAIN promos /\ totals.canPlace
     THEN /\ stage' = "placed"
          /\ order' = [totals |-> totals, items |-> [i \in DOMAIN sold |-> Snapshot(sold[i])]]
     ELSE stage' = "refused" /\ UNCHANGED order
  /\ UNCHANGED <<input, todo, lines, used, fixedOff, awaiting, document>>

-----------------------------------------------------------------------------
(* Lines of the document; a field that is not sent is Unknown.             *)
UnitLine(unit, qty, sleva) ==
  [cenaMj |-> unit, mnozMj |-> qty, slevaPol |-> sleva, sumCelkem |-> Unknown, sumZkl |-> Unknown]

(* A percent is sent with the total, gross or net; a present, and a line   *)
(* without percent, with its unit.                                         *)
ProductLine(item) ==
  LET byTotal == [UnitLine(Unknown, item.qty, item.sleva) EXCEPT
                    !.sumCelkem = IF tax.regime = "reverse_charge" THEN Unknown ELSE item.amount,
                    !.sumZkl    = IF tax.regime = "reverse_charge" THEN item.amount ELSE Unknown]
  IN CASE item.sleva > 0 /\ item.amount > 0 -> byTotal
       [] item.sleva > 0 /\ item.amount = 0 -> UnitLine(item.baseUnit, item.qty, item.sleva)
       [] item.sleva <= 0                   -> UnitLine(item.unit, item.qty, Unknown)

FeeLine(amount, count) == UnitLine(amount * Fine, count, Unknown)

DocumentLines ==
  LET t == order.totals
      shipping == IF t.delivery + t.cod > 0 THEN <<FeeLine(t.delivery + t.cod, 1)>> ELSE <<>>
      boxes    == PackagingLines(t.packaging, t.packages)
      off      == IF t.fixedOff > 0 THEN <<FeeLine(-t.fixedOff, 1)>> ELSE <<>>
  IN [i \in DOMAIN order.items |-> ProductLine(order.items[i])]
     \o shipping \o [i \in DOMAIN boxes |-> FeeLine(boxes[i].unit, boxes[i].count)] \o off

(* What a line contributes: its total if it has one, else unit * quantity. *)
Payable(line) ==
  CASE line.sumCelkem # Unknown -> line.sumCelkem
    [] line.sumCelkem = Unknown /\ line.sumZkl # Unknown -> line.sumZkl
    [] OTHER -> IF line.slevaPol > 0
                THEN RoundDiv(line.cenaMj * (100 - line.slevaPol), 100 * Fine) * line.mnozMj
                ELSE RoundDiv(line.cenaMj * line.mnozMj, Fine)

DocumentSum(sent) == SumOf([i \in DOMAIN sent |-> Payable(sent[i])])

(* The check before sending looks at copies of the lines.                  *)
Copied(line) == [line EXCEPT !.sumZkl = Unknown, !.cenaMj = IF @ = Unknown THEN 0 ELSE @]

Expected ==
  LET t == order.totals IN
  More(0, SumOf([i \in DOMAIN order.items |-> order.items[i].amount]) + t.delivery + t.packaging + t.cod - t.fixedOff)

ExportOrder ==
  /\ stage = "placed"
  /\ document' = DocumentLines
  /\ stage' = IF DocumentSum([i \in DOMAIN document' |-> Copied(document'[i])]) = Expected THEN "exported" ELSE "held"
  /\ UNCHANGED <<input, todo, lines, used, fixedOff, awaiting, order>>

Next ==
  \/ Quote \/ PassOver
  \/ PercentOnProducts \/ PercentOnShipping \/ FixedOff \/ Gift
  \/ PlaceOrder \/ ExportOrder

Spec == Init /\ [][Next]_vars

-----------------------------------------------------------------------------
LineIsTrue(line) ==
  /\ line.unit \in 0..line.base
  /\ line.pct # Unknown => line.unit = PercentOff(line.base, line.pct)

(* What an order costs before the fee for cash on delivery, had its fixed  *)
(* code not been given, and how much of it the code may take off.          *)
Percents == Chosen(awaiting, {p \in Range(awaiting) : p.type = "PERCENT"})
WithoutFixed == Totals(shop, tax, lines, 0, Percents).collected
Room(promo) ==
  (IF OnProducts(promo) THEN Eligible(promo) ELSE 0)
  + (IF OnDelivery(promo) THEN ShippingPromos(order.totals.before, 0, Percents).delivery ELSE 0)

OnlyFixed(n) == \A m \in DOMAIN promos : promos[m].type = "FIXED" <=> m = n

Stored == stage \in {"placed", "exported", "held"}

(* The discounts a customer gets are those the order speaks of: no price   *)
(* is above its base, the percent kept for a line is the one its price     *)
(* has, however rules and codes were combined, and a fixed code takes its  *)
(* value off products and delivery to the cent, or all there is, if it is  *)
(* the only one.                                                           *)
DiscountIsTrue ==
  /\ \A i \in DOMAIN lines : LineIsTrue(lines[i])
  /\ Stored => \A n \in DOMAIN promos :
       OnlyFixed(n) =>
         order.totals.collected = WithoutFixed - Less(promos[n].value, Room(promos[n]))

LineTax(line) ==
  LET sum == Payable(line) IN IF sum < 0 THEN -VatOf(-sum, tax.rate) ELSE VatOf(sum, tax.rate)
DocumentTax(sent) ==
  IF tax.regime = "reverse_charge" THEN 0 ELSE SumOf([i \in DOMAIN sent |-> LineTax(sent[i])])

(* The ERP document of an order is the order: the check before sending     *)
(* passes, its lines add up to the total the customer was shown, and the   *)
(* tax of its lines is the order's.                                        *)
DocumentIsTheOrder ==
  stage \in {"exported", "held"} =>
    /\ stage = "exported"
    /\ DocumentSum(document) = order.totals.grand
    /\ DocumentTax(document) = order.totals.tax
=============================================================================
