------------------------------ MODULE LinePrice ------------------------------
(***************************************************************************)
(* The price of a cart line: what the buyer is offered for the base price, *)
(* discount rules and the contractor's percent (the cheaper of a retail    *)
(* and a wholesale offer), and what a percent promo code makes of it.      *)
(* Which rules match a line (audience, scope, dates) is part of the input. *)
(***************************************************************************)
EXTENDS Money

Unknown == -1   \* no percent explains the price

Offer(unit, pct) == [unit |-> unit, pct |-> pct]

(* The first of the lowest offers.                                         *)
Cheapest(offers) ==
  offers[CHOOSE i \in DOMAIN offers : \A j \in DOMAIN offers :
           \/ offers[i].unit < offers[j].unit
           \/ offers[i].unit = offers[j].unit /\ i <= j]

(* A rule's tier for a quantity: that of the highest minimum reached.      *)
Reached(rule, qty) == {t \in rule.tiers : qty >= t.min}
TierOf(rule, qty)  == CHOOSE t \in Reached(rule, qty) : \A u \in Reached(rule, qty) : u.min <= t.min

Discounted(base, tier) ==
  CASE tier.type = "PERCENT"     -> RoundDiv(base * (100 - tier.value), 100)
    [] tier.type = "FIXED_PRICE" -> tier.value
    [] tier.type = "FIXED"       -> More(0, base - tier.value)

TierOffer(base, tier) == Offer(Discounted(base, tier), IF tier.type = "PERCENT" THEN tier.value ELSE Unknown)

TiersOf(rules, mode, qty) ==
  LET hits == Chosen(rules, {rule \in Range(rules) : rule.mode = mode /\ Reached(rule, qty) # {}}) IN
  [i \in DOMAIN hits |-> TierOf(hits[i], qty)]

InTurn(price, tiers) == FoldLeft(Discounted, price, tiers)

(* Stacked rules: percents add up on the base price, amounts follow one by *)
(* one; amounts alone start from the best price without rules.             *)
StackOffer(base, best, tiers) ==
  LET percents == Chosen(tiers, {tier \in Range(tiers) : tier.type = "PERCENT"})
      amounts  == Chosen(tiers, {tier \in Range(tiers) : tier.type # "PERCENT"})
      sum      == Less(100, SumOf([i \in DOMAIN percents |-> percents[i].value]))
      start    == IF sum > 0 THEN PercentOff(base, sum) ELSE best
  IN Offer(InTurn(start, amounts), IF amounts = <<>> THEN sum ELSE Unknown)

(* Rules that compete, each alone and the best of the old kind, and those  *)
(* that stack.                                                             *)
RuleOffers(base, best, rules, qty) ==
  LET alone == TiersOf(rules, "BEST_PRICE", qty)
      maxOf == TiersOf(rules, "MAX_OF", qty)
      stack == TiersOf(rules, "STACK", qty)
      each(tiers) == [i \in DOMAIN tiers |-> TierOffer(base, tiers[i])]
  IN each(alone)
     \o (IF maxOf = <<>> THEN <<>> ELSE <<Cheapest(each(maxOf))>>)
     \o (IF stack = <<>> THEN <<>> ELSE <<StackOffer(base, best, stack)>>)

(* One side: the base price, the contractor's percent, the rules; source   *)
(* is the sales price list the base comes from, ALL for the card's price.  *)
Side(base, source, contractor, rules, qty) ==
  LET plain == <<Offer(base, 0)>>
               \o (IF contractor > 0 THEN <<Offer(RoundDiv(base * (100 - contractor), 100), Unknown)>> ELSE <<>>)
      won   == Cheapest(plain \o RuleOffers(base, Cheapest(plain).unit, rules, qty))
  IN [base |-> base, unit |-> won.unit, pct |-> won.pct, qty |-> qty, source |-> source]

(* A wholesaler gets the cheaper of the public offer and his own: a        *)
(* company price as it is, another sales price with the wholesale rules,   *)
(* or the card price with his percent and the rules.  0 is no price.       *)
DualOffer(cart, item) ==
  LET retail    == Side(item.card, "ALL", 0, item.retail, item.qty)
      wholesale == IF item.sales > 0
                   THEN Side(item.sales, item.scope, 0, IF item.scope = "COMPANY" THEN <<>> ELSE item.wholesale, item.qty)
                   ELSE Side(item.card, "ALL", cart.contractor, item.wholesale, item.qty)
  IN IF cart.role # "WHOLESALER" THEN retail
     ELSE IF item.card = 0 \/ (wholesale.unit < retail.unit) THEN wholesale
     ELSE retail

(* Faulty variant of WithPercent: a stacking code takes its percent off    *)
(* the price as it is, and adds it to the percent of the base.             *)
Compounded(line, promo) ==
  LET unit == PercentOff(line.unit, promo.value) IN
  IF promo.stacks /\ line.pct # Unknown
  THEN [line EXCEPT !.unit = unit, !.pct = Less(100, @ + promo.value)]
  ELSE [line EXCEPT !.unit = Less(@, PercentOff(line.base, promo.value)), !.pct = Unknown]

(* A percent code on a line: one that stacks adds its percent to those on  *)
(* the base price, if the price is a percent of it; otherwise the lower of *)
(* both prices stays.                                                      *)
WithPercent(line, promo) ==
  LET prior    == More(0, line.pct)
      sum      == Less(100, prior + promo.value)
      fromBase == PercentOff(line.base, promo.value)
  IN CASE promo.stacks /\ (line.pct # Unknown \/ line.unit = line.base) ->
            [line EXCEPT !.unit = PercentOff(line.base, sum), !.pct = sum]
       [] promo.stacks /\ line.pct = Unknown /\ line.unit # line.base ->
            [line EXCEPT !.unit = Less(@, fromBase)]
       [] ~promo.stacks /\ fromBase < line.unit ->
            [line EXCEPT !.unit = fromBase, !.pct = promo.value]
       [] OTHER -> line

(* Whether the code did anything for the line.                             *)
Improves(line, promo) ==
  LET next == WithPercent(line, promo) IN
  next.unit < line.unit \/ (promo.stacks /\ More(0, next.pct) > More(0, line.pct))
=============================================================================
