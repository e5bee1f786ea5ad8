---------------------------- MODULE CheckoutTotals ----------------------------
(***************************************************************************)
(* The totals of a checkout: delivery by weight and parcels, packaging,    *)
(* codes that reach the delivery, the fee for cash on delivery, the tax.   *)
(* Prices include the tax; under reverse charge it is taken out again.     *)
(* shop is a record of the settings that hold for the chosen delivery and  *)
(* payment method and country: weights are in 10 g, volumes in litres.     *)
(***************************************************************************)
EXTENDS Money

-----------------------------------------------------------------------------
(* The first limit that is not exceeded.                                   *)
Tier(tiers, value) ==
  LET hits == {t \in tiers : value <= t.upTo} IN
  IF hits = {} THEN <<>> ELSE <<CHOOSE t \in hits : \A u \in hits : t.upTo <= u.upTo>>

(* Transport, fuel, toll by commenced kilogram, hand-in.                   *)
ParcelNet(shop, tier, weight) ==
  tier.fee + RoundDiv(tier.fee * shop.fuel, 100) + shop.toll * CeilDiv(weight, 100) + shop.handIn

(* As many full parcels as fit and the rest.                               *)
Parcels(shop) ==
  IF shop.maxParcel = 0 THEN <<shop.weight>>
  ELSE [i \in 1..CeilDiv(shop.weight, shop.maxParcel) |->
          Less(shop.maxParcel, shop.weight - (i - 1) * shop.maxParcel)]

NoDelivery == [ok |-> FALSE, amount |-> 0]

(* A carrier's tariff: every parcel needs one, and the goods an insurance. *)
Rated(shop, goods) ==
  LET parcels == Parcels(shop)
      cover   == Tier(shop.insurance, goods)
      priced  == [i \in DOMAIN parcels |-> Tier(shop.tariff, parcels[i])]
  IN IF \/ shop.weight = 0 \/ \E i \in DOMAIN priced : priced[i] = <<>>
        \/ shop.insurance # {} /\ cover = <<>>
     THEN NoDelivery
     ELSE [ok |-> TRUE,
           amount |-> SumOf([i \in DOMAIN parcels |-> ParcelNet(shop, priced[i][1], parcels[i])])
                      + (IF cover = <<>> THEN 0 ELSE cover[1].fee)]

Delivery(shop, goods) ==
  CASE shop.delivery = "free"  -> [ok |-> TRUE, amount |-> 0]
    [] shop.delivery = "fixed" -> [ok |-> TRUE, amount |-> shop.fee]
    [] shop.delivery = "rated" -> Rated(shop, goods)

(* Boxes by weight and volume, pallets by occupancy, or a flat amount; a   *)
(* capacity of 0 does not count.                                           *)
Filled(amount, capacity) == IF capacity > 0 THEN CeilDiv(amount, capacity) ELSE 0

Packages(shop) ==
  CASE shop.packaging = "boxes"  -> More(1, More(Filled(shop.weight, shop.boxWeight), Filled(shop.volume, shop.boxVolume)))
    [] shop.packaging = "pallet" -> Filled(shop.pots, shop.potsOnPallet)
    [] shop.packaging = "flat"   -> 1

(* Lines of packaging, each count * unit.                                  *)
Line(unit, count) == [unit |-> unit, count |-> count]

(* Faulty variant of PackagingLine: the unit is the rounded share.         *)
RoundedUnit(gross, count) == Line(RoundDiv(gross, More(1, count)), More(1, count))

(* So many units only if they make the amount exactly.                     *)
PackagingLine(gross, count) ==
  LET unit == RoundDiv(gross, More(1, count)) IN
  IF unit * count = gross THEN Line(unit, count) ELSE Line(gross, 1)

PackagingLines(gross, count) == IF gross > 0 THEN <<PackagingLine(gross, count)>> ELSE <<>>

-----------------------------------------------------------------------------
(* Codes that reach the delivery, once its amount is known.                *)
NoShares == [products |-> 0, shipping |-> 0]

(* A fixed amount over products and delivery by their weight; a cent left  *)
(* goes to the larger remainder.                                           *)
Shares(total, products, shipping) ==
  LET all  == products + shipping
      part(w) == (total * w) \div all
      frac(w) == (total * w) % all
      left == total - part(products) - part(shipping)
      more == IF frac(products) >= frac(shipping) THEN left ELSE 0
  IN IF all = 0 THEN NoShares
     ELSE [products |-> part(products) + more, shipping |-> part(shipping) + left - more]

FixedShares(promo, shipping) ==
  IF promo.scope = "SHIPPING_ONLY"
  THEN [products |-> 0, shipping |-> Less(promo.value, shipping)]
  ELSE Shares(Less(promo.value, promo.eligible + shipping), promo.eligible, shipping)

OnShipping(state, promo) ==
  IF promo.type = "PERCENT"
  THEN [state EXCEPT !.delivery = @ - RoundDiv(@ * promo.value, 100)]
  ELSE LET shares == FixedShares(promo, state.delivery) IN
       [state EXCEPT !.delivery = @ - shares.shipping, !.fixedOff = @ + shares.products]

ShippingPromos(delivery, fixedOff, promos) ==
  FoldLeft(OnShipping, [delivery |-> delivery, fixedOff |-> fixedOff], promos)

-----------------------------------------------------------------------------
(* The fee for cash on delivery: fixed, a percent of the products, or by   *)
(* tiers of the products or of all that is collected.                      *)
CodBase(shop, products, collected) == IF shop.cod.base = "products" THEN products ELSE collected

CodFee(shop, products, collected) ==
  LET hit == Tier(shop.cod.tiers, CodBase(shop, products, collected)) IN
  CASE shop.cod.kind = "none"    -> 0
    [] shop.cod.kind = "fixed"   -> shop.cod.fee
    [] shop.cod.kind = "percent" -> RoundDiv(products * shop.cod.percent, 100)
    [] shop.cod.kind = "tiers"   -> IF hit = <<>> THEN 0 ELSE hit[1].fee

(* Cash on delivery must be offered, and neither its base nor what the     *)
(* carrier collects exceed their maximum (0 is none).                      *)
CodOffered(shop, products, collected, fee) ==
  shop.cod.kind = "none" \/
    /\ shop.cod.supported
    /\ shop.cod.max = 0 \/ CodBase(shop, products, collected) <= shop.cod.max
    /\ shop.cod.serviceMax = 0 \/ collected + fee <= shop.cod.serviceMax

(* Net fees become gross for the customer, but not under reverse charge.   *)
Customer(amount, isNet, tax) == IF isNet /\ tax.regime # "reverse_charge" THEN NetToGross(amount, tax.rate) ELSE amount

(* What the tax leaves of a gross amount under reverse charge.             *)
Stripped(gross, tax) == IF tax.regime = "reverse_charge" THEN GrossToNet(gross, tax.rate) ELSE gross

(* Delivery and cash on delivery are one line of the document.             *)
ShippingTax(delivery, cod, rate) == VatOf(delivery + cod, rate)

(* What is charged beside the products, but for cash on delivery; before   *)
(* is the delivery before promos.                                          *)
Fees(shop, tax, products, fixedOff, promos) ==
  LET below    == products < shop.minimum
      raw      == Delivery(shop, products)
      before   == IF raw.ok THEN Customer(raw.amount, shop.tariffNet, tax) ELSE 0
      after    == ShippingPromos(before, fixedOff, promos)
      packages == Packages(shop)
      extra    == IF below /\ shop.below = "fee" THEN shop.belowFee ELSE 0
  IN [allowed   |-> raw.ok /\ ~(below /\ shop.below = "reject"),
      before    |-> before,
      delivery  |-> after.delivery,
      fixedOff  |-> after.fixedOff,
      packages  |-> packages,
      packaging |-> Customer(extra + packages * shop.packageFee, shop.packagingNet, tax)]

(* What the order keeps of it: under reverse charge without the tax.       *)
Kept(shop, tax, lines, fees, cod) ==
  LET feesToo == ~shop.tariffNet /\ ~shop.packagingNet IN
  [products  |-> SumOf([i \in DOMAIN lines |-> Stripped(lines[i].unit * lines[i].qty, tax)]),
   delivery  |-> IF feesToo THEN Stripped(fees.delivery, tax) ELSE fees.delivery,
   packaging |-> IF feesToo THEN Stripped(fees.packaging, tax) ELSE fees.packaging,
   packages  |-> IF shop.packaging = "flat" THEN 0 ELSE fees.packages,
   cod       |-> IF shop.cod.isNet THEN cod ELSE Stripped(cod, tax),
   fixedOff  |-> Stripped(fees.fixedOff, tax),
   before    |-> fees.before]

(* The tax is that of the lines of the document.                           *)
TaxOf(kept, tax, lines) ==
  IF tax.regime = "reverse_charge" THEN 0
  ELSE More(0, SumOf([i \in DOMAIN lines |-> VatOf(lines[i].unit * lines[i].qty, tax.rate)])
               + ShippingTax(kept.delivery, kept.cod, tax.rate)
               + VatOf(kept.packaging, tax.rate)
               - VatOf(kept.fixedOff, tax.rate))

Grand(kept) == More(0, kept.products + kept.delivery + kept.packaging + kept.cod - kept.fixedOff)

Summed(kept, tax, lines, canPlace, collected) ==
  [canPlace |-> canPlace, collected |-> collected, tax |-> TaxOf(kept, tax, lines), grand |-> Grand(kept),
   products |-> kept.products, delivery |-> kept.delivery, packaging |-> kept.packaging, packages |-> kept.packages,
   cod |-> kept.cod, fixedOff |-> kept.fixedOff, before |-> kept.before]

(* collected: all but the fee for cash on delivery.                        *)
WithCod(shop, tax, lines, fees, products, collected) ==
  LET cod == Customer(CodFee(shop, products, collected), shop.cod.isNet, tax) IN
  Summed(Kept(shop, tax, lines, fees, cod), tax, lines,
         fees.allowed /\ CodOffered(shop, products, collected, cod), collected)

BeforeCod(shop, tax, lines, fees, products) ==
  WithCod(shop, tax, lines, fees, products, More(0, products + fees.delivery + fees.packaging - fees.fixedOff))

(* lines: the products' [unit, qty]; fixedOff and promos: what the quote   *)
(* leaves for here.                                                        *)
ProductsOf(lines) == SumOf([i \in DOMAIN lines |-> lines[i].unit * lines[i].qty])

Totals(shop, tax, lines, fixedOff, promos) ==
  LET products == ProductsOf(lines) IN
  BeforeCod(shop, tax, lines, Fees(shop, tax, products, fixedOff, promos), products)
=============================================================================
