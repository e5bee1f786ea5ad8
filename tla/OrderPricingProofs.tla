------------------------- MODULE OrderPricingProofs -------------------------
(***************************************************************************)
(* The discounts of an order are those it speaks of, for every cart, list  *)
(* of rules, list of codes and shop: the invariant PriceInv, and that it   *)
(* implies DiscountIsTrue.  Sums, filters and the codes that reach the     *)
(* delivery are folds over sequences of any length: FoldLaws says what a   *)
(* fold computes, once, and SequenceInduction what holds of all of them.   *)
(***************************************************************************)
EXTENDS OrderPricing, WellFoundedInduction, TLAPS

ShippingSet == [delivery : Nat, fixedOff : Nat]

(* g may be what FoldLeft builds of F over s: it starts with base and adds *)
(* the last element to what it makes of those before.                      *)
Folds(g, F, A, base, s) ==
  \A d \in SUBSET DOMAIN s :
    /\ d = {} => g[d] = base
    /\ d # {} /\ g[d \ {Max(d)}] \in A => g[d] = F[<<g[d \ {Max(d)}], s[Max(d)]>>]

(* H is that fold, for all sequences.                                      *)
FoldedBy(H, F, A, B, base) ==
  /\ H \in [Seq(B) -> A]
  /\ H[<<>>] = base
  /\ \A s \in Seq(B), x \in B : H[Append(s, x)] = F[<<H[s], x>>]
  /\ \A s \in Seq(B) :
       /\ \E g \in [SUBSET DOMAIN s -> A] : Folds(g, F, A, base, s)
       /\ \A g : Folds(g, F, A, base, s) => g[DOMAIN s] = H[s]
       /\ \A d \in SUBSET DOMAIN s : d # {} => s[Max(d)] \in B /\ d \ {Max(d)} \in SUBSET DOMAIN s

(* A set of numbers that is not empty has a least one.                     *)
LEMMA Lowest ==
  ASSUME NEW T, T \subseteq Nat, T # {}
  PROVE  \E x \in T : \A y \in T : x <= y
<1> DEFINE R == OpToRel(<, Nat)
<1>1. IsWellFoundedOn(R, Nat)
  BY NatLessThanWellFounded
<1>2. PICK x \in T : \A y \in T : ~ (<<y, x>> \in R)
  <2> HIDE DEF R
  <2> QED BY <1>1, WFMin
<1>3. \A y \in T : ~(y < x)
  BY <1>2 DEF OpToRel
<1> HIDE DEF R
<1> QED BY <1>2, <1>3

(* Induction over the numbers, with a set in place of a predicate.         *)
LEMMA SetInduction ==
  ASSUME NEW S, 0 \in S, \A n \in Nat : n \in S => n + 1 \in S
  PROVE  Nat \subseteq S
<1>1. SUFFICES ASSUME Nat \ S # {} PROVE FALSE
  OBVIOUS
<1>2. PICK x \in Nat \ S : \A y \in Nat \ S : x <= y
  <2>1. Nat \ S \subseteq Nat
    OBVIOUS
  <2> QED BY <1>1, <2>1, Lowest
<1>3. x = 0 \/ (x - 1 \in Nat /\ ~(x <= x - 1) /\ (x - 1) + 1 = x)
  OBVIOUS
<1> QED BY <1>2, <1>3

(* Induction over sequences: what holds of the empty one and stays when an *)
(* element is appended holds of all.                                       *)
LEMMA SequenceInduction ==
  ASSUME NEW B, NEW S, <<>> \in S, \A s \in Seq(B), x \in B : s \in S => Append(s, x) \in S
  PROVE  Seq(B) \subseteq S
<1> DEFINE N == {n \in Nat : \A s \in Seq(B) : Len(s) = n => s \in S}
<1>1. 0 \in N
  <2>1. \A s \in Seq(B) : Len(s) = 0 => s = <<>>
    OBVIOUS
  <2> QED BY <2>1
<1>2. ASSUME NEW n \in Nat, n \in N PROVE n + 1 \in N
  <2>1. ASSUME NEW s \in Seq(B), Len(s) = n + 1 PROVE s \in S
    <3> DEFINE t == [i \in 1..n |-> s[i]]
    <3>1. t \in Seq(B) /\ Len(t) = n
      <4>1. \A i \in 1..n : s[i] \in B
        BY <2>1
      <4> QED BY <4>1
    <3>2. s[n + 1] \in B /\ s = Append(t, s[n + 1])
      BY <2>1, <3>1
    <3>3. t \in S
      BY <1>2, <3>1
    <3> HIDE DEF t
    <3> QED BY <3>1, <3>2, <3>3
  <2>2. n + 1 \in Nat
    OBVIOUS
  <2> QED BY <2>1, <2>2
<1>3. Nat \subseteq N
  <2> HIDE DEF N
  <2> QED BY <1>1, <1>2, SetInduction
<1>4. \A s \in Seq(B) : Len(s) \in Nat
  OBVIOUS
<1> QED BY <1>3, <1>4

(* What FoldLeft computes is a function H that starts with the base and    *)
(* takes one element more at a time; it is the same for every way to write *)
(* the recursion down.                                                     *)
LEMMA FoldLaws ==
  ASSUME NEW A, NEW B, NEW base \in A, NEW F \in [A \X B -> A]
  PROVE  \E H : FoldedBy(H, F, A, B, base)
(* The set of numbers to the last one: what Max takes from it.             *)
<1>MaxIs.
    /\ \A n \in Nat : \A d \in SUBSET (1..n) : d # {} => Max(d) \in d
    /\ \A n \in Nat : \A d \in SUBSET (1..n + 1) : n + 1 \in d => Max(d) = n + 1 /\ d \ {n + 1} \in SUBSET (1..n)
  <2>1. ASSUME NEW n \in Nat, NEW d \in SUBSET (1..n + 1), n + 1 \in d
        PROVE  Max(d) = n + 1 /\ d \ {n + 1} \in SUBSET (1..n)
    <3>1. \A y \in d : y \in 1..n + 1
      OBVIOUS
    <3>2. \A x \in d : (\A y \in d : x >= y) <=> x = n + 1
      BY <2>1, <3>1
    <3>3. Max(d) = n + 1
      BY <2>1, <3>2 DEF Max
    <3> QED BY <3>1, <3>3
  <2> DEFINE S == {n \in Nat : \A d \in SUBSET (1..n) : d # {} => Max(d) \in d}
  <2>2. 0 \in S
    <3>1. \A d \in SUBSET (1..0) : d = {}
      OBVIOUS
    <3> QED BY <3>1
  <2>3. ASSUME NEW n \in Nat, n \in S PROVE n + 1 \in S
    <3>1. ASSUME NEW d \in SUBSET (1..n + 1), d # {} PROVE Max(d) \in d
      <4>1. CASE n + 1 \in d
        BY <2>1, <4>1
      <4>2. CASE n + 1 \notin d
        <5>1. d \in SUBSET (1..n)
          BY <4>2
        <5> QED BY <2>3, <3>1, <5>1
      <4> QED BY <4>1, <4>2
    <3> QED BY <3>1
  <2>4. Nat \subseteq S
    <3> HIDE DEF S
    <3> QED BY <2>2, <2>3, SetInduction
  <2> QED BY <2>1, <2>4
<1>1. \A s \in Seq(B) : DOMAIN s = 1..Len(s) /\ Len(s) \in Nat /\ \A i \in 1..Len(s) : s[i] \in B
  OBVIOUS
<1>2. ASSUME NEW s \in Seq(B), NEW d \in SUBSET DOMAIN s, d # {}
      PROVE  s[Max(d)] \in B /\ d \ {Max(d)} \in SUBSET DOMAIN s
  BY <1>1, <1>2, <1>MaxIs
<1>3. ASSUME NEW s \in Seq(B) PROVE \E g \in [SUBSET DOMAIN s -> A] : Folds(g, F, A, base, s)
  <2> DEFINE G(g, n) == \A d \in SUBSET (1..n) :
               g[d] = IF d = {} THEN base ELSE F[<<g[d \ {Max(d)}], s[Max(d)]>>]
             S == {n \in Nat : n <= Len(s) => \E g \in [SUBSET (1..n) -> A] : G(g, n)}
  <2>1. 0 \in S
    <3> DEFINE g == [d \in SUBSET (1..0) |-> base]
    <3>1. \A d \in SUBSET (1..0) : d = {}
      OBVIOUS
    <3>2. g \in [SUBSET (1..0) -> A] /\ G(g, 0)
      BY <3>1
    <3> QED BY <3>2
  <2>2. ASSUME NEW n \in Nat, n \in S PROVE n + 1 \in S
    <3>0. n + 1 \in Nat
      OBVIOUS
    <3>1. SUFFICES ASSUME n + 1 <= Len(s) PROVE \E g \in [SUBSET (1..n + 1) -> A] : G(g, n + 1)
      <4> HIDE DEF G
      <4> QED BY <3>0
    <3>2. n <= Len(s)
      BY <3>1, <1>1
    <3>3. PICK g \in [SUBSET (1..n) -> A] : G(g, n)
      BY <2>2, <3>2
    <3> DEFINE h == [d \in SUBSET (1..n + 1) |-> IF n + 1 \in d THEN F[<<g[d \ {n + 1}], s[n + 1]>>] ELSE g[d]]
    <3>4. s[n + 1] \in B
      BY <1>1, <3>1
    <3>5. ASSUME NEW d \in SUBSET (1..n + 1), n + 1 \notin d
          PROVE  d \in SUBSET (1..n) /\ (d # {} => Max(d) \in 1..n + 1 /\ d \ {Max(d)} \in SUBSET (1..n))
      <4>1. d \in SUBSET (1..n)
        BY <3>5
      <4>2. d # {} => Max(d) \in d
        BY <4>1, <1>MaxIs
      <4> QED BY <4>1, <4>2
    <3>6. \A d \in SUBSET (1..n + 1) : n + 1 \in d => Max(d) = n + 1 /\ d \ {n + 1} \in SUBSET (1..n)
      BY <1>MaxIs
    <3>7. h \in [SUBSET (1..n + 1) -> A]
      BY <3>3, <3>4, <3>5, <3>6
    <3>8. ASSUME NEW d \in SUBSET (1..n + 1) PROVE h[d] = IF d = {} THEN base ELSE F[<<h[d \ {Max(d)}], s[Max(d)]>>]
      <4>1. CASE n + 1 \in d
        <5>1. d \ {n + 1} \in SUBSET (1..n + 1) /\ n + 1 \notin d \ {n + 1}
          OBVIOUS
        <5>2. h[d \ {n + 1}] = g[d \ {n + 1}]
          BY <5>1
        <5> QED BY <4>1, <5>2, <3>6
      <4>2. CASE n + 1 \notin d
        <5>1. h[d] = g[d] /\ d \in SUBSET (1..n)
          BY <4>2, <3>5
        <5>2. ASSUME d # {} PROVE h[d \ {Max(d)}] = g[d \ {Max(d)}]
          <6>1. d \ {Max(d)} \in SUBSET (1..n + 1) /\ n + 1 \notin d \ {Max(d)}
            BY <4>2
          <6> QED BY <6>1
        <5> HIDE DEF h
        <5> QED BY <3>3, <5>1, <5>2
      <4> QED BY <4>1, <4>2
    <3> QED
      <4> HIDE DEF h
      <4> QED BY <3>7, <3>8
  <2>3. Nat \subseteq S
    <3> HIDE DEF S
    <3> QED BY <2>1, <2>2, SetInduction
  <2>4. Len(s) \in S /\ Len(s) <= Len(s)
    <3> HIDE DEF S
    <3> QED BY <2>3, <1>1
  <2>5. PICK g \in [SUBSET (1..Len(s)) -> A] : G(g, Len(s))
    BY <2>4
  <2> QED BY <2>5, <1>1 DEF Folds
<1> DEFINE Makes(g, s) == s \in Seq(B) /\ Folds(g, F, A, base, s)
           Agree(s, t, k) == k \in Nat /\ k <= Len(s) /\ k <= Len(t) /\ \A i \in 1..k : s[i] = t[i]
<1>4. ASSUME NEW s, NEW t, NEW g, NEW h, NEW k, Makes(g, s), Makes(h, t), Agree(s, t, k)
      PROVE  /\ g[1..k] = h[1..k] /\ g[1..k] \in A
             /\ k < Len(s) => g[1..k + 1] = F[<<g[1..k], s[k + 1]>>]
  <2>0. /\ s \in Seq(B) /\ t \in Seq(B) /\ k \in Nat /\ k <= Len(s) /\ k <= Len(t)
        /\ Folds(g, F, A, base, s) /\ Folds(h, F, A, base, t) /\ \A i \in 1..k : s[i] = t[i]
    BY <1>4
  <2> HIDE DEF Makes, Agree
  <2> DEFINE S == {n \in Nat : n <= k => g[1..n] = h[1..n] /\ g[1..n] \in A}
  <2>1. ASSUME NEW r \in Seq(B), NEW f, Folds(f, F, A, base, r), NEW n \in Nat, n + 1 <= Len(r), f[1..n] \in A
        PROVE  f[1..n + 1] = F[<<f[1..n], r[n + 1]>>]
    <3>0. DOMAIN r = 1..Len(r) /\ Len(r) \in Nat
      OBVIOUS
    <3>1. (1..n + 1) \in SUBSET DOMAIN r /\ n + 1 \in 1..n + 1 /\ (1..n + 1) \ {n + 1} = 1..n
      BY <3>0, <2>1
    <3>2. Max(1..n + 1) = n + 1
      BY <3>1, <1>MaxIs
    <3> QED BY <2>1, <3>1, <3>2 DEF Folds
  <2>2. 0 \in S
    <3>1. 1..0 = {} /\ {} \in SUBSET DOMAIN s /\ {} \in SUBSET DOMAIN t
      OBVIOUS
    <3> QED BY <2>0, <3>1 DEF Folds
  <2>3. ASSUME NEW n \in Nat, n \in S PROVE n + 1 \in S
    <3>1. SUFFICES ASSUME n + 1 <= k PROVE g[1..n + 1] = h[1..n + 1] /\ g[1..n + 1] \in A
      OBVIOUS
    <3>2. g[1..n] = h[1..n] /\ g[1..n] \in A /\ n + 1 <= Len(s) /\ n + 1 <= Len(t) /\ n + 1 \in 1..k
      BY <2>0, <2>3, <3>1, <1>1
    <3>3. g[1..n + 1] = F[<<g[1..n], s[n + 1]>>] /\ h[1..n + 1] = F[<<h[1..n], t[n + 1]>>]
      BY <2>0, <2>1, <3>2
    <3>4. s[n + 1] = t[n + 1] /\ s[n + 1] \in B
      BY <3>2, <1>1, <2>0
    <3> QED BY <3>2, <3>3, <3>4
  <2>4. Nat \subseteq S
    <3> HIDE DEF S
    <3> QED BY <2>2, <2>3, SetInduction
  <2>5. g[1..k] = h[1..k] /\ g[1..k] \in A
    BY <2>0, <2>4
  <2> QED BY <2>0, <2>1, <2>5, <1>1
<1> DEFINE G(s) == CHOOSE g \in [SUBSET DOMAIN s -> A] : Folds(g, F, A, base, s)
           H == [s \in Seq(B) |-> G(s)[DOMAIN s]]
<1>5. \A s \in Seq(B) : G(s) \in [SUBSET DOMAIN s -> A] /\ Folds(G(s), F, A, base, s)
  BY <1>3
<1> HIDE DEF G
<1>6. H \in [Seq(B) -> A]
  BY <1>5
<1>7. H[<<>>] = base
  <2>1. <<>> \in Seq(B) /\ DOMAIN <<>> = {}
    OBVIOUS
  <2> QED BY <2>1, <1>5 DEF Folds
<1>8. ASSUME NEW s \in Seq(B), NEW x \in B PROVE H[Append(s, x)] = F[<<H[s], x>>]
  <2> DEFINE t == Append(s, x)
             k == Len(s)
  <2>1. t \in Seq(B) /\ Len(t) = k + 1 /\ k \in Nat /\ k < Len(t) /\ k <= Len(t) /\ t[k + 1] = x /\ \A i \in 1..k : t[i] = s[i]
    OBVIOUS
  <2>2. DOMAIN t = 1..k + 1 /\ DOMAIN s = 1..k
    BY <2>1, <1>1
  <2> HIDE DEF t, k
  <2>3. k <= Len(s)
    BY <1>1 DEF k
  <2>a. Makes(G(t), t) /\ Makes(G(s), s) /\ Agree(t, s, k)
    BY <1>5, <2>1, <2>3
  <2>4. G(t)[1..k + 1] = F[<<G(t)[1..k], x>>] /\ G(t)[1..k] = G(s)[1..k]
    <3>1. G(t)[1..k] = G(s)[1..k] /\ (k < Len(t) => G(t)[1..k + 1] = F[<<G(t)[1..k], t[k + 1]>>])
      <4> HIDE DEF Makes, Agree
      <4> QED BY <1>4, <2>a
    <3> QED BY <2>1, <3>1
  <2>5. H[t] = F[<<H[s], x>>]
    BY <2>1, <2>2, <2>4
  <2> QED BY <2>5 DEF t
<1>9. ASSUME NEW s \in Seq(B), NEW g, Folds(g, F, A, base, s) PROVE g[DOMAIN s] = H[s]
  <2>a. Len(s) \in Nat /\ Len(s) <= Len(s)
    OBVIOUS
  <2>b. Makes(g, s) /\ Makes(G(s), s) /\ Agree(s, s, Len(s))
    BY <1>5, <1>9, <2>a
  <2>1. ASSUME NEW h, NEW k \in Nat, Makes(h, s), Agree(s, s, k)
        PROVE  g[1..k] = h[1..k] /\ (k < Len(s) => g[1..k + 1] = F[<<g[1..k], s[k + 1]>>])
    <3> HIDE DEF Makes, Agree
    <3>1. Makes(g, s)
      BY <2>b
    <3> QED BY <1>4, <2>1, <3>1
  <2>2. g[1..Len(s)] = G(s)[1..Len(s)]
    <3> HIDE DEF Makes, Agree
    <3> QED BY <2>1, <2>a, <2>b
  <2> QED BY <1>1, <2>2
<1> QED
  <2> HIDE DEF H
  <2> QED BY <1>2, <1>3, <1>6, <1>7, <1>8, <1>9 DEF FoldedBy

(* A percent of an amount is between nothing and all of it, and Math.round *)
(* of what is left is what PercentOff keeps (roundMoney).                  *)
LEMMA PercentIs ==
  ASSUME NEW a \in Nat, NEW p \in 0..100
  PROVE  /\ RoundDiv(a * (100 - p), 100) \in 0..a
         /\ PercentOff(a, p) = RoundDiv(a * (100 - p), 100)
         /\ RoundDiv(a * p, 100) \in 0..a
<1>1. \A n \in 0..(a * 100) : RoundDiv(n, 100) \in 0..a
  BY DEF RoundDiv
<1>2. ASSUME NEW q \in 0..100 PROVE a * q \in 0..(a * 100)
  OBVIOUS
<1>3. a * (100 - p) \in 0..(a * 100) /\ a * p \in 0..(a * 100)
  BY <1>2
<1>4. p = 100 => a * (100 - p) = 0
  OBVIOUS
<1>5. RoundDiv(0, 100) = 0
  BY DEF RoundDiv
<1>6. PercentOff(a, p) = RoundDiv(a * (100 - p), 100)
  BY <1>4, <1>5 DEF PercentOff
<1> QED BY <1>1, <1>3, <1>6

(* What a tier makes of a price is a price (unitNetAfterRuleDiscount).     *)
LEMMA DiscountedIs == \A price \in Nat, t \in TierSet : Discounted(price, t) \in Nat
<1> SUFFICES ASSUME NEW price \in Nat, NEW t \in TierSet PROVE Discounted(price, t) \in Nat
  OBVIOUS
<1>1. t.type \in {"PERCENT", "FIXED", "FIXED_PRICE"} /\ t.value \in Nat
  BY DEF TierSet
<1>2. CASE t.type = "PERCENT"
  <2>1. t.value \in 0..100
    BY <1>2 DEF TierSet
  <2> QED BY <1>2, <2>1, PercentIs DEF Discounted
<1>3. CASE t.type = "FIXED_PRICE"
  BY <1>1, <1>3 DEF Discounted
<1>4. CASE t.type = "FIXED"
  BY <1>1, <1>4 DEF Discounted, More
<1> QED BY <1>1, <1>2, <1>3, <1>4

(* What a fixed code takes off the delivery and the products is its value, *)
(* or all there is of the kind it is for (applyPendingShippingPromos).     *)
LEMMA OnShippingIs ==
  ASSUME NEW state \in ShippingSet, NEW promo \in PromoSet
  PROVE  /\ OnShipping(state, promo) \in ShippingSet
         /\ promo.type # "PERCENT" =>
              (state.delivery - OnShipping(state, promo).delivery) + (OnShipping(state, promo).fixedOff - state.fixedOff)
              = Less(promo.value, (IF promo.scope = "SHIPPING_ONLY" THEN 0 ELSE promo.eligible) + state.delivery)
(* A fixed amount is shared out to the cent, and the delivery's share is   *)
(* at most the delivery (allocateAmountByWeights).                         *)
<1>SharesAre.
    ASSUME NEW total \in Nat, NEW products \in Nat, NEW shipping \in Nat, total <= products + shipping
    PROVE  /\ Shares(total, products, shipping).products \in Nat
           /\ Shares(total, products, shipping).shipping \in 0..shipping
           /\ Shares(total, products, shipping).products + Shares(total, products, shipping).shipping = total
  <2> USE <1>SharesAre
  <2> DEFINE all == products + shipping
             pp == (total * products) \div all
             ps == (total * shipping) \div all
             fp == (total * products) % all
             fs == (total * shipping) % all
             left == total - pp - ps
             more == IF fp >= fs THEN left ELSE 0
  <2>1. CASE all = 0
    <3>1. total = 0 /\ Shares(total, products, shipping) = NoShares
      BY <2>1 DEF Shares
    <3> QED BY <3>1 DEF NoShares
  <2>2. CASE all # 0
    <3>1. all \in Nat \ {0} /\ total * products \in Nat /\ total * shipping \in Nat
      BY <2>2
    <3>2. ASSUME NEW n \in Nat, NEW d \in Nat \ {0}
          PROVE  n \div d \in Nat /\ n % d \in 0..(d - 1) /\ n = d * (n \div d) + (n % d)
      <4>1. n \div d \in Nat
        OBVIOUS
      <4>2. n % d \in 0..(d - 1)
        OBVIOUS
      <4>3. n = d * (n \div d) + (n % d)
        OBVIOUS
      <4> QED BY <4>1, <4>2, <4>3
    <3>3. /\ pp \in Nat /\ fp \in 0..(all - 1) /\ total * products = all * pp + fp
          /\ ps \in Nat /\ fs \in 0..(all - 1) /\ total * shipping = all * ps + fs
      <4> HIDE DEF all
      <4> QED BY <3>1, <3>2
    <3>4. total * products + total * shipping = total * all
      OBVIOUS
    <3>5. Shares(total, products, shipping) = [products |-> pp + more, shipping |-> ps + left - more]
      BY <2>2 DEF Shares
    <3> HIDE DEF pp, ps, fp, fs
    <3>6. left \in Int /\ all * left = fp + fs
      <4>1. \A a, t, p, q \in Nat : a * (t - p - q) = t * a - a * p - a * q
        OBVIOUS
      <4>2. all * left = total * all - all * pp - all * ps /\ left \in Int
        <5> HIDE DEF all
        <5> QED BY <3>1, <3>3, <4>1
      <4>3. PICK a, b, c, d, e \in Int : a = total * all /\ b = total * products /\ c = total * shipping /\ d = all * pp /\ e = all * ps
        <5> HIDE DEF all
        <5> QED BY <3>1, <3>3
      <4> HIDE DEF left, all
      <4>4. b + c = a /\ b = d + fp /\ c = e + fs /\ all * left = a - d - e
        BY <3>3, <3>4, <4>2, <4>3
      <4>5. fp \in Int /\ fs \in Int
        BY <3>1, <3>3
      <4> QED BY <4>2, <4>3, <4>4, <4>5
    <3>7. left \in 0..1
      <4> HIDE DEF left
      <4>1. left < 0 => all * left < 0
        BY <3>1, <3>6
      <4>2. left >= 2 => all * left >= 2 * all
        BY <3>1, <3>6
      <4> HIDE DEF all
      <4> QED BY <3>1, <3>3, <3>6, <4>1, <4>2
    <3>8. ps <= shipping /\ (fs > 0 => ps < shipping)
      <4>1. total * shipping <= all * shipping
        BY <3>1
      <4>2. all * ps + fs <= all * shipping
        BY <3>1, <3>3, <4>1
      <4>3. ps > shipping => all * ps > all * shipping
        BY <3>1, <3>3
      <4>4. ps >= shipping => all * ps >= all * shipping
        BY <3>1, <3>3
      <4> HIDE DEF all
      <4> QED BY <3>1, <3>3, <4>2, <4>3, <4>4
    <3>9. left = 1 /\ ~(fp >= fs) => fs > 0
      BY <3>3
    <3>10. pp + more \in Nat /\ ps + left - more \in 0..shipping /\ (pp + more) + (ps + left - more) = total
      <4>1. total = pp + ps + left
        BY <3>3
      <4> HIDE DEF left
      <4> QED BY <3>3, <3>7, <3>8, <3>9, <4>1
    <3> HIDE DEF more, left
    <3> QED BY <3>5, <3>10
  <2> QED BY <2>1, <2>2
<1>1. state.delivery \in Nat /\ state.fixedOff \in Nat /\ promo.value \in Nat /\ promo.eligible \in Nat
  BY DEF ShippingSet, PromoSet
<1>2. CASE promo.type = "PERCENT"
  <2>1. promo.value \in 0..100
    BY <1>2 DEF PromoSet
  <2>2. PICK r : r = RoundDiv(state.delivery * promo.value, 100) /\ r \in 0..state.delivery
    BY <1>1, <2>1, PercentIs
  <2>3. OnShipping(state, promo) = [state EXCEPT !.delivery = state.delivery - r]
    BY <1>2, <2>2 DEF OnShipping, ShippingSet
  <2> QED BY <1>1, <1>2, <2>2, <2>3 DEF ShippingSet
<1>3. CASE promo.type # "PERCENT"
  <2> DEFINE there == (IF promo.scope = "SHIPPING_ONLY" THEN 0 ELSE promo.eligible) + state.delivery
  <2>1. PICK s : s = FixedShares(promo, state.delivery)
    OBVIOUS
  <2>2. s.products \in Nat /\ s.shipping \in 0..state.delivery /\ s.products + s.shipping = Less(promo.value, there)
    <3>1. CASE promo.scope = "SHIPPING_ONLY"
      BY <1>1, <2>1, <3>1 DEF FixedShares, Less
    <3>2. CASE promo.scope # "SHIPPING_ONLY"
      <4>1. PICK t \in Nat : t = Less(promo.value, promo.eligible + state.delivery) /\ t <= promo.eligible + state.delivery
        BY <1>1 DEF Less
      <4>2. s = Shares(t, promo.eligible, state.delivery)
        BY <2>1, <3>2, <4>1 DEF FixedShares
      <4> QED BY <1>1, <3>2, <4>1, <4>2, <1>SharesAre
    <3> QED BY <3>1, <3>2
  <2>3. OnShipping(state, promo) = [state EXCEPT !.delivery = state.delivery - s.shipping, !.fixedOff = state.fixedOff + s.products]
    BY <1>3, <2>1 DEF OnShipping, ShippingSet
  <2>4. OnShipping(state, promo).delivery = state.delivery - s.shipping /\ OnShipping(state, promo).fixedOff = state.fixedOff + s.products
    BY <2>3 DEF ShippingSet
  <2>5. OnShipping(state, promo) \in ShippingSet
    <3>1. PICK d, f \in Nat : d = state.delivery - s.shipping /\ f = state.fixedOff + s.products
      BY <1>1, <2>2
    <3>2. OnShipping(state, promo) = [state EXCEPT !.delivery = d, !.fixedOff = f]
      BY <2>3, <3>1
    <3> QED BY <3>2 DEF ShippingSet
  <2> HIDE DEF there
  <2>6. (state.delivery - (state.delivery - s.shipping)) + ((state.fixedOff + s.products) - state.fixedOff) = Less(promo.value, there)
    BY <1>1, <2>2
  <2> QED BY <2>4, <2>5, <2>6 DEF there
<1> QED BY <1>2, <1>3

(* SumOf (reduce over the lines) starts with 0 and adds.                   *)
LEMMA SumLaws ==
  /\ SumOf(<<>>) = 0
  /\ \A s \in Seq(Int) : SumOf(s) \in Int
  /\ \A s \in Seq(Int), x \in Int : SumOf(Append(s, x)) = SumOf(s) + x
<1> DEFINE F == [p \in Int \X Int |-> p[1] + p[2]]
<1>1. F \in [Int \X Int -> Int] /\ \A a \in Int, x \in Int : F[<<a, x>>] = a + x
  OBVIOUS
<1> HIDE DEF F
<1>2. PICK H : FoldedBy(H, F, Int, Int, 0)
  <2>1. 0 \in Int
    OBVIOUS
  <2> QED BY <1>1, <2>1, FoldLaws
<1>3. ASSUME NEW s \in Seq(Int) PROVE SumOf(s) = H[s]
  <2> DEFINE Is(f) == f = [d \in SUBSET DOMAIN s |-> IF d = {} THEN 0 ELSE f[d \ {Max(d)}] + s[Max(d)]]
  <2>1. SumOf(s) = (CHOOSE f : Is(f))[DOMAIN s]
    BY DEF SumOf, FoldLeft, MapThenFoldSet
  <2>2. \A d \in SUBSET DOMAIN s : d # {} => s[Max(d)] \in Int /\ d \ {Max(d)} \in SUBSET DOMAIN s
    BY <1>2 DEF FoldedBy
  <2>3. PICK g \in [SUBSET DOMAIN s -> Int] : Folds(g, F, Int, 0, s)
    BY <1>2 DEF FoldedBy
  <2>4. Is(g)
    <3>1. ASSUME NEW d \in SUBSET DOMAIN s PROVE g[d] = IF d = {} THEN 0 ELSE g[d \ {Max(d)}] + s[Max(d)]
      BY <1>1, <2>2, <2>3 DEF Folds
    <3> QED BY <2>3, <3>1
  <2>5. PICK f : f = (CHOOSE h : Is(h)) /\ Is(f)
    BY <2>4
  <2>6. Folds(f, F, Int, 0, s)
    <3>1. ASSUME NEW d \in SUBSET DOMAIN s PROVE f[d] = IF d = {} THEN 0 ELSE f[d \ {Max(d)}] + s[Max(d)]
      BY <2>5
    <3> QED BY <1>1, <2>2, <3>1 DEF Folds
  <2>7. SumOf(s) = f[DOMAIN s]
    BY <2>1, <2>5
  <2> QED BY <1>2, <2>6, <2>7 DEF FoldedBy
<1>4. ASSUME NEW s \in Seq(Int), NEW x \in Int PROVE SumOf(Append(s, x)) = SumOf(s) + x
  <2>1. Append(s, x) \in Seq(Int)
    OBVIOUS
  <2>2. H[Append(s, x)] = F[<<H[s], x>>] /\ H[s] \in Int
    BY <1>2 DEF FoldedBy
  <2>3. SumOf(Append(s, x)) = H[Append(s, x)] /\ SumOf(s) = H[s]
    BY <1>3, <2>1
  <2> QED BY <1>1, <2>2, <2>3
<1>5. SumOf(<<>>) = 0
  <2>1. <<>> \in Seq(Int)
    OBVIOUS
  <2> QED BY <1>2, <1>3, <2>1 DEF FoldedBy
<1>6. \A s \in Seq(Int) : SumOf(s) \in Int
  BY <1>2, <1>3 DEF FoldedBy
<1> QED
  BY <1>4, <1>5, <1>6

(* Chosen (Array.filter) takes an element or leaves it.                    *)
LEMMA ChosenLaws ==
  ASSUME NEW B, NEW T
  PROVE  /\ Chosen(<<>>, T) = <<>>
         /\ \A s \in Seq(B) : Chosen(s, T) \in Seq(B)
         /\ \A s \in Seq(B), x \in B :
              Chosen(Append(s, x), T) = IF x \in T THEN Append(Chosen(s, T), x) ELSE Chosen(s, T)
<1> DEFINE F == [p \in Seq(B) \X B |-> IF p[2] \in T THEN Append(p[1], p[2]) ELSE p[1]]
<1>1. F \in [Seq(B) \X B -> Seq(B)] /\ \A a \in Seq(B), x \in B : F[<<a, x>>] = IF x \in T THEN Append(a, x) ELSE a
  OBVIOUS
<1> HIDE DEF F
<1>2. PICK H : FoldedBy(H, F, Seq(B), B, <<>>)
  <2>1. <<>> \in Seq(B)
    OBVIOUS
  <2> QED BY <1>1, <2>1, FoldLaws
<1>3. ASSUME NEW s \in Seq(B) PROVE Chosen(s, T) = H[s]
  <2> DEFINE Is(f) == f = [d \in SUBSET DOMAIN s |-> IF d = {} THEN <<>> ELSE IF s[Max(d)] \in T THEN Append(f[d \ {Max(d)}], s[Max(d)]) ELSE f[d \ {Max(d)}]]
  <2>1. Chosen(s, T) = (CHOOSE f : Is(f))[DOMAIN s]
    BY DEF Chosen, FoldLeft, MapThenFoldSet
  <2>2. \A d \in SUBSET DOMAIN s : d # {} => s[Max(d)] \in B /\ d \ {Max(d)} \in SUBSET DOMAIN s
    BY <1>2 DEF FoldedBy
  <2>3. PICK g \in [SUBSET DOMAIN s -> Seq(B)] : Folds(g, F, Seq(B), <<>>, s)
    BY <1>2 DEF FoldedBy
  <2>4. Is(g)
    <3>1. ASSUME NEW d \in SUBSET DOMAIN s PROVE g[d] = IF d = {} THEN <<>> ELSE IF s[Max(d)] \in T THEN Append(g[d \ {Max(d)}], s[Max(d)]) ELSE g[d \ {Max(d)}]
      BY <1>1, <2>2, <2>3 DEF Folds
    <3> QED BY <2>3, <3>1
  <2>5. PICK f : f = (CHOOSE h : Is(h)) /\ Is(f)
    BY <2>4
  <2>6. Folds(f, F, Seq(B), <<>>, s)
    <3>1. ASSUME NEW d \in SUBSET DOMAIN s PROVE f[d] = IF d = {} THEN <<>> ELSE IF s[Max(d)] \in T THEN Append(f[d \ {Max(d)}], s[Max(d)]) ELSE f[d \ {Max(d)}]
      BY <2>5
    <3> QED BY <1>1, <2>2, <3>1 DEF Folds
  <2>7. Chosen(s, T) = f[DOMAIN s]
    BY <2>1, <2>5
  <2> QED BY <1>2, <2>6, <2>7 DEF FoldedBy
<1>4. ASSUME NEW s \in Seq(B), NEW x \in B PROVE Chosen(Append(s, x), T) = IF x \in T THEN Append(Chosen(s, T), x) ELSE Chosen(s, T)
  <2>1. Append(s, x) \in Seq(B)
    OBVIOUS
  <2>2. H[Append(s, x)] = F[<<H[s], x>>] /\ H[s] \in Seq(B)
    BY <1>2 DEF FoldedBy
  <2>3. Chosen(Append(s, x), T) = H[Append(s, x)] /\ Chosen(s, T) = H[s]
    BY <1>3, <2>1
  <2> QED BY <1>1, <2>2, <2>3
<1>5. Chosen(<<>>, T) = <<>>
  <2>1. <<>> \in Seq(B)
    OBVIOUS
  <2> QED BY <1>2, <1>3, <2>1 DEF FoldedBy
<1>6. \A s \in Seq(B) : Chosen(s, T) \in Seq(B)
  BY <1>2, <1>3 DEF FoldedBy
<1> QED
  BY <1>4, <1>5, <1>6

(* The codes that reach the delivery, one after another, keep its price    *)
(* and the fixed amount amounts (applyShippingPromos).                     *)
LEMMA ShippingLaws ==
  ASSUME NEW start \in ShippingSet
  PROVE  /\ FoldLeft(OnShipping, start, <<>>) = start
         /\ \A s \in Seq(PromoSet) : FoldLeft(OnShipping, start, s) \in ShippingSet
         /\ \A s \in Seq(PromoSet), x \in PromoSet :
              FoldLeft(OnShipping, start, Append(s, x)) = OnShipping(FoldLeft(OnShipping, start, s), x)
<1> DEFINE F == [p \in ShippingSet \X PromoSet |-> OnShipping(p[1], p[2])]
<1>1. F \in [ShippingSet \X PromoSet -> ShippingSet] /\ \A a \in ShippingSet, x \in PromoSet : F[<<a, x>>] = OnShipping(a, x)
  BY OnShippingIs
<1> HIDE DEF F
<1>2. PICK H : FoldedBy(H, F, ShippingSet, PromoSet, start)
  <2>1. start \in ShippingSet
    OBVIOUS
  <2> QED BY <1>1, <2>1, FoldLaws
<1>3. ASSUME NEW s \in Seq(PromoSet) PROVE FoldLeft(OnShipping, start, s) = H[s]
  <2> DEFINE Is(f) == f = [d \in SUBSET DOMAIN s |-> IF d = {} THEN start ELSE OnShipping(f[d \ {Max(d)}], s[Max(d)])]
  <2>1. FoldLeft(OnShipping, start, s) = (CHOOSE f : Is(f))[DOMAIN s]
    BY DEF FoldLeft, MapThenFoldSet
  <2>2. \A d \in SUBSET DOMAIN s : d # {} => s[Max(d)] \in PromoSet /\ d \ {Max(d)} \in SUBSET DOMAIN s
    BY <1>2 DEF FoldedBy
  <2>3. PICK g \in [SUBSET DOMAIN s -> ShippingSet] : Folds(g, F, ShippingSet, start, s)
    BY <1>2 DEF FoldedBy
  <2>4. Is(g)
    <3>1. ASSUME NEW d \in SUBSET DOMAIN s PROVE g[d] = IF d = {} THEN start ELSE OnShipping(g[d \ {Max(d)}], s[Max(d)])
      BY <1>1, <2>2, <2>3 DEF Folds
    <3> QED BY <2>3, <3>1
  <2>5. PICK f : f = (CHOOSE h : Is(h)) /\ Is(f)
    BY <2>4
  <2>6. Folds(f, F, ShippingSet, start, s)
    <3>1. ASSUME NEW d \in SUBSET DOMAIN s PROVE f[d] = IF d = {} THEN start ELSE OnShipping(f[d \ {Max(d)}], s[Max(d)])
      BY <2>5
    <3> QED BY <1>1, <2>2, <3>1 DEF Folds
  <2>7. FoldLeft(OnShipping, start, s) = f[DOMAIN s]
    BY <2>1, <2>5
  <2> QED BY <1>2, <2>6, <2>7 DEF FoldedBy
<1>4. ASSUME NEW s \in Seq(PromoSet), NEW x \in PromoSet PROVE FoldLeft(OnShipping, start, Append(s, x)) = OnShipping(FoldLeft(OnShipping, start, s), x)
  <2>1. Append(s, x) \in Seq(PromoSet)
    OBVIOUS
  <2>2. H[Append(s, x)] = F[<<H[s], x>>] /\ H[s] \in ShippingSet
    BY <1>2 DEF FoldedBy
  <2>3. FoldLeft(OnShipping, start, Append(s, x)) = H[Append(s, x)] /\ FoldLeft(OnShipping, start, s) = H[s]
    BY <1>3, <2>1
  <2> QED BY <1>1, <2>2, <2>3
<1>5. FoldLeft(OnShipping, start, <<>>) = start
  <2>1. <<>> \in Seq(PromoSet)
    OBVIOUS
  <2> QED BY <1>2, <1>3, <2>1 DEF FoldedBy
<1>6. \A s \in Seq(PromoSet) : FoldLeft(OnShipping, start, s) \in ShippingSet
  BY <1>2, <1>3 DEF FoldedBy
<1> QED
  BY <1>4, <1>5, <1>6

(* Sums of natural numbers are natural numbers, and grow with their terms. *)
LEMMA SumsGrow ==
  /\ \A s \in Seq(Nat) : SumOf(s) \in Nat
  /\ \A s, t \in Seq(Nat) : Len(s) = Len(t) /\ (\A i \in 1..Len(s) : s[i] <= t[i]) => SumOf(s) <= SumOf(t)
<1>0. \A s \in Seq(Nat) : s \in Seq(Int)
  OBVIOUS
<1>1. \A s \in Seq(Nat) : SumOf(s) \in Nat
  <2> DEFINE S == {s \in Seq(Nat) : SumOf(s) \in Nat}
  <2>1. <<>> \in S
    <3>1. <<>> \in Seq(Nat) /\ 0 \in Nat
      OBVIOUS
    <3> QED BY <3>1, SumLaws
  <2>2. ASSUME NEW s \in Seq(Nat), NEW x \in Nat, s \in S PROVE Append(s, x) \in S
    <3>1. Append(s, x) \in Seq(Nat) /\ x \in Int
      OBVIOUS
    <3>2. SumOf(Append(s, x)) = SumOf(s) + x
      BY <1>0, <3>1, SumLaws
    <3> QED BY <2>2, <3>1, <3>2
  <2>3. Seq(Nat) \subseteq S
    <3> HIDE DEF S
    <3> QED BY <2>1, <2>2, SequenceInduction
  <2> QED BY <2>3
<1>2. \A s, t \in Seq(Nat) : Len(s) = Len(t) /\ (\A i \in 1..Len(s) : s[i] <= t[i]) => SumOf(s) <= SumOf(t)
  <2> DEFINE Below(s, t) == Len(s) = Len(t) /\ (\A i \in 1..Len(s) : s[i] <= t[i])
             S == {s \in Seq(Nat) : \A t \in Seq(Nat) : Below(s, t) => SumOf(s) <= SumOf(t)}
  <2>1. <<>> \in S
    <3>1. <<>> \in Seq(Nat) /\ \A t \in Seq(Nat) : Below(<<>>, t) => t = <<>>
      OBVIOUS
    <3>2. SumOf(<<>>) <= SumOf(<<>>)
      BY SumLaws
    <3> HIDE DEF Below
    <3> QED BY <3>1, <3>2
  <2>2. ASSUME NEW s \in Seq(Nat), NEW x \in Nat, s \in S PROVE Append(s, x) \in S
    <3>1. ASSUME NEW t \in Seq(Nat), Below(Append(s, x), t) PROVE SumOf(Append(s, x)) <= SumOf(t)
      <4> DEFINE r == [i \in 1..Len(s) |-> t[i]]
      <4>1. Len(t) = Len(s) + 1 /\ t[Len(s) + 1] \in Nat /\ x <= t[Len(s) + 1] /\ \A i \in 1..Len(s) : t[i] \in Nat /\ s[i] <= t[i]
        <5>1. Len(t) = Len(s) + 1 /\ Len(s) \in Nat
          BY <3>1
        <5>2. \A i \in 1..Len(s) + 1 : Append(s, x)[i] <= t[i] /\ t[i] \in Nat
          BY <3>1, <5>1
        <5> QED BY <5>1, <5>2
      <4>2. r \in Seq(Nat) /\ Below(s, r) /\ t = Append(r, t[Len(s) + 1])
        BY <4>1
      <4> HIDE DEF r, Below
      <4>3. SumOf(s) <= SumOf(r)
        BY <2>2, <4>2
      <4>4. SumOf(Append(s, x)) = SumOf(s) + x /\ SumOf(t) = SumOf(r) + t[Len(s) + 1]
        <5>1. PICK y \in Nat : y = t[Len(s) + 1] /\ t = Append(r, y)
          BY <4>1, <4>2
        <5>2. x \in Int /\ y \in Int /\ r \in Seq(Int) /\ s \in Seq(Int)
          BY <1>0, <4>2
        <5>3. SumOf(Append(r, y)) = SumOf(r) + y /\ SumOf(Append(s, x)) = SumOf(s) + x
          BY <5>2, SumLaws
        <5> QED BY <5>1, <5>3
      <4>5. SumOf(s) \in Nat /\ SumOf(r) \in Nat
        BY <1>1, <4>2
      <4> QED BY <4>1, <4>3, <4>4, <4>5
    <3>2. Append(s, x) \in Seq(Nat)
      OBVIOUS
    <3> HIDE DEF Below
    <3> QED BY <3>1, <3>2
  <2>3. Seq(Nat) \subseteq S
    <3> HIDE DEF S
    <3> QED BY <2>1, <2>2, SequenceInduction
  <2> QED BY <2>3
<1> QED BY <1>1, <1>2

(* What is chosen of a sequence is what it has in T, once where it is      *)
(* there once.                                                             *)
LEMMA ChosenIs ==
  ASSUME NEW B, NEW T, NEW s \in Seq(B)
  PROVE  /\ Chosen(s, T) \in Seq(B)
         /\ Range(Chosen(s, T)) = Range(s) \cap T
         /\ Range(s) \subseteq T => Chosen(s, T) = s
         /\ (\A i, j \in DOMAIN s : s[i] = s[j] => i = j) =>
               \A i, j \in DOMAIN Chosen(s, T) : Chosen(s, T)[i] = Chosen(s, T)[j] => i = j
<1> DEFINE Once(t) == \A i, j \in DOMAIN t : t[i] = t[j] => i = j
           Holds(t) == /\ Range(Chosen(t, T)) = Range(t) \cap T
                       /\ Range(t) \subseteq T => Chosen(t, T) = t
                       /\ Once(t) => Once(Chosen(t, T))
           S == {t \in Seq(B) : Holds(t)}
<1>0. ASSUME NEW t \in Seq(B), NEW x \in B
      PROVE  /\ DOMAIN t = 1..Len(t) /\ Len(t) \in Nat /\ DOMAIN Append(t, x) = 1..Len(t) + 1
             /\ Append(t, x)[Len(t) + 1] = x /\ \A i \in 1..Len(t) : Append(t, x)[i] = t[i]
  OBVIOUS
<1>1. ASSUME NEW t \in Seq(B), NEW x \in B PROVE Range(Append(t, x)) = Range(t) \cup {x}
  <2>1. ASSUME NEW y PROVE y \in Range(Append(t, x)) <=> y \in Range(t) \cup {x}
    <3>1. y \in Range(t) <=> \E i \in 1..Len(t) : y = t[i]
      BY <1>0 DEF Range
    <3>2. y \in Range(Append(t, x)) <=> \E i \in 1..Len(t) + 1 : y = Append(t, x)[i]
      BY <1>0 DEF Range
    <3>3. Len(t) \in Nat /\ \A i : i \in 1..Len(t) + 1 <=> i \in 1..Len(t) \/ i = Len(t) + 1
      OBVIOUS
    <3> QED BY <1>0, <3>1, <3>2, <3>3
  <2> QED BY <2>1
<1>2. ASSUME NEW t \in Seq(B), NEW x \in B PROVE Once(Append(t, x)) <=> Once(t) /\ x \notin Range(t)
  <2>1. x \in Range(t) <=> \E i \in 1..Len(t) : x = t[i]
    BY <1>0 DEF Range
  <2>2. Len(t) \in Nat /\ (\A i : i \in 1..Len(t) + 1 <=> i \in 1..Len(t) \/ i = Len(t) + 1) /\ ~(Len(t) + 1 \in 1..Len(t))
    OBVIOUS
  <2> QED BY <1>0, <2>1, <2>2
<1>c. /\ Chosen(<<>>, T) = <<>>
      /\ \A t \in Seq(B) : Chosen(t, T) \in Seq(B)
      /\ \A t \in Seq(B), x \in B : Chosen(Append(t, x), T) = IF x \in T THEN Append(Chosen(t, T), x) ELSE Chosen(t, T)
  BY ChosenLaws
<1>3. <<>> \in S
  <2>1. <<>> \in Seq(B) /\ Range(<<>>) = {} /\ Once(<<>>)
    BY DEF Range
  <2> HIDE DEF Once
  <2> QED BY <2>1, <1>c
<1>4. ASSUME NEW t \in Seq(B), NEW x \in B, t \in S PROVE Append(t, x) \in S
  <2>1. Append(t, x) \in Seq(B) /\ Chosen(t, T) \in Seq(B)
    BY <1>c
  <2>2. Chosen(Append(t, x), T) = IF x \in T THEN Append(Chosen(t, T), x) ELSE Chosen(t, T)
    BY <1>c
  <2> HIDE DEF Once
  <2>3. CASE x \in T
    <3>1. PICK c \in Seq(B) : c = Chosen(t, T)
      BY <2>1
    <3>2. /\ Range(c) = Range(t) \cap T /\ (Range(t) \subseteq T => c = t) /\ (Once(t) => Once(c))
          /\ Chosen(Append(t, x), T) = Append(c, x)
      BY <1>4, <2>2, <2>3, <3>1
    <3>3. Range(Append(c, x)) = Range(c) \cup {x} /\ Range(Append(t, x)) = Range(t) \cup {x}
      BY <1>1
    <3>4. (Once(Append(c, x)) <=> Once(c) /\ x \notin Range(c)) /\ (Once(Append(t, x)) <=> Once(t) /\ x \notin Range(t))
      BY <1>2
    <3>5. Range(Append(c, x)) = Range(Append(t, x)) \cap T
      BY <2>3, <3>2, <3>3
    <3>6. Range(Append(t, x)) \subseteq T => Append(c, x) = Append(t, x)
      BY <3>2, <3>3
    <3>7. Once(Append(t, x)) => Once(Append(c, x))
      BY <3>2, <3>4
    <3> QED BY <2>1, <3>2, <3>5, <3>6, <3>7
  <2>4. CASE x \notin T
    BY <1>1, <1>2, <1>4, <2>1, <2>2, <2>4
  <2> QED BY <2>3, <2>4
<1>5. Seq(B) \subseteq S
  <2> HIDE DEF S
  <2> QED BY <1>3, <1>4, SequenceInduction
<1>6. Holds(s)
  BY <1>5
<1> QED BY <1>6, <1>c

TrueOffers(base) ==
  {o \in [unit : Nat, pct : -1..100] : o.pct # Unknown => o.unit = PercentOff(base, o.pct)}
TrueLines ==
  {l \in [base : Nat, unit : Nat, pct : -1..100, qty : Nat \ {0}, source : Lists] : LineIsTrue(l)}

PercentCodes == {p \in PromoSet : p.type = "PERCENT"}
Copies == {Numbered(promos[n], n) : n \in DOMAIN promos}
OnlyGifts(list) == \A i \in DOMAIN list : list[i].type = "GIFT"

LinesAreTrue ==
  /\ basket \in Carts /\ promos \in Promos /\ shop \in Shops /\ tax \in Taxes
  /\ lines \in Seq(TrueLines)
  /\ todo \in Seq(Copies)

(* Before the only fixed code is looked at, no amount is off and only      *)
(* percents wait; then no percent is left to look at.                      *)
Unspent ==
  /\ fixedOff = 0 /\ awaiting \in Seq(PercentCodes)
  /\ \A i, j \in DOMAIN todo : todo[i].type = "FIXED" /\ i < j => todo[j].type = "GIFT"
Spent(promo) ==
  /\ OnlyGifts(todo)
  /\ \/ ~OnDelivery(promo) /\ fixedOff = Less(promo.value, Eligible(promo)) /\ awaiting \in Seq(PercentCodes)
     \/ /\ OnDelivery(promo) /\ fixedOff = 0
        /\ \E list \in Seq(PercentCodes), p \in PromoSet :
             /\ awaiting = Append(list, p)
             /\ p.type = "FIXED" /\ p.scope = promo.scope /\ p.value = promo.value
             /\ p.eligible = IF OnProducts(promo) THEN Eligible(promo) ELSE 0

FixedCounts ==
  \A n \in DOMAIN promos : OnlyFixed(n) =>
    /\ n \notin used => Unspent
    /\ n \in used => Spent(promos[n])

OrderCounts ==
  /\ stage = "cart" => todo = <<>> /\ used = {} /\ fixedOff = 0 /\ awaiting = <<>>
  /\ Stored => used = DOMAIN promos /\ order.totals = Totals(shop, tax, lines, fixedOff, awaiting)

PriceInv == LinesAreTrue /\ FixedCounts /\ OrderCounts

(* The cheapest offer is one of the offers, and none is cheaper            *)
(* (pickBestOffer).                                                        *)
LEMMA CheapestIs ==
  ASSUME NEW base, NEW offers \in Seq(TrueOffers(base)), offers # <<>>
  PROVE  /\ Cheapest(offers) \in TrueOffers(base)
         /\ \A i \in DOMAIN offers : Cheapest(offers).unit <= offers[i].unit
<1> DEFINE U == {offers[i].unit : i \in DOMAIN offers}
           best(i) == \A j \in DOMAIN offers :
                        \/ offers[i].unit < offers[j].unit
                        \/ offers[i].unit = offers[j].unit /\ i <= j
<1>1. /\ DOMAIN offers = 1..Len(offers) /\ Len(offers) \in Nat /\ 1 \in DOMAIN offers
      /\ \A i \in DOMAIN offers : offers[i] \in TrueOffers(base)
  OBVIOUS
<1>2. \A i \in DOMAIN offers : offers[i].unit \in Nat
  BY <1>1 DEF TrueOffers
<1>3. PICK u \in U : \A v \in U : u <= v
  <2>1. U \subseteq Nat /\ U # {}
    BY <1>1, <1>2
  <2> HIDE DEF U
  <2> QED BY <2>1, Lowest
<1> DEFINE I == {i \in DOMAIN offers : offers[i].unit = u}
<1>4. PICK i \in I : \A j \in I : i <= j
  <2>1. I \subseteq Nat /\ I # {}
    BY <1>1, <1>3
  <2> HIDE DEF I
  <2> QED BY <2>1, Lowest
<1>5. i \in DOMAIN offers /\ best(i)
  <2>1. ASSUME NEW j \in DOMAIN offers
        PROVE  offers[i].unit < offers[j].unit \/ (offers[i].unit = offers[j].unit /\ i <= j)
    <3>1. u <= offers[j].unit /\ offers[i].unit = u /\ offers[j].unit \in Nat /\ u \in Nat
      BY <1>2, <1>3, <1>4
    <3>2. offers[j].unit = u => i <= j
      BY <1>4
    <3> QED BY <3>1, <3>2
  <2> QED BY <2>1, <1>4
<1>6. PICK k \in DOMAIN offers : best(k) /\ Cheapest(offers) = offers[k]
  <2> HIDE DEF best
  <2>1. Cheapest(offers) = offers[CHOOSE n \in DOMAIN offers : best(n)]
    BY DEF Cheapest, best
  <2> QED BY <1>5, <2>1
<1> QED BY <1>1, <1>2, <1>6

(* The price of one side, by rules and by the contractor percent, is never *)
(* above its base and has the percent it is kept with.                     *)
LEMMA SideIsTrue ==
  ASSUME NEW base \in Nat, NEW source \in Lists, NEW contractor \in 0..100, NEW rules \in Seq(RuleSet), NEW qty \in Nat \ {0}
  PROVE  Side(base, source, contractor, rules, qty) \in TrueLines
(* What stacked rules offer is a true offer: its percent, if it has one,   *)
(* is the one of its price.                                                *)
<1>StackIsTrue.
    ASSUME NEW whole \in Nat, NEW best \in Nat, NEW tiers \in Seq(TierSet), tiers # <<>>
    PROVE  StackOffer(whole, best, tiers) \in TrueOffers(whole)
  <2> USE <1>StackIsTrue
  (* Rules that stack, one after another, end with a price.                  *)
  <2>InTurnLaws.
      ASSUME NEW price \in Nat
      PROVE  /\ InTurn(price, <<>>) = price
             /\ \A s \in Seq(TierSet) : InTurn(price, s) \in Nat
    <3> DEFINE F == [p \in Nat \X TierSet |-> Discounted(p[1], p[2])]
    <3>1. F \in [Nat \X TierSet -> Nat] /\ \A a \in Nat, x \in TierSet : F[<<a, x>>] = Discounted(a, x)
      BY DiscountedIs
    <3> HIDE DEF F
    <3>2. PICK H : FoldedBy(H, F, Nat, TierSet, price)
      <4>1. price \in Nat
        OBVIOUS
      <4> QED BY <3>1, <4>1, FoldLaws
    <3>3. ASSUME NEW s \in Seq(TierSet) PROVE InTurn(price, s) = H[s]
      <4> DEFINE Is(f) == f = [d \in SUBSET DOMAIN s |-> IF d = {} THEN price ELSE Discounted(f[d \ {Max(d)}], s[Max(d)])]
      <4>1. InTurn(price, s) = (CHOOSE f : Is(f))[DOMAIN s]
        BY DEF InTurn, FoldLeft, MapThenFoldSet
      <4>2. \A d \in SUBSET DOMAIN s : d # {} => s[Max(d)] \in TierSet /\ d \ {Max(d)} \in SUBSET DOMAIN s
        BY <3>2 DEF FoldedBy
      <4>3. PICK g \in [SUBSET DOMAIN s -> Nat] : Folds(g, F, Nat, price, s)
        BY <3>2 DEF FoldedBy
      <4>4. Is(g)
        <5>1. ASSUME NEW d \in SUBSET DOMAIN s PROVE g[d] = IF d = {} THEN price ELSE Discounted(g[d \ {Max(d)}], s[Max(d)])
          BY <3>1, <4>2, <4>3 DEF Folds
        <5> QED BY <4>3, <5>1
      <4>5. PICK f : f = (CHOOSE h : Is(h)) /\ Is(f)
        BY <4>4
      <4>6. Folds(f, F, Nat, price, s)
        <5>1. ASSUME NEW d \in SUBSET DOMAIN s PROVE f[d] = IF d = {} THEN price ELSE Discounted(f[d \ {Max(d)}], s[Max(d)])
          BY <4>5
        <5> QED BY <3>1, <4>2, <5>1 DEF Folds
      <4>7. InTurn(price, s) = f[DOMAIN s]
        BY <4>1, <4>5
      <4> QED BY <3>2, <4>6, <4>7 DEF FoldedBy
    <3>4. ASSUME NEW s \in Seq(TierSet), NEW x \in TierSet PROVE InTurn(price, Append(s, x)) = Discounted(InTurn(price, s), x)
      <4>1. Append(s, x) \in Seq(TierSet)
        OBVIOUS
      <4>2. H[Append(s, x)] = F[<<H[s], x>>] /\ H[s] \in Nat
        BY <3>2 DEF FoldedBy
      <4>3. InTurn(price, Append(s, x)) = H[Append(s, x)] /\ InTurn(price, s) = H[s]
        BY <3>3, <4>1
      <4> QED BY <3>1, <4>2, <4>3
    <3>5. InTurn(price, <<>>) = price
      <4>1. <<>> \in Seq(TierSet)
        OBVIOUS
      <4> QED BY <3>2, <3>3, <4>1 DEF FoldedBy
    <3>6. \A s \in Seq(TierSet) : InTurn(price, s) \in Nat
      BY <3>2, <3>3 DEF FoldedBy
    <3> QED
      BY <3>4, <3>5, <3>6
  <2> DEFINE P == {tier \in Range(tiers) : tier.type = "PERCENT"}
             A == {tier \in Range(tiers) : tier.type # "PERCENT"}
             percents == Chosen(tiers, P)
             amounts == Chosen(tiers, A)
             values == [i \in DOMAIN percents |-> percents[i].value]
             sum == Less(100, SumOf(values))
             start == IF sum > 0 THEN PercentOff(whole, sum) ELSE best
  <2>1. percents \in Seq(TierSet) /\ Range(percents) = P /\ amounts \in Seq(TierSet) /\ Range(amounts) = A
    <3>1. Range(tiers) \cap P = P /\ Range(tiers) \cap A = A
      OBVIOUS
    <3> HIDE DEF P, A
    <3> QED BY <3>1, ChosenIs
  <2>2. StackOffer(whole, best, tiers) = [unit |-> InTurn(start, amounts), pct |-> IF amounts = <<>> THEN sum ELSE Unknown]
    BY DEF StackOffer, Offer
  <2> HIDE DEF percents, amounts
  <2>3. values \in Seq(Nat) /\ DOMAIN values = DOMAIN percents /\ \A i \in DOMAIN values : values[i] >= 1
    <3>1. DOMAIN percents = 1..Len(percents) /\ Len(percents) \in Nat
      BY <2>1
    <3>2. \A i \in DOMAIN percents : percents[i].value \in Nat /\ percents[i].value >= 1
      BY <2>1 DEF TierSet
    <3>3. values \in [1..Len(percents) -> Nat]
      BY <3>1, <3>2
    <3>4. values \in Seq(Nat)
      <4> HIDE DEF values
      <4> QED BY <3>1, <3>3
    <3> QED BY <3>1, <3>2, <3>4
  <2> HIDE DEF values
  <2>4. SumOf(values) \in Nat
    BY <2>3, SumsGrow
  <2>5. sum \in 0..100
    <3>1. PICK n \in Nat : n = SumOf(values)
      BY <2>4
    <3>2. Less(100, n) \in 0..100
      BY DEF Less
    <3> QED BY <3>1, <3>2
  <2>6. percents # <<>> => sum > 0
    <3>0. SumOf(values) > 0 => sum > 0
      <4>1. PICK n \in Nat : n = SumOf(values)
        BY <2>4
      <4>2. n > 0 => Less(100, n) > 0
        BY DEF Less
      <4> QED BY <4>1, <4>2
    <3>1. SUFFICES ASSUME percents # <<>> PROVE SumOf(values) > 0
      BY <3>0
    <3>2. PICK n \in Nat : n = Len(values) - 1 /\ Len(values) = n + 1
      <4>1. Len(values) \in Nat /\ DOMAIN values = 1..Len(values)
        BY <2>3
      <4>2. 1 \in DOMAIN percents
        BY <2>1, <3>1
      <4>3. Len(values) - 1 \in Nat /\ Len(values) = (Len(values) - 1) + 1
        BY <2>3, <4>1, <4>2
      <4> QED BY <4>3
    <3> DEFINE front == [i \in 1..n |-> values[i]]
    <3>3. PICK x \in Nat : x = values[n + 1] /\ x >= 1
      <4>1. DOMAIN values = 1..Len(values) /\ n + 1 \in 1..Len(values)
        BY <2>3, <3>2
      <4>2. values[n + 1] \in Nat
        BY <2>3, <4>1
      <4> QED BY <2>3, <4>1, <4>2
    <3>4. front \in Seq(Nat)
      BY <2>3, <3>2
    <3>5. values = Append(front, x)
      BY <2>3, <3>2, <3>3
    <3> HIDE DEF front
    <3>6. front \in Seq(Int) /\ x \in Int /\ SumOf(front) \in Nat
      BY <3>4, SumsGrow
    <3>7. SumOf(values) = SumOf(front) + x
      BY <3>5, <3>6, SumLaws
    <3> QED BY <3>3, <3>6, <3>7
  <2>7. PercentOff(whole, sum) \in Nat
    <3> HIDE DEF sum
    <3>1. PICK p \in 0..100 : p = sum
      BY <2>5
    <3>2. PercentOff(whole, p) = RoundDiv(whole * (100 - p), 100) /\ RoundDiv(whole * (100 - p), 100) \in 0..whole
      BY PercentIs
    <3> QED BY <3>1, <3>2
  <2>8. start \in Nat
    BY <2>7
  <2> HIDE DEF sum, start
  <2>9. CASE amounts = <<>>
    <3>1. percents # <<>>
      <4>1. tiers[1] \in Range(tiers) /\ A = {}
        BY <2>1, <2>9 DEF Range
      <4>2. Range(percents) # {}
        BY <2>1, <4>1
      <4> QED BY <4>2 DEF Range
    <3>2. start = PercentOff(whole, sum)
      BY <2>6, <3>1 DEF start
    <3>3. InTurn(start, amounts) = start
      BY <2>8, <2>9, <2>InTurnLaws
    <3> QED BY <2>2, <2>5, <2>7, <2>9, <3>2, <3>3 DEF TrueOffers
  <2>10. CASE amounts # <<>>
    <3>1. InTurn(start, amounts) \in Nat
      BY <2>1, <2>8, <2>InTurnLaws
    <3> QED BY <2>2, <2>10, <3>1 DEF TrueOffers, Unknown
  <2> QED BY <2>9, <2>10
(* The tiers of the rules that match a quantity are tiers of rules.        *)
<1>TiersAre.
    ASSUME NEW listed \in Seq(RuleSet), NEW mode, NEW count \in Nat
    PROVE  TiersOf(listed, mode, count) \in Seq(TierSet)
  <2> DEFINE T == {rule \in Range(listed) : rule.mode = mode /\ Reached(rule, count) # {}}
             hits == Chosen(listed, T)
  <2>1. hits \in Seq(RuleSet) /\ Range(hits) = Range(listed) \cap T
    BY ChosenIs
  <2>2. ASSUME NEW i \in DOMAIN hits PROVE TierOf(hits[i], count) \in TierSet
    <3>1. PICK r \in RuleSet : r = hits[i] /\ Reached(r, count) # {}
      <4>1. hits[i] \in RuleSet /\ hits[i] \in Range(hits)
        <5> HIDE DEF hits
        <5> QED BY <2>1, <2>2 DEF Range
      <4>2. hits[i] \in T
        BY <2>1, <4>1
      <4> QED BY <4>1, <4>2
    <3> DEFINE M == {count - t.min : t \in Reached(r, count)}
    <3>2. \A t \in Reached(r, count) : t \in TierSet /\ t.min \in Nat /\ count >= t.min
      <4>1. r.tiers \subseteq TierSet
        BY DEF RuleSet
      <4> QED BY <4>1 DEF Reached, TierSet
    <3>3. M \subseteq Nat /\ M # {}
      <4>1. PICK t \in Reached(r, count) : TRUE
        BY <3>1
      <4>2. count - t.min \in M
        OBVIOUS
      <4>3. \A t1 \in Reached(r, count) : count - t1.min \in Nat
        BY <3>2
      <4> QED BY <4>2, <4>3
    <3>4. PICK m \in M : \A n \in M : m <= n
      <4> HIDE DEF M
      <4> QED BY <3>3, Lowest
    <3>5. PICK t \in Reached(r, count) : m = count - t.min
      BY <3>4
    <3>6. \A u \in Reached(r, count) : u.min <= t.min
      <4>1. \A u \in Reached(r, count) : count - t.min <= count - u.min
        BY <3>4, <3>5
      <4> QED BY <3>2, <4>1
    <3>7. TierOf(r, count) \in Reached(r, count)
      BY <3>5, <3>6 DEF TierOf
    <3> QED BY <3>1, <3>2, <3>7
  <2>3. TiersOf(listed, mode, count) = [i \in DOMAIN hits |-> TierOf(hits[i], count)]
    BY DEF TiersOf
  <2> HIDE DEF hits
  <2>4. DOMAIN hits = 1..Len(hits) /\ Len(hits) \in Nat
    BY <2>1
  <2> QED BY <2>2, <2>3, <2>4
<1>0. ASSUME NEW t \in TierSet, t.type = "PERCENT" PROVE t.value \in 0..100
  <2>1. t.value \in Nat
    BY DEF TierSet
  <2>2. t.value <= 100
    BY <1>0 DEF TierSet
  <2>3. \A v \in Nat : v <= 100 => v \in 0..100
    OBVIOUS
  <2> QED BY <2>1, <2>2, <2>3
<1> DEFINE O == TrueOffers(base)
           each(tiers) == [i \in DOMAIN tiers |-> TierOffer(base, tiers[i])]
           plain == <<Offer(base, 0)>>
                    \o (IF contractor > 0 THEN <<Offer(RoundDiv(base * (100 - contractor), 100), Unknown)>> ELSE <<>>)
           ruled == RuleOffers(base, Cheapest(plain).unit, rules, qty)
           won == Cheapest(plain \o ruled)
<1>1. \A t \in TierSet : TierOffer(base, t) \in O
  <2>1. SUFFICES ASSUME NEW t \in TierSet PROVE TierOffer(base, t) \in O
    OBVIOUS
  <2>2. PICK d \in Nat : d = Discounted(base, t)
    BY DiscountedIs
  <2>3. CASE t.type = "PERCENT"
    <3>0. t.value \in 0..100
      BY <1>0, <2>3
    <3>1. PICK p \in 0..100 : p = t.value
      BY <3>0
    <3>2. d = PercentOff(base, p)
      BY <2>2, <2>3, <3>1, PercentIs DEF Discounted
    <3>3. TierOffer(base, t) = [unit |-> d, pct |-> p]
      BY <2>2, <2>3, <3>1 DEF TierOffer, Offer
    <3> QED BY <3>2, <3>3 DEF TrueOffers
  <2>4. CASE t.type # "PERCENT"
    <3>1. TierOffer(base, t) = [unit |-> d, pct |-> Unknown]
      BY <2>2, <2>4 DEF TierOffer, Offer
    <3> QED BY <3>1 DEF TrueOffers, Unknown
  <2> QED BY <2>3, <2>4
<1>2. PercentOff(base, 0) = base
  BY DEF PercentOff, RoundDiv
<1>3. plain \in Seq(O) /\ plain # <<>> /\ plain[1] = [unit |-> base, pct |-> 0]
  <2>1. Offer(base, 0) = [unit |-> base, pct |-> 0] /\ [unit |-> base, pct |-> 0] \in O
    BY <1>2 DEF Offer, TrueOffers
  <2>0. RoundDiv(base * (100 - contractor), 100) \in 0..base
    BY PercentIs
  <2>2. PICK r \in Nat : r = RoundDiv(base * (100 - contractor), 100)
    BY <2>0
  <2>3. Offer(r, Unknown) \in O
    BY DEF Offer, TrueOffers, Unknown
  <2> HIDE DEF O
  <2>4. PICK rest \in Seq(O) : rest = IF contractor > 0 THEN <<Offer(RoundDiv(base * (100 - contractor), 100), Unknown)>> ELSE <<>>
    <3>1. <<Offer(r, Unknown)>> \in Seq(O) /\ <<>> \in Seq(O)
      BY <2>3
    <3> QED BY <2>2, <3>1
  <2>5. PICK first \in Seq(O) : first = <<Offer(base, 0)>> /\ first # <<>> /\ first[1] = [unit |-> base, pct |-> 0]
    <3>1. PICK o \in O : o = Offer(base, 0) /\ o = [unit |-> base, pct |-> 0]
      BY <2>1
    <3>2. <<o>> \in Seq(O) /\ <<o>> # <<>> /\ <<o>>[1] = o
      OBVIOUS
    <3> QED BY <3>1, <3>2
  <2>6. first \o rest \in Seq(O) /\ first \o rest # <<>> /\ (first \o rest)[1] = first[1]
    BY <2>5
  <2>7. plain = first \o rest
    BY <2>4, <2>5
  <2> HIDE DEF plain
  <2> QED BY <2>5, <2>6, <2>7
<1> HIDE DEF plain, O
<1>4. PICK best \in Nat : best = Cheapest(plain).unit
  BY <1>3, CheapestIs DEF O, TrueOffers
<1>5. \A tiers \in Seq(TierSet) : each(tiers) \in Seq(O) /\ (tiers # <<>> => each(tiers) # <<>>)
  <2>1. SUFFICES ASSUME NEW tiers \in Seq(TierSet) PROVE each(tiers) \in Seq(O) /\ (tiers # <<>> => each(tiers) # <<>>)
    OBVIOUS
  <2>2. DOMAIN tiers = 1..Len(tiers) /\ Len(tiers) \in Nat /\ \A i \in 1..Len(tiers) : tiers[i] \in TierSet
    OBVIOUS
  <2>3. each(tiers) \in [1..Len(tiers) -> O] /\ DOMAIN each(tiers) = DOMAIN tiers
    BY <1>1, <2>2
  <2>4. tiers # <<>> => 1 \in DOMAIN tiers
    OBVIOUS
  <2> HIDE DEF each
  <2> QED BY <2>2, <2>3, <2>4
<1>6. ruled \in Seq(O)
  <2>1. PICK alone \in Seq(TierSet), maxOf \in Seq(TierSet), stack \in Seq(TierSet) :
          alone = TiersOf(rules, "BEST_PRICE", qty) /\ maxOf = TiersOf(rules, "MAX_OF", qty) /\ stack = TiersOf(rules, "STACK", qty)
    BY <1>TiersAre
  <2>2. ruled = each(alone) \o (IF maxOf = <<>> THEN <<>> ELSE <<Cheapest(each(maxOf))>>)
                            \o (IF stack = <<>> THEN <<>> ELSE <<StackOffer(base, best, stack)>>)
    BY <1>4, <2>1 DEF RuleOffers
  <2> HIDE DEF each, ruled
  <2>3. each(alone) \in Seq(O) /\ each(maxOf) \in Seq(O) /\ (maxOf # <<>> => each(maxOf) # <<>>)
    BY <1>5
  <2>4. maxOf # <<>> => Cheapest(each(maxOf)) \in O
    BY <2>3, CheapestIs DEF O
  <2>5. stack # <<>> => StackOffer(base, best, stack) \in O
    BY <1>StackIsTrue DEF O
  <2>6. (IF maxOf = <<>> THEN <<>> ELSE <<Cheapest(each(maxOf))>>) \in Seq(O)
    BY <2>4
  <2>7. (IF stack = <<>> THEN <<>> ELSE <<StackOffer(base, best, stack)>>) \in Seq(O)
    BY <2>5
  <2> QED BY <2>2, <2>3, <2>6, <2>7
<1> HIDE DEF ruled
<1>7. plain \o ruled \in Seq(O) /\ plain \o ruled # <<>> /\ 1 \in DOMAIN (plain \o ruled) /\ (plain \o ruled)[1] = plain[1]
  BY <1>3, <1>6
<1>8. won \in O /\ won.unit <= base
  <2> DEFINE offers == plain \o ruled
  <2>1. offers \in Seq(TrueOffers(base)) /\ offers # <<>> /\ 1 \in DOMAIN offers /\ offers[1].unit = base
    BY <1>3, <1>7 DEF O
  <2> HIDE DEF offers
  <2>2. Cheapest(offers) \in O /\ Cheapest(offers).unit <= base
    BY <2>1, CheapestIs DEF O
  <2> QED BY <2>2 DEF offers
<1>9. Side(base, source, contractor, rules, qty) = [base |-> base, unit |-> won.unit, pct |-> won.pct, qty |-> qty, source |-> source]
  BY DEF Side, plain, ruled
<1> HIDE DEF won
<1>10. PICK u \in 0..base, p \in -1..100 : u = won.unit /\ p = won.pct /\ (p # Unknown => u = PercentOff(base, p))
  <2>1. won.unit \in Nat /\ won.pct \in -1..100 /\ (won.pct # Unknown => won.unit = PercentOff(base, won.pct))
    BY <1>8 DEF O, TrueOffers
  <2>2. won.unit \in 0..base
    BY <1>8, <2>1
  <2> QED BY <2>1, <2>2
<1> QED BY <1>9, <1>10 DEF TrueLines, LineIsTrue

(* Rounding and counting boxes end with numbers that are not negative.     *)
LEMMA RoundsUp ==
  /\ \A n \in Nat, d \in Nat \ {0} : RoundDiv(n, d) \in Nat /\ CeilDiv(n, d) \in Nat
  /\ \A n \in Nat, d \in Nat \ {0} : \A i \in 1..CeilDiv(n, d) : n - (i - 1) * d \in Nat
<1>0. ASSUME NEW n \in Nat, NEW d \in Nat \ {0} PROVE n \div d \in Nat /\ d * (n \div d) <= n
  <2>1. n \div d \in Nat
    OBVIOUS
  <2>2. d * (n \div d) <= n
    OBVIOUS
  <2> QED BY <2>1, <2>2
<1>1. ASSUME NEW n \in Nat, NEW d \in Nat \ {0} PROVE RoundDiv(n, d) \in Nat /\ CeilDiv(n, d) \in Nat
  <2>1. 2 * n + d \in Nat /\ 2 * d \in Nat \ {0} /\ n + d - 1 \in Nat
    OBVIOUS
  <2> QED BY <1>0, <2>1 DEF RoundDiv, CeilDiv
<1>2. ASSUME NEW n \in Nat, NEW d \in Nat \ {0}, NEW i \in 1..CeilDiv(n, d) PROVE n - (i - 1) * d \in Nat
  <2>1. n + d - 1 \in Nat
    OBVIOUS
  <2>2. PICK c \in Nat : c = CeilDiv(n, d) /\ d * c <= n + d - 1
    BY <1>0, <2>1 DEF CeilDiv
  <2>3. PICK k \in Nat : k = c - i
    BY <2>2
  <2>4. d * c = d * k + d + (i - 1) * d /\ d * k >= 0 /\ (i - 1) * d \in Int
    BY <2>2, <2>3
  <2>5. PICK a, b, e \in Int : a = d * c /\ b = d * k /\ e = (i - 1) * d
    BY <2>2, <2>3
  <2>6. a = b + d + e /\ b >= 0 /\ a <= n + d - 1
    BY <2>2, <2>4, <2>5
  <2>7. n - e >= 0
    BY <2>6
  <2> QED BY <2>5, <2>7
<1> QED BY <1>1, <1>2

(* What is collected, by what the codes leave of the delivery.             *)
Collects(s, t, list, before, packaging) ==
  \A off, codes :
    /\ Totals(s, t, list, off, codes).before = before
    /\ Totals(s, t, list, off, codes).collected =
         More(0, ProductsOf(list) + ShippingPromos(before, off, codes).delivery + packaging
                 - ShippingPromos(before, off, codes).fixedOff)

(* A code with its place in the request is the same code.                  *)
LEMMA NumberedIs ==
  ASSUME NEW p \in PromoSet, NEW n \in Nat
  PROVE  /\ Numbered(p, n) \in PromoSet /\ Numbered(p, n).id = n
         /\ Numbered(p, n).type = p.type /\ Numbered(p, n).scope = p.scope /\ Numbered(p, n).value = p.value
         /\ Numbered(p, n).targets = p.targets /\ Numbered(p, n).sources = p.sources
<1> DEFINE R == [id : Nat, type : {"PERCENT", "FIXED", "GIFT"}, scope : {"PRODUCTS", "SHIPPING_ONLY", "PRODUCTS_AND_SHIPPING"},
                 value : Nat, stacks : BOOLEAN, min : Nat, targets : SUBSET Nat, sources : SUBSET Lists, eligible : Nat]
<1>1. p \in R /\ (p.type = "PERCENT" => p.value <= 100)
  BY DEF PromoSet
<1>2. PICK q : q = [p EXCEPT !.id = n]
  OBVIOUS
<1>3. q \in R /\ q.id = n /\ q.type = p.type /\ q.scope = p.scope /\ q.value = p.value /\ q.targets = p.targets /\ q.sources = p.sources
  BY <1>1, <1>2
<1>4. q \in PromoSet
  BY <1>1, <1>3 DEF PromoSet
<1>5. Numbered(p, n) = q
  BY <1>2 DEF Numbered
<1> QED BY <1>3, <1>4, <1>5

(* Every step of the quote, the order and the export keeps the invariant.  *)
LEMMA PriceInvHolds == PriceInv /\ [Next]_vars => PriceInv'
(* The codes in their order: after the only fixed one come the presents.   *)
<1>OrderedIs.
    ASSUME NEW list \in Seq(PromoSet)
    PROVE  /\ Ordered(list) \in Seq({Numbered(list[n], n) : n \in DOMAIN list})
           /\ \A n \in DOMAIN list : (\A m \in DOMAIN list : list[m].type = "FIXED" <=> m = n) =>
                \A i, j \in DOMAIN Ordered(list) :
                  Ordered(list)[i].type = "FIXED" /\ i < j => Ordered(list)[j].type = "GIFT"
  <2> DEFINE C == {Numbered(list[n], n) : n \in DOMAIN list}
             all == [n \in DOMAIN list |-> Numbered(list[n], n)]
             T1 == {p \in Range(all) : p.type = "PERCENT" /\ OnProducts(p)}
             T2 == {p \in Range(all) : p.type = "PERCENT" /\ ~OnProducts(p)}
             T3 == {p \in Range(all) : p.type = "FIXED"}
             T4 == {p \in Range(all) : p.type = "GIFT"}
             s1 == Chosen(all, T1)
             s2 == Chosen(all, T2)
             s3 == Chosen(all, T3)
             s4 == Chosen(all, T4)
  <2>1. DOMAIN list = 1..Len(list) /\ Len(list) \in Nat /\ \A n \in DOMAIN list : list[n] \in PromoSet /\ n \in Nat
    OBVIOUS
  <2>2. \A n \in DOMAIN list : Numbered(list[n], n).id = n /\ Numbered(list[n], n).type = list[n].type
    BY <2>1, NumberedIs
  <2>3. all \in Seq(C)
    <3>1. all \in [1..Len(list) -> C]
      BY <2>1
    <3> HIDE DEF all, C
    <3> QED BY <2>1, <3>1
  <2>4. \A i, j \in DOMAIN all : all[i] = all[j] => i = j
    BY <2>2
  <2>5. Range(all) = C
    BY DEF Range
  <2>6. Ordered(list) = s1 \o s2 \o s3 \o s4
    BY DEF Ordered
  <2> HIDE DEF all
  <2>7. ASSUME NEW T PROVE Chosen(all, T) \in Seq(C) /\ Range(Chosen(all, T)) = C \cap T /\ \A i \in DOMAIN Chosen(all, T) : Chosen(all, T)[i] \in T
    <3>1. Chosen(all, T) \in Seq(C) /\ Range(Chosen(all, T)) = C \cap T
      <4> HIDE DEF C
      <4> QED BY <2>3, <2>5, ChosenIs
    <3> QED BY <3>1 DEF Range
  <2>8. /\ s1 \in Seq(C) /\ s2 \in Seq(C) /\ s3 \in Seq(C) /\ s4 \in Seq(C)
        /\ \A i \in DOMAIN s1 : s1[i].type = "PERCENT"
        /\ \A i \in DOMAIN s2 : s2[i].type = "PERCENT"
        /\ \A i \in DOMAIN s3 : s3[i].type = "FIXED"
        /\ \A i \in DOMAIN s4 : s4[i].type = "GIFT"
    <3>1. s1 \in Seq(C) /\ \A i \in DOMAIN s1 : s1[i] \in T1
      <4> HIDE DEF T1, C
      <4> QED BY <2>7
    <3>2. s2 \in Seq(C) /\ \A i \in DOMAIN s2 : s2[i] \in T2
      <4> HIDE DEF T2, C
      <4> QED BY <2>7
    <3>3. s3 \in Seq(C) /\ \A i \in DOMAIN s3 : s3[i] \in T3
      <4> HIDE DEF T3, C
      <4> QED BY <2>7
    <3>4. s4 \in Seq(C) /\ \A i \in DOMAIN s4 : s4[i] \in T4
      <4> HIDE DEF T4, C
      <4> QED BY <2>7
    <3> HIDE DEF s1, s2, s3, s4, C
    <3> QED BY <3>1, <3>2, <3>3, <3>4
  <2>9. \A i, j \in DOMAIN s3 : s3[i] = s3[j] => i = j
    <3> HIDE DEF T3, C
    <3> QED BY <2>3, <2>4, ChosenIs
  <2> HIDE DEF s1, s2, s3, s4
  <2>10. Ordered(list) \in Seq(C)
    <3> HIDE DEF C
    <3> QED BY <2>6, <2>8
  <2>11. ASSUME NEW n \in DOMAIN list, \A m \in DOMAIN list : list[m].type = "FIXED" <=> m = n,
                NEW i \in DOMAIN Ordered(list), NEW j \in DOMAIN Ordered(list), Ordered(list)[i].type = "FIXED", i < j
         PROVE  Ordered(list)[j].type = "GIFT"
    <3>1. Len(s3) \in Nat /\ Len(s3) <= 1
      <4>1. \A k \in DOMAIN s3 : s3[k] = Numbered(list[n], n)
        <5>1. ASSUME NEW k \in DOMAIN s3 PROVE s3[k] = Numbered(list[n], n)
          <6>1. PICK m \in DOMAIN list : s3[k] = Numbered(list[m], m)
            BY <2>8
          <6>2. s3[k].type = "FIXED"
            BY <2>8
          <6>3. list[m].type = "FIXED"
            BY <2>2, <6>1, <6>2
          <6>4. m = n
            BY <2>11, <6>3
          <6> QED BY <6>1, <6>4
        <5> QED BY <5>1
      <4>2. \A k, l \in DOMAIN s3 : k = l
        BY <2>9, <4>1
      <4>3. DOMAIN s3 = 1..Len(s3) /\ Len(s3) \in Nat
        BY <2>8
      <4>4. Len(s3) > 1 => 1 \in DOMAIN s3 /\ 2 \in DOMAIN s3
        BY <4>3
      <4> QED BY <4>2, <4>3, <4>4
    <3> HIDE DEF C
    <3> DEFINE x == s1 \o s2
               y == x \o s3
               z == y \o s4
    <3>2. x \in Seq(C) /\ Len(x) \in Nat /\ \A k \in 1..Len(x) : x[k].type = "PERCENT"
      <4>1. x \in Seq(C) /\ Len(x) = Len(s1) + Len(s2) /\ Len(s1) \in Nat /\ Len(s2) \in Nat
            /\ DOMAIN s1 = 1..Len(s1) /\ DOMAIN s2 = 1..Len(s2)
        BY <2>8
      <4>2. \A k \in 1..Len(s1) : x[k] = s1[k]
        BY <2>8
      <4>3. \A k \in 1..Len(s2) : x[Len(s1) + k] = s2[k]
        BY <2>8
      <4> HIDE DEF x
      <4>4. ASSUME NEW k \in 1..Len(x) PROVE x[k].type = "PERCENT"
        <5>1. CASE k <= Len(s1)
          <6>1. k \in 1..Len(s1) /\ x[k] = s1[k]
            BY <4>1, <4>2, <5>1
          <6> QED BY <2>8, <4>1, <6>1
        <5>2. CASE k > Len(s1)
          <6>1. k - Len(s1) \in 1..Len(s2) /\ Len(s1) + (k - Len(s1)) = k
            BY <4>1, <5>2
          <6>2. x[k] = s2[k - Len(s1)]
            BY <4>3, <6>1
          <6> QED BY <2>8, <4>1, <6>1, <6>2
        <5> QED BY <4>1, <5>1, <5>2
      <4> QED BY <4>1, <4>4
    <3> HIDE DEF x
    <3>3. y \in Seq(C) /\ Len(y) \in Nat /\ Len(y) <= Len(x) + 1 /\ \A k \in 1..Len(x) : y[k].type = "PERCENT"
      <4>1. y \in Seq(C) /\ Len(y) = Len(x) + Len(s3)
        BY <2>8, <3>2
      <4>2. \A k \in 1..Len(x) : y[k] = x[k]
        BY <2>8, <3>2
      <4> HIDE DEF y
      <4> QED BY <3>1, <3>2, <4>1, <4>2
    <3> HIDE DEF y
    <3>4. /\ DOMAIN z = 1..Len(z) /\ Len(z) = Len(y) + Len(s4) /\ Len(s4) \in Nat /\ DOMAIN s4 = 1..Len(s4)
          /\ \A k \in 1..Len(y) : z[k] = y[k]
          /\ \A k \in 1..Len(s4) : z[Len(y) + k] = s4[k]
      BY <2>8, <3>3
    <3>5. ASSUME NEW k \in DOMAIN z, k > Len(y) PROVE z[k].type = "GIFT"
      <4> HIDE DEF z
      <4>1. k - Len(y) \in 1..Len(s4) /\ Len(y) + (k - Len(y)) = k
        BY <3>3, <3>4, <3>5
      <4>2. z[k] = s4[k - Len(y)]
        BY <3>4, <4>1
      <4> QED BY <2>8, <3>4, <4>1, <4>2
    <3>6. z = Ordered(list)
      BY <2>6 DEF x, y
    <3> HIDE DEF z
    <3>7. i \in 1..Len(z) /\ j \in 1..Len(z) /\ Len(z) \in Nat
      BY <3>3, <3>4, <3>6
    <3>8. ~(i <= Len(x))
      <4>1. SUFFICES ASSUME i <= Len(x) PROVE FALSE
        OBVIOUS
      <4>2. i \in 1..Len(x)
        BY <3>2, <3>7, <4>1
      <4>3. y[i].type = "PERCENT"
        BY <3>3, <4>2
      <4>4. CASE i <= Len(y)
        <5>1. i \in 1..Len(y)
          BY <3>3, <3>7, <4>4
        <5> QED BY <2>11, <3>4, <3>6, <4>3, <5>1
      <4>5. CASE i > Len(y)
        BY <2>11, <3>5, <3>6, <4>5
      <4> QED BY <3>3, <3>7, <4>4, <4>5
    <3>9. j > Len(y)
      BY <2>11, <3>2, <3>3, <3>7, <3>8
    <3> QED BY <3>5, <3>6, <3>9
  <2> QED BY <2>10, <2>11
(* A percent code leaves a line true, whether it improves it or not.       *)
<1>PercentStaysTrue.
    ASSUME NEW line \in TrueLines, NEW promo \in PromoSet, promo.type = "PERCENT"
    PROVE  WithPercent(line, promo) \in TrueLines
  <2> USE <1>PercentStaysTrue
  <2>1. PICK base \in Nat, unit \in Nat, pct \in -1..100 :
          /\ base = line.base /\ unit = line.unit /\ pct = line.pct
          /\ unit \in 0..base /\ (pct # Unknown => unit = PercentOff(base, pct))
    <3>1. line.base \in Nat /\ line.pct \in -1..100 /\ line.unit \in 0..line.base
      BY DEF TrueLines, LineIsTrue
    <3>2. line.pct # Unknown => line.unit = PercentOff(line.base, line.pct)
      BY DEF TrueLines, LineIsTrue
    <3>3. line.unit \in Nat
      BY DEF TrueLines
    <3> QED BY <3>1, <3>2, <3>3
  <2>2. PICK value \in 0..100 : value = promo.value
    BY DEF PromoSet
  <2>3. PICK sum \in 0..100 : sum = Less(100, More(0, line.pct) + promo.value)
    <3>1. PICK m \in 0..100 : m = More(0, line.pct)
      BY <2>1 DEF More
    <3>2. Less(100, m + value) \in 0..100
      BY DEF Less
    <3> QED BY <2>2, <3>1, <3>2
  <2>4. \A p \in 0..100 : PercentOff(base, p) \in 0..base
    <3>1. ASSUME NEW p \in 0..100 PROVE PercentOff(base, p) \in 0..base
      <4>1. PercentOff(base, p) = RoundDiv(base * (100 - p), 100) /\ RoundDiv(base * (100 - p), 100) \in 0..base
        BY PercentIs
      <4> QED BY <4>1
    <3> QED BY <3>1
  <2>5. PICK off \in 0..base, both \in 0..base : off = PercentOff(base, value) /\ both = PercentOff(base, sum)
    BY <2>4
  <2>6. ASSUME NEW u \in 0..base, NEW p \in -1..100, p # Unknown => u = PercentOff(base, p)
        PROVE  [line EXCEPT !.unit = u, !.pct = p] \in TrueLines
    <3>1. PICK l : l = [line EXCEPT !.unit = u, !.pct = p]
      OBVIOUS
    <3>2. l \in [base : Nat, unit : Nat, pct : -1..100, qty : Nat \ {0}, source : Lists] /\ l.base = base /\ l.unit = u /\ l.pct = p
      <4>1. line \in [base : Nat, unit : Nat, pct : -1..100, qty : Nat \ {0}, source : Lists] /\ line.base = base /\ u \in Nat
        BY <2>1 DEF TrueLines
      <4>2. l.base = base /\ l.unit = u /\ l.pct = p
        BY <3>1, <4>1
      <4> QED BY <3>1, <4>1, <4>2
    <3> QED BY <2>6, <3>1, <3>2 DEF TrueLines, LineIsTrue
  <2>7. ASSUME NEW u \in 0..base, pct = Unknown PROVE [line EXCEPT !.unit = u] \in TrueLines
    <3>1. PICK l : l = [line EXCEPT !.unit = u]
      OBVIOUS
    <3>2. l \in [base : Nat, unit : Nat, pct : -1..100, qty : Nat \ {0}, source : Lists] /\ l.base = base /\ l.unit = u /\ l.pct = Unknown
      <4>1. line \in [base : Nat, unit : Nat, pct : -1..100, qty : Nat \ {0}, source : Lists] /\ line.base = base /\ line.pct = Unknown /\ u \in Nat
        BY <2>1, <2>7 DEF TrueLines
      <4>2. l.base = base /\ l.unit = u /\ l.pct = Unknown
        BY <3>1, <4>1
      <4> QED BY <3>1, <4>1, <4>2
    <3> QED BY <3>1, <3>2 DEF TrueLines, LineIsTrue
  <2>8. CASE promo.stacks /\ (line.pct # Unknown \/ line.unit = line.base)
    <3>1. WithPercent(line, promo) = [line EXCEPT !.unit = both, !.pct = sum]
      BY <2>1, <2>3, <2>5, <2>8 DEF WithPercent
    <3>2. sum \in -1..100
      OBVIOUS
    <3>3. [line EXCEPT !.unit = both, !.pct = sum] \in TrueLines
      BY <2>5, <2>6, <3>2
    <3> QED BY <3>1, <3>3
  <2>9. CASE promo.stacks /\ line.pct = Unknown /\ line.unit # line.base
    <3>1. WithPercent(line, promo) = [line EXCEPT !.unit = Less(unit, off)]
      BY <2>1, <2>2, <2>5, <2>9 DEF WithPercent, TrueLines
    <3>2. Less(unit, off) \in 0..base
      BY DEF Less
    <3> QED BY <2>1, <2>7, <2>9, <3>1, <3>2
  <2>10. CASE ~promo.stacks /\ off < line.unit
    <3>1. WithPercent(line, promo) = [line EXCEPT !.unit = off, !.pct = value]
      BY <2>1, <2>2, <2>5, <2>10 DEF WithPercent
    <3>2. value \in -1..100
      OBVIOUS
    <3>3. [line EXCEPT !.unit = off, !.pct = value] \in TrueLines
      BY <2>5, <2>6, <3>2
    <3> QED BY <3>1, <3>3
  <2>11. CASE ~promo.stacks /\ ~(off < line.unit)
    BY <2>1, <2>2, <2>5, <2>11 DEF WithPercent
  <2> QED BY <2>8, <2>9, <2>10, <2>11
(* So is the cheaper of the two sides.                                     *)
<1>OffersAreTrue.
    ASSUME NEW cart \in CartSet, NEW item \in ItemSet
    PROVE  DualOffer(cart, item) \in TrueLines
  <2>1. /\ item.card \in Nat /\ item.sales \in Nat /\ item.scope \in Lists /\ item.qty \in Nat \ {0}
        /\ item.retail \in Seq(RuleSet) /\ item.wholesale \in Seq(RuleSet) /\ cart.contractor \in 0..100
    BY DEF CartSet, ItemSet
  <2>2. <<>> \in Seq(RuleSet) /\ 0 \in 0..100 /\ "ALL" \in Lists
    BY DEF Lists
  <2>3. Side(item.card, "ALL", 0, item.retail, item.qty) \in TrueLines
    BY <2>1, <2>2, SideIsTrue
  <2>4. Side(item.sales, item.scope, 0, IF item.scope = "COMPANY" THEN <<>> ELSE item.wholesale, item.qty) \in TrueLines
    BY <2>1, <2>2, SideIsTrue
  <2>5. Side(item.card, "ALL", cart.contractor, item.wholesale, item.qty) \in TrueLines
    BY <2>1, <2>2, SideIsTrue
  <2> QED BY <2>3, <2>4, <2>5 DEF DualOffer
<1> SUFFICES ASSUME PriceInv, [Next]_vars PROVE PriceInv'
  OBVIOUS
<1> USE DEF PriceInv
<1>1. /\ basket \in CartSet /\ promos \in Seq(PromoSet) /\ lines \in Seq(TrueLines) /\ todo \in Seq(Copies)
      /\ basket \in Carts /\ promos \in Promos /\ shop \in Shops /\ tax \in Taxes
  BY PriceAssumption DEF LinesAreTrue
<1>2. \A n \in DOMAIN promos : promos[n] \in PromoSet /\ n \in Nat
  BY <1>1
<1>3. \A n \in DOMAIN promos :
        /\ Numbered(promos[n], n) \in PromoSet /\ Numbered(promos[n], n).id = n
        /\ Numbered(promos[n], n).type = promos[n].type /\ Numbered(promos[n], n).scope = promos[n].scope
        /\ Numbered(promos[n], n).value = promos[n].value /\ Numbered(promos[n], n).targets = promos[n].targets
        /\ Numbered(promos[n], n).sources = promos[n].sources
  BY <1>2, NumberedIs
<1> DEFINE Looking == stage = "quoting" /\ stage' = "quoting" /\ todo # <<>> /\ todo' = Tail(todo) /\ UNCHANGED <<input, order>>
           promo == Head(todo)
<1>4. todo # <<>> =>
        /\ promo \in Copies /\ promo = todo[1] /\ 1 \in DOMAIN todo
        /\ Tail(todo) \in Seq(Copies)
        /\ \A i \in DOMAIN Tail(todo) : i + 1 \in DOMAIN todo /\ Tail(todo)[i] = todo[i + 1] /\ 1 < i + 1
        /\ \A i, j \in DOMAIN Tail(todo) : i < j => i + 1 < j + 1
  <2> SUFFICES ASSUME todo # <<>> PROVE
        /\ promo \in Copies /\ promo = todo[1] /\ 1 \in DOMAIN todo
        /\ Tail(todo) \in Seq(Copies)
        /\ \A i \in DOMAIN Tail(todo) : i + 1 \in DOMAIN todo /\ Tail(todo)[i] = todo[i + 1] /\ 1 < i + 1
        /\ \A i, j \in DOMAIN Tail(todo) : i < j => i + 1 < j + 1
    OBVIOUS
  <2> HIDE DEF Copies
  <2>1. DOMAIN todo = 1..Len(todo) /\ Len(todo) \in Nat /\ Len(todo) >= 1
    BY <1>1
  <2>2. Tail(todo) \in Seq(Copies) /\ Len(Tail(todo)) = Len(todo) - 1
    BY <1>1
  <2>3. DOMAIN Tail(todo) = 1..(Len(todo) - 1)
    BY <2>1, <2>2
  <2>4. \A i \in 1..(Len(todo) - 1) : Tail(todo)[i] = todo[i + 1]
    BY <1>1
  <2>5. promo = todo[1] /\ promo \in Copies
    BY <1>1, <2>1
  <2> QED BY <2>1, <2>2, <2>3, <2>4, <2>5
<1>5. todo # <<>> => promo \in PromoSet /\ promo.id \in DOMAIN promos /\ promo = Numbered(promos[promo.id], promo.id)
                     /\ promo.type = promos[promo.id].type
  BY <1>3, <1>4 DEF Copies
<1>6. Looking => todo' \in Seq(Copies') /\ OrderCounts'
  <2>1. Looking => Copies' = Copies
    BY DEF Copies, input
  <2>2. Looking => OrderCounts'
    BY DEF OrderCounts, Stored
  <2> QED BY <1>4, <2>1, <2>2
<1>7. Looking /\ lines' \in Seq(TrueLines) => LinesAreTrue'
  BY <1>1, <1>6 DEF LinesAreTrue, input
(* A code that is not the fixed one leaves it spent or unspent.            *)
<1>8. ASSUME Looking, NEW n \in DOMAIN promos, n \notin used, n \notin used', OnlyFixed(n), Unspent,
             fixedOff' = fixedOff, awaiting' \in Seq(PercentCodes)
      PROVE  Unspent'
  BY <1>4, <1>8 DEF Unspent
<1>9. ASSUME Looking, NEW n \in DOMAIN promos, Spent(promos[n]), lines' = lines, fixedOff' = fixedOff, awaiting' = awaiting
      PROVE  Spent(promos[n])'
  <2>1. OnlyGifts(todo')
    BY <1>4, <1>9 DEF Spent, OnlyGifts
  <2>2. promos' = promos
    BY <1>9 DEF input
  <2>3. Eligible(promos[n])' = Eligible(promos[n])
    BY <1>9, <2>2 DEF Eligible, EligibleLines, Targeted
  <2> QED BY <1>9, <2>1, <2>2, <2>3 DEF Spent
<1>10. Looking => \A n \in DOMAIN promos : OnlyFixed(n)' <=> OnlyFixed(n)
  BY DEF OnlyFixed, input
<1>11. Looking => promos' = promos /\ DOMAIN promos' = DOMAIN promos
  BY DEF input
<1>12. CASE Quote
  <2>1. stage = "cart" /\ stage' = "quoting" /\ todo' = Ordered(promos) /\ UNCHANGED <<input, used, fixedOff, awaiting>>
        /\ lines' = [i \in DOMAIN basket.items |-> DualOffer(basket, basket.items[i])]
    BY <1>12 DEF Quote
  <2>2. lines' \in Seq(TrueLines)
    <3>1. basket.items \in Seq(ItemSet)
      BY <1>1 DEF CartSet
    <3>2. DOMAIN basket.items = 1..Len(basket.items) /\ Len(basket.items) \in Nat
          /\ \A i \in DOMAIN basket.items : basket.items[i] \in ItemSet
      BY <3>1
    <3>3. \A i \in DOMAIN basket.items : DualOffer(basket, basket.items[i]) \in TrueLines
      BY <1>1, <3>2, <1>OffersAreTrue
    <3>4. lines' \in [1..Len(basket.items) -> TrueLines]
      BY <2>1, <3>2, <3>3
    <3> QED BY <3>2, <3>4
  <2>3. promos' = promos /\ Copies' = Copies /\ \A n \in DOMAIN promos : OnlyFixed(n)' <=> OnlyFixed(n)
    BY <2>1 DEF Copies, input, OnlyFixed
  <2>4. todo' \in Seq(Copies)
    BY <1>1, <2>1, <1>OrderedIs DEF Copies
  <2>5. LinesAreTrue'
    BY <1>1, <2>1, <2>2, <2>3, <2>4 DEF LinesAreTrue, input
  <2>6. used = {} /\ fixedOff = 0 /\ awaiting = <<>> /\ <<>> \in Seq(PercentCodes)
    BY <2>1 DEF OrderCounts
  <2>7. ASSUME NEW n \in DOMAIN promos, OnlyFixed(n) PROVE n \notin used' /\ Unspent'
    <3>1. \A i, j \in DOMAIN Ordered(promos) : Ordered(promos)[i].type = "FIXED" /\ i < j => Ordered(promos)[j].type = "GIFT"
      BY <1>1, <2>7, <1>OrderedIs DEF OnlyFixed
    <3> QED BY <2>1, <2>6, <3>1 DEF Unspent
  <2>8. FixedCounts'
    BY <2>3, <2>7 DEF FixedCounts
  <2>9. OrderCounts'
    BY <2>1 DEF OrderCounts, Stored
  <2> QED BY <2>5, <2>8, <2>9
<1>13. CASE PassOver
  <2>1. Looking /\ UNCHANGED <<lines, used, fixedOff, awaiting>>
    BY <1>13 DEF PassOver
  <2>2. FixedCounts'
    <3>1. ASSUME NEW n \in DOMAIN promos, OnlyFixed(n), n \notin used PROVE Unspent'
      BY <1>8, <2>1, <3>1 DEF FixedCounts, Unspent
    <3>2. ASSUME NEW n \in DOMAIN promos, OnlyFixed(n), n \in used PROVE Spent(promos[n])'
      BY <1>9, <2>1, <3>2 DEF FixedCounts
    <3> QED BY <1>10, <1>11, <2>1, <3>1, <3>2 DEF FixedCounts
  <2> QED BY <1>1, <1>6, <1>7, <2>1, <2>2
<1>14. CASE PercentOnProducts
  <2>1. Looking /\ promo.type = "PERCENT" /\ fixedOff' = fixedOff
        /\ used' \in {used, used \cup {promo.id}} /\ awaiting' \in {awaiting, Append(awaiting, promo)}
        /\ lines' = [i \in DOMAIN lines |-> IF i \in EligibleLines(promo) THEN WithPercent(lines[i], promo) ELSE lines[i]]
    BY <1>14 DEF PercentOnProducts, Looks
  <2>2. lines' \in Seq(TrueLines)
    <3>1. DOMAIN lines = 1..Len(lines) /\ Len(lines) \in Nat /\ \A i \in DOMAIN lines : lines[i] \in TrueLines
      BY <1>1
    <3>2. \A i \in DOMAIN lines : WithPercent(lines[i], promo) \in TrueLines
      BY <1>5, <2>1, <3>1, <1>PercentStaysTrue
    <3>3. lines' \in [1..Len(lines) -> TrueLines]
      BY <2>1, <3>1, <3>2
    <3> QED BY <3>1, <3>3
  <2>3. ASSUME NEW n \in DOMAIN promos, OnlyFixed(n)
        PROVE  n \notin used /\ n \notin used' /\ Unspent'
    <3>1. n \notin used
      BY <1>4, <2>1, <2>3 DEF FixedCounts, Spent, OnlyGifts
    <3>2. promo.id # n
      BY <1>5, <2>1, <2>3 DEF OnlyFixed
    <3>3. Unspent
      BY <2>3, <3>1 DEF FixedCounts
    <3>4. promo \in PercentCodes
      BY <1>5, <2>1 DEF PercentCodes
    <3>5. awaiting' \in Seq(PercentCodes)
      BY <2>1, <3>3, <3>4 DEF Unspent
    <3> QED BY <1>8, <2>1, <2>3, <3>1, <3>2, <3>3, <3>5
  <2>4. FixedCounts'
    BY <1>10, <1>11, <2>1, <2>3 DEF FixedCounts
  <2> QED BY <1>6, <1>7, <2>1, <2>2, <2>4
<1>15. CASE PercentOnShipping
  <2>1. Looking /\ promo.type = "PERCENT" /\ UNCHANGED <<lines, fixedOff>>
        /\ used' \in {used, used \cup {promo.id}} /\ awaiting' \in {awaiting, Append(awaiting, promo)}
    BY <1>15 DEF PercentOnShipping, Looks
  <2>3. ASSUME NEW n \in DOMAIN promos, OnlyFixed(n)
        PROVE  n \notin used /\ n \notin used' /\ Unspent'
    <3>1. n \notin used
      BY <1>4, <2>1, <2>3 DEF FixedCounts, Spent, OnlyGifts
    <3>2. promo.id # n
      BY <1>5, <2>1, <2>3 DEF OnlyFixed
    <3>3. Unspent
      BY <2>3, <3>1 DEF FixedCounts
    <3>4. promo \in PercentCodes
      BY <1>5, <2>1 DEF PercentCodes
    <3>5. awaiting' \in Seq(PercentCodes)
      BY <2>1, <3>3, <3>4 DEF Unspent
    <3> QED BY <1>8, <2>1, <2>3, <3>1, <3>2, <3>3, <3>5
  <2>4. FixedCounts'
    BY <1>10, <1>11, <2>1, <2>3 DEF FixedCounts
  <2> QED BY <1>1, <1>6, <1>7, <2>1, <2>4
<1>16. CASE FixedOff
  <2> DEFINE goods == IF OnProducts(promo) THEN Eligible(promo) ELSE 0
             takes == IF OnDelivery(promo) THEN Ships(promo) ELSE goods > 0
  <2>1. Looking /\ promo.type = "FIXED" /\ lines' = lines
        /\ used' = (IF takes THEN used \cup {promo.id} ELSE used)
        /\ fixedOff' = (IF takes /\ ~OnDelivery(promo) THEN fixedOff + Less(promo.value, goods) ELSE fixedOff)
        /\ awaiting' = (IF takes /\ OnDelivery(promo) THEN Append(awaiting, [promo EXCEPT !.eligible = goods]) ELSE awaiting)
    BY <1>16 DEF FixedOff, Looks
  <2>2. ASSUME NEW n \in DOMAIN promos, OnlyFixed(n)
        PROVE  n = promo.id /\ n \notin used /\ Unspent /\ promo = Numbered(promos[n], n)
    <3>1. n \notin used
      BY <1>4, <2>1, <2>2 DEF FixedCounts, Spent, OnlyGifts
    <3>2. promo.id = n
      BY <1>5, <2>1, <2>2 DEF OnlyFixed
    <3>3. promo = Numbered(promos[n], n)
      BY <1>5, <2>1, <3>2
    <3>4. Unspent
      BY <2>2, <3>1 DEF FixedCounts
    <3> QED BY <3>1, <3>2, <3>3, <3>4
  <2>3. Looking /\ promos' = promos
    BY <2>1, <1>11
  <2>4. Eligible(promo) \in Nat
    <3> DEFINE terms == [i \in DOMAIN lines |-> IF i \in EligibleLines(promo) THEN lines[i].unit * lines[i].qty ELSE 0]
    <3>1. DOMAIN lines = 1..Len(lines) /\ Len(lines) \in Nat /\ \A i \in DOMAIN lines : lines[i] \in TrueLines
      BY <1>1
    <3>2. \A i \in DOMAIN lines : lines[i].unit \in Nat /\ lines[i].qty \in Nat
      BY <3>1 DEF TrueLines
    <3>3. terms \in [1..Len(lines) -> Nat]
      BY <3>1, <3>2
    <3>4. Eligible(promo) = SumOf(terms)
      BY DEF Eligible
    <3> HIDE DEF terms
    <3> QED BY <3>1, <3>3, <3>4, SumsGrow
  <2>5. ASSUME NEW n \in DOMAIN promos, OnlyFixed(n)
        PROVE  /\ n \notin used' => Unspent'
               /\ n \in used' => Spent(promos[n])'
    <3>1. n = promo.id /\ n \notin used /\ Unspent /\ promo = Numbered(promos[n], n)
      BY <2>2, <2>5
    <3>2. /\ promo \in PromoSet /\ promo.scope = promos[n].scope /\ promo.value = promos[n].value
          /\ promo.targets = promos[n].targets /\ promo.sources = promos[n].sources
      BY <1>3, <3>1
    <3>3. /\ Eligible(promos[n]) = Eligible(promo)
          /\ OnProducts(promos[n]) = OnProducts(promo) /\ OnDelivery(promos[n]) = OnDelivery(promo)
      BY <3>2 DEF Eligible, EligibleLines, Targeted, OnProducts, OnDelivery
    <3>4. Eligible(promos[n])' = Eligible(promos[n])
      BY <2>1, <2>3 DEF Eligible, EligibleLines, Targeted
    <3> HIDE DEF Looking
    <3>5. CASE ~takes
      <4>1. n \notin used' /\ fixedOff' = fixedOff /\ awaiting' = awaiting
        BY <2>1, <3>1, <3>5
      <4>2. Unspent'
        BY <1>8, <2>3, <2>5, <3>1, <4>1 DEF Unspent
      <4> QED BY <4>1, <4>2
    <3>6. CASE takes
      <4> DEFINE waits == [promo EXCEPT !.eligible = goods]
      <4>1. n \in used'
        BY <2>1, <3>1, <3>6
      <4>2. OnlyGifts(todo')
        <5>1. todo' = Tail(todo)
          BY <2>3 DEF Looking
        <5>2. todo # <<>>
          BY <2>3 DEF Looking
        <5> QED BY <1>4, <2>1, <3>1, <5>1, <5>2 DEF Unspent, OnlyGifts
      <4>3. CASE ~OnDelivery(promo)
        <5>1. OnProducts(promo) /\ awaiting' = awaiting
          BY <2>1, <4>3 DEF OnDelivery, OnProducts
        <5>2. fixedOff' = Less(promo.value, Eligible(promo))
          <6>1. PICK l \in Nat : l = Less(promo.value, Eligible(promo))
            <7>1. promo.value \in Nat
              BY <3>2 DEF PromoSet
            <7> QED BY <2>4, <7>1 DEF Less
          <6>2. fixedOff' = 0 + l
            BY <2>1, <3>1, <3>6, <4>3, <5>1, <6>1 DEF Unspent
          <6> QED BY <6>1, <6>2
        <5>3. awaiting \in Seq(PercentCodes)
          BY <3>1 DEF Unspent
        <5> QED BY <2>3, <3>2, <3>3, <3>4, <4>1, <4>2, <4>3, <5>1, <5>2, <5>3 DEF Spent, OnDelivery
      <4>4. CASE OnDelivery(promo)
        <5>1. fixedOff' = 0 /\ awaiting' = Append(awaiting, waits) /\ awaiting \in Seq(PercentCodes)
          BY <2>1, <3>1, <3>6, <4>4 DEF Unspent
        <5>2. PICK w : w = waits
          OBVIOUS
        <5>3. w \in PromoSet /\ w.type = "FIXED" /\ w.scope = promo.scope /\ w.value = promo.value /\ w.eligible = goods
          <6>1. goods \in Nat
            BY <2>4
          <6> HIDE DEF goods
          <6>2. w.type = "FIXED" /\ w.scope = promo.scope /\ w.value = promo.value /\ w.eligible = goods
            BY <2>1, <3>2, <5>2 DEF PromoSet
          <6>3. w \in PromoSet
            BY <2>1, <3>2, <5>2, <6>1 DEF PromoSet
          <6> QED BY <6>2, <6>3
        <5> QED BY <2>3, <3>2, <3>3, <3>4, <4>1, <4>2, <4>4, <5>1, <5>2, <5>3 DEF Spent, OnDelivery, OnProducts
      <4> QED BY <4>3, <4>4
    <3> QED BY <3>5, <3>6
  <2>6. FixedCounts'
    BY <1>10, <1>11, <2>1, <2>5 DEF FixedCounts
  <2> QED BY <1>1, <1>6, <1>7, <2>1, <2>6
<1>17. CASE Gift
  <2>1. Looking /\ promo.type = "GIFT" /\ UNCHANGED <<lines, fixedOff, awaiting>> /\ used' \in {used, used \cup {promo.id}}
    BY <1>17 DEF Gift, Looks
  <2>2. \A n \in DOMAIN promos : OnlyFixed(n) => (n \in used' <=> n \in used)
    BY <1>5, <2>1 DEF OnlyFixed
  <2>3. FixedCounts'
    <3>1. ASSUME NEW n \in DOMAIN promos, OnlyFixed(n), n \notin used PROVE Unspent'
      BY <1>8, <2>1, <2>2, <3>1 DEF FixedCounts, Unspent
    <3>2. ASSUME NEW n \in DOMAIN promos, OnlyFixed(n), n \in used PROVE Spent(promos[n])'
      BY <1>9, <2>1, <3>2 DEF FixedCounts
    <3> QED BY <1>10, <1>11, <2>1, <2>2, <3>1, <3>2 DEF FixedCounts
  <2> QED BY <1>1, <1>6, <1>7, <2>1, <2>3
<1> DEFINE Same == UNCHANGED <<input, todo, lines, used, fixedOff, awaiting>>
<1>18. Same => LinesAreTrue' /\ FixedCounts'
  <2> SUFFICES ASSUME Same PROVE LinesAreTrue' /\ FixedCounts'
    OBVIOUS
  <2>1. promos' = promos /\ basket' = basket /\ shop' = shop /\ tax' = tax
    BY DEF input
  <2>2. LinesAreTrue'
    BY <1>1, <2>1 DEF LinesAreTrue, Copies
  <2>3. \A n \in DOMAIN promos : (OnlyFixed(n)' <=> OnlyFixed(n)) /\ Eligible(promos[n])' = Eligible(promos[n])
    BY <2>1 DEF OnlyFixed, Eligible, EligibleLines, Targeted
  <2>4. FixedCounts'
    BY <2>1, <2>3 DEF FixedCounts, Unspent, Spent
  <2> QED BY <2>2, <2>4
<1>19. CASE PlaceOrder
  <2>1. Same
    BY <1>19 DEF PlaceOrder
  <2>2. OrderCounts'
    <3>1. \/ stage' = "refused"
          \/ stage' = "placed" /\ used = DOMAIN promos /\ order'.totals = Totals(shop, tax, lines, fixedOff, awaiting)
      BY <1>19 DEF PlaceOrder
    <3>2. promos' = promos /\ shop' = shop /\ tax' = tax
      BY <2>1 DEF input
    <3> QED BY <2>1, <3>1, <3>2 DEF OrderCounts, Stored
  <2> QED BY <1>18, <2>1, <2>2
<1>20. CASE ExportOrder
  <2>1. Same /\ order' = order /\ stage = "placed" /\ stage' \in {"exported", "held"}
    BY <1>20 DEF ExportOrder
  <2>2. promos' = promos /\ shop' = shop /\ tax' = tax
    BY <2>1 DEF input
  <2>3. OrderCounts'
    BY <2>1, <2>2 DEF OrderCounts, Stored
  <2> QED BY <1>18, <2>1, <2>3
<1>21. CASE UNCHANGED vars
  <2>1. Same /\ stage' = stage /\ order' = order
    BY <1>21 DEF vars
  <2>2. promos' = promos /\ shop' = shop /\ tax' = tax
    BY <2>1 DEF input
  <2>3. OrderCounts'
    BY <2>1, <2>2 DEF OrderCounts, Stored
  <2> QED BY <1>18, <2>1, <2>3
<1> QED BY <1>12, <1>13, <1>14, <1>15, <1>16, <1>17, <1>19, <1>20, <1>21 DEF Next

(* The invariant says what the customer was promised.                      *)
LEMMA DiscountFollows == PriceInv => DiscountIsTrue
(* Percents leave the fixed amounts alone, and these them.                 *)
<1>PercentsLeave.
    ASSUME NEW d \in Nat, NEW f \in Nat, NEW codes \in Seq(PercentCodes)
    PROVE  /\ ShippingPromos(d, f, codes) = [delivery |-> ShippingPromos(d, 0, codes).delivery, fixedOff |-> f]
           /\ ShippingPromos(d, 0, codes).delivery \in Nat
  <2> DEFINE G(o, list) == FoldLeft(OnShipping, [delivery |-> d, fixedOff |-> o], list)
             S == {list \in Seq(PercentCodes) : \A o \in {0, f} :
                     G(o, list) = [delivery |-> G(0, list).delivery, fixedOff |-> o] /\ G(0, list).delivery \in Nat}
  <2>1. \A list \in Seq(PercentCodes) : list \in Seq(PromoSet)
    BY DEF PercentCodes
  <2>2. ASSUME NEW o \in Nat
        PROVE  /\ G(o, <<>>) = [delivery |-> d, fixedOff |-> o]
               /\ \A list \in Seq(PromoSet), x \in PromoSet : G(o, Append(list, x)) = OnShipping(G(o, list), x)
    <3>1. [delivery |-> d, fixedOff |-> o] \in ShippingSet
      BY DEF ShippingSet
    <3> QED BY <3>1, ShippingLaws
  <2>3. ASSUME NEW e \in Nat, NEW o \in Nat, NEW x \in PercentCodes
        PROVE  \E r \in Nat : \A p \in {0, o} : OnShipping([delivery |-> e, fixedOff |-> p], x) = [delivery |-> r, fixedOff |-> p]
    <3>1. x.value \in 0..100 /\ x.type = "PERCENT"
      <4>1. x \in PromoSet /\ x.type = "PERCENT"
        BY DEF PercentCodes
      <4>2. x.value \in Nat
        BY <4>1 DEF PromoSet
      <4>3. x.value <= 100
        BY <4>1 DEF PromoSet
      <4>4. \A n \in Nat : n <= 100 => n \in 0..100
        OBVIOUS
      <4> QED BY <4>1, <4>2, <4>3, <4>4
    <3>2. PICK v \in Nat : v = RoundDiv(e * x.value, 100) /\ v <= e
      <4>1. RoundDiv(e * x.value, 100) \in 0..e
        BY <3>1, PercentIs
      <4> QED BY <4>1
    <3>3. ASSUME NEW p PROVE OnShipping([delivery |-> e, fixedOff |-> p], x) = [delivery |-> e - v, fixedOff |-> p]
      BY <3>1, <3>2 DEF OnShipping
    <3>4. e - v \in Nat
      BY <3>2
    <3> QED BY <3>3, <3>4
  <2> HIDE DEF G
  <2>4. <<>> \in S
    <3>1. 0 \in Nat /\ <<>> \in Seq(PercentCodes)
      OBVIOUS
    <3>2. ASSUME NEW o \in {0, f} PROVE G(o, <<>>) = [delivery |-> d, fixedOff |-> o] /\ G(0, <<>>) = [delivery |-> d, fixedOff |-> 0]
      BY <2>2, <3>1
    <3> QED BY <3>1, <3>2
  <2>5. ASSUME NEW list \in Seq(PercentCodes), NEW x \in PercentCodes, list \in S PROVE Append(list, x) \in S
    <3>0. Append(list, x) \in Seq(PercentCodes) /\ list \in Seq(PromoSet) /\ x \in PromoSet /\ 0 \in Nat /\ 0 \in {0, f} /\ f \in {0, f}
      BY <2>1 DEF PercentCodes
    <3>1. PICK e \in Nat : \A o \in {0, f} : G(o, list) = [delivery |-> e, fixedOff |-> o]
      BY <2>5
    <3>2. PICK r \in Nat : \A o \in {0, f} : OnShipping([delivery |-> e, fixedOff |-> o], x) = [delivery |-> r, fixedOff |-> o]
      BY <2>3
    <3>3. \A o \in {0, f} : G(o, Append(list, x)) = [delivery |-> r, fixedOff |-> o]
      BY <2>2, <3>0, <3>1, <3>2
    <3>4. G(0, Append(list, x)).delivery = r
      BY <3>0, <3>3
    <3> QED BY <3>0, <3>3, <3>4
  <2>6. codes \in S
    <3> HIDE DEF S
    <3> QED BY <2>4, <2>5, SequenceInduction
  <2> QED BY <2>6 DEF ShippingPromos, G
(* What is collected depends on the codes only through what they leave of  *)
(* the delivery and take off: price before and boxes are those of the      *)
(* cart.                                                                   *)
<1>CollectedIs.
    ASSUME NEW s, IsShop(s), NEW t, t.rate \in Nat, NEW list, ProductsOf(list) \in Nat
    PROVE  \E before, packaging \in Nat : Collects(s, t, list, before, packaging)
  <2> USE <1>CollectedIs
  (* The carrier's price of a delivery, when there is one, is an amount.     *)
  <2>RatedIs.
      ASSUME NEW terms, IsShop(terms), NEW goods \in Nat
      PROVE  Delivery(terms, goods).ok => Delivery(terms, goods).amount \in Nat
    <3> USE <2>RatedIs
    (* What a limit's lookup finds.                                            *)
    <3>TierIs.
        ASSUME NEW tiers, tiers \subseteq [upTo : Nat, fee : Nat], NEW value
        PROVE  Tier(tiers, value) = <<>> \/ (\E lim \in [upTo : Nat, fee : Nat] : Tier(tiers, value) = <<lim>>)
      <4> USE <3>TierIs
      <4> DEFINE hits == {lim \in tiers : value <= lim.upTo}
                 low(lim) == \A u \in hits : lim.upTo <= u.upTo
                 U == {lim.upTo : lim \in hits}
      <4>1. CASE hits = {}
        BY <4>1 DEF Tier
      <4>2. CASE hits # {}
        <5>1. U \subseteq Nat /\ U # {}
          <6>1. \A lim \in hits : lim.upTo \in Nat
            OBVIOUS
          <6> HIDE DEF hits
          <6> QED BY <4>2, <6>1
        <5>2. PICK m \in U : \A v \in U : m <= v
          <6> HIDE DEF U
          <6> QED BY <5>1, Lowest
        <5>3. PICK lim \in hits : lim.upTo = m
          <6> HIDE DEF hits
          <6> QED BY <5>2
        <5>4. low(lim)
          <6> HIDE DEF hits
          <6> QED BY <5>2, <5>3
        <5>5. PICK u \in hits : u = CHOOSE v \in hits : low(v)
          <6> HIDE DEF hits, low
          <6> QED BY <5>4
        <5>6. Tier(tiers, value) = <<u>>
          BY <4>2, <5>5 DEF Tier
        <5> QED BY <5>6
      <4> QED BY <4>1, <4>2
    <3> DEFINE LimitSet == [upTo : Nat, fee : Nat]
               parcels == Parcels(terms)
               cover == Tier(terms.insurance, goods)
               priced == [i \in DOMAIN parcels |-> Tier(terms.tariff, parcels[i])]
               nets == [i \in DOMAIN parcels |-> ParcelNet(terms, priced[i][1], parcels[i])]
    <3>0. /\ terms.fee \in Nat /\ terms.maxParcel \in Nat /\ terms.fuel \in Nat /\ terms.toll \in Nat /\ terms.handIn \in Nat /\ terms.weight \in Nat
          /\ terms.tariff \subseteq LimitSet /\ terms.insurance \subseteq LimitSet /\ terms.delivery \in {"free", "fixed", "rated"}
      BY DEF IsShop
    <3> HIDE DEF LimitSet
    <3>1. PICK n \in Nat : DOMAIN parcels = 1..n /\ \A i \in 1..n : parcels[i] \in Nat
      <4>1. CASE terms.maxParcel = 0
        <5>1. parcels = <<terms.weight>>
          BY <4>1 DEF Parcels
        <5> HIDE DEF parcels
        <5>2. DOMAIN parcels = 1..1 /\ \A i \in 1..1 : parcels[i] \in Nat
          BY <3>0, <5>1
        <5> QED BY <5>2
      <4>2. CASE terms.maxParcel # 0
        <5>1. parcels = [i \in 1..CeilDiv(terms.weight, terms.maxParcel) |-> Less(terms.maxParcel, terms.weight - (i - 1) * terms.maxParcel)]
          BY <4>2 DEF Parcels
        <5> HIDE DEF parcels
        <5>2. CeilDiv(terms.weight, terms.maxParcel) \in Nat
          BY <3>0, <4>2, RoundsUp
        <5>3. ASSUME NEW i \in 1..CeilDiv(terms.weight, terms.maxParcel)
              PROVE  Less(terms.maxParcel, terms.weight - (i - 1) * terms.maxParcel) \in Nat
          <6>1. terms.weight - (i - 1) * terms.maxParcel \in Nat
            BY <3>0, <4>2, RoundsUp
          <6> QED BY <3>0, <6>1 DEF Less
        <5> QED BY <5>1, <5>2, <5>3
      <4> QED BY <4>1, <4>2
    <3> HIDE DEF parcels
    <3>2. ASSUME NEW lim \in LimitSet, NEW w \in Nat PROVE ParcelNet(terms, lim, w) \in Nat
      <4>1. lim.fee \in Nat
        BY DEF LimitSet
      <4>2. lim.fee * terms.fuel \in Nat
        BY <3>0, <4>1
      <4>3. PICK a \in Nat : a = RoundDiv(lim.fee * terms.fuel, 100)
        BY <4>2, RoundsUp
      <4>4. PICK b \in Nat : b = CeilDiv(w, 100)
        BY RoundsUp
      <4>5. terms.toll * b \in Nat
        BY <3>0
      <4>6. lim.fee + a + terms.toll * b + terms.handIn \in Nat
        BY <3>0, <4>1, <4>5
      <4> QED BY <4>3, <4>4, <4>6 DEF ParcelNet
    <3>3. CASE terms.delivery = "rated" /\ Delivery(terms, goods).ok
      <4>1. Delivery(terms, goods) = Rated(terms, goods)
        BY <3>3 DEF Delivery
      <4>2. /\ \A i \in DOMAIN priced : priced[i] # <<>>
            /\ Rated(terms, goods).amount = SumOf(nets) + (IF cover = <<>> THEN 0 ELSE cover[1].fee)
        BY <3>3, <4>1 DEF Rated, NoDelivery, parcels
      <4>3. ASSUME NEW i \in 1..n PROVE ParcelNet(terms, priced[i][1], parcels[i]) \in Nat
        <5>1. priced[i] = Tier(terms.tariff, parcels[i]) /\ priced[i] # <<>> /\ parcels[i] \in Nat
          BY <3>1, <4>2
        <5>2. PICK lim \in LimitSet : priced[i] = <<lim>>
          <6>1. \A w : Tier(terms.tariff, w) = <<>> \/ \E lim \in LimitSet : Tier(terms.tariff, w) = <<lim>>
            BY <3>0, <3>TierIs DEF LimitSet
          <6> QED BY <5>1, <6>1
        <5>3. priced[i][1] = lim
          BY <5>2
        <5> QED BY <3>2, <5>1, <5>3
      <4> HIDE DEF priced
      <4>4. nets \in Seq(Nat)
        <5>1. nets \in [1..n -> Nat]
          BY <3>1, <4>3
        <5> HIDE DEF nets
        <5> QED BY <5>1
      <4> HIDE DEF nets
      <4>5. SumOf(nets) \in Nat
        BY <4>4, SumsGrow
      <4>6. (IF cover = <<>> THEN 0 ELSE cover[1].fee) \in Nat
        <5>1. cover = <<>> \/ \E lim \in LimitSet : cover = <<lim>>
          BY <3>0, <3>TierIs DEF LimitSet
        <5> HIDE DEF cover
        <5>2. ASSUME NEW lim \in LimitSet, cover = <<lim>> PROVE cover[1].fee \in Nat
          BY <5>2 DEF LimitSet
        <5> QED BY <5>1, <5>2
      <4> QED BY <4>1, <4>2, <4>5, <4>6
    <3>4. CASE terms.delivery \in {"free", "fixed"}
      BY <3>0, <3>4 DEF Delivery
    <3> QED BY <3>0, <3>3, <3>4
  <2>0. PICK products \in Nat : products = ProductsOf(list)
    OBVIOUS
  <2>1. ASSUME NEW amount \in Nat, NEW isNet PROVE Customer(amount, isNet, t) \in Nat
    <3>1. amount * (100 + t.rate) \in Nat
      OBVIOUS
    <3> QED BY <3>1, RoundsUp DEF Customer, NetToGross
  <2> DEFINE raw == Delivery(s, products)
             extra == IF products < s.minimum /\ s.below = "fee" THEN s.belowFee ELSE 0
  <2>2. PICK before \in Nat : before = IF raw.ok THEN Customer(raw.amount, s.tariffNet, t) ELSE 0
    <3>1. raw.ok => Customer(raw.amount, s.tariffNet, t) \in Nat
      BY <2>1, <2>RatedIs
    <3> HIDE DEF raw
    <3> QED BY <3>1
  <2>3. PICK packaging \in Nat : packaging = Customer(extra + Packages(s) * s.packageFee, s.packagingNet, t)
    <3>1. s.weight \in Nat /\ s.boxWeight \in Nat /\ s.volume \in Nat /\ s.boxVolume \in Nat /\ s.pots \in Nat /\ s.potsOnPallet \in Nat /\ s.packageFee \in Nat /\ s.belowFee \in Nat /\ s.packaging \in {"boxes", "pallet", "flat"}
      BY DEF IsShop
    <3>2. \A a, c \in Nat : Filled(a, c) \in Nat
      <4>1. ASSUME NEW a \in Nat, NEW c \in Nat, c > 0 PROVE CeilDiv(a, c) \in Nat
        BY <4>1, RoundsUp
      <4> QED BY <4>1 DEF Filled
    <3>3. \A a, b \in Nat : More(a, b) \in Nat
      BY DEF More
    <3>4. PICK n \in Nat : n = Packages(s)
      <4>1. More(1, More(Filled(s.weight, s.boxWeight), Filled(s.volume, s.boxVolume))) \in Nat
        <5>1. Filled(s.weight, s.boxWeight) \in Nat /\ Filled(s.volume, s.boxVolume) \in Nat /\ 1 \in Nat
          BY <3>1, <3>2
        <5> QED BY <3>3, <5>1
      <4>2. Filled(s.pots, s.potsOnPallet) \in Nat
        BY <3>1, <3>2
      <4> QED BY <3>1, <4>1, <4>2 DEF Packages
    <3>5. extra + n * s.packageFee \in Nat
      <4>1. extra \in Nat /\ n * s.packageFee \in Nat
        BY <3>1
      <4> HIDE DEF extra
      <4> QED BY <4>1
    <3> HIDE DEF extra
    <3> QED BY <2>1, <3>4, <3>5
  <2>4. ASSUME NEW off, NEW codes
        PROVE  /\ Totals(s, t, list, off, codes).before = before
               /\ Totals(s, t, list, off, codes).collected =
                    More(0, products + ShippingPromos(before, off, codes).delivery + packaging
                            - ShippingPromos(before, off, codes).fixedOff)
    <3>1. PICK fees : fees = Fees(s, t, products, off, codes)
      OBVIOUS
    <3>2. /\ fees.before = before /\ fees.packaging = packaging
          /\ fees.delivery = ShippingPromos(before, off, codes).delivery
          /\ fees.fixedOff = ShippingPromos(before, off, codes).fixedOff
      BY <2>2, <2>3, <3>1 DEF Fees
    <3>3. Totals(s, t, list, off, codes) = BeforeCod(s, t, list, fees, products)
      BY <2>0, <3>1 DEF Totals
    <3>4. BeforeCod(s, t, list, fees, products).before = fees.before
      BY DEF BeforeCod, WithCod, Summed, Kept
    <3>5. BeforeCod(s, t, list, fees, products).collected = More(0, products + fees.delivery + fees.packaging - fees.fixedOff)
      BY DEF BeforeCod, WithCod, Summed
    <3> QED BY <3>2, <3>3, <3>4, <3>5
  <2> QED BY <2>0, <2>4 DEF Collects
<1> SUFFICES ASSUME PriceInv PROVE DiscountIsTrue
  BY DEF PriceInv
<1>1. /\ promos \in Seq(PromoSet) /\ lines \in Seq(TrueLines) /\ IsShop(shop) /\ tax.rate \in Nat
  BY PriceAssumption DEF PriceInv, LinesAreTrue
<1>2. DOMAIN lines = 1..Len(lines) /\ Len(lines) \in Nat /\ \A i \in DOMAIN lines : lines[i] \in TrueLines
  BY <1>1
<1>3. \A i \in DOMAIN lines : LineIsTrue(lines[i])
  BY <1>2 DEF TrueLines
<1>4. ASSUME Stored, NEW n \in DOMAIN promos, OnlyFixed(n)
      PROVE  order.totals.collected = WithoutFixed - Less(promos[n].value, Room(promos[n]))
  <2>1. /\ order.totals = Totals(shop, tax, lines, fixedOff, awaiting) /\ Spent(promos[n])
    BY <1>4 DEF PriceInv, OrderCounts, FixedCounts
  <2> DEFINE amounts == [i \in DOMAIN lines |-> lines[i].unit * lines[i].qty]
             parts == [i \in DOMAIN lines |-> IF i \in EligibleLines(promos[n]) THEN lines[i].unit * lines[i].qty ELSE 0]
  <2>2. \A i \in DOMAIN lines : lines[i].unit * lines[i].qty \in Nat
    BY <1>2 DEF TrueLines
  <2>3. amounts \in Seq(Nat) /\ parts \in Seq(Nat) /\ Len(amounts) = Len(lines) /\ Len(parts) = Len(lines)
        /\ \A i \in 1..Len(lines) : parts[i] <= amounts[i]
    <3>1. amounts \in [1..Len(lines) -> Nat] /\ parts \in [1..Len(lines) -> Nat]
      BY <1>2, <2>2
    <3>2. \A i \in 1..Len(lines) : parts[i] <= amounts[i]
      BY <1>2, <2>2
    <3> HIDE DEF amounts, parts
    <3> QED BY <1>2, <3>1, <3>2
  <2>4. Eligible(promos[n]) = SumOf(parts)
    BY DEF Eligible
  <2>5. PICK products \in Nat, goods \in Nat : products = SumOf(amounts) /\ goods = Eligible(promos[n]) /\ goods <= products
    <3> HIDE DEF amounts, parts
    <3> QED BY <2>3, <2>4, SumsGrow
  <2>6. PICK before \in Nat, packaging \in Nat : Collects(shop, tax, lines, before, packaging) /\ products = ProductsOf(lines)
    <3>1. products = ProductsOf(lines)
      BY <2>5 DEF ProductsOf
    <3> HIDE DEF amounts, parts
    <3>2. ProductsOf(lines) \in Nat
      BY <3>1
    <3> QED BY <1>1, <3>1, <3>2, <1>CollectedIs
  <2>7. order.totals.before = before
    BY <2>1, <2>6 DEF Collects
  <2>8. PICK value \in Nat : value = promos[n].value
    BY <1>1 DEF PromoSet
  <2> HIDE DEF amounts, parts
  <2>9. ASSUME NEW codes \in Seq(PercentCodes), Percents = codes
        PROVE  \E delivery \in Nat :
                 /\ WithoutFixed = products + delivery + packaging
                 /\ \A f \in Nat : ShippingPromos(before, f, codes) = [delivery |-> delivery, fixedOff |-> f]
                 /\ Room(promos[n]) = (IF OnProducts(promos[n]) THEN goods ELSE 0) + (IF OnDelivery(promos[n]) THEN delivery ELSE 0)
    <3>0. 0 \in Nat
      OBVIOUS
    <3>1. PICK delivery \in Nat : delivery = ShippingPromos(before, 0, codes).delivery
      BY <2>9, <3>0, <1>PercentsLeave
    <3>2. \A f \in Nat : ShippingPromos(before, f, codes) = [delivery |-> delivery, fixedOff |-> f]
      BY <2>9, <3>1, <1>PercentsLeave
    <3>3. WithoutFixed = More(0, products + delivery + packaging - 0)
      <4>1. ShippingPromos(before, 0, Percents) = [delivery |-> delivery, fixedOff |-> 0]
        BY <2>9, <3>0, <3>2
      <4>2. Totals(shop, tax, lines, 0, Percents).collected
              = More(0, products + ShippingPromos(before, 0, Percents).delivery + packaging
                        - ShippingPromos(before, 0, Percents).fixedOff)
        BY <2>6 DEF Collects
      <4> QED BY <4>1, <4>2 DEF WithoutFixed
    <3>4. More(0, products + delivery + packaging - 0) = products + delivery + packaging
      BY DEF More
    <3>5. Room(promos[n]) = (IF OnProducts(promos[n]) THEN goods ELSE 0) + (IF OnDelivery(promos[n]) THEN delivery ELSE 0)
      BY <2>5, <2>7, <2>9, <3>1 DEF Room
    <3> QED BY <3>2, <3>3, <3>4, <3>5
  <2>10. \A s \in Seq(PercentCodes) : \A i \in DOMAIN s : s[i] \in PercentCodes
    OBVIOUS
  <2>11. CASE ~OnDelivery(promos[n]) /\ fixedOff = Less(promos[n].value, Eligible(promos[n])) /\ awaiting \in Seq(PercentCodes)
    <3> DEFINE T == {p \in Range(awaiting) : p.type = "PERCENT"}
    <3>1. Range(awaiting) \subseteq T
      BY <2>10, <2>11 DEF PercentCodes, Range
    <3>2. Percents = awaiting
      <4>1. Percents = Chosen(awaiting, T)
        BY DEF Percents
      <4> HIDE DEF T
      <4> QED BY <2>11, <3>1, <4>1, ChosenIs
    <3>3. PICK delivery \in Nat :
            /\ WithoutFixed = products + delivery + packaging
            /\ \A f \in Nat : ShippingPromos(before, f, awaiting) = [delivery |-> delivery, fixedOff |-> f]
            /\ Room(promos[n]) = (IF OnProducts(promos[n]) THEN goods ELSE 0) + (IF OnDelivery(promos[n]) THEN delivery ELSE 0)
      BY <2>9, <2>11, <3>2
    <3>4. Room(promos[n]) = goods
      BY <2>11, <3>3 DEF OnProducts, OnDelivery
    <3>5. PICK off \in 0..goods : off = Less(value, goods)
      BY DEF Less
    <3>6. fixedOff = off /\ ShippingPromos(before, fixedOff, awaiting) = [delivery |-> delivery, fixedOff |-> off]
      BY <2>5, <2>8, <2>11, <3>3, <3>5
    <3>7. order.totals.collected = More(0, products + delivery + packaging - off)
      BY <2>1, <2>6, <3>6 DEF Collects
    <3>8. More(0, products + delivery + packaging - off) = products + delivery + packaging - off
      BY <2>5 DEF More
    <3> QED BY <2>8, <3>3, <3>4, <3>5, <3>7, <3>8
  <2>12. ASSUME OnDelivery(promos[n]), fixedOff = 0, NEW list \in Seq(PercentCodes), NEW p \in PromoSet,
                awaiting = Append(list, p), p.type = "FIXED", p.scope = promos[n].scope, p.value = promos[n].value,
                p.eligible = IF OnProducts(promos[n]) THEN Eligible(promos[n]) ELSE 0
         PROVE  order.totals.collected = WithoutFixed - Less(promos[n].value, Room(promos[n]))
    <3> DEFINE T == {q \in Range(awaiting) : q.type = "PERCENT"}
    <3>0. list \in Seq(PromoSet)
      BY DEF PercentCodes
    <3>1. Range(list) \subseteq T /\ p \notin T
      <4>1. ASSUME NEW q \in Range(list) PROVE q \in T
        <5>1. PICK i \in DOMAIN list : q = list[i]
          BY <4>1 DEF Range
        <5>2. i \in DOMAIN awaiting /\ awaiting[i] = q
          BY <2>12, <5>1
        <5>3. q \in Range(awaiting) /\ q.type = "PERCENT"
          BY <2>10, <5>1, <5>2 DEF Range, PercentCodes
        <5> QED BY <5>3
      <4> QED BY <2>12, <4>1
    <3>2. Percents = list
      <4>1. Percents = Chosen(Append(list, p), T)
        BY <2>12 DEF Percents
      <4> HIDE DEF T
      <4>2. Chosen(Append(list, p), T) = IF p \in T THEN Append(Chosen(list, T), p) ELSE Chosen(list, T)
        <5>1. \A s \in Seq(PromoSet), x \in PromoSet :
                Chosen(Append(s, x), T) = IF x \in T THEN Append(Chosen(s, T), x) ELSE Chosen(s, T)
          BY ChosenLaws
        <5> QED BY <3>0, <5>1
      <4>3. Chosen(list, T) = list
        BY <3>0, <3>1, ChosenIs
      <4> QED BY <3>1, <4>1, <4>2, <4>3
    <3>3. PICK delivery \in Nat :
            /\ WithoutFixed = products + delivery + packaging
            /\ \A f \in Nat : ShippingPromos(before, f, list) = [delivery |-> delivery, fixedOff |-> f]
            /\ Room(promos[n]) = (IF OnProducts(promos[n]) THEN goods ELSE 0) + (IF OnDelivery(promos[n]) THEN delivery ELSE 0)
      BY <2>9, <3>2
    <3> DEFINE start == [delivery |-> delivery, fixedOff |-> 0]
               after == OnShipping(start, p)
    <3>4. start \in ShippingSet /\ start.delivery = delivery /\ start.fixedOff = 0
      BY DEF ShippingSet
    <3>5. ShippingPromos(before, fixedOff, awaiting) = after
      <4>1. [delivery |-> before, fixedOff |-> 0] \in ShippingSet
        BY DEF ShippingSet
      <4>2. FoldLeft(OnShipping, [delivery |-> before, fixedOff |-> 0], Append(list, p))
              = OnShipping(FoldLeft(OnShipping, [delivery |-> before, fixedOff |-> 0], list), p)
        BY <3>0, <4>1, ShippingLaws
      <4>3. FoldLeft(OnShipping, [delivery |-> before, fixedOff |-> 0], list) = start
        BY <3>3 DEF ShippingPromos
      <4>4. ShippingPromos(before, fixedOff, awaiting) = FoldLeft(OnShipping, [delivery |-> before, fixedOff |-> 0], Append(list, p))
        BY <2>12 DEF ShippingPromos
      <4> QED BY <4>2, <4>3, <4>4
    <3> HIDE DEF start, after
    <3>6. PICK room \in Nat : room = Room(promos[n]) /\ room = (IF p.scope = "SHIPPING_ONLY" THEN 0 ELSE p.eligible) + delivery
                              /\ room <= products + delivery
      BY <2>5, <2>12, <3>3 DEF OnProducts
    <3>7. after \in ShippingSet
          /\ (delivery - after.delivery) + (after.fixedOff - 0) = Less(value, room)
      BY <2>8, <2>12, <3>4, <3>6, OnShippingIs DEF after
    <3>8. PICK d \in Nat, f \in Nat : d = after.delivery /\ f = after.fixedOff
      BY <3>7 DEF ShippingSet
    <3>9. order.totals.collected = More(0, products + d + packaging - f)
      BY <2>1, <2>6, <3>5, <3>8 DEF Collects
    <3>10. PICK off \in 0..room : off = Less(value, room)
      BY DEF Less
    <3>11. products + d + packaging - f = products + delivery + packaging - off /\ products + d + packaging - f >= 0
      <4>1. (delivery - d) + (f - 0) = off
        BY <3>7, <3>8, <3>10
      <4>2. off <= products + delivery
        BY <3>6
      <4> QED BY <4>1, <4>2
    <3>12. More(0, products + d + packaging - f) = products + delivery + packaging - off
      BY <3>11 DEF More
    <3> QED BY <2>8, <3>3, <3>6, <3>9, <3>10, <3>12
  <2> QED BY <2>1, <2>11, <2>12 DEF Spent
<1> QED BY <1>3, <1>4 DEF DiscountIsTrue

(* For all carts, rules, codes, settings and taxes: no price is above its  *)
(* base, the percent kept for a line is the one its price has, however     *)
(* rules and codes were combined, and a fixed code, if it is the only one, *)
(* takes its value off products and delivery to the cent, or all there is  *)
(* (PricingService.quote, applyPromoCodes, computeTotals).                 *)
THEOREM DiscountsStand == Spec => []DiscountIsTrue
<1>1. Init => PriceInv
  <2> SUFFICES ASSUME Init PROVE PriceInv
    OBVIOUS
  <2> USE DEF Init
  <2>1. <<>> \in Seq(TrueLines) /\ <<>> \in Seq(Copies) /\ <<>> \in Seq(PercentCodes)
    OBVIOUS
  <2>2. LinesAreTrue
    BY <2>1 DEF LinesAreTrue
  <2>3. FixedCounts
    BY <2>1 DEF FixedCounts, Unspent
  <2>4. OrderCounts
    BY DEF OrderCounts, Stored
  <2> QED BY <2>2, <2>3, <2>4 DEF PriceInv
<1> QED BY <1>1, PriceInvHolds, DiscountFollows, PTL DEF Spec

=============================================================================
