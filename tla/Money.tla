-------------------------------- MODULE Money --------------------------------
(***************************************************************************)
(* Amounts of money in whole cents and the roundings between them.  Halves *)
(* of a cent go up, as Math.round does; that a half written in binary may  *)
(* lie just below is not here.  Percents and tax rates are whole numbers.  *)
(***************************************************************************)
EXTENDS Integers, SequencesExt

Less(a, b) == IF a <= b THEN a ELSE b
More(a, b) == IF a <= b THEN b ELSE a

SumOf(amounts) == FoldLeft(+, 0, amounts)

(* The elements of a sequence that are in T, in their order.               *)
Chosen(list, T) == FoldLeft(LAMBDA found, x : IF x \in T THEN Append(found, x) ELSE found, <<>>, list)

(* n / d to the nearest whole number.                                      *)
RoundDiv(n, d) == (2 * n + d) \div (2 * d)

CeilDiv(n, d) == (n + d - 1) \div d

(* An amount less p percent, never below zero.                             *)
PercentOff(amount, p) == IF p >= 100 THEN 0 ELSE RoundDiv(amount * (100 - p), 100)

NetToGross(net, rate)   == RoundDiv(net * (100 + rate), 100)
GrossToNet(gross, rate) == RoundDiv(gross * 100, 100 + rate)

(* The tax inside a line's gross amount.                                   *)
VatOf(gross, rate) == IF gross > 0 THEN RoundDiv(gross * rate, 100 + rate) ELSE 0
=============================================================================
