--------------------------- MODULE MCOrderPricing ---------------------------
(* Orders under reverse charge, with and without percents.                 *)
EXTENDS OrderPricing, PriceCases

MCCarts == PlainCarts({<<>>, <<S10>>})
MCPromos == {<<>>, <<Stack15>>}
MCShops == {Courier}
MCTaxes == {[regime |-> "reverse_charge", rate |-> 23]}
=============================================================================
