---------------------------- MODULE PaymentPromise ----------------------------
(***************************************************************************)
(* What paying an order online promises, whoever carries it out: the order *)
(* is decided once, for fulfilment or for cancellation; it is fulfilled    *)
(* only against money, or the word of a method that settles later; money   *)
(* that was taken goes back once, and only for a cancelled order.          *)
(***************************************************************************)
CONSTANT Charges   \* what the customer may be charged by

VARIABLES outcome, \* what became of the order
          money    \* of each charge: "none", "promised", "taken" or "returned"

Init ==
  /\ outcome = "AWAITING_PAYMENT"
  /\ money = [c \in Charges |-> "none"]

Moves(c, from, to) ==
  /\ money[c] \in from
  /\ money' = [money EXCEPT ![c] = to]
  /\ UNCHANGED outcome

(* The customer may pay at any time, a cancelled order as well.            *)
Promised(c) == Moves(c, {"none"}, "promised")
Taken(c)    == Moves(c, {"none", "promised"}, "taken")
Returned(c) == outcome = "CANCELLED" /\ Moves(c, {"taken"}, "returned")

Decided(to) ==
  /\ outcome = "AWAITING_PAYMENT"
  /\ outcome' = to
  /\ UNCHANGED money

Fulfilled == (\E c \in Charges : money[c] \in {"promised", "taken"}) /\ Decided("PROCESSING")
Cancelled == Decided("CANCELLED")

Next == Fulfilled \/ Cancelled \/ \E c \in Charges : Promised(c) \/ Taken(c) \/ Returned(c)

Spec == Init /\ [][Next]_<<outcome, money>>
=============================================================================
