---------------------------- MODULE MCCardPayment ----------------------------
(* Two workers and two Checkout Sessions: a retry, a late event of the     *)
(* first session and a concurrent call all fit.                            *)
EXTENDS CardPayment, TLC

CONSTANTS w1, w2, s1, s2

(* The sessions are not interchangeable: only one may settle later. *)
MCSymmetry == Permutations({w1, w2})
=============================================================================
