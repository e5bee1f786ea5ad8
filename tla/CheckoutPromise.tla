--------------------------- MODULE CheckoutPromise ---------------------------
(***************************************************************************)
(* What an idempotency key promises the storefront, with no lock and no    *)
(* record: at most one order exists per key, a request is answered with    *)
(* that order only if it is a retry of the same checkout, and an order     *)
(* that was announced to a client stays.                                   *)
(***************************************************************************)
CONSTANTS Requests, NoKey, KeyOf, FpOf, NoAnswer, Refused

VARIABLES orders,   \* live orders, named by the request that created them
          answer    \* what each client has received

Init ==
  /\ orders = {}
  /\ answer = [r \in Requests |-> NoAnswer]

SameCheckout(r, o) == KeyOf[r] = KeyOf[o] /\ FpOf[r] = FpOf[o]

Make(r) ==
  /\ answer[r] = NoAnswer
  /\ r \notin orders
  /\ KeyOf[r] # NoKey => \A o \in orders : KeyOf[o] # KeyOf[r]
  /\ orders' = orders \cup {r}
  /\ UNCHANGED answer

(* An order may be taken back while nobody has been told of it; its        *)
(* creator may be refused in the same step.                                *)
Unmake(r) ==
  /\ r \in orders
  /\ \A s \in Requests : answer[s] # r
  /\ orders' = orders \ {r}
  /\ \/ UNCHANGED answer
     \/ answer[r] = NoAnswer /\ answer' = [answer EXCEPT ![r] = Refused]

Confirm(r, o) ==
  /\ answer[r] = NoAnswer
  /\ o \in orders
  /\ SameCheckout(r, o)
  /\ answer' = [answer EXCEPT ![r] = o]
  /\ UNCHANGED orders

Refuse(r) ==
  /\ answer[r] = NoAnswer
  /\ answer' = [answer EXCEPT ![r] = Refused]
  /\ UNCHANGED orders

Next == \E r \in Requests :
  Make(r) \/ Unmake(r) \/ Refuse(r) \/ \E o \in orders : Confirm(r, o)

Spec == Init /\ [][Next]_<<orders, answer>>
=============================================================================
