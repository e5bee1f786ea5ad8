------------------------- MODULE MCOrderIdempotency -------------------------
(* Three keyed submissions of one checkout, one of them with another       *)
(* fingerprint, and one submission whose key normalizes to null.           *)
EXTENDS OrderIdempotency

CONSTANTS r1, r2, r3, r4, k1

MCRequests == {r1, r2, r3, r4}
MCKeyOf == [r \in Requests |-> IF r = r4 THEN NoKey ELSE k1]
MCFpOf == [r \in Requests |-> IF r = r3 THEN "other" ELSE "same"]
=============================================================================
