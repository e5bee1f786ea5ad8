---------------------------- MODULE PointsLedger ----------------------------
(***************************************************************************)
(* The referral points of one customer: a ledger whose last entry carries  *)
(* the balance.  A checkout previews a redemption, its transaction writes  *)
(* it; a refused checkout restores it; an order of a referred friend       *)
(* credits a reward, asked for by a change of status or a manual payment.  *)
(* Not here: the friend's discount, rounding, expiry, rules of a program.  *)
(***************************************************************************)
EXTENDS Integers, Sequences, SequencesExt

CONSTANTS Checkouts,  \* checkouts of the customer that redeem points
          Friends,    \* orders of referred friends
          Credits,    \* requests that credit a reward
          For,        \* [Credits -> Friends]
          Wish,       \* points a checkout asks to redeem
          Reward,     \* points of one reward
          Start,      \* points at the start
          Overlap,    \* transactions without the counter's lock may overlap others
          Faults      \* subset of {"short", "refused"}: no stock, the ERP says no

VARIABLES
  ledger,    \* sequence of [delta, balance, order]
  counter,   \* who holds the order number counter, "free" otherwise
  pc, saw,   \* [actors -> where it is], [actors -> balance it has read]
  discount,  \* [Checkouts -> points its order is discounted by]
  rewarded   \* friends' orders whose attribution is REWARDED

vars == <<ledger, counter, pc, saw, discount, rewarded>>

Actors == Checkouts \cup Credits
Nobody == "free"

LedgerEntries == [delta : Int, balance : Int, order : Checkouts \cup Friends]

TypeOK ==
  /\ ledger \in Seq(LedgerEntries)
  /\ counter \in Checkouts \cup {Nobody}
  /\ pc \in [Actors -> {"start", "create", "read", "write", "commit", "export", "restore", "done", "failed"}]
  /\ saw \in [Actors -> Int]
  /\ discount \in [Checkouts -> Nat]
  /\ rewarded \subseteq Friends

Init ==
  /\ ledger = <<>>
  /\ counter = Nobody
  /\ pc = [a \in Actors |-> "start"]
  /\ saw = [a \in Actors |-> 0]
  /\ discount = [c \in Checkouts |-> 0]
  /\ rewarded = {}

Least(a, b) == IF a < b THEN a ELSE b

(* Entries of a transaction are seen by others when it commits; the steps  *)
(* below write at the commit, a transaction writes one entry at most.      *)
Balance == IF ledger = <<>> THEN Start ELSE Last(ledger).balance
Entry(delta, balance, order) == [delta |-> delta, balance |-> balance, order |-> order]
Write(delta, balance, order) == ledger' = Append(ledger, Entry(delta, balance, order))
Goto(a, label) == pc' = [pc EXCEPT ![a] = label]

(* Credits and restores lock nothing; without Overlap they run alone.      *)
InTransaction(a) == pc[a] \in {"read", "write", "commit", "restore"}
Alone(a)         == Overlap \/ \A b \in Actors \ {a} : ~InTransaction(b)
NoneUnlocked     == Overlap \/ \A a \in Actors : InTransaction(a) => a \in Checkouts /\ pc[a] # "restore"

-----------------------------------------------------------------------------
(* The discount of the order is the previewed one; it needs the balance.   *)
PreviewPointsRedemption(c) ==
  /\ pc[c] = "start"
  /\ IF Wish <= Balance
     THEN discount' = [discount EXCEPT ![c] = Wish] /\ Goto(c, "create")
     ELSE Goto(c, "failed") /\ UNCHANGED discount
  /\ UNCHANGED <<ledger, counter, saw, rewarded>>

(* The order's transaction takes its number first: orders are created one  *)
(* after the other.                                                        *)
Begin(c) ==
  /\ pc[c] = "create" /\ counter = Nobody /\ NoneUnlocked
  /\ counter' = c
  /\ Goto(c, "read")
  /\ UNCHANGED <<ledger, saw, discount, rewarded>>

(* writePointsRedemption: the last entry, then what it still covers; a     *)
(* balance of nothing writes nothing.                                      *)
ReadBalance(c) ==
  /\ c \in Checkouts /\ pc[c] = "read"
  /\ saw' = [saw EXCEPT ![c] = Balance]
  /\ Goto(c, "commit")
  /\ UNCHANGED <<ledger, counter, discount, rewarded>>

Redeemed(c) == Least(Wish, saw[c])

Commit(c) ==
  /\ c \in Checkouts /\ pc[c] = "commit"
  /\ IF Redeemed(c) > 0 THEN Write(-Redeemed(c), saw[c] - Redeemed(c), c) ELSE UNCHANGED ledger
  /\ counter' = IF counter = c THEN Nobody ELSE counter
  /\ Goto(c, "export")
  /\ UNCHANGED <<saw, discount, rewarded>>

RollBack(c) ==
  /\ "short" \in Faults /\ c \in Checkouts /\ pc[c] = "commit"
  /\ counter' = IF counter = c THEN Nobody ELSE counter
  /\ discount' = [discount EXCEPT ![c] = 0]
  /\ Goto(c, "failed")
  /\ UNCHANGED <<ledger, saw, rewarded>>

Accepted(c) ==
  /\ pc[c] = "export"
  /\ Goto(c, "done")
  /\ UNCHANGED <<ledger, counter, saw, discount, rewarded>>

(* compensateFailedConnectedCheckout reverses every entry of the order on  *)
(* top of the last balance, and deletes the order.                         *)
ErpRefuses(c) ==
  /\ "refused" \in Faults /\ pc[c] = "export" /\ Alone(c)
  /\ Goto(c, "restore")
  /\ UNCHANGED <<ledger, counter, saw, discount, rewarded>>

Entries(c) == {i \in DOMAIN ledger : ledger[i].order = c /\ ledger[i].delta # 0}

(* Faulty variant of Restore: on top of the balance the checkout had read. *)
RestoreOld(c) ==
  /\ c \in Checkouts /\ pc[c] = "restore"
  /\ \/ Entries(c) = {} /\ UNCHANGED ledger
     \/ \E i \in Entries(c) : Write(-ledger[i].delta, saw[c], c)
  /\ discount' = [discount EXCEPT ![c] = 0]
  /\ Goto(c, "failed")
  /\ UNCHANGED <<counter, saw, rewarded>>

(* There is one entry at most: of this order, a transaction wrote it.      *)
Restore(c) ==
  /\ c \in Checkouts /\ pc[c] = "restore"
  /\ \/ Entries(c) = {} /\ UNCHANGED ledger
     \/ \E i \in Entries(c) : Write(-ledger[i].delta, Balance - ledger[i].delta, c)
  /\ discount' = [discount EXCEPT ![c] = 0]
  /\ Goto(c, "failed")
  /\ UNCHANGED <<counter, saw, rewarded>>

-----------------------------------------------------------------------------
(* creditReferrerPoints: PENDING is looked at again inside the transaction,*)
(* without a lock.                                                         *)
StartCredit(r) ==
  /\ pc[r] = "start" /\ Alone(r)
  /\ Goto(r, IF For[r] \in rewarded THEN "done" ELSE "read")
  /\ UNCHANGED <<ledger, counter, saw, discount, rewarded>>

ReadForCredit(r) ==
  /\ r \in Credits /\ pc[r] = "read"
  /\ IF For[r] \in rewarded THEN Goto(r, "done") /\ UNCHANGED saw
     ELSE Goto(r, "write") /\ saw' = [saw EXCEPT ![r] = Balance]
  /\ UNCHANGED <<ledger, counter, discount, rewarded>>

WriteCredit(r) ==
  /\ r \in Credits /\ pc[r] = "write"
  /\ Write(Reward, saw[r] + Reward, For[r])
  /\ rewarded' = rewarded \cup {For[r]}
  /\ Goto(r, "done")
  /\ UNCHANGED <<counter, saw, discount>>

-----------------------------------------------------------------------------
Next ==
  \/ \E c \in Checkouts : \/ PreviewPointsRedemption(c) \/ Begin(c) \/ ReadBalance(c) \/ Commit(c)
                          \/ RollBack(c) \/ Accepted(c) \/ ErpRefuses(c) \/ Restore(c)
  \/ \E r \in Credits : StartCredit(r) \/ ReadForCredit(r) \/ WriteCredit(r)

Spec == Init /\ [][Next]_vars

-----------------------------------------------------------------------------
BalanceAfter(i) == IF i = 0 THEN Start ELSE ledger[i].balance

(* The balance the customer sees is what was credited less what was spent: *)
(* each entry goes on from the one before it, and none falls below zero.   *)
(* Checkouts at the same time, refused ones and rewards in between neither *)
(* lose nor invent a point.                                                *)
BalanceIsTheSum ==
  \A i \in DOMAIN ledger :
    /\ ledger[i].balance = BalanceAfter(i - 1) + ledger[i].delta
    /\ ledger[i].balance >= 0
=============================================================================
