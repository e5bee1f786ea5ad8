---------------------------- MODULE CheckoutStock ----------------------------
(***************************************************************************)
(* The stock a checkout reserves and what gives it back: cancelling the    *)
(* order, deleting it, and the compensation of a checkout the ERP refused. *)
(* A transaction takes its row locks one statement after another and holds *)
(* them to its end; PostgreSQL aborts one of those that wait in a circle.  *)
(* Lines of one variant are one line.  Not here: payment, prices, flags of *)
(* the products, the stock the ERP sends or is asked for before an order.  *)
(***************************************************************************)
EXTENDS Naturals, FiniteSets, Sequences, SequencesExt

CONSTANTS Orders, Variants,
          Lines,      \* [Orders -> sequence of variants, in the order of the cart]
          Quantity,   \* [Orders -> [Variants -> Nat]]: the pieces of a line
          Initial,    \* [Variants -> Nat]: the stock before
          ErpHas,     \* [Variants -> Nat]: what the ERP has when it refuses
          Externals,  \* which inventory modes: TRUE is EXTERNAL, exports awaited
          Callers,    \* pairs <<kind, order>> of processes, kinds below
          Faults      \* subset of {"crash", "keep", "transport"}

Kinds == {"checkout", "cancel", "cancelAgain", "remove"}

VARIABLES
  external,  \* the inventory mode of the shop; never changes
  stock,     \* [Variants -> ProductVariant.stock], uncommitted changes included
  order,     \* [Orders -> "none", "open", "cancelled" or "gone"]
  released,  \* orders whose stockReleasedAt is set
  synced,    \* orders the ERP has accepted (SYNCED, ERP_CONFLICT)
  rowLock,   \* [Variants \cup Orders \cup {"counter"} -> the process that holds the row]
  pc,        \* where each process is
  saw,       \* cancellations that read their order as accepted by the ERP, checkouts
             \* that read it as short of their lines
  todo,      \* [Callers -> lines its transaction has still to update]
  done       \* [Callers -> variants its transaction has updated]

vars == <<external, stock, order, released, synced, rowLock, pc, saw, todo, done>>

Nobody == <<"nobody">>
Rows   == Variants \cup Orders \cup {"counter"}
Kind(p) == p[1]
Of(p)   == p[2]
Ended  == {"done", "refused", "failed", "dead"}
Labels == {"start", "reserve", "export", "hint", "compensate", "giveBack", "update", "effects", "lock", "delete"}
            \cup Ended
Cart(o) == Range(Lines[o])

TypeOK ==
  /\ external \in Externals
  /\ stock \in [Variants -> Nat]
  /\ order \in [Orders -> {"none", "open", "cancelled", "gone"}]
  /\ released \subseteq Orders /\ synced \subseteq Orders
  /\ rowLock \in [Rows -> Callers \cup {Nobody}]
  /\ pc \in [Callers -> Labels]
  /\ saw \subseteq Callers
  /\ todo \in [Callers -> Seq(Variants)] /\ done \in [Callers -> SUBSET Variants]

Init ==
  /\ external \in Externals
  /\ stock = Initial
  /\ order = [o \in Orders |-> "none"]
  /\ released = {} /\ synced = {}
  /\ rowLock = [r \in Rows |-> Nobody]
  /\ pc = [p \in Callers |-> "start"]
  /\ saw = {}
  /\ todo = [p \in Callers |-> <<>>]
  /\ done = [p \in Callers |-> {}]

At(p, label)   == pc[p] = label
Goto(p, label) == pc' = [pc EXCEPT ![p] = label]

Available(r, p) == rowLock[r] \in {Nobody, p}
Lock(r, p)      == Available(r, p) /\ rowLock' = [rowLock EXCEPT ![r] = p]
Unlocked(p)     == [r \in Rows |-> IF rowLock[r] = p THEN Nobody ELSE rowLock[r]]

(* The transaction of p ends; todo and done belong to a transaction.       *)
EndTx(p, label) ==
  /\ rowLock' = Unlocked(p)
  /\ todo' = [todo EXCEPT ![p] = <<>>] /\ done' = [done EXCEPT ![p] = {}]
  /\ Goto(p, label)

(* Its updates are undone.                                                 *)
Updated(p, v) == IF v \in done[p] THEN Quantity[Of(p)][v] ELSE 0
Rollback(p, label) ==
  /\ stock' = [v \in Variants |-> IF Kind(p) = "checkout" /\ At(p, "reserve") THEN stock[v] + Updated(p, v)
                                  ELSE stock[v] - Updated(p, v)]
  /\ EndTx(p, label)
  /\ UNCHANGED <<order, released, synced>>

(* The next line, in the row lock of its variant.                          *)
Wanted(p) == Quantity[Of(p)][Head(todo[p])]
Take(p) ==
  /\ Lock(Head(todo[p]), p)
  /\ todo' = [todo EXCEPT ![p] = Tail(@)]
  /\ done' = [done EXCEPT ![p] = @ \cup {Head(todo[p])}]
AddLine(p) == stock' = [stock EXCEPT ![Head(todo[p])] = @ + Wanted(p)]

-----------------------------------------------------------------------------
(* The order's transaction: the order number is taken from a counter row,  *)
(* which stays locked, so creations run one after the other.               *)
(* Faulty variant of Begin: the number comes from a sequence.              *)
BeginUnlocked(p) ==
  /\ At(p, "start") /\ Kind(p) = "checkout"
  /\ todo' = [todo EXCEPT ![p] = Lines[Of(p)]]
  /\ Goto(p, "reserve")
  /\ UNCHANGED <<stock, order, released, synced, rowLock, saw, done>>

Begin(p) ==
  /\ At(p, "start") /\ Kind(p) = "checkout"
  /\ Lock("counter", p)
  /\ todo' = [todo EXCEPT ![p] = Lines[Of(p)]]
  /\ Goto(p, "reserve")
  /\ UNCHANGED <<stock, order, released, synced, saw, done>>

(* UPDATE ... WHERE stock >= n decides on the committed row; a line that   *)
(* is short undoes the whole order.                                        *)
Reserve(p) ==
  /\ At(p, "reserve") /\ todo[p] # <<>> /\ Available(Head(todo[p]), p)
  /\ IF stock[Head(todo[p])] >= Wanted(p)
     THEN /\ stock' = [stock EXCEPT ![Head(todo[p])] = @ - Wanted(p)]
          /\ Take(p)
          /\ UNCHANGED <<order, released, synced, pc>>
     ELSE Rollback(p, "failed")
  /\ UNCHANGED saw

Commit(p) ==
  /\ At(p, "reserve") /\ todo[p] = <<>>
  /\ order' = [order EXCEPT ![Of(p)] = "open"]
  /\ EndTx(p, IF external THEN "export" ELSE "done")
  /\ UNCHANGED <<stock, released, synced, saw>>

(* The awaited export of a connected checkout.  A transport failure keeps  *)
(* the order for the queue; a refusal keeps it if the settings say so, or  *)
(* asks for the ERP's stock, which may fail, takes it over where the order *)
(* is short, and compensates.                                              *)
Short(o) == {v \in Cart(o) : ErpHas[v] < Quantity[o][v]}

Accepted(p) ==
  /\ At(p, "export") /\ order[Of(p)] # "gone"
  /\ synced' = synced \cup {Of(p)}
  /\ Goto(p, "done")
  /\ UNCHANGED <<stock, order, released, rowLock, saw, todo, done>>

Kept(p) ==
  /\ At(p, "export") /\ Faults \cap {"transport", "keep"} # {}
  /\ synced' \in {synced} \cup (IF "keep" \in Faults THEN {synced \cup {Of(p)}} ELSE {})
  /\ Goto(p, "done")
  /\ UNCHANGED <<stock, order, released, rowLock, saw, todo, done>>

ErpRefuses(p) ==
  /\ At(p, "export")
  /\ \/ Short(Of(p)) # {} /\ Goto(p, "hint") /\ saw' = saw \cup {p}
     \/ (Short(Of(p)) = {} \/ "transport" \in Faults) /\ Goto(p, "compensate") /\ UNCHANGED saw
  /\ todo' = [todo EXCEPT ![p] = Lines[Of(p)]]
  /\ UNCHANGED <<stock, order, released, synced, rowLock, done>>

(* applyCheckoutStockHints: one statement for each line that is short,     *)
(* committed at once.                                                      *)
Hint(p) ==
  /\ At(p, "hint") /\ todo[p] # <<>>
  /\ IF Head(todo[p]) \in Short(Of(p))
     THEN /\ rowLock[Head(todo[p])] = Nobody
          /\ stock' = [stock EXCEPT ![Head(todo[p])] = ErpHas[Head(todo[p])]]
     ELSE UNCHANGED stock
  /\ LET rest == Tail(todo[p]) IN
     /\ Goto(p, IF rest = <<>> THEN "compensate" ELSE "hint")
     /\ todo' = [todo EXCEPT ![p] = IF rest = <<>> THEN Lines[Of(p)] ELSE rest]
  /\ UNCHANGED <<order, released, synced, rowLock, saw, done>>

Compensate(p) ==
  /\ At(p, "compensate") /\ todo[p] # <<>>
  /\ AddLine(p) /\ Take(p)
  /\ UNCHANGED <<order, released, synced, pc, saw>>

CompensateDelete(p) ==
  /\ At(p, "compensate") /\ todo[p] = <<>> /\ Available(Of(p), p)
  /\ IF order[Of(p)] = "gone"
     THEN Rollback(p, "failed")
     ELSE /\ order' = [order EXCEPT ![Of(p)] = "gone"]
          /\ EndTx(p, "refused")
          /\ UNCHANGED <<stock, released, synced>>
  /\ UNCHANGED saw

-----------------------------------------------------------------------------
(* patch to CANCELLED: the order is read, then updated whatever it is now, *)
(* then the side effects act on what was read.                             *)
StartCancel(p) ==
  /\ At(p, "start") /\ Kind(p) \in {"cancel", "cancelAgain"} /\ order[Of(p)] = "open"
  /\ saw' = IF Of(p) \in synced THEN saw \cup {p} ELSE saw
  /\ Goto(p, "update")
  /\ UNCHANGED <<stock, order, released, synced, rowLock, todo, done>>

Update(p) ==
  /\ At(p, "update") /\ rowLock[Of(p)] = Nobody
  /\ IF order[Of(p)] = "gone" THEN Goto(p, "failed") /\ UNCHANGED order
     ELSE Goto(p, "effects") /\ order' = [order EXCEPT ![Of(p)] = "cancelled"]
  /\ UNCHANGED <<stock, released, synced, rowLock, saw, todo, done>>

Effects(p) ==
  /\ At(p, "effects")
  /\ IF external /\ p \in saw
     THEN /\ rowLock[Of(p)] = Nobody
          /\ released' = IF order[Of(p)] = "gone" THEN released ELSE released \cup {Of(p)}
          /\ Goto(p, "done")
     ELSE Goto(p, "lock") /\ UNCHANGED released
  /\ UNCHANGED <<stock, order, synced, rowLock, saw, todo, done>>

(* releaseLocalStockReservation: the order's row is locked before          *)
(* stockReleasedAt is looked at.                                           *)
AfterRelease(p) == IF Kind(p) = "remove" THEN "delete" ELSE "done"

(* Faulty variant of LockOrder: what the caller read before is believed.   *)
LockUnchecked(p) ==
  /\ At(p, "lock") /\ Lock(Of(p), p)
  /\ Goto(p, "giveBack") /\ todo' = [todo EXCEPT ![p] = Lines[Of(p)]]
  /\ UNCHANGED <<stock, order, released, synced, saw, done>>

LockOrder(p) ==
  /\ At(p, "lock") /\ Available(Of(p), p)
  /\ IF order[Of(p)] = "gone" \/ Of(p) \in released
     THEN Goto(p, AfterRelease(p)) /\ UNCHANGED <<rowLock, todo>>
     ELSE /\ Lock(Of(p), p)
          /\ Goto(p, "giveBack") /\ todo' = [todo EXCEPT ![p] = Lines[Of(p)]]
  /\ UNCHANGED <<stock, order, released, synced, saw, done>>

GiveBack(p) ==
  /\ At(p, "giveBack") /\ todo[p] # <<>>
  /\ AddLine(p) /\ Take(p)
  /\ UNCHANGED <<order, released, synced, pc, saw>>

Released(p) ==
  /\ At(p, "giveBack") /\ todo[p] = <<>>
  /\ released' = released \cup {Of(p)}
  /\ EndTx(p, AfterRelease(p))
  /\ UNCHANGED <<stock, order, synced, saw>>

(* remove: the reservation goes back unless the ERP owns it, in a          *)
(* transaction of its own, then the row is deleted.                        *)
StartRemove(p) ==
  /\ At(p, "start") /\ Kind(p) = "remove" /\ order[Of(p)] \in {"open", "cancelled"}
  /\ Goto(p, IF Of(p) \notin released /\ ~(external /\ Of(p) \in synced) THEN "lock" ELSE "delete")
  /\ UNCHANGED <<stock, order, released, synced, rowLock, saw, todo, done>>

Delete(p) ==
  /\ At(p, "delete") /\ rowLock[Of(p)] = Nobody
  /\ IF order[Of(p)] = "gone" THEN Goto(p, "failed") /\ UNCHANGED order
     ELSE Goto(p, "done") /\ order' = [order EXCEPT ![Of(p)] = "gone"]
  /\ UNCHANGED <<stock, released, synced, rowLock, saw, todo, done>>

-----------------------------------------------------------------------------
(* p waits for a row q holds; one of two that wait for each other is       *)
(* aborted, its caller gets an error.                                      *)
InTx(p) == pc[p] \in {"reserve", "giveBack", "compensate"}
Wants(p) == IF todo[p] # <<>> THEN Head(todo[p]) ELSE Of(p)
WaitsFor(p, q) == InTx(p) /\ p # q /\ rowLock[Wants(p)] = q

Deadlocked(p) ==
  /\ \E q \in Callers : WaitsFor(p, q) /\ WaitsFor(q, p)
  /\ Rollback(p, "failed") /\ UNCHANGED saw

Crash(p) ==
  /\ "crash" \in Faults /\ ~\E q \in Callers : At(q, "dead")
  /\ pc[p] \notin Ended \cup {"start"}
  /\ Rollback(p, "dead") /\ UNCHANGED saw

CheckoutStep(p) ==
  Begin(p) \/ Reserve(p) \/ Commit(p) \/ Accepted(p) \/ Kept(p) \/ ErpRefuses(p) \/ Hint(p) \/ Compensate(p)
    \/ CompensateDelete(p)
CancelStep(p) == StartCancel(p) \/ Update(p) \/ Effects(p) \/ LockOrder(p) \/ GiveBack(p) \/ Released(p)
RemoveStep(p) == StartRemove(p) \/ Delete(p)

Next ==
  /\ \E p \in Callers : CheckoutStep(p) \/ CancelStep(p) \/ RemoveStep(p) \/ Deadlocked(p) \/ Crash(p)
  /\ UNCHANGED external

Spec == Init /\ [][Next]_vars

-----------------------------------------------------------------------------
(* Pieces are counted by the orders they belong to.                        *)
Total(q, os) == Cardinality(UNION {{o} \X (1..q[o]) : o \in os})

Reserved(v) == Total([o \in Orders |-> Quantity[o][v]],
                     {o \in Orders : order[o] \in {"open", "cancelled"} /\ o \notin released /\ v \in Cart(o)})

(* What refused checkouts may leave on the shelf: the figure of the ERP,   *)
(* to which the compensation adds the line; the line once more, where a    *)
(* cancellation gave it back while the export was awaited.  A checkout     *)
(* that dies among its hints counts as past them.                          *)
Checkout(o) == {p \in Callers : Kind(p) = "checkout" /\ Of(p) = o}
Hinted(v)  == {o \in Orders : v \in Short(o) /\ \E p \in Checkout(o) \cap saw : v \notin Range(todo[p]) \/ ~At(p, "hint")}
Doubled(v) == {o \in released : v \in Cart(o) /\ \E p \in Checkout(o) : At(p, "refused")}
Surplus(v) == Total([o \in Orders |-> ErpHas[v]], Hinted(v)) + Total([o \in Orders |-> Quantity[o][v]], Doubled(v))

(* Between transactions the pieces on the shelf and those reserved by      *)
(* orders are what there was, where the shop keeps the stock itself, and   *)
(* not more but for that surplus, where the ERP does: repeated and         *)
(* concurrent cancellations, deletions, aborted transactions and crashes   *)
(* give a reservation back once (REL-002, REL-003).                        *)
StockAddsUp ==
  (\A p \in Callers : done[p] = {}) =>
    \A v \in Variants : IF external THEN stock[v] + Reserved(v) <= Initial[v] + Surplus(v)
                                    ELSE stock[v] + Reserved(v) = Initial[v]

(* Customers whose carts list the same plants in another order never make  *)
(* the database refuse one of them: only a cancellation or a compensation  *)
(* can be the other half of a deadlock.                                    *)
CheckoutsDoNotDeadlock ==
  ~\E p, q \in Callers : At(p, "reserve") /\ At(q, "reserve") /\ WaitsFor(p, q) /\ WaitsFor(q, p)
=============================================================================
