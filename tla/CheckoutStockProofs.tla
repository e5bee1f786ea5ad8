------------------------- MODULE CheckoutStockProofs -------------------------
(* Theorems about CheckoutStock, for every set of orders, carts, callers   *)
(* and faults that StockHypothesis admits.                                 *)
EXTENDS CheckoutStock, FiniteSetTheorems, TLAPS

(* The database names orders, variants and the counter apart; a cart lists *)
(* a variant once; a caller is one of the operations on an order.          *)
Distinct(s) == \A i, j \in 1..Len(s) : s[i] = s[j] => i = j

StockHypothesis ==
  /\ IsFiniteSet(Orders)
  /\ Variants \cap Orders = {} /\ "counter" \notin Variants \cup Orders
  /\ Callers \subseteq Kinds \X Orders
  /\ \A o \in Orders : Lines[o] \in Seq(Variants) /\ Distinct(Lines[o])
  /\ Quantity \in [Orders -> [Variants -> Nat]]
  /\ Initial \in [Variants -> Nat] /\ ErpHas \in [Variants -> Nat] /\ Externals \subseteq BOOLEAN

(* Where a checkout is, where a cancellation or a removal is, and where a  *)
(* transaction updates the rows of variants.                               *)
Orderings == {"reserve", "export", "hint", "compensate"}
Cancels   == {"update", "effects", "lock", "giveBack", "delete"}
Updates   == {"reserve", "giveBack", "compensate"}

(* A row is held by the transaction that has updated or locked it.         *)
RowsHeld ==
  /\ \A v \in Variants, p \in Callers : rowLock[v] = p <=> v \in done[p]
  /\ \A o \in Orders, p \in Callers : rowLock[o] = p <=> (pc[p] = "giveBack" /\ Of(p) = o)
  /\ \A p \in Callers : pc[p] = "reserve" => rowLock["counter"] = p

(* The lines a transaction has updated and those it has still to update    *)
(* are the cart.                                                           *)
Carried ==
  \A p \in Callers :
    /\ pc[p] \in Updates =>
         /\ done[p] \cup Range(todo[p]) = Cart(Of(p))
         /\ done[p] \cap Range(todo[p]) = {}
    /\ Distinct(todo[p])
    /\ pc[p] \notin Updates => done[p] = {}

Reserving(o) == order[o] \in {"open", "cancelled"} /\ o \notin released

(* What each step of a caller knows of its order: it gives a reservation   *)
(* back only while there is one.                                           *)
PhaseOf(p) ==
  /\ pc[p] \in Orderings => Kind(p) = "checkout"
  /\ pc[p] \in Cancels => Kind(p) # "checkout"
  /\ Kind(p) = "checkout" /\ pc[p] \in {"start", "reserve"} => order[Of(p)] = "none"
  /\ pc[p] \in {"export", "hint", "compensate"} \cup Cancels => order[Of(p)] # "none"
  /\ pc[p] \in {"export", "hint", "compensate"} => external
  /\ pc[p] = "giveBack" => Reserving(Of(p))
  /\ pc[p] = "delete" /\ ~external => ~Reserving(Of(p))

Phases ==
  /\ \A p \in Callers : PhaseOf(p)
  /\ \A o \in released : order[o] # "none"

(* A checkout has been told what the ERP has when it writes that down, not *)
(* before its export.                                                      *)
Asks ==
  \A p \in Callers :
    /\ pc[p] = "hint" => p \in saw /\ Kind(p) = "checkout"
    /\ Kind(p) = "checkout" /\ p \in saw => pc[p] \notin {"start", "reserve", "export"}

Typed ==
  /\ external \in Externals
  /\ stock \in [Variants -> Int]
  /\ order \in [Orders -> {"none", "open", "cancelled", "gone"}]
  /\ released \subseteq Orders /\ synced \subseteq Orders /\ saw \subseteq Callers

Locks ==
  /\ rowLock \in [Rows -> Callers \cup {Nobody}]
  /\ pc \in [Callers -> Labels]
  /\ todo \in [Callers -> Seq(Variants)] /\ done \in [Callers -> SUBSET Variants]
  /\ RowsHeld /\ Carried

ShelfInv == Typed /\ Locks /\ Phases /\ Asks

(* No step of p makes another caller move; it reaches its hints from the   *)
(* export, whose answer it has then seen, and does not come back to them.  *)
Onwards(p) ==
  /\ \A q \in Callers : q # p => pc'[q] = pc[q] /\ todo'[q] = todo[q]
  /\ saw \subseteq saw' /\ saw' \subseteq (saw \cup {p}) /\ released \subseteq released'
  /\ pc[p] # "refused"
  /\ pc'[p] = "hint" => \/ pc[p] = "export" /\ p \in saw'
                        \/ pc[p] = "hint" /\ Range(todo'[p]) \subseteq Range(todo[p])
  /\ Kind(p) = "checkout" /\ p \in saw' => p \in saw \/ pc'[p] = "hint"
  /\ pc[p] \notin {"start", "reserve", "export"} => pc'[p] \notin {"start", "reserve", "export"}

(* What refused checkouts may leave on the shelf is never taken back.      *)
Grows == \A v \in Variants : Hinted(v) \subseteq Hinted(v)' /\ Doubled(v) \subseteq Doubled(v)'

(* The stock as it will be if no transaction under way commits; with the   *)
(* reservations it adds up at every moment, where StockAddsUp says so only *)
(* between transactions.                                                   *)
Pieces(p, v) == Quantity[Of(p)][v]
Committed(v) ==
  IF rowLock[v] = Nobody THEN stock[v]
  ELSE IF pc[rowLock[v]] = "reserve" THEN stock[v] + Pieces(rowLock[v], v) ELSE stock[v] - Pieces(rowLock[v], v)

(* What an order has reserved of a variant.                                *)
Part(o, v) == IF Reserving(o) /\ v \in Cart(o) THEN Quantity[o][v] ELSE 0

Balanced ==
  \A v \in Variants :
    /\ stock[v] >= 0 /\ Committed(v) >= 0
    /\ external  => Committed(v) + Reserved(v) <= Initial[v] + Surplus(v)
    /\ ~external => Committed(v) + Reserved(v) = Initial[v]

-----------------------------------------------------------------------------
(* A transaction takes the first of its lines; the others remain.          *)
LEMMA NextLine ==
  ASSUME NEW s \in Seq(Variants), s # <<>>, Distinct(s)
  PROVE  /\ Head(s) \in Variants /\ Head(s) \in Range(s)
         /\ Tail(s) \in Seq(Variants) /\ Distinct(Tail(s))
         /\ Range(Tail(s)) = Range(s) \ {Head(s)}
<1>1. /\ Head(s) = s[1] /\ Len(s) \in Nat /\ Len(s) >= 1 /\ Tail(s) \in Seq(Variants) /\ Len(Tail(s)) = Len(s) - 1
      /\ DOMAIN s = 1..Len(s) /\ DOMAIN Tail(s) = 1..Len(Tail(s))
      /\ \A i \in 1..Len(Tail(s)) : Tail(s)[i] = s[i + 1]
  OBVIOUS
<1>2. Head(s) \in Variants /\ Head(s) \in Range(s)
  BY <1>1 DEF Range
<1>3. Distinct(Tail(s))
  BY <1>1 DEF Distinct
<1>4. Range(Tail(s)) \subseteq Range(s) \ {Head(s)}
  BY <1>1 DEF Range, Distinct
<1>5. ASSUME NEW v \in Range(s), v # Head(s) PROVE v \in Range(Tail(s))
  <2>1. PICK i \in 1..Len(s) : v = s[i]
    BY <1>1 DEF Range
  <2>2. i - 1 \in 1..Len(Tail(s)) /\ Tail(s)[i - 1] = v
    BY <1>1, <1>5, <2>1
  <2> QED BY <1>1, <2>2 DEF Range
<1> QED BY <1>1, <1>2, <1>3, <1>4, <1>5

(* A caller is its operation and its order; its rows are three kinds apart. *)
LEMMA CallersAre ==
  ASSUME StockHypothesis
  PROVE  /\ Nobody \notin Callers
         /\ \A p \in Callers : Kind(p) \in Kinds /\ Of(p) \in Orders
         /\ \A p, q \in Callers : Kind(p) = Kind(q) /\ Of(p) = Of(q) => p = q
         /\ Orders \subseteq Rows /\ Variants \subseteq Rows /\ "counter" \in Rows
         /\ \A o \in Orders : o \notin Variants /\ o # "counter" /\ "counter" \notin Variants
<1>1. \A p \in Callers : p \in Kinds \X Orders
  BY DEF StockHypothesis
<1>2. Nobody \notin Callers
  BY <1>1 DEF Nobody
<1>3. /\ \A p \in Callers : Kind(p) \in Kinds /\ Of(p) \in Orders
      /\ \A p, q \in Callers : Kind(p) = Kind(q) /\ Of(p) = Of(q) => p = q
  BY <1>1 DEF Kind, Of
<1> QED BY <1>2, <1>3 DEF StockHypothesis, Rows

(* It updates the row of its next line, which nobody holds (Take).         *)
LEMMA Takes ==
  ASSUME StockHypothesis, Locks, NEW p \in Callers, pc[p] \in Updates, todo[p] # <<>>, Take(p), UNCHANGED pc
  PROVE  /\ Locks'
         /\ Head(todo[p]) \in Variants /\ rowLock[Head(todo[p])] = Nobody /\ rowLock'[Head(todo[p])] = p
         /\ \A v \in Variants : v # Head(todo[p]) => rowLock'[v] = rowLock[v]
<1>1. /\ rowLock \in [Rows -> Callers \cup {Nobody}]
      /\ pc \in [Callers -> Labels]
      /\ todo \in [Callers -> Seq(Variants)] /\ done \in [Callers -> SUBSET Variants]
  BY DEF Locks
<1>2. /\ \A v \in Variants, q \in Callers : rowLock[v] = q <=> v \in done[q]
      /\ \A o \in Orders, q \in Callers : rowLock[o] = q <=> (pc[q] = "giveBack" /\ Of(q) = o)
      /\ \A q \in Callers : pc[q] = "reserve" => rowLock["counter"] = q
  BY DEF Locks, RowsHeld
<1>3. \A q \in Callers :
        /\ pc[q] \in Updates =>
             /\ done[q] \cup Range(todo[q]) = Cart(Of(q))
             /\ done[q] \cap Range(todo[q]) = {}
        /\ Distinct(todo[q])
        /\ pc[q] \notin Updates => done[q] = {}
  BY DEF Locks, Carried
<1> DEFINE h == Head(todo[p])
           t == Tail(todo[p])
<1>4. /\ h \in Variants /\ h \in Range(todo[p]) /\ t \in Seq(Variants) /\ Distinct(t)
      /\ Range(t) = Range(todo[p]) \ {h}
  BY <1>1, <1>3, NextLine
<1>5. /\ rowLock[h] \in {Nobody, p} /\ rowLock' = [rowLock EXCEPT ![h] = p]
      /\ todo' = [todo EXCEPT ![p] = t] /\ done' = [done EXCEPT ![p] = done[p] \cup {h}]
  BY DEF Take, Lock, Available
<1> HIDE DEF h, t
<1>6. rowLock[h] = Nobody
  BY <1>2, <1>3, <1>4, <1>5
<1>7. /\ rowLock' \in [Rows -> Callers \cup {Nobody}]
      /\ todo' \in [Callers -> Seq(Variants)] /\ done' \in [Callers -> SUBSET Variants]
      /\ rowLock'[h] = p /\ \A r \in Rows : r # h => rowLock'[r] = rowLock[r]
      /\ todo'[p] = t /\ done'[p] = done[p] \cup {h}
      /\ \A q \in Callers : q # p => todo'[q] = todo[q] /\ done'[q] = done[q]
  BY <1>1, <1>4, <1>5, CallersAre
<1>8. RowsHeld'
  <2>1. ASSUME NEW v \in Variants, NEW q \in Callers PROVE rowLock'[v] = q <=> v \in done'[q]
    <3>1. v \in Rows /\ Nobody \notin Callers /\ (rowLock[v] = q <=> v \in done[q])
      BY <1>2, CallersAre
    <3>2. CASE v = h
      BY <1>4, <1>6, <1>7, <3>1, <3>2
    <3>3. CASE v # h
      BY <1>7, <3>1, <3>3
    <3> QED BY <3>2, <3>3
  <2>2. ASSUME NEW o \in Orders, NEW q \in Callers
        PROVE  rowLock'[o] = q <=> (pc'[q] = "giveBack" /\ Of(q) = o)
    BY <1>2, <1>4, <1>7, CallersAre
  <2>3. ASSUME NEW q \in Callers, pc'[q] = "reserve" PROVE rowLock'["counter"] = q
    BY <1>2, <1>4, <1>7, <2>3, CallersAre
  <2> QED BY <2>1, <2>2, <2>3 DEF RowsHeld
<1>9. Carried'
  <2> SUFFICES ASSUME NEW q \in Callers
               PROVE  /\ pc'[q] \in Updates =>
                           /\ done'[q] \cup Range(todo'[q]) = Cart(Of(q))
                           /\ done'[q] \cap Range(todo'[q]) = {}
                      /\ Distinct(todo'[q])
                      /\ pc'[q] \notin Updates => done'[q] = {}
    BY DEF Carried, Distinct
  <2>1. CASE q = p
    BY <1>3, <1>4, <1>7, <2>1
  <2>2. CASE q # p
    BY <1>3, <1>7, <2>2
  <2> QED BY <2>1, <2>2
<1>10. \A v \in Variants : v # h => rowLock'[v] = rowLock[v]
  BY <1>7, CallersAre
<1> QED BY <1>1, <1>4, <1>6, <1>7, <1>8, <1>9, <1>10 DEF Locks, h

(* Its transaction commits or rolls back, and its locks are free (EndTx).  *)
LEMMA Ends ==
  ASSUME StockHypothesis, Locks, NEW p \in Callers, NEW l \in Labels \ Updates, EndTx(p, l)
  PROVE  /\ Locks'
         /\ pc' = [pc EXCEPT ![p] = l]
         /\ \A v \in Variants : rowLock'[v] = IF v \in done[p] THEN Nobody ELSE rowLock[v]
<1>1. /\ rowLock \in [Rows -> Callers \cup {Nobody}]
      /\ pc \in [Callers -> Labels]
      /\ todo \in [Callers -> Seq(Variants)] /\ done \in [Callers -> SUBSET Variants]
  BY DEF Locks
<1>2. /\ \A v \in Variants, q \in Callers : rowLock[v] = q <=> v \in done[q]
      /\ \A o \in Orders, q \in Callers : rowLock[o] = q <=> (pc[q] = "giveBack" /\ Of(q) = o)
      /\ \A q \in Callers : pc[q] = "reserve" => rowLock["counter"] = q
  BY DEF Locks, RowsHeld
<1>3. \A q \in Callers :
        /\ pc[q] \in Updates =>
             /\ done[q] \cup Range(todo[q]) = Cart(Of(q))
             /\ done[q] \cap Range(todo[q]) = {}
        /\ Distinct(todo[q])
        /\ pc[q] \notin Updates => done[q] = {}
  BY DEF Locks, Carried
<1>4. /\ rowLock' = [r \in Rows |-> IF rowLock[r] = p THEN Nobody ELSE rowLock[r]]
      /\ todo' = [todo EXCEPT ![p] = <<>>] /\ done' = [done EXCEPT ![p] = {}]
      /\ pc' = [pc EXCEPT ![p] = l]
  BY DEF EndTx, Unlocked, Goto
<1>5. /\ rowLock' \in [Rows -> Callers \cup {Nobody}] /\ pc' \in [Callers -> Labels]
      /\ todo' \in [Callers -> Seq(Variants)] /\ done' \in [Callers -> SUBSET Variants]
      /\ \A r \in Rows : rowLock'[r] = IF rowLock[r] = p THEN Nobody ELSE rowLock[r]
      /\ pc'[p] = l /\ todo'[p] = <<>> /\ done'[p] = {}
      /\ \A q \in Callers : q # p => pc'[q] = pc[q] /\ todo'[q] = todo[q] /\ done'[q] = done[q]
  BY <1>1, <1>4
<1>6. RowsHeld'
  <2>1. ASSUME NEW v \in Variants, NEW q \in Callers PROVE rowLock'[v] = q <=> v \in done'[q]
    BY <1>2, <1>5, CallersAre
  <2>2. ASSUME NEW o \in Orders, NEW q \in Callers
        PROVE  rowLock'[o] = q <=> (pc'[q] = "giveBack" /\ Of(q) = o)
    <3>1. o \in Rows /\ Nobody \notin Callers
      BY CallersAre
    <3>2. CASE q = p
      BY <1>2, <1>5, <3>1, <3>2 DEF Updates
    <3>3. CASE q # p
      <4>1. rowLock'[o] = IF rowLock[o] = p THEN Nobody ELSE rowLock[o]
        BY <1>5, <3>1
      <4>2. rowLock[o] = q <=> (pc[q] = "giveBack" /\ Of(q) = o)
        BY <1>2
      <4>3. rowLock'[o] = q <=> rowLock[o] = q
        BY <3>1, <3>3, <4>1
      <4> QED BY <1>5, <3>3, <4>2, <4>3
    <3> QED BY <3>2, <3>3
  <2>3. ASSUME NEW q \in Callers, pc'[q] = "reserve" PROVE rowLock'["counter"] = q
    BY <1>2, <1>5, <2>3, CallersAre DEF Updates
  <2> QED BY <2>1, <2>2, <2>3 DEF RowsHeld
<1>7. Carried'
  <2> SUFFICES ASSUME NEW q \in Callers
               PROVE  /\ pc'[q] \in Updates =>
                           /\ done'[q] \cup Range(todo'[q]) = Cart(Of(q))
                           /\ done'[q] \cap Range(todo'[q]) = {}
                      /\ Distinct(todo'[q])
                      /\ pc'[q] \notin Updates => done'[q] = {}
    BY DEF Carried, Distinct
  <2>1. CASE q = p
    BY <1>5, <2>1 DEF Distinct
  <2>2. CASE q # p
    BY <1>3, <1>5, <2>2
  <2> QED BY <2>1, <2>2
<1>8. \A v \in Variants : rowLock'[v] = IF v \in done[p] THEN Nobody ELSE rowLock[v]
  BY <1>2, <1>5, CallersAre
<1> QED BY <1>4, <1>5, <1>6, <1>7, <1>8 DEF Locks

-----------------------------------------------------------------------------

(* Locks, lines and phases hold in every state of every interleaving, and  *)
(* no step takes back what a refused checkout may leave.                   *)
LEMMA ShelfHolds == ASSUME StockHypothesis PROVE Spec => []ShelfInv /\ [][Grows]_vars
(* Every step goes onwards, so that neither its hints nor what it has seen *)
(* are undone.                                                             *)
<1>Asked. ASSUME StockHypothesis, ShelfInv, [Next]_vars PROVE Asks' /\ [Grows]_vars
  <2> USE <1>Asked
  <2>a. /\ pc \in [Callers -> Labels] /\ todo \in [Callers -> Seq(Variants)] /\ Asks
        /\ \A p \in Callers : Distinct(todo[p]) /\ (pc[p] = "export" => Kind(p) = "checkout")
    BY DEF ShelfInv, Locks, Carried, Phases, PhaseOf, Orderings
  <2>b. ASSUME NEW p \in Callers, NEW l \in {"failed", "dead"}, Rollback(p, l), UNCHANGED saw, pc[p] # "refused"
        PROVE  Onwards(p)
    BY <2>a, <2>b DEF Rollback, EndTx, Goto, Onwards
  <2>1. ASSUME NEW p \in Callers, Begin(p) \/ Accepted(p) \/ Kept(p) PROVE Onwards(p)
    BY <2>a, <2>1 DEF Begin, Accepted, Kept, At, Goto, Onwards
  <2>2. ASSUME NEW p \in Callers, Reserve(p) PROVE Onwards(p)
    <3>1. CASE stock[Head(todo[p])] >= Wanted(p)
      BY <2>a, <2>2, <3>1 DEF Reserve, Take, At, Onwards
    <3>2. CASE ~(stock[Head(todo[p])] >= Wanted(p))
      BY <2>b, <2>2, <3>2 DEF Reserve, At
    <3> QED BY <3>1, <3>2
  <2>3. ASSUME NEW p \in Callers, Commit(p) PROVE Onwards(p)
    BY <2>a, <2>3 DEF Commit, EndTx, At, Goto, Onwards
  <2>4. ASSUME NEW p \in Callers, ErpRefuses(p) PROVE Onwards(p)
    BY <2>a, <2>4 DEF ErpRefuses, At, Goto, Onwards
  <2>5. ASSUME NEW p \in Callers, Hint(p) PROVE Onwards(p)
    <3>1. todo[p] # <<>> /\ Range(Tail(todo[p])) \subseteq Range(todo[p])
      BY <2>a, <2>5, NextLine DEF Hint
    <3> QED BY <2>a, <2>5, <3>1 DEF Hint, At, Goto, Onwards
  <2>6. ASSUME NEW p \in Callers, Compensate(p) \/ GiveBack(p) PROVE Onwards(p)
    BY <2>a, <2>6 DEF Compensate, GiveBack, Take, At, Onwards
  <2>7. ASSUME NEW p \in Callers, CompensateDelete(p) PROVE Onwards(p)
    <3>1. CASE order[Of(p)] = "gone"
      BY <2>b, <2>7, <3>1 DEF CompensateDelete, At
    <3>2. CASE order[Of(p)] # "gone"
      BY <2>a, <2>7, <3>2 DEF CompensateDelete, EndTx, At, Goto, Onwards
    <3> QED BY <3>1, <3>2
  <2>8. ASSUME NEW p \in Callers, StartCancel(p) \/ StartRemove(p) PROVE Onwards(p)
    BY <2>a, <2>8 DEF StartCancel, StartRemove, At, Goto, Onwards
  <2>9. ASSUME NEW p \in Callers, Update(p) \/ Effects(p) \/ Delete(p) PROVE Onwards(p)
    BY <2>a, <2>9 DEF Update, Effects, Delete, At, Goto, Onwards
  <2>10. ASSUME NEW p \in Callers, LockOrder(p) PROVE Onwards(p)
    BY <2>a, <2>10 DEF LockOrder, AfterRelease, At, Goto, Onwards
  <2>11. ASSUME NEW p \in Callers, Released(p) PROVE Onwards(p)
    BY <2>a, <2>11 DEF Released, AfterRelease, EndTx, At, Goto, Onwards
  <2>12. ASSUME NEW p \in Callers, Deadlocked(p) \/ Crash(p) PROVE Onwards(p)
    BY <2>b, <2>12 DEF Deadlocked, InTx, WaitsFor, Crash, Ended
  <2>13. Next => \E p \in Callers : Onwards(p)
    BY <2>1, <2>2, <2>3, <2>4, <2>5, <2>6, <2>7, <2>8, <2>9, <2>10, <2>11, <2>12
    DEF Next, CheckoutStep, CancelStep, RemoveStep
  <2>14. ASSUME NEW p \in Callers, Onwards(p) PROVE Asks' /\ Grows
    <3>1. Asks'
      <4> SUFFICES ASSUME NEW q \in Callers
                   PROVE  /\ pc'[q] = "hint" => q \in saw' /\ Kind(q) = "checkout"
                          /\ Kind(q) = "checkout" /\ q \in saw' => pc'[q] \notin {"start", "reserve", "export"}
        BY DEF Asks
      <4>1. CASE q # p
        BY <2>a, <2>14, <4>1 DEF Asks, Onwards
      <4>2. CASE q = p
        BY <2>a, <2>14, <4>2 DEF Asks, Onwards
      <4> QED BY <4>1, <4>2
    <3>2. ASSUME NEW v \in Variants, NEW o \in Hinted(v) PROVE o \in Hinted(v)'
      <4>1. o \in Orders /\ v \in Short(o)
        BY <3>2 DEF Hinted
      <4>2. PICK q \in Checkout(o) \cap saw : v \notin Range(todo[q]) \/ pc[q] # "hint"
        BY <3>2 DEF Hinted, At
      <4>3. q \in Callers /\ Kind(q) = "checkout" /\ q \in saw' /\ pc[q] \notin {"start", "reserve", "export"}
        BY <2>a, <2>14, <4>2 DEF Asks, Onwards, Checkout
      <4>4. v \notin Range(todo'[q]) \/ pc'[q] # "hint"
        BY <2>14, <4>2, <4>3 DEF Onwards
      <4> QED BY <4>1, <4>2, <4>3, <4>4 DEF Hinted, At, Checkout, Short, Cart, Range
    <3>3. ASSUME NEW v \in Variants, NEW o \in Doubled(v) PROVE o \in Doubled(v)'
      BY <2>a, <2>14, <3>3 DEF Doubled, At, Onwards, Checkout, Cart, Range
    <3> QED BY <3>1, <3>2, <3>3 DEF Grows
  <2>15. CASE UNCHANGED vars
    BY <2>a, <2>15 DEF vars, Asks
  <2> QED BY <2>13, <2>14, <2>15
(* Locks, lines and phases hold through every step of every caller, its    *)
(* failures and the end the database puts to a deadlock among them.        *)
<1>ShelfStep. ASSUME StockHypothesis PROVE ShelfInv /\ [Next]_vars => ShelfInv'
  <2> USE <1>ShelfStep
  (* A caller starts a transaction or moves between transactions (Begin,     *)
  (* LockOrder, ErpRefuses, Goto): the locks stay those of its rows.         *)
  <2>Moves.
      ASSUME StockHypothesis, Locks, NEW p \in Callers, NEW l \in Labels, NEW s \in Seq(Variants), Distinct(s),
             pc[p] \notin Updates, l \in Updates => s = Lines[Of(p)],
             pc' = [pc EXCEPT ![p] = l], todo' = [todo EXCEPT ![p] = s], UNCHANGED done,
             \/ l \notin {"reserve", "giveBack"} /\ UNCHANGED rowLock
             \/ l = "reserve" /\ Lock("counter", p)
             \/ l = "giveBack" /\ Lock(Of(p), p)
      PROVE  Locks'
    <3> USE <2>Moves
    <3>1. /\ rowLock \in [Rows -> Callers \cup {Nobody}]
          /\ pc \in [Callers -> Labels]
          /\ todo \in [Callers -> Seq(Variants)] /\ done \in [Callers -> SUBSET Variants]
      BY DEF Locks
    <3>2. /\ \A v \in Variants, q \in Callers : rowLock[v] = q <=> v \in done[q]
          /\ \A o \in Orders, q \in Callers : rowLock[o] = q <=> (pc[q] = "giveBack" /\ Of(q) = o)
          /\ \A q \in Callers : pc[q] = "reserve" => rowLock["counter"] = q
      BY DEF Locks, RowsHeld
    <3>3. \A q \in Callers :
            /\ pc[q] \in Updates =>
                 /\ done[q] \cup Range(todo[q]) = Cart(Of(q))
                 /\ done[q] \cap Range(todo[q]) = {}
            /\ Distinct(todo[q])
            /\ pc[q] \notin Updates => done[q] = {}
      BY DEF Locks, Carried
    <3>4. /\ pc' \in [Callers -> Labels] /\ todo' \in [Callers -> Seq(Variants)]
          /\ pc'[p] = l /\ todo'[p] = s /\ done[p] = {}
          /\ \A q \in Callers : q # p => pc'[q] = pc[q] /\ todo'[q] = todo[q]
      BY <3>1, <3>3
    <3>5. \/ rowLock' = rowLock /\ l \notin {"reserve", "giveBack"}
          \/ rowLock' = [rowLock EXCEPT !["counter"] = p] /\ rowLock["counter"] \in {Nobody, p} /\ l = "reserve"
          \/ rowLock' = [rowLock EXCEPT ![Of(p)] = p] /\ rowLock[Of(p)] \in {Nobody, p} /\ l = "giveBack"
      BY DEF Lock, Available
    <3>6. rowLock' \in [Rows -> Callers \cup {Nobody}] /\ \A v \in Variants : rowLock'[v] = rowLock[v]
      <4>1. Of(p) \in Rows /\ "counter" \in Rows /\ "counter" \notin Variants /\ Of(p) \notin Variants
            /\ Variants \subseteq Rows
        BY CallersAre
      <4>2. CASE rowLock' = rowLock
        BY <3>1, <4>2
      <4>3. CASE rowLock' = [rowLock EXCEPT !["counter"] = p]
        BY <3>1, <4>1, <4>3
      <4>4. CASE rowLock' = [rowLock EXCEPT ![Of(p)] = p]
        BY <3>1, <4>1, <4>4
      <4> QED BY <3>5, <4>2, <4>3, <4>4
    <3>7. RowsHeld'
      <4>1. \A v \in Variants, q \in Callers : rowLock'[v] = q <=> v \in done'[q]
        BY <3>2, <3>6
      <4>2. ASSUME NEW o \in Orders, NEW q \in Callers
            PROVE  rowLock'[o] = q <=> (pc'[q] = "giveBack" /\ Of(q) = o)
        BY <3>1, <3>2, <3>4, <3>5, CallersAre DEF Updates
      <4>3. ASSUME NEW q \in Callers, pc'[q] = "reserve" PROVE rowLock'["counter"] = q
        BY <3>1, <3>2, <3>4, <3>5, <4>3, CallersAre DEF Updates
      <4> QED BY <4>1, <4>2, <4>3 DEF RowsHeld
    <3>8. Carried'
      <4> SUFFICES ASSUME NEW q \in Callers
                   PROVE  /\ pc'[q] \in Updates =>
                               /\ done'[q] \cup Range(todo'[q]) = Cart(Of(q))
                               /\ done'[q] \cap Range(todo'[q]) = {}
                          /\ Distinct(todo'[q])
                          /\ pc'[q] \notin Updates => done'[q] = {}
        BY DEF Carried, Distinct
      <4>1. CASE q = p
        BY <3>4, <4>1 DEF Cart
      <4>2. CASE q # p
        BY <3>3, <3>4, <4>2
      <4> QED BY <4>1, <4>2
    <3> QED BY <3>1, <3>4, <3>6, <3>7, <3>8 DEF Locks
  <2> SUFFICES ASSUME ShelfInv, [Next]_vars, Asks' PROVE ShelfInv'
    BY <1>Asked
  <2> USE StockHypothesis
  <2>0. UNCHANGED external
    BY DEF Next, vars
  <2> USE <2>0
  <2>a. /\ Locks
        /\ pc \in [Callers -> Labels] /\ todo \in [Callers -> Seq(Variants)] /\ done \in [Callers -> SUBSET Variants]
        /\ \A p \in Callers : Distinct(todo[p])
        /\ stock \in [Variants -> Int]
        /\ order \in [Orders -> {"none", "open", "cancelled", "gone"}]
        /\ released \subseteq Orders /\ synced \subseteq Orders /\ saw \subseteq Callers /\ external \in Externals
    BY DEF ShelfInv, Typed, Locks, Carried
  <2>b. /\ \A p \in Callers : PhaseOf(p)
        /\ \A o \in released : order[o] # "none"
    BY DEF ShelfInv, Phases
  <2>c. /\ \A o \in Orders : Lines[o] \in Seq(Variants) /\ Distinct(Lines[o])
        /\ ErpHas \in [Variants -> Nat] /\ external \in BOOLEAN
        /\ Quantity \in [Orders -> [Variants -> Nat]] /\ \A p \in Callers : Of(p) \in Orders
    BY <2>a, CallersAre DEF StockHypothesis
  (* The phases of one process. *)
  <2>d. ASSUME NEW p \in Callers, NEW l, pc' = [pc EXCEPT ![p] = l],
               UNCHANGED <<order, released>>, PhaseOf(p)'
        PROVE  Phases'
    <3>1. ASSUME NEW q \in Callers, q # p PROVE PhaseOf(q)'
      <4>1. pc'[q] = pc[q] /\ PhaseOf(q)
        BY <2>a, <2>b, <2>d, <3>1
      <4> QED BY <2>d, <4>1 DEF PhaseOf, Reserving
    <3> QED BY <2>b, <2>d, <3>1 DEF Phases
  (* Rolling back ends the process. *)
  <2>e. ASSUME NEW p \in Callers, NEW l \in {"failed", "dead"}, Rollback(p, l), UNCHANGED saw PROVE ShelfInv'
    <3>1. EndTx(p, l) /\ UNCHANGED <<order, released, synced>> /\ l \in Labels \ Updates
      BY <2>e DEF Rollback, Labels, Ended, Updates
    <3>2. Locks' /\ pc' = [pc EXCEPT ![p] = l]
      BY <2>a, <3>1, Ends
    <3>3. stock' \in [Variants -> Int]
      <4>1. \A v \in Variants : stock[v] \in Int /\ Updated(p, v) \in Int
        BY <2>a, <2>c DEF Updated
      <4> QED BY <2>e, <4>1 DEF Rollback
    <3>4. PhaseOf(p)'
      BY <2>a, <2>e, <3>2 DEF PhaseOf, Orderings, Cancels
    <3>5. Phases'
      BY <2>d, <3>1, <3>2, <3>4
    <3> QED BY <2>a, <2>e, <3>1, <3>2, <3>3, <3>5 DEF ShelfInv, Typed
  (* A step between transactions. *)
  <2>f. ASSUME NEW p \in Callers, NEW l \in Labels \ Updates, pc[p] \notin Updates, Goto(p, l),
               UNCHANGED <<rowLock, todo, done>>
        PROVE  Locks' /\ pc'[p] = l /\ pc' = [pc EXCEPT ![p] = l]
    <3>1. todo' = [todo EXCEPT ![p] = todo[p]] /\ todo[p] \in Seq(Variants)
      BY <2>a, <2>f
    <3> QED BY <2>a, <2>f, <3>1, <2>Moves DEF Goto, Updates
  <2>g. ASSUME NEW p \in Callers, NEW l, pc' = [pc EXCEPT ![p] = l],
               NEW s, order' = [order EXCEPT ![Of(p)] = s], s # "none"
        PROVE  /\ pc'[p] = l /\ \A q \in Callers : q # p => pc'[q] = pc[q]
               /\ order'[Of(p)] = s
               /\ \A o \in Orders : o # Of(p) => order'[o] = order[o]
    BY <2>a, <2>g, CallersAre
  <2>1. ASSUME NEW p \in Callers, Begin(p) PROVE ShelfInv'
    <3>1. Locks'
      BY <2>a, <2>c, <2>1, CallersAre, <2>Moves DEF Begin, At, Goto, Updates, Labels
    <3>2. PhaseOf(p)'
      BY <2>a, <2>b, <2>1 DEF Begin, At, Goto, PhaseOf, Orderings, Cancels
    <3> QED BY <2>a, <2>d, <2>1, <3>1, <3>2 DEF Begin, Goto, ShelfInv, Typed
  <2>2. ASSUME NEW p \in Callers, Reserve(p) PROVE ShelfInv'
    <3>1. CASE stock[Head(todo[p])] >= Wanted(p)
      <4>1. Locks' /\ Head(todo[p]) \in Variants
        BY <2>a, <2>2, <3>1, Takes DEF Reserve, At, Updates
      <4>2. stock' \in [Variants -> Int]
        BY <2>a, <2>c, <2>2, <3>1, <4>1 DEF Reserve, Wanted
      <4> QED
        BY <2>a, <2>b, <2>2, <3>1, <4>1, <4>2
        DEF Reserve, ShelfInv, Typed, Phases, PhaseOf, Reserving
    <3>2. CASE ~(stock[Head(todo[p])] >= Wanted(p))
      BY <2>e, <2>2, <3>2 DEF Reserve
    <3> QED BY <3>1, <3>2
  <2>3. ASSUME NEW p \in Callers, Commit(p) PROVE ShelfInv'
    <3> DEFINE l == IF external THEN "export" ELSE "done"
    <3>1. l \in Labels \ Updates /\ EndTx(p, l)
      BY <2>3 DEF Commit, Labels, Ended, Updates
    <3>2. Locks' /\ pc' = [pc EXCEPT ![p] = l]
      BY <2>a, <3>1, Ends
    <3>3. /\ order' = [order EXCEPT ![Of(p)] = "open"] /\ UNCHANGED <<stock, released, synced, saw>>
          /\ pc[p] = "reserve"
      BY <2>3 DEF Commit, At
    <3>4. PhaseOf(p)'
      <4>1. /\ pc'[p] = l /\ order'[Of(p)] = "open" /\ l \in {"export", "done"}
            /\ l = "export" => external
        BY <2>a, <3>2, <3>3, CallersAre
      <4>2. Kind(p) = "checkout"
        BY <2>b, <3>3 DEF PhaseOf, Orderings
      <4> HIDE DEF l
      <4> QED BY <4>1, <4>2 DEF PhaseOf, Orderings, Cancels
    <3> HIDE DEF l
    <3>5. ASSUME NEW q \in Callers, q # p PROVE PhaseOf(q)'
      <4>1. pc'[q] = pc[q] /\ PhaseOf(q) /\ PhaseOf(p)
        BY <2>b, <2>g, <3>2, <3>3, <3>5
      <4>2. CASE Of(q) # Of(p)
        <5>1. order'[Of(q)] = order[Of(q)]
          BY <2>g, <3>2, <3>3, <4>2, CallersAre
        <5> QED BY <3>3, <4>1, <5>1 DEF PhaseOf, Reserving
      <4>3. CASE Of(q) = Of(p)
        <5>1. order[Of(q)] = "none" /\ Kind(p) = "checkout" /\ Kind(q) # "checkout"
          BY <3>3, <3>5, <4>1, <4>3, CallersAre DEF PhaseOf, Orderings
        <5> QED BY <3>3, <4>1, <5>1 DEF PhaseOf, Orderings, Cancels
      <4> QED BY <4>2, <4>3
    <3>6. \A o \in released' : order'[o] # "none"
      BY <2>a, <2>b, <3>3, CallersAre
    <3>7. order' \in [Orders -> {"none", "open", "cancelled", "gone"}]
      BY <2>a, <3>3
    <3> QED BY <2>a, <2>b, <3>2, <3>3, <3>4, <3>5, <3>6, <3>7 DEF ShelfInv, Typed, Phases
  <2>4. ASSUME NEW p \in Callers, Accepted(p) \/ Kept(p) PROVE ShelfInv'
    <3>1. /\ pc[p] = "export" /\ Goto(p, "done") /\ "done" \in Labels \ Updates
          /\ UNCHANGED <<stock, order, released, rowLock, saw, todo, done>>
          /\ synced' \subseteq synced \cup {Of(p)}
      BY <2>4 DEF Accepted, Kept, At, Labels, Ended, Updates
    <3>2. Locks' /\ pc'[p] = "done" /\ pc' = [pc EXCEPT ![p] = "done"]
      BY <2>f, <3>1 DEF Updates
    <3>3. PhaseOf(p)'
      BY <3>2 DEF PhaseOf, Orderings, Cancels
    <3>4. Phases'
      BY <2>d, <3>1, <3>2, <3>3
    <3>5. synced' \subseteq Orders
      BY <2>a, <3>1, CallersAre
    <3> QED BY <2>a, <3>1, <3>2, <3>4, <3>5 DEF ShelfInv, Typed
  <2>5. ASSUME NEW p \in Callers, ErpRefuses(p) PROVE ShelfInv'
    <3>1. PICK l \in {"hint", "compensate"} :
            /\ pc[p] = "export" /\ pc' = [pc EXCEPT ![p] = l]
            /\ todo' = [todo EXCEPT ![p] = Lines[Of(p)]] /\ saw' \subseteq saw \cup {p}
            /\ UNCHANGED <<stock, order, released, synced, rowLock, done>>
      BY <2>5 DEF ErpRefuses, At, Goto
    <3>2. l \in {"hint", "compensate"}
      OBVIOUS
    <3>3. Locks'
      BY <2>a, <2>c, <3>1, <3>2, CallersAre, <2>Moves DEF Labels, Updates
    <3>4. PhaseOf(p)'
      BY <2>a, <2>b, <2>c, <3>1, <3>2 DEF PhaseOf, Orderings, Cancels
    <3> QED BY <2>a, <2>d, <3>1, <3>3, <3>4 DEF ShelfInv, Typed
  <2>6. ASSUME NEW p \in Callers, Hint(p) PROVE ShelfInv'
    <3> DEFINE rest == Tail(todo[p])
               l == IF rest = <<>> THEN "compensate" ELSE "hint"
               s == IF rest = <<>> THEN Lines[Of(p)] ELSE rest
    <3>1. /\ pc[p] = "hint" /\ pc' = [pc EXCEPT ![p] = l] /\ todo' = [todo EXCEPT ![p] = s]
          /\ UNCHANGED <<order, released, synced, rowLock, saw, done>>
      BY <2>6 DEF Hint, At, Goto
    <3>2. l \in {"hint", "compensate"} /\ s \in Seq(Variants) /\ Distinct(s) /\ (l = "compensate" => s = Lines[Of(p)])
      BY <2>a, <2>c, <2>6, NextLine, CallersAre DEF Hint
    <3>3. stock' \in [Variants -> Int]
      <4>1. ASSUME NEW v \in Short(Of(p)) PROVE v \in Variants /\ ErpHas[v] \in Int
        BY <2>c, CallersAre DEF Short, Cart, Range
      <4> QED BY <2>a, <2>6, <4>1 DEF Hint
    <3> HIDE DEF l, s
    <3>4. Locks'
      BY <2>a, <3>1, <3>2, <2>Moves DEF Labels, Updates
    <3>5. PhaseOf(p)'
      BY <2>a, <2>b, <3>1, <3>2 DEF PhaseOf, Orderings, Cancels
    <3>6. Phases'
      BY <2>d, <3>1, <3>5
    <3> QED BY <2>a, <3>1, <3>3, <3>4, <3>6 DEF ShelfInv, Typed
  <2>7. ASSUME NEW p \in Callers, Compensate(p) \/ GiveBack(p) PROVE ShelfInv'
    <3>1. /\ pc[p] \in Updates /\ todo[p] # <<>> /\ AddLine(p) /\ Take(p)
          /\ UNCHANGED <<order, released, synced, pc, saw>>
      BY <2>7 DEF Compensate, GiveBack, At, Updates
    <3>2. Locks' /\ Head(todo[p]) \in Variants
      BY <2>a, <3>1, Takes
    <3>3. stock' \in [Variants -> Int]
      BY <2>a, <2>c, <3>1, <3>2 DEF AddLine, Wanted
    <3> QED BY <2>a, <2>b, <3>1, <3>2, <3>3 DEF ShelfInv, Typed, Phases, PhaseOf, Reserving
  (* Steps on the order's row. *)
  <2>h. ASSUME NEW p \in Callers, NEW l,
               pc' = [pc EXCEPT ![p] = l], PhaseOf(p)',
               order[Of(p)] # "none",
               \/ \E s \in {"cancelled", "gone"} : order' = [order EXCEPT ![Of(p)] = s]
               \/ UNCHANGED order,
               \/ released' = released \cup {Of(p)}
               \/ UNCHANGED released,
               order[Of(p)] = "gone" => UNCHANGED order,
               rowLock[Of(p)] \in {Nobody, p}
        PROVE  /\ Phases' /\ order' \in [Orders -> {"none", "open", "cancelled", "gone"}]
               /\ released' \subseteq Orders
    <3>1. /\ pc'[p] = l /\ \A q \in Callers : q # p => pc'[q] = pc[q]
          /\ order'[Of(p)] \in {"open", "cancelled", "gone"}
          /\ order[Of(p)] = "gone" => order'[Of(p)] = "gone"
          /\ \A o \in Orders : o # Of(p) => order'[o] = order[o] /\ (o \in released' <=> o \in released)
          /\ Of(p) \in Orders /\ released \subseteq released'
      BY <2>a, <2>h, CallersAre
    <3>2. ASSUME NEW q \in Callers, q # p PROVE PhaseOf(q)'
      <4>1. pc'[q] = pc[q] /\ PhaseOf(q)
        BY <2>b, <3>1, <3>2
      <4>2. CASE Of(q) # Of(p)
        BY <3>1, <4>1, <4>2, CallersAre DEF PhaseOf, Reserving
      <4>3. CASE Of(q) = Of(p)
        <5>1. pc[q] # "giveBack"
          BY <2>a, <2>h, <3>2, <4>3, CallersAre DEF Locks, RowsHeld
        <5>2. /\ order'[Of(q)] \in {"open", "cancelled", "gone"}
              /\ order[Of(q)] = "gone" => order'[Of(q)] = "gone"
              /\ order[Of(q)] # "none"
              /\ ~Reserving(Of(q)) => ~Reserving(Of(q))'
          BY <2>a, <2>h, <3>1, <4>3 DEF Reserving
        <5> QED BY <4>1, <5>1, <5>2 DEF PhaseOf
      <4> QED BY <4>2, <4>3
    <3>3. order' \in [Orders -> {"none", "open", "cancelled", "gone"}] /\ released' \subseteq Orders
      BY <2>a, <2>h, <3>1
    <3>4. \A o \in released' : order'[o] # "none"
      BY <2>b, <3>1, <3>3
    <3> QED BY <2>h, <3>1, <3>2, <3>3, <3>4 DEF Phases
  <2>8. ASSUME NEW p \in Callers, CompensateDelete(p) PROVE ShelfInv'
    <3>1. CASE order[Of(p)] = "gone"
      BY <2>e, <2>8, <3>1 DEF CompensateDelete
    <3>2. CASE order[Of(p)] # "gone"
      <4>1. /\ pc[p] = "compensate" /\ EndTx(p, "refused") /\ "refused" \in Labels \ Updates
            /\ order' = [order EXCEPT ![Of(p)] = "gone"] /\ rowLock[Of(p)] \in {Nobody, p}
            /\ UNCHANGED <<stock, released, synced, saw>>
        BY <2>8, <3>2 DEF CompensateDelete, At, Available, Labels, Ended, Updates
      <4>2. Locks' /\ pc' = [pc EXCEPT ![p] = "refused"]
        BY <2>a, <4>1, Ends
      <4>3. order[Of(p)] # "none"
        BY <2>b, <4>1 DEF PhaseOf
      <4>4. PhaseOf(p)'
        BY <2>a, <4>1, <4>2 DEF PhaseOf, Orderings, Cancels
      <4>5. Phases' /\ order' \in [Orders -> {"none", "open", "cancelled", "gone"}]
        BY <2>h, <3>2, <4>1, <4>2, <4>3, <4>4
      <4> QED BY <2>a, <4>1, <4>2, <4>5 DEF ShelfInv, Typed
    <3> QED BY <3>1, <3>2
  <2>9. ASSUME NEW p \in Callers, StartCancel(p) PROVE ShelfInv'
    <3>1. /\ pc[p] = "start" /\ Kind(p) # "checkout" /\ order[Of(p)] = "open" /\ Goto(p, "update")
          /\ UNCHANGED <<stock, order, released, synced, rowLock, todo, done>>
          /\ "update" \in Labels \ Updates /\ saw' \subseteq Callers
      BY <2>a, <2>9 DEF StartCancel, At, Labels, Updates
    <3>2. Locks' /\ pc'[p] = "update" /\ pc' = [pc EXCEPT ![p] = "update"]
      BY <2>f, <3>1 DEF Updates
    <3>3. PhaseOf(p)'
      BY <3>1, <3>2 DEF PhaseOf, Orderings, Cancels
    <3>4. Phases'
      BY <2>d, <3>1, <3>2, <3>3
    <3> QED BY <2>a, <3>1, <3>2, <3>4 DEF ShelfInv, Typed
  <2>10. ASSUME NEW p \in Callers, Update(p) \/ Delete(p) PROVE ShelfInv'
    <3>1. PICK l \in {"failed", "effects", "done"} :
            /\ pc[p] \in {"update", "delete"} /\ Goto(p, l)
            /\ rowLock[Of(p)] = Nobody
            /\ \/ order[Of(p)] = "gone" /\ UNCHANGED order /\ l = "failed"
               \/ /\ order[Of(p)] # "gone"
                  /\ \E s \in {"cancelled", "gone"} : order' = [order EXCEPT ![Of(p)] = s]
            /\ UNCHANGED <<stock, released, synced, rowLock, saw, todo, done>>
      BY <2>10 DEF Update, Delete, At
    <3>2. Kind(p) # "checkout" /\ order[Of(p)] # "none"
      BY <2>b, <3>1 DEF PhaseOf, Cancels
    <3>3. l \in Labels \ Updates
      BY DEF Labels, Ended, Updates
    <3>4. Locks' /\ pc'[p] = l /\ pc' = [pc EXCEPT ![p] = l]
      BY <2>f, <3>1, <3>3 DEF Updates
    <3>5. PhaseOf(p)'
      <4>1. order'[Of(p)] # "none"
        BY <2>a, <3>1, <3>2, CallersAre
      <4> QED BY <3>2, <3>4, <4>1 DEF PhaseOf, Orderings, Cancels
    <3>6. Phases' /\ order' \in [Orders -> {"none", "open", "cancelled", "gone"}]
      BY <2>h, <3>1, <3>2, <3>4, <3>5
    <3> QED BY <2>a, <3>1, <3>4, <3>6 DEF ShelfInv, Typed
  <2>11. ASSUME NEW p \in Callers, Effects(p) PROVE ShelfInv'
    <3>1. pc[p] = "effects" /\ UNCHANGED <<stock, order, synced, rowLock, saw, todo, done>>
      BY <2>11 DEF Effects, At
    <3>2. Kind(p) # "checkout" /\ order[Of(p)] # "none"
      BY <2>b, <3>1 DEF PhaseOf, Cancels
    <3>3. CASE external /\ p \in saw
      <4>1. /\ Goto(p, "done") /\ "done" \in Labels \ Updates /\ rowLock[Of(p)] = Nobody
            /\ released' = released \cup {Of(p)} \/ UNCHANGED released
        BY <2>11, <3>3 DEF Effects, Labels, Ended, Updates
      <4>2. Locks' /\ pc'[p] = "done" /\ pc' = [pc EXCEPT ![p] = "done"]
        BY <2>f, <3>1, <4>1 DEF Updates
      <4>3. PhaseOf(p)'
        BY <4>2 DEF PhaseOf, Orderings, Cancels
      <4>4. Phases' /\ released' \subseteq Orders
        BY <2>h, <3>1, <3>2, <4>1, <4>2, <4>3
      <4> QED BY <2>a, <3>1, <4>2, <4>4 DEF ShelfInv, Typed
    <3>4. CASE ~(external /\ p \in saw)
      <4>1. Goto(p, "lock") /\ "lock" \in Labels \ Updates /\ UNCHANGED released
        BY <2>11, <3>4 DEF Effects, Labels, Updates
      <4>2. Locks' /\ pc'[p] = "lock" /\ pc' = [pc EXCEPT ![p] = "lock"]
        BY <2>f, <3>1, <4>1 DEF Updates
      <4>3. PhaseOf(p)'
        BY <3>1, <3>2, <4>2 DEF PhaseOf, Orderings, Cancels
      <4>4. Phases'
        BY <2>d, <3>1, <4>1, <4>2, <4>3
      <4> QED BY <2>a, <3>1, <4>1, <4>2, <4>4 DEF ShelfInv, Typed
    <3> QED BY <3>3, <3>4
  <2>12. ASSUME NEW p \in Callers, LockOrder(p) PROVE ShelfInv'
    <3>1. pc[p] = "lock" /\ UNCHANGED <<stock, order, released, synced, saw, done>>
      BY <2>12 DEF LockOrder, At
    <3>2. Kind(p) # "checkout" /\ order[Of(p)] # "none"
      BY <2>b, <3>1 DEF PhaseOf, Cancels
    <3>3. CASE order[Of(p)] = "gone" \/ Of(p) \in released
      <4> DEFINE l == AfterRelease(p)
      <4>1. Goto(p, l) /\ l \in {"delete", "done"} /\ l \in Labels \ Updates /\ UNCHANGED <<rowLock, todo>>
        BY <2>12, <3>3 DEF LockOrder, AfterRelease, Labels, Ended, Updates
      <4> HIDE DEF l
      <4>2. Locks' /\ pc'[p] = l /\ pc' = [pc EXCEPT ![p] = l]
        BY <2>f, <3>1, <4>1 DEF Updates
      <4>3. PhaseOf(p)'
        BY <3>1, <3>2, <3>3, <4>1, <4>2 DEF PhaseOf, Orderings, Cancels, Reserving
      <4>4. Phases'
        BY <2>d, <3>1, <4>2, <4>3
      <4> QED BY <2>a, <3>1, <4>2, <4>4 DEF ShelfInv, Typed
    <3>4. CASE ~(order[Of(p)] = "gone" \/ Of(p) \in released)
      <4>1. /\ Lock(Of(p), p) /\ todo' = [todo EXCEPT ![p] = Lines[Of(p)]]
            /\ pc' = [pc EXCEPT ![p] = "giveBack"]
        BY <2>12, <3>4 DEF LockOrder, Goto
      <4>2. Locks'
        BY <2>a, <2>c, <3>1, <4>1, CallersAre, <2>Moves DEF Labels, Updates
      <4>3. PhaseOf(p)'
        <5>1. Reserving(Of(p))
          BY <2>a, <3>2, <3>4, CallersAre DEF Reserving
        <5> QED BY <2>a, <3>1, <3>2, <4>1, <5>1 DEF PhaseOf, Orderings, Cancels, Reserving
      <4>4. Phases'
        BY <2>d, <3>1, <4>1, <4>3
      <4> QED BY <2>a, <3>1, <4>2, <4>4 DEF ShelfInv, Typed
    <3> QED BY <3>3, <3>4
  <2>13. ASSUME NEW p \in Callers, Released(p) PROVE ShelfInv'
    <3> DEFINE l == AfterRelease(p)
    <3>1. /\ pc[p] = "giveBack" /\ UNCHANGED <<stock, order, synced, saw>> /\ EndTx(p, l)
          /\ released' = released \cup {Of(p)}
          /\ l \in {"delete", "done"} /\ l \in Labels \ Updates
      BY <2>13 DEF Released, At, AfterRelease, Labels, Ended, Updates
    <3> HIDE DEF l
    <3>2. /\ Kind(p) # "checkout" /\ order[Of(p)] # "none" /\ rowLock[Of(p)] = p
      BY <2>a, <2>b, <3>1, CallersAre DEF PhaseOf, Cancels, Locks, RowsHeld
    <3>3. Locks' /\ pc' = [pc EXCEPT ![p] = l]
      BY <2>a, <3>1, Ends
    <3>4. PhaseOf(p)'
      BY <2>a, <3>1, <3>2, <3>3 DEF PhaseOf, Orderings, Cancels, Reserving
    <3>5. Phases' /\ released' \subseteq Orders
      BY <2>h, <3>1, <3>2, <3>3, <3>4
    <3> QED BY <2>a, <3>1, <3>3, <3>5 DEF ShelfInv, Typed
  <2>14. ASSUME NEW p \in Callers, StartRemove(p) PROVE ShelfInv'
    <3>1. PICK l \in {"lock", "delete"} :
            /\ pc[p] = "start" /\ Kind(p) # "checkout" /\ order[Of(p)] # "none" /\ Goto(p, l)
            /\ l = "delete" /\ ~external => Of(p) \in released
            /\ UNCHANGED <<stock, order, released, synced, rowLock, saw, todo, done>>
      BY <2>14 DEF StartRemove, At
    <3>2. l \in Labels \ Updates
      BY DEF Labels, Updates
    <3>3. Locks' /\ pc'[p] = l /\ pc' = [pc EXCEPT ![p] = l]
      BY <2>f, <3>1, <3>2 DEF Updates
    <3>4. PhaseOf(p)'
      BY <3>1, <3>3 DEF PhaseOf, Orderings, Cancels, Reserving
    <3>5. Phases'
      BY <2>d, <3>1, <3>3, <3>4
    <3> QED BY <2>a, <3>1, <3>3, <3>5 DEF ShelfInv, Typed
  <2>15. ASSUME NEW p \in Callers, Deadlocked(p) PROVE ShelfInv'
    BY <2>e, <2>15 DEF Deadlocked
  <2>16. ASSUME NEW p \in Callers, Crash(p) PROVE ShelfInv'
    BY <2>e, <2>16 DEF Crash
  <2>17. CASE UNCHANGED vars
    BY <2>17
    DEF vars, ShelfInv, Typed, Locks, RowsHeld, Carried, Distinct, Phases, PhaseOf, Reserving, Asks
  <2> QED
    BY <2>1, <2>2, <2>3, <2>4, <2>5, <2>6, <2>7, <2>8, <2>9, <2>10, <2>11, <2>12, <2>13, <2>14, <2>15, <2>16, <2>17
    DEF Next, CheckoutStep, CancelStep, RemoveStep
<1>1. Init => ShelfInv
  <2> SUFFICES ASSUME Init PROVE ShelfInv
    OBVIOUS
  <2> USE StockHypothesis
  <2>1. Typed
    BY DEF Init, Typed, StockHypothesis
  <2>2. /\ rowLock \in [Rows -> Callers \cup {Nobody}] /\ pc \in [Callers -> Labels]
        /\ \A r \in Rows : rowLock[r] = Nobody
        /\ \A p \in Callers : pc[p] = "start" /\ todo[p] = <<>> /\ done[p] = {}
        /\ todo \in [Callers -> Seq(Variants)] /\ done \in [Callers -> SUBSET Variants]
    BY DEF Init, Labels
  <2>3. RowsHeld
    BY <2>2, CallersAre DEF RowsHeld
  <2>4. Carried
    BY <2>2 DEF Carried, Distinct, Updates
  <2>5. Phases
    BY <2>2, CallersAre DEF Init, Phases, PhaseOf, Orderings, Cancels, Reserving
  <2>6. Asks
    BY <2>2 DEF Init, Asks
  <2> QED BY <2>1, <2>2, <2>3, <2>4, <2>5, <2>6 DEF ShelfInv, Locks
<1>2. ShelfInv /\ [Next]_vars => ShelfInv'
  BY <1>ShelfStep
<1>3. ShelfInv /\ [Next]_vars => [Grows]_vars
  BY <1>Asked
<1> QED BY <1>1, <1>2, <1>3, PTL DEF Spec

(* Two checkouts never wait for each other, whatever is in their carts     *)
(* and in which order: the one that reserves holds the row of the order    *)
(* number (create, applyCheckoutStockDecrements).                          *)
THEOREM CheckoutsGoOn == ASSUME StockHypothesis PROVE Spec => []CheckoutsDoNotDeadlock
<1>1. ShelfInv => CheckoutsDoNotDeadlock
  BY DEF ShelfInv, Locks, RowsHeld, CheckoutsDoNotDeadlock, At, WaitsFor
<1> QED BY <1>1, ShelfHolds, PTL

-----------------------------------------------------------------------------

(* Where the shop keeps the stock itself, pieces on the shelf and pieces   *)
(* reserved are what there were; where the ERP does, they are not more     *)
(* than that and the surplus of refused checkouts: however many            *)
(* cancellations, removals and compensations of an order interleave, crash *)
(* or are aborted, a reservation is given back once                        *)
(* (releaseLocalStockReservation, compensateFailedConnectedCheckout); and  *)
(* the stock of a variant is never negative (part of TypeOK).              *)
THEOREM StockIsBalanced == ASSUME StockHypothesis PROVE Spec => [](StockAddsUp /\ TypeOK)
(* A transaction changes the stock and the reservations it will commit     *)
(* together; a step that adds to their sum adds as much to the surplus.    *)
<1>BalanceStep.
    ASSUME StockHypothesis, ShelfInv, ShelfInv', Balanced, [Next]_vars, [Grows]_vars
      PROVE  Balanced'
  <2> USE <1>BalanceStep
  (* Pieces are counted order by order. *)
  <2>Totals.
      ASSUME NEW q \in [Orders -> Nat]
      PROVE  /\ \A S \in SUBSET Orders : Total(q, S) \in Nat
             /\ \A S \in SUBSET Orders : \A x \in Orders \ S : Total(q, S \cup {x}) = Total(q, S) + q[x]
             /\ \A S, T \in SUBSET Orders : S \subseteq T => Total(q, S) <= Total(q, T)
    <3> DEFINE Line(o) == {o} \X (1..q[o])
               P(S)    == UNION {Line(o) : o \in S}
    <3>1. \A S : Total(q, S) = Cardinality(P(S))
      BY DEF Total
    <3>2. ASSUME NEW o \in Orders PROVE IsFiniteSet(Line(o)) /\ Cardinality(Line(o)) = q[o]
      <4>1. q[o] \in Nat
        OBVIOUS
      <4>2. IsFiniteSet(1..q[o]) /\ Cardinality(1..q[o]) = q[o]
        BY <4>1, FS_Interval
      <4>3. IsFiniteSet({o}) /\ Cardinality({o}) = 1
        BY FS_Singleton
      <4>4. IsFiniteSet(Line(o)) /\ Cardinality(Line(o)) = Cardinality({o}) * Cardinality(1..q[o])
        BY <4>2, <4>3, FS_Product
      <4> QED BY <4>1, <4>2, <4>3, <4>4
    <3>3. \A x, y \in Orders : x # y => Line(x) \cap Line(y) = {}
      OBVIOUS
    <3> HIDE DEF Line
    <3>4. IsFiniteSet(P(Orders))
      <4> DEFINE L == {Line(o) : o \in Orders}
                 n == Cardinality(Orders)
      <4>1. n \in Nat /\ ExistsBijection(1..n, Orders)
        BY FS_CardinalityType DEF StockHypothesis
      <4>2. PICK f \in [1..n -> Orders] : \A o \in Orders : \E i \in 1..n : f[i] = o
        BY <4>1 DEF ExistsBijection, Bijection, Surjection
      <4> DEFINE g == [i \in 1..n |-> Line(f[i])]
      <4>3. g \in [1..n -> L] /\ \A t \in L : \E i \in 1..n : g[i] = t
        BY <4>2
      <4>4. ExistsSurjection(1..n, L)
        BY <4>3 DEF ExistsSurjection, Surjection
      <4>5. IsFiniteSet(L)
        BY <4>1, <4>4, FS_NatSurjection
      <4>6. \A t \in L : IsFiniteSet(t)
        BY <3>2
      <4> HIDE DEF L
      <4>7. IsFiniteSet(UNION L)
        BY <4>5, <4>6, FS_UNION
      <4> QED BY <4>7 DEF L
    <3>5. ASSUME NEW S \in SUBSET Orders, NEW T \in SUBSET Orders, S \subseteq T
          PROVE  IsFiniteSet(P(T)) /\ Cardinality(P(S)) \in Nat /\ Cardinality(P(S)) <= Cardinality(P(T))
      <4>1. P(S) \subseteq P(T) /\ P(T) \subseteq P(Orders)
        BY <3>5
      <4> HIDE DEF P
      <4>2. IsFiniteSet(P(T))
        BY <3>4, <4>1, FS_Subset
      <4>3. IsFiniteSet(P(S)) /\ Cardinality(P(S)) <= Cardinality(P(T))
        BY <4>1, <4>2, FS_Subset
      <4> QED BY <4>2, <4>3, FS_CardinalityType
    <3>6. ASSUME NEW S \in SUBSET Orders, NEW x \in Orders \ S
          PROVE  Cardinality(P(S \cup {x})) = Cardinality(P(S)) + q[x]
      <4>1. P(S \cup {x}) = P(S) \cup Line(x)
        OBVIOUS
      <4>2. P(S) \cap Line(x) = {}
        BY <3>3
      <4>3. IsFiniteSet(P(S)) /\ Cardinality(P(S)) \in Nat
        BY <3>5
      <4> HIDE DEF P
      <4>4. Cardinality(P(S) \cup Line(x)) = Cardinality(P(S)) + Cardinality(Line(x)) - Cardinality(P(S) \cap Line(x))
        BY <3>2, <4>3, FS_Union
      <4>5. Cardinality(P(S) \cap Line(x)) = 0
        BY <4>2, FS_EmptySet
      <4>6. Cardinality(Line(x)) = q[x] /\ q[x] \in Nat
        BY <3>2
      <4>7. Cardinality(P(S \cup {x})) = Cardinality(P(S) \cup Line(x))
        BY <4>1
      <4>8. Cardinality(P(S) \cup Line(x)) = Cardinality(P(S)) + q[x]
        BY <4>3, <4>4, <4>5, <4>6
      <4> QED BY <4>7, <4>8
    <3> HIDE DEF P
    <3> QED BY <3>1, <3>5, <3>6
  (* An order that begins or ceases to reserve changes the pieces reserved   *)
  (* of a variant by its part.                                               *)
  <2>ReservedCounts.
      ASSUME NEW o \in Orders, NEW v \in Variants,
             \A x \in Orders : x # o => (Reserving(x)' <=> Reserving(x))
      PROVE  /\ Reserved(v) \in Nat /\ Part(o, v) \in Nat /\ Part(o, v)' \in Nat
             /\ Reserved(v)' = Reserved(v) + Part(o, v)' - Part(o, v)
    <3> USE <2>ReservedCounts
    <3> DEFINE q == [x \in Orders |-> Quantity[x][v]]
               R == {x \in Orders : Reserving(x) /\ v \in Cart(x)}
               Q == {x \in Orders : Reserving(x)' /\ v \in Cart(x)}
    <3>1. Reserved(v) = Total(q, R)
      BY DEF Reserved, Reserving
    <3>2. Reserved(v)' = Total(q, Q)
      BY DEF Reserved, Reserving, Cart, Range, Total
    <3>3. q \in [Orders -> Nat] /\ q[o] = Quantity[o][v] /\ R \in SUBSET Orders /\ Q \in SUBSET Orders
      BY DEF StockHypothesis
    <3>4. /\ Part(o, v) = IF o \in R THEN q[o] ELSE 0
          /\ Part(o, v)' = IF o \in Q THEN q[o] ELSE 0
      BY <3>3 DEF Part, Cart, Range
    <3>5. R \ {o} = Q \ {o}
      OBVIOUS
    <3> HIDE DEF q, R, Q
    <3>6. q[o] \in Nat /\ Total(q, R) \in Nat /\ Total(q, R \ {o}) \in Nat
      BY <3>3, <2>Totals
    <3>7. ASSUME NEW S \in SUBSET Orders
          PROVE  Total(q, S) = Total(q, S \ {o}) + (IF o \in S THEN q[o] ELSE 0)
      <4>1. CASE o \in S
        <5>1. S = (S \ {o}) \cup {o} /\ S \ {o} \in SUBSET Orders /\ o \in Orders \ (S \ {o})
          BY <4>1
        <5>2. Total(q, (S \ {o}) \cup {o}) = Total(q, S \ {o}) + q[o]
          BY <3>3, <5>1, <2>Totals
        <5> QED BY <4>1, <5>1, <5>2
      <4>2. CASE o \notin S
        <5>1. S \ {o} = S /\ Total(q, S) \in Nat
          BY <3>3, <4>2, <2>Totals
        <5> QED BY <4>2, <5>1
      <4> QED BY <4>1, <4>2
    <3>8. /\ Total(q, R) = Total(q, R \ {o}) + (IF o \in R THEN q[o] ELSE 0)
          /\ Total(q, Q) = Total(q, R \ {o}) + (IF o \in Q THEN q[o] ELSE 0)
      BY <3>3, <3>5, <3>7
    <3> QED BY <3>1, <3>2, <3>4, <3>6, <3>8
  <2>a. /\ Locks
        /\ rowLock \in [Rows -> Callers \cup {Nobody}]
        /\ pc \in [Callers -> Labels] /\ done \in [Callers -> SUBSET Variants]
        /\ \A v \in Variants, p \in Callers : rowLock[v] = p <=> v \in done[p]
        /\ stock \in [Variants -> Int]
        /\ order \in [Orders -> {"none", "open", "cancelled", "gone"}]
        /\ \A p \in Callers : pc[p] \notin Updates => done[p] = {}
        /\ released \subseteq Orders /\ released' \subseteq Orders
    BY DEF ShelfInv, Typed, Locks, RowsHeld, Carried
  <2>b. /\ \A p \in Callers : PhaseOf(p)
        /\ \A p, q \in Callers : Kind(p) = Kind(q) /\ Of(p) = Of(q) => p = q
    BY CallersAre DEF ShelfInv, Phases
  <2>c. /\ Nobody \notin Callers /\ Variants \subseteq Rows
        /\ \A p \in Callers : Of(p) \in Orders
        /\ Initial \in [Variants -> Nat] /\ ErpHas \in [Variants -> Nat]
        /\ \A o \in Orders, v \in Variants : Quantity[o][v] \in Nat
        /\ external \in BOOLEAN /\ external' = external
    BY CallersAre DEF StockHypothesis, ShelfInv, Typed, Next, vars
  <2>d. \A v \in Variants : /\ stock[v] \in Int /\ Committed(v) \in Int /\ stock[v] >= 0 /\ Committed(v) >= 0
                            /\ external => Committed(v) + Reserved(v) <= Initial[v] + Surplus(v)
                            /\ ~external => Committed(v) + Reserved(v) = Initial[v]
                            /\ rowLock[v] \in Callers \cup {Nobody}
    BY <2>a, <2>c DEF Balanced, Committed, Pieces
  <2>e. ASSUME NEW p \in Callers, pc[p] \in Updates, todo[p] = <<>> PROVE done[p] = Cart(Of(p))
    <3>1. Range(todo[p]) = {}
      BY <2>e DEF Range
    <3> QED BY <2>e, <3>1 DEF ShelfInv, Locks, Carried
  (* The surplus grows by what an order adds to it. *)
  <2>Grown. ASSUME NEW v \in Variants
            PROVE  /\ Surplus(v) \in Nat /\ Surplus(v)' \in Nat /\ Surplus(v) <= Surplus(v)'
                   /\ \A o \in Hinted(v)' \ Hinted(v) : Surplus(v) + ErpHas[v] <= Surplus(v)'
                   /\ \A o \in Doubled(v)' \ Doubled(v) : Surplus(v) + Quantity[o][v] <= Surplus(v)'
    <3> DEFINE h  == [o \in Orders |-> ErpHas[v]]
               d  == [o \in Orders |-> Quantity[o][v]]
               H  == Hinted(v)
               D  == Doubled(v)
               H1 == Hinted(v)'
               D1 == Doubled(v)'
    <3>1. h \in [Orders -> Nat] /\ d \in [Orders -> Nat]
      BY <2>c
    <3>2. H \in SUBSET Orders /\ D \in SUBSET Orders /\ H1 \in SUBSET Orders /\ D1 \in SUBSET Orders
      BY <2>a DEF Hinted, Doubled
    <3>3. H \subseteq H1 /\ D \subseteq D1
      <4>1. CASE UNCHANGED vars
        BY <4>1 DEF vars, Hinted, Doubled, At, Checkout, Short, Cart, Range
      <4> QED BY <4>1 DEF Grows
    <3>4. Surplus(v) = Total(h, H) + Total(d, D)
      BY DEF Surplus
    <3>5. Surplus(v)' = Total(h, H1) + Total(d, D1)
      BY DEF Surplus, Total
    <3>6. \A o \in Orders : h[o] = ErpHas[v] /\ d[o] = Quantity[o][v]
      OBVIOUS
    <3> HIDE DEF h, d, H, D, H1, D1
    <3>7. /\ Total(h, H) \in Nat /\ Total(d, D) \in Nat /\ Total(h, H1) \in Nat /\ Total(d, D1) \in Nat
          /\ Total(h, H) <= Total(h, H1) /\ Total(d, D) <= Total(d, D1)
      BY <3>1, <3>2, <3>3, <2>Totals
    <3>8. ASSUME NEW q \in [Orders -> Nat], NEW S \in SUBSET Orders, NEW T \in SUBSET Orders, S \subseteq T,
                 NEW o \in T \ S
          PROVE  Total(q, S) + q[o] <= Total(q, T)
      <4>1. S \cup {o} \in SUBSET Orders /\ S \cup {o} \subseteq T /\ o \in Orders \ S
        BY <3>8
      <4> QED BY <3>8, <4>1, <2>Totals
    <3>9. ASSUME NEW o \in H1 \ H PROVE Surplus(v) + ErpHas[v] <= Surplus(v)'
      <4>1. o \in Orders /\ h[o] = ErpHas[v] /\ ErpHas[v] \in Nat
        BY <2>c, <3>2, <3>6
      <4>2. Total(h, H) + h[o] <= Total(h, H1)
        BY <3>1, <3>2, <3>3, <3>8
      <4> QED BY <3>4, <3>5, <3>7, <4>1, <4>2
    <3>10. ASSUME NEW o \in D1 \ D PROVE Surplus(v) + Quantity[o][v] <= Surplus(v)'
      <4>1. o \in Orders /\ d[o] = Quantity[o][v] /\ Quantity[o][v] \in Nat
        BY <2>c, <3>2, <3>6
      <4>2. Total(d, D) + d[o] <= Total(d, D1)
        BY <3>1, <3>2, <3>3, <3>8
      <4> QED BY <3>4, <3>5, <3>7, <4>1, <4>2
    <3>11. Surplus(v) \in Nat /\ Surplus(v)' \in Nat /\ Surplus(v) <= Surplus(v)'
      BY <3>4, <3>5, <3>7
    <3> QED BY <3>9, <3>10, <3>11 DEF H, D, H1, D1
  (* The reservations of one order, at most, come or go. *)
  <2>f. ASSUME NEW p \in Callers,
               \A o \in Orders : o # Of(p) => (Reserving(o)' <=> Reserving(o)),
               \A v \in Variants :
                 /\ stock'[v] >= 0 /\ Committed(v)' \in Int /\ Committed(v)' >= 0
                 /\ external =>
                      Committed(v)' + Part(Of(p), v)' + Surplus(v) <= Committed(v) + Part(Of(p), v) + Surplus(v)'
                 /\ ~external => Committed(v)' + Part(Of(p), v)' = Committed(v) + Part(Of(p), v)
        PROVE  Balanced'
    <3> DEFINE o == Of(p)
    <3>1. o \in Orders
      BY <2>c
    <3>2. ASSUME NEW v \in Variants
          PROVE  /\ external  => Committed(v)' + Reserved(v)' <= Initial[v] + Surplus(v)'
                 /\ ~external => Committed(v)' + Reserved(v)' = Initial[v]
      <4>1. Initial[v] \in Nat /\ Surplus(v) \in Nat /\ Surplus(v)' \in Nat
        BY <2>c, <2>Grown
      <4>2. /\ Committed(v)' \in Int
            /\ external => Committed(v)' + Part(o, v)' + Surplus(v) <= Committed(v) + Part(o, v) + Surplus(v)'
            /\ ~external => Committed(v)' + Part(o, v)' = Committed(v) + Part(o, v)
        BY <2>f
      <4>3. /\ Reserved(v) \in Nat /\ Part(o, v) \in Nat /\ Part(o, v)' \in Nat
            /\ Reserved(v)' = Reserved(v) + Part(o, v)' - Part(o, v)
        BY <2>f, <3>1, <2>ReservedCounts
      <4>4. /\ Committed(v) \in Int
            /\ external  => Committed(v) + Reserved(v) <= Initial[v] + Surplus(v)
            /\ ~external => Committed(v) + Reserved(v) = Initial[v]
        BY <2>d
      <4> HIDE DEF o
      <4> QED BY <4>1, <4>2, <4>3, <4>4
    <3> QED BY <2>c, <2>f, <3>2 DEF Balanced
  <2>g. ASSUME NEW p \in Callers, UNCHANGED <<order, released>>,
               \A v \in Variants : stock'[v] >= 0 /\ Committed(v)' = Committed(v)
        PROVE  Balanced'
    <3>1. \A o : Reserving(o)' <=> Reserving(o)
      BY <2>g DEF Reserving
    <3>2. ASSUME NEW v \in Variants
          PROVE  Part(Of(p), v)' = Part(Of(p), v) /\ Part(Of(p), v) \in Nat
      BY <2>c, <3>1 DEF Part, Cart, Range
    <3> QED BY <2>d, <2>f, <2>g, <2>Grown, <3>1, <3>2
  (* Between transactions. *)
  <2>h. ASSUME NEW p \in Callers, pc[p] \notin Updates, NEW l, pc' = [pc EXCEPT ![p] = l],
               NEW v \in Variants, rowLock'[v] = rowLock[v], stock'[v] = stock[v]
        PROVE  stock'[v] >= 0 /\ Committed(v)' = Committed(v)
    <3>1. rowLock[v] # p
      BY <2>a, <2>h
    <3>2. rowLock[v] \in Callers => pc'[rowLock[v]] = pc[rowLock[v]]
      BY <2>a, <2>h, <3>1
    <3> QED BY <2>d, <2>h, <3>2 DEF Committed
  <2>i. ASSUME NEW p \in Callers, NEW l \in Labels \ Updates, EndTx(p, l), NEW v \in Variants
        PROVE  /\ v \in done[p] => Committed(v)' = stock'[v]
               /\ v \notin done[p] /\ stock'[v] = stock[v] => Committed(v)' = Committed(v)
    <3>1. rowLock'[v] = (IF v \in done[p] THEN Nobody ELSE rowLock[v]) /\ pc' = [pc EXCEPT ![p] = l]
      BY <2>a, <2>i, Ends
    <3>2. v \notin done[p] /\ rowLock[v] \in Callers => pc'[rowLock[v]] = pc[rowLock[v]]
      BY <2>a, <2>i, <3>1
    <3> QED BY <2>d, <3>1, <3>2 DEF Committed
  <2>j. ASSUME NEW p \in Callers, NEW v \in done[p]
        PROVE  v \in Variants /\ pc[p] \in Updates
               /\ Committed(v) = IF pc[p] = "reserve" THEN stock[v] + Pieces(p, v) ELSE stock[v] - Pieces(p, v)
    BY <2>a, <2>c, <2>j DEF Committed
  <2>k. ASSUME NEW p \in Callers, NEW l \in {"failed", "dead"}, Rollback(p, l) PROVE Balanced'
    <3>1. /\ EndTx(p, l) /\ UNCHANGED <<order, released>> /\ l \in Labels \ Updates
          /\ stock' = [v \in Variants |->
                         IF Kind(p) = "checkout" /\ pc[p] = "reserve" THEN stock[v] + Updated(p, v)
                                                                     ELSE stock[v] - Updated(p, v)]
      BY <2>k DEF Rollback, At, Labels, Ended, Updates
    <3>2. pc[p] = "reserve" => Kind(p) = "checkout"
      BY <2>b DEF PhaseOf, Orderings
    <3>3. ASSUME NEW v \in Variants PROVE stock'[v] >= 0 /\ Committed(v)' = Committed(v)
      <4>1. CASE v \in done[p]
        <5>1. stock'[v] = Committed(v)
          BY <2>j, <3>1, <3>2, <4>1 DEF Updated, Pieces
        <5> QED BY <2>d, <2>i, <3>1, <4>1, <5>1
      <4>2. CASE v \notin done[p]
        <5>1. stock'[v] = stock[v]
          BY <2>d, <3>1, <4>2 DEF Updated
        <5> QED BY <2>d, <2>i, <3>1, <4>2, <5>1
      <4> QED BY <4>1, <4>2
    <3> QED BY <2>g, <3>1, <3>3
  (* A line is updated under the lock of its row. *)
  <2>l. ASSUME NEW p \in Callers, pc[p] \in Updates, todo[p] # <<>>, Take(p),
               UNCHANGED <<pc, order, released>>,
               \/ /\ pc[p] = "reserve" /\ stock[Head(todo[p])] >= Wanted(p)
                  /\ stock' = [stock EXCEPT ![Head(todo[p])] = @ - Wanted(p)]
               \/ pc[p] # "reserve" /\ stock' = [stock EXCEPT ![Head(todo[p])] = @ + Wanted(p)]
        PROVE  Balanced'
    <3> DEFINE h == Head(todo[p])
               n == Pieces(p, h)
    <3>1. /\ h \in Variants /\ rowLock[h] = Nobody /\ rowLock'[h] = p
          /\ \A v \in Variants : v # h => rowLock'[v] = rowLock[v]
      BY <2>a, <2>l, Takes
    <3>2. \/ pc[p] = "reserve" /\ stock[h] >= n /\ stock' = [stock EXCEPT ![h] = stock[h] - n]
          \/ pc[p] # "reserve" /\ stock' = [stock EXCEPT ![h] = stock[h] + n]
      BY <2>l DEF Wanted, Pieces
    <3>3. n \in Nat
      BY <2>c, <3>1 DEF Pieces
    <3>4. n = Pieces(p, h)
      OBVIOUS
    <3> HIDE DEF h, n
    <3>5. ASSUME NEW v \in Variants PROVE stock'[v] >= 0 /\ Committed(v)' = Committed(v)
      <4>1. CASE v = h
        <5>1. /\ Committed(v) = stock[h] /\ stock[h] \in Int /\ stock[h] >= 0
              /\ stock'[h] = IF pc[p] = "reserve" THEN stock[h] - n ELSE stock[h] + n
          BY <2>a, <2>d, <3>1, <3>2, <4>1 DEF Committed
        <5>2. Committed(v)' = IF pc[p] = "reserve" THEN stock'[h] + n ELSE stock'[h] - n
          BY <2>c, <2>l, <3>1, <3>4, <4>1 DEF Committed
        <5> QED BY <3>2, <3>3, <4>1, <5>1, <5>2
      <4>2. CASE v # h
        <5>1. stock'[v] = stock[v] /\ rowLock'[v] = rowLock[v]
          BY <2>a, <3>1, <3>2, <4>2
        <5> QED BY <2>d, <2>l, <5>1 DEF Committed
      <4> QED BY <4>1, <4>2
    <3> QED BY <2>g, <2>l, <3>5
  (* A transaction commits: its order reserves, or no longer does, or the    *)
  (* pieces of a compensation are in the surplus.                            *)
  <2>m. ASSUME NEW p \in Callers, pc[p] \in Updates, todo[p] = <<>>, NEW l \in Labels \ Updates,
               EndTx(p, l), UNCHANGED stock,
               \A o \in Orders : o # Of(p) => (Reserving(o)' <=> Reserving(o)),
               \/ pc[p] = "reserve" /\ ~Reserving(Of(p)) /\ Reserving(Of(p))'
               \/ pc[p] # "reserve" /\ Reserving(Of(p)) /\ ~Reserving(Of(p))'
               \/ /\ pc[p] # "reserve" /\ ~Reserving(Of(p)) /\ ~Reserving(Of(p))' /\ external
                  /\ \A v \in Variants : v \in Cart(Of(p)) => Of(p) \in Doubled(v)' \ Doubled(v)
        PROVE  Balanced'
    <3>1. done[p] = Cart(Of(p))
      BY <2>e, <2>m
    <3>2. ASSUME NEW v \in Variants
          PROVE  /\ stock'[v] >= 0 /\ Pieces(p, v) \in Nat
                 /\ v \notin done[p] => Committed(v)' = Committed(v)
                 /\ v \in done[p] => /\ Committed(v)' = stock[v]
                                     /\ pc[p] = "reserve" => stock[v] = Committed(v) - Pieces(p, v)
                                     /\ pc[p] # "reserve" => stock[v] = Committed(v) + Pieces(p, v)
      <4>1. CASE v \in done[p]
        BY <2>c, <2>d, <2>i, <2>j, <2>m, <4>1 DEF Pieces
      <4>2. CASE v \notin done[p]
        BY <2>c, <2>d, <2>i, <2>m, <4>2 DEF Pieces
      <4> QED BY <4>1, <4>2
    <3>3. ASSUME NEW v \in Variants
          PROVE  /\ Part(Of(p), v) = IF Reserving(Of(p)) /\ v \in done[p] THEN Pieces(p, v) ELSE 0
                 /\ Part(Of(p), v)' = IF Reserving(Of(p))' /\ v \in done[p] THEN Pieces(p, v) ELSE 0
      BY <3>1 DEF Part, Pieces, Cart, Range
    <3>4. ASSUME NEW v \in Variants, v \in done[p], ~Reserving(Of(p)), ~Reserving(Of(p))'
          PROVE  Surplus(v) + Pieces(p, v) <= Surplus(v)'
      BY <2>m, <2>Grown, <3>1, <3>4 DEF Pieces
    <3>5. ASSUME NEW v \in Variants
          PROVE  /\ stock'[v] >= 0 /\ Committed(v)' \in Int /\ Committed(v)' >= 0
                 /\ external =>
                      Committed(v)' + Part(Of(p), v)' + Surplus(v) <= Committed(v) + Part(Of(p), v) + Surplus(v)'
                 /\ ~external => Committed(v)' + Part(Of(p), v)' = Committed(v) + Part(Of(p), v)
      <4>1. Surplus(v) \in Nat /\ Surplus(v)' \in Nat /\ Surplus(v) <= Surplus(v)'
        BY <2>Grown
      <4>2. CASE v \in done[p]
        BY <2>d, <2>m, <3>2, <3>3, <3>4, <4>1, <4>2
      <4>3. CASE v \notin done[p]
        BY <2>d, <3>2, <3>3, <4>1, <4>3
      <4> QED BY <4>2, <4>3
    <3> QED BY <2>f, <2>m, <3>5
  <2>1. ASSUME NEW p \in Callers, Begin(p) PROVE Balanced'
    <3>1. /\ pc[p] \notin Updates /\ pc' = [pc EXCEPT ![p] = "reserve"]
          /\ UNCHANGED <<stock, order, released>>
          /\ rowLock' = [rowLock EXCEPT !["counter"] = p]
      BY <2>1 DEF Begin, At, Goto, Lock, Updates
    <3>2. \A v \in Variants : rowLock'[v] = rowLock[v]
      BY <2>a, <3>1, CallersAre
    <3> QED BY <2>g, <2>h, <3>1, <3>2
  <2>2. ASSUME NEW p \in Callers, Reserve(p) PROVE Balanced'
    <3>1. CASE stock[Head(todo[p])] >= Wanted(p)
      BY <2>l, <2>2, <3>1 DEF Reserve, At, Updates
    <3>2. CASE ~(stock[Head(todo[p])] >= Wanted(p))
      BY <2>k, <2>2, <3>2 DEF Reserve
    <3> QED BY <3>1, <3>2
  <2>3. ASSUME NEW p \in Callers, Commit(p) PROVE Balanced'
    <3> DEFINE l == IF external THEN "export" ELSE "done"
    <3>1. /\ l \in Labels \ Updates /\ EndTx(p, l) /\ pc[p] = "reserve" /\ todo[p] = <<>>
          /\ order' = [order EXCEPT ![Of(p)] = "open"] /\ UNCHANGED <<stock, released>>
      BY <2>3 DEF Commit, At, Labels, Ended, Updates
    <3> HIDE DEF l
    <3>2. order[Of(p)] = "none" /\ Of(p) \notin released
      BY <2>b, <3>1 DEF PhaseOf, Orderings, ShelfInv, Phases
    <3>3. /\ \A o \in Orders : o # Of(p) => (Reserving(o)' <=> Reserving(o))
          /\ ~Reserving(Of(p)) /\ Reserving(Of(p))'
      BY <2>a, <2>c, <3>1, <3>2 DEF Reserving
    <3> QED BY <2>m, <3>1, <3>3 DEF Updates
  <2>4. ASSUME NEW p \in Callers, NEW l, pc[p] \notin Updates, Goto(p, l),
               UNCHANGED <<stock, rowLock, order, released>>
        PROVE  Balanced'
    BY <2>g, <2>h, <2>4 DEF Goto
  <2>5. ASSUME NEW p \in Callers, ErpRefuses(p) PROVE Balanced'
    BY <2>4, <2>5 DEF ErpRefuses, At, Updates
  <2>6. ASSUME NEW p \in Callers, Hint(p) PROVE Balanced'
    <3>0. /\ todo[p] \in Seq(Variants) /\ todo[p] # <<>> /\ Distinct(todo[p])
          /\ todo \in [Callers -> Seq(Variants)]
      BY <2>6 DEF Hint, ShelfInv, Locks, Carried
    <3>h. PICK h \in Variants : h = Head(todo[p]) /\ h \in Range(todo[p]) /\ h \notin Range(Tail(todo[p]))
      BY <3>0, NextLine
    <3>1. /\ pc[p] = "hint"
          /\ pc' = [pc EXCEPT ![p] = IF Tail(todo[p]) = <<>> THEN "compensate" ELSE "hint"]
          /\ UNCHANGED <<order, released, rowLock, saw>>
          /\ \/ UNCHANGED stock
             \/ h \in Short(Of(p)) /\ rowLock[h] = Nobody /\ stock' = [stock EXCEPT ![h] = ErpHas[h]]
      BY <2>6, <3>h DEF Hint, At, Goto
    <3>2. external /\ p \in saw /\ Kind(p) = "checkout"
      BY <2>b, <3>1 DEF PhaseOf, ShelfInv, Asks
    <3>3. h \in Short(Of(p)) => Of(p) \in Hinted(h)' \ Hinted(h)
      <4>3. \A q \in Checkout(Of(p)) : q = p
        BY <2>b, <3>2 DEF Checkout
      <4>4. Of(p) \notin Hinted(h)
        BY <3>h, <3>1, <4>3 DEF Hinted, At
      <4>5. h \notin Range(todo'[p]) \/ pc'[p] # "hint"
        <5>1. CASE Tail(todo[p]) = <<>>
          BY <2>a, <3>1, <5>1
        <5>2. CASE Tail(todo[p]) # <<>>
          BY <2>6, <3>0, <3>h, <5>2 DEF Hint
        <5> QED BY <5>1, <5>2
      <4>6. h \in Short(Of(p)) => Of(p) \in Hinted(h)'
        <5>1. p \in Checkout(Of(p)) /\ p \in saw' /\ Of(p) \in Orders
          BY <2>c, <3>1, <3>2 DEF Checkout
        <5> QED BY <4>5, <5>1 DEF Hinted, At, Checkout, Short, Cart, Range
      <4> QED BY <4>4, <4>6
    <3>4. ASSUME NEW v \in Variants
          PROVE  /\ stock'[v] >= 0 /\ Committed(v)' \in Int /\ Committed(v)' >= 0
                 /\ Committed(v)' + Surplus(v) <= Committed(v) + Surplus(v)'
      <4>1. Surplus(v) \in Nat /\ Surplus(v)' \in Nat /\ Surplus(v) <= Surplus(v)'
        BY <2>Grown
      <4>2. CASE stock'[v] = stock[v]
        <5>1. stock'[v] >= 0 /\ Committed(v)' = Committed(v)
          BY <2>h, <3>1, <4>2 DEF Updates
        <5> QED BY <2>d, <4>1, <5>1
      <4>3. CASE stock'[v] # stock[v]
        <5>1. v = h /\ h \in Short(Of(p)) /\ rowLock[v] = Nobody /\ stock'[v] = ErpHas[v] /\ ErpHas[v] \in Nat
          BY <2>a, <2>c, <3>1, <4>3
        <5>2. Committed(v) = stock[v] /\ Committed(v)' = stock'[v]
          BY <3>1, <5>1 DEF Committed
        <5>3. Surplus(v) + ErpHas[v] <= Surplus(v)'
          BY <2>Grown, <3>3, <5>1
        <5> QED BY <2>d, <4>1, <5>1, <5>2, <5>3
      <4> QED BY <4>2, <4>3
    <3>5. \A o : Reserving(o)' <=> Reserving(o)
      BY <3>1 DEF Reserving
    <3>6. ASSUME NEW v \in Variants PROVE Part(Of(p), v)' = Part(Of(p), v) /\ Part(Of(p), v) \in Nat
      BY <2>c, <3>5 DEF Part, Cart, Range
    <3>7. ASSUME NEW v \in Variants
          PROVE  Committed(v)' + Part(Of(p), v)' + Surplus(v) <= Committed(v) + Part(Of(p), v) + Surplus(v)'
      BY <2>d, <2>Grown, <3>4, <3>6
    <3> QED BY <2>f, <3>2, <3>4, <3>5, <3>7
  <2>7. ASSUME NEW p \in Callers, Compensate(p) \/ GiveBack(p) PROVE Balanced'
    <3>1. /\ pc[p] \in Updates /\ pc[p] # "reserve" /\ todo[p] # <<>> /\ AddLine(p) /\ Take(p)
          /\ UNCHANGED <<order, released, pc>>
      BY <2>7 DEF Compensate, GiveBack, At, Updates
    <3> QED BY <2>l, <3>1 DEF AddLine
  <2>8. ASSUME NEW p \in Callers, CompensateDelete(p) PROVE Balanced'
    <3>1. CASE order[Of(p)] = "gone"
      BY <2>k, <2>8, <3>1 DEF CompensateDelete
    <3>2. CASE order[Of(p)] # "gone"
      <4>1. /\ pc[p] = "compensate" /\ todo[p] = <<>> /\ EndTx(p, "refused") /\ "refused" \in Labels \ Updates
            /\ order' = [order EXCEPT ![Of(p)] = "gone"]
            /\ UNCHANGED <<stock, released>>
        BY <2>8, <3>2 DEF CompensateDelete, At, Labels, Ended, Updates
      <4>2. external /\ Kind(p) = "checkout" /\ order[Of(p)] \in {"open", "cancelled"}
        BY <2>a, <2>b, <2>c, <3>2, <4>1 DEF PhaseOf, Orderings
      <4>3. /\ \A o \in Orders : o # Of(p) => (Reserving(o)' <=> Reserving(o))
            /\ ~Reserving(Of(p))'
        BY <2>a, <2>c, <4>1 DEF Reserving
      <4>4. ASSUME NEW v \in Variants, v \in Cart(Of(p)), ~Reserving(Of(p))
            PROVE  Of(p) \in Doubled(v)' \ Doubled(v)
        <5>1. Of(p) \in released /\ \A q \in Checkout(Of(p)) : q = p
          BY <2>b, <2>c, <4>2, <4>4 DEF Reserving, Checkout
        <5>2. pc'[p] = "refused"
          BY <2>a, <4>1 DEF EndTx, Goto
        <5>3. Of(p) \notin Doubled(v)
          BY <4>1, <5>1 DEF Doubled, At
        <5>4. Of(p) \in Doubled(v)'
          BY <4>1, <4>2, <4>4, <5>1, <5>2 DEF Doubled, At, Checkout, Cart, Range
        <5> QED BY <5>3, <5>4
      <4> QED BY <2>m, <4>1, <4>2, <4>3, <4>4 DEF Updates
    <3> QED BY <3>1, <3>2
  (* A reservation is given up with the ERP's, or was given back before. *)
  <2>9. ASSUME NEW p \in Callers, NEW l, pc[p] \notin Updates, Goto(p, l), UNCHANGED <<stock, rowLock>>,
               \A o \in Orders : o # Of(p) => (Reserving(o)' <=> Reserving(o)),
               \/ Reserving(Of(p))' <=> Reserving(Of(p))
               \/ external /\ ~Reserving(Of(p))'
        PROVE  Balanced'
    <3>1. \A v \in Variants : stock'[v] >= 0 /\ Committed(v)' = Committed(v)
      BY <2>h, <2>9 DEF Goto
    <3>2. ASSUME NEW v \in Variants
          PROVE  /\ Part(Of(p), v) \in Nat /\ Part(Of(p), v)' \in Nat
                 /\ (Reserving(Of(p))' <=> Reserving(Of(p))) => Part(Of(p), v)' = Part(Of(p), v)
                 /\ ~Reserving(Of(p))' => Part(Of(p), v)' = 0
      BY <2>c DEF Part, Cart, Range
    <3>3. ASSUME NEW v \in Variants
          PROVE  /\ Committed(v)' \in Int /\ Committed(v)' >= 0
                 /\ external =>
                      Committed(v)' + Part(Of(p), v)' + Surplus(v) <= Committed(v) + Part(Of(p), v) + Surplus(v)'
                 /\ ~external => Committed(v)' + Part(Of(p), v)' = Committed(v) + Part(Of(p), v)
      <4>1. Surplus(v) \in Nat /\ Surplus(v)' \in Nat /\ Surplus(v) <= Surplus(v)'
        BY <2>Grown
      <4>2. Committed(v) \in Int /\ Committed(v) >= 0
        BY <2>d
      <4> QED BY <2>9, <3>1, <3>2, <4>1, <4>2
    <3> QED BY <2>f, <2>9, <3>1, <3>3
  <2>10. ASSUME NEW p \in Callers, Update(p) \/ Delete(p) \/ Effects(p) PROVE Balanced'
    <3> DEFINE o == Of(p)
    <3>1. /\ pc[p] \in {"update", "delete", "effects"} /\ \E l : Goto(p, l)
          /\ UNCHANGED <<stock, rowLock>>
          /\ \/ UNCHANGED <<order, released>>
             \/ /\ UNCHANGED released /\ pc[p] = "update" /\ order[o] # "gone"
                /\ order' = [order EXCEPT ![o] = "cancelled"]
             \/ UNCHANGED released /\ order' = [order EXCEPT ![o] = "gone"] /\ pc[p] = "delete"
             \/ external /\ UNCHANGED order /\ released' = released \cup {o}
      BY <2>10 DEF Update, Delete, Effects, At
    <3>2. o \in Orders /\ order[o] # "none" /\ (pc[p] = "delete" /\ ~external => ~Reserving(o))
      BY <2>b, <2>c, <3>1 DEF PhaseOf, Cancels
    <3> HIDE DEF o
    <3>3. /\ \A x \in Orders : x # o => (Reserving(x)' <=> Reserving(x))
          /\ (Reserving(o)' <=> Reserving(o)) \/ (external /\ ~Reserving(o)')
      BY <2>a, <2>c, <3>1, <3>2 DEF Reserving
    <3> QED BY <2>9, <3>1, <3>3 DEF Updates, o
  <2>11. ASSUME NEW p \in Callers, Released(p) PROVE Balanced'
    <3> DEFINE l == AfterRelease(p)
    <3>1. /\ pc[p] = "giveBack" /\ todo[p] = <<>> /\ UNCHANGED <<stock, order>> /\ EndTx(p, l)
          /\ released' = released \cup {Of(p)} /\ l \in Labels \ Updates
      BY <2>11 DEF Released, At, AfterRelease, Labels, Ended, Updates
    <3> HIDE DEF l
    <3>2. /\ \A o \in Orders : o # Of(p) => (Reserving(o)' <=> Reserving(o))
          /\ Reserving(Of(p)) /\ ~Reserving(Of(p))'
      BY <2>b, <3>1 DEF PhaseOf, Reserving
    <3> QED BY <2>m, <3>1, <3>2 DEF Updates
  <2>12. ASSUME NEW p \in Callers,
                Accepted(p) \/ Kept(p) \/ StartCancel(p) \/ StartRemove(p)
         PROVE  Balanced'
    BY <2>4, <2>12 DEF Accepted, Kept, StartCancel, StartRemove, At, Updates
  <2>13. ASSUME NEW p \in Callers, LockOrder(p) PROVE Balanced'
    <3>1. /\ pc[p] \notin Updates /\ \E l : pc' = [pc EXCEPT ![p] = l]
          /\ UNCHANGED <<stock, order, released>>
          /\ UNCHANGED rowLock \/ rowLock' = [rowLock EXCEPT ![Of(p)] = p]
      BY <2>13 DEF LockOrder, At, Goto, Lock, Updates
    <3>2. \A v \in Variants : rowLock'[v] = rowLock[v]
      BY <2>a, <3>1, CallersAre
    <3> QED BY <2>g, <2>h, <3>1, <3>2
  <2>14. ASSUME NEW p \in Callers, Deadlocked(p) \/ Crash(p) PROVE Balanced'
    BY <2>k, <2>14 DEF Deadlocked, Crash
  <2>15. CASE UNCHANGED vars
    <3> SUFFICES ASSUME NEW v \in Variants
                 PROVE  /\ stock'[v] = stock[v] /\ external' = external /\ Committed(v)' = Committed(v)
                        /\ Reserved(v)' = Reserved(v) /\ Surplus(v)' = Surplus(v)
      BY DEF Balanced
    <3>1. Committed(v)' = Committed(v)
      BY <2>15 DEF vars, Committed
    <3>2. Reserved(v)' = Reserved(v)
      BY <2>15 DEF vars, Reserved, Total, Cart, Range
    <3>3. Hinted(v)' = Hinted(v)
      BY <2>15 DEF vars, Hinted, Checkout, Short, At, Cart, Range
    <3>4. Doubled(v)' = Doubled(v)
      BY <2>15 DEF vars, Doubled, Checkout, At, Cart, Range
    <3>5. Surplus(v)' = Surplus(v)
      BY <3>3, <3>4 DEF Surplus, Total
    <3> QED BY <2>15, <3>1, <3>2, <3>5 DEF vars
  <2> QED
    BY <2>1, <2>2, <2>3, <2>5, <2>6, <2>7, <2>8, <2>10, <2>11, <2>12, <2>13, <2>14, <2>15
    DEF Next, CheckoutStep, CancelStep, RemoveStep
<1>1. Init => Balanced
  <2> SUFFICES ASSUME Init PROVE Balanced
    OBVIOUS
  <2>1. \A o \in Orders : ~Reserving(o)
    BY DEF Init, Reserving
  <2>2. ASSUME NEW v PROVE Reserved(v) = 0
    <3>1. {o \in Orders : order[o] \in {"open", "cancelled"} /\ o \notin released /\ v \in Cart(o)} = {}
      BY <2>1 DEF Reserving
    <3> QED BY <3>1, FS_EmptySet DEF Reserved, Total
  <2>3. ASSUME NEW v PROVE Surplus(v) = 0
    <3>1. Hinted(v) = {} /\ Doubled(v) = {}
      BY DEF Init, Hinted, Doubled, At
    <3> QED BY <3>1, FS_EmptySet DEF Surplus, Total
  <2>4. \A v \in Variants : Committed(v) = Initial[v] /\ stock[v] = Initial[v] /\ Initial[v] \in Nat
    BY CallersAre DEF Init, Committed, StockHypothesis
  <2> QED BY <2>2, <2>3, <2>4 DEF Balanced
<1>2. Balanced /\ ShelfInv /\ ShelfInv' /\ [Next]_vars /\ [Grows]_vars => Balanced'
  BY <1>BalanceStep
<1>3. Balanced /\ ShelfInv => StockAddsUp
  <2> SUFFICES ASSUME Balanced, ShelfInv, \A p \in Callers : done[p] = {}, NEW v \in Variants
               PROVE  /\ external  => stock[v] + Reserved(v) <= Initial[v] + Surplus(v)
                      /\ ~external => stock[v] + Reserved(v) = Initial[v]
    BY DEF StockAddsUp
  <2>1. rowLock[v] = Nobody
    BY CallersAre DEF ShelfInv, Locks, RowsHeld
  <2> QED BY <2>1 DEF Balanced, Committed
<1>4. Balanced /\ ShelfInv => TypeOK
  <2> SUFFICES ASSUME Balanced, ShelfInv PROVE TypeOK
    OBVIOUS
  <2>1. stock \in [Variants -> Nat]
    <3>1. stock \in [Variants -> Int] /\ \A v \in Variants : stock[v] >= 0
      BY DEF ShelfInv, Typed, Balanced
    <3> QED BY <3>1
  <2> QED BY <2>1 DEF ShelfInv, Typed, Locks, TypeOK
<1> QED
  BY <1>1, <1>2, <1>3, <1>4, ShelfHolds, PTL DEF Spec
=============================================================================
