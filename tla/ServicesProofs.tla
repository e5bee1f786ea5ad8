--------------------------- MODULE ServicesProofs ---------------------------
(* Theorems about the properties of Services, each for every value of the  *)
(* constants of its component.                                             *)
EXTENDS Services, Naturals, Sequences, FiniteSetTheorems, TLAPS

-----------------------------------------------------------------------------
(* A worker is not the absence of one; the lock of the Nova Poshta         *)
(* directory, which has no owner, is only claimed to hold while no run     *)
(* outlives it.                                                            *)
LockHypothesis ==
  /\ Lock!Nobody \notin Workers
  /\ "np" \in Protocols => "overrun" \notin LockFaults

(* A run inside its section holds the lock or has outlived it, and one     *)
(* about to delete the key has read itself as its owner.                   *)
LockInv ==
  /\ Lock!TypeOK
  /\ \A w \in Workers : Lock!Inside(w) => lock = w \/ w \in overrun
  /\ \A w \in Workers : pc[w] = "delete" => lock = w
  /\ (protocol = "np" \/ "overrun" \notin LockFaults) => \A w \in overrun : pc[w] \in {"dead", "done"}

(* However runs begin, are extended, die and outlive their locks, two runs *)
(* overlap only if one of them has outlived its own (tryAcquire, the       *)
(* heartbeat and release of the three locks).                              *)
THEOREM LocksExclude == ASSUME LockHypothesis PROVE Lock!Spec => []LiveHoldersExclude
<1>1. Lock!Init => LockInv
  BY DEF Lock!Init, LockInv, Lock!TypeOK, Lock!Inside
<1>2. LockInv /\ [Lock!Next]_Lock!vars => LockInv'
  <2> SUFFICES ASSUME LockInv, [Lock!Next]_Lock!vars PROVE LockInv'
    OBVIOUS
  <2> USE LockHypothesis DEF LockHypothesis, LockInv, Lock!TypeOK, Lock!Inside, Lock!Nobody, Lock!Goto, Lock!At
  <2>1. ASSUME NEW w \in Workers, Lock!TryAcquire(w) PROVE LockInv'
    BY <2>1 DEF Lock!TryAcquire
  <2>2. ASSUME NEW w \in Workers, Lock!Heartbeat(w) PROVE LockInv'
    BY <2>2 DEF Lock!Heartbeat
  <2>3. ASSUME NEW w \in Workers, Lock!Extend(w) PROVE LockInv'
    BY <2>3 DEF Lock!Extend
  <2>4. ASSUME NEW w \in Workers, Lock!End(w) PROVE LockInv'
    BY <2>4 DEF Lock!End
  <2>5. ASSUME NEW w \in Workers, Lock!ReadOwner(w) PROVE LockInv'
    BY <2>5 DEF Lock!ReadOwner, Lock!Mine
  <2>6. ASSUME NEW w \in Workers, Lock!Release(w) PROVE LockInv'
    BY <2>6 DEF Lock!Release
  <2>7. CASE Lock!Late
    BY <2>7 DEF Lock!Late
  <2>8. CASE Lock!Expire
    BY <2>8 DEF Lock!Expire
  <2>9. ASSUME NEW w \in Workers, Lock!Crash(w) PROVE LockInv'
    BY <2>9 DEF Lock!Crash
  <2>10. CASE UNCHANGED Lock!vars
    BY <2>10 DEF Lock!vars
  <2> QED
    BY <2>1, <2>2, <2>3, <2>4, <2>5, <2>6, <2>7, <2>8, <2>9, <2>10 DEF Lock!Next, Lock!Proceeds
<1>3. LockInv => LiveHoldersExclude
  BY LockHypothesis DEF LockHypothesis, LockInv, Lock!TypeOK, LiveHoldersExclude, Lock!LiveHoldersExclude
<1> QED
  BY <1>1, <1>2, <1>3, PTL DEF Lock!Spec

-----------------------------------------------------------------------------
CartHypothesis ==
  /\ Cart!NoCart \notin CartIds
  /\ Syncs \in Nat
  /\ Strategies \subseteq {"keep_guest", "keep_user", "merge", "clear"}

(* A cart has been made before an order or a close names it, and the one a *)
(* close is about to empty is linked to its order or gone.                 *)
CartInv ==
  /\ \A o \in Orders : checkout[o].at \in {"start", "create"} => origin[o] = Cart!NoCart
  /\ \A o \in Orders : origin[o] # Cart!NoCart => cart[origin[o]].at # "none"
  /\ \A o \in Orders : checkout[o].at = "closing" =>
       /\ checkout[o].cart \in CartIds
       /\ cart[checkout[o].cart].at # "none"
       /\ Cart!Exists(checkout[o].cart) => Cart!Linked(checkout[o].cart)
  /\ Cart!ClosedForItsOrder

(* A cart is closed only for an order made from it, however syncs, merges  *)
(* and other checkouts interleave with the order and its close             *)
(* (clearOriginatingCartAfterSuccessfulOrder, closeCartForOrder).          *)
THEOREM CartsClose == ASSUME CartHypothesis PROVE Cart!Spec => []ClosedForItsOrder
(* The newest open cart of an owner and a new cart are carts (findFirst,   *)
(* create).                                                                *)
<1>CartsChosen.
    ASSUME CartHypothesis, Cart!TypeOK
    PROVE  /\ \A p : Cart!OpenCart(p) \in Cart!Ids
           /\ \A p : Cart!OpenCart(p) # Cart!NoCart => cart[Cart!OpenCart(p)].at = "open"
           /\ \A p : Cart!OpenCart(p) # Cart!NoCart => Cart!OpenCart(p) \in CartIds
           /\ Cart!Unused # {} => Cart!NewCart \in CartIds /\ cart[Cart!NewCart].at = "none"
  <2> USE <1>CartsChosen
  <2>1. \A p : Cart!OpenCarts(p) # {} => (CHOOSE c \in Cart!OpenCarts(p) : TRUE) \in Cart!OpenCarts(p)
    OBVIOUS
  <2>2. Cart!Unused # {} => Cart!NewCart \in Cart!Unused
    BY DEF Cart!NewCart
  <2> QED
    BY <2>1, <2>2, CartHypothesis DEF CartHypothesis, Cart!OpenCart, Cart!OpenCarts, Cart!Unused, Cart!Ids
(* Carts, checkouts, the sync and the merge keep their types.              *)
<1>CartTypes. ASSUME CartHypothesis PROVE Cart!Spec => []Cart!TypeOK
  <2> USE <1>CartTypes
  <2>1. Cart!Init => Cart!TypeOK
    BY CartHypothesis
    DEF CartHypothesis, Cart!Init, Cart!TypeOK, Cart!Ids, Cart!Owners, Cart!NoRequest, Cart!NoMerge,
        Cart!CartRecords, Cart!Checkouts
  <2>2. Cart!TypeOK /\ [Cart!Next]_Cart!vars => Cart!TypeOK'
    <3> SUFFICES ASSUME Cart!TypeOK, [Cart!Next]_Cart!vars PROVE Cart!TypeOK'
      OBVIOUS
    <3> USE CartHypothesis DEF CartHypothesis
    <3>1. /\ \A p : Cart!OpenCart(p) \in Cart!Ids
          /\ \A p : Cart!OpenCart(p) # Cart!NoCart => Cart!OpenCart(p) \in CartIds
          /\ Cart!Unused # {} => Cart!NewCart \in CartIds
      BY <1>CartsChosen
    <3>a. \A c \in Cart!Ids : Cart!LinesOf(c) \subseteq Lines
      BY DEF Cart!LinesOf, Cart!Ids, Cart!TypeOK, Cart!CartRecords
    <3>b. \A c \in Cart!Ids : Cart!Exists(c) => c \in CartIds
      BY DEF Cart!Exists, Cart!Ids
    <3>c. \A c : Cart!Unlink(c) \in [Orders -> Cart!Ids]
      BY DEF Cart!Unlink, Cart!TypeOK, Cart!Ids
    <3>d. ASSUME NEW c \in CartIds
          PROVE  /\ \A ls \in SUBSET Lines : [cart[c] EXCEPT !.lines = ls] \in Cart!CartRecords
                 /\ \A p \in Cart!Owners : [cart[c] EXCEPT !.owner = p] \in Cart!CartRecords
                 /\ [cart[c] EXCEPT !.at = "closed", !.lines = {}] \in Cart!CartRecords
                 /\ Cart!Gone(c) \in Cart!CartRecords
      BY DEF Cart!TypeOK, Cart!CartRecords, Cart!Gone
    <3>e. \A p \in Cart!Owners, ls \in SUBSET Lines :
            [at |-> "open", owner |-> p, lines |-> ls] \in Cart!CartRecords
      BY DEF Cart!CartRecords
    <3>f. ASSUME NEW o \in Orders
          PROVE  \A at \in {"create", "placed", "closing", "done", "unclosed", "failed"} :
                   [checkout[o] EXCEPT !.at = at] \in Cart!Checkouts
      BY DEF Cart!TypeOK, Cart!Checkouts
    <3>g. Cart!NoRequest \in [at : {"idle", "write"}, owner : Cart!Owners, cart : Cart!Ids, lines : SUBSET Lines]
      BY DEF Cart!NoRequest, Cart!Ids, Cart!Owners
    <3>h. [Cart!NoMerge EXCEPT !.at = "done"] \in
            [at : {"idle", "write", "dispose", "done"}, strategy : {"keep_guest", "keep_user", "merge", "clear"},
             guest : Cart!Ids, user : Cart!Ids, lines : SUBSET Lines]
      BY DEF Cart!NoMerge, Cart!Ids
    <3> USE DEF Cart!TypeOK
    <3>2. ASSUME NEW p \in Cart!Owners, NEW ls \in SUBSET Lines, Cart!StartSync(p, ls) PROVE Cart!TypeOK'
      BY <3>e, <3>1, <3>2 DEF Cart!StartSync, Cart!Ids
    <3>3. CASE Cart!WriteSync
      BY <3>b, <3>d, <3>g, <3>3 DEF Cart!WriteSync
    <3>4. ASSUME NEW o \in Orders, NEW p \in Cart!Owners, Cart!StartCheckout(o, p) PROVE Cart!TypeOK'
      BY <3>1, <3>4 DEF Cart!StartCheckout, Cart!Checkouts
    <3>5. ASSUME NEW o \in Orders, Cart!CreateOrder(o) PROVE Cart!TypeOK'
      <4>1. checkout[o].cart \in Cart!Ids
        BY DEF Cart!Checkouts
      <4> QED BY <3>f, <3>5, <4>1 DEF Cart!CreateOrder
    <3>6. ASSUME NEW o \in Orders, Cart!FindCartToClose(o) PROVE Cart!TypeOK'
      <4>1. [checkout[o] EXCEPT !.cart = Cart!CartToClose(o),
               !.at = IF Cart!CartToClose(o) = Cart!NoCart THEN "done" ELSE "closing"] \in Cart!Checkouts
        BY DEF Cart!Checkouts, Cart!CartToClose
      <4> QED BY <3>6, <4>1 DEF Cart!FindCartToClose
    <3>7. ASSUME NEW o \in Orders, Cart!CloseCart(o) PROVE Cart!TypeOK'
      <4>1. checkout[o].cart \in Cart!Ids
        BY DEF Cart!Checkouts
      <4>2. checkout' \in [Orders -> Cart!Checkouts]
        BY <3>f, <3>7 DEF Cart!CloseCart
      <4>3. cart' \in [CartIds -> Cart!CartRecords]
        <5>1. \/ UNCHANGED cart
              \/ /\ checkout[o].cart \in CartIds
                 /\ cart' = [cart EXCEPT ![checkout[o].cart] =
                              [cart[checkout[o].cart] EXCEPT !.at = "closed", !.lines = {}]]
          BY <3>b, <3>7, <4>1 DEF Cart!CloseCart
        <5>2. /\ cart \in [CartIds -> Cart!CartRecords]
              /\ \A c \in CartIds : [cart[c] EXCEPT !.at = "closed", !.lines = {}] \in Cart!CartRecords
          BY <3>d
        <5> HIDE DEF Cart!TypeOK
        <5> QED BY <5>1, <5>2
      <4> QED BY <3>7, <4>2, <4>3 DEF Cart!CloseCart
    <3>8. ASSUME NEW o \in Orders, Cart!Replay(o) PROVE Cart!TypeOK'
      BY <3>f, <3>8 DEF Cart!Replay
    <3>9. ASSUME NEW s \in Strategies, Cart!StartMerge(s) PROVE Cart!TypeOK'
      <4>1. Cart!MergedLines(s) \subseteq Lines
        BY <3>a, <3>1 DEF Cart!MergedLines
      <4> QED BY <3>1, <3>9, <4>1 DEF Cart!StartMerge
    <3>10. CASE Cart!Reassign
      <4> DEFINE g == merge.guest
                 u == merge.user
                 kept == [cart EXCEPT ![g].owner = "user"]
      <4>1. g \in CartIds
        BY <3>10 DEF Cart!Reassign, Cart!Ids
      <4>2. kept \in [CartIds -> Cart!CartRecords]
        BY <3>d, <4>1 DEF Cart!Owners
      <4>3. cart' \in {cart, kept} \/ (u \in CartIds /\ cart' = [kept EXCEPT ![u] = Cart!Gone(u)])
        BY <3>10 DEF Cart!Reassign, Cart!Ids
      <4>4. origin' \in [Orders -> Cart!Ids]
        BY <3>c, <3>10 DEF Cart!Reassign
      <4>5. cart' \in [CartIds -> Cart!CartRecords]
        <5> HIDE DEF g, u, kept, Cart!TypeOK
        <5>1. cart \in [CartIds -> Cart!CartRecords] /\ \A c \in CartIds : Cart!Gone(c) \in Cart!CartRecords
          BY <3>d DEF Cart!TypeOK
        <5> QED BY <4>2, <4>3, <5>1
      <4> QED BY <3>h, <3>10, <4>4, <4>5 DEF Cart!Reassign
    <3>11. CASE Cart!StoreMerged
      <4> DEFINE u == Cart!OpenCart("user")
      <4>1. merge.lines \in SUBSET Lines /\ "user" \in Cart!Owners
        BY DEF Cart!Owners
      <4>2. cart' \in [CartIds -> Cart!CartRecords]
        <5>1. CASE u # Cart!NoCart
          <6>1. cart' = [cart EXCEPT ![u] = [cart[u] EXCEPT !.lines = merge.lines]]
            BY <3>11, <5>1 DEF Cart!StoreMerged
          <6> QED BY <3>d, <3>1, <4>1, <5>1, <6>1
        <5>2. CASE u = Cart!NoCart
          BY <3>e, <3>1, <3>11, <4>1, <5>2 DEF Cart!StoreMerged
        <5> QED BY <5>1, <5>2
      <4> QED BY <3>h, <3>11, <4>2 DEF Cart!StoreMerged
    <3>12. CASE Cart!Dispose
      BY <3>b, <3>c, <3>d, <3>h, <3>12 DEF Cart!Dispose
    <3>13. CASE UNCHANGED Cart!vars
      BY <3>13 DEF Cart!vars
    <3> QED
      BY <3>2, <3>3, <3>4, <3>5, <3>6, <3>7, <3>8, <3>9, <3>10, <3>11, <3>12, <3>13
      DEF Cart!Next, Cart!Proceeds, Cart!Merges
  <2> QED
    BY <2>1, <2>2, PTL DEF Cart!Spec
(* A step that makes, fills, hands over or deletes carts but closes none   *)
(* keeps the invariant: a deleted cart leaves no link behind.              *)
<1>CartsElsewhere.
    ASSUME Cart!TypeOK, CartInv, UNCHANGED checkout, CartHypothesis,
           \A c \in CartIds : cart[c].at # "none" => cart'[c].at # "none",
           \A c \in CartIds : Cart!Exists(c)' => Cart!Exists(c) \/ cart[c].at = "none",
           \A c \in CartIds : cart'[c].at = "closed" => cart[c].at = "closed",
           NEW g \in Cart!Ids,
           origin' = origin \/ (origin' = Cart!Unlink(g) /\ (g \in CartIds => ~Cart!Exists(g)'))
    PROVE  CartInv'
  <2> USE <1>CartsElsewhere
  <2> USE DEF Cart!TypeOK, CartInv, Cart!Linked, Cart!Unlink, Cart!Ids, CartHypothesis, Cart!ClosedForItsOrder
  <2>1. \A o \in Orders : checkout'[o].at \in {"start", "create"} => origin'[o] = Cart!NoCart
    OBVIOUS
  <2>2. \A o \in Orders : origin'[o] # Cart!NoCart => cart'[origin'[o]].at # "none"
    OBVIOUS
  <2>3. \A c \in CartIds : Cart!Exists(c)' /\ Cart!Linked(c) => Cart!Linked(c)'
    OBVIOUS
  <2>4. \A c \in CartIds : cart'[c].at = "closed" => Cart!Linked(c)'
    BY <2>3 DEF Cart!Exists
  <2> HIDE DEF Cart!Linked
  <2>5. ASSUME NEW o \in Orders, checkout'[o].at = "closing"
        PROVE  /\ checkout'[o].cart \in CartIds
               /\ cart'[checkout'[o].cart].at # "none"
               /\ Cart!Exists(checkout[o].cart)' => Cart!Linked(checkout[o].cart)'
    BY <2>3, <2>5
  <2> QED
    BY <2>1, <2>2, <2>4, <2>5
<1>1. Cart!Init => CartInv
  BY CartHypothesis DEF Cart!Init, CartInv, Cart!ClosedForItsOrder, Cart!NoMerge
<1>2. Cart!TypeOK /\ Cart!TypeOK' /\ CartInv /\ [Cart!Next]_Cart!vars => CartInv'
  <2> SUFFICES ASSUME Cart!TypeOK, Cart!TypeOK', CartInv, [Cart!Next]_Cart!vars PROVE CartInv'
    OBVIOUS
  <2>1. /\ \A p : Cart!OpenCart(p) \in Cart!Ids
        /\ \A p : Cart!OpenCart(p) # Cart!NoCart => cart[Cart!OpenCart(p)].at = "open"
        /\ \A p : Cart!OpenCart(p) # Cart!NoCart => Cart!OpenCart(p) \in CartIds
        /\ Cart!Unused # {} => Cart!NewCart \in CartIds /\ cart[Cart!NewCart].at = "none"
    BY <1>CartsChosen, CartHypothesis
  <2> USE CartHypothesis DEF CartHypothesis
  <2>a. Cart!NoCart \in Cart!Ids /\ merge.user \in Cart!Ids /\ merge.guest \in Cart!Ids /\ sync.cart \in Cart!Ids
    BY DEF Cart!TypeOK, Cart!Ids
  <2>2. ASSUME NEW p \in Cart!Owners, NEW ls \in SUBSET Lines, Cart!StartSync(p, ls) PROVE CartInv'
    <3>1. UNCHANGED <<checkout, origin>>
      BY <2>2 DEF Cart!StartSync
    <3>2. \/ UNCHANGED cart
          \/ /\ Cart!Unused # {}
             /\ cart' = [cart EXCEPT ![Cart!NewCart] = [at |-> "open", owner |-> p, lines |-> {}]]
      BY <2>2 DEF Cart!StartSync
    <3> QED BY <2>a, <2>1, <3>1, <3>2, <1>CartsElsewhere DEF Cart!Exists, Cart!TypeOK
  <2>3. CASE Cart!WriteSync
    <3>1. UNCHANGED <<checkout, origin>>
      BY <2>3 DEF Cart!WriteSync
    <3>2. \A c \in CartIds : cart'[c].at = cart[c].at
      BY <2>a, <2>3 DEF Cart!WriteSync, Cart!TypeOK, Cart!CartRecords, Cart!Exists, Cart!Ids
    <3> QED BY <2>a, <3>1, <3>2, <1>CartsElsewhere DEF Cart!Exists
  <2>4. ASSUME NEW st \in Strategies, Cart!StartMerge(st) PROVE CartInv'
    <3>1. UNCHANGED <<cart, checkout, origin>>
      BY <2>4 DEF Cart!StartMerge
    <3> QED BY <2>a, <3>1, <1>CartsElsewhere DEF Cart!Exists
  <2>5. CASE Cart!Reassign
    <3> DEFINE g == merge.guest
               u == merge.user
               kept == [cart EXCEPT ![g].owner = "user"]
    <3>1. g \in CartIds /\ UNCHANGED checkout
      BY <2>a, <2>5 DEF Cart!Reassign, Cart!Ids
    <3>2. kept \in [CartIds -> Cart!CartRecords] /\ \A c \in CartIds : kept[c].at = cart[c].at
      BY <3>1 DEF Cart!TypeOK, Cart!CartRecords, Cart!Owners
    <3>3. \/ cart' \in {cart, kept} /\ UNCHANGED origin
          \/ /\ u \in CartIds /\ Cart!Exists(u)
             /\ cart' = [kept EXCEPT ![u] = Cart!Gone(u)] /\ origin' = Cart!Unlink(u)
      BY <2>a, <2>5 DEF Cart!Reassign, Cart!Ids
    <3> HIDE DEF g, u, kept
    <3>4. \A c \in CartIds : Cart!Gone(c).at = "gone"
      BY DEF Cart!Gone, Cart!TypeOK, Cart!CartRecords
    <3>5. CASE cart' \in {cart, kept} /\ UNCHANGED origin
      BY <2>a, <3>1, <3>2, <3>5, <1>CartsElsewhere DEF Cart!Exists
    <3>6. CASE /\ u \in CartIds /\ Cart!Exists(u)
               /\ cart' = [kept EXCEPT ![u] = Cart!Gone(u)] /\ origin' = Cart!Unlink(u)
      <4>1. cart'[u].at = "gone" /\ \A c \in CartIds \ {u} : cart'[c].at = cart[c].at
        BY <3>2, <3>4, <3>6
      <4> QED BY <3>1, <3>6, <4>1, <1>CartsElsewhere DEF Cart!Exists, Cart!Ids
    <3> QED BY <3>3, <3>5, <3>6
  <2>6. CASE Cart!StoreMerged
    <3> DEFINE u == Cart!OpenCart("user")
    <3>1. UNCHANGED <<checkout, origin>>
      BY <2>6 DEF Cart!StoreMerged
    <3>2. CASE u # Cart!NoCart
      <4>1. cart' = [cart EXCEPT ![u] = [cart[u] EXCEPT !.lines = merge.lines]]
        BY <2>6, <3>2 DEF Cart!StoreMerged
      <4>2. \A c \in CartIds : cart'[c].at = cart[c].at
        BY <2>1, <3>2, <4>1 DEF Cart!TypeOK, Cart!CartRecords
      <4> QED BY <2>a, <3>1, <4>2, <1>CartsElsewhere DEF Cart!Exists
    <3>3. CASE u = Cart!NoCart
      <4>1. \/ UNCHANGED cart
            \/ /\ Cart!Unused # {}
               /\ cart' = [cart EXCEPT ![Cart!NewCart] = [at |-> "open", owner |-> "user", lines |-> merge.lines]]
        BY <2>6, <3>3 DEF Cart!StoreMerged
      <4> QED BY <2>a, <2>1, <3>1, <4>1, <1>CartsElsewhere DEF Cart!Exists, Cart!TypeOK
    <3> QED BY <3>2, <3>3
  <2>7. CASE Cart!Dispose
    <3> DEFINE g == merge.guest
    <3>1. \A c \in CartIds : Cart!Gone(c).at = "gone"
      BY DEF Cart!Gone, Cart!TypeOK, Cart!CartRecords
    <3>2. origin' = Cart!Unlink(g) /\ UNCHANGED checkout
      BY <2>7 DEF Cart!Dispose
    <3>3. \A c \in CartIds : IF c = g /\ Cart!Exists(c) THEN cart'[c].at = "gone" ELSE cart'[c].at = cart[c].at
      BY <2>7, <3>1 DEF Cart!Dispose, Cart!TypeOK, Cart!Exists
    <3> QED BY <2>a, <3>2, <3>3, <1>CartsElsewhere DEF Cart!Exists
  <2>8. CASE UNCHANGED Cart!vars
    BY <2>a, <2>8, <1>CartsElsewhere DEF Cart!vars, Cart!Exists
  <2> USE DEF Cart!TypeOK, CartInv, Cart!ClosedForItsOrder, Cart!Linked
  <2>9. ASSUME NEW o \in Orders, NEW p \in Cart!Owners, Cart!StartCheckout(o, p) PROVE CartInv'
    BY <2>9 DEF Cart!StartCheckout, Cart!Exists
  <2>10. ASSUME NEW o \in Orders, Cart!CreateOrder(o) PROVE CartInv'
    <3>1. \A q \in Orders : q # o => checkout'[q] = checkout[q]
      BY <2>10 DEF Cart!CreateOrder
    <3>2. checkout'[o].at \in {"placed", "failed"} /\ cart' = cart
      BY <2>10 DEF Cart!CreateOrder, Cart!Checkouts
    <3>3. \/ UNCHANGED origin
          \/ /\ origin' = [origin EXCEPT ![o] = checkout[o].cart]
             /\ Cart!Exists(checkout[o].cart) /\ origin[o] = Cart!NoCart
      BY <2>10 DEF Cart!CreateOrder
    <3>4. \A c \in CartIds : Cart!Linked(c) => Cart!Linked(c)'
      BY <3>3
    <3> QED BY <3>1, <3>2, <3>3, <3>4 DEF Cart!Exists
  <2>11. ASSUME NEW o \in Orders, Cart!FindCartToClose(o) PROVE CartInv'
    <3>1. \A q \in Orders : q # o => checkout'[q] = checkout[q]
      BY <2>11 DEF Cart!FindCartToClose
    <3>2. UNCHANGED <<cart, origin>>
      BY <2>11 DEF Cart!FindCartToClose
    <3>3. /\ checkout'[o].at \in {"done", "closing"}
          /\ checkout'[o].at = "closing" => checkout'[o].cart = origin[o] /\ origin[o] # Cart!NoCart
      BY <2>11 DEF Cart!FindCartToClose, Cart!Checkouts, Cart!CartToClose
    <3> QED BY <3>1, <3>2, <3>3 DEF Cart!Exists, Cart!Ids
  <2>12. ASSUME NEW o \in Orders, Cart!CloseCart(o) PROVE CartInv'
    <3>1. \A q \in Orders : q # o => checkout'[q] = checkout[q]
      BY <2>12 DEF Cart!CloseCart
    <3>2. checkout'[o].at \in {"done", "unclosed"} /\ UNCHANGED origin
      BY <2>12 DEF Cart!CloseCart, Cart!Checkouts
    <3>3. \A c \in CartIds : IF cart'[c].at = "closed" /\ cart[c].at # "closed"
                             THEN c = checkout[o].cart /\ Cart!Exists(c)
                             ELSE cart'[c].at = cart[c].at
      <4>1. \/ UNCHANGED cart
            \/ /\ Cart!Exists(checkout[o].cart)
               /\ cart' = [cart EXCEPT ![checkout[o].cart] =
                            [cart[checkout[o].cart] EXCEPT !.at = "closed", !.lines = {}]]
        BY <2>12 DEF Cart!CloseCart
      <4>2. \A c \in CartIds : [cart[c] EXCEPT !.at = "closed", !.lines = {}].at = "closed"
        BY DEF Cart!CartRecords
      <4>3. cart \in [CartIds -> Cart!CartRecords]
        OBVIOUS
      <4> HIDE DEF Cart!TypeOK, CartInv
      <4> QED BY <4>1, <4>2, <4>3
    <3> QED BY <2>12, <3>1, <3>2, <3>3 DEF Cart!Exists, Cart!CloseCart, Cart!Ids
  <2>13. ASSUME NEW o \in Orders, Cart!Replay(o) PROVE CartInv'
    <3>1. \A q \in Orders : q # o => checkout'[q] = checkout[q]
      BY <2>13 DEF Cart!Replay
    <3>2. checkout'[o].at = "placed" /\ UNCHANGED <<cart, origin>>
      BY <2>13 DEF Cart!Replay, Cart!Checkouts
    <3> QED BY <3>1, <3>2 DEF Cart!Exists
  <2> QED
    BY <2>2, <2>3, <2>4, <2>5, <2>6, <2>7, <2>8, <2>9, <2>10, <2>11, <2>12, <2>13
    DEF Cart!Next, Cart!Proceeds, Cart!Merges
<1>3. CartInv => ClosedForItsOrder
  BY DEF CartInv, ClosedForItsOrder
<1> QED
  BY <1>1, <1>2, <1>3, <1>CartTypes, PTL DEF Cart!Spec

-----------------------------------------------------------------------------
MediaHypothesis ==
  /\ IsFiniteSet(Images) /\ MaxImages \in Nat
  /\ MediaTries \in Nat \ {0} /\ MaxFaults \in Nat

(* A photo attached to the review is stored, or its customer has removed   *)
(* it: as long as the link is valid this holds of every photo uploaded,    *)
(* and the cleanup, which runs when the link is dead and nothing can be    *)
(* attached any more, keeps what it saw attached.                          *)
Kept(i) == i \in disk \/ removal[i] = "removed"

MediaInv ==
  /\ ~reviewed => attached = {}
  /\ \A i \in attached : upload[i] = "done" /\ Kept(i)
  /\ \A s \in Submits : submit[s].at = "commit" => \A i \in submit[s].images : upload[i] = "done"
  /\ link = "valid" => \A i \in Images :
       upload[i] \in {"own", "list", "count", "undo", "schedule", "done"} => Kept(i)
  /\ cleaner.at \in {"look", "clean"} => link = "dead"
  /\ cleaner.at = "clean" => attached \cap cleaner.todo \subseteq cleaner.keep

(* Uploads, removals, submissions and the cleanup keep their types.        *)
LEMMA MediaTypes == ASSUME MediaHypothesis PROVE Media!Spec => []Media!TypeOK
<1> USE MediaHypothesis DEF MediaHypothesis
<1>1. Media!Init => Media!TypeOK
  <2>1. /\ Media!Resting \in Media!CleanerStates
        /\ Media!NoJob \in Media!JobStates
        /\ [at |-> "start", images |-> {}] \in Media!SubmitStates
    BY DEF Media!SubmitStates, Media!JobStates, Media!CleanerStates, Media!Resting, Media!NoJob
  <2>2. Media!Init => submit \in [Submits -> Media!SubmitStates] /\ faults \in 0..MaxFaults
    BY <2>1 DEF Media!Init
  <2> QED BY <2>1, <2>2 DEF Media!Init, Media!TypeOK
<1>2. Media!TypeOK /\ [Media!Next]_Media!vars => Media!TypeOK'
  <2> SUFFICES ASSUME Media!TypeOK, [Media!Next]_Media!vars PROVE Media!TypeOK'
    OBVIOUS
  <2>a. ASSUME Media!Enqueues PROVE mediaJob' \in Media!JobStates /\ faults' \in 0..MaxFaults
    BY <2>a
    DEF Media!Enqueues, Media!Scheduled, Media!Unscheduled, Media!NoJob, Media!JobStates, Media!Fault, Media!TypeOK
  <2>b. /\ Media!Resting \in Media!CleanerStates /\ Media!Locked \in Media!CleanerStates
        /\ \A is \in SUBSET Images : /\ [Media!Resting EXCEPT !.at = "look", !.todo = is] \in Media!CleanerStates
                                     /\ [cleaner EXCEPT !.at = "clean", !.keep = is] \in Media!CleanerStates
                                     /\ [cleaner EXCEPT !.todo = is] \in Media!CleanerStates
                                     /\ [cleaner EXCEPT !.todo = is, !.ok = FALSE] \in Media!CleanerStates
        /\ [cleaner EXCEPT !.at = "clean", !.todo = {}, !.ok = FALSE] \in Media!CleanerStates
        /\ cleaner.todo \in SUBSET Images
    BY DEF Media!Resting, Media!Locked, Media!CleanerStates, Media!TypeOK
  <2>c. ASSUME NEW f, Media!Fault(f) PROVE faults' \in 0..MaxFaults
    BY <2>c DEF Media!Fault, Media!TypeOK
  <2>d. ASSUME NEW s \in Submits
        PROVE  \A at \in {"start", "commit", "release", "unlist", "done", "failed"} :
                 /\ [submit[s] EXCEPT !.at = at] \in Media!SubmitStates
                 /\ submit[s].images \in SUBSET Images
    BY DEF Media!TypeOK, Media!SubmitStates
  <2>e. \A at \in {"none", "delayed", "active", "completed", "skipped", "failed"} :
          [mediaJob EXCEPT !.at = at] \in Media!JobStates
    BY DEF Media!TypeOK, Media!JobStates
  <2> USE DEF Media!TypeOK, Media!Link, Media!Review
  <2>1. ASSUME NEW i \in Images, Media!StartUpload(i) \/ Media!Store(i) \/ Media!Count(i)
        PROVE  Media!TypeOK'
    BY <2>1 DEF Media!StartUpload, Media!Store, Media!Count
  <2>2. ASSUME NEW i \in Images,
               Media!Register(i) \/ Media!Undo(i) \/ Media!Compensate(i) \/ Media!LoseUpload(i)
        PROVE  Media!TypeOK'
    BY <2>c, <2>2 DEF Media!Register, Media!Registers, Media!Undo, Media!Compensate, Media!LoseUpload
  <2>3. ASSUME NEW i \in Images, Media!Schedule(i) PROVE Media!TypeOK'
    BY <2>a, <2>3 DEF Media!Schedule
  <2>4. ASSUME NEW i \in Images, Media!StartRemove(i) \/ Media!Removes(i) PROVE Media!TypeOK'
    BY <2>c, <2>4 DEF Media!StartRemove, Media!Removes, Media!TakeOut, Media!Unlist, Media!Remove
  <2>5. ASSUME NEW s \in Submits, NEW is \in SUBSET Images, Media!StartSubmit(s, is) PROVE Media!TypeOK'
    BY <2>5 DEF Media!StartSubmit, Media!SubmitStates
  <2>6. ASSUME NEW s \in Submits, Media!Commit(s) \/ Media!Release(s) PROVE Media!TypeOK'
    BY <2>d, <2>6 DEF Media!Commit, Media!Release
  <2>7. ASSUME NEW s \in Submits, Media!LoseSubmit(s) PROVE Media!TypeOK'
    BY <2>c, <2>d, <2>7 DEF Media!LoseSubmit
  <2>8. CASE Media!Die
    BY <2>a, <2>8 DEF Media!Die
  <2>9. CASE Media!StartCleanup
    <3>1. mediaJob' \in Media!JobStates
      BY <2>e, <2>9 DEF Media!StartCleanup
    <3>2. \/ cleaner' = cleaner
          \/ cleaner' = [Media!Resting EXCEPT !.at = "look", !.todo = manifest]
      BY <2>9 DEF Media!StartCleanup
    <3>3. cleaner' \in Media!CleanerStates
      <4>1. manifest \in SUBSET Images /\ cleaner \in Media!CleanerStates
        OBVIOUS
      <4>2. [Media!Resting EXCEPT !.at = "look", !.todo = manifest] \in Media!CleanerStates
        BY <2>b, <4>1 DEF Media!Resting, Media!CleanerStates
      <4> QED BY <3>2, <4>1, <4>2
    <3> QED BY <2>9, <3>1, <3>3 DEF Media!StartCleanup
  <2>10. CASE Media!Look
    BY <2>b, <2>10 DEF Media!Look, Media!Attached
  <2>11. ASSUME NEW i \in Images, Media!Clean(i) PROVE Media!TypeOK'
    <3>1. cleaner.todo \ {i} \in SUBSET Images
      BY <2>b
    <3>2. \/ cleaner' = [cleaner EXCEPT !.todo = cleaner.todo \ {i}]
          \/ cleaner' = [cleaner EXCEPT !.todo = cleaner.todo \ {i}, !.ok = FALSE]
      BY <2>11 DEF Media!Clean
    <3>3. cleaner' \in Media!CleanerStates
      BY <2>b, <3>1, <3>2
    <3> QED BY <2>c, <2>11, <3>3 DEF Media!Clean
  <2>12. CASE Media!EndCleanup
    <3>1. mediaJob' \in Media!JobStates
      BY <2>12 DEF Media!EndCleanup, Media!JobStates
    <3> QED BY <2>b, <2>c, <2>12, <3>1 DEF Media!EndCleanup
  <2>13. CASE Media!BreakOff \/ Media!CleanerDies \/ Media!Lapse
    BY <2>b, <2>c, <2>e, <2>13 DEF Media!BreakOff, Media!CleanerDies, Media!Lapse
  <2>14. CASE UNCHANGED Media!vars
    BY <2>14 DEF Media!vars
  <2> QED
    BY <2>1, <2>2, <2>3, <2>4, <2>5, <2>6, <2>7, <2>8, <2>9, <2>10, <2>11, <2>12, <2>13, <2>14
    DEF Media!Next, Media!Proceeds, Media!Uploads
<1> QED
  BY <1>1, <1>2, PTL DEF Media!Spec

(* A photo attached to a review stays in storage, whatever the order of    *)
(* uploads, submissions, failures and cleanups, unless its customer has    *)
(* removed it (removePendingMediaByToken, processPendingMediaCleanup).     *)
THEOREM PhotosAreKept == ASSUME MediaHypothesis PROVE Media!Spec => []AttachedIsKept
<1> USE MediaHypothesis DEF MediaHypothesis
<1>1. Media!Init => MediaInv
  BY DEF Media!Init, MediaInv, Media!Resting
<1>2. Media!TypeOK /\ MediaInv /\ [Media!Next]_Media!vars => MediaInv'
  <2> SUFFICES ASSUME Media!TypeOK, MediaInv, [Media!Next]_Media!vars PROVE MediaInv'
    OBVIOUS
  <2>b. /\ link \in {"valid", "dead"}
        /\ upload \in [Images -> {"none", "store", "own", "list", "count", "undo", "delete", "schedule",
                                  "done", "failed"}]
        /\ removal \in [Images -> {"none", "asked", "unlist", "delete", "removed", "kept"}]
        /\ submit \in [Submits -> Media!SubmitStates] /\ cleaner \in Media!CleanerStates
        /\ attached \subseteq Images /\ disk \subseteq Images
        /\ \A s \in Submits : submit[s].images \subseteq Images
    BY DEF Media!TypeOK, Media!SubmitStates
  <2> USE DEF MediaInv, Kept, Media!Link, Media!Review
  <2>1. ASSUME NEW i \in Images, Media!StartUpload(i) PROVE MediaInv'
    BY <2>b, <2>1 DEF Media!StartUpload
  <2>2. ASSUME NEW i \in Images, Media!Store(i) PROVE MediaInv'
    BY <2>b, <2>2 DEF Media!Store
  <2>3. ASSUME NEW i \in Images, Media!Count(i) PROVE MediaInv'
    BY <2>b, <2>3 DEF Media!Count
  <2>4. ASSUME NEW i \in Images, Media!Undo(i) PROVE MediaInv'
    BY <2>b, <2>4 DEF Media!Undo
  <2>5. ASSUME NEW i \in Images, Media!Register(i) PROVE MediaInv'
    <3>1. /\ \A j \in Images : j # i => upload'[j] = upload[j]
          /\ upload[i] \in {"own", "list", "count"} /\ upload'[i] \in {"list", "count", "delete"}
      BY <2>b, <2>5 DEF Media!Register, Media!Registers
    <3>2. UNCHANGED <<link, disk, attached, reviewed, removal, submit, cleaner>>
      BY <2>5 DEF Media!Register, Media!Registers
    <3> QED BY <2>b, <3>1, <3>2
  <2>6. ASSUME NEW i \in Images, Media!Compensate(i) PROVE MediaInv'
    BY <2>b, <2>6 DEF Media!Compensate
  <2>7. ASSUME NEW i \in Images, Media!Schedule(i) PROVE MediaInv'
    BY <2>b, <2>7 DEF Media!Schedule
  <2>8. ASSUME NEW i \in Images, Media!LoseUpload(i) PROVE MediaInv'
    BY <2>b, <2>8 DEF Media!LoseUpload
  <2>9. ASSUME NEW i \in Images, Media!StartRemove(i) \/ Media!TakeOut(i) \/ Media!Unlist(i) PROVE MediaInv'
    <3>1. /\ \A j \in Images : removal[j] = "removed" => removal'[j] = "removed"
          /\ UNCHANGED <<link, disk, attached, reviewed, upload, submit, cleaner>>
      BY <2>b, <2>9 DEF Media!StartRemove, Media!TakeOut, Media!Unlist
    <3> QED BY <2>b, <3>1
  <2>10. ASSUME NEW i \in Images, Media!Remove(i) PROVE MediaInv'
    <3>1. /\ \A j \in Images : (j \in disk \/ removal[j] = "removed") => (j \in disk' \/ removal'[j] = "removed")
          /\ UNCHANGED <<link, attached, reviewed, upload, submit, cleaner>>
      BY <2>b, <2>10 DEF Media!Remove
    <3> QED BY <2>b, <3>1
  <2>11. ASSUME NEW s \in Submits, NEW is \in SUBSET Images, Media!StartSubmit(s, is) PROVE MediaInv'
    BY <2>b, <2>11 DEF Media!StartSubmit
  <2>12. ASSUME NEW s \in Submits, Media!Commit(s) \/ Media!Release(s) \/ Media!LoseSubmit(s) PROVE MediaInv'
    <3>1. /\ \A q \in Submits : q # s => submit'[q] = submit[q]
          /\ submit'[s].at # "commit"
          /\ UNCHANGED <<link, disk, upload, removal, cleaner>>
      BY <2>b, <2>12 DEF Media!Commit, Media!Release, Media!LoseSubmit, Media!SubmitStates
    <3>2. \/ UNCHANGED <<attached, reviewed>>
          \/ /\ submit[s].at = "commit" /\ link = "valid"
             /\ attached' = submit[s].images /\ reviewed'
      BY <2>12 DEF Media!Commit, Media!Release, Media!LoseSubmit
    <3> QED BY <2>b, <3>1, <3>2
  <2>13. CASE Media!Die
    BY <2>b, <2>13 DEF Media!Die
  <2>14. CASE Media!StartCleanup
    BY <2>b, <2>14 DEF Media!StartCleanup, Media!Resting
  <2>15. CASE Media!Look
    BY <2>b, <2>15 DEF Media!Look, Media!Attached, Media!CleanerStates
  <2>16. ASSUME NEW i \in Images, Media!Clean(i) PROVE MediaInv'
    BY <2>b, <2>16 DEF Media!Clean, Media!CleanerStates
  <2>17. CASE Media!EndCleanup \/ Media!CleanerDies \/ Media!Lapse
    <3>1. /\ cleaner'.at \in {"idle", "locked"}
          /\ UNCHANGED <<link, disk, attached, reviewed, upload, removal, submit>>
      BY <2>17 DEF Media!EndCleanup, Media!CleanerDies, Media!Lapse, Media!Locked, Media!Resting
    <3> QED BY <2>b, <3>1
  <2>18. CASE Media!BreakOff
    <3>1. /\ cleaner.at \in {"look", "clean"} /\ cleaner'.at = "clean" /\ cleaner'.todo = {}
          /\ UNCHANGED <<link, disk, attached, reviewed, upload, removal, submit>>
      BY <2>b, <2>18 DEF Media!BreakOff, Media!CleanerStates
    <3> QED BY <2>b, <3>1
  <2>19. CASE UNCHANGED Media!vars
    BY <2>19 DEF Media!vars
  <2> QED
    BY <2>1, <2>2, <2>3, <2>4, <2>5, <2>6, <2>7, <2>8, <2>9, <2>10, <2>11, <2>12, <2>13, <2>14, <2>15, <2>16,
       <2>17, <2>18, <2>19
    DEF Media!Next, Media!Proceeds, Media!Uploads, Media!Removes
<1>3. MediaInv => AttachedIsKept
  BY DEF MediaInv, Kept, AttachedIsKept, Media!AttachedIsKept
<1> QED
  BY <1>1, <1>2, <1>3, MediaTypes, PTL DEF Media!Spec

(* Uploads at the same time leave no more photos than allowed, though each *)
(* is counted only after it was listed (registerPendingMediaInRedis).      *)
THEOREM PhotosAreFew == ASSUME MediaHypothesis PROVE Media!Spec => []NeverTooMany
<1> USE MediaHypothesis DEF MediaHypothesis
<1>1. \A S : Media!Cardinality(S) = Cardinality(S)
  BY Zenon DEF Media!Cardinality, Cardinality
<1> DEFINE Counted == {i \in pending : upload[i] \in {"schedule", "done"}}
<1>2. Media!Init => Media!NeverTooMany
  <2> SUFFICES ASSUME Media!Init PROVE Media!NeverTooMany
    OBVIOUS
  <2>1. Counted = {}
    BY DEF Media!Init
  <2> QED BY <1>1, <2>1, FS_EmptySet DEF Media!NeverTooMany
<1>3. Media!TypeOK /\ Media!NeverTooMany /\ [Media!Next]_Media!vars => Media!NeverTooMany'
  <2> SUFFICES ASSUME Media!TypeOK, Media!NeverTooMany, [Media!Next]_Media!vars PROVE Media!NeverTooMany'
    OBVIOUS
  <2>1. IsFiniteSet(pending) /\ IsFiniteSet(Counted) /\ Cardinality(Counted) \in Nat /\ Cardinality(pending) \in Nat
    BY FS_Subset, FS_CardinalityType DEF Media!TypeOK
  <2>2. ASSUME Counted' \subseteq Counted PROVE Media!NeverTooMany'
    BY <1>1, <2>1, <2>2, FS_Subset, FS_CardinalityType DEF Media!NeverTooMany
  <2>3. ASSUME UNCHANGED <<pending, upload>> PROVE Media!NeverTooMany'
    BY <2>2, <2>3
  <2> USE DEF Media!TypeOK, Media!Link, Media!Review
  <2>4. ASSUME NEW i \in Images,
               \/ Media!StartUpload(i) \/ Media!Store(i) \/ Media!Register(i)
               \/ Media!Undo(i) \/ Media!Compensate(i) \/ Media!LoseUpload(i)
        PROVE  Media!NeverTooMany'
    BY <2>2, <2>4
    DEF Media!StartUpload, Media!Store, Media!Register, Media!Registers, Media!Undo, Media!Compensate,
        Media!LoseUpload
  <2>5. ASSUME NEW i \in Images, Media!Count(i) PROVE Media!NeverTooMany'
    <3>1. CASE Media!TooMany
      BY <2>2, <2>5, <3>1 DEF Media!Count
    <3>2. CASE ~Media!TooMany
      <4>1. Counted' \subseteq pending
        BY <2>5 DEF Media!Count
      <4> QED BY <1>1, <2>1, <3>2, <4>1, FS_Subset, FS_CardinalityType DEF Media!TooMany, Media!NeverTooMany
    <3> QED BY <3>1, <3>2
  <2>6. ASSUME NEW i \in Images, Media!Schedule(i) PROVE Media!NeverTooMany'
    BY <2>2, <2>6 DEF Media!Schedule
  <2>7. ASSUME NEW i \in Images, Media!StartRemove(i) \/ Media!Removes(i) \/ Media!Clean(i)
        PROVE  Media!NeverTooMany'
    BY <2>2, <2>7 DEF Media!StartRemove, Media!Removes, Media!TakeOut, Media!Unlist, Media!Remove, Media!Clean
  <2>8. ASSUME NEW s \in Submits, \E is \in SUBSET Images : Media!StartSubmit(s, is) PROVE Media!NeverTooMany'
    BY <2>3, <2>8 DEF Media!StartSubmit
  <2>9. ASSUME NEW s \in Submits, Media!Commit(s) \/ Media!Release(s) \/ Media!LoseSubmit(s)
        PROVE  Media!NeverTooMany'
    BY <2>2, <2>9 DEF Media!Commit, Media!Release, Media!LoseSubmit
  <2>10. CASE \/ Media!Die \/ Media!StartCleanup \/ Media!Look \/ Media!EndCleanup
              \/ Media!BreakOff \/ Media!CleanerDies \/ Media!Lapse \/ UNCHANGED Media!vars
    BY <2>3, <2>10
    DEF Media!Die, Media!StartCleanup, Media!Look, Media!EndCleanup, Media!BreakOff, Media!CleanerDies,
        Media!Lapse, Media!vars
  <2> QED
    BY <2>4, <2>5, <2>6, <2>7, <2>8, <2>9, <2>10 DEF Media!Next, Media!Proceeds, Media!Uploads
<1> QED
  BY <1>2, <1>3, MediaTypes, PTL DEF Media!Spec, NeverTooMany

-----------------------------------------------------------------------------
(* Where webhooks get lost, or somebody presses "update and enable", the   *)
(* ERP spares the moments of Calm; and not both happen, since enabling     *)
(* moves the cursor beyond the last change.                                *)
FlexiHypothesis ==
  /\ "hookLost" \in FlexiFaults => Calm
  /\ "enable" \in FlexiCalls => Calm /\ "hookLost" \notin FlexiFaults

(* The types, each process at steps of its own, and the latest change of   *)
(* an object, the greatest of its versions.                                *)
Versions(o) == {0} \cup {v \in 1..Flexi!Tip : changes[v] = o}

FlexiProc == [at : Flexi!Labels, todo : SUBSET Objects, obj : Objects, ok : BOOLEAN,
              saw : Nat, next : Nat, found : Flexi!States]

FlexiBridge == [base : Nat, from : Nat \ {0}, next : Nat, seen : SUBSET Objects, second : BOOLEAN]

FlexiTypes ==
  /\ changes \in Seq(Objects)
  /\ site = [o \in Objects |-> site[o]]
  /\ flexiCursor \in Nat
  /\ accepting \in BOOLEAN
  /\ hooks \subseteq 1..Flexi!Tip
  /\ flexiJob \in [Objects -> [at : Flexi!States, tries : Nat]]
  /\ proc \in [Flexi!Procs -> FlexiProc]
  /\ bridge \in FlexiBridge
  /\ accepting => Flexi!At("admin", "idle")
  /\ ~accepting => "enable" \in FlexiCalls /\ Flexi!At("poll", "idle")
  /\ proc["hook"].at \in {"idle", "look", "add"}
  /\ proc["poll"].at \in {"idle", "collect", "filter", "look", "add", "advance"}
  /\ proc["worker"].at \in {"idle", "get", "apply", "checkDirty", "undirty", "look", "add", "finish"}
  /\ \A o \in Objects : Flexi!Latest(o) \in Versions(o) /\ \A v \in Versions(o) : v <= Flexi!Latest(o)

(* A refresh of o will be asked for: p is about to look its job up, or has *)
(* found one it will mark dirty, or none where it will add one.            *)
Asks(p, o) ==
  /\ Flexi!At(p, "add") /\ proc[p].obj = o
  /\ proc[p].found \in {"none", "kept"} => flexiJob[o].at # "active"

Lists(p, o) ==
  \/ proc[p].at \in {"filter", "look"} /\ o \in proc[p].todo
  \/ Flexi!At(p, "add") /\ o \in proc[p].todo /\ proc[p].obj # o
  \/ Asks(p, o)

Reads(o) == Flexi!At("worker", "apply") /\ proc["worker"].obj = o

(* Besides the poll, whose list dies with it, a change of o is on record   *)
(* with a webhook that cannot be lost, a job, the dirty bit, or a refresh  *)
(* that has not read o yet.                                                *)
Noted(o) ==
  \/ "hookLost" \notin FlexiFaults /\ \E v \in hooks : changes[v] = o
  \/ flexiJob[o].at = "waiting" \/ o \in dirty
  \/ Lists("hook", o)
  \/ proc["worker"].at \in {"get", "look"} /\ proc["worker"].obj = o
  \/ Asks("worker", o)

(* The refresh under way, or an open failure, does not answer for o.       *)
Due(o) ==
  \/ Flexi!Stale(o) /\ o \notin failures /\ ~Reads(o)
  \/ Reads(o) /\ proc["worker"].saw # Flexi!Latest(o)

PollRuns == proc["poll"].at \in {"filter", "look", "add", "advance"}

(* While notifications are accepted, what is due is on record or lies      *)
(* behind the cursor, and what the poll is about to move the cursor over   *)
(* is on record or on its list.  The job the worker has taken is active    *)
(* until it ends.                                                          *)
FlexiInv ==
  /\ \A o \in Objects : accepting /\ Due(o) => Noted(o) \/ flexiCursor < Flexi!Latest(o)
  /\ PollRuns => \A o \in Objects :
       Due(o) /\ Flexi!Latest(o) <= proc["poll"].next => Noted(o) \/ Lists("poll", o)
  /\ ~Flexi!At("worker", "idle") => flexiJob[proc["worker"].obj].at = "active"
  /\ ~Flexi!At("poll", "idle") => proc["poll"].saw = flexiCursor
  /\ "hookLost" \in FlexiFaults =>
       /\ flexiCursor <= Flexi!Tip
       /\ Flexi!At("poll", "collect") => flexiCursor < Flexi!Tip
       /\ PollRuns => proc["poll"].next <= Flexi!Tip

(* "Update and enable" in a pass of a bridge: the refreshes it calls, an   *)
(* object still on its list or changed since the list was read, and the    *)
(* one in hand, unless its refresh has succeeded.                          *)
InHand == {"get", "apply", "checkDirty", "undirty", "look", "add", "finish"}

Ahead(o) == o \notin bridge.seen /\ (o \in proc["admin"].todo \/ bridge.next < Flexi!Latest(o))

Held(o) ==
  /\ proc["admin"].at \in InHand /\ proc["admin"].obj = o
  /\ proc["admin"].at \in {"get", "apply"} \/ ~proc["admin"].ok

NothingStale == \A o \in Objects : ~Flexi!Stale(o)

ReadsAreFresh ==
  Calm => \A p \in Flexi!Procs : Flexi!At(p, "apply") => proc[p].saw = Flexi!Latest(proc[p].obj)

(* From the baseline to the end of the first bridge an object that is      *)
(* stale has changed after the baseline, and in a pass lies ahead of it.   *)
FromBaseline ==
  proc["admin"].at \in {"fetch", "store"} =>
    /\ bridge.seen = {} /\ bridge.from = bridge.base + 1 /\ bridge.base <= Flexi!Tip
    /\ Flexi!At("admin", "store") => bridge.base <= proc["admin"].saw /\ proc["admin"].saw <= Flexi!Tip

InPass ==
  /\ Flexi!At("admin", "pass") => \A o \in Objects : Flexi!Stale(o) => o \notin bridge.seen /\ bridge.from <= Flexi!Latest(o)
  /\ Flexi!At("admin", "pass") => bridge.base < bridge.from /\ (bridge.second \/ bridge.from <= Flexi!Tip + 1)
  /\ proc["admin"].at \in {"refresh"} \cup InHand =>
       /\ bridge.base < bridge.from /\ bridge.from <= bridge.next
       /\ \A o \in Objects : Flexi!Stale(o) => Ahead(o) \/ Held(o)
  /\ Flexi!At("admin", "refresh") /\ proc["admin"].todo # {} => bridge.next <= Flexi!Tip
  /\ proc["admin"].at \in InHand => bridge.next <= Flexi!Tip /\ proc["admin"].obj \in bridge.seen

(* When the first bridge has ended nothing is stale, nor while the second  *)
(* one runs.                                                               *)
SecondRound ==
  /\ Flexi!At("admin", "register") => NothingStale /\ Flexi!Tip <= flexiCursor
  /\ bridge.second =>
       /\ proc["admin"].at \in {"pass", "refresh"} /\ NothingStale /\ Flexi!Tip <= bridge.base
       /\ Flexi!At("admin", "refresh") => proc["admin"].todo = {}

BridgeInv == ReadsAreFresh /\ FromBaseline /\ InPass /\ SecondRound

(* A change of the ERP that the catalogue does not show is on record       *)
(* somewhere, however webhooks, polls, refreshes, crashes and "update and  *)
(* enable" interleave, for any number of objects, changes and failures     *)
(* (pollChangesLive, enqueueRefresh, processRefreshJob, updateAndEnable).  *)
THEOREM ChangesAreRemembered == ASSUME FlexiHypothesis PROVE Flexi!Spec => []StaleIsRemembered
<1> USE FlexiHypothesis DEF FlexiHypothesis
<1>v. ASSUME NEW S \in SUBSET Nat, NEW m \in S, \A v \in S : v <= m PROVE Flexi!Max(S) = m
  <2>1. \A x \in S : (\A y \in S : x >= y) => x = m
    BY <1>v
  <2>2. \A y \in S : m >= y
    BY <1>v
  <2> QED BY <1>v, <2>1, <2>2 DEF Flexi!Max
<1>m. ASSUME NEW a \in Nat, NEW b \in Nat PROVE Flexi!Max({a, b}) = IF a >= b THEN a ELSE b
  <2>1. CASE a >= b
    BY <2>1, <1>v
  <2>2. CASE ~(a >= b)
    BY <2>2, <1>v
  <2> QED BY <2>1, <2>2
<1>3. ASSUME NEW a \in Nat, NEW b \in Nat, NEW c \in Nat
      PROVE  Flexi!Max({a, b, c}) \in Nat /\ b <= Flexi!Max({a, b, c})
  <2>1. PICK m \in {a, b, c} : a <= m /\ b <= m /\ c <= m
    OBVIOUS
  <2>2. Flexi!Max({a, b, c}) = m
    BY <2>1, <1>v
  <2> QED BY <2>1, <2>2
<1>l. \A o : Flexi!Latest(o) = Flexi!Max(Versions(o)) /\ Flexi!Latest(o)' = Flexi!Max(Versions(o)')
  BY DEF Flexi!Latest, Versions
<1>s. ASSUME NEW s \in FlexiProc, NEW a \in Flexi!Labels
      PROVE  [s EXCEPT !.at = a] \in FlexiProc /\ [s EXCEPT !.at = a].at = a
  BY DEF FlexiProc
<1>t. ASSUME NEW s \in FlexiProc, NEW a \in Flexi!Labels, NEW k \in BOOLEAN
      PROVE  [s EXCEPT !.at = a, !.ok = k] \in FlexiProc /\ [s EXCEPT !.at = a, !.ok = k].at = a
  BY DEF FlexiProc
<1>r. ASSUME NEW s \in FlexiProc, NEW a \in Flexi!Labels, NEW m \in Nat
      PROVE  [s EXCEPT !.at = a, !.saw = m] \in FlexiProc /\ [s EXCEPT !.at = a, !.saw = m].at = a
  BY DEF FlexiProc
<1>g. ASSUME NEW s \in FlexiProc, NEW a \in Flexi!Labels, NEW m \in Nat, NEW k \in BOOLEAN
      PROVE  [s EXCEPT !.at = a, !.saw = m, !.ok = k] \in FlexiProc /\ [s EXCEPT !.at = a, !.saw = m, !.ok = k].at = a
  BY DEF FlexiProc
<1>f. ASSUME NEW s \in FlexiProc, NEW a \in Flexi!Labels, NEW o \in Objects, NEW f \in Flexi!States
      PROVE  [s EXCEPT !.at = a, !.obj = o, !.found = f] \in FlexiProc /\ [s EXCEPT !.at = a, !.obj = o, !.found = f].at = a
  BY DEF FlexiProc
<1>0. CASE Objects = {}
  <2>1. StaleIsRemembered
    BY <1>0 DEF StaleIsRemembered, Flexi!StaleIsRemembered
  <2> QED BY <2>1, PTL
<1>n. CASE Objects # {}
  <2>i. /\ Flexi!Idle \in FlexiProc
        /\ Flexi!Idle.at = "idle" /\ Flexi!Idle.todo = {}
    <3>1. (CHOOSE o \in Objects : TRUE) \in Objects
      BY <1>n
    <3> QED BY <3>1 DEF FlexiProc, Flexi!Idle, Flexi!Labels, Flexi!States
  <2>1. Flexi!Init => FlexiTypes /\ FlexiInv /\ BridgeInv
    <3> SUFFICES ASSUME Flexi!Init PROVE FlexiTypes /\ FlexiInv /\ BridgeInv
      OBVIOUS
    <3>1. changes = <<>> /\ changes \in Seq(Objects) /\ Flexi!Tip = 0
      BY DEF Flexi!Init, Flexi!Tip
    <3>2. \A o \in Objects : Versions(o) = {0}
      BY <3>1 DEF Versions
    <3>3. ASSUME NEW o \in Objects PROVE Flexi!Latest(o) = 0
      <4>1. Versions(o) \in SUBSET Nat /\ 0 \in Versions(o) /\ \A v \in Versions(o) : v <= 0
        BY <3>2
      <4> QED BY <4>1, <1>v, <1>l
    <3>4. flexiJob \in [Objects -> [at : Flexi!States, tries : Nat]]
      BY DEF Flexi!Init, Flexi!States
    <3>5. proc = [p \in Flexi!Procs |-> Flexi!Idle]
      BY DEF Flexi!Init
    <3>6. \A p \in Flexi!Procs : proc[p].at = "idle"
      BY <3>5, <2>i
    <3>7. "admin" \in Flexi!Procs /\ "hook" \in Flexi!Procs /\ "poll" \in Flexi!Procs /\ "worker" \in Flexi!Procs
      BY DEF Flexi!Procs
    <3>b. bridge \in FlexiBridge /\ bridge.second = FALSE
      BY DEF Flexi!Init, Flexi!NoBridge, Flexi!NewBridge, FlexiBridge
    <3>8. FlexiTypes
      BY <2>i, <3>b, <3>1, <3>2, <3>3, <3>4, <3>5, <3>6, <3>7 DEF Flexi!Init, FlexiTypes, Flexi!At
    <3>9. FlexiInv
      BY <3>1, <3>3, <3>6, <3>7 DEF Flexi!Init, FlexiInv, Due, Reads, PollRuns, Flexi!Stale, Flexi!At
    <3>10. BridgeInv
      BY <3>b, <3>6, <3>7 DEF BridgeInv, ReadsAreFresh, FromBaseline, InPass, SecondRound, InHand, Flexi!At
    <3> QED BY <3>8, <3>9, <3>10
  <2>u. ASSUME UNCHANGED changes
        PROVE  /\ Flexi!Tip' = Flexi!Tip
               /\ \A o : Flexi!Latest(o)' = Flexi!Latest(o) /\ Versions(o)' = Versions(o)
    BY <2>u DEF Flexi!Latest, Versions, Flexi!Tip
  <2>c. ASSUME FlexiTypes, NEW o \in Objects, Flexi!Change(o)
        PROVE  /\ Flexi!Tip \in Nat /\ Flexi!Tip' = Flexi!Tip + 1 /\ hooks' = hooks \cup {Flexi!Tip + 1}
               /\ changes' \in Seq(Objects) /\ changes'[Flexi!Tip + 1] = o
               /\ \A v \in 1..Flexi!Tip : changes'[v] = changes[v]
               /\ Flexi!Latest(o)' = Flexi!Tip + 1
               /\ \A x : x # o => Flexi!Latest(x)' = Flexi!Latest(x)
               /\ \A x \in Objects :
                    Flexi!Latest(x)' \in Versions(x)' /\ \A v \in Versions(x)' : v <= Flexi!Latest(x)'
    <3>1. /\ changes \in Seq(Objects) /\ changes' = Append(changes, o) /\ Flexi!Tip \in Nat
          /\ hooks' = hooks \cup {Flexi!Tip + 1}
      BY <2>c DEF Flexi!Change, FlexiTypes, Flexi!Tip
    <3>2. /\ changes' \in Seq(Objects) /\ Flexi!Tip' = Flexi!Tip + 1 /\ changes'[Flexi!Tip + 1] = o
          /\ \A v \in 1..Flexi!Tip : changes'[v] = changes[v]
      BY <3>1 DEF Flexi!Tip
    <3> DEFINE t == Flexi!Tip
    <3>3. /\ \A x : x # o => Versions(x)' = Versions(x)
          /\ Versions(o)' = Versions(o) \cup {t + 1}
      <4>1. t \in Nat /\ \A v : v \in 1..(t + 1) <=> v \in 1..t \/ v = t + 1
        BY <3>1
      <4>2. \A x, v : v \in Versions(x)' <=> v = 0 \/ (v \in 1..(t + 1) /\ changes'[v] = x)
        BY <3>2 DEF Versions
      <4>3. \A x, v : v \in Versions(x) <=> v = 0 \/ (v \in 1..t /\ changes[v] = x)
        BY DEF Versions
      <4> HIDE DEF t
      <4>4. \A x, v : v \in Versions(x)' <=> v \in Versions(x) \/ (v = t + 1 /\ x = o)
        BY <3>2, <4>1, <4>2, <4>3 DEF t
      <4>5. ASSUME NEW x, x # o PROVE Versions(x)' = Versions(x)
        <5>1. \A v : v \in Versions(x)' <=> v \in Versions(x)
          BY <4>4, <4>5
        <5> QED BY <5>1, Zenon
      <4>6. Versions(o)' = Versions(o) \cup {t + 1}
        BY <4>4, Zenon
      <4> QED BY <4>5, <4>6
    <3>4. Versions(o)' \in SUBSET Nat /\ \A v \in Versions(o)' : v <= Flexi!Tip + 1
      <4>1. \A v \in Versions(o) : v \in Nat /\ v <= t
        BY <3>1 DEF Versions
      <4> QED BY <3>1, <3>3, <4>1
    <3>5. Flexi!Latest(o)' = Flexi!Tip + 1
      BY <3>3, <3>4, <1>l, <1>v
    <3>6. \A x : x # o => Flexi!Latest(x)' = Flexi!Latest(x)
      BY <3>3, <1>l
    <3>7. \A x \in Objects : Flexi!Latest(x)' \in Versions(x)' /\ \A v \in Versions(x)' : v <= Flexi!Latest(x)'
      <4>1. ASSUME NEW x \in Objects, x # o
            PROVE  Flexi!Latest(x)' \in Versions(x)' /\ \A v \in Versions(x)' : v <= Flexi!Latest(x)'
        BY <2>c, <3>3, <3>6, <4>1 DEF FlexiTypes
      <4>2. Flexi!Latest(o)' \in Versions(o)' /\ \A v \in Versions(o)' : v <= Flexi!Latest(o)'
        BY <3>3, <3>4, <3>5
      <4> QED BY <4>1, <4>2
    <3> QED BY <3>1, <3>2, <3>5, <3>6, <3>7
  <2>a. \A rest : /\ Flexi!AfterEnqueue("hook", rest) = IF rest # {} THEN "look" ELSE "idle"
                  /\ Flexi!AfterEnqueue("poll", rest) = IF rest # {} THEN "look" ELSE "advance"
                  /\ Flexi!AfterEnqueue("worker", rest) = "finish"
                  /\ Flexi!AfterEnqueue("admin", rest) = "finish"
    BY DEF Flexi!AfterEnqueue, Flexi!Refreshers
  <2>2. FlexiTypes /\ [Flexi!Next]_Flexi!vars => FlexiTypes'
    <3> SUFFICES ASSUME FlexiTypes, [Flexi!Next]_Flexi!vars PROVE FlexiTypes'
      OBVIOUS
    <3> USE DEF Flexi!At, Flexi!Goto
    <3>1. ASSUME NEW o \in Objects, Flexi!Change(o) PROVE FlexiTypes'
      <4>1. hooks' \subseteq 1..Flexi!Tip'
        <5>1. hooks \subseteq 1..Flexi!Tip
          BY DEF FlexiTypes
        <5>2. Flexi!Tip \in Nat /\ Flexi!Tip' = Flexi!Tip + 1 /\ hooks' = hooks \cup {Flexi!Tip + 1}
          BY <2>c, <3>1
        <5>3. PICK t \in Nat : t = Flexi!Tip
          BY <5>2
        <5>4. hooks' \subseteq 1..(t + 1)
          BY <5>1, <5>2, <5>3
        <5> QED BY <5>2, <5>3, <5>4
      <4> QED BY <2>c, <3>1, <4>1 DEF Flexi!Change, FlexiTypes
    <3>h. ASSUME UNCHANGED <<changes, site, flexiCursor, flexiJob, accepting, bridge>>, hooks' \subseteq hooks,
                 proc' \in [Flexi!Procs -> FlexiProc],
                 proc'["admin"] = proc["admin"], proc'["poll"] = proc["poll"],
                 proc'["hook"].at \in {"idle", "look", "add"},
                 proc'["worker"].at \in {"idle", "get", "apply", "checkDirty", "undirty", "look", "add", "finish"}
          PROVE  FlexiTypes'
      <4>1. hooks' \subseteq 1..Flexi!Tip'
        BY <3>h, <2>u DEF FlexiTypes
      <4> QED BY <3>h, <2>u, <4>1 DEF FlexiTypes
    <3>p. /\ proc \in [Flexi!Procs -> FlexiProc] /\ flexiJob \in [Objects -> [at : Flexi!States, tries : Nat]]
          /\ Flexi!Procs = {"hook", "poll", "worker", "admin"}
      BY DEF FlexiTypes, Flexi!Procs
    <3>2. ASSUME NEW v \in hooks, Flexi!LoseHook(v) \/ Flexi!Deliver(v) PROVE FlexiTypes'
      <4>1. changes[v] \in Objects
        BY DEF FlexiTypes, Flexi!Tip
      <4>2. [Flexi!Idle EXCEPT !.at = "look", !.todo = {changes[v]}] \in FlexiProc
        BY <4>1, <2>i DEF FlexiProc, Flexi!Labels
      <4>3. proc' = proc \/ proc' = [proc EXCEPT !["hook"] = [Flexi!Idle EXCEPT !.at = "look", !.todo = {changes[v]}]]
        BY <3>2 DEF Flexi!LoseHook, Flexi!Deliver
      <4>4. [Flexi!Idle EXCEPT !.at = "look", !.todo = {changes[v]}].at = "look"
        BY <2>i DEF FlexiProc
      <4>5. proc' \in [Flexi!Procs -> FlexiProc]
        BY <3>p, <4>2, <4>3
      <4>6. /\ \A p \in Flexi!Procs : p # "hook" => proc'[p] = proc[p]
            /\ proc'["hook"].at \in {"idle", "look", "add"}
        BY <3>p, <4>3, <4>4 DEF FlexiTypes
      <4>7. UNCHANGED <<changes, site, flexiCursor, flexiJob, accepting, bridge>> /\ hooks' \subseteq hooks
        BY <3>2 DEF Flexi!LoseHook, Flexi!Deliver
      <4> QED BY <3>h, <3>p, <4>5, <4>6, <4>7 DEF FlexiTypes
    (* A process moves to another step of its own, the rest is typed.        *)
    <3>q. ASSUME NEW p \in Flexi!Procs, NEW r \in FlexiProc, proc' = [proc EXCEPT ![p] = r],
                 p = "hook" => r.at \in {"idle", "look", "add"},
                 p = "poll" => accepting /\ r.at \in {"idle", "collect", "filter", "look", "add", "advance"},
                 p = "worker" => r.at \in {"idle", "get", "apply", "checkDirty", "undirty", "look", "add", "finish"},
                 p # "admin" => UNCHANGED accepting,
                 p = "admin" => /\ accepting' \in BOOLEAN /\ (accepting' => r.at = "idle")
                                /\ ~accepting' => "enable" \in FlexiCalls /\ Flexi!At("poll", "idle"),
                 UNCHANGED <<changes, hooks>>,
                 site' = [o \in Objects |-> site'[o]], flexiCursor' \in Nat, bridge' \in FlexiBridge,
                 flexiJob' \in [Objects -> [at : Flexi!States, tries : Nat]]
          PROVE  FlexiTypes'
      <4>1. proc' \in [Flexi!Procs -> FlexiProc] /\ proc'[p] = r
            /\ \A q \in Flexi!Procs : q # p => proc'[q] = proc[q]
        BY <3>p, <3>q
      <4>2. /\ accepting' \in BOOLEAN
            /\ accepting' => proc'["admin"].at = "idle"
            /\ ~accepting' => "enable" \in FlexiCalls /\ proc'["poll"].at = "idle"
            /\ proc'["hook"].at \in {"idle", "look", "add"}
            /\ proc'["poll"].at \in {"idle", "collect", "filter", "look", "add", "advance"}
            /\ proc'["worker"].at \in {"idle", "get", "apply", "checkDirty", "undirty", "look", "add", "finish"}
        BY <3>p, <3>q, <4>1 DEF FlexiTypes
      <4>3. hooks' \subseteq 1..Flexi!Tip'
        BY <3>q, <2>u DEF FlexiTypes
      <4> QED BY <3>q, <2>u, <4>1, <4>2, <4>3 DEF FlexiTypes
    <3>r. \A p \in Flexi!Procs : proc[p] \in FlexiProc
      BY <3>p
    <3> USE <3>p, <3>r DEF FlexiProc, Flexi!Labels
    <3>3. CASE Flexi!StartPoll
      <4>1. [Flexi!Idle EXCEPT !.at = "collect", !.saw = flexiCursor] \in FlexiProc
        BY <2>i DEF FlexiTypes
      <4> QED BY <2>i, <3>3, <4>1, <3>q DEF Flexi!StartPoll, Flexi!erp, FlexiTypes
    <3>4. CASE Flexi!Collect
      <4> DEFINE v == proc["poll"].saw + 1
                 r == [proc["poll"] EXCEPT !.at = "filter", !.todo = Flexi!Since(v), !.next = Flexi!NextVersion(v)]
      <4>1. v \in Nat /\ v >= 1 /\ Flexi!Tip \in Nat
        BY DEF FlexiTypes, Flexi!Tip
      <4>2. Flexi!Since(v) \subseteq Objects
        <5>1. changes \in Seq(Objects)
          BY DEF FlexiTypes
        <5> HIDE DEF v
        <5> QED BY <4>1, <5>1 DEF Flexi!Since, Flexi!Tip
      <4>3. Flexi!NextVersion(v) \in Nat
        <5> HIDE DEF v
        <5> QED BY <4>1, <1>m DEF Flexi!NextVersion
      <4>4. r \in FlexiProc /\ r.at = "filter"
        <5> HIDE DEF v
        <5> QED BY <4>2, <4>3
      <4>5. proc' = [proc EXCEPT !["poll"] = r] \/ proc' = [proc EXCEPT !["poll"] = Flexi!Idle]
        BY <3>4 DEF Flexi!Collect
      <4>6. UNCHANGED <<changes, hooks, accepting, bridge, site, flexiCursor, flexiJob>>
        BY <3>4 DEF Flexi!Collect, Flexi!erp
      <4>7. accepting /\ site = [o \in Objects |-> site[o]] /\ flexiCursor \in Nat /\ bridge \in FlexiBridge
        BY <3>4 DEF Flexi!Collect, FlexiTypes
      <4> HIDE DEF r
      <4>8. ASSUME NEW x \in FlexiProc, x.at \in {"filter", "idle"}, proc' = [proc EXCEPT !["poll"] = x] PROVE FlexiTypes'
        BY <4>6, <4>7, <4>8, <3>p, <3>q
      <4> QED BY <2>i, <4>4, <4>5, <4>8
    <3>5. CASE Flexi!Filter
      <4> DEFINE at == Flexi!AfterEnqueue("poll", proc["poll"].todo)
                 r == [proc["poll"] EXCEPT !.todo = proc["poll"].todo, !.at = at]
      <4>1. at \in {"look", "advance"}
        BY <2>a
      <4>2. r \in FlexiProc /\ r.at = at
        <5> HIDE DEF at
        <5> QED BY <4>1
      <4>3. proc' = [proc EXCEPT !["poll"] = r]
        BY <3>5 DEF Flexi!Filter, FlexiTypes
      <4>4. UNCHANGED <<changes, hooks, accepting, bridge, site, flexiCursor, flexiJob>>
        BY <3>5 DEF Flexi!Filter, Flexi!erp
      <4>5. accepting /\ site = [o \in Objects |-> site[o]] /\ flexiCursor \in Nat /\ bridge \in FlexiBridge
        BY <3>5 DEF Flexi!Filter, FlexiTypes
      <4> HIDE DEF r, at
      <4> QED BY <4>1, <4>2, <4>3, <4>4, <4>5, <3>p, <3>q
    <3>6. CASE Flexi!Advance
      <4>1. flexiCursor' \in Nat
        BY <3>6, <1>m DEF Flexi!Advance
      <4> QED BY <2>i, <3>6, <4>1, <3>q DEF Flexi!Advance, Flexi!erp, FlexiTypes
    <3>7. ASSUME NEW p \in Flexi!Procs, NEW o \in Objects, Flexi!LookUp(p, o) PROVE FlexiTypes'
      <4> DEFINE r == [proc[p] EXCEPT !.at = "add", !.obj = o, !.found = flexiJob[o].at]
      <4>1. r \in FlexiProc /\ r.at = "add" /\ (p = "poll" => accepting) /\ (p = "admin" => ~accepting)
        <5>1. (p = "poll" => accepting) /\ (p = "admin" => ~accepting)
          BY <3>7 DEF Flexi!LookUp, FlexiTypes
        <5>2. flexiJob[o].at \in Flexi!States /\ "add" \in Flexi!Labels
          OBVIOUS
        <5> HIDE DEF FlexiProc, Flexi!Labels
        <5>3. PICK s \in FlexiProc, f \in Flexi!States : s = proc[p] /\ f = flexiJob[o].at
          BY <3>r, <5>2
        <5>4. [s EXCEPT !.at = "add", !.obj = o, !.found = f] \in FlexiProc
              /\ [s EXCEPT !.at = "add", !.obj = o, !.found = f].at = "add"
          BY <1>f, <5>2
        <5> QED BY <5>1, <5>3, <5>4
      <4>2. proc' = [proc EXCEPT ![p] = r]
        BY <3>7 DEF Flexi!LookUp
      <4>3. UNCHANGED <<changes, hooks, accepting, bridge, site, flexiCursor, flexiJob>>
        BY <3>7 DEF Flexi!LookUp, Flexi!erp
      <4> HIDE DEF r
      <4> QED BY <4>1, <4>2, <4>3, <3>q DEF FlexiTypes
    <3>8. ASSUME NEW p \in Flexi!Procs, Flexi!Enqueue(p) PROVE FlexiTypes'
      <4> DEFINE rest == proc[p].todo \ {proc[p].obj}
                 at == Flexi!AfterEnqueue(p, rest)
                 r == [proc[p] EXCEPT !.at = at, !.todo = rest, !.found = "none"]
      <4>1. (p = "poll" => accepting) /\ (p = "admin" => ~accepting)
        BY <3>8 DEF Flexi!Enqueue, FlexiTypes
      <4>2. /\ at \in Flexi!Labels
            /\ p = "hook" => at \in {"look", "idle"}
            /\ p = "poll" => at \in {"look", "advance"}
            /\ p \in {"worker", "admin"} => at = "finish"
        <5> HIDE DEF rest
        <5> QED BY <4>1, <2>a
      <4>3. r \in FlexiProc /\ r.at = at
        <5>1. rest \subseteq Objects /\ "none" \in Flexi!States
          BY DEF Flexi!States
        <5> HIDE DEF at, rest
        <5> HIDE DEF FlexiProc, Flexi!Labels
        <5>2. PICK s \in FlexiProc : s = proc[p]
          BY <3>r
        <5>3. [s EXCEPT !.at = at, !.todo = rest, !.found = "none"] \in FlexiProc
              /\ [s EXCEPT !.at = at, !.todo = rest, !.found = "none"].at = at
          BY <4>2, <5>1 DEF FlexiProc
        <5> QED BY <5>2, <5>3 DEF r
      <4>4. proc' = [proc EXCEPT ![p] = r]
        BY <3>8 DEF Flexi!Enqueue
      <4>5. flexiJob' \in [Objects -> [at : Flexi!States, tries : Nat]]
        BY <3>8 DEF Flexi!Enqueue, Flexi!Readded, Flexi!States
      <4>6. UNCHANGED <<changes, hooks, accepting, bridge, site, flexiCursor>>
        BY <3>8 DEF Flexi!Enqueue, Flexi!erp
      <4> HIDE DEF r, at
      <4> QED BY <4>1, <4>2, <4>3, <4>4, <4>5, <4>6, <3>q DEF FlexiTypes
    <3>9. ASSUME NEW p \in Flexi!Procs, Flexi!Get(p) \/ Flexi!Apply(p) \/ Flexi!CheckDirty(p) \/ Flexi!Undirty(p)
          PROVE  FlexiTypes'
      <4>1. p \in {"worker", "admin"} /\ (p = "admin" => ~accepting)
        BY <3>9 DEF Flexi!Get, Flexi!Apply, Flexi!CheckDirty, Flexi!Undirty, FlexiTypes
      <4>2. Flexi!Latest(proc[p].obj) \in Nat
        BY <4>1 DEF FlexiTypes, Versions, Flexi!Tip
      <4>3. PICK r \in FlexiProc :
              /\ proc' = [proc EXCEPT ![p] = r]
              /\ r.at \in {"apply", "checkDirty", "undirty", "finish", "look"}
        <5>1. CASE Flexi!Get(p)
          <6> DEFINE r1 == [proc[p] EXCEPT !.at = "apply", !.saw = Flexi!Latest(proc[p].obj), !.ok = TRUE]
                     r2 == [proc[p] EXCEPT !.at = "checkDirty", !.ok = FALSE]
          <6>1. proc' = [proc EXCEPT ![p] = r1] \/ proc' = [proc EXCEPT ![p] = r2]
            BY <5>1 DEF Flexi!Get
          <6>2. r1 \in FlexiProc /\ r1.at = "apply" /\ r2 \in FlexiProc /\ r2.at = "checkDirty"
            <7>1. "apply" \in Flexi!Labels /\ "checkDirty" \in Flexi!Labels
              OBVIOUS
            <7> HIDE DEF FlexiProc, Flexi!Labels
            <7>2. PICK s \in FlexiProc, m \in Nat : s = proc[p] /\ m = Flexi!Latest(proc[p].obj)
              BY <3>r, <4>2
            <7>3. [s EXCEPT !.at = "apply", !.saw = m, !.ok = TRUE] \in FlexiProc
                  /\ [s EXCEPT !.at = "apply", !.saw = m, !.ok = TRUE].at = "apply"
              BY <1>g, <7>1
            <7>4. [s EXCEPT !.at = "checkDirty", !.ok = FALSE] \in FlexiProc
                  /\ [s EXCEPT !.at = "checkDirty", !.ok = FALSE].at = "checkDirty"
              BY <1>t, <7>1
            <7> QED BY <7>2, <7>3, <7>4
          <6> HIDE DEF r1, r2
          <6> QED BY <6>1, <6>2
        <5>2. ASSUME NEW l \in {"apply", "checkDirty", "undirty", "finish", "look"}, Flexi!Goto(p, l)
              PROVE  \E r \in FlexiProc : proc' = [proc EXCEPT ![p] = r] /\ r.at = l
          <6>1. [proc[p] EXCEPT !.at = l] \in FlexiProc /\ [proc[p] EXCEPT !.at = l].at = l
            <7>1. l \in Flexi!Labels
              OBVIOUS
            <7> HIDE DEF FlexiProc, Flexi!Labels
            <7> QED BY <1>s, <7>1
          <6> QED BY <5>2, <6>1
        <5>3. CASE Flexi!Apply(p)
          BY <5>2, <5>3 DEF Flexi!Apply
        <5>4. CASE Flexi!CheckDirty(p)
          <6> DEFINE l == IF proc[p].obj \in dirty THEN "undirty" ELSE "finish"
          <6>1. proc' = [proc EXCEPT ![p] = [proc[p] EXCEPT !.at = l, !.saw = 0]]
            BY <5>4 DEF Flexi!CheckDirty
          <6>2. l \in {"undirty", "finish"}
            OBVIOUS
          <6> HIDE DEF l
          <6>3. [proc[p] EXCEPT !.at = l, !.saw = 0] \in FlexiProc /\ [proc[p] EXCEPT !.at = l, !.saw = 0].at = l
            <7>1. l \in Flexi!Labels /\ 0 \in Nat
              BY <6>2
            <7> HIDE DEF FlexiProc, Flexi!Labels
            <7>2. PICK s \in FlexiProc : s = proc[p]
              BY <3>r
            <7>3. [s EXCEPT !.at = l, !.saw = 0] \in FlexiProc /\ [s EXCEPT !.at = l, !.saw = 0].at = l
              BY <1>r, <7>1
            <7> QED BY <7>2, <7>3
          <6> QED BY <6>1, <6>2, <6>3
        <5>5. CASE Flexi!Undirty(p)
          BY <5>2, <5>5 DEF Flexi!Undirty
        <5> QED BY <3>9, <5>1, <5>3, <5>4, <5>5
      <4>5. site' = [o \in Objects |-> site'[o]]
        BY <3>9 DEF Flexi!Get, Flexi!Apply, Flexi!CheckDirty, Flexi!Undirty, FlexiTypes
      <4>6. UNCHANGED <<changes, hooks, accepting, bridge, flexiCursor, flexiJob>>
        BY <3>9 DEF Flexi!Get, Flexi!Apply, Flexi!CheckDirty, Flexi!Undirty, Flexi!erp
      <4> QED BY <4>1, <4>3, <4>5, <4>6, <3>q DEF FlexiTypes
    <3>10. ASSUME NEW o \in Objects, Flexi!Take(o) PROVE FlexiTypes'
      <4>1. [Flexi!Idle EXCEPT !.at = "get", !.obj = o] \in FlexiProc
        BY <2>i
      <4>2. flexiJob' \in [Objects -> [at : Flexi!States, tries : Nat]]
        BY <3>10 DEF Flexi!Take, Flexi!States
      <4>3. [Flexi!Idle EXCEPT !.at = "get", !.obj = o].at = "get"
        BY <2>i
      <4>4. /\ proc' = [proc EXCEPT !["worker"] = [Flexi!Idle EXCEPT !.at = "get", !.obj = o]]
            /\ UNCHANGED <<changes, hooks, accepting, bridge, site, flexiCursor>>
        BY <3>10 DEF Flexi!Take, Flexi!erp
      <4>5. site = [x \in Objects |-> site[x]] /\ flexiCursor \in Nat /\ bridge \in FlexiBridge
        BY DEF FlexiTypes
      <4> QED BY <4>1, <4>2, <4>3, <4>4, <4>5, <3>p, <3>q
    <3>11. CASE Flexi!Finish
      <4>1. flexiJob' \in [Objects -> [at : Flexi!States, tries : Nat]]
        BY <3>11 DEF Flexi!Finish, Flexi!States
      <4> QED BY <2>i, <3>11, <4>1, <3>q DEF Flexi!Finish, Flexi!erp, FlexiTypes
    <3>12. ASSUME NEW p \in Flexi!Procs, Flexi!Crash(p) PROVE FlexiTypes'
      <4>1. flexiJob' \in [Objects -> [at : Flexi!States, tries : Nat]]
        BY <3>12 DEF Flexi!Crash, Flexi!States
      <4> QED BY <2>i, <3>12, <4>1, <3>q DEF Flexi!Crash, Flexi!erp, FlexiTypes
    <3>13. CASE Flexi!Disable \/ Flexi!Restart \/ Flexi!Abandon
      <4>0. Flexi!Disable => Flexi!At("poll", "idle")
        BY DEF Flexi!Disable
      <4>1. PICK r \in FlexiProc : proc' = [proc EXCEPT !["admin"] = r] /\ (r.at = "idle" \/ ~accepting')
        <5>1. [proc["admin"] EXCEPT !.at = "tip"] \in FlexiProc
          <6>1. "tip" \in Flexi!Labels
            OBVIOUS
          <6> HIDE DEF FlexiProc, Flexi!Labels
          <6> QED BY <6>1, <1>s
        <5>2. CASE Flexi!Abandon
          BY <2>i, <5>2 DEF Flexi!Abandon
        <5>3. CASE Flexi!Disable \/ Flexi!Restart
          <6>1. ~accepting' /\ proc' = [proc EXCEPT !["admin"] = [proc["admin"] EXCEPT !.at = "tip"]]
            BY <5>3 DEF Flexi!Disable, Flexi!Restart
          <6> QED BY <5>1, <6>1
        <5> QED BY <3>13, <5>2, <5>3
      <4>2. bridge' \in FlexiBridge
        <5>1. Flexi!NoBridge \in FlexiBridge
          BY DEF FlexiBridge, Flexi!NoBridge, Flexi!NewBridge
        <5>2. bridge \in FlexiBridge
          BY DEF FlexiTypes
        <5> QED BY <3>13, <5>1, <5>2 DEF Flexi!Disable, Flexi!Restart, Flexi!Abandon
      <4>3. ~accepting' => "enable" \in FlexiCalls /\ Flexi!At("poll", "idle")
        BY <3>13, <4>0 DEF Flexi!Disable, Flexi!Restart, Flexi!Abandon, FlexiTypes
      <4>4. /\ accepting' \in BOOLEAN /\ UNCHANGED <<changes, hooks, site, flexiCursor, flexiJob>>
        BY <3>13 DEF Flexi!Disable, Flexi!Restart, Flexi!Abandon, Flexi!erp, FlexiTypes
      <4>5. accepting' => r.at = "idle"
        BY <4>1
      <4>6. "admin" \in Flexi!Procs
        OBVIOUS
      <4>7. site' = [o \in Objects |-> site'[o]] /\ flexiCursor' \in Nat
        BY <4>4 DEF FlexiTypes
      <4> QED BY <3>p, <4>1, <4>2, <4>3, <4>4, <4>5, <4>6, <4>7, <3>q
    <3>14. ASSUME \/ Flexi!Baseline \/ Flexi!Fetch \/ Flexi!Store \/ Flexi!Pass \/ Flexi!Refreshed \/ Flexi!NextPass
                  \/ Flexi!EndBridge \/ Flexi!Register \/ \E o \in Objects : Flexi!RefreshNext(o)
           PROVE  FlexiTypes'
      <4>1. /\ Flexi!Tip \in Nat /\ flexiCursor \in Nat /\ bridge \in FlexiBridge
            /\ bridge.base \in Nat /\ bridge.from \in Nat \ {0} /\ bridge.next \in Nat
            /\ ~accepting /\ "enable" \in FlexiCalls /\ Flexi!At("poll", "idle")
        <5>1. ~Flexi!At("admin", "idle")
          BY <3>14
          DEF Flexi!Baseline, Flexi!Fetch, Flexi!Store, Flexi!Pass, Flexi!Refreshed, Flexi!NextPass, Flexi!EndBridge,
              Flexi!Register, Flexi!RefreshNext
        <5>2. Flexi!Tip \in Nat /\ flexiCursor \in Nat /\ bridge \in FlexiBridge
          BY DEF FlexiTypes, Flexi!Tip
        <5>3. bridge.base \in Nat /\ bridge.from \in Nat \ {0} /\ bridge.next \in Nat
          BY <5>2 DEF FlexiBridge
        <5>4. ~accepting /\ "enable" \in FlexiCalls /\ Flexi!At("poll", "idle")
          BY <5>1 DEF FlexiTypes
        <5> QED BY <5>2, <5>3, <5>4
      <4>g. ASSUME NEW l \in Flexi!Labels, Flexi!Goto("admin", l)
            PROVE  \E r \in FlexiProc : proc' = [proc EXCEPT !["admin"] = r]
        <5>1. proc' = [proc EXCEPT !["admin"] = [proc["admin"] EXCEPT !.at = l]]
          BY <4>g
        <5>2. [proc["admin"] EXCEPT !.at = l] \in FlexiProc
          <6> HIDE DEF FlexiProc, Flexi!Labels
          <6> QED BY <1>s
        <5> QED BY <5>1, <5>2
      <4>s. \A v \in Nat : v >= 1 => Flexi!Since(v) \in SUBSET Objects /\ Flexi!NextVersion(v) \in Nat
        <5>1. changes \in Seq(Objects)
          BY DEF FlexiTypes
        <5>2. ASSUME NEW v \in Nat, v >= 1 PROVE Flexi!NextVersion(v) \in Nat
          BY <4>1, <1>m DEF Flexi!NextVersion
        <5>3. ASSUME NEW v \in Nat, v >= 1 PROVE Flexi!Since(v) \in SUBSET Objects
          <6>1. \A w \in v..Flexi!Tip : changes[w] \in Objects
            BY <5>1, <5>3 DEF Flexi!Tip
          <6> QED BY <6>1 DEF Flexi!Since
        <5> QED BY <5>2, <5>3
      <4>b. \A base \in Nat, k \in BOOLEAN : Flexi!NewBridge(base, k) \in FlexiBridge
        BY DEF Flexi!NewBridge, FlexiBridge
      (* What is left of the types once the process and the bridge are.        *)
      <4>r. ASSUME NEW r \in FlexiProc, proc' = [proc EXCEPT !["admin"] = r], bridge' \in FlexiBridge,
                   accepting' = FALSE \/ (accepting' = TRUE /\ r.at = "idle"),
                   UNCHANGED <<changes, hooks, flexiJob>>, flexiCursor' \in Nat, site' = [o \in Objects |-> site'[o]]
            PROVE  FlexiTypes'
        BY <4>1, <4>r, <3>q DEF FlexiTypes
      <4>2. CASE Flexi!Baseline
        BY <4>2, <4>1, <4>g, <4>b, <4>r DEF Flexi!Baseline, Flexi!erp, FlexiTypes
      <4>3. CASE Flexi!Fetch
        <5>1. proc' = [proc EXCEPT !["admin"] = [proc["admin"] EXCEPT !.at = "store", !.saw = Flexi!Tip]]
          BY <4>3 DEF Flexi!Fetch
        <5>2. [proc["admin"] EXCEPT !.at = "store", !.saw = Flexi!Tip] \in FlexiProc
          <6>1. "store" \in Flexi!Labels
            OBVIOUS
          <6> HIDE DEF FlexiProc, Flexi!Labels
          <6> QED BY <6>1, <4>1, <1>r
        <5> QED BY <4>3, <5>1, <5>2, <4>1, <4>r DEF Flexi!Fetch, Flexi!erp, FlexiTypes
      <4>4. CASE Flexi!Store
        BY <4>4, <4>1, <4>g, <4>r DEF Flexi!Store, Flexi!erp, FlexiTypes
      <4>5. CASE Flexi!Pass
        <5> DEFINE list == Flexi!Since(bridge.from) \ bridge.seen
        <5>1. proc' = [proc EXCEPT !["admin"] = [proc["admin"] EXCEPT !.at = "refresh", !.todo = list]]
          BY <4>5 DEF Flexi!Pass
        <5>2. list \in SUBSET Objects /\ Flexi!NextVersion(bridge.from) \in Nat
          BY <4>1, <4>5, <4>s
        <5> HIDE DEF list
        <5>3. [proc["admin"] EXCEPT !.at = "refresh", !.todo = list] \in FlexiProc
          BY <5>2
        <5>4. bridge' \in FlexiBridge
          BY <4>1, <4>5, <5>2 DEF Flexi!Pass, FlexiBridge
        <5> QED BY <4>5, <5>1, <5>3, <5>4, <4>1, <4>r DEF Flexi!Pass, Flexi!erp, FlexiTypes
      <4>6. CASE Flexi!Refreshed
        <5>1. [proc["admin"] EXCEPT !.at = "refresh"] \in FlexiProc
          <6>1. "refresh" \in Flexi!Labels
            OBVIOUS
          <6> HIDE DEF FlexiProc, Flexi!Labels
          <6> QED BY <6>1, <1>s
        <5>2. \E r \in FlexiProc : proc' = [proc EXCEPT !["admin"] = r]
          BY <2>i, <4>6, <5>1 DEF Flexi!Refreshed
        <5>3. bridge' \in FlexiBridge
          BY <4>1, <4>6, <4>b DEF Flexi!Refreshed, Flexi!NoBridge
        <5> QED BY <4>6, <5>2, <5>3, <4>1, <4>r DEF Flexi!Refreshed, Flexi!erp, FlexiTypes
      <4>7. CASE Flexi!NextPass
        <5>1. Flexi!Max({bridge.next, bridge.base + 1}) \in Nat \ {0}
          BY <4>1, <1>m
        <5>2. bridge' \in FlexiBridge
          BY <4>1, <4>7, <5>1 DEF Flexi!NextPass, FlexiBridge
        <5> QED BY <4>7, <4>g, <5>2, <4>1, <4>r DEF Flexi!NextPass, Flexi!erp, FlexiTypes
      <4>8. CASE Flexi!EndBridge
        <5>1. flexiCursor' \in Nat
          BY <4>1, <4>8, <1>3 DEF Flexi!EndBridge
        <5>2. CASE bridge.second
          <6>1. /\ proc' = [proc EXCEPT !["admin"] = Flexi!Idle] /\ bridge' = Flexi!NoBridge /\ accepting' = TRUE
                /\ UNCHANGED <<changes, hooks, flexiJob, site>>
            BY <4>8, <5>2 DEF Flexi!EndBridge, Flexi!erp
          <6>2. bridge' \in FlexiBridge /\ site' = [o \in Objects |-> site'[o]]
            BY <4>b, <6>1 DEF Flexi!NoBridge, FlexiTypes
          <6> QED BY <2>i, <4>r, <5>1, <6>1, <6>2
        <5>3. CASE ~bridge.second
          <6>1. /\ Flexi!Goto("admin", "register") /\ accepting' = accepting
                /\ UNCHANGED <<changes, hooks, flexiJob, site, bridge>>
            BY <4>8, <5>3 DEF Flexi!EndBridge, Flexi!erp
          <6>2. bridge' \in FlexiBridge /\ site' = [o \in Objects |-> site'[o]] /\ accepting' = FALSE
            BY <4>1, <6>1 DEF FlexiTypes
          <6>3. PICK r \in FlexiProc : proc' = [proc EXCEPT !["admin"] = r]
            BY <4>g, <6>1
          <6> QED BY <4>r, <5>1, <6>1, <6>2, <6>3
        <5> QED BY <5>2, <5>3
      <4>9. CASE Flexi!Register
        BY <4>9, <4>1, <4>g, <4>b, <4>r DEF Flexi!Register, Flexi!erp, FlexiTypes
      <4>10. ASSUME NEW o \in Objects, Flexi!RefreshNext(o) PROVE FlexiTypes'
        <5> DEFINE r == [proc["admin"] EXCEPT !.at = "get", !.obj = o, !.todo = proc["admin"].todo \ {o}]
        <5>1. proc' = [proc EXCEPT !["admin"] = r]
          BY <4>10 DEF Flexi!RefreshNext
        <5>2. r \in FlexiProc
          OBVIOUS
        <5>3. bridge' \in FlexiBridge
          BY <4>1, <4>10 DEF Flexi!RefreshNext, FlexiBridge
        <5> HIDE DEF r
        <5> QED BY <4>10, <5>1, <5>2, <5>3, <4>1, <4>r DEF Flexi!RefreshNext, Flexi!erp, FlexiTypes
      <4> QED BY <3>14, <4>2, <4>3, <4>4, <4>5, <4>6, <4>7, <4>8, <4>9, <4>10
    <3>15. CASE UNCHANGED Flexi!vars
      BY <3>15, <3>h DEF Flexi!vars, FlexiTypes
    <3> QED
      BY <3>1, <3>2, <3>3, <3>4, <3>5, <3>6, <3>7, <3>8, <3>9, <3>10, <3>11, <3>12, <3>13, <3>14, <3>15
      DEF Flexi!Next, Flexi!Hooks, Flexi!Polls, Flexi!Works, Flexi!Admins, Flexi!Step
  <2>3. FlexiTypes /\ FlexiTypes' /\ FlexiInv /\ BridgeInv /\ [Flexi!Next]_Flexi!vars => FlexiInv'
    <3> SUFFICES ASSUME FlexiTypes, FlexiTypes', FlexiInv, BridgeInv, [Flexi!Next]_Flexi!vars PROVE FlexiInv'
      OBVIOUS
    <3> USE DEF Flexi!At
    <3>p. /\ proc \in [Flexi!Procs -> FlexiProc] /\ flexiJob \in [Objects -> [at : Flexi!States, tries : Nat]]
          /\ Flexi!Procs = {"hook", "poll", "worker", "admin"}
          /\ \A p \in Flexi!Procs : proc[p] \in FlexiProc
          /\ \A p \in Flexi!Procs : proc[p].obj \in Objects
      BY DEF FlexiTypes, Flexi!Procs, FlexiProc
    (* While notifications are not accepted the poll rests.                  *)
    <3>v. ASSUME ~accepting', "enable" \in FlexiCalls, proc'["poll"].at = "idle",
                 proc'["worker"].at # "idle" => flexiJob'[proc'["worker"].obj].at = "active"
          PROVE  FlexiInv'
      BY <3>v DEF FlexiInv, PollRuns
    <3>e. CASE Flexi!EndBridge
      <4>1. /\ UNCHANGED <<changes, site, flexiJob>> /\ proc["admin"].at = "refresh"
            /\ \A q \in Flexi!Procs : q # "admin" => proc'[q] = proc[q]
            /\ bridge.second \/ UNCHANGED accepting
        BY <3>e, <3>p DEF Flexi!EndBridge, Flexi!erp, Flexi!Goto
      <4>2. ~accepting /\ "enable" \in FlexiCalls /\ proc'["poll"].at = "idle"
            /\ (proc'["worker"].at # "idle" => flexiJob'[proc'["worker"].obj].at = "active")
        BY <3>p, <4>1 DEF FlexiTypes, FlexiInv
      <4>3. CASE bridge.second
        <5>1. \A o \in Objects : ~Due(o)'
          <6>1. \A o \in Objects : ~Flexi!Stale(o)
            BY <4>3 DEF BridgeInv, SecondRound, NothingStale
          <6>2. proc["worker"].at = "apply" => proc["worker"].saw = Flexi!Latest(proc["worker"].obj)
            BY <3>p, <4>2 DEF BridgeInv, ReadsAreFresh
          <6> QED BY <3>p, <4>1, <6>1, <6>2, <2>u DEF Due, Reads, Flexi!Stale
        <5> QED BY <4>2, <5>1 DEF FlexiInv, PollRuns
      <4>4. CASE ~bridge.second
        BY <4>1, <4>2, <4>4, <3>v
      <4> QED BY <4>3, <4>4
    <3>t. ~Flexi!EndBridge /\ accepting' => accepting
      <4>1. ASSUME NEW p, Flexi!Step(p) PROVE UNCHANGED accepting
        BY <4>1
        DEF Flexi!Step, Flexi!LookUp, Flexi!Enqueue, Flexi!Get, Flexi!Apply, Flexi!CheckDirty, Flexi!Undirty
      <4>2. CASE Flexi!Hooks \/ Flexi!Polls \/ Flexi!Works
        BY <4>1, <4>2
        DEF Flexi!Hooks, Flexi!Polls, Flexi!Works, Flexi!Collect, Flexi!Filter, Flexi!Advance, Flexi!Finish, Flexi!Take
      <4>3. CASE Flexi!Admins
        BY <4>1, <4>3
        DEF Flexi!Admins, Flexi!Baseline, Flexi!Fetch, Flexi!Store, Flexi!Pass, Flexi!Refreshed, Flexi!NextPass,
            Flexi!Register, Flexi!RefreshNext
      <4>4. CASE Flexi!StartPoll \/ Flexi!Disable \/ Flexi!Restart \/ Flexi!Abandon \/ UNCHANGED Flexi!vars
        BY <4>4 DEF Flexi!StartPoll, Flexi!Disable, Flexi!Restart, Flexi!Abandon, Flexi!vars
      <4>5. ASSUME \/ \E o \in Objects : Flexi!Change(o)
                   \/ \E v \in hooks : Flexi!LoseHook(v) \/ Flexi!Deliver(v)
                   \/ \E p \in Flexi!Procs : Flexi!Crash(p)
            PROVE  UNCHANGED accepting
        BY <4>5 DEF Flexi!Change, Flexi!LoseHook, Flexi!Deliver, Flexi!Crash
      <4> QED BY <4>2, <4>3, <4>4, <4>5 DEF Flexi!Next
    <3> SUFFICES ASSUME accepting' => accepting PROVE FlexiInv'
      BY <3>e, <3>t
    (* A step that leaves the poll where it is or takes it one step further. *)
    <3>f. ASSUME UNCHANGED <<changes, flexiCursor>>,
                 PollRuns' => PollRuns /\ proc'["poll"].next = proc["poll"].next,
                 proc'["poll"].at # "idle" => proc["poll"].at # "idle" /\ proc'["poll"].saw = proc["poll"].saw,
                 proc'["poll"].at = "collect" => proc["poll"].at = "collect",
                 proc'["worker"].at # "idle" => flexiJob'[proc'["worker"].obj].at = "active",
                 \A o \in Objects :
                   Due(o)' => /\ Due(o) \/ Noted(o)'
                              /\ Noted(o) => Noted(o)'
                              /\ Lists("poll", o) => Lists("poll", o)' \/ Noted(o)'
          PROVE  FlexiInv'
      <4>1. \A o \in Objects : accepting' /\ Due(o)' => Noted(o)' \/ flexiCursor' < Flexi!Latest(o)'
        BY <3>f, <2>u DEF FlexiInv
      <4>2. PollRuns' => \A o \in Objects :
              Due(o)' /\ Flexi!Latest(o)' <= proc'["poll"].next => Noted(o)' \/ Lists("poll", o)'
        BY <3>f, <2>u DEF FlexiInv
      <4> QED BY <3>f, <2>u, <4>1, <4>2 DEF FlexiInv
    <3>d. ASSUME UNCHANGED <<changes, site, failures>>,
                 \A o \in Objects : Reads(o)' => Reads(o) /\ proc'["worker"].saw = proc["worker"].saw,
                 \A o \in Objects : Reads(o) => Reads(o)'
          PROVE  \A o \in Objects : Due(o)' => Due(o)
      BY <3>d, <2>u DEF Due, Flexi!Stale
    <3>1. ASSUME NEW v \in hooks, Flexi!LoseHook(v) PROVE FlexiInv'
      <4>1. UNCHANGED <<changes, site, flexiCursor, flexiJob, dirty, failures, proc>> /\ "hookLost" \in FlexiFaults
        BY <3>1 DEF Flexi!LoseHook
      <4>2. \A o \in Objects : Due(o)' => Due(o)
        BY <4>1, <3>d DEF Reads
      <4> QED BY <4>1, <4>2, <3>f DEF FlexiInv, PollRuns, Noted, Lists, Asks
    <3>2. ASSUME NEW v \in hooks, Flexi!Deliver(v) PROVE FlexiInv'
      <4>a. CASE ~accepting
        <5>1. UNCHANGED <<proc, flexiJob, accepting>>
          BY <3>2, <4>a DEF Flexi!Deliver
        <5> QED BY <4>a, <5>1, <3>v DEF FlexiTypes, FlexiInv
      <4> SUFFICES ASSUME accepting PROVE FlexiInv'
        BY <4>a
      <4> DEFINE r == [Flexi!Idle EXCEPT !.at = "look", !.todo = {changes[v]}]
      <4>1. /\ UNCHANGED <<changes, site, flexiCursor, flexiJob, dirty, failures>>
            /\ proc["hook"].at = "idle" /\ hooks' = hooks \ {v}
            /\ proc' = [proc EXCEPT !["hook"] = r]
        BY <3>2 DEF Flexi!Deliver, FlexiTypes
      <4>2. r.at = "look" /\ r.todo = {changes[v]}
        BY <2>i DEF FlexiProc
      <4> HIDE DEF r
      <4>3. /\ proc'["hook"].at = "look" /\ proc'["hook"].todo = {changes[v]}
            /\ proc'["poll"] = proc["poll"] /\ proc'["worker"] = proc["worker"]
        BY <3>p, <4>1, <4>2
      <4>4. \A o \in Objects : Due(o)' => Due(o)
        BY <4>1, <4>3, <3>d DEF Reads
      <4>5. \A o \in Objects : Noted(o) => Noted(o)'
        BY <4>1, <4>3 DEF Noted, Lists, Asks
      <4> QED BY <4>1, <4>3, <4>4, <4>5, <3>f DEF FlexiInv, PollRuns, Lists, Asks
    <3>3. ASSUME NEW p \in Flexi!Procs, NEW o \in Objects, Flexi!LookUp(p, o) PROVE FlexiInv'
      <4>a. CASE p = "admin"
        <5>1. proc[p].at = "look" /\ UNCHANGED <<flexiJob, accepting>> /\ \A q \in Flexi!Procs : q # p => proc'[q] = proc[q]
          BY <3>3, <3>p DEF Flexi!LookUp
        <5> QED BY <3>p, <4>a, <5>1, <3>v DEF FlexiTypes, FlexiInv
      <4> SUFFICES ASSUME p # "admin" PROVE FlexiInv'
        BY <4>a
      <4>1. /\ UNCHANGED <<changes, site, flexiCursor, flexiJob, dirty, failures, hooks>>
            /\ proc[p].at = "look" /\ p # "admin"
            /\ p = "worker" => proc[p].obj = o
            /\ p # "worker" => o \in proc[p].todo
        BY <3>3 DEF Flexi!LookUp, Flexi!erp, Flexi!Refreshers, FlexiTypes
      <4>2. /\ proc'[p].at = "add" /\ proc'[p].obj = o /\ proc'[p].found = flexiJob[o].at
            /\ proc'[p].todo = proc[p].todo /\ proc'[p].saw = proc[p].saw /\ proc'[p].next = proc[p].next
            /\ \A q \in Flexi!Procs : q # p => proc'[q] = proc[q]
        BY <3>3, <3>p DEF Flexi!LookUp, FlexiProc
      <4>3. \A x \in Objects : Due(x)' => Due(x)
        BY <3>p, <4>1, <4>2, <3>d DEF Reads
      <4>4. \A x \in Objects : Noted(x) => Noted(x)'
        BY <3>p, <4>1, <4>2 DEF Noted, Lists, Asks
      <4>5. \A x \in Objects : Lists("poll", x) => Lists("poll", x)'
        BY <3>p, <4>1, <4>2 DEF Lists, Asks
      <4>6. /\ PollRuns' => PollRuns /\ proc'["poll"].next = proc["poll"].next
            /\ proc'["poll"].at # "idle" => proc["poll"].at # "idle" /\ proc'["poll"].saw = proc["poll"].saw
            /\ proc'["poll"].at = "collect" => proc["poll"].at = "collect"
        BY <3>p, <4>1, <4>2 DEF PollRuns
      <4>7. proc'["worker"].at # "idle" => flexiJob'[proc'["worker"].obj].at = "active"
        BY <3>p, <4>1, <4>2 DEF FlexiInv
      <4> QED BY <4>1, <4>3, <4>4, <4>5, <4>6, <4>7, <3>f
    <3>4. ASSUME NEW p \in Flexi!Procs, Flexi!Enqueue(p) PROVE FlexiInv'
      <4>o. PICK o \in Objects : o = proc[p].obj
        BY <3>p
      <4>a. CASE p = "admin"
        <5>1. /\ proc[p].at = "add" /\ UNCHANGED accepting
              /\ \A q \in Flexi!Procs : q # p => proc'[q] = proc[q]
              /\ \A x \in Objects : flexiJob[x].at = "active" => flexiJob'[x].at = "active"
          BY <4>o, <3>4, <3>p DEF Flexi!Enqueue, Flexi!Readded
        <5> QED BY <3>p, <4>a, <5>1, <3>v DEF FlexiTypes, FlexiInv
      <4> SUFFICES ASSUME p # "admin" PROVE FlexiInv'
        BY <4>a
      <4>1. /\ UNCHANGED <<changes, site, flexiCursor, failures, hooks>>
            /\ proc[p].at = "add" /\ p # "admin" /\ o \in Objects
        BY <4>o, <3>4, <3>p DEF Flexi!Enqueue, Flexi!erp, FlexiTypes
      <4>2. /\ proc'[p].at = Flexi!AfterEnqueue(p, proc[p].todo \ {o}) /\ proc'[p].todo = proc[p].todo \ {o}
            /\ proc'[p].obj = o /\ proc'[p].saw = proc[p].saw /\ proc'[p].next = proc[p].next
            /\ \A q \in Flexi!Procs : q # p => proc'[q] = proc[q]
        BY <4>o, <3>4, <3>p DEF Flexi!Enqueue, FlexiProc
      <4>3. /\ p = "hook" => proc'[p].at = IF proc'[p].todo # {} THEN "look" ELSE "idle"
            /\ p = "poll" => proc'[p].at = IF proc'[p].todo # {} THEN "look" ELSE "advance"
            /\ p = "worker" => proc'[p].at = "finish"
        BY <4>2, <2>a
      <4>4. /\ \A x \in Objects : x # o => flexiJob'[x] = flexiJob[x]
            /\ dirty \subseteq dirty' /\ dirty' \subseteq dirty \cup {o}
            /\ \/ flexiJob'[o].at = "waiting" \/ o \in dirty'
               \/ proc[p].found \in {"none", "kept"} /\ flexiJob[o].at = "active" /\ flexiJob' = flexiJob
            /\ flexiJob' = flexiJob \/ (flexiJob[o].at # "active" /\ flexiJob'[o].at = "waiting")
        BY <4>o, <3>4, <3>p, <4>1 DEF Flexi!Enqueue, Flexi!Readded
      <4>5. \A x \in Objects : Due(x)' => Due(x)
        BY <4>o, <3>p, <4>1, <4>2, <4>3, <3>d DEF Reads
      <4>6. \A x \in Objects : x # o /\ Noted(x) => Noted(x)'
        BY <4>o, <3>p, <4>1, <4>2, <4>3, <4>4 DEF Noted, Lists, Asks
      <4>7. Noted(o) => Noted(o)'
        BY <4>o, <3>p, <4>1, <4>2, <4>3, <4>4 DEF Noted, Lists, Asks
      <4>8. \A x \in Objects : Lists("poll", x) => Lists("poll", x)' \/ Noted(x)'
        <5>1. CASE p = "poll"
          BY <4>o, <3>p, <4>1, <4>2, <4>3, <4>4, <5>1 DEF Noted, Lists, Asks
        <5>2. CASE p # "poll"
          BY <4>o, <3>p, <4>1, <4>2, <4>4, <5>2 DEF Noted, Lists, Asks
        <5> QED BY <5>1, <5>2
      <4>9. /\ PollRuns' => PollRuns /\ proc'["poll"].next = proc["poll"].next
            /\ proc'["poll"].at # "idle" => proc["poll"].at # "idle" /\ proc'["poll"].saw = proc["poll"].saw
            /\ proc'["poll"].at = "collect" => proc["poll"].at = "collect"
        BY <4>o, <3>p, <4>1, <4>2, <4>3 DEF PollRuns
      <4>10. proc'["worker"].at # "idle" => flexiJob'[proc'["worker"].obj].at = "active"
        BY <4>o, <3>p, <4>1, <4>2, <4>3, <4>4 DEF FlexiInv
      <4>11. \A x \in Objects : Noted(x) => Noted(x)'
        BY <4>6, <4>7
      <4> QED BY <4>1, <4>5, <4>8, <4>9, <4>10, <4>11, <3>f
    (* What the worker does with the object in hand.                         *)
    <3>w. ASSUME NEW o \in Objects, o = proc["worker"].obj, UNCHANGED <<changes, flexiCursor, hooks>>,
                 \A q \in Flexi!Procs : q # "worker" => proc'[q] = proc[q],
                 proc'["worker"].at # "idle" => flexiJob'[proc'["worker"].obj].at = "active",
                 \A x \in Objects : x # o =>
                   /\ flexiJob'[x] = flexiJob[x] /\ site'[x] = site[x]
                   /\ (x \in dirty <=> x \in dirty') /\ (x \in failures <=> x \in failures')
                   /\ ~Reads(x)',
                 Due(o)' => \/ Noted(o)'
                            \/ Due(o) /\ (Noted(o) => Noted(o)') /\ UNCHANGED flexiJob
          PROVE  FlexiInv'
      <4>1. \A x \in Objects : x # o => (Due(x)' => Due(x)) /\ (Noted(x) => Noted(x)')
        <5>1. ASSUME NEW x \in Objects, x # o PROVE Due(x)' => Due(x)
          BY <3>w, <5>1, <2>u DEF Due, Reads, Flexi!Stale
        <5>2. ASSUME NEW x \in Objects, x # o PROVE Noted(x) => Noted(x)'
          BY <3>p, <3>w, <5>2 DEF Noted, Lists, Asks
        <5> QED BY <5>1, <5>2
      <4>2. \A x \in Objects : x # o => (Lists("poll", x) => Lists("poll", x)')
        BY <3>p, <3>w DEF Lists, Asks
      <4>3. UNCHANGED flexiJob => (Lists("poll", o) => Lists("poll", o)')
        BY <3>p, <3>w DEF Lists, Asks
      <4>4. ASSUME NEW x \in Objects
            PROVE  Due(x)' => /\ Due(x) \/ Noted(x)'
                              /\ Noted(x) => Noted(x)'
                              /\ Lists("poll", x) => Lists("poll", x)' \/ Noted(x)'
        <5>1. CASE x = o
          BY <3>w, <4>3, <5>1
        <5>2. CASE x # o
          BY <4>1, <4>2, <5>2
        <5> QED BY <5>1, <5>2
      <4> QED BY <3>p, <3>w, <4>4, <3>f DEF PollRuns
    <3>5. ASSUME NEW p \in Flexi!Procs, Flexi!Get(p) \/ Flexi!Apply(p) \/ Flexi!CheckDirty(p) \/ Flexi!Undirty(p)
          PROVE  FlexiInv'
      <4>0. proc[p].at # "idle" /\ UNCHANGED <<flexiJob, accepting>> /\ \A q \in Flexi!Procs : q # p => proc'[q] = proc[q]
        BY <3>5, <3>p DEF Flexi!Get, Flexi!Apply, Flexi!CheckDirty, Flexi!Undirty, Flexi!Goto
      <4>a. CASE p = "admin"
        BY <3>p, <4>0, <4>a, <3>v DEF FlexiTypes, FlexiInv
      <4> SUFFICES ASSUME p # "admin" PROVE FlexiInv'
        BY <4>a
      <4>1. p = "worker"
        BY <3>5, <3>p DEF Flexi!Get, Flexi!Apply, Flexi!CheckDirty, Flexi!Undirty, FlexiTypes
      <4>o. PICK o \in Objects : o = proc["worker"].obj
        BY <3>p
      <4>2. /\ UNCHANGED <<changes, flexiCursor, hooks, flexiJob>>
            /\ \A q \in Flexi!Procs : q # "worker" => proc'[q] = proc[q]
            /\ proc'["worker"].obj = o /\ proc["worker"].at # "idle"
        BY <3>5, <3>p, <4>1, <4>o
        DEF Flexi!Get, Flexi!Apply, Flexi!CheckDirty, Flexi!Undirty, Flexi!Goto, Flexi!erp, FlexiProc
      <4>3. flexiJob'[o].at = "active"
        BY <4>2, <4>o DEF FlexiInv
      <4>4. ASSUME \A x \in Objects : x # o =>
                     /\ site'[x] = site[x]
                     /\ (x \in dirty <=> x \in dirty') /\ (x \in failures <=> x \in failures'),
                   Due(o)' => Noted(o)' \/ (Due(o) /\ (Noted(o) => Noted(o)'))
            PROVE  FlexiInv'
        <5>1. \A x \in Objects : x # o => ~Reads(x)'
          BY <4>2 DEF Reads
        <5> QED BY <3>w, <4>o, <4>2, <4>3, <4>4, <5>1
      <4>5. CASE Flexi!Get("worker")
        <5>1. UNCHANGED <<site, dirty>>
          BY <4>5 DEF Flexi!Get
        <5>2. CASE proc'["worker"].at = "apply" /\ proc'["worker"].saw = Flexi!Latest(o) /\ UNCHANGED failures
          <6>1. ~Due(o)'
            BY <4>2, <5>2, <2>u DEF Due, Reads, Flexi!Stale
          <6> QED BY <4>4, <5>1, <5>2, <6>1
        <5>3. CASE proc'["worker"].at = "checkDirty" /\ failures' = failures \cup {o}
          <6>1. ~Due(o)'
            BY <5>3 DEF Due, Reads
          <6> QED BY <4>4, <5>1, <5>3, <6>1
        <5> QED BY <3>p, <4>5, <4>o, <5>2, <5>3 DEF Flexi!Get, FlexiProc
      <4>6. CASE Flexi!Apply("worker")
        <5>1. /\ proc["worker"].at = "apply" /\ proc'["worker"].at = "checkDirty"
              /\ site' = [site EXCEPT ![o] = proc["worker"].saw] /\ failures' = failures \ {o} /\ UNCHANGED dirty
          BY <3>p, <4>6, <4>o DEF Flexi!Apply, Flexi!Goto, FlexiProc
        <5>2. site'[o] = proc["worker"].saw /\ \A x \in Objects : x # o => site'[x] = site[x]
          BY <5>1 DEF FlexiTypes
        <5>3. Due(o)' => Due(o)
          BY <4>o, <4>2, <5>1, <5>2, <2>u DEF Due, Reads, Flexi!Stale
        <5>4. Noted(o) => Noted(o)'
          BY <3>p, <4>2, <5>1 DEF Noted, Lists, Asks
        <5> QED BY <4>4, <5>1, <5>2, <5>3, <5>4
      <4>7. CASE Flexi!CheckDirty("worker")
        <5>1. /\ proc["worker"].at = "checkDirty" /\ proc'["worker"].at \in {"undirty", "finish"}
              /\ UNCHANGED <<site, failures, dirty>>
          BY <3>p, <4>7 DEF Flexi!CheckDirty, FlexiProc
        <5>2. Due(o)' => Due(o)
          BY <4>2, <5>1, <2>u DEF Due, Reads, Flexi!Stale
        <5>3. Noted(o) => Noted(o)'
          BY <3>p, <4>2, <5>1 DEF Noted, Lists, Asks
        <5> QED BY <4>4, <5>1, <5>2, <5>3
      <4>8. CASE Flexi!Undirty("worker")
        <5>1. proc'["worker"].at = "look" /\ UNCHANGED <<site, failures>> /\ dirty' = dirty \ {o}
          BY <3>p, <4>8, <4>o DEF Flexi!Undirty, Flexi!Goto, FlexiProc
        <5>2. Noted(o)'
          BY <4>2, <5>1 DEF Noted
        <5> QED BY <4>4, <5>1, <5>2
      <4> QED BY <3>5, <4>1, <4>5, <4>6, <4>7, <4>8
    <3>6. ASSUME NEW o \in Objects, Flexi!Take(o) PROVE FlexiInv'
      <4>1. [Flexi!Idle EXCEPT !.at = "get", !.obj = o].at = "get" /\ [Flexi!Idle EXCEPT !.at = "get", !.obj = o].obj = o
        BY <2>i DEF FlexiProc
      <4>2. /\ UNCHANGED <<changes, flexiCursor, hooks, site, failures, dirty>>
            /\ proc["worker"].at = "idle"
            /\ proc'["worker"].at = "get" /\ proc'["worker"].obj = o
            /\ \A q \in Flexi!Procs : q # "worker" => proc'[q] = proc[q]
            /\ flexiJob'[o].at = "active" /\ \A x \in Objects : x # o => flexiJob'[x] = flexiJob[x]
        BY <3>6, <3>p, <4>1 DEF Flexi!Take, Flexi!erp
      <4>3. \A x \in Objects : Due(x)' => Due(x)
        BY <4>2, <3>d DEF Reads
      <4>4. Noted(o)'
        BY <4>2 DEF Noted
      <4>5. \A x \in Objects : x # o /\ Noted(x) => Noted(x)'
        BY <3>p, <4>2 DEF Noted, Lists, Asks
      <4>6. \A x \in Objects : x # o /\ Lists("poll", x) => Lists("poll", x)'
        BY <3>p, <4>2 DEF Lists, Asks
      <4>7. ASSUME NEW x \in Objects
            PROVE  (Noted(x) => Noted(x)') /\ (Lists("poll", x) => Lists("poll", x)' \/ Noted(x)')
        BY <4>4, <4>5, <4>6
      <4> QED BY <3>p, <4>2, <4>3, <4>7, <3>f DEF PollRuns
    <3>7. CASE Flexi!Finish
      <4>o. PICK o \in Objects : o = proc["worker"].obj
        BY <3>p
      <4>1. /\ UNCHANGED <<changes, flexiCursor, hooks, site, failures, dirty>>
            /\ proc["worker"].at = "finish" /\ proc'["worker"].at = "idle"
            /\ \A q \in Flexi!Procs : q # "worker" => proc'[q] = proc[q]
            /\ flexiJob[o].at = "active" /\ flexiJob'[o].at # "active"
            /\ \A x \in Objects : x # o => flexiJob'[x] = flexiJob[x]
        BY <3>7, <3>p, <2>i, <4>o DEF Flexi!Finish, Flexi!erp, FlexiInv
      <4>2. \A x \in Objects : Due(x)' => Due(x)
        BY <4>1, <3>d DEF Reads
      <4>3. \A x \in Objects : Noted(x) => Noted(x)'
        BY <3>p, <4>1 DEF Noted, Lists, Asks
      <4>4. \A x \in Objects : Lists("poll", x) => Lists("poll", x)'
        BY <3>p, <4>1 DEF Lists, Asks
      <4> QED BY <3>p, <4>1, <4>2, <4>3, <4>4, <3>f DEF PollRuns
    <3>8. CASE Flexi!Crash("worker")
      <4>o. PICK o \in Objects : o = proc["worker"].obj
        BY <3>p
      <4>1. /\ UNCHANGED <<changes, flexiCursor, hooks, site, failures, dirty>>
            /\ proc'["worker"].at = "idle"
            /\ \A q \in Flexi!Procs : q # "worker" => proc'[q] = proc[q]
            /\ flexiJob'[o].at = "waiting"
            /\ \A x \in Objects : x # o => flexiJob'[x] = flexiJob[x]
        BY <3>8, <3>p, <2>i, <4>o DEF Flexi!Crash, Flexi!erp
      <4>2. Noted(o)' /\ \A x \in Objects : ~Reads(x)'
        BY <4>1 DEF Noted, Reads
      <4> QED BY <4>o, <4>1, <4>2, <3>w
    <3>9. CASE Flexi!Crash("poll")
      <4>1. /\ UNCHANGED <<changes, flexiCursor, hooks, site, failures, dirty, flexiJob>>
            /\ proc'["poll"].at = "idle"
            /\ \A q \in Flexi!Procs : q # "poll" => proc'[q] = proc[q]
        BY <3>9, <3>p, <2>i DEF Flexi!Crash, Flexi!erp
      <4>2. \A x \in Objects : Due(x)' => Due(x)
        BY <3>p, <4>1, <3>d DEF Reads
      <4>3. \A x \in Objects : Noted(x) => Noted(x)'
        BY <3>p, <4>1 DEF Noted, Lists, Asks
      <4> QED BY <3>p, <4>1, <4>2, <4>3, <2>u DEF FlexiInv, PollRuns
    (* The poll moves on; nothing else does.                                 *)
    <3>m. ASSUME UNCHANGED <<changes, hooks, site, failures, dirty, flexiJob>>,
                 \A q \in Flexi!Procs : q # "poll" => proc'[q] = proc[q]
          PROVE  \A x \in Objects : (Due(x)' => Due(x)) /\ (Noted(x) => Noted(x)')
      <4>1. \A x \in Objects : Due(x)' => Due(x)
        BY <3>p, <3>m, <3>d DEF Reads
      <4>2. \A x \in Objects : Noted(x) => Noted(x)'
        BY <3>p, <3>m DEF Noted, Lists, Asks
      <4> QED BY <4>1, <4>2
    <3>10. CASE Flexi!StartPoll
      <4> DEFINE r == [Flexi!Idle EXCEPT !.at = "collect", !.saw = flexiCursor]
      <4>1. r.at = "collect" /\ r.saw = flexiCursor
        BY <2>i DEF FlexiProc
      <4>2. /\ UNCHANGED <<changes, flexiCursor, hooks, site, failures, dirty, flexiJob>>
            /\ proc' = [proc EXCEPT !["poll"] = r]
            /\ Calm => Flexi!Tip > flexiCursor
        BY <3>10 DEF Flexi!StartPoll, Flexi!erp
      <4> HIDE DEF r
      <4>3. /\ proc'["poll"].at = "collect" /\ proc'["poll"].saw = flexiCursor
            /\ \A q \in Flexi!Procs : q # "poll" => proc'[q] = proc[q]
        BY <3>p, <4>1, <4>2
      <4>4. flexiCursor \in Nat /\ Flexi!Tip \in Nat
        BY DEF FlexiTypes, Flexi!Tip
      <4> QED BY <3>p, <4>2, <4>3, <4>4, <3>m, <2>u DEF FlexiInv, PollRuns
    <3>11. CASE Flexi!Collect
      <4> DEFINE v == proc["poll"].saw + 1
                 r == [proc["poll"] EXCEPT !.at = "filter", !.todo = Flexi!Since(v), !.next = Flexi!NextVersion(v)]
      <4>1. /\ UNCHANGED <<changes, flexiCursor, hooks, site, failures, dirty, flexiJob>>
            /\ proc["poll"].at = "collect"
            /\ proc' = [proc EXCEPT !["poll"] = r] \/ proc' = [proc EXCEPT !["poll"] = Flexi!Idle]
        BY <3>11 DEF Flexi!Collect, Flexi!erp
      <4>2. \A q \in Flexi!Procs : q # "poll" => proc'[q] = proc[q]
        <5> HIDE DEF r
        <5> QED BY <3>p, <4>1
      <4>3. CASE proc' = [proc EXCEPT !["poll"] = Flexi!Idle]
        <5>1. proc'["poll"].at = "idle"
          BY <3>p, <4>3, <2>i
        <5> QED BY <3>p, <4>1, <4>2, <5>1, <3>m, <2>u DEF FlexiInv, PollRuns
      <4>4. CASE proc' = [proc EXCEPT !["poll"] = r]
        <5>1. r.at = "filter" /\ r.todo = Flexi!Since(v) /\ r.next = Flexi!NextVersion(v) /\ r.saw = proc["poll"].saw
          BY <3>p DEF FlexiProc
        <5>2. proc'["poll"] = r
          <6> HIDE DEF r
          <6> QED BY <3>p, <4>4
        <5>3. proc["poll"].saw = flexiCursor /\ flexiCursor \in Nat /\ Flexi!Tip \in Nat /\ v = flexiCursor + 1
          BY <4>1 DEF FlexiInv, FlexiTypes, Flexi!Tip
        <5>4. Flexi!NextVersion(v) = IF v >= Flexi!Tip THEN v ELSE Flexi!Tip
          <6> HIDE DEF v
          <6> QED BY <1>m, <5>3 DEF Flexi!NextVersion
        <5>5. \A x \in Objects : flexiCursor < Flexi!Latest(x) => x \in Flexi!Since(v)
          <6> SUFFICES ASSUME NEW x \in Objects, flexiCursor < Flexi!Latest(x) PROVE x \in Flexi!Since(v)
            OBVIOUS
          <6>1. Flexi!Latest(x) \in Versions(x)
            BY DEF FlexiTypes
          <6>2. Flexi!Latest(x) \in v..Flexi!Tip /\ changes[Flexi!Latest(x)] = x
            BY <5>3, <6>1 DEF Versions
          <6> HIDE DEF v
          <6> QED BY <6>2 DEF Flexi!Since
        <5> HIDE DEF r, v
        <5>6. \A x \in Objects : Due(x)' => Noted(x)' \/ Lists("poll", x)'
          <6>1. ASSUME NEW x \in Objects, Due(x)' PROVE Noted(x)' \/ Lists("poll", x)'
            <7>1. Noted(x) \/ flexiCursor < Flexi!Latest(x)
              BY <4>1, <4>2, <6>1, <3>m DEF FlexiInv, FlexiTypes
            <7>2. CASE Noted(x)
              BY <4>1, <4>2, <7>2, <3>m
            <7>3. CASE flexiCursor < Flexi!Latest(x)
              BY <5>1, <5>2, <5>5, <7>3 DEF Lists
            <7> QED BY <7>1, <7>2, <7>3
          <6> QED BY <6>1
        <5>7. "hookLost" \in FlexiFaults => proc'["poll"].next <= Flexi!Tip
          BY <4>1, <5>1, <5>2, <5>3, <5>4 DEF FlexiInv
        <5> QED BY <3>p, <4>1, <4>2, <5>1, <5>2, <5>3, <5>6, <5>7, <3>m, <2>u DEF FlexiInv, PollRuns
      <4> QED BY <4>1, <4>3, <4>4
    <3>12. CASE Flexi!Filter
      <4>1. /\ UNCHANGED <<changes, flexiCursor, hooks, site, failures, dirty, flexiJob>>
            /\ proc["poll"].at = "filter"
            /\ proc' = [proc EXCEPT !["poll"].todo = proc["poll"].todo,
                                    !["poll"].at = Flexi!AfterEnqueue("poll", proc["poll"].todo)]
        BY <3>12 DEF Flexi!Filter, Flexi!erp, FlexiTypes
      <4>2. /\ proc'["poll"].at = IF proc["poll"].todo # {} THEN "look" ELSE "advance"
            /\ proc'["poll"].todo = proc["poll"].todo
            /\ proc'["poll"].saw = proc["poll"].saw /\ proc'["poll"].next = proc["poll"].next
            /\ \A q \in Flexi!Procs : q # "poll" => proc'[q] = proc[q]
        BY <3>p, <4>1, <2>a DEF FlexiProc
      <4>3. \A x \in Objects : Lists("poll", x) => Lists("poll", x)'
        BY <4>1, <4>2 DEF Lists, Asks
      <4> QED BY <3>p, <4>1, <4>2, <4>3, <3>m, <3>f DEF PollRuns, FlexiInv
    <3>13. CASE Flexi!Advance
      <4>1. /\ UNCHANGED <<changes, hooks, site, failures, dirty, flexiJob>>
            /\ proc["poll"].at = "advance" /\ proc'["poll"].at = "idle"
            /\ flexiCursor' = Flexi!Max({proc["poll"].saw, proc["poll"].next})
            /\ \A q \in Flexi!Procs : q # "poll" => proc'[q] = proc[q]
        BY <3>13, <3>p, <2>i DEF Flexi!Advance, Flexi!erp
      <4>2. /\ proc["poll"].saw \in Nat /\ proc["poll"].next \in Nat /\ proc["poll"].saw = flexiCursor
            /\ flexiCursor \in Nat /\ Flexi!Tip \in Nat
        <5>1. proc["poll"] \in FlexiProc
          BY <3>p
        <5>2. proc["poll"].saw \in Nat /\ proc["poll"].next \in Nat
          BY <5>1 DEF FlexiProc
        <5>3. flexiCursor \in Nat /\ Flexi!Tip \in Nat
          BY DEF FlexiTypes, Flexi!Tip
        <5>4. proc["poll"].saw = flexiCursor
          BY <4>1 DEF FlexiInv
        <5> QED BY <5>2, <5>3, <5>4
      <4>3. flexiCursor' = IF flexiCursor >= proc["poll"].next THEN flexiCursor ELSE proc["poll"].next
        BY <4>1, <4>2, <1>m
      <4>4. ASSUME NEW x \in Objects, Due(x)' PROVE Noted(x)' \/ flexiCursor' < Flexi!Latest(x)
        <5>1. Due(x) /\ (Noted(x) => Noted(x)')
          BY <4>1, <4>4, <3>m
        <5>2. ~Lists("poll", x)
          BY <4>1 DEF Lists, Asks
        <5>3. Noted(x) \/ (flexiCursor < Flexi!Latest(x) /\ ~(Flexi!Latest(x) <= proc["poll"].next))
          BY <4>1, <5>1, <5>2 DEF FlexiInv, FlexiTypes, PollRuns
        <5>4. Flexi!Latest(x) \in Nat
          BY <4>2 DEF FlexiTypes, Versions
        <5> QED BY <4>2, <4>3, <5>1, <5>3, <5>4
      <4>5. "hookLost" \in FlexiFaults => flexiCursor' <= Flexi!Tip
        BY <4>1, <4>2, <4>3 DEF FlexiInv, PollRuns
      <4> QED BY <3>p, <4>1, <4>4, <4>5, <2>u DEF FlexiInv, PollRuns
    <3>14. ASSUME NEW o \in Objects, Flexi!Change(o) PROVE FlexiInv'
      <4>1. /\ UNCHANGED <<site, flexiCursor, flexiJob, dirty, failures, proc>>
            /\ flexiCursor \in Nat /\ hooks \subseteq 1..Flexi!Tip /\ \A p \in Flexi!Procs : proc[p].next \in Nat
        BY <3>14, <3>p DEF Flexi!Change, FlexiTypes, FlexiProc
      <4>2. /\ Flexi!Tip \in Nat /\ Flexi!Tip' = Flexi!Tip + 1 /\ hooks' = hooks \cup {Flexi!Tip + 1}
            /\ changes'[Flexi!Tip + 1] = o /\ \A v \in 1..Flexi!Tip : changes'[v] = changes[v]
            /\ Flexi!Latest(o)' = Flexi!Tip + 1
            /\ \A x : x # o => Flexi!Latest(x)' = Flexi!Latest(x)
        BY <2>c, <3>14
      <4>3. Noted(o)' \/ (flexiCursor' < Flexi!Latest(o)' /\ (PollRuns' => proc'["poll"].next < Flexi!Latest(o)'))
        <5>1. CASE "hookLost" \notin FlexiFaults
          BY <4>2, <5>1 DEF Noted
        <5>2. CASE "hookLost" \in FlexiFaults
          BY <3>p, <4>1, <4>2, <5>2 DEF FlexiInv, PollRuns
        <5> QED BY <5>1, <5>2
      <4>4. ASSUME NEW x \in Objects, x # o
            PROVE  (Due(x)' => Due(x)) /\ (Noted(x) => Noted(x)') /\ (Lists("poll", x) => Lists("poll", x)')
        <5>1. Due(x)' => Due(x)
          BY <4>1, <4>2, <4>4 DEF Due, Reads, Flexi!Stale
        <5>2. (\E v \in hooks : changes[v] = x) => \E v \in hooks' : changes'[v] = x
          BY <4>1, <4>2
        <5>3. (Noted(x) => Noted(x)') /\ (Lists("poll", x) => Lists("poll", x)')
          BY <4>1, <5>2 DEF Noted, Lists, Asks
        <5> QED BY <5>1, <5>3
      <4>5. ASSUME NEW x \in Objects, accepting', Due(x)' PROVE Noted(x)' \/ flexiCursor' < Flexi!Latest(x)'
        <5>1. CASE x = o
          BY <4>3, <5>1
        <5>2. CASE x # o
          BY <4>1, <4>2, <4>4, <4>5, <5>2 DEF FlexiInv
        <5> QED BY <5>1, <5>2
      <4>6. ASSUME NEW x \in Objects, Due(x)', PollRuns', Flexi!Latest(x)' <= proc'["poll"].next
            PROVE  Noted(x)' \/ Lists("poll", x)'
        <5>1. CASE x = o
          BY <3>p, <4>1, <4>2, <4>3, <4>6, <5>1
        <5>2. CASE x # o
          BY <4>1, <4>2, <4>4, <4>6, <5>2 DEF FlexiInv, PollRuns
        <5> QED BY <5>1, <5>2
      <4>7. "hookLost" \in FlexiFaults =>
              /\ flexiCursor' <= Flexi!Tip'
              /\ proc'["poll"].at = "collect" => flexiCursor' < Flexi!Tip'
              /\ PollRuns' => proc'["poll"].next <= Flexi!Tip'
        BY <3>p, <4>1, <4>2 DEF FlexiInv, PollRuns
      <4> QED BY <4>1, <4>5, <4>6, <4>7 DEF FlexiInv
    <3>15. ~\E p \in {"hook", "admin"} : Flexi!Crash(p)
      BY DEF Flexi!Crash
    <3>16. ASSUME \/ Flexi!Disable \/ Flexi!Restart \/ Flexi!Abandon
                  \/ Flexi!Baseline \/ Flexi!Fetch \/ Flexi!Store \/ Flexi!Pass \/ Flexi!Refreshed \/ Flexi!NextPass
                  \/ Flexi!Register \/ \E o \in Objects : Flexi!RefreshNext(o)
           PROVE  FlexiInv'
      <4>1. UNCHANGED flexiJob /\ \A q \in Flexi!Procs : q # "admin" => proc'[q] = proc[q]
        BY <3>16, <3>p
        DEF Flexi!Disable, Flexi!Restart, Flexi!Abandon, Flexi!Baseline, Flexi!Fetch, Flexi!Store, Flexi!Pass,
            Flexi!Refreshed, Flexi!NextPass, Flexi!Register, Flexi!RefreshNext, Flexi!Goto
      <4>2. Flexi!Disable \/ (~accepting /\ UNCHANGED accepting)
        BY <3>16
        DEF Flexi!Restart, Flexi!Abandon, Flexi!Baseline, Flexi!Fetch, Flexi!Store, Flexi!Pass,
            Flexi!Refreshed, Flexi!NextPass, Flexi!Register, Flexi!RefreshNext, FlexiTypes
      <4>3. ~accepting' /\ "enable" \in FlexiCalls /\ proc["poll"].at = "idle"
        BY <4>2 DEF Flexi!Disable, FlexiTypes
      <4> QED BY <3>p, <4>1, <4>3, <3>v DEF FlexiInv
    <3>17. CASE UNCHANGED Flexi!vars
      <4>1. UNCHANGED <<changes, hooks, site, flexiCursor, failures, dirty, flexiJob, proc>>
        BY <3>17 DEF Flexi!vars
      <4>2. \A x \in Objects : Lists("poll", x) => Lists("poll", x)'
        BY <4>1 DEF Lists, Asks
      <4> QED BY <4>1, <4>2, <3>m, <3>f DEF FlexiInv, PollRuns
    <3> QED
      BY <3>1, <3>2, <3>3, <3>4, <3>5, <3>6, <3>7, <3>8, <3>9, <3>10, <3>11, <3>12, <3>13, <3>14, <3>15, <3>16, <3>17, <3>p, <3>e
      DEF Flexi!Next, Flexi!Hooks, Flexi!Polls, Flexi!Works, Flexi!Admins, Flexi!Step
  <2>4. FlexiTypes /\ FlexiTypes' /\ BridgeInv /\ [Flexi!Next]_Flexi!vars => BridgeInv'
    <3> SUFFICES ASSUME FlexiTypes, FlexiTypes', BridgeInv, [Flexi!Next]_Flexi!vars PROVE BridgeInv'
      OBVIOUS
    <3> USE DEF Flexi!At
    <3>p. /\ proc \in [Flexi!Procs -> FlexiProc] /\ Flexi!Procs = {"hook", "poll", "worker", "admin"}
          /\ \A p \in Flexi!Procs : proc[p] \in FlexiProc /\ proc[p].obj \in Objects /\ proc[p].saw \in Nat
      BY DEF FlexiTypes, Flexi!Procs, FlexiProc
    <3>n. /\ Flexi!Tip \in Nat /\ flexiCursor \in Nat /\ bridge \in FlexiBridge
          /\ bridge.base \in Nat /\ bridge.from \in Nat \ {0} /\ bridge.next \in Nat
          /\ \A o \in Objects : Flexi!Latest(o) \in Nat /\ Flexi!Latest(o) <= Flexi!Tip
      <4>1. Flexi!Tip \in Nat
        BY DEF FlexiTypes, Flexi!Tip
      <4>2. ASSUME NEW o \in Objects PROVE Flexi!Latest(o) \in Nat /\ Flexi!Latest(o) <= Flexi!Tip
        BY <4>1 DEF FlexiTypes, Versions
      <4> QED BY <4>1, <4>2 DEF FlexiTypes, FlexiBridge
    <3>k. /\ proc["admin"].at # "idle" => Calm /\ ~accepting
          /\ bridge.second => proc["admin"].at \in {"pass", "refresh"}
      BY DEF FlexiTypes, BridgeInv, SecondRound
    (* A read under way is fresh.                                            *)
    <3>r. ASSUME UNCHANGED changes,
                 \A q \in Flexi!Procs : proc'[q].at = "apply" =>
                   proc'[q] = proc[q] \/ proc'[q].saw = Flexi!Latest(proc'[q].obj)
          PROVE  ReadsAreFresh'
      <4>1. ASSUME Calm, NEW q \in Flexi!Procs, proc'[q].at = "apply" PROVE proc'[q].saw = Flexi!Latest(proc'[q].obj)
        BY <3>r, <4>1 DEF BridgeInv, ReadsAreFresh
      <4>2. \A o : Flexi!Latest(o)' = Flexi!Latest(o)
        BY <3>r, <2>u
      <4> QED BY <4>1, <4>2 DEF ReadsAreFresh
    (* A step that does not concern "update and enable".                     *)
    <3>b. ASSUME UNCHANGED <<changes, bridge>>, proc'["admin"] = proc["admin"],
                 \A o \in Objects : Calm /\ Flexi!Stale(o)' => Flexi!Stale(o),
                 accepting \/ UNCHANGED flexiCursor,
                 \A q \in Flexi!Procs : proc'[q].at = "apply" =>
                   proc'[q] = proc[q] \/ proc'[q].saw = Flexi!Latest(proc'[q].obj)
          PROVE  BridgeInv'
      <4>1. ReadsAreFresh'
        BY <3>b, <3>r
      <4>2. FromBaseline'
        BY <3>b, <2>u DEF BridgeInv, FromBaseline
      <4>3. ASSUME proc["admin"].at # "idle" PROVE \A o \in Objects : Flexi!Stale(o)' => Flexi!Stale(o)
        BY <3>b, <3>k, <4>3
      <4>4. \A o \in Objects : (Ahead(o)' <=> Ahead(o)) /\ (Held(o)' <=> Held(o))
        BY <3>b, <2>u DEF Ahead, Held
      <4>5. InPass'
        BY <3>b, <4>3, <4>4, <2>u DEF BridgeInv, InPass, InHand
      <4>6. SecondRound'
        BY <3>b, <3>k, <4>3, <2>u DEF BridgeInv, SecondRound, NothingStale
      <4> QED BY <4>1, <4>2, <4>5, <4>6 DEF BridgeInv
    (* A step inside a refresh that the bridge has called.                   *)
    <3>c. ASSUME UNCHANGED <<changes, bridge>>, proc["admin"].at \in InHand, proc'["admin"].at \in InHand,
                 proc'["admin"].obj = proc["admin"].obj,
                 proc'["admin"].todo \in {proc["admin"].todo, proc["admin"].todo \ {proc["admin"].obj}},
                 \A o \in Objects : Flexi!Stale(o)' => Flexi!Stale(o),
                 \A o \in Objects : Flexi!Stale(o)' /\ Held(o) => Held(o)',
                 ReadsAreFresh'
          PROVE  BridgeInv'
      <4>1. ~bridge.second /\ proc["admin"].obj \in bridge.seen
        BY <3>c, <3>k DEF BridgeInv, InPass, InHand
      <4>2. ASSUME NEW o \in Objects, Ahead(o) PROVE Ahead(o)'
        BY <3>c, <4>1, <4>2, <2>u DEF Ahead
      <4>3. ASSUME NEW o \in Objects, Flexi!Stale(o)' PROVE Ahead(o)' \/ Held(o)'
        <5>1. Ahead(o) \/ Held(o)
          BY <3>c, <4>3 DEF BridgeInv, InPass
        <5> QED BY <3>c, <4>2, <4>3, <5>1
      <4>4. /\ bridge.base < bridge.from /\ bridge.from <= bridge.next
            /\ bridge.next <= Flexi!Tip /\ proc["admin"].obj \in bridge.seen
        BY <3>c DEF BridgeInv, InPass
      <4>5. InPass'
        BY <3>c, <4>3, <4>4, <2>u DEF InPass, InHand
      <4>6. FromBaseline' /\ SecondRound'
        BY <3>c, <4>1 DEF FromBaseline, SecondRound, InHand
      <4> QED BY <3>c, <4>5, <4>6 DEF BridgeInv
    <3>1. ASSUME NEW o \in Objects, Flexi!Change(o) PROVE BridgeInv'
      <4>1. UNCHANGED <<proc, site, bridge, flexiCursor>> /\ (Calm => Flexi!Undisturbed(o))
        BY <3>1 DEF Flexi!Change
      <4>2. /\ Flexi!Tip' = Flexi!Tip + 1 /\ Flexi!Latest(o)' = Flexi!Tip + 1
            /\ \A x : x # o => Flexi!Latest(x)' = Flexi!Latest(x)
        BY <3>1, <2>c
      <4>3. \A x \in Objects : x # o /\ Flexi!Stale(x)' => Flexi!Stale(x)
        BY <4>1, <4>2 DEF Flexi!Stale
      <4>4. ReadsAreFresh'
        <5>1. ASSUME Calm, NEW q \in Flexi!Procs, proc[q].at = "apply" PROVE proc[q].obj # o /\ proc[q].saw = Flexi!Latest(proc[q].obj)
          BY <4>1, <5>1 DEF Flexi!Undisturbed, Flexi!PastGet, BridgeInv, ReadsAreFresh
        <5>2. ASSUME Calm, NEW q \in Flexi!Procs, proc[q].at = "apply" PROVE Flexi!Latest(proc[q].obj)' = Flexi!Latest(proc[q].obj)
          BY <4>1, <4>2, <5>1, <5>2
        <5> QED BY <4>1, <5>1, <5>2 DEF ReadsAreFresh
      <4>5. FromBaseline'
        BY <3>n, <3>p, <4>1, <4>2 DEF BridgeInv, FromBaseline
      <4>6. ASSUME proc["admin"].at # "idle"
            PROVE  /\ o \notin bridge.seen /\ ~bridge.second /\ proc["admin"].at # "register"
                   /\ proc["admin"].at = "refresh" => bridge.next <= Flexi!Tip
        BY <3>k, <4>1, <4>6 DEF Flexi!Undisturbed
      <4>7. SecondRound'
        BY <3>k, <4>1, <4>6 DEF SecondRound
      <4>8. InPass'
        <5>1. CASE proc["admin"].at = "pass"
          <6>1. bridge.from <= Flexi!Tip + 1 /\ bridge.base < bridge.from
            BY <4>6, <5>1 DEF BridgeInv, InPass
          <6>2. ASSUME NEW x \in Objects, Flexi!Stale(x)' PROVE x \notin bridge.seen /\ bridge.from <= Flexi!Latest(x)'
            <7>1. CASE x = o
              BY <4>2, <4>6, <5>1, <6>1, <7>1
            <7>2. CASE x # o
              BY <4>2, <4>3, <5>1, <6>2, <7>2 DEF BridgeInv, InPass
            <7> QED BY <7>1, <7>2
          <6>3. bridge.from <= Flexi!Tip' + 1
            BY <3>n, <4>2, <6>1
          <6> QED BY <4>1, <5>1, <6>1, <6>2, <6>3 DEF InPass, InHand
        <5>2. CASE proc["admin"].at \in {"refresh"} \cup InHand
          <6>1. /\ bridge.base < bridge.from /\ bridge.from <= bridge.next /\ bridge.next <= Flexi!Tip
                /\ proc["admin"].at \in InHand => proc["admin"].obj \in bridge.seen
                /\ proc["admin"].at # "idle"
            BY <4>6, <5>2 DEF BridgeInv, InPass, InHand
          <6>2. ASSUME NEW x \in Objects, Flexi!Stale(x)' PROVE Ahead(x)' \/ Held(x)'
            <7>1. CASE x = o
              BY <3>n, <4>1, <4>2, <4>6, <6>1, <7>1 DEF Ahead
            <7>2. CASE x # o
              <8>1. Ahead(x) \/ Held(x)
                BY <4>3, <5>2, <6>2, <7>2 DEF BridgeInv, InPass
              <8> QED BY <4>1, <4>2, <7>2, <8>1 DEF Ahead, Held
            <7> QED BY <7>1, <7>2
          <6>3. bridge.next <= Flexi!Tip'
            BY <3>n, <4>2, <6>1
          <6> QED BY <4>1, <5>2, <6>1, <6>2, <6>3 DEF InPass, InHand
        <5>3. CASE proc["admin"].at \notin {"pass", "refresh"} \cup InHand
          BY <4>1, <5>3 DEF InPass, InHand
        <5> QED BY <5>1, <5>2, <5>3
      <4> QED BY <4>4, <4>5, <4>7, <4>8 DEF BridgeInv
    <3>2. ASSUME \/ \E v \in hooks : Flexi!LoseHook(v) \/ Flexi!Deliver(v)
                 \/ Flexi!StartPoll \/ Flexi!Collect \/ Flexi!Filter \/ Flexi!Advance
                 \/ Flexi!Finish \/ (\E o \in Objects : Flexi!Take(o)) \/ (\E p \in Flexi!Procs : Flexi!Crash(p))
                 \/ UNCHANGED Flexi!vars
          PROVE  BridgeInv'
      <4>1. UNCHANGED <<changes, bridge, site>>
        BY <3>2
        DEF Flexi!LoseHook, Flexi!Deliver, Flexi!StartPoll, Flexi!Collect, Flexi!Filter, Flexi!Advance, Flexi!Finish,
            Flexi!Take, Flexi!Crash, Flexi!vars, Flexi!erp
      <4>2. accepting \/ UNCHANGED flexiCursor
        BY <3>2
        DEF Flexi!LoseHook, Flexi!Deliver, Flexi!StartPoll, Flexi!Collect, Flexi!Filter, Flexi!Advance, Flexi!Finish,
            Flexi!Take, Flexi!Crash, Flexi!vars, FlexiTypes
      <4>3. \A o \in Objects : Flexi!Stale(o)' => Flexi!Stale(o)
        BY <4>1, <2>u DEF Flexi!Stale
      (* Each of them moves one process, to a step that is not the writing.    *)
      <4>m. ASSUME NEW p \in Flexi!Procs, NEW x, x.at # "apply", p # "admin", proc' = [proc EXCEPT ![p] = x] PROVE BridgeInv'
        <5>1. proc'[p] = x /\ \A q \in Flexi!Procs : q # p => proc'[q] = proc[q]
          BY <3>p, <4>m
        <5> QED BY <3>p, <4>1, <4>2, <4>3, <4>m, <5>1, <3>b
      <4>4. CASE UNCHANGED proc
        BY <4>1, <4>2, <4>3, <4>4, <3>b
      <4>5. ASSUME NEW v \in hooks, Flexi!LoseHook(v) \/ Flexi!Deliver(v) PROVE BridgeInv'
        <5>1. [Flexi!Idle EXCEPT !.at = "look", !.todo = {changes[v]}].at = "look"
          BY <2>i DEF FlexiProc
        <5> QED BY <3>p, <4>4, <4>5, <4>m, <5>1 DEF Flexi!LoseHook, Flexi!Deliver
      <4>6. CASE Flexi!StartPoll
        <5>1. [Flexi!Idle EXCEPT !.at = "collect", !.saw = flexiCursor].at = "collect"
          BY <2>i DEF FlexiProc
        <5> QED BY <3>p, <4>6, <4>m, <5>1 DEF Flexi!StartPoll
      <4>7. CASE Flexi!Collect
        <5> DEFINE x == [proc["poll"] EXCEPT !.at = "filter", !.todo = Flexi!Since(proc["poll"].saw + 1),
                                             !.next = Flexi!NextVersion(proc["poll"].saw + 1)]
        <5>1. x.at = "filter"
          BY <3>p DEF FlexiProc
        <5>2. proc' = [proc EXCEPT !["poll"] = x] \/ proc' = [proc EXCEPT !["poll"] = Flexi!Idle]
          BY <4>7 DEF Flexi!Collect
        <5> HIDE DEF x
        <5> QED BY <2>i, <3>p, <4>m, <5>1, <5>2
      <4>8. CASE Flexi!Filter
        <5> DEFINE list == IF accepting THEN proc["poll"].todo ELSE {}
                   x == [proc["poll"] EXCEPT !.todo = list, !.at = Flexi!AfterEnqueue("poll", list)]
        <5>1. x.at # "apply"
          BY <3>p, <2>a DEF FlexiProc
        <5>2. proc' = [proc EXCEPT !["poll"] = x]
          BY <4>8 DEF Flexi!Filter
        <5> HIDE DEF x
        <5> QED BY <3>p, <4>m, <5>1, <5>2
      <4>9. CASE Flexi!Advance
        BY <2>i, <3>p, <4>9, <4>m DEF Flexi!Advance
      <4>10. CASE Flexi!Finish
        BY <2>i, <3>p, <4>10, <4>m DEF Flexi!Finish
      <4>11. ASSUME NEW o \in Objects, Flexi!Take(o) PROVE BridgeInv'
        <5>1. [Flexi!Idle EXCEPT !.at = "get", !.obj = o].at = "get"
          BY <2>i DEF FlexiProc
        <5> QED BY <3>p, <4>11, <4>m, <5>1 DEF Flexi!Take
      <4>12. ASSUME NEW p \in Flexi!Procs, Flexi!Crash(p) PROVE BridgeInv'
        BY <2>i, <4>12, <4>m DEF Flexi!Crash
      <4>13. CASE UNCHANGED Flexi!vars
        BY <4>4, <4>13 DEF Flexi!vars
      <4> QED BY <3>2, <4>5, <4>6, <4>7, <4>8, <4>9, <4>10, <4>11, <4>12, <4>13
    <3>3. ASSUME NEW p \in Flexi!Procs, Flexi!Step(p) PROVE BridgeInv'
      <4>1. PICK o \in Objects : o = proc[p].obj
        BY <3>p
      <4>2. UNCHANGED <<changes, bridge, flexiCursor>> /\ \A q \in Flexi!Procs : q # p => proc'[q] = proc[q]
        BY <3>3, <3>p
        DEF Flexi!Step, Flexi!LookUp, Flexi!Enqueue, Flexi!Get, Flexi!Apply, Flexi!CheckDirty, Flexi!Undirty, Flexi!erp, Flexi!Goto
      <4>3. \A x \in Objects : Calm /\ Flexi!Stale(x)' => Flexi!Stale(x)
        <5>1. CASE Flexi!Apply(p)
          <6>1. proc[p].at = "apply" /\ site' = [site EXCEPT ![o] = proc[p].saw]
            BY <4>1, <5>1 DEF Flexi!Apply
          <6>2. Calm => proc[p].saw = Flexi!Latest(o)
            BY <4>1, <6>1 DEF BridgeInv, ReadsAreFresh
          <6>3. site'[o] = proc[p].saw /\ \A x \in Objects : x # o => site'[x] = site[x]
            BY <6>1 DEF FlexiTypes
          <6> QED BY <4>2, <6>2, <6>3, <2>u DEF Flexi!Stale
        <5>2. CASE ~Flexi!Apply(p)
          <6>1. UNCHANGED site
            BY <3>3, <5>2 DEF Flexi!Step, Flexi!LookUp, Flexi!Enqueue, Flexi!Get, Flexi!CheckDirty, Flexi!Undirty
          <6> QED BY <4>2, <6>1, <2>u DEF Flexi!Stale
        <5> QED BY <5>1, <5>2
      (* What each step does with its process.                                 *)
      <4>4. /\ proc[p].at \in {"look", "add", "get", "apply", "checkDirty", "undirty"}
            /\ p = "admin" => proc'[p].at \in InHand /\ proc'[p].obj = o
            /\ proc'[p].todo \in {proc[p].todo, proc[p].todo \ {o}}
            /\ proc'[p].at = "apply" => proc'[p].saw = Flexi!Latest(proc'[p].obj)
            /\ proc[p].at \in {"get", "apply"} \/ ~proc[p].ok =>
                 proc'[p].at \in {"get", "apply"} \/ ~proc'[p].ok \/ Flexi!Apply(p)
        <5>1. ASSUME NEW x \in Objects, Flexi!LookUp(p, x)
              PROVE  /\ proc[p].at = "look" /\ proc'[p].at = "add" /\ (p = "admin" => x = o)
                     /\ proc'[p].obj = x /\ proc'[p].todo = proc[p].todo /\ proc'[p].ok = proc[p].ok
          BY <3>p, <4>1, <5>1 DEF Flexi!LookUp, Flexi!Refreshers, FlexiProc
        <5>2. CASE Flexi!Enqueue(p)
          <6>1. /\ proc[p].at = "add" /\ proc'[p].at = Flexi!AfterEnqueue(p, proc[p].todo \ {o})
                /\ proc'[p].obj = o /\ proc'[p].todo = proc[p].todo \ {o} /\ proc'[p].ok = proc[p].ok
            BY <3>p, <4>1, <5>2 DEF Flexi!Enqueue, FlexiProc
          <6>2. proc'[p].at # "apply" /\ (p = "admin" => proc'[p].at = "finish")
            BY <3>p, <6>1, <2>a
          <6> QED BY <6>1, <6>2 DEF InHand
        <5>3. CASE Flexi!Get(p)
          <6>1. /\ proc[p].at = "get" /\ proc'[p].obj = o /\ proc'[p].todo = proc[p].todo
                /\ \/ proc'[p].at = "apply" /\ proc'[p].saw = Flexi!Latest(o)
                   \/ proc'[p].at = "checkDirty" /\ proc'[p].ok = FALSE
            BY <3>p, <4>1, <5>3 DEF Flexi!Get, FlexiProc
          <6> QED BY <6>1 DEF InHand
        <5>4. CASE Flexi!Apply(p)
          <6>1. proc[p].at = "apply" /\ proc'[p].at = "checkDirty" /\ proc'[p].obj = o /\ proc'[p].todo = proc[p].todo
            BY <3>p, <4>1, <5>4 DEF Flexi!Apply, Flexi!Goto, FlexiProc
          <6> QED BY <5>4, <6>1 DEF InHand
        <5>5. CASE Flexi!CheckDirty(p)
          <6>1. /\ proc[p].at = "checkDirty" /\ proc'[p].at \in {"undirty", "finish"} /\ proc'[p].obj = o
                /\ proc'[p].todo = proc[p].todo /\ proc'[p].ok = proc[p].ok
            BY <3>p, <4>1, <5>5 DEF Flexi!CheckDirty, FlexiProc
          <6> QED BY <6>1 DEF InHand
        <5>6. CASE Flexi!Undirty(p)
          <6>1. /\ proc[p].at = "undirty" /\ proc'[p].at = "look" /\ proc'[p].obj = o
                /\ proc'[p].todo = proc[p].todo /\ proc'[p].ok = proc[p].ok
            BY <3>p, <4>1, <5>6 DEF Flexi!Undirty, Flexi!Goto, FlexiProc
          <6> QED BY <6>1 DEF InHand
        <5> QED BY <3>3, <5>1, <5>2, <5>3, <5>4, <5>5, <5>6 DEF Flexi!Step, InHand
      <4>5. \A q \in Flexi!Procs : proc'[q].at = "apply" => proc'[q] = proc[q] \/ proc'[q].saw = Flexi!Latest(proc'[q].obj)
        BY <4>2, <4>4
      <4>6. CASE p # "admin"
        BY <3>p, <4>2, <4>3, <4>5, <4>6, <3>b
      <4>7. CASE p = "admin"
        <5>1. proc["admin"].at \in InHand /\ Calm
          BY <3>k, <4>4, <4>7 DEF InHand
        <5>2. Flexi!Apply(p) => ~Flexi!Stale(o)'
          <6> SUFFICES ASSUME Flexi!Apply(p) PROVE ~Flexi!Stale(o)'
            OBVIOUS
          <6>1. proc[p].at = "apply" /\ site' = [site EXCEPT ![o] = proc[p].saw]
            BY <4>1 DEF Flexi!Apply
          <6>2. proc[p].saw = Flexi!Latest(o) /\ site'[o] = proc[p].saw
            BY <4>1, <5>1, <6>1 DEF BridgeInv, ReadsAreFresh, FlexiTypes
          <6> QED BY <4>2, <6>2, <2>u DEF Flexi!Stale
        <5>3. \A x \in Objects : Flexi!Stale(x)' /\ Held(x) => Held(x)'
          BY <4>1, <4>4, <4>7, <5>2 DEF Held
        <5>4. ReadsAreFresh'
          BY <4>2, <4>5, <3>r
        <5> QED BY <4>1, <4>2, <4>3, <4>4, <4>7, <5>1, <5>3, <5>4, <3>c
      <4> QED BY <4>6, <4>7
    (* Where "update and enable" itself goes on.                             *)
    <3>d. ASSUME UNCHANGED changes, NEW x, x.at # "apply", proc' = [proc EXCEPT !["admin"] = x]
          PROVE  ReadsAreFresh' /\ proc'["admin"] = x
      <4>1. proc'["admin"] = x /\ \A q \in Flexi!Procs : q # "admin" => proc'[q] = proc[q]
        BY <3>d, <3>p
      <4> QED BY <3>p, <3>d, <4>1, <3>r
    <3>g. ASSUME UNCHANGED changes, NEW l \in {"tip", "pass", "register", "fetch"}, Flexi!Goto("admin", l)
          PROVE  /\ ReadsAreFresh' /\ proc'["admin"].at = l
                 /\ proc'["admin"].todo = proc["admin"].todo /\ proc'["admin"].saw = proc["admin"].saw
      <4> DEFINE x == [proc["admin"] EXCEPT !.at = l]
      <4>1. x.at = l /\ x.todo = proc["admin"].todo /\ x.saw = proc["admin"].saw
        BY <3>p DEF FlexiProc
      <4>2. proc' = [proc EXCEPT !["admin"] = x]
        BY <3>g DEF Flexi!Goto
      <4> HIDE DEF x
      <4> QED BY <3>g, <4>1, <4>2, <3>d
    <3>i. ASSUME UNCHANGED changes, proc' = [proc EXCEPT !["admin"] = Flexi!Idle], ~bridge'.second PROVE BridgeInv'
      <4>1. ReadsAreFresh' /\ proc'["admin"].at = "idle"
        BY <2>i, <3>i, <3>d
      <4> QED BY <3>i, <4>1 DEF BridgeInv, FromBaseline, InPass, SecondRound, InHand
    <3>a. /\ Flexi!NoBridge.second = FALSE
          /\ \A base, k : Flexi!NewBridge(base, k) = [base |-> base, from |-> base + 1, next |-> base, seen |-> {}, second |-> k]
      BY DEF Flexi!NoBridge, Flexi!NewBridge
    <3>4. CASE Flexi!Disable \/ Flexi!Restart
      <4>1. UNCHANGED <<changes, bridge>> /\ Flexi!Goto("admin", "tip") /\ ~bridge.second
        BY <3>4, <3>k DEF Flexi!Disable, Flexi!Restart, Flexi!erp
      <4>2. ReadsAreFresh' /\ proc'["admin"].at = "tip"
        BY <4>1, <3>g
      <4> QED BY <4>1, <4>2 DEF BridgeInv, FromBaseline, InPass, SecondRound, InHand
    <3>5. CASE Flexi!Abandon
      BY <3>5, <3>a, <3>i DEF Flexi!Abandon, Flexi!erp
    <3>6. CASE Flexi!Baseline
      <4>1. UNCHANGED changes /\ Flexi!Goto("admin", "fetch") /\ bridge' = Flexi!NewBridge(Flexi!Tip, FALSE)
        BY <3>6 DEF Flexi!Baseline, Flexi!erp
      <4>2. ReadsAreFresh' /\ proc'["admin"].at = "fetch"
        BY <4>1, <3>g
      <4>3. /\ bridge'.seen = {} /\ bridge'.from = bridge'.base + 1 /\ bridge'.base = Flexi!Tip /\ ~bridge'.second
        BY <4>1, <3>a
      <4>4. FromBaseline'
        <5>1. bridge'.base <= Flexi!Tip'
          <6>1. bridge'.base = Flexi!Tip /\ Flexi!Tip' = Flexi!Tip
            BY <4>1, <4>3, <2>u
          <6>2. Flexi!Tip <= Flexi!Tip
            BY <3>n
          <6> QED BY <6>1, <6>2
        <5> QED BY <4>2, <4>3, <5>1 DEF FromBaseline
      <4> QED BY <4>2, <4>3, <4>4 DEF BridgeInv, InPass, SecondRound, InHand
    <3>7. CASE Flexi!Fetch
      <4> DEFINE x == [proc["admin"] EXCEPT !.at = "store", !.saw = Flexi!Tip]
      <4>1. UNCHANGED <<changes, bridge>> /\ proc["admin"].at = "fetch" /\ proc' = [proc EXCEPT !["admin"] = x]
        BY <3>7 DEF Flexi!Fetch, Flexi!erp
      <4>2. x.at = "store" /\ x.saw = Flexi!Tip
        BY <3>p DEF FlexiProc
      <4> HIDE DEF x
      <4>3. ReadsAreFresh' /\ proc'["admin"] = x
        BY <4>1, <4>2, <3>d
      <4>4. FromBaseline'
        BY <3>n, <4>1, <4>2, <4>3, <2>u DEF BridgeInv, FromBaseline
      <4> QED BY <3>k, <4>1, <4>2, <4>3, <4>4 DEF BridgeInv, InPass, SecondRound, InHand
    <3>8. CASE Flexi!Store
      <4>1. /\ UNCHANGED <<changes, bridge>> /\ proc["admin"].at = "store" /\ Flexi!Goto("admin", "pass")
            /\ site' = [o \in Objects |-> Flexi!Max({0} \cup {v \in 1..proc["admin"].saw : changes[v] = o})]
        BY <3>8 DEF Flexi!Store, Flexi!erp
      <4>2. ReadsAreFresh' /\ proc'["admin"].at = "pass"
        BY <4>1, <3>g
      <4>3. /\ bridge.seen = {} /\ bridge.from = bridge.base + 1 /\ bridge.base <= Flexi!Tip
            /\ bridge.base <= proc["admin"].saw /\ proc["admin"].saw <= Flexi!Tip /\ ~bridge.second
        BY <3>k, <4>1 DEF BridgeInv, FromBaseline
      <4>4. ASSUME NEW o \in Objects, Flexi!Latest(o) <= proc["admin"].saw PROVE ~Flexi!Stale(o)'
        <5> DEFINE S == {0} \cup {v \in 1..proc["admin"].saw : changes[v] = o}
        <5>1. S \subseteq Versions(o) /\ S \in SUBSET Nat
          BY <3>n, <3>p, <4>3 DEF Versions
        <5>2. Flexi!Latest(o) \in Versions(o) /\ \A v \in Versions(o) : v <= Flexi!Latest(o)
          BY DEF FlexiTypes
        <5>3. Flexi!Latest(o) \in S
          BY <3>n, <4>4, <5>2 DEF Versions
        <5>4. site'[o] = Flexi!Max(S)
          BY <4>1
        <5> HIDE DEF S
        <5>5. Flexi!Max(S) = Flexi!Latest(o)
          BY <5>1, <5>2, <5>3, <1>v
        <5> QED BY <4>1, <5>4, <5>5, <2>u DEF Flexi!Stale
      <4>5. ASSUME NEW o \in Objects, Flexi!Stale(o)' PROVE o \notin bridge.seen /\ bridge.from <= Flexi!Latest(o)
        BY <3>n, <3>p, <4>3, <4>4, <4>5
      <4>6. InPass'
        BY <3>n, <4>1, <4>2, <4>3, <4>5, <2>u DEF InPass, InHand
      <4> QED BY <4>1, <4>2, <4>3, <4>6 DEF BridgeInv, FromBaseline, SecondRound
    <3>9. CASE Flexi!Pass
      <4> DEFINE list == Flexi!Since(bridge.from) \ bridge.seen
                 x == [proc["admin"] EXCEPT !.at = "refresh", !.todo = list]
      <4>1. /\ UNCHANGED <<changes, site, flexiCursor>> /\ proc["admin"].at = "pass" /\ proc' = [proc EXCEPT !["admin"] = x]
            /\ bridge' = [bridge EXCEPT !.next = Flexi!NextVersion(bridge.from)]
        BY <3>9 DEF Flexi!Pass, Flexi!erp
      <4>2. x.at = "refresh" /\ x.todo = list
        BY <3>p DEF FlexiProc
      <4>3. /\ bridge'.next = Flexi!NextVersion(bridge.from) /\ bridge'.base = bridge.base /\ bridge'.from = bridge.from
            /\ bridge'.seen = bridge.seen /\ bridge'.second = bridge.second
        BY <3>n, <4>1 DEF FlexiBridge
      <4>4. bridge'.next = IF bridge.from >= Flexi!Tip THEN bridge.from ELSE Flexi!Tip
        BY <3>n, <4>3, <1>m DEF Flexi!NextVersion
      <4>5. \A o \in Objects : Flexi!Stale(o) => o \in list
        <5>1. ASSUME NEW o \in Objects, Flexi!Stale(o) PROVE o \in list
          <6>1. o \notin bridge.seen /\ bridge.from <= Flexi!Latest(o)
            BY <4>1, <5>1 DEF BridgeInv, InPass
          <6>2. Flexi!Latest(o) \in Versions(o)
            BY DEF FlexiTypes
          <6>3. Flexi!Latest(o) \in bridge.from..Flexi!Tip /\ changes[Flexi!Latest(o)] = o
            BY <3>n, <6>1, <6>2 DEF Versions
          <6> QED BY <6>1, <6>3 DEF Flexi!Since
        <5> QED BY <5>1
      <4>6. list # {} => bridge.from <= Flexi!Tip
        <5>1. ASSUME NEW o \in list PROVE bridge.from <= Flexi!Tip
          <6>1. PICK w \in bridge.from..Flexi!Tip : o = changes[w]
            BY DEF Flexi!Since
          <6> QED BY <3>n, <6>1
        <5> QED BY <5>1
      <4> HIDE DEF x, list
      <4>7. ReadsAreFresh' /\ proc'["admin"] = x
        BY <4>1, <4>2, <3>d
      <4>8. bridge.base < bridge.from
        BY <4>1 DEF BridgeInv, InPass
      <4>9. \A o \in Objects : Flexi!Stale(o)' => Ahead(o)'
        <5>1. ASSUME NEW o \in Objects, Flexi!Stale(o)' PROVE Ahead(o)'
          <6>1. Flexi!Stale(o)
            BY <4>1, <5>1, <2>u DEF Flexi!Stale
          <6>2. o \notin bridge.seen
            BY <4>1, <6>1 DEF BridgeInv, InPass
          <6> QED BY <4>2, <4>3, <4>5, <4>7, <6>1, <6>2 DEF Ahead
        <5> QED BY <5>1
      <4>10. InPass'
        BY <3>n, <4>1, <4>2, <4>3, <4>4, <4>6, <4>7, <4>8, <4>9, <2>u DEF InPass, InHand
      <4>11. SecondRound'
        <5>1. bridge.second => NothingStale /\ Flexi!Tip <= bridge.base
          BY DEF BridgeInv, SecondRound
        <5>2. bridge.second => list = {}
          BY <3>n, <4>6, <4>8, <5>1
        <5> QED BY <4>1, <4>2, <4>3, <4>7, <5>1, <5>2, <2>u DEF SecondRound, NothingStale, Flexi!Stale
      <4> QED BY <4>2, <4>7, <4>10, <4>11 DEF BridgeInv, FromBaseline
    <3>10. ASSUME NEW o \in Objects, Flexi!RefreshNext(o) PROVE BridgeInv'
      <4> DEFINE x == [proc["admin"] EXCEPT !.at = "get", !.obj = o, !.todo = proc["admin"].todo \ {o}]
      <4>1. /\ UNCHANGED <<changes, site>> /\ proc["admin"].at = "refresh" /\ o \in proc["admin"].todo
            /\ proc' = [proc EXCEPT !["admin"] = x] /\ bridge' = [bridge EXCEPT !.seen = bridge.seen \cup {o}]
        BY <3>10 DEF Flexi!RefreshNext, Flexi!erp
      <4>2. x.at = "get" /\ x.obj = o /\ x.todo = proc["admin"].todo \ {o}
        BY <3>p DEF FlexiProc
      <4>3. /\ bridge'.next = bridge.next /\ bridge'.base = bridge.base /\ bridge'.from = bridge.from
            /\ bridge'.seen = bridge.seen \cup {o} /\ bridge'.second = bridge.second
        BY <3>n, <4>1 DEF FlexiBridge
      <4> HIDE DEF x
      <4>4. ReadsAreFresh' /\ proc'["admin"] = x
        BY <4>1, <4>2, <3>d
      <4>5. /\ ~bridge.second /\ bridge.next <= Flexi!Tip
            /\ bridge.base < bridge.from /\ bridge.from <= bridge.next
        BY <4>1 DEF BridgeInv, InPass, SecondRound
      <4>6. ASSUME NEW y \in Objects, Flexi!Stale(y)' PROVE Ahead(y)' \/ Held(y)'
        <5>1. Ahead(y)
          BY <4>1, <4>6, <2>u DEF BridgeInv, InPass, Held, InHand, Flexi!Stale
        <5>2. CASE y = o
          BY <4>2, <4>4, <5>2 DEF Held, InHand
        <5>3. CASE y # o
          BY <4>1, <4>2, <4>3, <4>4, <5>1, <5>3, <2>u DEF Ahead
        <5> QED BY <5>2, <5>3
      <4>7. InPass'
        BY <4>1, <4>2, <4>3, <4>4, <4>5, <4>6, <2>u DEF InPass, InHand
      <4> QED BY <4>2, <4>3, <4>4, <4>5, <4>7 DEF BridgeInv, FromBaseline, SecondRound
    <3>11. CASE Flexi!Refreshed
      <4>1. UNCHANGED <<changes, site>> /\ proc["admin"].at = "finish"
        BY <3>11 DEF Flexi!Refreshed, Flexi!erp
      <4>2. CASE ~proc["admin"].ok
        BY <3>11, <4>1, <4>2, <3>a, <3>i DEF Flexi!Refreshed
      <4>3. CASE proc["admin"].ok
        <5> DEFINE x == [proc["admin"] EXCEPT !.at = "refresh"]
        <5>1. proc' = [proc EXCEPT !["admin"] = x] /\ UNCHANGED bridge
          BY <3>11, <4>3 DEF Flexi!Refreshed
        <5>2. x.at = "refresh" /\ x.todo = proc["admin"].todo
          BY <3>p DEF FlexiProc
        <5> HIDE DEF x
        <5>3. ReadsAreFresh' /\ proc'["admin"] = x
          BY <4>1, <5>1, <5>2, <3>d
        <5>4. ASSUME NEW y \in Objects, Flexi!Stale(y)' PROVE Ahead(y)'
          <6>1. Ahead(y)
            BY <4>1, <4>3, <5>4, <2>u DEF BridgeInv, InPass, Held, InHand, Flexi!Stale
          <6> QED BY <4>1, <5>1, <5>2, <5>3, <6>1, <2>u DEF Ahead
        <5>5. /\ bridge.next <= Flexi!Tip /\ bridge.base < bridge.from /\ bridge.from <= bridge.next
          BY <4>1 DEF BridgeInv, InPass, InHand
        <5>6. InPass'
          BY <4>1, <5>1, <5>2, <5>3, <5>4, <5>5, <2>u DEF InPass, InHand
        <5> QED BY <3>k, <4>1, <5>1, <5>2, <5>3, <5>6 DEF BridgeInv, FromBaseline, SecondRound
      <4> QED BY <4>2, <4>3
    (* At the end of a pass what is stale has changed after its list was read. *)
    <3>e. ASSUME proc["admin"].at = "refresh", proc["admin"].todo = {}
          PROVE  /\ bridge.base < bridge.from /\ bridge.from <= bridge.next
                 /\ \A o \in Objects : Flexi!Stale(o) => o \notin bridge.seen /\ bridge.next < Flexi!Latest(o)
      BY <3>e DEF BridgeInv, InPass, Ahead, Held, InHand
    <3>12. CASE Flexi!NextPass
      <4>1. /\ UNCHANGED <<changes, site>> /\ proc["admin"].at = "refresh" /\ proc["admin"].todo = {}
            /\ Flexi!Goto("admin", "pass") /\ Flexi!Tip > bridge.next /\ Flexi!Tip >= bridge.base + 1
            /\ bridge' = [bridge EXCEPT !.from = Flexi!Max({bridge.next, bridge.base + 1})]
        BY <3>12 DEF Flexi!NextPass, Flexi!MorePasses, Flexi!erp
      <4>2. ReadsAreFresh' /\ proc'["admin"].at = "pass"
        BY <4>1, <3>g
      <4>3. /\ bridge'.from = Flexi!Max({bridge.next, bridge.base + 1}) /\ bridge'.base = bridge.base
            /\ bridge'.seen = bridge.seen /\ bridge'.second = bridge.second
        BY <3>n, <4>1 DEF FlexiBridge
      <4>4. bridge'.from = bridge.next
        BY <3>n, <3>e, <4>1, <4>3, <1>m
      <4>5. ~bridge.second
        BY <3>n, <4>1 DEF BridgeInv, SecondRound
      <4>6. ASSUME NEW o \in Objects, Flexi!Stale(o)' PROVE o \notin bridge'.seen /\ bridge'.from <= Flexi!Latest(o)'
        <5>1. o \notin bridge.seen /\ bridge.next < Flexi!Latest(o)
          BY <3>e, <4>1, <4>6, <2>u DEF Flexi!Stale
        <5> QED BY <3>n, <4>1, <4>3, <4>4, <5>1, <2>u
      <4>7. InPass'
        <5>1. bridge'.base < bridge'.from
          BY <3>n, <3>e, <4>1, <4>3, <4>4
        <5>2. bridge'.from <= Flexi!Tip' + 1
          BY <3>n, <4>1, <4>4, <2>u
        <5> QED BY <4>2, <4>6, <5>1, <5>2 DEF InPass, InHand
      <4> QED BY <4>2, <4>3, <4>5, <4>7 DEF BridgeInv, FromBaseline, SecondRound
    <3>13. CASE Flexi!EndBridge
      <4>1. /\ UNCHANGED <<changes, site>> /\ proc["admin"].at = "refresh" /\ proc["admin"].todo = {}
            /\ ~(Flexi!Tip > bridge.next /\ Flexi!Tip >= bridge.base + 1)
            /\ flexiCursor' = Flexi!Max({bridge.base, Flexi!Tip, bridge.next})
        BY <3>13 DEF Flexi!EndBridge, Flexi!MorePasses, Flexi!erp
      <4>2. CASE bridge.second
        BY <3>13, <4>1, <4>2, <3>a, <3>i DEF Flexi!EndBridge
      <4>3. CASE ~bridge.second
        <5>1. Flexi!Goto("admin", "register") /\ UNCHANGED bridge
          BY <3>13, <4>3 DEF Flexi!EndBridge
        <5>2. ReadsAreFresh' /\ proc'["admin"].at = "register"
          BY <4>1, <5>1, <3>g
        <5>3. NothingStale
          BY <3>n, <3>e, <4>1 DEF NothingStale
        <5>4. NothingStale'
          BY <4>1, <5>3, <2>u DEF NothingStale, Flexi!Stale
        <5>5. Flexi!Tip <= flexiCursor'
          BY <3>n, <4>1, <1>3
        <5>6. SecondRound'
          BY <4>1, <4>3, <5>1, <5>2, <5>4, <5>5, <2>u DEF SecondRound
        <5> QED BY <5>2, <5>6 DEF BridgeInv, FromBaseline, InPass, InHand
      <4> QED BY <4>2, <4>3
    <3>14. CASE Flexi!Register
      <4>1. /\ UNCHANGED <<changes, site>> /\ proc["admin"].at = "register" /\ Flexi!Goto("admin", "pass")
            /\ bridge' = Flexi!NewBridge(flexiCursor, TRUE)
        BY <3>14 DEF Flexi!Register, Flexi!erp
      <4>2. ReadsAreFresh' /\ proc'["admin"].at = "pass"
        BY <4>1, <3>g
      <4>3. bridge'.second /\ bridge'.base = flexiCursor /\ bridge'.from = flexiCursor + 1
        BY <4>1, <3>a
      <4>4. NothingStale' /\ Flexi!Tip <= flexiCursor
        BY <4>1, <2>u DEF BridgeInv, SecondRound, NothingStale, Flexi!Stale
      <4>5. InPass'
        BY <3>n, <4>2, <4>3, <4>4 DEF InPass, InHand, NothingStale
      <4>6. SecondRound'
        BY <4>1, <4>2, <4>3, <4>4, <2>u DEF SecondRound
      <4> QED BY <4>2, <4>5, <4>6 DEF BridgeInv, FromBaseline
    <3> QED
      BY <3>1, <3>2, <3>3, <3>4, <3>5, <3>6, <3>7, <3>8, <3>9, <3>10, <3>11, <3>12, <3>13, <3>14, <3>p
      DEF Flexi!Next, Flexi!Hooks, Flexi!Polls, Flexi!Works, Flexi!Admins
  <2>5. FlexiTypes /\ FlexiInv => StaleIsRemembered
    <3> SUFFICES ASSUME FlexiTypes, FlexiInv, NEW o \in Objects, Flexi!Stale(o) PROVE Flexi!Remembered(o)
      BY DEF StaleIsRemembered, Flexi!StaleIsRemembered
    <3>1. CASE o \in failures
      BY <3>1 DEF Flexi!Remembered
    <3>2. CASE Reads(o) /\ proc["worker"].saw = Flexi!Latest(o)
      BY <3>2 DEF Flexi!Remembered, Reads, Flexi!Procs
    <3>3. CASE Noted(o) \/ flexiCursor < Flexi!Latest(o)
      BY <3>3 DEF Flexi!Remembered, Noted, Lists, Asks, Flexi!Procs, Flexi!At
    <3>4. CASE ~accepting
      BY <3>4 DEF Flexi!Remembered
    <3> QED BY <3>1, <3>2, <3>3, <3>4 DEF FlexiInv, Due
  <2> QED
    BY <2>1, <2>2, <2>3, <2>4, <2>5, PTL DEF Flexi!Spec
<1> QED
  BY <1>0, <1>n

=============================================================================
