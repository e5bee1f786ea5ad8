------------------------------- MODULE Carts -------------------------------
(***************************************************************************)
(* Shopping carts of one customer, as a guest and signed in: an open cart  *)
(* is one attempt to buy, an order made from it closes it.  Requests read  *)
(* the cart's id, then write to that id; a transaction is one step.        *)
(* Database: one open cart an owner, one order a cart; deleting a cart     *)
(* takes its lines with it and leaves its order without a cart.            *)
(* Not here: the source of a cart, quantities, the retention of drafts.    *)
(***************************************************************************)
EXTENDS Naturals, FiniteSetsExt

CONSTANTS CartIds,    \* carts there may ever be
          Orders,     \* checkouts, each of them at most one order
          Lines,      \* what may lie in a cart
          Syncs,      \* bound: requests that store a cart
          Strategies, \* subset of {"keep_guest", "keep_user", "merge", "clear"}
          Faults      \* subset of {"closeFails"}

Owners  == {"guest", "user"}
NoCart  == "no cart"
Ids     == CartIds \cup {NoCart}

VARIABLES
  cart,      \* [CartIds -> [at, owner, lines]]
  checkout,  \* [Orders -> [at, owner, cart]]
  origin,    \* [Orders -> Order.cartId]
  sync,      \* the request that stores a cart
  merge,     \* the merge at sign-in
  syncs

vars == <<cart, checkout, origin, sync, merge, syncs>>

NoRequest == [at |-> "idle", owner |-> "guest", cart |-> NoCart, lines |-> {}]
NoMerge   == [at |-> "idle", strategy |-> "clear", guest |-> NoCart, user |-> NoCart, lines |-> {}]

CartRecords == [at : {"none", "open", "closed", "gone"}, owner : Owners, lines : SUBSET Lines]
Checkouts   == [at : {"start", "create", "placed", "closing", "done", "unclosed", "failed"},
                owner : Owners, cart : Ids]

TypeOK ==
  /\ cart \in [CartIds -> CartRecords]
  /\ checkout \in [Orders -> Checkouts]
  /\ origin \in [Orders -> Ids]
  /\ sync \in [at : {"idle", "write"}, owner : Owners, cart : Ids, lines : SUBSET Lines]
  /\ merge \in [at : {"idle", "write", "dispose", "done"}, strategy : {"keep_guest", "keep_user", "merge", "clear"},
                guest : Ids, user : Ids, lines : SUBSET Lines]
  /\ syncs \in 0..Syncs

Init ==
  /\ cart = [c \in CartIds |-> [at |-> "none", owner |-> "guest", lines |-> {}]]
  /\ checkout = [o \in Orders |-> [at |-> "start", owner |-> "guest", cart |-> NoCart]]
  /\ origin = [o \in Orders |-> NoCart]
  /\ sync = NoRequest
  /\ merge = NoMerge
  /\ syncs = 0

OpenCarts(p)   == {c \in CartIds : cart[c].at = "open" /\ cart[c].owner = p}
OpenCart(p)    == IF OpenCarts(p) = {} THEN NoCart ELSE CHOOSE c \in OpenCarts(p) : TRUE
LinesOf(c)     == IF c = NoCart THEN {} ELSE cart[c].lines
Exists(c)      == c # NoCart /\ cart[c].at \in {"open", "closed"}
Unused         == {c \in CartIds : cart[c].at = "none"}
NewCart        == CHOOSE c \in Unused : TRUE
Linked(c)      == \E o \in Orders : origin[o] = c
Unlink(c)      == [o \in Orders |-> IF origin[o] = c THEN NoCart ELSE origin[o]]
Gone(c)        == [cart[c] EXCEPT !.at = "gone", !.lines = {}]

-----------------------------------------------------------------------------
(* syncCart stores what the storefront shows; ensureCart makes a cart if   *)
(* the owner has none open.                                                *)
StartSync(p, ls) ==
  /\ sync.at = "idle" /\ syncs < Syncs
  /\ p = "guest" => merge.at = "idle"
  /\ syncs' = syncs + 1
  /\ LET c == OpenCart(p) IN
     \/ /\ c # NoCart
        /\ sync' = [at |-> "write", owner |-> p, cart |-> c, lines |-> ls]
        /\ UNCHANGED cart
     \/ /\ c = NoCart /\ ls # {} /\ Unused # {}
        /\ cart' = [cart EXCEPT ![NewCart] = [at |-> "open", owner |-> p, lines |-> {}]]
        /\ sync' = [at |-> "write", owner |-> p, cart |-> NewCart, lines |-> ls]
  /\ UNCHANGED <<checkout, origin, merge>>

(* The lines go to the cart that was found, open or not; one deleted       *)
(* meanwhile makes the request fail.                                       *)
WriteSync ==
  /\ sync.at = "write"
  /\ cart' = IF Exists(sync.cart) THEN [cart EXCEPT ![sync.cart].lines = sync.lines] ELSE cart
  /\ sync' = NoRequest
  /\ UNCHANGED <<checkout, origin, merge, syncs>>

-----------------------------------------------------------------------------
(* A checkout notes its open cart, makes the order, which names the cart,  *)
(* and after the awaited export closes the cart the order names.           *)
StartCheckout(o, p) ==
  /\ checkout[o].at = "start"
  /\ p = "guest" => merge.at = "idle"
  /\ LinesOf(OpenCart(p)) # {}
  /\ checkout' = [checkout EXCEPT ![o] = [at |-> "create", owner |-> p, cart |-> OpenCart(p)]]
  /\ UNCHANGED <<cart, origin, sync, merge, syncs>>

(* A cart that has an order already, or is deleted, fails the transaction. *)
CreateOrder(o) ==
  LET c == checkout[o].cart IN
  /\ checkout[o].at = "create"
  /\ IF Exists(c) /\ ~Linked(c)
     THEN /\ origin' = [origin EXCEPT ![o] = c]
          /\ checkout' = [checkout EXCEPT ![o].at = "placed"]
     ELSE /\ checkout' = [checkout EXCEPT ![o].at = "failed"]
          /\ UNCHANGED origin
  /\ UNCHANGED <<cart, sync, merge, syncs>>

(* Faulty variant of CartToClose: the owner's current cart.                *)
OwnersCart(o) == OpenCart(checkout[o].owner)

(* "Authority: Order.cartId only - never resolve Cart by owner".           *)
CartToClose(o) == origin[o]

FindCartToClose(o) ==
  /\ checkout[o].at = "placed"
  /\ checkout' = [checkout EXCEPT ![o] = [@ EXCEPT !.cart = CartToClose(o),
                    !.at = IF CartToClose(o) = NoCart THEN "done" ELSE "closing"]]
  /\ UNCHANGED <<cart, origin, sync, merge, syncs>>

(* Best effort: a failing close leaves the order as it is.                 *)
CloseCart(o) ==
  LET c == checkout[o].cart IN
  /\ checkout[o].at = "closing"
  /\ \/ /\ cart' = IF Exists(c) THEN [cart EXCEPT ![c] = [@ EXCEPT !.at = "closed", !.lines = {}]] ELSE cart
        /\ checkout' = [checkout EXCEPT ![o].at = "done"]
     \/ /\ "closeFails" \in Faults
        /\ checkout' = [checkout EXCEPT ![o].at = "unclosed"]
        /\ UNCHANGED cart
  /\ UNCHANGED <<origin, sync, merge, syncs>>

(* The same request again, with its idempotency key: the order is found    *)
(* and its cart closed once more.                                          *)
Replay(o) ==
  /\ checkout[o].at \in {"done", "unclosed"}
  /\ checkout' = [checkout EXCEPT ![o].at = "placed"]
  /\ UNCHANGED <<cart, origin, sync, merge, syncs>>

-----------------------------------------------------------------------------
(* applyMerge, once, at sign-in: both carts are read first.                *)
MergedLines(s) ==
  CASE s = "merge"      -> LinesOf(OpenCart("guest")) \cup LinesOf(OpenCart("user"))
    [] s = "keep_guest" -> LinesOf(OpenCart("guest"))
    [] s = "keep_user"  -> LinesOf(OpenCart("user"))
    [] s = "clear"      -> {}

StartMerge(s) ==
  /\ merge.at = "idle"
  /\ merge' = [at |-> "write", strategy |-> s, guest |-> OpenCart("guest"), user |-> OpenCart("user"),
               lines |-> MergedLines(s)]
  /\ UNCHANGED <<cart, checkout, origin, sync, syncs>>

(* keep_guest: the user's cart goes, the guest's changes hands; refused if *)
(* the user has another open cart by now, or one of the two is deleted.    *)
Reassign ==
  LET g == merge.guest  u == merge.user IN
  /\ merge.at = "write" /\ merge.strategy = "keep_guest" /\ g # NoCart
  /\ IF /\ Exists(g) /\ (u # NoCart => Exists(u))
        /\ (cart[g].at = "open" => OpenCarts("user") \subseteq {u})
     THEN LET kept == [cart EXCEPT ![g].owner = "user"] IN
          /\ cart' = IF u = NoCart THEN kept ELSE [kept EXCEPT ![u] = Gone(u)]
          /\ origin' = IF u = NoCart THEN origin ELSE Unlink(u)
     ELSE UNCHANGED <<cart, origin>>
  /\ merge' = [NoMerge EXCEPT !.at = "done"]
  /\ UNCHANGED <<checkout, sync, syncs>>

(* Any other strategy stores the lines in the user's cart, then deletes    *)
(* the guest cart that was read.                                           *)
StoreMerged ==
  LET u == OpenCart("user") IN
  /\ merge.at = "write" /\ (merge.strategy = "keep_guest" => merge.guest = NoCart)
  /\ \/ /\ u # NoCart /\ cart' = [cart EXCEPT ![u].lines = merge.lines]
     \/ /\ u = NoCart /\ merge.lines = {} /\ UNCHANGED cart
     \/ /\ u = NoCart /\ merge.lines # {} /\ Unused # {}
        /\ cart' = [cart EXCEPT ![NewCart] = [at |-> "open", owner |-> "user", lines |-> merge.lines]]
  /\ merge' = IF merge.guest = NoCart THEN [NoMerge EXCEPT !.at = "done"] ELSE [merge EXCEPT !.at = "dispose"]
  /\ UNCHANGED <<checkout, origin, sync, syncs>>

Dispose ==
  LET g == merge.guest IN
  /\ merge.at = "dispose"
  /\ cart' = IF Exists(g) THEN [cart EXCEPT ![g] = Gone(g)] ELSE cart
  /\ origin' = Unlink(g)
  /\ merge' = [NoMerge EXCEPT !.at = "done"]
  /\ UNCHANGED <<checkout, sync, syncs>>

-----------------------------------------------------------------------------
Proceeds(o) == CreateOrder(o) \/ FindCartToClose(o) \/ CloseCart(o)
Merges      == Reassign \/ StoreMerged \/ Dispose

Next ==
  \/ \E p \in Owners, ls \in SUBSET Lines : StartSync(p, ls)
  \/ WriteSync
  \/ \E o \in Orders : (\E p \in Owners : StartCheckout(o, p)) \/ Proceeds(o) \/ Replay(o)
  \/ (\E s \in Strategies : StartMerge(s)) \/ Merges

Spec == Init /\ [][Next]_vars
FairSpec == Spec /\ \A o \in Orders : WF_vars(Proceeds(o))

-----------------------------------------------------------------------------
(* A cart is closed only for the order made from it: replays of an old     *)
(* order and carts that change hands at sign-in never close the cart the   *)
(* customer is filling now.                                                *)
ClosedForItsOrder ==
  \A c \in CartIds : cart[c].at = "closed" => Linked(c)

(* The cart an order came from ends, so the next checkout has a cart of    *)
(* its own, even if a sign-in hands the cart over in between; only a close *)
(* that failed leaves it open.                                             *)
OrderedCartEnds ==
  \A c \in CartIds :
    (cart[c].at = "open" /\ Linked(c))
      ~> (cart[c].at # "open" \/ \E o \in Orders : origin[o] = c /\ checkout[o].at = "unclosed")
=============================================================================
