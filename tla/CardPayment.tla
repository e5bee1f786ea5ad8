----------------------------- MODULE CardPayment -----------------------------
(***************************************************************************)
(* One order paid by card through Stripe: the order row, the Checkout      *)
(* Sessions minted for it, the webhook events Stripe sends, and the calls  *)
(* that race on them: webhooks, the storefront's sync after the return     *)
(* from Stripe, cancellation by the customer, the 5-minute expiry job and  *)
(* "pay again".  A worker runs one call; each step of a worker is what     *)
(* happens between two awaits (one database transaction or one Stripe      *)
(* request).                                                               *)
(***************************************************************************)
EXTENDS Naturals, FiniteSets

CONSTANTS Workers, Sessions, NoSession, NoEvent,
          Delayed,    \* the sessions that may be paid by a method that settles later
          Calls,      \* the calls this instance makes
          Faults      \* the failures this instance admits

CallKinds  == {"sync", "cancel", "expire", "retry"}
FaultKinds ==
  { "crash",      \* a worker dies between two steps, or its database call throws
    "pspFails",   \* a Stripe request fails; its effect may have happened
    "ackLost" }   \* Stripe does not see the 2xx and sends the event again

ASSUME ConstantsAssumption ==
  /\ NoSession \notin Sessions
  /\ Delayed \subseteq Sessions
  /\ Calls \subseteq CallKinds
  /\ Faults \subseteq FaultKinds

EventTypes == {"completed", "succeeded", "failed", "expired"}
Events     == [type : EventTypes, session : Sessions]
ASSUME NoEventAssumption == NoEvent \notin Events

VARIABLES
  status,    \* Order.status
  pay,       \* Order.paymentStatus
  sid,       \* Order.stripePaymentId
  source,    \* Order.cancellationSource
  overdue,   \* paymentExpiresAt lies more than 10 minutes back
  released,  \* Order.stockReleasedAt is set
  exports,   \* exports to the ERP asked for after payment, counted up to 2
  session,   \* state of each Checkout Session at Stripe
  events,    \* events Stripe has not seen acknowledged
  claimed,   \* StripeWebhookEvent rows
  job        \* what each worker is doing

orderVars == <<status, pay, sid, source, overdue, released, exports>>
vars == <<orderVars, session, events, claimed, job>>

Complete == {"processing", "paid", "refunded", "declined"}  \* session.status = complete
SessionStates == {"unused", "minted", "open", "expired"} \cup Complete
PayStates == {"none", "created", "success", "refunded", "failure", "expired"}

Labels ==
  {"idle", "claim", "handle", "retrieve", "peek", "payState", "cancel", "close", "release",
   "apply", "export", "refund", "refunded", "notRefunded", "fail",
   "expireOld", "mint", "record", "window"}

Jobs == [at : Labels, s : Sessions \cup {NoSession}, ev : Events \cup {NoEvent},
         by : {"USER", "SYSTEM", "CHECKOUT"}]

TypeOK ==
  /\ status \in {"AWAITING_PAYMENT", "PROCESSING", "CANCELLED"}
  /\ pay \in PayStates
  /\ sid \in Sessions \cup {NoSession}
  /\ source \in {"NONE", "USER", "SYSTEM"}
  /\ overdue \in BOOLEAN
  /\ released \in BOOLEAN
  /\ exports \in 0..2
  /\ session \in [Sessions -> SessionStates]
  /\ events \subseteq Events
  /\ claimed \subseteq Events
  /\ job \in [Workers -> Jobs]

Doing(label, s, by) == [at |-> label, s |-> s, ev |-> NoEvent, by |-> by]
Idle == Doing("idle", NoSession, "USER")

(* executeCreate has committed a card order and is about to call           *)
(* createPaymentForOrder for it.                                           *)
Init ==
  /\ status = "AWAITING_PAYMENT"
  /\ pay = "none"
  /\ sid = NoSession
  /\ source = "NONE"
  /\ overdue = FALSE
  /\ released = FALSE
  /\ exports = 0
  /\ session = [s \in Sessions |-> "unused"]
  /\ events = {}
  /\ claimed = {}
  /\ \E w \in Workers :
       job = [v \in Workers |->
                IF v = w THEN Doing("mint", NoSession, "CHECKOUT") ELSE Idle]

At(w, label)   == job[w].at = label
Goto(w, label) == job' = [job EXCEPT ![w].at = label]
GotoWith(w, label, s) == job' = [job EXCEPT ![w].at = label, ![w].s = s]
Start(w, label, s, by) == At(w, "idle") /\ job' = [job EXCEPT ![w] = Doing(label, s, by)]

CheckoutRuns == \E w \in Workers : job[w].by = "CHECKOUT"

Event(type, s) == [type |-> type, session |-> s]

(* The call returns.  A webhook call answers 2xx and Stripe forgets the    *)
(* event, unless the answer is lost.                                       *)
Return(w) ==
  /\ job' = [job EXCEPT ![w] = Idle]
  /\ \/ events' = events \ {job[w].ev}
     \/ "ackLost" \in Faults /\ UNCHANGED events

-----------------------------------------------------------------------------
(* Stripe and its customer. *)

Pay(s) ==
  /\ session[s] = "open"
  /\ session' = [session EXCEPT ![s] = "paid"]
  /\ events' = events \cup {Event("completed", s)}
  /\ UNCHANGED <<orderVars, claimed, job>>

(* A method that settles later: the session is complete but unpaid. *)
PayAsync(s) ==
  /\ s \in Delayed
  /\ session[s] = "open"
  /\ session' = [session EXCEPT ![s] = "processing"]
  /\ events' = events \cup {Event("completed", s)}
  /\ UNCHANGED <<orderVars, claimed, job>>

Settle(s) ==
  /\ session[s] = "processing"
  /\ \/ /\ session' = [session EXCEPT ![s] = "paid"]
        /\ events' = events \cup {Event("succeeded", s)}
     \/ /\ session' = [session EXCEPT ![s] = "declined"]
        /\ events' = events \cup {Event("failed", s)}
  /\ UNCHANGED <<orderVars, claimed, job>>

CloseSession(s) ==
  /\ session' = [session EXCEPT ![s] = "expired"]
  /\ events' = events \cup {Event("expired", s)}

(* expires_at, 30 minutes after the session was created. *)
SessionExpires(s) ==
  /\ session[s] \in {"minted", "open"}
  /\ CloseSession(s)
  /\ UNCHANGED <<orderVars, claimed, job>>

(* The clock of the expiry job is the database's and not Stripe's, and a   *)
(* retry moves paymentExpiresAt only in its last step: an order can be     *)
(* overdue while a session is open.  No checkout request lasts 40 minutes. *)
BecomesOverdue ==
  /\ status = "AWAITING_PAYMENT"
  /\ ~ overdue
  /\ ~ CheckoutRuns
  /\ overdue' = TRUE
  /\ UNCHANGED <<status, pay, sid, source, released, exports, session, events, claimed, job>>

-----------------------------------------------------------------------------
(* handleWebhook: the event id is claimed, then the event is handled. *)
Deliver(w, e) ==
  /\ e \in events
  /\ At(w, "idle")
  /\ job' = [job EXCEPT ![w] = [Idle EXCEPT !.at = "claim", !.ev = e]]
  /\ UNCHANGED <<orderVars, session, events, claimed>>

Claim(w) ==
  /\ At(w, "claim")
  /\ \/ /\ job[w].ev \notin claimed
        /\ claimed' = claimed \cup {job[w].ev}
        /\ GotoWith(w, IF job[w].ev.type \in {"completed", "succeeded"} THEN "apply" ELSE "fail",
                    job[w].ev.session)
        /\ UNCHANGED events
     \/ /\ job[w].ev \in claimed
        /\ UNCHANGED claimed
        /\ Return(w)
  /\ UNCHANGED <<orderVars, session>>

(* markOrderFailed.  NULL is never "not in" a list, so an order without a  *)
(* paymentStatus is not updated.                                           *)
MarkFailed(w) ==
  LET to == IF job[w].ev # NoEvent /\ job[w].ev.type = "failed" THEN "failure" ELSE "expired"
  IN
  /\ At(w, "fail")
  /\ IF pay \notin {"none", "success", to}
     THEN sid' = job[w].s /\ pay' = to
     ELSE UNCHANGED <<sid, pay>>
  /\ Return(w)
  /\ UNCHANGED <<status, source, overdue, released, exports, session, claimed>>

(* Faulty variant of ApplySuccess: "already success" is not a no-op. *)
ApplyAgain(w) ==
  /\ At(w, "apply")
  /\ status # "CANCELLED"
  /\ status' = "PROCESSING"
  /\ pay' = "success"
  /\ sid' = job[w].s
  /\ Goto(w, "export")
  /\ UNCHANGED <<source, overdue, released, exports, session, events, claimed>>

(* Faulty variant of ApplySuccess: a repeated success is refunded. *)
RefundRepeated(w) ==
  /\ At(w, "apply")
  /\ IF status = "CANCELLED" \/ pay = "success"
     THEN Goto(w, "refund") /\ UNCHANGED <<status, pay, sid>>
     ELSE /\ status' = "PROCESSING"
          /\ pay' = "success"
          /\ sid' = job[w].s
          /\ Goto(w, "export")
  /\ UNCHANGED <<source, overdue, released, exports, session, events, claimed>>

(* Faulty variant of ApplySuccess: a late payment is ignored. *)
IgnoreLatePayment(w) ==
  /\ At(w, "apply")
  /\ IF status = "CANCELLED" \/ pay = "success"
     THEN Return(w) /\ UNCHANGED <<status, pay, sid>>
     ELSE /\ status' = "PROCESSING"
          /\ pay' = "success"
          /\ sid' = job[w].s
          /\ Goto(w, "export")
          /\ UNCHANGED events
  /\ UNCHANGED <<source, overdue, released, exports, session, claimed>>

(* applyPaymentSuccess: the transaction under FOR UPDATE. *)
ApplySuccess(w) ==
  /\ At(w, "apply")
  /\ \/ /\ status = "CANCELLED"
        /\ Goto(w, "refund")
        /\ UNCHANGED <<status, pay, sid, events>>
     \/ /\ status # "CANCELLED" /\ pay = "success"
        /\ Return(w)
        /\ UNCHANGED <<status, pay, sid>>
     \/ /\ status # "CANCELLED" /\ pay # "success"
        /\ status' = "PROCESSING"
        /\ pay' = "success"
        /\ sid' = job[w].s
        /\ Goto(w, "export")
        /\ UNCHANGED events
  /\ UNCHANGED <<source, overdue, released, exports, session, claimed>>

(* Faulty variant of Export: nothing is enqueued. *)
SkipExport(w) ==
  /\ At(w, "export")
  /\ Return(w)
  /\ UNCHANGED <<orderVars, session, claimed>>

(* enqueueExportOrderAfterOnlineCardPaid, after the commit. *)
Export(w) ==
  /\ At(w, "export")
  /\ exports' = IF exports < 2 THEN exports + 1 ELSE exports
  /\ Return(w)
  /\ UNCHANGED <<status, pay, sid, source, overdue, released, session, claimed>>

(* handleLatePayRefund: refundSessionPayment, then the outcome is written. *)
(* Stripe refuses to refund a charge twice.                                *)
Refund(w) ==
  /\ At(w, "refund")
  /\ \/ /\ session[job[w].s] = "paid"
        /\ session' = [session EXCEPT ![job[w].s] = "refunded"]
        /\ \/ Goto(w, "refunded")
           \/ "pspFails" \in Faults /\ Goto(w, "notRefunded")
     \/ /\ session[job[w].s] # "paid" \/ "pspFails" \in Faults
        /\ Goto(w, "notRefunded")
        /\ UNCHANGED session
  /\ UNCHANGED <<orderVars, events, claimed>>

(* Faulty variant of WriteRefund: the outcome of the refund is not looked at. *)
AssumeRefunded(w) ==
  /\ job[w].at \in {"refunded", "notRefunded"}
  /\ pay' = "refunded"
  /\ sid' = job[w].s
  /\ Return(w)
  /\ UNCHANGED <<status, source, overdue, released, exports, session, claimed>>

(* Faulty variant of WriteRefund: another column's value is written. *)
WriteLabel(w) ==
  /\ job[w].at \in {"refunded", "notRefunded"}
  /\ pay' = job[w].at
  /\ sid' = job[w].s
  /\ Return(w)
  /\ UNCHANGED <<status, source, overdue, released, exports, session, claimed>>

WriteRefund(w) ==
  /\ job[w].at \in {"refunded", "notRefunded"}
  /\ pay' = IF At(w, "refunded") THEN "refunded" ELSE "success"
  /\ sid' = job[w].s
  /\ Return(w)
  /\ UNCHANGED <<status, source, overdue, released, exports, session, claimed>>

-----------------------------------------------------------------------------
(* syncByOrderNumber: the storefront asks after the return from Stripe. *)
StartSync(w) ==
  /\ "sync" \in Calls
  /\ sid # NoSession
  /\ Start(w, "retrieve", sid, "USER")
  /\ UNCHANGED <<orderVars, session, events, claimed>>

(* Faulty variant of Retrieve: whatever has not expired is taken as paid. *)
RetrieveUnchecked(w) ==
  /\ At(w, "retrieve")
  /\ Goto(w, IF session[job[w].s] = "expired" THEN "fail" ELSE "apply")
  /\ UNCHANGED <<orderVars, session, events, claimed>>

Retrieve(w) ==
  /\ At(w, "retrieve")
  /\ \/ session[job[w].s] \in Complete /\ Goto(w, "apply")
     \/ session[job[w].s] = "expired" /\ Goto(w, "fail")
     \/ /\ session[job[w].s] = "open" \/ "pspFails" \in Faults
        /\ job' = [job EXCEPT ![w] = Idle]
  /\ UNCHANGED <<orderVars, session, events, claimed>>

-----------------------------------------------------------------------------
(* cancelUnpaidOrder, for the customer or an administrator (USER) and for  *)
(* the expiry job (SYSTEM).                                                *)
StartCancel(w) ==
  /\ "cancel" \in Calls
  /\ Start(w, "peek", NoSession, "USER")
  /\ UNCHANGED <<orderVars, session, events, claimed>>

(* Faulty variant of StartExpire: failed and expired payments are left out. *)
ExpireOnlyCreated(w) ==
  /\ "expire" \in Calls
  /\ status = "AWAITING_PAYMENT" /\ pay = "created" /\ overdue
  /\ Start(w, "peek", NoSession, "SYSTEM")
  /\ UNCHANGED <<orderVars, session, events, claimed>>

(* expireUnpaidCardOrders selects its candidates before it cancels them    *)
(* one by one.                                                             *)
StartExpire(w) ==
  /\ "expire" \in Calls
  /\ status = "AWAITING_PAYMENT" /\ pay # "success" /\ overdue
  /\ Start(w, "peek", NoSession, "SYSTEM")
  /\ UNCHANGED <<orderVars, session, events, claimed>>

Peek(w) ==
  /\ At(w, "peek")
  /\ GotoWith(w, IF sid = NoSession THEN "cancel" ELSE "payState", sid)
  /\ UNCHANGED <<orderVars, session, events, claimed>>

(* getCheckoutSessionPayState: an error counts as unpaid. *)
PayState(w) ==
  /\ At(w, "payState")
  /\ \/ session[job[w].s] \in Complete /\ Goto(w, "apply")
     \/ /\ session[job[w].s] \notin Complete \/ "pspFails" \in Faults
        /\ Goto(w, "cancel")
  /\ UNCHANGED <<orderVars, session, events, claimed>>

(* Faulty variant of Cancel: the status is not read again under the lock. *)
CancelUnchecked(w) ==
  /\ At(w, "cancel")
  /\ status' = "CANCELLED"
  /\ source' = job[w].by
  /\ GotoWith(w, "close", sid)
  /\ UNCHANGED <<pay, sid, overdue, released, exports, session, events, claimed>>

(* The transaction under FOR UPDATE.  (AWAITING_PAYMENT with paymentStatus *)
(* success, after which the code applies the success, is not reachable:    *)
(* applyPaymentSuccess writes both columns at once.)                       *)
Cancel(w) ==
  /\ At(w, "cancel")
  /\ \/ /\ status = "AWAITING_PAYMENT" /\ pay # "success"
        /\ status' = "CANCELLED"
        /\ source' = job[w].by
        /\ GotoWith(w, "close", sid)
     \/ /\ status # "AWAITING_PAYMENT" \/ pay = "success"
        /\ job' = [job EXCEPT ![w] = Idle]
        /\ UNCHANGED <<status, source>>
  /\ UNCHANGED <<pay, sid, overdue, released, exports, session, events, claimed>>

(* expireCheckoutSessionIfOpen, best effort, on the way to `next`. *)
ExpireIfOpen(w, next) ==
  /\ Goto(w, next)
  /\ \/ /\ job[w].s # NoSession
        /\ session[job[w].s] = "open"
        /\ CloseSession(job[w].s)
     \/ /\ \/ job[w].s = NoSession
           \/ job[w].s # NoSession /\ session[job[w].s] # "open"
           \/ "pspFails" \in Faults
        /\ UNCHANGED <<session, events>>
  /\ UNCHANGED <<orderVars, claimed>>

(* Faulty variant of Close: the side effects of the cancellation are skipped. *)
CloseOnly(w) == At(w, "close") /\ ExpireIfOpen(w, "idle")

Close(w) == At(w, "close") /\ ExpireIfOpen(w, "release")

(* applyRel003CancelSideEffects, as far as the stock is concerned. *)
Release(w) ==
  /\ At(w, "release")
  /\ released' = TRUE
  /\ job' = [job EXCEPT ![w] = Idle]
  /\ UNCHANGED <<status, pay, sid, source, overdue, exports, session, events, claimed>>

-----------------------------------------------------------------------------
(* retryConfirmationPayment: the customer knows the order number from the  *)
(* answer of the checkout.                                                 *)
StartRetry(w) ==
  /\ "retry" \in Calls
  /\ ~ CheckoutRuns
  /\ status = "AWAITING_PAYMENT"
  /\ pay # "success"
  /\ Start(w, "expireOld", sid, "USER")
  /\ UNCHANGED <<orderVars, session, events, claimed>>

ExpireOld(w) == At(w, "expireOld") /\ ExpireIfOpen(w, "mint")

(* createPayment, at checkout and on a retry: checkout.sessions.create.    *)
(* Bound: an instance has only Sessions to mint, then the call fails.      *)
Mint(w) ==
  /\ At(w, "mint")
  /\ \/ \E s \in Sessions :
          /\ session[s] = "unused"
          /\ session' = [session EXCEPT ![s] = "minted"]
          /\ GotoWith(w, "record", s)
     \/ /\ "pspFails" \in Faults \/ \A s \in Sessions : session[s] # "unused"
        /\ job' = [job EXCEPT ![w] = Idle]
        /\ UNCHANGED session
  /\ UNCHANGED <<orderVars, events, claimed>>

(* createPayment stores the session without looking at the order again.    *)
(* From here the customer can pay it: the answer, or a later resume, hands *)
(* out its client secret.                                                  *)
Record(w) ==
  /\ At(w, "record")
  /\ sid' = job[w].s
  /\ session' = IF session[job[w].s] = "minted"
                THEN [session EXCEPT ![job[w].s] = "open"] ELSE session
  /\ pay' = "created"
  /\ IF job[w].by = "CHECKOUT" THEN job' = [job EXCEPT ![w] = Idle] ELSE Goto(w, "window")
  /\ UNCHANGED <<status, source, overdue, released, exports, events, claimed>>

(* A retry moves paymentExpiresAt. *)
Window(w) ==
  /\ At(w, "window")
  /\ overdue' = FALSE
  /\ job' = [job EXCEPT ![w] = Idle]
  /\ UNCHANGED <<status, pay, sid, source, released, exports, session, events, claimed>>

-----------------------------------------------------------------------------
Crash(w) ==
  /\ "crash" \in Faults
  /\ ~ At(w, "idle")
  /\ job' = [job EXCEPT ![w] = Idle]
  /\ UNCHANGED <<orderVars, session, events, claimed>>

Continue(w) ==
  \/ Claim(w) \/ MarkFailed(w) \/ ApplySuccess(w) \/ Export(w) \/ Refund(w) \/ WriteRefund(w)
  \/ Retrieve(w) \/ Peek(w) \/ PayState(w) \/ Cancel(w) \/ Close(w) \/ Release(w)
  \/ ExpireOld(w) \/ Mint(w) \/ Record(w) \/ Window(w)

Begin(w) ==
  \/ StartSync(w) \/ StartCancel(w) \/ StartExpire(w) \/ StartRetry(w)
  \/ \E e \in events : Deliver(w, e)

Next ==
  \/ \E w \in Workers : Begin(w) \/ Continue(w) \/ Crash(w)
  \/ \E s \in Sessions : Pay(s) \/ PayAsync(s) \/ Settle(s) \/ SessionExpires(s)
  \/ BecomesOverdue

Spec == Init /\ [][Next]_vars

(* A live worker finishes its call; Stripe redelivers until it is          *)
(* acknowledged, and a worker is free again and again (a session has       *)
(* finitely many events, so fairness need not tell them apart); the expiry *)
(* job is a repeatable job; the clock of the deadline runs.                *)
Fairness ==
  /\ \A w \in Workers : WF_vars(Continue(w))
  /\ SF_vars(\E w \in Workers, e \in Events : Deliver(w, e))
  /\ SF_vars(\E w \in Workers : StartExpire(w))
  /\ WF_vars(BecomesOverdue)

FairSpec == Spec /\ Fairness

-----------------------------------------------------------------------------
(* What a session stands for in money; one completed with a method whose   *)
(* settlement is awaited, or has failed, is a promise.                     *)
MoneyOf(state) ==
  CASE state \in {"processing", "declined"} -> "promised"
    [] state = "paid"                       -> "taken"
    [] state = "refunded"                   -> "returned"
    [] OTHER                                -> "none"

Promise == INSTANCE PaymentPromise WITH
  Charges <- Sessions, outcome <- status, money <- [s \in Sessions |-> MoneyOf(session[s])]

(* The code implements PaymentPromise: a payment and a cancellation that   *)
(* race leave one winner, whatever arrives later, the winner had its money *)
(* or its promise when it won, and what goes back had been taken           *)
(* (applyPaymentSuccess and cancelUnpaidOrder serialize on the row lock,   *)
(* handleLatePayRefund).                                                   *)
KeepsPromise == Promise!Spec

(* Money goes back only for an order that will not be fulfilled, and stock *)
(* only from such an order.                                                *)
RefundMeansCancelled ==
  (released \/ \E s \in Sessions : session[s] = "refunded") => status = "CANCELLED"

(* The row says "refunded" only if the session it points to was refunded,  *)
(* with late events of other sessions and retries in between.              *)
RefundRecordIsTrue ==
  pay = "refunded" => sid # NoSession /\ session[sid] = "refunded"

(* Paid, or completed with a method whose settlement is awaited or failed. *)
Secured(s) == session[s] = "paid" \/ (s \in Delayed /\ session[s] \in {"processing", "declined"})

(* Goods leave only against money: a PROCESSING order has a paid session,  *)
(* or one completed with a delayed method, which the code takes for a paid *)
(* one (applyPaymentSuccess: "Dispatch SLA starts once payment is          *)
(* received").                                                             *)
FulfilledMeansPaid ==
  status = "PROCESSING" => \E s \in Sessions : Secured(s)

Quiescent == events = {} /\ \A w \in Workers : At(w, "idle")

(* When everything has been handled, the customer has paid at most once: a *)
(* duplicate charge has been given back (refundSessionPayment: "Late-pay / *)
(* duplicate charge refund").                                              *)
ChargedOnce ==
  Quiescent => Cardinality({s \in Sessions : session[s] = "paid"}) <= 1

(* One payment asks for one ERP export, however often its events are sent  *)
(* and whoever notices the payment first.                                  *)
ExportedOnce == exports <= 1

(* Every charge ends in fulfilment or in a refund. *)
ChargesSettle ==
  \A s \in Sessions :
    session[s] = "paid" ~> (session[s] = "refunded" \/ status = "PROCESSING")

(* Reserved stock does not stay with a cancelled order. *)
CancelReleasesStock == status = "CANCELLED" ~> released

(* A paid order reaches the ERP export. *)
PaidIsExported == status = "PROCESSING" ~> exports > 0

(* An order does not wait for its payment forever. *)
AwaitingEnds == <>(status # "AWAITING_PAYMENT")
=============================================================================
