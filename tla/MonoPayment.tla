---------------------------- MODULE MonoPayment ----------------------------
(***************************************************************************)
(* Monobank invoices of one card order: webhooks, which the bank repeats   *)
(* and reorders, and the customer's return to the success page, which asks *)
(* the bank; both read the order, then write it.  Beside them the retry    *)
(* that replaces the invoice and the cancellation of the unpaid order.     *)
(* Not here: signatures, amounts, what a fulfilled order sets off.         *)
(***************************************************************************)
EXTENDS Naturals, FiniteSetsExt

CONSTANTS Invoices,   \* invoices the bank may be asked for
          Workers,    \* requests that run at a time: webhooks and syncs
          MaxDate,    \* bound: status changes at the bank
          Calls,      \* subset of {"sync", "cancel", "retry"}
          Faults      \* subset of {"again", "removeFails", "refundFails", "crash"}

NoInvoice == "no invoice"

VARIABLES
  order,     \* [status, pay, invoice, modified] of the row
  bank,      \* [Invoices -> [state, date]]; "none" before createInvoiceForOrder
  clock,     \* date of the bank's last status change
  webhooks,  \* notifications on their way
  proc,      \* [Workers -> what the request read and is about to do]
  admin,     \* the retry or cancellation under way
  reversed,  \* invoices the shop asked the bank to pay back
  crashed

vars == <<order, bank, clock, webhooks, proc, admin, reversed, crashed>>

Open    == {"created", "processing", "failure"}
Charged == {"success"}
States  == Open \cup Charged \cup {"none", "expired", "reversed"}
Some    == CHOOSE i \in Invoices : TRUE

Message(i) == [invoice |-> i, status |-> bank[i].state, date |-> bank[i].date]
NoMessage  == [invoice |-> Some, status |-> "none", date |-> 0]
Idle       == [at |-> "idle", msg |-> NoMessage, saw |-> 0, id |-> NoInvoice, ok |-> FALSE]

OrderRows  == [status : {"AWAITING_PAYMENT", "PROCESSING", "CANCELLED"}, pay : States \cup {"refunded"},
               invoice : Invoices \cup {NoInvoice}, modified : 0..MaxDate]
BankStates == [state : States, date : 0..MaxDate]
Messages   == [invoice : Invoices, status : States, date : 0..MaxDate]
ProcStates == [at : {"idle", "status", "apply", "refund", "refunded"}, saw : 0..MaxDate, ok : BOOLEAN,
               msg : Messages, id : Invoices \cup {NoInvoice}]

TypeOK ==
  /\ order \in OrderRows
  /\ bank \in [Invoices -> BankStates]
  /\ clock \in 0..MaxDate
  /\ webhooks \subseteq Messages
  /\ proc \in [Workers -> ProcStates]
  /\ admin \in {"idle", "remove", "create", "removeCancelled"}
  /\ reversed \subseteq Invoices /\ crashed \in BOOLEAN

Init ==
  /\ order = [status |-> "AWAITING_PAYMENT", pay |-> "none", invoice |-> NoInvoice, modified |-> 0]
  /\ bank = [i \in Invoices |-> [state |-> "none", date |-> 0]]
  /\ clock = 0 /\ webhooks = {}
  /\ proc = [w \in Workers |-> Idle]
  /\ admin = "create"
  /\ reversed = {} /\ crashed = FALSE

-----------------------------------------------------------------------------
(* The bank: the customer pays an open invoice, perhaps after a failed     *)
(* card, or lets it expire; each change of status is dated and notified.   *)
Moves(s) ==
  CASE s = "created"    -> {"processing", "expired"}
    [] s = "processing" -> {"success", "failure"}
    [] s = "failure"    -> {"processing"}
    [] OTHER            -> {}

SetStatus(i, s) ==
  /\ bank' = [bank EXCEPT ![i] = [state |-> s, date |-> clock + 1]]
  /\ clock' = clock + 1
  /\ webhooks' = webhooks \cup {[invoice |-> i, status |-> s, date |-> clock + 1]}

BankMoves(i) ==
  /\ clock < MaxDate
  /\ \E s \in Moves(bank[i].state) : SetStatus(i, s)
  /\ UNCHANGED <<order, proc, admin, reversed, crashed>>

-----------------------------------------------------------------------------
(* A request starts with the order as it is now.  The webhook of an        *)
(* invoice the order has dropped finds the order by its reference.         *)
Reads(w, label, m) ==
  proc' = [proc EXCEPT ![w] = [Idle EXCEPT !.at = label, !.msg = m, !.saw = order.modified,
             !.id = IF order.invoice = NoInvoice THEN m.invoice ELSE order.invoice]]

HandleWebhook(w, m) ==
  /\ proc[w].at = "idle" /\ m \in webhooks
  /\ webhooks' \in {webhooks \ {m}} \cup (IF "again" \in Faults THEN {webhooks} ELSE {})
  /\ Reads(w, "apply", m)
  /\ UNCHANGED <<order, bank, clock, admin, reversed, crashed>>

SyncByOrderNumber(w) ==
  /\ "sync" \in Calls /\ proc[w].at = "idle" /\ order.invoice # NoInvoice
  /\ Reads(w, "status", [NoMessage EXCEPT !.invoice = order.invoice])
  /\ UNCHANGED <<order, bank, clock, webhooks, admin, reversed, crashed>>

FetchStatus(w) ==
  /\ proc[w].at = "status"
  /\ proc' = [proc EXCEPT ![w].at = "apply", ![w].msg = Message(proc[w].msg.invoice)]
  /\ UNCHANGED <<order, bank, clock, webhooks, admin, reversed, crashed>>

-----------------------------------------------------------------------------
(* applyInvoiceStatus.  A status no newer than the one read is dropped;    *)
(* success goes through the lifecycle, which looks at the order again      *)
(* under its lock; anything else is written over whatever is there.        *)
(* Faulty variant of Outdated: dates are not compared.                     *)
AlwaysNew(w) == FALSE

Outdated(w) == proc[w].msg.date > 0 /\ proc[w].saw > 0 /\ proc[w].msg.date <= proc[w].saw

DropOutdated(w) ==
  /\ proc[w].at = "apply" /\ Outdated(w)
  /\ proc' = [proc EXCEPT ![w] = Idle]
  /\ UNCHANGED <<order, bank, clock, webhooks, admin, reversed, crashed>>

RecordStatus(w) ==
  /\ proc[w].at = "apply" /\ ~Outdated(w) /\ proc[w].msg.status # "success"
  /\ order' = [order EXCEPT !.pay = proc[w].msg.status, !.invoice = proc[w].id, !.modified = proc[w].msg.date]
  /\ proc' = [proc EXCEPT ![w] = Idle]
  /\ UNCHANGED <<bank, clock, webhooks, admin, reversed, crashed>>

(* Faulty variant of LateSuccess: an order cancelled meanwhile is not told *)
(* apart from one that was paid before.                                    *)
CancelledIsNoop == {}

(* applyPaymentSuccess decides on the locked row: a cancelled order is     *)
(* paid back, one already paid is left alone.                              *)
LateSuccess == {"CANCELLED"}

ApplySuccess(w) ==
  /\ proc[w].at = "apply" /\ ~Outdated(w) /\ proc[w].msg.status = "success"
  /\ IF order.status \in LateSuccess
     THEN proc' = [proc EXCEPT ![w].at = "refund"] /\ UNCHANGED order
     ELSE /\ proc' = [proc EXCEPT ![w] = Idle]
          /\ IF order.pay = "success" \/ order.status = "CANCELLED"
             THEN UNCHANGED order
             ELSE order' = [status |-> "PROCESSING", pay |-> "success", invoice |-> proc[w].id,
                            modified |-> proc[w].msg.date]
  /\ UNCHANGED <<bank, clock, webhooks, admin, reversed, crashed>>

(* handleLatePayRefund: the invoice of the order that was read, not that   *)
(* of the notification; the bank refuses an invoice that was not charged.  *)
Refund(w) ==
  LET i == proc[w].id IN
  /\ proc[w].at = "refund"
  /\ reversed' = reversed \cup {i}
  /\ \/ /\ bank[i].state \in Charged
        /\ bank' = [bank EXCEPT ![i].state = "reversed"]
        /\ proc' = [proc EXCEPT ![w].at = "refunded", ![w].ok = TRUE]
     \/ /\ bank[i].state \notin Charged \/ "refundFails" \in Faults
        /\ proc' = [proc EXCEPT ![w].at = "refunded", ![w].ok = FALSE]
        /\ UNCHANGED bank
  /\ UNCHANGED <<order, clock, webhooks, admin, crashed>>

RecordRefund(w) ==
  /\ proc[w].at = "refunded"
  /\ order' = [order EXCEPT !.pay = IF proc[w].ok THEN "refunded" ELSE "success", !.invoice = proc[w].id]
  /\ proc' = [proc EXCEPT ![w] = Idle]
  /\ UNCHANGED <<bank, clock, webhooks, admin, reversed, crashed>>

-----------------------------------------------------------------------------
(* createInvoiceForOrder, at checkout and by retryOrderPayment: the bank   *)
(* issues the invoice, then the order names it, whatever happened between. *)
StartRetry ==
  /\ "retry" \in Calls /\ admin = "idle"
  /\ order.status = "AWAITING_PAYMENT" /\ order.pay # "success"
  /\ \E i \in Invoices : bank[i].state = "none"
  /\ admin' = IF order.invoice = NoInvoice THEN "create" ELSE "remove"
  /\ UNCHANGED <<order, bank, clock, webhooks, proc, reversed, crashed>>

(* removeInvoiceIfPossible, best effort: only an unpaid invoice goes.      *)
RemoveInvoice(from, to) ==
  /\ admin = from
  /\ admin' = to
  /\ bank' \in {[bank EXCEPT ![order.invoice].state = IF @ \in {"created", "failure"} THEN "expired" ELSE @]}
                 \cup (IF "removeFails" \in Faults THEN {bank} ELSE {})
  /\ UNCHANGED <<order, clock, webhooks, proc, reversed, crashed>>

RemoveOld       == RemoveInvoice("remove", "create")
RemoveCancelled == RemoveInvoice("removeCancelled", "idle")

CreateInvoice(i) ==
  /\ admin = "create" /\ bank[i].state = "none"
  /\ bank' = [bank EXCEPT ![i] = [state |-> "created", date |-> 0]]
  /\ order' = [order EXCEPT !.invoice = i, !.pay = "created"]
  /\ admin' = "idle"
  /\ UNCHANGED <<clock, webhooks, proc, reversed, crashed>>

(* cancelUnpaidOrder, by the customer or by the expiry job.                *)
CancelUnpaid ==
  /\ "cancel" \in Calls /\ admin = "idle"
  /\ order.status = "AWAITING_PAYMENT" /\ order.pay # "success"
  /\ order' = [order EXCEPT !.status = "CANCELLED"]
  /\ admin' = IF order.invoice = NoInvoice THEN "idle" ELSE "removeCancelled"
  /\ UNCHANGED <<bank, clock, webhooks, proc, reversed, crashed>>

(* The process dies in a request; the bank repeats a webhook that got no   *)
(* answer, nobody repeats what the success page has asked about an invoice *)
(* not yet touched.                                                        *)
Crash(w) ==
  /\ "crash" \in Faults /\ ~crashed /\ proc[w].at \notin {"idle", "status"}
  /\ crashed' = TRUE
  /\ proc' = [proc EXCEPT ![w] = Idle]
  /\ webhooks' = webhooks \cup {m \in {proc[w].msg} : m.date > 0}
  /\ UNCHANGED <<order, bank, clock, admin, reversed>>

-----------------------------------------------------------------------------
Works(w) == FetchStatus(w) \/ DropOutdated(w) \/ RecordStatus(w) \/ ApplySuccess(w) \/ Refund(w) \/ RecordRefund(w)
Admins == RemoveOld \/ RemoveCancelled \/ \E i \in Invoices : CreateInvoice(i)

Next ==
  \/ \E i \in Invoices : BankMoves(i)
  \/ \E w \in Workers : \/ \E m \in webhooks : HandleWebhook(w, m)
                        \/ SyncByOrderNumber(w) \/ Works(w) \/ Crash(w)
  \/ StartRetry \/ CancelUnpaid \/ Admins

Spec == Init /\ [][Next]_vars

(* A request that has begun ends; the bank repeats a webhook until it is   *)
(* answered.                                                               *)
Repeats == \E w \in Workers : \E m \in webhooks : m.status = "success" /\ HandleWebhook(w, m)

Fairness ==
  /\ \A w \in Workers : WF_vars(Works(w))
  /\ WF_vars(Admins)
  /\ SF_vars(Repeats)

FairSpec == Spec /\ Fairness

-----------------------------------------------------------------------------
(* What an invoice stands for in money.                                    *)
MoneyOf(state) ==
  CASE state = "success"  -> "taken"
    [] state = "reversed" -> "returned"
    [] OTHER              -> "none"

Promise == INSTANCE PaymentPromise WITH
  Charges <- Invoices, outcome <- order.status, money <- [i \in Invoices |-> MoneyOf(bank[i].state)]

(* The code implements PaymentPromise: notifications that are repeated,    *)
(* late or out of order decide an order once, fulfil it only if an invoice *)
(* was charged, and pay back only what was charged for a cancelled one     *)
(* (applyPaymentSuccess, cancelUnpaidOrder, handleLatePayRefund).          *)
KeepsPromise == Promise!Spec

(* Money the bank has taken is answered: the order is fulfilled, or the    *)
(* bank was asked to pay that invoice back, however webhooks, the success  *)
(* page, a cancellation and a crash are interleaved (late-pay refund).     *)
ChargeIsAnswered ==
  \A i \in Invoices : bank[i].state = "success" ~> (order.status = "PROCESSING" \/ i \in reversed)

(* Reordered and repeated notifications, taken one at a time, never take   *)
(* the mark of a paid order back.                                          *)
PaidStaysPaid == order.status = "PROCESSING" => order.pay = "success"
=============================================================================
