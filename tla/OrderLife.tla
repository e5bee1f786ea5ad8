------------------------------ MODULE OrderLife ------------------------------
(***************************************************************************)
(* What must hold of an order through its life, each of it a property of   *)
(* one component with variables of its own: submissions of the checkout    *)
(* under every failure (OrderIdempotency, whose own names are those of the *)
(* submissions under the failures of Faults), its payment by card or at    *)
(* Monobank, its stock, its mails and its points.                          *)
(***************************************************************************)
EXTENDS OrderIdempotency

CONSTANTS
  LateRequests,
  CardWorkers, Sessions, NoSession, NoEvent, Delayed, CardCalls, CardFaults,
  Orders, Variants, Lines, Quantity, Initial, ErpHas, Externals, Callers, ShelfFaults,
  MailEvents, MailRequests, MailTries, MailFaultKinds, MaxMailFaults,
  Invoices, MonoWorkers, MaxDate, MonoCalls, MonoFaults,
  Checkouts, Friends, Credits, For, Wish, Reward, Opening, Overlap, PointsFaults

VARIABLES
  latePc, lateLock, lateResult, lateOrders, lateAnswer,
  cardStatus, pay, sid, source, overdue, cardReleased, exports, session, events, claimed, cardJob,
  external, stock, shelfOrder, shelfReleased, synced, rowLock, shelfPc, shelfSaw, todo, done,
  monoOrder, bank, clock, webhooks, proc, admin, reversed, crashed,
  mailOrder, mailJob, mailRow, stamped, worker, request, sent, mailFaults, cuts,
  ledger, counter, pointsPc, pointsSaw, discount, rewarded

Answers == INSTANCE OrderIdempotency WITH
  Requests <- LateRequests, KeyOf <- [r \in LateRequests |-> KeyOf[r]], Faults <- FaultKinds,
  pc <- latePc, lock <- lateLock, result <- lateResult, orders <- lateOrders, answer <- lateAnswer

Card == INSTANCE CardPayment WITH
  Workers <- CardWorkers, Calls <- CardCalls, Faults <- CardFaults,
  status <- cardStatus, released <- cardReleased, job <- cardJob

Shelf == INSTANCE CheckoutStock WITH
  Faults <- ShelfFaults, order <- shelfOrder, released <- shelfReleased, pc <- shelfPc, saw <- shelfSaw

Mono == INSTANCE MonoPayment WITH
  Workers <- MonoWorkers, Calls <- MonoCalls, Faults <- MonoFaults, order <- monoOrder

Mail == INSTANCE OrderMail WITH
  Events <- MailEvents, Requests <- MailRequests, MaxTries <- MailTries, MaxFaults <- MaxMailFaults,
  Faults <- MailFaultKinds, order <- mailOrder, job <- mailJob, row <- mailRow, faults <- mailFaults

Points == INSTANCE PointsLedger WITH
  Start <- Opening, Faults <- PointsFaults, pc <- pointsPc, saw <- pointsSaw

-----------------------------------------------------------------------------
(* Under every failure of Redis, of the ERP and of a worker, an answer     *)
(* names an order of the same key and fingerprint, and an order that       *)
(* exists (assertFingerprintMatch, compensateFailedConnectedCheckout).     *)
AnswersAreRight == Answers!ReplayMatchesRequest /\ Answers!AnsweredOrdersExist

(* One payment asks for one export, however often its events are sent      *)
(* (claimWebhookEvent, applyPaymentSuccess).                               *)
ExportedOnce == Card!ExportedOnce

(* Reservations are given back once, whoever cancels, removes, fails or    *)
(* dies (releaseLocalStockReservation, compensation).                      *)
StockAddsUp == Shelf!StockAddsUp

(* Checkouts of the same plants in another order never deadlock (the order *)
(* number is taken under a row lock before the stock).                     *)
CheckoutsDoNotDeadlock == Shelf!CheckoutsDoNotDeadlock

(* Reordered and repeated notifications, one at a time, never take the     *)
(* mark of a paid order back (applyInvoiceStatus).                         *)
PaidStaysPaid == Mono!PaidStaysPaid

(* A mail is repeated only when nobody could know that it was sent         *)
(* (claim, sendManualCustomerEmail).                                       *)
EachMailOnce == Mail!EachMailOnce

(* Points are spent once, and none is lost or invented                     *)
(* (writePointsRedemption, creditReferrerPoints, the compensation).        *)
BalanceIsTheSum == Points!BalanceIsTheSum
=============================================================================
