----------------------------- MODULE MCOrderLife -----------------------------
(***************************************************************************)
(* What happens to an order, one scenario a behaviour: each scenario is a  *)
(* component with bounds that suit it, the others rest in their initial    *)
(* state.  Most scenarios are the instances of OrderLife for the constants *)
(* below; those that need other constants are instances of their own, on   *)
(* the same variables where the properties are the same.  The submissions  *)
(* of one checkout (MCOrderIdempotency) are the scenario "once".           *)
(***************************************************************************)
EXTENDS MCOrderIdempotency, OrderLife

VARIABLES
  scenario,
  terms, erpStatus, paid, erpRow, doc, queue, erpPc, erpSaw, erpFaults, restarts,
  busyOrder, busyBank, busyClock, busyHooks, busyProc, busyAdmin, busyReversed, busyCrashed

cardVars   == <<cardStatus, pay, sid, source, overdue, cardReleased, exports, session, events, claimed, cardJob>>
erpVars    == <<terms, erpStatus, paid, erpRow, doc, queue, erpPc, erpSaw, erpFaults, restarts>>
shelfVars  == <<external, stock, shelfOrder, shelfReleased, synced, rowLock, shelfPc, shelfSaw, todo, done>>
monoVars   == <<monoOrder, bank, clock, webhooks, proc, admin, reversed, crashed>>
busyVars   == <<busyOrder, busyBank, busyClock, busyHooks, busyProc, busyAdmin, busyReversed, busyCrashed>>
mailVars   == <<mailOrder, mailJob, mailRow, stamped, worker, request, sent, mailFaults, cuts>>
pointsVars == <<ledger, counter, pointsPc, pointsSaw, discount, rewarded>>
lateVars   == <<latePc, lateLock, lateResult, lateOrders, lateAnswer>>
allVars == <<scenario, vars, lateVars, cardVars, erpVars, shelfVars, monoVars, busyVars, mailVars, pointsVars>>

-----------------------------------------------------------------------------
MCLateRequests == {r1, r2, r3}

(* One Stripe session and two workers: settled at once or later, under     *)
(* every failure; beside a cancellation, with repeated events.             *)
Withdrawn == INSTANCE CardPayment WITH
  Workers <- CardWorkers, Delayed <- {}, Calls <- {"sync", "cancel"},
  Faults <- {"crash", "ackLost"},
  status <- cardStatus, released <- cardReleased, job <- cardJob

(* An order to export, with more failures than attempts; one to cancel,    *)
(* with fewer.                                                             *)
Export == INSTANCE ErpExport WITH
  Methods <- {"bank", "cod"}, Immediates <- {FALSE}, Offlines <- {FALSE}, Calls <- {"restart"}, Overlap <- TRUE,
  Faults <- {"transport", "lost", "business", "permanent", "refused", "noNative"}, MaxFaults <- 4, MaxTries <- 3,
  status <- erpStatus, row <- erpRow, pc <- erpPc, saw <- erpSaw, faults <- erpFaults

Storno == INSTANCE ErpExport WITH
  Methods <- {"card", "cod"}, Immediates <- {FALSE}, Offlines <- {FALSE}, Calls <- {"pay", "cancel"},
  Overlap <- FALSE, Faults <- {"transport", "business", "permanent"}, MaxFaults <- 3, MaxTries <- 3,
  status <- erpStatus, row <- erpRow, pc <- erpPc, saw <- erpSaw, faults <- erpFaults

(* Two carts with the same plants in another order, too few pieces of b    *)
(* for both; the ERP has none of a, and of b too few for one of them.      *)
(* Beside both one order is cancelled and removed ("shelf"); alone it is   *)
(* cancelled twice and removed ("returned").                               *)
MCLines    == [o \in {"o1", "o2"} |-> IF o = "o1" THEN <<"a", "b">> ELSE <<"b", "a">>]
MCQuantity == [o \in {"o1", "o2"} |-> [v \in {"a", "b"} |-> IF o = "o1" /\ v = "b" THEN 2 ELSE 1]]
MCInitial  == [v \in {"a", "b"} |-> 2]
MCErpHas   == [v \in {"a", "b"} |-> IF v = "a" THEN 0 ELSE 1]
MCCallers == {<<"checkout", "o1">>, <<"checkout", "o2">>,
              <<"cancel", "o1">>, <<"cancelAgain", "o1">>, <<"remove", "o1">>}

(* Monobank notifications one at a time are the instance of OrderLife; two *)
(* requests at a time beside a cancellation, and an invoice that is        *)
(* replaced.                                                               *)
Charged == INSTANCE MonoPayment WITH
  Workers <- {"m1", "m2"}, MaxDate <- 2, Calls <- {"cancel"}, Faults <- {"again", "refundFails", "crash"},
  order <- busyOrder, bank <- busyBank, clock <- busyClock, webhooks <- busyHooks, proc <- busyProc,
  admin <- busyAdmin, reversed <- busyReversed, crashed <- busyCrashed
Replaced == INSTANCE MonoPayment WITH
  Invoices <- {"i1", "i2"}, Workers <- {"m1"}, MaxDate <- 3, Calls <- {"retry"}, Faults <- {"removeFails"},
  order <- busyOrder, bank <- busyBank, clock <- busyClock, webhooks <- busyHooks, proc <- busyProc,
  admin <- busyAdmin, reversed <- busyReversed, crashed <- busyCrashed

(* The mails of a payment are the instance of OrderLife; of a cancellation *)
(* with a late payment, and by hand.                                       *)
Apologies == INSTANCE OrderMail WITH
  Events <- {"cancel", "latePay"}, Requests <- {}, MaxTries <- 2, MaxFaults <- 0, Faults <- {},
  order <- mailOrder, job <- mailJob, row <- mailRow, faults <- mailFaults
ByHand == INSTANCE OrderMail WITH
  Events <- {}, Requests <- {"a1", "a2", "a3"}, MaxTries <- 2, MaxFaults <- 2, Faults <- {"refused", "timeout"},
  order <- mailOrder, job <- mailJob, row <- mailRow, faults <- mailFaults

(* Two checkouts that wish three points each of five, three requests to    *)
(* reward two friends.                                                     *)
MCCredits == {"patch", "bank", "patch2"}
MCFor     == [r \in MCCredits |-> IF r = "patch2" THEN "f2" ELSE "f1"]

-----------------------------------------------------------------------------
OnlyFirst  == UNCHANGED <<scenario, lateVars, cardVars, erpVars, shelfVars, monoVars, busyVars, mailVars, pointsVars>>
OnlyLate   == UNCHANGED <<scenario, vars, cardVars, erpVars, shelfVars, monoVars, busyVars, mailVars, pointsVars>>
OnlyCard   == UNCHANGED <<scenario, vars, lateVars, erpVars, shelfVars, monoVars, busyVars, mailVars, pointsVars>>
OnlyErp    == UNCHANGED <<scenario, vars, lateVars, cardVars, shelfVars, monoVars, busyVars, mailVars, pointsVars>>
OnlyShelf  == UNCHANGED <<scenario, vars, lateVars, cardVars, erpVars, monoVars, busyVars, mailVars, pointsVars>>
OnlyMono   == UNCHANGED <<scenario, vars, lateVars, cardVars, erpVars, shelfVars, busyVars, mailVars, pointsVars>>
OnlyBusy   == UNCHANGED <<scenario, vars, lateVars, cardVars, erpVars, shelfVars, monoVars, mailVars, pointsVars>>
OnlyMail   == UNCHANGED <<scenario, vars, lateVars, cardVars, erpVars, shelfVars, monoVars, busyVars, pointsVars>>
OnlyPoints == UNCHANGED <<scenario, vars, lateVars, cardVars, erpVars, shelfVars, monoVars, busyVars, mailVars>>

Is(name) == scenario = name

LifeInit ==
  /\ scenario \in {"once", "answers", "single", "withdrawn", "export", "storno", "shelf", "returned",
                   "notified", "charged", "replaced", "confirmed", "apologies", "by hand", "points"}
  /\ Init /\ Answers!Init /\ Card!Init /\ cardJob["w1"].at = "mint" /\ Mono!Init /\ Points!Init
  /\ Shelf!Init /\ (external => Is("shelf") \/ Is("returned"))
  /\ IF Is("export") THEN Export!Init ELSE Storno!Init /\ (Is("storno") \/ terms.method = "card")
  /\ IF Is("replaced") THEN Replaced!Init ELSE Charged!Init
  /\ IF Is("by hand") THEN ByHand!Init ELSE Mail!Init

LifeNext ==
  \/ Is("once")      /\ Next           /\ OnlyFirst
  \/ Is("answers")   /\ Answers!Next   /\ OnlyLate
  \/ Is("single")    /\ Card!Next      /\ OnlyCard
  \/ Is("withdrawn") /\ Withdrawn!Next /\ OnlyCard
  \/ Is("export")    /\ Export!Next    /\ OnlyErp
  \/ Is("storno")    /\ Storno!Next    /\ OnlyErp
  \/ Is("shelf")     /\ Shelf!Next     /\ OnlyShelf /\ shelfPc'[<<"cancelAgain", "o1">>] = "start"
  \/ Is("returned")  /\ Shelf!Next     /\ OnlyShelf /\ shelfPc'[<<"checkout", "o2">>] = "start"
  \/ Is("notified")  /\ Mono!Next      /\ OnlyMono
  \/ Is("charged")   /\ Charged!Next   /\ OnlyBusy
  \/ Is("replaced")  /\ Replaced!Next  /\ OnlyBusy
  \/ Is("confirmed") /\ Mail!Next      /\ OnlyMail
  \/ Is("apologies") /\ Apologies!Next /\ OnlyMail
  \/ Is("by hand")   /\ ByHand!Next    /\ OnlyMail
  \/ Is("points")    /\ Points!Next    /\ OnlyPoints

(* The fairness of the components, those of different scenarios in one.    *)
FirstWorks ==
  \/ Is("answers")   /\ Answers!Step(r1)    /\ OnlyLate
  \/ Is("export")    /\ Export!WorkerStep   /\ OnlyErp
  \/ Is("storno")    /\ Storno!WorkerStep   /\ OnlyErp
  \/ Is("notified")  /\ Mono!Works("m1")    /\ OnlyMono
  \/ Is("charged")   /\ Charged!Works("m1") /\ OnlyBusy
  \/ Is("confirmed") /\ Mail!Works          /\ OnlyMail
SecondWorks ==
  \/ Is("answers")   /\ Answers!Step(r2)    /\ OnlyLate
  \/ Is("storno")    /\ Storno!EnqueuePaid  /\ OnlyErp
  \/ Is("charged")   /\ Charged!Works("m2") /\ OnlyBusy
  \/ Is("notified")  /\ Mono!Admins         /\ OnlyMono
ThirdWorks ==
  \/ Is("answers")   /\ Answers!Step(r3)    /\ OnlyLate
  \/ Is("storno")    /\ Storno!CancelStep   /\ OnlyErp
  \/ Is("charged")   /\ Charged!Admins      /\ OnlyBusy

BankRepeats ==
  \/ Is("notified") /\ Mono!Repeats    /\ OnlyMono
  \/ Is("charged")  /\ Charged!Repeats /\ OnlyBusy

LifeSpec ==
  /\ LifeInit /\ [][LifeNext]_allVars
  /\ WF_allVars(FirstWorks) /\ WF_allVars(SecondWorks) /\ WF_allVars(ThirdWorks)
  /\ SF_allVars(BankRepeats)

-----------------------------------------------------------------------------
(* The variables of every component keep their types.                      *)
TypesHold ==
  /\ TypeOK /\ Shelf!TypeOK /\ Mono!TypeOK /\ Points!TypeOK
  /\ IF Is("replaced") THEN Replaced!TypeOK ELSE Charged!TypeOK
  /\ IF Is("by hand") THEN ByHand!TypeOK ELSE Mail!TypeOK

(* And every request whose worker lives is answered (create).              *)
AllAreAnswered == Is("answers") ~> \A r \in LateRequests : latePc[r] \in Finished

(* An order to export ends exported or with an error an administrator sees,*)
(* restarts and exhausted attempts included (runExportOrderJob).           *)
ExportSettles == Export!ExportSettles

(* The document of a cancelled order is taken back when the attempts of    *)
(* the storno suffice (applyRel003CancelSideEffects).                      *)
CancelReachesErp == Storno!CancelReachesErp

(* Money the bank has taken is answered by fulfilment or by a refund       *)
(* request (applyPaymentSuccess, handleLatePayRefund).                     *)
ChargeIsAnswered == Mono!ChargeIsAnswered /\ (Is("replaced") \/ Charged!ChargeIsAnswered)

(* A paid order is confirmed, or its job has used up its attempts          *)
(* (sendBundle).                                                           *)
PaidIsConfirmed == Mail!PaidIsConfirmed
=============================================================================
