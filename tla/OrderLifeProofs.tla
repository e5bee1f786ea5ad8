--------------------------- MODULE OrderLifeProofs ---------------------------
(* Theorems about the properties of OrderLife, each for every value of the *)
(* constants of its component: the mails, the Monobank payment and the     *)
(* points of an order are proved here, the answers and the stock are the   *)
(* theorems of OrderIdempotencyProofs and CheckoutStockProofs.             *)
EXTENDS OrderLife, Integers, Sequences, TLAPS

-----------------------------------------------------------------------------
MailHypothesis == MailTries \in Nat \ {0} /\ MaxMailFaults \in Nat

(* A mail has gone out at most once more than the failures that hid a      *)
(* sending; one not marked as sent, not more often.  The worker holds no   *)
(* mail that is marked, and one request by hand is in its transaction.     *)
MailInv ==
  /\ worker.todo \subseteq Mail!Mails \ {Mail!Manual}
  /\ worker.at \in {"check", "send", "markSent", "markFailed"} =>
       worker.mail # Mail!Manual /\ mailRow[worker.mail] # "SENT"
  /\ \A m \in Mail!Mails : sent[m] <= cuts + 1
  /\ \A m \in Mail!Mails \ {Mail!Manual} :
       mailRow[m] # "SENT" /\ ~(worker.at = "markSent" /\ worker.mail = m) => sent[m] <= cuts
  /\ \A q, r \in MailRequests : Mail!InTransaction(q) /\ Mail!InTransaction(r) => q = r
  /\ \A r \in MailRequests : Mail!InTransaction(r) => mailRow[Mail!Manual] # "SENT"
  /\ mailRow[Mail!Manual] # "SENT" /\ (\A r \in MailRequests : request[r] # "commit")
       => sent[Mail!Manual] <= cuts

(* A mail goes out again only after a failure that hid whether it went     *)
(* out: retries, restarts and requests by hand repeat nothing else (claim, *)
(* sendBundle, sendManualCustomerEmail).                                   *)
THEOREM MailsOnce == ASSUME MailHypothesis PROVE Mail!Spec => []EachMailOnce
(* The mails of a job, and the one sent by hand, which no job sends.       *)
<1>MailNames.
    /\ \A j \in Mail!Jobs : Mail!Branches(j) \subseteq Mail!Mails \ {Mail!Manual}
    /\ Mail!Manual \in Mail!Mails
    /\ Mail!Stamps \subseteq Mail!Mails
    /\ "bundle" \in Mail!Jobs
  <2>1. \A j \in Mail!Jobs : Mail!Manual \notin Mail!Branches(j)
    BY DEF Mail!Jobs, Mail!Branches, Mail!Manual
  <2>2. \A j \in Mail!Jobs : Mail!Branches(j) \subseteq Mail!Mails
    BY DEF Mail!Mails
  <2>3. \A j \in Mail!Stamps : j \in Mail!Branches(j) /\ j \in Mail!Jobs
    BY DEF Mail!Stamps, Mail!Branches, Mail!Jobs
  <2>4. Mail!Manual \in Mail!Mails
    BY DEF Mail!Mails
  <2>5. "bundle" \in Mail!Jobs
    BY DEF Mail!Jobs
  <2> QED
    BY <2>1, <2>2, <2>3, <2>4, <2>5
(* The rows, the jobs and the worker keep their types.                     *)
<1>MailTypes. ASSUME MailHypothesis PROVE Mail!Spec => []Mail!TypeOK
  <2> USE <1>MailTypes
  <2> USE MailHypothesis, <1>MailNames DEF MailHypothesis
  <2> DEFINE TInv == /\ Mail!TypeOK /\ cuts <= mailFaults
                     /\ worker.at = "stamp" => worker.mail \in Mail!Stamps
  <2>1. Mail!Init => TInv
    <3> SUFFICES ASSUME Mail!Init PROVE TInv
      OBVIOUS
    <3>1. Mail!Resting \in Mail!WorkerStates
      BY DEF Mail!Resting, Mail!WorkerStates
    <3>2. mailJob \in [Mail!Jobs -> Mail!JobStates]
      BY DEF Mail!Init, Mail!JobStates
    <3>3. mailOrder \in [status : {"AWAITING_PAYMENT", "PROCESSING", "CANCELLED"},
                         pay : {"none", "success", "refunded"}]
      BY DEF Mail!Init
    <3> QED BY <3>1, <3>2, <3>3 DEF Mail!Init, Mail!TypeOK, Mail!Statuses, Mail!Resting
  <2>2. TInv /\ [Mail!Next]_Mail!vars => TInv'
    <3> SUFFICES ASSUME TInv, [Mail!Next]_Mail!vars PROVE TInv'
      OBVIOUS
    <3>a. \A js : Mail!Enqueued(js) \in [Mail!Jobs -> Mail!JobStates]
      BY DEF Mail!Enqueued, Mail!JobStates, Mail!TypeOK
    <3>b. /\ \A f : Mail!Fault(f) => mailFaults' \in 0..MaxMailFaults /\ mailFaults' = mailFaults + 1
          /\ cuts \in Nat /\ mailFaults \in Nat /\ cuts <= mailFaults /\ mailFaults <= MaxMailFaults
      BY DEF Mail!Fault, Mail!TypeOK
    <3>c. /\ Mail!Resting \in Mail!WorkerStates /\ Mail!Resting.at = "idle"
          /\ worker.job \in Mail!Jobs /\ worker.mail \in Mail!Mails /\ worker.todo \subseteq Mail!Mails
      BY DEF Mail!TypeOK, Mail!WorkerStates, Mail!Resting
    <3>d. ASSUME NEW at \in {"idle", "read", "claim", "check", "send", "markSent", "markFailed", "end"}
          PROVE  /\ [worker EXCEPT !.at = at] \in Mail!WorkerStates
                 /\ [worker EXCEPT !.at = at].at # "stamp"
      BY DEF Mail!TypeOK, Mail!WorkerStates
    <3>e. ASSUME NEW j \in Mail!Jobs
          PROVE  \A at \in {"none", "waiting", "active", "completed", "failed"} :
                   [mailJob[j] EXCEPT !.at = at] \in Mail!JobStates
      BY DEF Mail!TypeOK, Mail!JobStates
    <3>f. mailOrder.pay \in {"none", "success", "refunded"}
      BY DEF Mail!TypeOK
    <3> USE DEF Mail!TypeOK, Mail!Statuses
    <3>1. ASSUME NEW e, NEW s \in {"AWAITING_PAYMENT", "PROCESSING", "CANCELLED"},
                 NEW p \in {"none", "success", "refunded"},
                 NEW js, Mail!OrderChanges(e, s, p, js)
          PROVE  TInv'
      BY <3>a, <3>1 DEF Mail!OrderChanges
    <3>2. CASE Mail!Pay \/ Mail!Cancel
      BY <3>f, <3>1, <3>2 DEF Mail!Pay, Mail!Cancel
    <3>3. CASE Mail!LatePay
      <4>1. PICK p \in {"success", "refunded"} :
              Mail!OrderChanges("latePay", "CANCELLED", p, {"refund", "managerRefund"})
        BY <3>3 DEF Mail!LatePay
      <4> QED BY <3>a, <4>1 DEF Mail!OrderChanges
    <3>4. ASSUME NEW j \in Mail!Jobs, Mail!TakeJob(j) PROVE TInv'
      <4>1. worker' \in Mail!WorkerStates /\ worker'.at = "read"
        BY <3>4 DEF Mail!TakeJob, Mail!WorkerStates, Mail!Resting
      <4> QED BY <3>e, <3>4, <4>1 DEF Mail!TakeJob
    <3>5. CASE Mail!ReadOrder
      BY <3>d, <3>5 DEF Mail!ReadOrder
    <3>6. ASSUME NEW m \in Mail!Mails, Mail!Claim(m) PROVE TInv'
      <4>1. CASE Mail!Settled(m)
        <5>1. worker' = [worker EXCEPT !.at = IF worker.todo = {m} THEN "end" ELSE "claim",
                                       !.todo = worker.todo \ {m}]
          BY <3>6, <4>1 DEF Mail!Claim
        <5>2. worker' \in Mail!WorkerStates /\ worker'.at \in {"end", "claim"}
          BY <5>1 DEF Mail!WorkerStates
        <5> QED BY <3>6, <4>1, <5>2 DEF Mail!Claim
      <4>2. CASE ~Mail!Settled(m)
        <5>1. worker' \in Mail!WorkerStates /\ worker'.at \in {"check", "send"}
          BY <3>6, <4>2 DEF Mail!Claim, Mail!WorkerStates
        <5> QED BY <3>6, <4>2, <5>1 DEF Mail!Claim
      <4> QED BY <4>1, <4>2
    <3>7. CASE Mail!CheckCancelled
      BY <3>c, <3>d, <3>7 DEF Mail!CheckCancelled
    <3>8. CASE Mail!Send
      <4>1. worker' \in Mail!WorkerStates /\ worker'.at # "stamp"
        BY <3>d, <3>8 DEF Mail!Send
      <4> QED BY <3>b, <3>c, <3>8, <4>1 DEF Mail!Send
    <3>9. ASSUME NEW ok \in BOOLEAN, Mail!AfterMail(ok)
          PROVE  worker' \in Mail!WorkerStates /\ (worker'.at = "stamp" => worker'.mail \in Mail!Stamps)
      BY <3>9 DEF Mail!AfterMail, Mail!WorkerStates
    <3>10. CASE Mail!MarkSent
      BY <3>c, <3>9, <3>10 DEF Mail!MarkSent
    <3>11. CASE Mail!MarkFailed
      BY <3>c, <3>9, <3>11 DEF Mail!MarkFailed
    <3>12. CASE Mail!Stamp
      BY <3>d, <3>12 DEF Mail!Stamp
    <3>13. CASE Mail!EndJob
      <4>1. mailJob' \in [Mail!Jobs -> Mail!JobStates]
        BY <3>c, <3>13 DEF Mail!EndJob, Mail!JobStates
      <4> QED BY <3>c, <3>13, <4>1 DEF Mail!EndJob
    <3>14. CASE Mail!Crash
      <4>1. mailJob' \in [Mail!Jobs -> Mail!JobStates]
        BY <3>c, <3>e, <3>14 DEF Mail!Crash
      <4> QED BY <3>b, <3>c, <3>14, <4>1 DEF Mail!Crash
    <3>15. ASSUME NEW r \in MailRequests, Mail!ManualClaim(r) \/ Mail!ManualDuplicate(r) PROVE TInv'
      BY <3>15 DEF Mail!ManualClaim, Mail!ManualDuplicate
    <3>16. ASSUME NEW r \in MailRequests, Mail!ManualSend(r) PROVE TInv'
      BY <3>b, <3>16 DEF Mail!ManualSend
    <3>17. ASSUME NEW r \in MailRequests, Mail!ManualCommit(r) PROVE TInv'
      BY <3>b, <3>17 DEF Mail!ManualCommit
    <3>18. CASE UNCHANGED Mail!vars
      BY <3>18 DEF Mail!vars
    <3> QED
      BY <3>2, <3>3, <3>4, <3>5, <3>6, <3>7, <3>8, <3>10, <3>11, <3>12, <3>13, <3>14, <3>15, <3>16, <3>17, <3>18
      DEF Mail!Next, Mail!Works, Mail!ManualWorks
  <2> QED
    BY <2>1, <2>2, PTL DEF Mail!Spec
<1> USE MailHypothesis, <1>MailNames DEF MailHypothesis
<1>1. Mail!Init => MailInv
  BY DEF Mail!Init, MailInv, Mail!Resting, Mail!InTransaction
<1>2. Mail!TypeOK /\ Mail!TypeOK' /\ MailInv /\ [Mail!Next]_Mail!vars => MailInv'
  <2> SUFFICES ASSUME Mail!TypeOK, Mail!TypeOK', MailInv, [Mail!Next]_Mail!vars PROVE MailInv'
    OBVIOUS
  <2>a. /\ cuts \in Nat /\ sent \in [Mail!Mails -> Nat] /\ mailRow \in [Mail!Mails -> Mail!Statuses]
        /\ request \in [MailRequests -> {"start", "send", "commit", "done", "error"}]
        /\ worker.mail \in Mail!Mails
    BY DEF Mail!TypeOK, Mail!WorkerStates
  <2> USE DEF MailInv
  (* A step that sends nothing and marks nothing sent. *)
  <2>b. ASSUME UNCHANGED <<mailRow, request, sent, cuts>>, worker.at # "markSent",
               worker'.todo \subseteq Mail!Mails \ {Mail!Manual},
               worker'.at \notin {"check", "send", "markSent", "markFailed"}
        PROVE  MailInv'
    BY <2>a, <2>b DEF Mail!InTransaction
  <2>1. CASE Mail!Pay \/ Mail!Cancel \/ Mail!LatePay
    BY <2>1 DEF Mail!Pay, Mail!Cancel, Mail!LatePay, Mail!OrderChanges, Mail!InTransaction
  <2>2. ASSUME NEW j \in Mail!Jobs, Mail!TakeJob(j) PROVE MailInv'
    BY <2>b, <2>2 DEF Mail!TakeJob, Mail!Resting
  <2>3. CASE Mail!ReadOrder
    BY <2>b, <2>3 DEF Mail!ReadOrder, Mail!TypeOK, Mail!WorkerStates
  <2>4. ASSUME NEW m \in Mail!Mails, Mail!Claim(m) PROVE MailInv'
    <3>1. worker \in Mail!WorkerStates
      BY DEF Mail!TypeOK
    <3>2. CASE Mail!Settled(m)
      <4>1. worker' = [worker EXCEPT !.at = IF worker.todo = {m} THEN "end" ELSE "claim",
                                     !.todo = worker.todo \ {m}]
        BY <2>4, <3>2 DEF Mail!Claim
      <4>2. worker'.at \in {"end", "claim"} /\ worker'.todo \subseteq worker.todo
        BY <3>1, <4>1 DEF Mail!WorkerStates
      <4> QED BY <2>b, <2>4, <3>2, <4>2 DEF Mail!Claim
    <3>3. CASE ~Mail!Settled(m)
      <4>1. worker'.at \in {"check", "send"} /\ worker'.todo = worker.todo /\ worker'.mail = m
        BY <2>4, <3>1, <3>3 DEF Mail!Claim, Mail!WorkerStates
      <4>2. mailRow' = [mailRow EXCEPT ![m] = IF @ = "none" THEN "PENDING" ELSE @]
        BY <2>4, <3>3 DEF Mail!Claim
      <4>3. worker.at = "claim" /\ m \in worker.todo /\ UNCHANGED <<request, sent, cuts>>
        BY <2>4 DEF Mail!Claim
      <4>4. mailRow[m] # "SENT" /\ \A n \in Mail!Mails : mailRow'[n] = "SENT" <=> mailRow[n] = "SENT"
        BY <2>a, <3>3, <4>2 DEF Mail!Settled
      <4> QED BY <2>a, <4>1, <4>3, <4>4 DEF Mail!InTransaction
    <3> QED BY <3>2, <3>3
  <2>5. CASE Mail!CheckCancelled
    BY <2>a, <2>5 DEF Mail!CheckCancelled, Mail!InTransaction, Mail!TypeOK, Mail!WorkerStates
  <2>6. CASE Mail!Send
    BY <2>a, <2>6 DEF Mail!Send, Mail!InTransaction, Mail!TypeOK, Mail!WorkerStates
  <2>7. CASE Mail!MarkSent
    <3>1. worker'.at \in {"stamp", "end", "claim"} /\ worker'.todo \subseteq worker.todo
      BY <2>7 DEF Mail!MarkSent, Mail!AfterMail, Mail!TypeOK, Mail!WorkerStates
    <3>2. worker.at = "markSent" /\ UNCHANGED <<request, sent, cuts>>
          /\ mailRow' = [mailRow EXCEPT ![worker.mail] = "SENT"]
      BY <2>7 DEF Mail!MarkSent
    <3> QED BY <2>a, <3>1, <3>2 DEF Mail!InTransaction
  <2>8. CASE Mail!MarkFailed
    <3>1. worker'.at \in {"stamp", "end", "claim"} /\ worker'.todo \subseteq worker.todo
      BY <2>8 DEF Mail!MarkFailed, Mail!AfterMail, Mail!TypeOK, Mail!WorkerStates
    <3>2. worker.at = "markFailed" /\ UNCHANGED <<request, sent, cuts>>
          /\ mailRow' = [mailRow EXCEPT ![worker.mail] = "FAILED"]
      BY <2>8 DEF Mail!MarkFailed
    <3> QED BY <2>a, <3>1, <3>2 DEF Mail!InTransaction
  <2>9. CASE Mail!Stamp
    BY <2>b, <2>9 DEF Mail!Stamp, Mail!TypeOK, Mail!WorkerStates
  <2>10. CASE Mail!EndJob
    BY <2>b, <2>10 DEF Mail!EndJob, Mail!Resting
  <2>11. CASE Mail!Crash
    BY <2>a, <2>11 DEF Mail!Crash, Mail!Resting, Mail!InTransaction
  <2>12. ASSUME NEW r \in MailRequests, Mail!ManualClaim(r) \/ Mail!ManualDuplicate(r) PROVE MailInv'
    BY <2>a, <2>12 DEF Mail!ManualClaim, Mail!ManualDuplicate, Mail!InTransaction
  <2>13. ASSUME NEW r \in MailRequests, Mail!ManualSend(r) PROVE MailInv'
    BY <2>a, <2>13 DEF Mail!ManualSend, Mail!InTransaction
  <2>14. ASSUME NEW r \in MailRequests, Mail!ManualCommit(r) PROVE MailInv'
    BY <2>a, <2>14 DEF Mail!ManualCommit, Mail!InTransaction
  <2>15. CASE UNCHANGED Mail!vars
    BY <2>15 DEF Mail!vars, Mail!InTransaction
  <2> QED
    BY <2>1, <2>2, <2>3, <2>4, <2>5, <2>6, <2>7, <2>8, <2>9, <2>10, <2>11, <2>12, <2>13, <2>14, <2>15
    DEF Mail!Next, Mail!Works, Mail!ManualWorks
<1>3. Mail!TypeOK /\ MailInv => EachMailOnce
  BY DEF MailInv, EachMailOnce, Mail!EachMailOnce, Mail!TypeOK
<1> QED
  BY <1>1, <1>2, <1>3, <1>MailTypes, PTL DEF Mail!Spec

-----------------------------------------------------------------------------
MonoHypothesis == Invoices # {} /\ Mono!NoInvoice \notin Invoices /\ MaxDate \in Nat

(* What the next theorem is about: requests that do not overlap and an     *)
(* order with one invoice.  When two overlap, the mark of a paid order is  *)
(* taken back.                                                             *)
OneAtATime ==
  /\ \A v, w \in MonoWorkers : v = w
  /\ \A i, j \in Invoices : i = j

(* The types, with what they need of each other.                           *)
MonoTypes ==
  /\ Mono!TypeOK
  /\ \A w \in MonoWorkers : proc[w].at # "idle" => proc[w].id \in Invoices
  /\ \A i \in Invoices : bank[i].date <= clock

(* A notification, or the answer of the bank, is of what happened: nothing *)
(* it says is newer than the invoice, and after a charge nothing new       *)
(* happens to it.                                                          *)
Said(m) ==
  /\ m.date <= bank[m.invoice].date
  /\ m.status = "success" => /\ bank[m.invoice].state \in {"success", "reversed"}
                             /\ m.date = bank[m.invoice].date

InvoicesTrue ==
  \A i \in Invoices :
    /\ bank[i].state = "none" => bank[i].date = 0
    /\ bank[i].state \in {"success", "reversed"} => bank[i].date > 0
    /\ bank[i].state = "reversed" => monoOrder.status = "CANCELLED"

(* A paid order carries the date of the charge, which nothing said of the  *)
(* invoice exceeds: whatever is told late is outdated.                     *)
PaidIsCharged ==
  monoOrder.status = "PROCESSING" =>
    /\ monoOrder.pay = "success"
    /\ \A i \in Invoices : bank[i].state = "success" /\ monoOrder.modified = bank[i].date

(* The one request under way has seen the order as it still is.            *)
RequestsTrue ==
  \A w \in MonoWorkers :
    /\ proc[w].at \in {"status", "apply"} => proc[w].saw = monoOrder.modified
    /\ proc[w].at \in {"apply", "refund", "refunded"} => Said(proc[w].msg)
    /\ proc[w].at = "apply" /\ monoOrder.status = "PROCESSING" => proc[w].msg.date > 0
    /\ proc[w].at \in {"refund", "refunded"} => monoOrder.status = "CANCELLED"

MonoInv ==
  /\ InvoicesTrue /\ PaidIsCharged /\ RequestsTrue
  /\ \A m \in webhooks : m.date > 0 /\ Said(m)

(* Every variable keeps its type, with any number of requests and invoices.*)
LEMMA MonoTyped == ASSUME MonoHypothesis PROVE Mono!Spec => []MonoTypes
<1> USE MonoHypothesis DEF MonoHypothesis
<1>1. /\ Mono!Some \in Invoices /\ Mono!NoMessage \in Mono!Messages
      /\ Mono!Idle \in Mono!ProcStates /\ Mono!Idle.at = "idle"
  <2>1. Mono!Some \in Invoices
    BY DEF Mono!Some
  <2>2. Mono!NoMessage \in Mono!Messages
    BY <2>1 DEF Mono!NoMessage, Mono!Messages, Mono!States
  <2> QED BY <2>1, <2>2 DEF Mono!Idle, Mono!ProcStates
<1>2. Mono!Init => MonoTypes
  <2> SUFFICES ASSUME Mono!Init PROVE MonoTypes
    OBVIOUS
  <2>1. [state |-> "none", date |-> 0] \in Mono!BankStates
    BY DEF Mono!BankStates, Mono!States
  <2>2. bank \in [Invoices -> Mono!BankStates] /\ \A i \in Invoices : bank[i].date <= clock
    BY <2>1 DEF Mono!Init
  <2>3. monoOrder \in Mono!OrderRows
    BY DEF Mono!Init, Mono!OrderRows, Mono!States
  <2>4. proc \in [MonoWorkers -> Mono!ProcStates] /\ \A w \in MonoWorkers : proc[w].at = "idle"
    BY <1>1 DEF Mono!Init
  <2>5. clock \in 0..MaxDate /\ webhooks = {} /\ admin = "create" /\ reversed = {} /\ crashed = FALSE
    BY DEF Mono!Init
  <2> QED BY <2>2, <2>3, <2>4, <2>5 DEF MonoTypes, Mono!TypeOK
<1>3. MonoTypes /\ [Mono!Next]_Mono!vars => MonoTypes'
  <2> SUFFICES ASSUME MonoTypes, [Mono!Next]_Mono!vars PROVE MonoTypes'
    OBVIOUS
  <2>a. /\ monoOrder \in Mono!OrderRows /\ bank \in [Invoices -> Mono!BankStates]
        /\ webhooks \subseteq Mono!Messages /\ proc \in [MonoWorkers -> Mono!ProcStates]
        /\ clock \in 0..MaxDate /\ reversed \subseteq Invoices /\ crashed \in BOOLEAN
        /\ admin \in {"idle", "remove", "create", "removeCancelled"}
        /\ \A w \in MonoWorkers : proc[w].at # "idle" => proc[w].id \in Invoices
        /\ \A i \in Invoices : bank[i].date <= clock
    BY DEF MonoTypes, Mono!TypeOK
  (* One field of the state at a time. *)
  <2>b. ASSUME UNCHANGED <<bank, clock>>, monoOrder' \in Mono!OrderRows, webhooks' \subseteq Mono!Messages,
               admin' \in {"idle", "remove", "create", "removeCancelled"}, reversed' \subseteq Invoices,
               crashed' \in BOOLEAN,
               \/ UNCHANGED proc
               \/ \E w \in MonoWorkers, p \in Mono!ProcStates :
                    /\ proc' = [proc EXCEPT ![w] = p]
                    /\ p.at # "idle" => p.id \in Invoices
        PROVE  MonoTypes'
    <3>1. /\ proc' \in [MonoWorkers -> Mono!ProcStates]
          /\ \A w \in MonoWorkers : proc'[w].at # "idle" => proc'[w].id \in Invoices
      BY <2>a, <2>b
    <3> QED BY <2>a, <2>b, <3>1 DEF MonoTypes, Mono!TypeOK
  <2>c. ASSUME UNCHANGED <<clock, webhooks, crashed>>, monoOrder' \in Mono!OrderRows,
               admin' \in {"idle", "remove", "create", "removeCancelled"}, reversed' \subseteq Invoices,
               bank' \in [Invoices -> Mono!BankStates], \A i \in Invoices : bank'[i].date <= bank[i].date,
               proc' \in [MonoWorkers -> Mono!ProcStates],
               \A w \in MonoWorkers : proc'[w].at # "idle" => proc'[w].id \in Invoices
        PROVE  MonoTypes'
    <3>1. \A i \in Invoices : bank[i].date \in Nat /\ bank'[i].date \in Nat
      BY <2>a, <2>c DEF Mono!BankStates
    <3> QED BY <2>a, <2>c, <3>1 DEF MonoTypes, Mono!TypeOK
  <2>d. \A w \in MonoWorkers : /\ proc[w] \in Mono!ProcStates /\ proc[w].msg \in Mono!Messages
                               /\ proc[w].msg.status \in Mono!States /\ proc[w].msg.date \in 0..MaxDate
                               /\ proc[w].msg.invoice \in Invoices /\ proc[w].ok \in BOOLEAN
    BY <2>a DEF Mono!ProcStates, Mono!Messages
  <2>e. ASSUME NEW w \in MonoWorkers, NEW l \in {"status", "apply"}, NEW m \in Mono!Messages, Mono!Reads(w, l, m)
        PROVE  \E p \in Mono!ProcStates : proc' = [proc EXCEPT ![w] = p] /\ p.id \in Invoices
    <3> DEFINE p == [Mono!Idle EXCEPT !.at = l, !.msg = m, !.saw = monoOrder.modified,
                       !.id = IF monoOrder.invoice = Mono!NoInvoice THEN m.invoice ELSE monoOrder.invoice]
    <3>1. /\ m.invoice \in Invoices /\ monoOrder.invoice \in Invoices \cup {Mono!NoInvoice}
          /\ monoOrder.modified \in 0..MaxDate
      BY <2>a DEF Mono!Messages, Mono!OrderRows
    <3>2. p \in Mono!ProcStates /\ p.id \in Invoices
      BY <1>1, <3>1 DEF Mono!ProcStates, Mono!Idle
    <3> QED BY <2>e, <3>2 DEF Mono!Reads
  <2>f. ASSUME NEW i \in Invoices, NEW b \in Mono!BankStates, b.date <= bank[i].date,
               bank' = [bank EXCEPT ![i] = b]
        PROVE  bank' \in [Invoices -> Mono!BankStates] /\ \A j \in Invoices : bank'[j].date <= bank[j].date
    <3>1. \A j \in Invoices : bank[j].date \in Nat
      BY <2>a DEF Mono!BankStates
    <3>2. ASSUME NEW j \in Invoices PROVE bank'[j].date <= bank[j].date
      BY <2>a, <2>f, <3>1
    <3>3. bank' \in [Invoices -> Mono!BankStates]
      BY <2>a, <2>f
    <3> QED BY <3>2, <3>3
  <2>g. bank \in [Invoices -> Mono!BankStates] /\ \A j \in Invoices : bank[j].date <= bank[j].date
    BY <2>a DEF Mono!BankStates
  <2>1. ASSUME NEW i \in Invoices, Mono!BankMoves(i) PROVE MonoTypes'
    <3>1. PICK s \in Mono!Moves(bank[i].state) : Mono!SetStatus(i, s)
      BY <2>1 DEF Mono!BankMoves
    <3>2. s \in Mono!States
      BY <3>1 DEF Mono!Moves, Mono!States, Mono!Open, Mono!Charged
    <3>3. clock + 1 \in 0..MaxDate
      BY <2>a, <2>1 DEF Mono!BankMoves
    <3>4. [state |-> s, date |-> clock + 1] \in Mono!BankStates
          /\ [invoice |-> i, status |-> s, date |-> clock + 1] \in Mono!Messages
      BY <3>2, <3>3 DEF Mono!BankStates, Mono!Messages
    <3>5. bank' \in [Invoices -> Mono!BankStates] /\ webhooks' \subseteq Mono!Messages /\ clock' = clock + 1
      BY <2>a, <3>1, <3>4 DEF Mono!SetStatus
    <3>6. \A j \in Invoices : bank'[j].date <= clock'
      <4>1. \A j \in Invoices : bank[j].date \in Nat
        BY <2>a DEF Mono!BankStates
      <4> QED BY <2>a, <3>1, <4>1 DEF Mono!SetStatus
    <3> QED BY <2>a, <2>1, <3>3, <3>5, <3>6 DEF Mono!BankMoves, MonoTypes, Mono!TypeOK
  <2>2. ASSUME NEW w \in MonoWorkers, NEW m \in webhooks, Mono!HandleWebhook(w, m) PROVE MonoTypes'
    <3>1. webhooks' \subseteq webhooks /\ UNCHANGED <<monoOrder, bank, clock, admin, reversed, crashed>>
      BY <2>2 DEF Mono!HandleWebhook
    <3>2. \E p \in Mono!ProcStates : proc' = [proc EXCEPT ![w] = p] /\ p.id \in Invoices
      BY <2>a, <2>e, <2>2 DEF Mono!HandleWebhook
    <3> QED BY <2>a, <2>b, <3>1, <3>2
  <2>3. ASSUME NEW w \in MonoWorkers, Mono!SyncByOrderNumber(w) PROVE MonoTypes'
    <3>1. [Mono!NoMessage EXCEPT !.invoice = monoOrder.invoice] \in Mono!Messages
      BY <1>1, <2>a, <2>3 DEF Mono!SyncByOrderNumber, Mono!Messages, Mono!OrderRows
    <3>2. \E p \in Mono!ProcStates : proc' = [proc EXCEPT ![w] = p] /\ p.id \in Invoices
      BY <2>e, <2>3, <3>1 DEF Mono!SyncByOrderNumber
    <3> QED BY <2>a, <2>b, <2>3, <3>2 DEF Mono!SyncByOrderNumber
  <2>4. ASSUME NEW w \in MonoWorkers, Mono!FetchStatus(w) PROVE MonoTypes'
    <3> DEFINE p == [proc[w] EXCEPT !.at = "apply", !.msg = Mono!Message(proc[w].msg.invoice)]
    <3>1. Mono!Message(proc[w].msg.invoice) \in Mono!Messages
      BY <2>a, <2>d DEF Mono!Message, Mono!Messages, Mono!BankStates
    <3>2. p \in Mono!ProcStates /\ p.id \in Invoices
      BY <2>a, <2>d, <2>4, <3>1 DEF Mono!FetchStatus, Mono!ProcStates
    <3>3. proc' = [proc EXCEPT ![w] = p] /\ UNCHANGED <<monoOrder, bank, clock, webhooks, admin, reversed, crashed>>
      BY <2>4 DEF Mono!FetchStatus
    <3> QED BY <2>a, <2>b, <3>2, <3>3
  <2>5. ASSUME NEW w \in MonoWorkers, Mono!DropOutdated(w) PROVE MonoTypes'
    BY <1>1, <2>a, <2>b, <2>5 DEF Mono!DropOutdated
  <2>6. ASSUME NEW w \in MonoWorkers, Mono!RecordStatus(w) PROVE MonoTypes'
    <3>1. monoOrder' \in Mono!OrderRows
      BY <2>a, <2>d, <2>6 DEF Mono!RecordStatus, Mono!OrderRows
    <3> QED BY <1>1, <2>a, <2>b, <2>6, <3>1 DEF Mono!RecordStatus
  <2>7. ASSUME NEW w \in MonoWorkers, Mono!ApplySuccess(w) PROVE MonoTypes'
    <3>1. monoOrder' \in Mono!OrderRows
      BY <2>a, <2>d, <2>7 DEF Mono!ApplySuccess, Mono!OrderRows, Mono!States, Mono!Charged
    <3>2. /\ [proc[w] EXCEPT !.at = "refund"] \in Mono!ProcStates
          /\ [proc[w] EXCEPT !.at = "refund"].id \in Invoices
      BY <2>a, <2>d, <2>7 DEF Mono!ApplySuccess, Mono!ProcStates
    <3>3. proc' = [proc EXCEPT ![w] = Mono!Idle] \/ proc' = [proc EXCEPT ![w] = [proc[w] EXCEPT !.at = "refund"]]
      BY <2>7 DEF Mono!ApplySuccess
    <3> QED BY <1>1, <2>a, <2>b, <2>7, <3>1, <3>2, <3>3 DEF Mono!ApplySuccess
  <2>8. ASSUME NEW w \in MonoWorkers, Mono!Refund(w) PROVE MonoTypes'
    <3> DEFINE i == proc[w].id
    <3>1. i \in Invoices
      BY <2>a, <2>8 DEF Mono!Refund
    <3>2. PICK ok \in BOOLEAN : proc' = [proc EXCEPT ![w] = [proc[w] EXCEPT !.at = "refunded", !.ok = ok]]
      BY <2>8 DEF Mono!Refund
    <3>3. [proc[w] EXCEPT !.at = "refunded", !.ok = ok] \in Mono!ProcStates
          /\ [proc[w] EXCEPT !.at = "refunded", !.ok = ok].id \in Invoices
      BY <2>d, <3>1 DEF Mono!ProcStates
    <3>4. /\ proc' \in [MonoWorkers -> Mono!ProcStates]
          /\ \A v \in MonoWorkers : proc'[v].at # "idle" => proc'[v].id \in Invoices
      BY <2>a, <3>2, <3>3
    <3>5. /\ [bank[i] EXCEPT !.state = "reversed"] \in Mono!BankStates
          /\ [bank[i] EXCEPT !.state = "reversed"].date = bank[i].date
      BY <2>a, <3>1 DEF Mono!BankStates, Mono!States
    <3>6. bank' = bank \/ bank' = [bank EXCEPT ![i] = [bank[i] EXCEPT !.state = "reversed"]]
      BY <2>8 DEF Mono!Refund
    <3>7. bank[i].date <= bank[i].date
      BY <2>g, <3>1
    <3> HIDE DEF i
    <3>8. bank' \in [Invoices -> Mono!BankStates] /\ \A j \in Invoices : bank'[j].date <= bank[j].date
      <4>1. CASE bank' = bank
        BY <2>g, <4>1
      <4>2. CASE bank' = [bank EXCEPT ![i] = [bank[i] EXCEPT !.state = "reversed"]]
        <5> DEFINE b == [bank[i] EXCEPT !.state = "reversed"]
        <5>1. b \in Mono!BankStates /\ b.date <= bank[i].date /\ bank' = [bank EXCEPT ![i] = b]
          BY <3>5, <3>7, <4>2
        <5> HIDE DEF b
        <5> QED BY <2>f, <3>1, <5>1
      <4> QED BY <3>6, <4>1, <4>2
    <3> QED BY <2>a, <2>c, <2>8, <3>1, <3>4, <3>8 DEF Mono!Refund
  <2>9. ASSUME NEW w \in MonoWorkers, Mono!RecordRefund(w) PROVE MonoTypes'
    <3>1. monoOrder' \in Mono!OrderRows
      BY <2>a, <2>d, <2>9 DEF Mono!RecordRefund, Mono!OrderRows, Mono!States, Mono!Charged
    <3> QED BY <1>1, <2>a, <2>b, <2>9, <3>1 DEF Mono!RecordRefund
  <2>10. ASSUME NEW w \in MonoWorkers, Mono!Crash(w) PROVE MonoTypes'
    <3>1. webhooks' \subseteq Mono!Messages
      BY <2>a, <2>d, <2>10 DEF Mono!Crash
    <3> QED BY <1>1, <2>a, <2>b, <2>10, <3>1 DEF Mono!Crash
  <2>11. CASE Mono!StartRetry
    BY <2>a, <2>b, <2>11 DEF Mono!StartRetry
  <2>12. CASE Mono!CancelUnpaid
    <3>1. monoOrder' \in Mono!OrderRows
      BY <2>a, <2>12 DEF Mono!CancelUnpaid, Mono!OrderRows
    <3> QED BY <2>a, <2>b, <2>12, <3>1 DEF Mono!CancelUnpaid
  <2>13. ASSUME NEW from, NEW to \in {"create", "idle"}, Mono!RemoveInvoice(from, to) PROVE MonoTypes'
    <3>1. bank' \in [Invoices -> Mono!BankStates] /\ \A j \in Invoices : bank'[j].date <= bank[j].date
      <4> DEFINE i == monoOrder.invoice
                 b == [bank[i] EXCEPT !.state = IF bank[i].state \in {"created", "failure"}
                                                THEN "expired" ELSE bank[i].state]
      <4>1. bank' = bank \/ bank' = [bank EXCEPT ![i] = b]
        BY <2>13 DEF Mono!RemoveInvoice
      <4>2. CASE i \in Invoices
        <5>1. b \in Mono!BankStates /\ b.date <= bank[i].date
          BY <2>a, <2>g, <4>2 DEF Mono!BankStates, Mono!States
        <5> HIDE DEF i, b
        <5> QED BY <2>f, <2>g, <4>1, <4>2, <5>1
      <4>3. CASE i \notin Invoices
        <5> HIDE DEF b
        <5>1. bank' = bank
          BY <2>a, <4>1, <4>3
        <5> QED BY <2>g, <5>1
      <4> QED BY <4>2, <4>3
    <3> QED BY <2>a, <2>c, <2>13, <3>1 DEF Mono!RemoveInvoice
  <2>14. ASSUME NEW i \in Invoices, Mono!CreateInvoice(i) PROVE MonoTypes'
    <3>1. [state |-> "created", date |-> 0] \in Mono!BankStates /\ \A j \in Invoices : bank[j].date \in Nat
      BY <2>a DEF Mono!BankStates, Mono!States, Mono!Open
    <3>2. monoOrder' \in Mono!OrderRows
      BY <2>a, <2>14 DEF Mono!CreateInvoice, Mono!OrderRows, Mono!States, Mono!Open
    <3>3. bank' \in [Invoices -> Mono!BankStates] /\ \A j \in Invoices : bank'[j].date <= bank[j].date
      BY <2>a, <2>14, <3>1 DEF Mono!CreateInvoice
    <3> QED BY <2>a, <2>c, <2>14, <3>2, <3>3 DEF Mono!CreateInvoice
  <2>15. CASE UNCHANGED Mono!vars
    BY <2>a, <2>b, <2>15 DEF Mono!vars
  <2> QED
    BY <2>1, <2>2, <2>3, <2>4, <2>5, <2>6, <2>7, <2>8, <2>9, <2>10, <2>11, <2>12, <2>13, <2>14, <2>15
    DEF Mono!Next, Mono!Works, Mono!Admins, Mono!RemoveOld, Mono!RemoveCancelled
<1> QED
  BY <1>2, <1>3, PTL DEF Mono!Spec

(* Notifications that are repeated, late or out of order, the success page *)
(* and the cancellation never take the mark of a paid order back, one      *)
(* request at a time (applyInvoiceStatus, applyPaymentSuccess).            *)
THEOREM PaidStands == ASSUME MonoHypothesis, OneAtATime PROVE Mono!Spec => []PaidStaysPaid
<1> USE OneAtATime DEF OneAtATime
<1>1. Mono!Spec => []MonoTypes
  BY MonoTyped, MonoHypothesis
<1>2. Mono!Init => MonoInv
  BY DEF Mono!Init, Mono!Idle, MonoInv, InvoicesTrue, PaidIsCharged, RequestsTrue
<1>3. MonoTypes /\ MonoInv /\ [Mono!Next]_Mono!vars => MonoInv'
  <2> SUFFICES ASSUME MonoTypes, MonoInv, [Mono!Next]_Mono!vars PROVE MonoInv'
    OBVIOUS
  <2>a. /\ monoOrder \in Mono!OrderRows /\ bank \in [Invoices -> Mono!BankStates]
        /\ webhooks \subseteq Mono!Messages /\ proc \in [MonoWorkers -> Mono!ProcStates]
        /\ clock \in 0..MaxDate
        /\ \A w \in MonoWorkers : proc[w].at # "idle" => proc[w].id \in Invoices
        /\ \A i \in Invoices : bank[i].date <= clock
    BY DEF MonoTypes, Mono!TypeOK
  <2>b. /\ \A i \in Invoices : bank[i].date \in Nat
        /\ \A m \in webhooks : m.invoice \in Invoices /\ m.date \in Nat
        /\ \A w \in MonoWorkers : /\ proc[w].msg.invoice \in Invoices /\ proc[w].msg.date \in Nat
                                  /\ proc[w].saw \in Nat
        /\ monoOrder.modified \in Nat
    BY <2>a, MonoHypothesis
    DEF MonoHypothesis, Mono!BankStates, Mono!Messages, Mono!ProcStates, Mono!OrderRows
  <2>c. /\ \A i \in Invoices : /\ bank[i].state = "none" => bank[i].date = 0
                               /\ bank[i].state \in {"success", "reversed"} => bank[i].date > 0
                               /\ bank[i].state = "reversed" => monoOrder.status = "CANCELLED"
        /\ monoOrder.status = "PROCESSING" =>
             /\ monoOrder.pay = "success"
             /\ \A i \in Invoices : bank[i].state = "success" /\ monoOrder.modified = bank[i].date
        /\ \A m \in webhooks : m.date > 0 /\ Said(m)
    BY DEF MonoInv, InvoicesTrue, PaidIsCharged
  <2>d. ASSUME NEW w \in MonoWorkers
        PROVE  /\ proc[w].at \in {"status", "apply"} => proc[w].saw = monoOrder.modified
               /\ proc[w].at \in {"apply", "refund", "refunded"} => Said(proc[w].msg)
               /\ proc[w].at = "apply" /\ monoOrder.status = "PROCESSING" => proc[w].msg.date > 0
               /\ proc[w].at \in {"refund", "refunded"} => monoOrder.status = "CANCELLED"
    BY DEF MonoInv, RequestsTrue
  (* What has been said of an invoice stays true unless the bank moves it. *)
  <2>e. ASSUME UNCHANGED bank, NEW m, Said(m) PROVE Said(m)'
    BY <2>e DEF Said
  <2>f. ASSUME UNCHANGED <<bank, monoOrder>>, webhooks' \subseteq webhooks, RequestsTrue' PROVE MonoInv'
    BY <2>c, <2>e, <2>f DEF MonoInv, InvoicesTrue, PaidIsCharged, Said
  (* Only the request at work counts, and one that is idle says nothing. *)
  <2>g. ASSUME NEW w \in MonoWorkers, proc' = [proc EXCEPT ![w] = Mono!Idle] PROVE RequestsTrue'
    <3>1. \A v \in MonoWorkers : proc'[v].at = "idle"
      BY <2>a, <2>g DEF Mono!Idle
    <3> QED BY <3>1 DEF RequestsTrue
  <2>h. ASSUME NEW w \in MonoWorkers, NEW l \in {"status", "apply"}, NEW m, Mono!Reads(w, l, m),
               UNCHANGED <<monoOrder, bank>>, l = "apply" => m.date > 0 /\ Said(m)
        PROVE  RequestsTrue'
    <3>1. /\ proc'[w].at = l /\ proc'[w].msg = m /\ proc'[w].saw = monoOrder.modified
          /\ \A v \in MonoWorkers : v = w
      BY <2>a, <2>h DEF Mono!Reads, Mono!Idle
    <3> QED BY <2>e, <2>h, <3>1 DEF RequestsTrue
  <2>1. ASSUME NEW i \in Invoices, Mono!BankMoves(i) PROVE MonoInv'
    <3>1. PICK s \in Mono!Moves(bank[i].state) : Mono!SetStatus(i, s)
      BY <2>1 DEF Mono!BankMoves
    <3>2. /\ bank[i].state \notin {"success", "reversed"} /\ s \notin {"none", "reversed"}
      BY <3>1 DEF Mono!Moves
    <3>3. /\ bank'[i].state = s /\ bank'[i].date = clock + 1 /\ clock \in Nat /\ UNCHANGED <<monoOrder, proc>>
          /\ webhooks' = webhooks \cup {[invoice |-> i, status |-> s, date |-> clock + 1]}
          /\ \A j \in Invoices : j = i
      BY <2>a, <2>1, <3>1 DEF Mono!BankMoves, Mono!SetStatus
    <3>4. ASSUME NEW m, m.invoice \in Invoices, m.date \in Nat, Said(m) PROVE Said(m)'
      BY <2>a, <2>b, <3>2, <3>3, <3>4 DEF Said
    <3>5. ASSUME NEW m, m = [invoice |-> i, status |-> s, date |-> clock + 1] PROVE m.date > 0 /\ Said(m)'
      BY <2>1, <3>1, <3>3, <3>5 DEF Said, Mono!Moves
    <3>6. \A m \in webhooks' : m.date > 0 /\ Said(m)'
      BY <2>b, <2>c, <3>3, <3>4, <3>5
    <3>7. monoOrder.status # "PROCESSING"
      BY <2>c, <3>2
    <3>8. InvoicesTrue' /\ PaidIsCharged'
      BY <2>c, <3>2, <3>3, <3>7 DEF InvoicesTrue, PaidIsCharged
    <3>9. RequestsTrue'
      BY <2>b, <2>d, <3>3, <3>4, <3>7 DEF RequestsTrue
    <3> QED BY <3>6, <3>8, <3>9 DEF MonoInv, Said
  <2>2. ASSUME NEW w \in MonoWorkers, NEW m \in webhooks, Mono!HandleWebhook(w, m) PROVE MonoInv'
    <3>1. webhooks' \subseteq webhooks /\ UNCHANGED <<monoOrder, bank>> /\ Mono!Reads(w, "apply", m)
      BY <2>2 DEF Mono!HandleWebhook
    <3> QED BY <2>c, <2>f, <2>h, <3>1
  <2>3. ASSUME NEW w \in MonoWorkers, Mono!SyncByOrderNumber(w) PROVE MonoInv'
    BY <2>f, <2>h, <2>3 DEF Mono!SyncByOrderNumber
  <2>4. ASSUME NEW w \in MonoWorkers, Mono!FetchStatus(w) PROVE MonoInv'
    <3> DEFINE m == Mono!Message(proc[w].msg.invoice)
    <3>1. /\ proc'[w].at = "apply" /\ proc'[w].msg = m /\ proc'[w].saw = proc[w].saw
          /\ proc[w].at = "status" /\ UNCHANGED <<monoOrder, bank, webhooks>>
          /\ \A v \in MonoWorkers : v = w
      BY <2>a, <2>4 DEF Mono!FetchStatus, Mono!ProcStates
    <3>2. Said(m) /\ (monoOrder.status = "PROCESSING" => m.date > 0)
      BY <2>b, <2>c DEF Said, Mono!Message
    <3> HIDE DEF m
    <3>3. RequestsTrue'
      BY <2>d, <2>e, <3>1, <3>2 DEF RequestsTrue
    <3> QED BY <2>f, <3>1, <3>3
  <2>5. ASSUME NEW w \in MonoWorkers, Mono!DropOutdated(w) PROVE MonoInv'
    BY <2>f, <2>g, <2>5 DEF Mono!DropOutdated
  <2>6. ASSUME NEW w \in MonoWorkers, Mono!RecordStatus(w) PROVE MonoInv'
    (* A paid order has the date of the charge, and nothing newer is said. *)
    <3>1. monoOrder.status # "PROCESSING"
      <4> SUFFICES ASSUME monoOrder.status = "PROCESSING" PROVE Mono!Outdated(w)
        BY <2>6 DEF Mono!RecordStatus
      <4>1. proc[w].msg.date > 0 /\ proc[w].saw = monoOrder.modified /\ Said(proc[w].msg)
        BY <2>d, <2>6 DEF Mono!RecordStatus
      <4>2. monoOrder.modified = bank[proc[w].msg.invoice].date
        BY <2>b, <2>c
      <4> QED BY <2>b, <4>1, <4>2 DEF Mono!Outdated, Said
    <3>2. /\ monoOrder'.status = monoOrder.status /\ UNCHANGED <<bank, webhooks>>
          /\ proc' = [proc EXCEPT ![w] = Mono!Idle]
      BY <2>a, <2>6 DEF Mono!RecordStatus, Mono!OrderRows
    <3> QED BY <2>c, <2>e, <2>g, <3>1, <3>2 DEF MonoInv, InvoicesTrue, PaidIsCharged
  <2>7. ASSUME NEW w \in MonoWorkers, Mono!ApplySuccess(w) PROVE MonoInv'
    <3>1. /\ UNCHANGED <<bank, webhooks>> /\ proc[w].at = "apply" /\ Said(proc[w].msg)
          /\ proc[w].msg.status = "success"
      BY <2>d, <2>7 DEF Mono!ApplySuccess
    <3>2. CASE monoOrder.status = "CANCELLED"
      <4>1. /\ UNCHANGED monoOrder /\ proc'[w].at = "refund" /\ proc'[w].msg = proc[w].msg
            /\ \A v \in MonoWorkers : v = w
        BY <2>a, <2>7, <3>2 DEF Mono!ApplySuccess, Mono!LateSuccess, Mono!ProcStates
      <4>2. RequestsTrue'
        BY <2>e, <3>1, <3>2, <4>1 DEF RequestsTrue
      <4> QED BY <2>f, <3>1, <4>1, <4>2
    <3>3. CASE monoOrder.status # "CANCELLED"
      <4>1. proc' = [proc EXCEPT ![w] = Mono!Idle]
        BY <2>7, <3>3 DEF Mono!ApplySuccess, Mono!LateSuccess
      <4>2. CASE UNCHANGED monoOrder
        BY <2>f, <2>g, <3>1, <4>1, <4>2
      <4>3. CASE ~UNCHANGED monoOrder
        <5>1. monoOrder' = [status |-> "PROCESSING", pay |-> "success", invoice |-> proc[w].id,
                            modified |-> proc[w].msg.date]
          BY <2>7, <3>3, <4>3 DEF Mono!ApplySuccess, Mono!LateSuccess
        <5>2. \A i \in Invoices : bank[i].state = "success" /\ bank[i].date = proc[w].msg.date
          BY <2>b, <2>c, <3>1, <3>3 DEF Said
        <5>3. InvoicesTrue' /\ PaidIsCharged'
          BY <2>c, <3>1, <5>1, <5>2 DEF InvoicesTrue, PaidIsCharged
        <5> QED BY <2>c, <2>e, <2>g, <3>1, <4>1, <5>3 DEF MonoInv
      <4> QED BY <4>2, <4>3
    <3> QED BY <3>2, <3>3
  <2>8. ASSUME NEW w \in MonoWorkers, Mono!Refund(w) PROVE MonoInv'
    <3>1. /\ monoOrder.status = "CANCELLED" /\ UNCHANGED <<monoOrder, webhooks>> /\ Said(proc[w].msg)
          /\ proc'[w].at = "refunded" /\ proc'[w].msg = proc[w].msg /\ \A v \in MonoWorkers : v = w
      BY <2>a, <2>d, <2>8 DEF Mono!Refund, Mono!ProcStates
    <3>2. \A i \in Invoices :
            /\ bank'[i].date = bank[i].date
            /\ \/ bank'[i].state = bank[i].state
               \/ bank[i].state = "success" /\ bank'[i].state = "reversed"
      <4> DEFINE k == proc[w].id
      <4>1. k \in Invoices /\ \A j \in Invoices : j = k
        BY <2>a, <2>8 DEF Mono!Refund
      <4>2. CASE bank' = bank
        BY <4>2
      <4>3. CASE bank' # bank
        <5>1. bank[k].state = "success" /\ bank' = [bank EXCEPT ![k] = [bank[k] EXCEPT !.state = "reversed"]]
          BY <2>8, <4>3 DEF Mono!Refund, Mono!Charged
        <5>2. bank[k] \in Mono!BankStates
          BY <2>a, <4>1
        <5> HIDE DEF k
        <5>3. bank'[k] = [bank[k] EXCEPT !.state = "reversed"]
          BY <2>a, <4>1, <5>1
        <5>4. bank'[k].date = bank[k].date /\ bank'[k].state = "reversed"
          BY <5>2, <5>3 DEF Mono!BankStates
        <5> QED BY <4>1, <5>1, <5>4
      <4> QED BY <4>2, <4>3
    <3>3. ASSUME NEW m, m.invoice \in Invoices, Said(m) PROVE Said(m)'
      BY <3>2, <3>3 DEF Said
    <3>4. InvoicesTrue' /\ PaidIsCharged'
      BY <2>c, <3>1, <3>2 DEF InvoicesTrue, PaidIsCharged
    <3>5. RequestsTrue'
      BY <2>b, <3>1, <3>3 DEF RequestsTrue
    <3>6. \A m \in webhooks' : m.date > 0 /\ Said(m)'
      BY <2>b, <2>c, <3>1, <3>3
    <3> QED BY <3>4, <3>5, <3>6 DEF MonoInv, Said
  <2>9. ASSUME NEW w \in MonoWorkers, Mono!RecordRefund(w) PROVE MonoInv'
    <3>1. monoOrder.status = "CANCELLED"
      BY <2>d, <2>9 DEF Mono!RecordRefund
    <3>2. /\ monoOrder'.status = "CANCELLED" /\ UNCHANGED <<bank, webhooks>>
          /\ proc' = [proc EXCEPT ![w] = Mono!Idle]
      BY <2>a, <2>9, <3>1 DEF Mono!RecordRefund, Mono!OrderRows
    <3> QED BY <2>c, <2>e, <2>g, <3>1, <3>2 DEF MonoInv, InvoicesTrue, PaidIsCharged
  <2>10. ASSUME NEW w \in MonoWorkers, Mono!Crash(w) PROVE MonoInv'
    <3>1. Said(proc[w].msg)
      BY <2>a, <2>d, <2>10 DEF Mono!Crash, Mono!ProcStates
    <3>2. /\ UNCHANGED <<monoOrder, bank>>
          /\ \A m \in webhooks' : m \in webhooks \/ (m = proc[w].msg /\ m.date > 0)
      <4>1. webhooks' = webhooks \cup {m \in {proc[w].msg} : m.date > 0} /\ UNCHANGED <<monoOrder, bank>>
        BY <2>10 DEF Mono!Crash
      <4>2. ASSUME NEW m \in {x \in {proc[w].msg} : x.date > 0} PROVE m = proc[w].msg /\ m.date > 0
        OBVIOUS
      <4> QED BY <4>1, <4>2, Zenon
    <3>3. \A m \in webhooks' : m.date > 0 /\ Said(m)'
      BY <2>c, <2>e, <3>1, <3>2
    <3> QED BY <2>c, <2>g, <2>10, <3>2, <3>3 DEF Mono!Crash, MonoInv, InvoicesTrue, PaidIsCharged, Said
  <2>11. CASE UNCHANGED <<monoOrder, bank, webhooks, proc>>
    <3>1. RequestsTrue'
      BY <2>d, <2>e, <2>11 DEF RequestsTrue
    <3> QED BY <2>f, <2>11, <3>1
  <2>12. CASE Mono!CancelUnpaid
    <3>1. /\ monoOrder.status = "AWAITING_PAYMENT" /\ monoOrder'.status = "CANCELLED"
          /\ monoOrder'.modified = monoOrder.modified /\ UNCHANGED <<bank, webhooks, proc>>
      BY <2>a, <2>12 DEF Mono!CancelUnpaid, Mono!OrderRows
    <3>2. RequestsTrue'
      BY <2>d, <2>e, <3>1 DEF RequestsTrue
    <3> QED BY <2>c, <2>e, <3>1, <3>2 DEF MonoInv, InvoicesTrue, PaidIsCharged
  <2>13. ASSUME NEW from, NEW to, Mono!RemoveInvoice(from, to) PROVE MonoInv'
    <3>1. UNCHANGED <<monoOrder, webhooks, proc>>
      BY <2>13 DEF Mono!RemoveInvoice
    <3>2. \A i \in Invoices : /\ bank'[i].date = bank[i].date
                              /\ \/ bank'[i].state = bank[i].state
                                 \/ bank[i].state \in {"created", "failure"} /\ bank'[i].state = "expired"
      <4> SUFFICES ASSUME NEW i \in Invoices
                   PROVE  /\ bank'[i].date = bank[i].date
                          /\ \/ bank'[i].state = bank[i].state
                             \/ bank[i].state \in {"created", "failure"} /\ bank'[i].state = "expired"
        OBVIOUS
      <4>1. \/ bank' = bank
            \/ bank' = [bank EXCEPT ![monoOrder.invoice] = [bank[monoOrder.invoice] EXCEPT
                          !.state = IF bank[monoOrder.invoice].state \in {"created", "failure"} THEN "expired"
                                    ELSE bank[monoOrder.invoice].state]]
        BY <2>13 DEF Mono!RemoveInvoice
      <4>2. bank[i] \in Mono!BankStates
        BY <2>a
      <4>3. CASE monoOrder.invoice = i
        BY <2>a, <4>1, <4>2, <4>3 DEF Mono!BankStates
      <4>4. CASE monoOrder.invoice # i
        BY <2>a, <4>1, <4>4
      <4> QED BY <4>3, <4>4
    <3>3. ASSUME NEW m, m.invoice \in Invoices, Said(m) PROVE Said(m)'
      BY <3>2, <3>3 DEF Said
    <3>4. InvoicesTrue' /\ PaidIsCharged'
      BY <2>c, <3>1, <3>2 DEF InvoicesTrue, PaidIsCharged
    <3>5. RequestsTrue'
      BY <2>b, <2>d, <3>1, <3>3 DEF RequestsTrue
    <3>6. \A m \in webhooks' : m.date > 0 /\ Said(m)'
      BY <2>b, <2>c, <3>1, <3>3
    <3> QED BY <3>4, <3>5, <3>6 DEF MonoInv, Said
  <2>14. ASSUME NEW i \in Invoices, Mono!CreateInvoice(i) PROVE MonoInv'
    <3>1. /\ bank[i].state = "none" /\ bank[i].date = 0 /\ bank'[i].state = "created" /\ bank'[i].date = 0
          /\ monoOrder'.status = monoOrder.status /\ monoOrder'.modified = monoOrder.modified
          /\ UNCHANGED <<webhooks, proc>> /\ \A j \in Invoices : j = i
      BY <2>a, <2>c, <2>14 DEF Mono!CreateInvoice, Mono!OrderRows
    <3>2. monoOrder.status # "PROCESSING"
      BY <2>c, <3>1
    <3>3. ASSUME NEW m, m.invoice \in Invoices, Said(m) PROVE Said(m)'
      BY <3>1, <3>3 DEF Said
    <3>4. InvoicesTrue' /\ PaidIsCharged'
      BY <3>1, <3>2 DEF InvoicesTrue, PaidIsCharged
    <3>5. RequestsTrue'
      BY <2>b, <2>d, <3>1, <3>2, <3>3 DEF RequestsTrue
    <3>6. \A m \in webhooks' : m.date > 0 /\ Said(m)'
      BY <2>b, <2>c, <3>1, <3>3
    <3> QED BY <3>4, <3>5, <3>6 DEF MonoInv, Said
  <2> QED
    BY <2>1, <2>2, <2>3, <2>4, <2>5, <2>6, <2>7, <2>8, <2>9, <2>10, <2>11, <2>12, <2>13, <2>14
    DEF Mono!Next, Mono!Works, Mono!Admins, Mono!RemoveOld, Mono!RemoveCancelled, Mono!StartRetry, Mono!vars
<1>4. MonoInv => PaidStaysPaid
  BY DEF MonoInv, PaidIsCharged, PaidStaysPaid, Mono!PaidStaysPaid
<1> QED
  BY <1>1, <1>2, <1>3, <1>4, PTL DEF Mono!Spec

-----------------------------------------------------------------------------
(* Any number of requests and invoices, overlapping as they like: what is  *)
(* said to be a charge was one, and only a cancelled order is paid back.   *)
SaidCharged(m) == m.status = "success" => bank[m.invoice].state \in {"success", "reversed"}

MonoMoney ==
  /\ \A m \in webhooks : SaidCharged(m)
  /\ \A w \in MonoWorkers : /\ SaidCharged(proc[w].msg)
                            /\ proc[w].at = "refund" => monoOrder.status = "CANCELLED"
  /\ \A i \in Invoices : bank[i].state = "reversed" => monoOrder.status = "CANCELLED"

(* The Monobank code implements PaymentPromise too, whatever the bank      *)
(* repeats, reorders or tells late: the mark of a paid order may be lost   *)
(* when two requests overlap, the decision and the money are not.          *)
THEOREM MonoImplements == ASSUME MonoHypothesis PROVE Mono!Spec => Mono!KeepsPromise
<1> DEFINE money == [i \in Invoices |-> Mono!MoneyOf(bank[i].state)]
<1>1. Mono!Spec => []MonoTypes
  BY MonoTyped, MonoHypothesis
<1>2. Mono!Init => Mono!Promise!Init /\ MonoMoney
  BY DEF Mono!Init, Mono!Promise!Init, Mono!MoneyOf, MonoMoney, SaidCharged, Mono!Idle, Mono!NoMessage
<1>3. MonoTypes /\ MonoMoney /\ [Mono!Next]_Mono!vars
      => MonoMoney' /\ [Mono!Promise!Next]_<<monoOrder.status, money>>
  <2> SUFFICES ASSUME MonoTypes, MonoMoney, [Mono!Next]_Mono!vars
               PROVE  MonoMoney' /\ [Mono!Promise!Next]_<<monoOrder.status, money>>
    OBVIOUS
  <2>a. /\ monoOrder \in Mono!OrderRows /\ bank \in [Invoices -> Mono!BankStates]
        /\ webhooks \subseteq Mono!Messages /\ proc \in [MonoWorkers -> Mono!ProcStates]
        /\ \A w \in MonoWorkers : proc[w].at # "idle" => proc[w].id \in Invoices
        /\ \A w \in MonoWorkers : proc[w].msg.invoice \in Invoices
        /\ \A m \in webhooks : m.invoice \in Invoices
    BY DEF MonoTypes, Mono!TypeOK, Mono!Messages, Mono!ProcStates
  <2>i. Mono!Idle.at = "idle" /\ Mono!Idle.msg.status = "none"
    BY DEF Mono!Idle, Mono!NoMessage
  (* A step that leaves the bank and the decision alone. *)
  <2>b. ASSUME UNCHANGED <<bank, monoOrder.status>>,
               \A m \in webhooks' : m \in webhooks \/ \E w \in MonoWorkers : m = proc[w].msg,
               NEW w \in MonoWorkers, \A v \in MonoWorkers : v # w => proc'[v] = proc[v],
               SaidCharged(proc'[w].msg), proc'[w].at = "refund" => monoOrder.status = "CANCELLED"
        PROVE  MonoMoney' /\ UNCHANGED <<monoOrder.status, money>>
    BY <2>b DEF MonoMoney, SaidCharged
  <2>c. ASSUME NEW w \in MonoWorkers, proc' = [proc EXCEPT ![w] = Mono!Idle]
        PROVE  /\ \A v \in MonoWorkers : v # w => proc'[v] = proc[v]
               /\ SaidCharged(proc'[w].msg) /\ proc'[w].at # "refund"
    BY <2>a, <2>c, <2>i DEF SaidCharged
  <2>d. ASSUME NEW w \in MonoWorkers, NEW l \in {"status", "apply"}, NEW m, Mono!Reads(w, l, m)
        PROVE  /\ \A v \in MonoWorkers : v # w => proc'[v] = proc[v]
               /\ proc'[w].msg = m /\ proc'[w].at # "refund"
    BY <2>a, <2>d DEF Mono!Reads, Mono!Idle
  (* One invoice changes at the bank: a charge stays one.                  *)
  <2>e. ASSUME NEW i \in Invoices, NEW b \in Mono!BankStates, bank' = [bank EXCEPT ![i] = b]
        PROVE  /\ \A j \in Invoices : bank'[j] = IF j = i THEN b ELSE bank[j]
               /\ money' = [money EXCEPT ![i] = Mono!MoneyOf(b.state)]
    BY <2>a, <2>e
  <2>1. ASSUME NEW i \in Invoices, Mono!BankMoves(i)
        PROVE  MonoMoney' /\ [Mono!Promise!Next]_<<monoOrder.status, money>>
    <3>1. PICK s \in Mono!Moves(bank[i].state) : Mono!SetStatus(i, s)
      BY <2>1 DEF Mono!BankMoves
    <3>2. /\ bank[i].state \notin {"success", "reversed"} /\ s # "reversed"
          /\ s \in Mono!States
      BY <3>1 DEF Mono!Moves, Mono!States, Mono!Open, Mono!Charged
    <3>3. [state |-> s, date |-> clock + 1] \in Mono!BankStates
      BY <2>1, <3>2, MonoHypothesis
      DEF Mono!BankMoves, Mono!BankStates, MonoHypothesis, MonoTypes, Mono!TypeOK
    <3>4. /\ \A j \in Invoices : bank'[j] = IF j = i THEN [state |-> s, date |-> clock + 1] ELSE bank[j]
          /\ money' = [money EXCEPT ![i] = Mono!MoneyOf(s)]
      BY <2>e, <3>1, <3>3 DEF Mono!SetStatus
    <3>5. MonoMoney'
      BY <2>a, <2>1, <3>1, <3>2, <3>4 DEF Mono!BankMoves, Mono!SetStatus, MonoMoney, SaidCharged
    <3>6. money[i] = "none" /\ UNCHANGED monoOrder.status
      BY <2>1, <3>2 DEF Mono!MoneyOf, Mono!BankMoves
    <3>7. CASE s = "success"
      <4>1. Mono!MoneyOf(s) = "taken"
        BY <3>7 DEF Mono!MoneyOf
      <4>2. Mono!Promise!Taken(i)
        BY <3>4, <3>6, <4>1 DEF Mono!Promise!Taken, Mono!Promise!Moves
      <4> QED BY <3>5, <4>2 DEF Mono!Promise!Next
    <3>8. CASE s # "success"
      <4>1. Mono!MoneyOf(s) = "none"
        BY <3>2, <3>8 DEF Mono!MoneyOf
      <4> QED BY <3>4, <3>5, <3>6, <4>1
    <3> QED BY <3>5, <3>7, <3>8
  <2>2. ASSUME NEW w \in MonoWorkers, NEW m \in webhooks, Mono!HandleWebhook(w, m)
        PROVE  MonoMoney' /\ UNCHANGED <<monoOrder.status, money>>
    <3>1. webhooks' \subseteq webhooks /\ SaidCharged(m)
      BY <2>2 DEF Mono!HandleWebhook, MonoMoney
    <3> QED BY <2>b, <2>d, <2>2, <3>1 DEF Mono!HandleWebhook
  <2>3. ASSUME NEW w \in MonoWorkers, Mono!SyncByOrderNumber(w)
        PROVE  MonoMoney' /\ UNCHANGED <<monoOrder.status, money>>
    <3>1. SaidCharged([Mono!NoMessage EXCEPT !.invoice = monoOrder.invoice])
      BY DEF SaidCharged, Mono!NoMessage
    <3> QED BY <2>b, <2>d, <2>3, <3>1 DEF Mono!SyncByOrderNumber
  <2>4. ASSUME NEW w \in MonoWorkers, Mono!FetchStatus(w)
        PROVE  MonoMoney' /\ UNCHANGED <<monoOrder.status, money>>
    <3>1. SaidCharged(Mono!Message(proc[w].msg.invoice))
      BY DEF SaidCharged, Mono!Message
    <3>2. /\ proc'[w].msg = Mono!Message(proc[w].msg.invoice) /\ proc'[w].at = "apply"
          /\ \A v \in MonoWorkers : v # w => proc'[v] = proc[v]
      BY <2>a, <2>4 DEF Mono!FetchStatus, Mono!ProcStates
    <3> QED BY <2>b, <2>4, <3>1, <3>2 DEF Mono!FetchStatus
  <2>5. ASSUME NEW w \in MonoWorkers, Mono!DropOutdated(w) \/ Mono!RecordStatus(w) \/ Mono!RecordRefund(w)
        PROVE  MonoMoney' /\ UNCHANGED <<monoOrder.status, money>>
    <3>1. /\ proc' = [proc EXCEPT ![w] = Mono!Idle] /\ UNCHANGED <<bank, webhooks>>
          /\ UNCHANGED monoOrder.status
      BY <2>a, <2>5 DEF Mono!DropOutdated, Mono!RecordStatus, Mono!RecordRefund, Mono!OrderRows
    <3> QED BY <2>b, <2>c, <3>1
  <2>6. ASSUME NEW w \in MonoWorkers, Mono!Crash(w)
        PROVE  MonoMoney' /\ UNCHANGED <<monoOrder.status, money>>
    BY <2>b, <2>c, <2>6 DEF Mono!Crash
  <2>7. ASSUME NEW w \in MonoWorkers, Mono!ApplySuccess(w)
        PROVE  MonoMoney' /\ [Mono!Promise!Next]_<<monoOrder.status, money>>
    <3>1. PICK i \in Invoices : bank[i].state \in {"success", "reversed"}
      BY <2>a, <2>7 DEF Mono!ApplySuccess, MonoMoney, SaidCharged
    <3>2. UNCHANGED <<bank, webhooks>>
      BY <2>7 DEF Mono!ApplySuccess
    <3>3. CASE monoOrder.status = "CANCELLED"
      <4>1. proc' = [proc EXCEPT ![w].at = "refund"] /\ UNCHANGED monoOrder
        BY <2>7, <3>3 DEF Mono!ApplySuccess, Mono!LateSuccess
      <4>2. proc'[w].msg = proc[w].msg /\ \A v \in MonoWorkers : v # w => proc'[v] = proc[v]
        BY <2>a, <4>1 DEF Mono!ProcStates
      <4> QED BY <2>b, <3>2, <3>3, <4>1, <4>2 DEF MonoMoney
    <3>4. CASE monoOrder.status # "CANCELLED"
      <4>1. proc' = [proc EXCEPT ![w] = Mono!Idle]
        BY <2>7, <3>4 DEF Mono!ApplySuccess, Mono!LateSuccess
      <4>2. CASE UNCHANGED monoOrder.status
        BY <2>b, <2>c, <3>2, <4>1, <4>2
      <4>3. CASE ~ UNCHANGED monoOrder.status
        <5>1. monoOrder.status = "AWAITING_PAYMENT" /\ monoOrder'.status = "PROCESSING"
          BY <2>a, <2>7, <3>4, <4>3 DEF Mono!ApplySuccess, Mono!LateSuccess, Mono!OrderRows
        <5>2. money[i] = "taken"
          BY <3>1, <5>1 DEF MonoMoney, Mono!MoneyOf
        <5>3. Mono!Promise!Fulfilled
          BY <3>2, <5>1, <5>2 DEF Mono!Promise!Fulfilled, Mono!Promise!Decided
        <5>4. MonoMoney'
          <6>1. /\ \A v \in MonoWorkers : v # w => proc'[v] = proc[v]
                /\ SaidCharged(proc'[w].msg) /\ proc'[w].at # "refund"
            BY <2>c, <4>1
          <6>2. /\ \A v \in MonoWorkers : SaidCharged(proc[v].msg) /\ proc[v].at # "refund"
                /\ \A m \in webhooks : SaidCharged(m)
                /\ \A j \in Invoices : bank[j].state # "reversed"
            BY <5>1 DEF MonoMoney
          <6> QED BY <3>2, <6>1, <6>2 DEF MonoMoney, SaidCharged
        <5> QED BY <5>3, <5>4 DEF Mono!Promise!Next
      <4> QED BY <4>2, <4>3
    <3> QED BY <3>3, <3>4
  <2>8. ASSUME NEW w \in MonoWorkers, Mono!Refund(w)
        PROVE  MonoMoney' /\ [Mono!Promise!Next]_<<monoOrder.status, money>>
    <3>1. PICK i \in Invoices : i = proc[w].id
      BY <2>a, <2>8 DEF Mono!Refund
    <3>2. monoOrder.status = "CANCELLED" /\ UNCHANGED <<monoOrder, webhooks>>
      BY <2>8 DEF Mono!Refund, MonoMoney
    <3>3. /\ proc'[w].msg = proc[w].msg /\ proc'[w].at = "refunded"
          /\ \A v \in MonoWorkers : v # w => proc'[v] = proc[v]
      BY <2>a, <2>8 DEF Mono!Refund, Mono!ProcStates
    <3>4. CASE UNCHANGED bank
      BY <2>b, <3>2, <3>3, <3>4 DEF MonoMoney
    <3>5. CASE bank[i].state = "success" /\ bank' = [bank EXCEPT ![i].state = "reversed"]
      <4>1. PICK b \in Mono!BankStates : b.state = "reversed" /\ bank' = [bank EXCEPT ![i] = b]
        BY <2>a, <3>5 DEF Mono!BankStates, Mono!States
      <4>2. /\ \A j \in Invoices : bank'[j] = IF j = i THEN b ELSE bank[j]
            /\ money' = [money EXCEPT ![i] = "returned"] /\ money[i] = "taken"
        BY <2>e, <3>5, <4>1 DEF Mono!MoneyOf
      <4>3. MonoMoney'
        BY <2>a, <3>2, <3>3, <4>1, <4>2 DEF MonoMoney, SaidCharged
      <4>4. Mono!Promise!Returned(i)
        BY <3>2, <4>2 DEF Mono!Promise!Returned, Mono!Promise!Moves
      <4> QED BY <4>3, <4>4 DEF Mono!Promise!Next
    <3> QED BY <2>8, <3>1, <3>4, <3>5 DEF Mono!Refund, Mono!Charged
  (* The retry and the cancellation.                                       *)
  <2>9. ASSUME UNCHANGED <<webhooks, proc, monoOrder.status>>, NEW i \in Invoices, NEW b \in Mono!BankStates,
               bank' = [bank EXCEPT ![i] = b], b.state \notin {"success", "reversed"},
               bank[i].state \notin {"success", "reversed"}
        PROVE  MonoMoney' /\ UNCHANGED <<monoOrder.status, money>>
    <3>1. /\ \A j \in Invoices : bank'[j] = IF j = i THEN b ELSE bank[j]
          /\ money' = [money EXCEPT ![i] = Mono!MoneyOf(b.state)]
      BY <2>e, <2>9
    <3>2. money[i] = "none" /\ Mono!MoneyOf(b.state) = "none"
      BY <2>9 DEF Mono!MoneyOf
    <3> QED BY <2>a, <2>9, <3>1, <3>2 DEF MonoMoney, SaidCharged
  <2>10. ASSUME UNCHANGED <<webhooks, proc, bank>>, UNCHANGED monoOrder.status
         PROVE  MonoMoney' /\ UNCHANGED <<monoOrder.status, money>>
    BY <2>10 DEF MonoMoney, SaidCharged
  <2>11. ASSUME Mono!RemoveOld \/ Mono!RemoveCancelled
         PROVE  MonoMoney' /\ UNCHANGED <<monoOrder.status, money>>
    <3>1. PICK from, to : Mono!RemoveInvoice(from, to)
      BY <2>11 DEF Mono!RemoveOld, Mono!RemoveCancelled
    <3>2. UNCHANGED <<webhooks, proc, monoOrder>>
      BY <3>1 DEF Mono!RemoveInvoice
    <3>3. \/ UNCHANGED bank
          \/ /\ monoOrder.invoice \in Invoices
             /\ bank[monoOrder.invoice].state \in {"created", "failure"}
             /\ bank' = [bank EXCEPT ![monoOrder.invoice].state = "expired"]
      BY <2>a, <3>1 DEF Mono!RemoveInvoice, Mono!BankStates
    <3>4. CASE UNCHANGED bank
      BY <2>10, <3>2, <3>4
    <3>5. CASE ~ UNCHANGED bank
      <4>1. PICK i \in Invoices : /\ bank[i].state \in {"created", "failure"}
                                  /\ bank' = [bank EXCEPT ![i].state = "expired"]
        BY <3>3, <3>5
      <4>2. PICK b \in Mono!BankStates : b.state = "expired" /\ bank' = [bank EXCEPT ![i] = b]
        BY <2>a, <4>1 DEF Mono!BankStates, Mono!States
      <4> QED BY <2>9, <3>2, <4>1, <4>2
    <3> QED BY <3>4, <3>5
  <2>12. ASSUME NEW i \in Invoices, Mono!CreateInvoice(i)
         PROVE  MonoMoney' /\ UNCHANGED <<monoOrder.status, money>>
    <3>1. PICK b \in Mono!BankStates : b.state = "created" /\ bank' = [bank EXCEPT ![i] = b]
      <4>1. [state |-> "created", date |-> 0] \in Mono!BankStates
        BY MonoHypothesis DEF Mono!BankStates, Mono!States, Mono!Open, MonoHypothesis
      <4> QED BY <2>12, <4>1 DEF Mono!CreateInvoice
    <3>2. UNCHANGED <<webhooks, proc, monoOrder.status>>
      BY <2>a, <2>12 DEF Mono!CreateInvoice, Mono!OrderRows
    <3>3. bank[i].state = "none"
      BY <2>12 DEF Mono!CreateInvoice
    <3> QED BY <2>9, <3>1, <3>2, <3>3
  <2>13. ASSUME Mono!CancelUnpaid
         PROVE  MonoMoney' /\ [Mono!Promise!Next]_<<monoOrder.status, money>>
    <3>1. /\ UNCHANGED <<webhooks, proc, bank>> /\ monoOrder.status = "AWAITING_PAYMENT"
          /\ monoOrder'.status = "CANCELLED"
      BY <2>a, <2>13 DEF Mono!CancelUnpaid, Mono!OrderRows
    <3>2. Mono!Promise!Cancelled
      BY <3>1 DEF Mono!Promise!Cancelled, Mono!Promise!Decided
    <3>3. MonoMoney'
      BY <3>1 DEF MonoMoney, SaidCharged
    <3> QED BY <3>2, <3>3 DEF Mono!Promise!Next
  <2>14. CASE Mono!StartRetry \/ UNCHANGED Mono!vars
    BY <2>10, <2>14 DEF Mono!StartRetry, Mono!vars
  <2> HIDE DEF money
  <2> QED
    BY <2>1, <2>2, <2>3, <2>4, <2>5, <2>6, <2>7, <2>8, <2>11, <2>12, <2>13, <2>14
    DEF Mono!Next, Mono!Works, Mono!Admins
<1> QED
  BY <1>1, <1>2, <1>3, PTL DEF Mono!Spec, Mono!KeepsPromise, Mono!Promise!Spec

-----------------------------------------------------------------------------
(* A balance is read and written under one lock while no reward overlaps a *)
(* checkout; when one does, points are lost.                               *)
PointsHypothesis ==
  /\ ~Overlap
  /\ Wish \in Nat /\ Reward \in Nat /\ Opening \in Nat
  /\ Checkouts \cap (Credits \cup Friends) = {} /\ Points!Nobody \notin Checkouts
  /\ For \in [Credits -> Friends]

(* One transaction at a time, and what it has read is still the balance.   *)
PointsInv ==
  /\ \A a, b \in Points!Actors : Points!InTransaction(a) /\ Points!InTransaction(b) => a = b
  /\ \A c \in Checkouts : pointsPc[c] # "write" /\ (pointsPc[c] \in {"read", "commit"} => counter = c)
  /\ \A r \in Credits : pointsPc[r] \in {"start", "read", "write", "done"}
  /\ \A a \in Points!Actors : pointsPc[a] \in {"commit", "write"} => pointsSaw[a] = Points!Balance
  /\ Points!BalanceIsTheSum

(* An order has one entry, a redemption, until its checkout is refused.    *)
Written(c) == {i \in DOMAIN ledger : ledger[i].order = c}

OneEntry ==
  \A c \in Checkouts :
    /\ pointsPc[c] \notin {"export", "restore", "done", "failed"} => Written(c) = {}
    /\ pointsPc[c] # "failed" => \A i, j \in Written(c) : i = j /\ ledger[i].delta < 0

(* Every entry of the ledger has the balance before it and its own points  *)
(* for a balance, and none is negative: redemptions, rewards and the       *)
(* compensation of refused checkouts neither lose nor invent points        *)
(* (writePointsRedemption, creditReferrerPoints).                          *)
THEOREM PointsAddUp == ASSUME PointsHypothesis PROVE Points!Spec => []BalanceIsTheSum
(* The newest entry has the balance, which is never negative.              *)
<1>LedgerReads.
    ASSUME PointsHypothesis, Points!TypeOK
    PROVE  /\ Len(ledger) \in Nat /\ DOMAIN ledger = 1..Len(ledger)
           /\ \A i \in DOMAIN ledger : ledger[i].delta \in Int /\ ledger[i].balance \in Int
           /\ Points!Balance \in Int
           /\ Points!BalanceIsTheSum => Points!Balance >= 0
  <2> USE <1>LedgerReads
  <2>1. /\ Len(ledger) \in Nat /\ DOMAIN ledger = 1..Len(ledger)
        /\ \A i \in DOMAIN ledger : ledger[i] \in Points!LedgerEntries
        /\ ledger # <<>> => Len(ledger) \in DOMAIN ledger
    BY DEF Points!TypeOK
  <2>2. \A i \in DOMAIN ledger : ledger[i].delta \in Int /\ ledger[i].balance \in Int
    BY <2>1 DEF Points!LedgerEntries
  <2> QED
    BY <2>1, <2>2, PointsHypothesis DEF PointsHypothesis, Points!Balance, Points!Last, Points!BalanceIsTheSum
(* An entry is added at the end; sums stay right if it adds to the balance *)
(* what it says.                                                           *)
<1>LedgerGrows.
    ASSUME PointsHypothesis, Points!TypeOK,
           NEW d \in Int, NEW b \in Int, NEW o \in Checkouts \cup Friends, Points!Write(d, b, o)
    PROVE  /\ ledger' \in Seq(Points!LedgerEntries)
           /\ Points!Balance' = b
           /\ DOMAIN ledger' = 1..(Len(ledger) + 1) /\ DOMAIN ledger = 1..Len(ledger)
           /\ \A i \in DOMAIN ledger : ledger'[i] = ledger[i]
           /\ ledger'[Len(ledger) + 1] = [delta |-> d, balance |-> b, order |-> o]
           /\ Points!BalanceIsTheSum /\ b = Points!Balance + d /\ b >= 0 => Points!BalanceIsTheSum'
  <2> USE <1>LedgerGrows
  <2> DEFINE E == Points!LedgerEntries
             e == [delta |-> d, balance |-> b, order |-> o]
  <2>1. ledger \in Seq(E) /\ e \in E /\ ledger' = Append(ledger, e)
    BY DEF Points!Write, Points!Entry, Points!TypeOK, Points!LedgerEntries
  <2> HIDE DEF E
  <2>2. /\ ledger' \in Seq(E) /\ Len(ledger) \in Nat /\ Len(ledger') = Len(ledger) + 1
        /\ DOMAIN ledger' = 1..(Len(ledger) + 1) /\ DOMAIN ledger = 1..Len(ledger)
        /\ \A i \in DOMAIN ledger : ledger'[i] = ledger[i]
        /\ ledger'[Len(ledger) + 1] = e
    BY <2>1
  <2>3. Points!Balance' = b
    BY <2>2 DEF Points!Balance, Points!Last
  <2>4. Points!Balance = Points!BalanceAfter(Len(ledger))
    BY <2>1, <2>2 DEF Points!Balance, Points!Last, Points!BalanceAfter
  <2>5. ASSUME Points!BalanceIsTheSum, b = Points!Balance + d, b >= 0 PROVE Points!BalanceIsTheSum'
    <3>1. ASSUME NEW i \in Nat, i <= Len(ledger) PROVE Points!BalanceAfter(i)' = Points!BalanceAfter(i)
      BY <2>2, <3>1 DEF Points!BalanceAfter
    <3>2. ASSUME NEW i \in DOMAIN ledger'
          PROVE  ledger'[i].balance = Points!BalanceAfter(i - 1)' + ledger'[i].delta /\ ledger'[i].balance >= 0
      <4>1. i - 1 \in Nat /\ i - 1 <= Len(ledger) /\ Points!BalanceAfter(i - 1)' = Points!BalanceAfter(i - 1)
        BY <2>2, <3>1
      <4>2. CASE i \in DOMAIN ledger
        BY <2>2, <2>5, <4>1, <4>2 DEF Points!BalanceIsTheSum
      <4>3. CASE i = Len(ledger) + 1
        BY <2>2, <2>4, <2>5, <4>1, <4>3
      <4> QED BY <2>2, <4>2, <4>3
    <3> QED BY <3>2 DEF Points!BalanceIsTheSum
  <2> QED BY <2>2, <2>3, <2>5 DEF E
(* The ledger and what the transactions have read keep their types.        *)
<1>PointsTypes. ASSUME PointsHypothesis PROVE Points!Spec => []Points!TypeOK
  <2> USE <1>PointsTypes
  <2> USE PointsHypothesis DEF PointsHypothesis
  <2>1. Points!Init => Points!TypeOK
    BY DEF Points!Init, Points!TypeOK
  <2>2. Points!TypeOK /\ [Points!Next]_Points!vars => Points!TypeOK'
    <3> SUFFICES ASSUME Points!TypeOK, [Points!Next]_Points!vars PROVE Points!TypeOK'
      OBVIOUS
    <3> DEFINE E == Points!LedgerEntries
    <3>a. /\ pointsPc \in [Points!Actors -> {"start", "create", "read", "write", "commit",
                                            "export", "restore", "done", "failed"}]
          /\ pointsSaw \in [Points!Actors -> Int] /\ discount \in [Checkouts -> Nat] /\ rewarded \subseteq Friends
          /\ counter \in Checkouts \cup {Points!Nobody} /\ ledger \in Seq(E)
      BY DEF Points!TypeOK
    <3>b. Points!Balance \in Int
      BY <1>LedgerReads
    <3>c. ASSUME NEW d \in Int, NEW b \in Int, NEW o \in Checkouts \cup Friends, Points!Write(d, b, o)
          PROVE  ledger' \in Seq(E)
      BY <3>c, <1>LedgerGrows
    <3>d. \A i \in DOMAIN ledger : ledger[i].delta \in Int
      BY <1>LedgerReads
    <3> HIDE DEF E
    <3> USE DEF Points!Goto, Points!Actors
    <3>e. ASSUME ledger' \in Seq(E), counter' \in Checkouts \cup {Points!Nobody},
                 pointsPc' \in [Points!Actors -> {"start", "create", "read", "write", "commit",
                                                  "export", "restore", "done", "failed"}],
                 pointsSaw' \in [Points!Actors -> Int], discount' \in [Checkouts -> Nat], rewarded' \subseteq Friends
          PROVE  Points!TypeOK'
      BY <3>e DEF Points!TypeOK, E
    <3>1. ASSUME NEW c \in Checkouts, Points!PreviewPointsRedemption(c) PROVE Points!TypeOK'
      <4>1. discount' \in [Checkouts -> Nat] /\ UNCHANGED <<ledger, counter, pointsSaw, rewarded>>
        <5>1. discount' = discount \/ discount' = [discount EXCEPT ![c] = Wish]
          BY <3>1 DEF Points!PreviewPointsRedemption
        <5> QED BY <3>a, <3>1, <5>1 DEF Points!PreviewPointsRedemption
      <4>2. \E l \in {"create", "failed"} : pointsPc' = [pointsPc EXCEPT ![c] = l]
        BY <3>1 DEF Points!PreviewPointsRedemption
      <4> QED BY <3>a, <3>e, <4>1, <4>2
    <3>2. ASSUME NEW c \in Checkouts, Points!Begin(c) \/ Points!Accepted(c) \/ Points!ErpRefuses(c)
          PROVE  Points!TypeOK'
      BY <3>a, <3>e, <3>2 DEF Points!Begin, Points!Accepted, Points!ErpRefuses
    <3>3. ASSUME NEW c \in Checkouts, Points!ReadBalance(c) PROVE Points!TypeOK'
      BY <3>a, <3>b, <3>e, <3>3 DEF Points!ReadBalance
    <3>4. ASSUME NEW c \in Checkouts, Points!RollBack(c) PROVE Points!TypeOK'
      BY <3>a, <3>e, <3>4 DEF Points!RollBack
    <3>5. ASSUME NEW c \in Checkouts, Points!Commit(c) PROVE Points!TypeOK'
      <4>1. Points!Redeemed(c) \in Int /\ pointsSaw[c] \in Int
        BY <3>a DEF Points!Redeemed, Points!Least
      <4>2. ledger' \in Seq(E)
        BY <3>a, <3>c, <3>5, <4>1 DEF Points!Commit
      <4> QED BY <3>a, <3>e, <3>5, <4>2 DEF Points!Commit
    <3>6. ASSUME NEW c \in Checkouts, Points!Restore(c) PROVE Points!TypeOK'
      <4>1. ledger' \in Seq(E)
        <5>1. CASE UNCHANGED ledger
          BY <3>a, <5>1
        <5>2. ASSUME NEW i \in Points!Entries(c),
                     Points!Write(-ledger[i].delta, Points!Balance - ledger[i].delta, c)
              PROVE  ledger' \in Seq(E)
          <6>1. ledger[i].delta \in Int
            BY <3>d DEF Points!Entries
          <6>2. /\ -ledger[i].delta \in Int /\ Points!Balance - ledger[i].delta \in Int
                /\ c \in Checkouts \cup Friends
            BY <3>b, <6>1
          <6> QED BY <3>c, <5>2, <6>2
        <5> QED BY <3>6, <5>1, <5>2 DEF Points!Restore
      <4> QED BY <3>a, <3>e, <3>6, <4>1 DEF Points!Restore
    <3>7. ASSUME NEW r \in Credits, Points!StartCredit(r) PROVE Points!TypeOK'
      BY <3>a, <3>e, <3>7 DEF Points!StartCredit
    <3>8. ASSUME NEW r \in Credits, Points!ReadForCredit(r) PROVE Points!TypeOK'
      <4>1. pointsSaw' \in [Points!Actors -> Int] /\ UNCHANGED <<ledger, counter, discount, rewarded>>
        BY <3>a, <3>b, <3>8 DEF Points!ReadForCredit
      <4>2. \E l \in {"done", "write"} : pointsPc' = [pointsPc EXCEPT ![r] = l]
        BY <3>8 DEF Points!ReadForCredit
      <4> QED BY <3>a, <3>e, <4>1, <4>2
    <3>9. ASSUME NEW r \in Credits, Points!WriteCredit(r) PROVE Points!TypeOK'
      <4>1. ledger' \in Seq(E)
        BY <3>a, <3>c, <3>9 DEF Points!WriteCredit
      <4> QED BY <3>a, <3>e, <3>9, <4>1 DEF Points!WriteCredit
    <3>10. CASE UNCHANGED Points!vars
      BY <3>10 DEF Points!vars, Points!TypeOK
    <3> QED BY <3>1, <3>2, <3>3, <3>4, <3>5, <3>6, <3>7, <3>8, <3>9, <3>10 DEF Points!Next
  <2> QED
    BY <2>1, <2>2, PTL DEF Points!Spec
<1> USE PointsHypothesis DEF PointsHypothesis
<1> DEFINE Inv == PointsInv /\ OneEntry
<1>1. Points!Init => Inv
  BY DEF Points!Init, PointsInv, OneEntry, Written, Points!BalanceIsTheSum, Points!InTransaction, Points!Actors
<1>2. Points!TypeOK /\ Inv /\ [Points!Next]_Points!vars => Inv'
  <2> SUFFICES ASSUME Points!TypeOK, PointsInv, OneEntry, [Points!Next]_Points!vars PROVE Inv'
    OBVIOUS
  <2>a. /\ pointsPc \in [Points!Actors -> {"start", "create", "read", "write", "commit",
                                          "export", "restore", "done", "failed"}]
        /\ pointsSaw \in [Points!Actors -> Int]
        /\ counter \in Checkouts \cup {Points!Nobody}
        /\ Checkouts \subseteq Points!Actors /\ Credits \subseteq Points!Actors
    BY DEF Points!TypeOK, Points!Actors
  <2>b. Points!Balance \in Nat
    <3>1. Points!BalanceIsTheSum
      BY DEF PointsInv
    <3> QED BY <3>1, <1>LedgerReads
  <2>c. ASSUME UNCHANGED ledger PROVE Points!Balance' = Points!Balance /\ Points!BalanceIsTheSum'
    BY <2>c DEF Points!Balance, Points!BalanceIsTheSum, Points!BalanceAfter, PointsInv, Points!Last
  <2>d. ASSUME NEW d \in Int, NEW o \in Checkouts \cup Friends,
               Points!Balance + d >= 0, Points!Write(d, Points!Balance + d, o)
        PROVE  /\ DOMAIN ledger' = 1..(Len(ledger) + 1) /\ DOMAIN ledger = 1..Len(ledger) /\ Len(ledger) \in Nat
               /\ \A i \in DOMAIN ledger : ledger'[i] = ledger[i]
               /\ ledger'[Len(ledger) + 1].order = o /\ ledger'[Len(ledger) + 1].delta = d
               /\ Written(o)' = Written(o) \cup {Len(ledger) + 1}
               /\ \A c \in Checkouts : c # o => Written(c)' = Written(c)
               /\ Points!BalanceIsTheSum'
    <3> DEFINE b == Points!Balance + d
    <3>1. b \in Int /\ b >= 0 /\ b = Points!Balance + d /\ Points!Write(d, b, o)
      BY <2>b, <2>d
    <3>2. Points!BalanceIsTheSum
      BY DEF PointsInv
    <3> HIDE DEF b, PointsHypothesis
    <3>3. /\ DOMAIN ledger' = 1..(Len(ledger) + 1) /\ DOMAIN ledger = 1..Len(ledger)
          /\ \A i \in DOMAIN ledger : ledger'[i] = ledger[i]
          /\ ledger'[Len(ledger) + 1] = [delta |-> d, balance |-> b, order |-> o]
          /\ Points!BalanceIsTheSum'
      BY <3>1, <3>2, <1>LedgerGrows
    <3>4. ledger'[Len(ledger) + 1].order = o /\ ledger'[Len(ledger) + 1].delta = d
      BY <3>3
    <3>5. \A k : Written(k)' = {i \in DOMAIN ledger : ledger[i].order = k}
                     \cup (IF k = o THEN {Len(ledger) + 1} ELSE {})
      BY <3>3, <3>4, <1>LedgerReads DEF Written
    <3> QED BY <3>3, <3>4, <3>5, <1>LedgerReads DEF Written
  <2> USE DEF Points!Goto
  <2>1. ASSUME NEW c \in Checkouts,
               Points!PreviewPointsRedemption(c) \/ Points!Accepted(c)
        PROVE  Inv'
    <3>1. UNCHANGED <<ledger, counter, pointsSaw>> /\ pointsPc[c] \in {"start", "export"}
          /\ \E l \in {"create", "failed", "done"} : pointsPc' = [pointsPc EXCEPT ![c] = l]
                   /\ (l = "create" => pointsPc[c] = "start")
      BY <2>1 DEF Points!PreviewPointsRedemption, Points!Accepted
    <3> QED BY <2>a, <2>c, <3>1 DEF PointsInv, OneEntry, Written, Points!InTransaction
  <2>2. ASSUME NEW c \in Checkouts, Points!Begin(c) PROVE Inv'
    <3>1. \A a \in Points!Actors : ~Points!InTransaction(a)
      BY <2>a, <2>2 DEF Points!Begin, Points!NoneUnlocked, PointsInv, Points!InTransaction
    <3> QED BY <2>a, <2>c, <2>2, <3>1 DEF Points!Begin, PointsInv, OneEntry, Written, Points!InTransaction
  <2>3. ASSUME NEW c \in Checkouts, Points!ReadBalance(c) PROVE Inv'
    BY <2>a, <2>c, <2>3 DEF Points!ReadBalance, PointsInv, OneEntry, Written, Points!InTransaction
  <2>4. ASSUME NEW c \in Checkouts, Points!RollBack(c) PROVE Inv'
    BY <2>a, <2>c, <2>4 DEF Points!RollBack, PointsInv, OneEntry, Written, Points!InTransaction
  <2>5. ASSUME NEW c \in Checkouts, Points!ErpRefuses(c) PROVE Inv'
    BY <2>a, <2>c, <2>5
    DEF Points!ErpRefuses, Points!Alone, PointsInv, OneEntry, Written, Points!InTransaction
  <2>6. ASSUME NEW r \in Credits, Points!StartCredit(r) PROVE Inv'
    BY <2>a, <2>c, <2>6
    DEF Points!StartCredit, Points!Alone, PointsInv, OneEntry, Written, Points!InTransaction
  <2>7. ASSUME NEW r \in Credits, Points!ReadForCredit(r) PROVE Inv'
    BY <2>a, <2>c, <2>7 DEF Points!ReadForCredit, PointsInv, OneEntry, Written, Points!InTransaction
  <2>8. CASE UNCHANGED Points!vars
    BY <2>c, <2>8 DEF Points!vars, PointsInv, OneEntry, Written, Points!InTransaction
  <2>9. ASSUME NEW c \in Checkouts, Points!Commit(c) PROVE Inv'
    <3>1. pointsPc[c] = "commit" /\ counter = c /\ pointsSaw[c] = Points!Balance
      BY <2>a, <2>9 DEF Points!Commit, PointsInv
    <3>2. /\ pointsPc' = [pointsPc EXCEPT ![c] = "export"] /\ counter' = Points!Nobody /\ UNCHANGED pointsSaw
      BY <2>9, <3>1 DEF Points!Commit
    <3>3. \A a \in Points!Actors : a # c => pointsPc'[a] \notin {"read", "write", "commit", "restore"}
      BY <2>a, <3>1, <3>2 DEF PointsInv, Points!InTransaction
    <3>4. CASE UNCHANGED ledger
      BY <2>a, <2>c, <3>1, <3>2, <3>3, <3>4 DEF PointsInv, OneEntry, Written, Points!InTransaction
    <3>5. CASE Points!Redeemed(c) > 0 /\ Points!Write(-Points!Redeemed(c), pointsSaw[c] - Points!Redeemed(c), c)
      <4> DEFINE d == -Points!Redeemed(c)
                 n == Len(ledger)
      <4>1. Points!Redeemed(c) \in Nat /\ Points!Redeemed(c) > 0 /\ Points!Redeemed(c) <= Points!Balance
        BY <2>b, <3>1, <3>5 DEF Points!Redeemed, Points!Least
      <4>2. d \in Int /\ d < 0 /\ Points!Balance + d >= 0 /\ Points!Balance + d \in Int
        BY <2>b, <4>1
      <4>3. Points!Write(d, Points!Balance + d, c)
        <5>1. pointsSaw[c] - Points!Redeemed(c) = Points!Balance + d
          BY <2>b, <3>1, <4>1
        <5> QED BY <3>5, <5>1
      <4> HIDE DEF d
      <4>4. /\ DOMAIN ledger' = 1..(n + 1) /\ DOMAIN ledger = 1..n /\ n \in Nat
            /\ \A i \in DOMAIN ledger : ledger'[i] = ledger[i]
            /\ ledger'[n + 1].delta = d
            /\ Written(c)' = Written(c) \cup {n + 1}
            /\ \A k \in Checkouts : k # c => Written(k)' = Written(k)
            /\ Points!BalanceIsTheSum'
        BY <2>d, <4>2, <4>3
      <4> HIDE DEF n
      <4>5. OneEntry'
        <5>1. ASSUME NEW k \in Checkouts, k # c
              PROVE  /\ pointsPc'[k] \notin {"export", "restore", "done", "failed"} => Written(k)' = {}
                     /\ pointsPc'[k] # "failed" => \A i, j \in Written(k)' : i = j /\ ledger'[i].delta < 0
          <6>1. /\ pointsPc'[k] = pointsPc[k] /\ Written(k)' = Written(k)
                /\ \A i \in Written(k) : ledger'[i] = ledger[i]
            BY <2>a, <3>2, <4>4, <5>1 DEF Written
          <6> QED BY <6>1 DEF OneEntry
        <5>2. Written(c)' = {n + 1} /\ pointsPc'[c] = "export"
          BY <2>a, <3>1, <3>2, <4>4 DEF OneEntry
        <5> QED BY <4>2, <4>4, <5>1, <5>2 DEF OneEntry
      <4> QED BY <2>a, <3>2, <3>3, <4>4, <4>5 DEF PointsInv, Points!InTransaction
    <3> QED BY <2>9, <3>4, <3>5 DEF Points!Commit
  <2>10. ASSUME NEW c \in Checkouts, Points!Restore(c) PROVE Inv'
    <3>1. /\ pointsPc[c] = "restore" /\ pointsPc' = [pointsPc EXCEPT ![c] = "failed"]
          /\ UNCHANGED <<counter, pointsSaw>>
      BY <2>10 DEF Points!Restore
    <3>2. \A a \in Points!Actors : pointsPc'[a] \notin {"read", "write", "commit", "restore"}
      BY <2>a, <3>1 DEF PointsInv, Points!InTransaction
    <3>3. CASE UNCHANGED ledger
      BY <2>a, <2>c, <3>1, <3>2, <3>3 DEF PointsInv, OneEntry, Written, Points!InTransaction
    <3>4. ASSUME NEW j \in Points!Entries(c),
                 Points!Write(-ledger[j].delta, Points!Balance - ledger[j].delta, c)
          PROVE  Inv'
      <4> DEFINE d == -ledger[j].delta
                 n == Len(ledger)
      <4>1. ledger[j].delta \in Int /\ ledger[j].delta < 0
        BY <3>1, <3>4, <1>LedgerReads DEF OneEntry, Written, Points!Entries
      <4>2. /\ d \in Int /\ d > 0 /\ Points!Balance + d >= 0 /\ Points!Balance + d \in Int
            /\ Points!Balance - ledger[j].delta = Points!Balance + d
        BY <2>b, <4>1
      <4>3. Points!Write(d, Points!Balance + d, c)
        BY <3>4, <4>2
      <4> HIDE DEF d
      <4>4. /\ DOMAIN ledger' = 1..(n + 1) /\ DOMAIN ledger = 1..n /\ n \in Nat
            /\ \A i \in DOMAIN ledger : ledger'[i] = ledger[i]
            /\ \A k \in Checkouts : k # c => Written(k)' = Written(k)
            /\ Points!BalanceIsTheSum'
        BY <2>d, <4>2, <4>3
      <4> HIDE DEF n
      <4>5. OneEntry'
        <5>1. ASSUME NEW k \in Checkouts, k # c
              PROVE  /\ pointsPc'[k] \notin {"export", "restore", "done", "failed"} => Written(k)' = {}
                     /\ pointsPc'[k] # "failed" => \A i, m \in Written(k)' : i = m /\ ledger'[i].delta < 0
          <6>1. /\ pointsPc'[k] = pointsPc[k] /\ Written(k)' = Written(k)
                /\ \A i \in Written(k) : ledger'[i] = ledger[i]
            BY <2>a, <3>1, <4>4, <5>1 DEF Written
          <6> QED BY <6>1 DEF OneEntry
        <5>2. pointsPc'[c] = "failed"
          BY <2>a, <3>1
        <5> QED BY <5>1, <5>2 DEF OneEntry
      <4> QED BY <2>a, <3>1, <3>2, <4>4, <4>5 DEF PointsInv, Points!InTransaction
    <3> QED BY <2>10, <3>3, <3>4 DEF Points!Restore
  <2>11. ASSUME NEW r \in Credits, Points!WriteCredit(r) PROVE Inv'
    <3>1. pointsPc[r] = "write" /\ pointsSaw[r] = Points!Balance
          /\ pointsPc' = [pointsPc EXCEPT ![r] = "done"] /\ UNCHANGED <<counter, pointsSaw>>
      BY <2>a, <2>11 DEF Points!WriteCredit, PointsInv
    <3>2. \A a \in Points!Actors : pointsPc'[a] \notin {"read", "write", "commit", "restore"}
      BY <2>a, <3>1 DEF PointsInv, Points!InTransaction
    <3> DEFINE n == Len(ledger)
    <3>3. /\ DOMAIN ledger' = 1..(n + 1) /\ DOMAIN ledger = 1..n /\ n \in Nat
          /\ \A i \in DOMAIN ledger : ledger'[i] = ledger[i]
          /\ \A k \in Checkouts : k # For[r] => Written(k)' = Written(k)
          /\ Points!BalanceIsTheSum'
      <4>1. Points!Write(Reward, Points!Balance + Reward, For[r]) /\ For[r] \in Friends
        BY <2>11, <3>1 DEF Points!WriteCredit
      <4>2. Points!Balance + Reward \in Int /\ Points!Balance + Reward >= 0 /\ Reward \in Int
        BY <2>b
      <4> QED BY <2>d, <4>1, <4>2
    <3> HIDE DEF n
    <3>4. For[r] \notin Checkouts
      OBVIOUS
    <3>5. OneEntry'
      <4>1. ASSUME NEW k \in Checkouts
            PROVE  /\ pointsPc'[k] = pointsPc[k] /\ Written(k)' = Written(k)
                   /\ \A i \in Written(k) : ledger'[i] = ledger[i]
        BY <2>a, <3>1, <3>3, <3>4 DEF Written
      <4> QED BY <4>1 DEF OneEntry
    <3> QED BY <2>a, <3>1, <3>2, <3>3, <3>5 DEF PointsInv, Points!InTransaction
  <2> QED
    BY <2>1, <2>2, <2>3, <2>4, <2>5, <2>6, <2>7, <2>8, <2>9, <2>10, <2>11 DEF Points!Next
<1>3. Inv => BalanceIsTheSum
  BY DEF PointsInv, BalanceIsTheSum
<1> QED
  BY <1>1, <1>2, <1>3, <1>PointsTypes, PTL DEF Points!Spec

-----------------------------------------------------------------------------
(* The modules of proofs, for the submissions, the stock and the card      *)
(* payment of OrderLife.                                                   *)
InAnswers == INSTANCE OrderIdempotencyProofs WITH
  Requests <- LateRequests, KeyOf <- [r \in LateRequests |-> KeyOf[r]], Faults <- FaultKinds,
  pc <- latePc, lock <- lateLock, result <- lateResult, orders <- lateOrders, answer <- lateAnswer

InShelf == INSTANCE CheckoutStockProofs WITH
  Faults <- ShelfFaults, order <- shelfOrder, released <- shelfReleased, pc <- shelfPc, saw <- shelfSaw

InCard == INSTANCE CardPaymentProofs WITH
  Workers <- CardWorkers, Calls <- CardCalls, Faults <- CardFaults,
  status <- cardStatus, released <- cardReleased, job <- cardJob

(* However many submissions, keys and failures there are, every answer is  *)
(* an order of the same key and fingerprint that still exists              *)
(* (assertFingerprintMatch, compensateFailedConnectedCheckout).            *)
THEOREM AnswersHold ==
  ASSUME LateRequests \subseteq Requests PROVE InAnswers!Spec => []AnswersAreRight
<1>1. /\ [r \in LateRequests |-> KeyOf[r]] \in [LateRequests -> Keys \cup {NoKey}]
      /\ NoKey \notin Keys
      /\ NoRecord \notin LateRequests /\ NoAnswer \notin LateRequests
      /\ Refused \notin LateRequests /\ NoAnswer # Refused
      /\ FaultKinds \subseteq InAnswers!FaultKinds
  BY KeysAssumption, NullsAssumption DEF FaultKinds, InAnswers!FaultKinds
<1>2. InAnswers!AnswersAreRight => AnswersAreRight
  BY DEF InAnswers!AnswersAreRight, AnswersAreRight, InAnswers!ReplayMatchesRequest, Answers!ReplayMatchesRequest,
         InAnswers!AnsweredOrdersExist, Answers!AnsweredOrdersExist
<1> QED
  BY <1>1, <1>2, InAnswers!AnswersStand, PTL

(* However many orders, carts, cancellations, removals and failures there  *)
(* are, whatever a line wants and the ERP has, a reservation is given back *)
(* once but for the surplus of refused checkouts, and no two checkouts     *)
(* wait for each other (releaseLocalStockReservation, the order number's   *)
(* row lock).                                                              *)
THEOREM StockStands ==
  ASSUME InShelf!StockHypothesis PROVE InShelf!Spec => [](StockAddsUp /\ CheckoutsDoNotDeadlock)
<1>1. InShelf!StockAddsUp => StockAddsUp
  <2>1. \A o : InShelf!Cart(o) = Shelf!Cart(o) /\ InShelf!Checkout(o) = Shelf!Checkout(o)
    BY DEF InShelf!Cart, Shelf!Cart, InShelf!Range, Shelf!Range, InShelf!Checkout, Shelf!Checkout,
           InShelf!Kind, Shelf!Kind, InShelf!Of, Shelf!Of
  <2>2. \A q, os : InShelf!Total(q, os) = Shelf!Total(q, os)
    BY DEF InShelf!Total, Shelf!Total, InShelf!Cardinality, Shelf!Cardinality
  <2>3. ASSUME NEW v PROVE InShelf!Reserved(v) = Shelf!Reserved(v)
    BY <2>1, <2>2 DEF InShelf!Reserved, Shelf!Reserved
  <2>4. ASSUME NEW v PROVE InShelf!Hinted(v) = Shelf!Hinted(v)
    BY <2>1 DEF InShelf!Hinted, Shelf!Hinted, InShelf!Short, Shelf!Short, InShelf!Range, Shelf!Range,
                InShelf!At, Shelf!At
  <2>5. ASSUME NEW v PROVE InShelf!Doubled(v) = Shelf!Doubled(v)
    BY <2>1 DEF InShelf!Doubled, Shelf!Doubled, InShelf!At, Shelf!At
  <2>6. ASSUME NEW v PROVE InShelf!Surplus(v) = Shelf!Surplus(v)
    BY <2>2, <2>4, <2>5 DEF InShelf!Surplus, Shelf!Surplus
  <2> QED BY <2>3, <2>6 DEF InShelf!StockAddsUp, StockAddsUp, Shelf!StockAddsUp
<1>2. InShelf!CheckoutsDoNotDeadlock => CheckoutsDoNotDeadlock
  BY DEF InShelf!CheckoutsDoNotDeadlock, CheckoutsDoNotDeadlock, Shelf!CheckoutsDoNotDeadlock,
         InShelf!At, Shelf!At, InShelf!WaitsFor, Shelf!WaitsFor, InShelf!InTx, Shelf!InTx,
         InShelf!Wants, Shelf!Wants, InShelf!Of, Shelf!Of
<1> QED
  BY <1>1, <1>2, InShelf!StockIsBalanced, InShelf!CheckoutsGoOn, PTL

(* CardPayment's assumptions, for the constants of OrderLife, and a single *)
(* session: with retries a second one can be paid, and exported again.     *)
CardHypothesis ==
  /\ NoSession \notin Sessions
  /\ Delayed \subseteq Sessions
  /\ CardCalls \subseteq InCard!CallKinds
  /\ CardFaults \subseteq InCard!FaultKinds
  /\ NoEvent \notin InCard!Events
  /\ InCard!OneMint

(* However many workers there are and whatever is repeated, lost or fails, *)
(* one payment asks the ERP for one export (claimWebhookEvent,             *)
(* applyPaymentSuccess).                                                   *)
THEOREM ExportStands == ASSUME CardHypothesis PROVE InCard!Spec => []ExportedOnce
<1>1. InCard!ExportedOnce => ExportedOnce
  BY DEF InCard!ExportedOnce, ExportedOnce, Card!ExportedOnce
<1>2. /\ NoSession \notin Sessions
      /\ Delayed \subseteq Sessions
      /\ CardCalls \subseteq InCard!CallKinds
      /\ CardFaults \subseteq InCard!FaultKinds
      /\ NoEvent \notin InCard!Events
      /\ InCard!OneMint
  BY CardHypothesis DEF CardHypothesis
<1> QED
  BY <1>1, <1>2, InCard!ExportsOnce, PTL
==============================================================================
