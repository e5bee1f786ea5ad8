----------------------------- MODULE OrderMail -----------------------------
(***************************************************************************)
(* Mails about one card order.  Each kind has a job with a stable id and a *)
(* Communication row with a unique key; the worker reads the order, claims *)
(* the row, has the provider send, then marks the row.  Beside it the      *)
(* mails an administrator sends by hand, under a row lock.                 *)
(* Not here: what a mail says, the archived PDF, settings that switch a    *)
(* mail off.                                                               *)
(***************************************************************************)
EXTENDS Naturals, FiniteSetsExt

CONSTANTS Events,    \* subset of {"pay", "cancel", "latePay"}: what happens to the order
          Requests,  \* requests of the manual mail, all with one key
          MaxTries,  \* attempts of a job (3 in the code)
          MaxFaults, \* bound: provider failures, and crashes and lost answers
          Faults     \* subset of {"refused", "lost", "crash", "timeout"}

VARIABLES
  order,     \* [status, pay]
  job,       \* [Jobs -> [at, tries]]
  row,       \* [Mails -> status of its Communication row, "none" before]
  stamped,   \* mails whose ...EmailSentAt is set on the order
  worker,    \* the job in hand
  request,   \* [Requests -> where the manual request is]
  sent,      \* [Mails -> Nat]: mails the provider has accepted
  faults, cuts  \* failures so far; those after which nobody knows of a mail sent

vars == <<order, job, row, stamped, worker, request, sent, faults, cuts>>

Jobs == {"bundle", "awaiting", "reminder", "cancelled", "managerCancelled", "refund", "managerRefund"}
Branches(j) == IF j = "bundle" THEN {"confirmation", "managerReady"} ELSE {j}
Manual == "manual"
Mails == {Manual} \cup UNION {Branches(j) : j \in Jobs}
Stamps == {"awaiting", "reminder", "cancelled", "refund"}
Statuses == {"none", "PENDING", "SENT", "SKIPPED", "FAILED"}

Resting == [at |-> "idle", job |-> "bundle", todo |-> {}, mail |-> Manual, ok |-> TRUE]

JobStates    == [at : {"none", "waiting", "active", "completed", "failed"}, tries : 1..MaxTries]
WorkerStates == [at : {"idle", "read", "claim", "check", "send", "markSent", "markFailed", "stamp", "end"},
                 job : Jobs, todo : SUBSET Mails, mail : Mails, ok : BOOLEAN]

TypeOK ==
  /\ order \in [status : {"AWAITING_PAYMENT", "PROCESSING", "CANCELLED"}, pay : {"none", "success", "refunded"}]
  /\ job \in [Jobs -> JobStates]
  /\ row \in [Mails -> Statuses] /\ stamped \subseteq Stamps
  /\ worker \in WorkerStates
  /\ request \in [Requests -> {"start", "send", "commit", "done", "error"}]
  /\ sent \in [Mails -> Nat]
  /\ faults \in 0..MaxFaults /\ cuts \in 0..MaxFaults

Init ==
  /\ order = [status |-> "AWAITING_PAYMENT", pay |-> "none"]
  /\ job = [j \in Jobs |-> [at |-> IF j \in {"awaiting", "reminder"} THEN "waiting" ELSE "none", tries |-> 1]]
  /\ row = [m \in Mails |-> "none"] /\ stamped = {}
  /\ worker = Resting
  /\ request = [r \in Requests |-> "start"]
  /\ sent = [m \in Mails |-> 0]
  /\ faults = 0 /\ cuts = 0

Fault(f) == f \in Faults /\ faults < MaxFaults /\ faults' = faults + 1

-----------------------------------------------------------------------------
(* enqueueOrderEmail: a job that has ended is removed and added again, one *)
(* that has not is left.                                                   *)
Enqueued(js) == [j \in Jobs |-> IF j \in js /\ job[j].at \in {"none", "completed", "failed"}
                                THEN [at |-> "waiting", tries |-> 1] ELSE job[j]]

OrderChanges(event, status, pay, js) ==
  /\ event \in Events
  /\ order' = [status |-> status, pay |-> pay]
  /\ job' = Enqueued(js)
  /\ UNCHANGED <<row, stamped, worker, request, sent, faults, cuts>>

Pay ==
  /\ order.status = "AWAITING_PAYMENT"
  /\ OrderChanges("pay", "PROCESSING", "success", {"bundle"})

Cancel ==
  /\ order.status = "AWAITING_PAYMENT"
  /\ OrderChanges("cancel", "CANCELLED", order.pay, {"cancelled", "managerCancelled"})

(* Each late webhook of a cancelled order asks for the refund mails.       *)
LatePay ==
  /\ order.status = "CANCELLED"
  /\ \E pay \in {"success", "refunded"} :
       OrderChanges("latePay", "CANCELLED", pay, {"refund", "managerRefund"})

-----------------------------------------------------------------------------
TakeJob(j) ==
  /\ worker.at = "idle" /\ job[j].at = "waiting"
  /\ job' = [job EXCEPT ![j].at = "active"]
  /\ worker' = [Resting EXCEPT !.at = "read", !.job = j, !.todo = Branches(j)]
  /\ UNCHANGED <<order, row, stamped, request, sent, faults, cuts>>

(* What the order must be like for the mail to be sent at all.             *)
Wanted(j) ==
  CASE j = "bundle"                    -> order.pay = "success"
    [] j \in {"awaiting", "reminder"} -> order.status = "AWAITING_PAYMENT" /\ order.pay # "success"
    [] j = "cancelled"                -> order.status = "CANCELLED"
    [] OTHER                          -> TRUE

ReadOrder ==
  /\ worker.at = "read"
  /\ worker' = [worker EXCEPT !.at = IF Wanted(worker.job) /\ worker.job \notin stamped THEN "claim" ELSE "end"]
  /\ UNCHANGED <<order, job, row, stamped, request, sent, faults, cuts>>

(* claim: the row of this key is created, or found; SENT and SKIPPED end   *)
(* the matter, PENDING and FAILED are sent again.                          *)
(* Faulty variant of Settled: a mail that was sent does not count.         *)
SkippedOnly(m) == row[m] = "SKIPPED"

Settled(m) == row[m] \in {"SENT", "SKIPPED"}

Claim(m) ==
  /\ worker.at = "claim" /\ m \in worker.todo
  /\ IF Settled(m)
     THEN /\ worker' = [worker EXCEPT !.at = IF worker.todo = {m} THEN "end" ELSE "claim", !.todo = @ \ {m}]
          /\ stamped' = IF row[m] = "SENT" THEN stamped \cup ({m} \cap Stamps) ELSE stamped
          /\ UNCHANGED row
     ELSE /\ worker' = [worker EXCEPT !.at = IF m = "managerCancelled" THEN "check" ELSE "send", !.mail = m]
          /\ row' = [row EXCEPT ![m] = IF @ = "none" THEN "PENDING" ELSE @]
          /\ UNCHANGED stamped
  /\ UNCHANGED <<order, job, request, sent, faults, cuts>>

(* Only the manager's cancellation mail looks at the order after the claim.*)
CheckCancelled ==
  /\ worker.at = "check"
  /\ IF order.status = "CANCELLED"
     THEN worker' = [worker EXCEPT !.at = "send"] /\ UNCHANGED row
     ELSE worker' = [worker EXCEPT !.at = "end"] /\ row' = [row EXCEPT ![worker.mail] = "SKIPPED"]
  /\ UNCHANGED <<order, job, stamped, request, sent, faults, cuts>>

(* The provider: accepted, refused, or accepted with the answer lost.      *)
Send ==
  /\ worker.at = "send"
  /\ \/ /\ sent' = [sent EXCEPT ![worker.mail] = @ + 1]
        /\ worker' = [worker EXCEPT !.at = "markSent"]
        /\ UNCHANGED <<faults, cuts>>
     \/ /\ Fault("refused")
        /\ worker' = [worker EXCEPT !.at = "markFailed"]
        /\ UNCHANGED <<sent, cuts>>
     \/ /\ Fault("lost") /\ cuts' = cuts + 1
        /\ sent' = [sent EXCEPT ![worker.mail] = @ + 1]
        /\ worker' = [worker EXCEPT !.at = "markFailed"]
  /\ UNCHANGED <<order, job, row, stamped, request>>

AfterMail(ok) ==
  LET rest == worker.todo \ {worker.mail} IN
  worker' = [worker EXCEPT !.todo = rest, !.ok = @ /\ ok,
               !.at = IF ok /\ worker.mail \in Stamps THEN "stamp" ELSE IF rest = {} THEN "end" ELSE "claim"]

MarkSent ==
  /\ worker.at = "markSent"
  /\ row' = [row EXCEPT ![worker.mail] = "SENT"]
  /\ AfterMail(TRUE)
  /\ UNCHANGED <<order, job, stamped, request, sent, faults, cuts>>

MarkFailed ==
  /\ worker.at = "markFailed"
  /\ row' = [row EXCEPT ![worker.mail] = "FAILED"]
  /\ AfterMail(FALSE)
  /\ UNCHANGED <<order, job, stamped, request, sent, faults, cuts>>

Stamp ==
  /\ worker.at = "stamp"
  /\ stamped' = stamped \cup {worker.mail}
  /\ worker' = [worker EXCEPT !.at = "end"]
  /\ UNCHANGED <<order, job, row, request, sent, faults, cuts>>

(* Faulty variant of EndJob: a failed branch does not fail the job.        *)
EndAlways ==
  /\ worker.at = "end"
  /\ job' = [job EXCEPT ![worker.job].at = "completed"]
  /\ worker' = Resting
  /\ UNCHANGED <<order, row, stamped, request, sent, faults, cuts>>

(* A branch that failed makes the job throw: it is tried again.            *)
EndJob ==
  /\ worker.at = "end"
  /\ job' = [job EXCEPT ![worker.job] =
       IF worker.ok THEN [@ EXCEPT !.at = "completed"]
       ELSE IF @.tries < MaxTries THEN [at |-> "waiting", tries |-> @.tries + 1]
       ELSE [@ EXCEPT !.at = "failed"]]
  /\ worker' = Resting
  /\ UNCHANGED <<order, row, stamped, request, sent, faults, cuts>>

(* The process dies; the stalled job starts again.                         *)
Crash ==
  /\ worker.at # "idle" /\ Fault("crash")
  /\ cuts' = IF worker.at = "markSent" THEN cuts + 1 ELSE cuts
  /\ job' = [job EXCEPT ![worker.job].at = "waiting"]
  /\ worker' = Resting
  /\ UNCHANGED <<order, row, stamped, request, sent>>

-----------------------------------------------------------------------------
(* sendManualCustomerEmail: one transaction from the claim to the mark.    *)
(* Of two with one key the second waits on the unique key or the row.      *)
InTransaction(r) == request[r] \in {"send", "commit"}

ManualClaim(r) ==
  /\ request[r] = "start"
  /\ ~\E q \in Requests : InTransaction(q)
  /\ request' = [request EXCEPT ![r] = IF row[Manual] = "SENT" THEN "done" ELSE "send"]
  /\ UNCHANGED <<order, job, row, stamped, worker, sent, faults, cuts>>

(* One that was blocked on the unique key meets P2002 once the winner has  *)
(* committed, which ends its transaction with an error.                    *)
ManualDuplicate(r) ==
  /\ request[r] = "start" /\ row[Manual] = "SENT"
  /\ request' = [request EXCEPT ![r] = "error"]
  /\ UNCHANGED <<order, job, row, stamped, worker, sent, faults, cuts>>

ManualSend(r) ==
  /\ request[r] = "send"
  /\ \/ /\ sent' = [sent EXCEPT ![Manual] = @ + 1]
        /\ request' = [request EXCEPT ![r] = "commit"]
        /\ UNCHANGED faults
     \/ \* thrown inside the transaction: the row and its FAILED mark are undone
        /\ Fault("refused")
        /\ request' = [request EXCEPT ![r] = "error"]
        /\ UNCHANGED sent
  /\ UNCHANGED <<order, job, row, stamped, worker, cuts>>

(* The transaction commits, or its timeout has undone it meanwhile.        *)
ManualCommit(r) ==
  /\ request[r] = "commit"
  /\ \/ /\ row' = [row EXCEPT ![Manual] = "SENT"]
        /\ request' = [request EXCEPT ![r] = "done"]
        /\ UNCHANGED <<faults, cuts>>
     \/ /\ Fault("timeout") /\ cuts' = cuts + 1
        /\ request' = [request EXCEPT ![r] = "error"]
        /\ UNCHANGED row
  /\ UNCHANGED <<order, job, stamped, worker, sent>>

-----------------------------------------------------------------------------
Works == ReadOrder \/ CheckCancelled \/ Send \/ MarkSent \/ MarkFailed \/ Stamp \/ EndJob
           \/ (\E m \in Mails : Claim(m)) \/ \E j \in Jobs : TakeJob(j)

ManualWorks(r) == ManualClaim(r) \/ ManualDuplicate(r) \/ ManualSend(r) \/ ManualCommit(r)

Next == Pay \/ Cancel \/ LatePay \/ Works \/ Crash \/ \E r \in Requests : ManualWorks(r)

Spec == Init /\ [][Next]_vars
FairSpec == Spec /\ WF_vars(Works)

-----------------------------------------------------------------------------
(* A mail reaches its reader once, whatever is retried, enqueued again or  *)
(* sent by two administrators at once; it is repeated only when a crash, a *)
(* lost answer or a timed-out transaction hid that it was sent.            *)
EachMailOnce == \A m \in Mails : sent[m] <= 1 + cuts

(* A paid order is confirmed to the customer and announced to the manager: *)
(* a branch that failed is tried again on its own, until the job's         *)
(* attempts are used up.                                                   *)
PaidIsConfirmed ==
  order.status = "PROCESSING"
    ~> ((\A m \in Branches("bundle") : sent[m] > 0) \/ job["bundle"].at = "failed")
=============================================================================
