------------------------------ MODULE ErpExport ------------------------------
(***************************************************************************)
(* The export of one order to the ABRA Flexi ERP: the queue job that       *)
(* exports it, an administrator who exports it by hand, the cancellation   *)
(* that must take the document back (storno), and the payment that lets a  *)
(* card order be exported.  A step of a process is what happens between    *)
(* two awaits: one database statement, one queue call or one ERP request.  *)
(* Not here: the stock the cancellation releases, and the payment          *)
(* documents that follow an export.                                        *)
(***************************************************************************)
EXTENDS Naturals, FiniteSets

CONSTANTS Methods,    \* payment methods the order may have
          Immediates, \* onlineCardErpExportMode may be "immediate" (TRUE) or "on_paid"
          Offlines,   \* the order may have been accepted while the ERP was down
          Calls,      \* the calls this instance makes
          Overlap,    \* a call may start while another is under way
          Faults,     \* the failures this instance admits
          MaxFaults,  \* bound: failed ERP requests
          MaxTries    \* attempts of a job (3 in the code)

CallKinds  == {"pay", "cancel", "syncErp", "restart", "forget"}
FaultKinds ==
  { "transport",  \* an ERP request fails without an effect
    "lost",       \* an ERP request takes effect, its answer is lost
    "business",   \* the ERP refuses the document
    "permanent",  \* the document cannot be built or the VAT tables disagree
    "refused",    \* the ERP refuses the storno
    "noNative" }  \* the document is written, its native id stays unknown

ASSUME ConstantsAssumption ==
  /\ Methods \subseteq {"card", "bank", "cod"}
  /\ Immediates \subseteq BOOLEAN
  /\ Offlines \subseteq BOOLEAN
  /\ Calls \subseteq CallKinds
  /\ Overlap \in BOOLEAN
  /\ Faults \subseteq FaultKinds
  /\ MaxFaults \in Nat
  /\ MaxTries \in Nat \ {0}

VARIABLES
  terms,    \* how the order was placed: [method, immediate, offline]
  status,   \* Order.status
  paid,     \* Order.paymentStatus = success
  row,      \* the order's ERP columns: [erp, ext, native]
  doc,      \* the document in the ERP
  queue,    \* [Jobs -> [at, tries]], the two BullMQ jobs with a fixed jobId
  pc, saw,  \* where each process is, and the ERP columns it read
  faults,   \* failed ERP requests so far
  restarts

vars == <<terms, status, paid, row, doc, queue, pc, saw, faults, restarts>>

Procs == {"worker", "admin", "canceller", "payer"}
Jobs  == {"export", "storno"}

ErpStates == {"NOT_REQUIRED", "PENDING_ERP", "RETRYING", "SYNCED", "FAILED", "ERP_CONFLICT",
              "CANCEL_PENDING_ERP", "CANCEL_SYNCED"}
Rows == [erp : ErpStates, ext : BOOLEAN, native : BOOLEAN]

ExportLabels == {"check", "mark", "read", "lookup", "put", "written", "transport", "permanent",
                 "exception", "exceptionWritten", "conflict"}
CancelLabels == {"cancelRow", "remove", "cancelPending"}
StornoLabels == {"stornoRead", "stornoGet", "storno", "stornoWrite", "stornoFailed", "stornoRefused"}
Labels == {"idle", "enqueue"} \cup ExportLabels \cup CancelLabels \cup StornoLabels

TypeOK ==
  /\ terms \in [method : Methods, immediate : Immediates, offline : Offlines]
  /\ status \in {"AWAITING_PAYMENT", "PROCESSING", "CANCELLED"}
  /\ paid \in BOOLEAN
  /\ row \in Rows
  /\ doc \in {"none", "live", "exception", "storno"}
  /\ queue \in [Jobs -> [at : {"none", "waiting", "active", "kept"}, tries : 1..MaxTries]]
  /\ pc \in [Procs -> Labels]
  /\ saw \in [Procs -> Rows]
  /\ faults \in 0..MaxFaults
  /\ restarts \in 0..1

(* What executeCreate leaves: an order accepted offline has its external   *)
(* id and waits for the ERP; the export is queued unless it has to wait    *)
(* for the payment of a card order.                                        *)
NoRow == [erp |-> "NOT_REQUIRED", ext |-> FALSE, native |-> FALSE]
ExportNow == terms.offline \/ terms.method # "card" \/ terms.immediate

Init ==
  /\ terms \in [method : Methods, immediate : Immediates, offline : Offlines]
  /\ status = IF terms.method = "cod" THEN "PROCESSING" ELSE "AWAITING_PAYMENT"
  /\ paid = FALSE
  /\ row = IF terms.offline THEN [NoRow EXCEPT !.erp = "PENDING_ERP", !.ext = TRUE] ELSE NoRow
  /\ doc = "none"
  /\ queue = [j \in Jobs |->
                [at |-> IF j = "export" /\ ExportNow THEN "waiting" ELSE "none", tries |-> 1]]
  /\ pc = [p \in Procs |-> "idle"]
  /\ saw = [p \in Procs |-> row]
  /\ faults = 0
  /\ restarts = 0

At(p, label)   == pc[p] = label
Goto(p, label) == pc' = [pc EXCEPT ![p] = label]
Idle(p)        == At(p, "idle") /\ (Overlap \/ \A q \in Procs : At(q, "idle"))

orderVars == <<terms, status, paid>>
erpVars   == <<doc, faults>>

(* A request of the ERP fails. *)
Fails(kind) == kind \in Faults /\ faults < MaxFaults /\ faults' = faults + 1

(* queue.add with a fixed jobId: nothing happens while a job of that id    *)
(* exists, finished ones that are kept (removeOnComplete: 50) included.    *)
Added(j) == IF queue[j].at = "none" THEN [queue EXCEPT ![j] = [at |-> "waiting", tries |-> 1]]
            ELSE queue

(* The worker's job ends; the calls of the others just return. *)
End(p, j) ==
  /\ Goto(p, "idle")
  /\ queue' = IF p = "worker" THEN [queue EXCEPT ![j].at = "kept"] ELSE queue

-----------------------------------------------------------------------------
(* The queue's worker (concurrency 1) takes a job: runExportOrderJob or    *)
(* runStornoOrderJob.                                                      *)
Take(j) ==
  /\ Idle("worker")
  /\ queue[j].at = "waiting"
  /\ queue' = [queue EXCEPT ![j].at = "active"]
  /\ Goto("worker", IF j = "export" THEN "check" ELSE "stornoRead")
  /\ UNCHANGED <<orderVars, row, erpVars, saw, restarts>>

(* Bound: BullMQ keeps the last 50 finished jobs. *)
Forget(j) ==
  /\ "forget" \in Calls
  /\ queue[j].at = "kept"
  /\ queue' = [queue EXCEPT ![j].at = "none"]
  /\ UNCHANGED <<orderVars, row, erpVars, pc, saw, restarts>>

Skipped ==
  \/ status = "CANCELLED"
  \/ terms.method = "card" /\ ~ paid
  \/ row.erp \in {"SYNCED", "FAILED", "ERP_CONFLICT", "CANCEL_PENDING_ERP", "CANCEL_SYNCED"}

(* Faulty variant of Check: the payment is not looked at. *)
CheckUnpaid ==
  /\ At("worker", "check")
  /\ Goto("worker", "mark")
  /\ UNCHANGED <<orderVars, row, erpVars, queue, saw, restarts>>

Check ==
  /\ At("worker", "check")
  /\ \/ Skipped /\ End("worker", "export")
     \/ ~ Skipped /\ Goto("worker", "mark") /\ UNCHANGED queue
  /\ UNCHANGED <<orderVars, row, erpVars, saw, restarts>>

(* syncErp by an administrator. *)
StartSyncErp ==
  /\ "syncErp" \in Calls
  /\ Idle("admin")
  /\ status # "CANCELLED"
  /\ row.erp \notin {"CANCEL_PENDING_ERP", "CANCEL_SYNCED"}
  /\ ~ (row.erp = "SYNCED" /\ (row.ext \/ row.native))
  /\ Goto("admin", "mark")
  /\ UNCHANGED <<orderVars, row, erpVars, queue, saw, restarts>>

Mark(p) ==
  /\ At(p, "mark")
  /\ row' = [row EXCEPT !.erp = "RETRYING"]
  /\ Goto(p, "read")
  /\ UNCHANGED <<orderVars, erpVars, queue, saw, restarts>>

(* exportOrder: an order already exported is left alone. *)
Read(p) ==
  /\ At(p, "read")
  /\ \/ row.erp = "SYNCED" /\ row.ext /\ End(p, "export") /\ UNCHANGED saw
     \/ /\ ~ (row.erp = "SYNCED" /\ row.ext)
        /\ saw' = [saw EXCEPT ![p] = row]
        /\ Goto(p, "lookup")
        /\ UNCHANGED queue
  /\ UNCHANGED <<orderVars, row, erpVars, restarts>>

(* GET by external id: a document that exists is adopted; a failed request *)
(* counts as no document.                                                  *)
Lookup(p) ==
  /\ At(p, "lookup")
  /\ \/ doc # "none" /\ saw' = [saw EXCEPT ![p].native = TRUE] /\ Goto(p, "written")
        /\ UNCHANGED faults
     \/ doc = "none" /\ Goto(p, "put") /\ UNCHANGED <<saw, faults>>
     \/ Fails("transport") /\ Goto(p, "put") /\ UNCHANGED saw
  /\ UNCHANGED <<orderVars, row, doc, queue, restarts>>

(* A PUT creates the document or updates the one with the same external id. *)
Stored(kind) == doc' = IF doc = "none" THEN kind ELSE doc

(* Faulty variant of Put: a request that failed counts as accepted. *)
PutUnanswered(p) ==
  /\ At(p, "put")
  /\ \/ Stored("live") /\ UNCHANGED faults
     \/ Fails("transport") /\ UNCHANGED doc
  /\ Goto(p, "written")
  /\ saw' = [saw EXCEPT ![p].native = TRUE]
  /\ UNCHANGED <<orderVars, row, queue, restarts>>

Put(p) ==
  /\ At(p, "put")
  /\ \/ /\ Stored("live")
        /\ \/ saw' = [saw EXCEPT ![p].native = TRUE] /\ UNCHANGED faults
           \/ Fails("noNative") /\ saw' = [saw EXCEPT ![p].native = FALSE]
        /\ Goto(p, "written")
     \/ Fails("lost") /\ Stored("live") /\ Goto(p, "transport") /\ UNCHANGED saw
     \/ Fails("transport") /\ Goto(p, "transport") /\ UNCHANGED <<doc, saw>>
     \/ Fails("permanent") /\ Goto(p, "permanent") /\ UNCHANGED <<doc, saw>>
     \/ /\ Fails("business")
        /\ Goto(p, IF p = "worker" THEN "exception" ELSE "conflict")
        /\ UNCHANGED <<doc, saw>>
  /\ UNCHANGED <<orderVars, row, queue, restarts>>

(* exportOrder in exception mode: a document without reservation. *)
Exception(p) ==
  /\ At(p, "exception")
  /\ \/ /\ Stored("exception")
        /\ saw' = [saw EXCEPT ![p].native = TRUE]
        /\ Goto(p, "exceptionWritten")
        /\ UNCHANGED faults
     \/ Fails("transport") /\ Goto(p, "conflict") /\ UNCHANGED <<doc, saw>>
  /\ UNCHANGED <<orderVars, row, queue, restarts>>

(* The outcome is written whatever the row holds by now. *)
Outcome(p, erp) == row' = [erp |-> erp, ext |-> TRUE, native |-> saw[p].native]

Written(p) ==
  /\ \/ At(p, "written") /\ Outcome(p, "SYNCED")
     \/ At(p, "exceptionWritten") /\ Outcome(p, "ERP_CONFLICT")
     \/ At(p, "permanent") /\ row' = [row EXCEPT !.erp = "FAILED"]
     \/ At(p, "conflict") /\ row' = [row EXCEPT !.erp = "ERP_CONFLICT"]
  /\ End(p, "export")
  /\ UNCHANGED <<orderVars, erpVars, saw, restarts>>

(* Faulty variant of Retry: the last attempt is not told from the others. *)
RetryForgets(p) ==
  /\ At(p, "transport")
  /\ row' = [row EXCEPT !.erp = "RETRYING"]
  /\ End(p, "export")
  /\ UNCHANGED <<orderVars, erpVars, saw, restarts>>

(* Faulty variant of Retry: there is no last attempt. *)
RetryForever(p) ==
  /\ At(p, "transport")
  /\ row' = [row EXCEPT !.erp = "RETRYING"]
  /\ queue' = IF p = "worker"
              THEN [queue EXCEPT !["export"] = [at |-> "waiting", tries |-> @.tries + 1]]
              ELSE Added("export")
  /\ Goto(p, "idle")
  /\ UNCHANGED <<orderVars, erpVars, saw, restarts>>

(* The job is retried up to MaxTries; syncErp puts it into the queue. *)
Retry(p) ==
  /\ At(p, "transport")
  /\ \/ /\ p = "worker" /\ queue["export"].tries < MaxTries
        /\ row' = [row EXCEPT !.erp = "RETRYING"]
        /\ queue' = [queue EXCEPT !["export"] = [at |-> "waiting", tries |-> @.tries + 1]]
        /\ Goto(p, "idle")
     \/ /\ p = "worker" /\ queue["export"].tries = MaxTries
        /\ row' = [row EXCEPT !.erp = "FAILED"]
        /\ End(p, "export")
     \/ /\ p = "admin"
        /\ row' = [row EXCEPT !.erp = "RETRYING"]
        /\ queue' = Added("export")
        /\ Goto(p, "idle")
  /\ UNCHANGED <<orderVars, erpVars, saw, restarts>>

-----------------------------------------------------------------------------
(* applyPaymentSuccess for a card order, then, after its commit,           *)
(* enqueueExportOrderAfterOnlineCardPaid.                                  *)
Pay ==
  /\ "pay" \in Calls
  /\ terms.method = "card" /\ Idle("payer")
  /\ status = "AWAITING_PAYMENT"
  /\ status' = "PROCESSING"
  /\ paid' = TRUE
  /\ Goto("payer", "enqueue")
  /\ UNCHANGED <<terms, row, erpVars, queue, saw, restarts>>

EnqueuePaid ==
  /\ At("payer", "enqueue")
  /\ queue' = IF terms.immediate THEN queue ELSE Added("export")
  /\ Goto("payer", "idle")
  /\ UNCHANGED <<orderVars, row, erpVars, saw, restarts>>

-----------------------------------------------------------------------------
(* Cancellation: cancelUnpaidOrder reads and cancels the order under one   *)
(* lock, patch reads it first and updates it later.  Both then pass what   *)
(* they read to applyRel003CancelSideEffects.                              *)
CancelUnpaid ==
  /\ "cancel" \in Calls
  /\ Idle("canceller")
  /\ status = "AWAITING_PAYMENT"
  /\ status' = "CANCELLED"
  /\ saw' = [saw EXCEPT !["canceller"] = row]
  /\ Goto("canceller", "remove")
  /\ UNCHANGED <<terms, paid, row, erpVars, queue, restarts>>

StartPatch ==
  /\ "cancel" \in Calls
  /\ Idle("canceller")
  /\ status = "PROCESSING"
  /\ saw' = [saw EXCEPT !["canceller"] = row]
  /\ Goto("canceller", "cancelRow")
  /\ UNCHANGED <<orderVars, row, erpVars, queue, restarts>>

CancelRow ==
  /\ At("canceller", "cancelRow")
  /\ status' = "CANCELLED"
  /\ Goto("canceller", "remove")
  /\ UNCHANGED <<terms, paid, row, erpVars, queue, saw, restarts>>

(* removeExportOrderJob: a job being processed is locked and stays. *)
RemoveJob ==
  /\ At("canceller", "remove")
  /\ queue' = IF queue["export"].at = "active" THEN queue
              ELSE [queue EXCEPT !["export"].at = "none"]
  /\ Goto("canceller", "cancelPending")
  /\ UNCHANGED <<orderVars, row, erpVars, saw, restarts>>

NeedsStorno(r) == r.ext \/ r.native \/ r.erp \in {"SYNCED", "CANCEL_SYNCED", "ERP_CONFLICT"}

(* Faulty variant of CancelPending: only a synced order needs a storno. *)
CancelSyncedOnly ==
  /\ At("canceller", "cancelPending")
  /\ row' = IF saw["canceller"].erp \in {"PENDING_ERP", "RETRYING", "FAILED"}
            THEN [row EXCEPT !.erp = "CANCEL_PENDING_ERP"] ELSE row
  /\ Goto("canceller", IF saw["canceller"].erp = "SYNCED" THEN "stornoRead" ELSE "idle")
  /\ UNCHANGED <<orderVars, erpVars, queue, saw, restarts>>

CancelPending ==
  /\ At("canceller", "cancelPending")
  /\ row' = IF saw["canceller"].erp \in {"PENDING_ERP", "RETRYING", "FAILED"}
            THEN [row EXCEPT !.erp = "CANCEL_PENDING_ERP"] ELSE row
  /\ Goto("canceller", IF NeedsStorno(saw["canceller"]) THEN "stornoRead" ELSE "idle")
  /\ UNCHANGED <<orderVars, erpVars, queue, saw, restarts>>

-----------------------------------------------------------------------------
(* stornoOrder, called by the cancellation and by the storno job. *)
StornoRead(p) ==
  /\ At(p, "stornoRead")
  /\ saw' = [saw EXCEPT ![p] = row]
  /\ Goto(p, "stornoGet")
  /\ UNCHANGED <<orderVars, row, erpVars, queue, restarts>>

(* Without a native id and a document found by its external id there is    *)
(* nothing to take back; a failed request counts as not found.             *)
StornoGet(p) ==
  /\ At(p, "stornoGet")
  /\ \E found \in BOOLEAN :
       /\ \/ found = (doc # "none") /\ UNCHANGED faults
          \/ found = FALSE /\ Fails("transport")
       /\ IF found \/ saw[p].native THEN Goto(p, "storno") /\ UNCHANGED queue
                                    ELSE End(p, "storno")
  /\ UNCHANGED <<orderVars, row, doc, saw, restarts>>

(* Faulty variant of Storno: a failed request counts as done. *)
StornoUnanswered(p) ==
  /\ At(p, "storno")
  /\ \/ doc' = "storno" /\ UNCHANGED faults
     \/ Fails("transport") /\ UNCHANGED doc
  /\ Goto(p, "stornoWrite")
  /\ UNCHANGED <<orderVars, row, queue, saw, restarts>>

Storno(p) ==
  /\ At(p, "storno")
  /\ \/ doc' = "storno" /\ Goto(p, "stornoWrite") /\ UNCHANGED faults
     \/ Fails("lost") /\ doc' = "storno" /\ Goto(p, "stornoFailed")
     \/ Fails("transport") /\ Goto(p, "stornoFailed") /\ UNCHANGED doc
     \/ Fails("refused") /\ Goto(p, "stornoRefused") /\ UNCHANGED doc
  /\ UNCHANGED <<orderVars, row, queue, saw, restarts>>

StornoWrite(p) ==
  /\ At(p, "stornoWrite")
  /\ row' = [row EXCEPT !.erp = "CANCEL_SYNCED", !.native = TRUE]
  /\ End(p, "storno")
  /\ UNCHANGED <<orderVars, erpVars, saw, restarts>>

(* The cancellation queues the storno; the job is tried again unless the   *)
(* ERP refused.                                                            *)
StornoFailed(p) ==
  /\ pc[p] \in {"stornoFailed", "stornoRefused"}
  /\ \/ p = "canceller" /\ queue' = Added("storno") /\ Goto(p, "idle")
     \/ /\ p = "worker" /\ At(p, "stornoFailed") /\ queue["storno"].tries < MaxTries
        /\ queue' = [queue EXCEPT !["storno"] = [at |-> "waiting", tries |-> @.tries + 1]]
        /\ Goto(p, "idle")
     \/ /\ p = "worker"
        /\ At(p, "stornoRefused") \/ queue["storno"].tries = MaxTries
        /\ End(p, "storno")
  /\ UNCHANGED <<orderVars, row, erpVars, saw, restarts>>

-----------------------------------------------------------------------------
(* The process restarts: calls are lost, an active job stalls and is taken *)
(* up again (once: bound), and reconcilePendingErpExports queues what the  *)
(* database says is pending.                                               *)
Restart ==
  /\ "restart" \in Calls
  /\ restarts = 0
  /\ restarts' = 1
  /\ pc' = [p \in Procs |-> "idle"]
  /\ LET stalled == [j \in Jobs |-> IF queue[j].at = "active"
                                    THEN [queue[j] EXCEPT !.at = "waiting"] ELSE queue[j]]
     IN  queue' = IF /\ row.erp \in {"PENDING_ERP", "RETRYING"}
                     /\ status # "CANCELLED"
                     /\ queue["export"].at = "none"
                  THEN [stalled EXCEPT !["export"] = [at |-> "waiting", tries |-> 1]]
                  ELSE stalled
  /\ UNCHANGED <<orderVars, row, erpVars, saw>>

-----------------------------------------------------------------------------
ExportStep(p) ==
  Mark(p) \/ Read(p) \/ Lookup(p) \/ Put(p) \/ Exception(p) \/ Written(p) \/ Retry(p)
StornoStep(p) ==
  StornoRead(p) \/ StornoGet(p) \/ Storno(p) \/ StornoWrite(p) \/ StornoFailed(p)

WorkerStep == Check \/ ExportStep("worker") \/ StornoStep("worker") \/ \E j \in Jobs : Take(j)
AdminStep  == ExportStep("admin")
CancelStep == CancelRow \/ RemoveJob \/ CancelPending \/ StornoStep("canceller")

Next ==
  \/ WorkerStep \/ AdminStep \/ CancelStep \/ EnqueuePaid
  \/ StartSyncErp \/ Pay \/ CancelUnpaid \/ StartPatch
  \/ \E j \in Jobs : Forget(j)
  \/ Restart

Spec == Init /\ [][Next]_vars

(* A live process finishes its calls and the queue hands out its jobs.     *)
(* Nothing forces a customer or an administrator to make a call.           *)
FairSpec ==
  /\ Spec
  /\ WF_vars(WorkerStep) /\ WF_vars(AdminStep) /\ WF_vars(CancelStep) /\ WF_vars(EnqueuePaid)

-----------------------------------------------------------------------------
(* The row never claims more than the ERP holds: SYNCED and a native id    *)
(* stand for a document, whichever of the exporters wrote them.            *)
SyncedHasDocument == row.erp = "SYNCED" \/ row.native => doc # "none"

(* CANCEL_SYNCED is written only for a document that was taken back, and   *)
(* no export, retry or late answer brings the document back to life.       *)
CancelSyncedIsStorno == row.erp = "CANCEL_SYNCED" => doc = "storno"

(* The queue creates the document of a card order only after its payment,  *)
(* whatever is paid, cancelled, exported by hand or restarted meanwhile.   *)
WorkerMoves == pc'["worker"] # pc["worker"]
QueueSendsPaid ==
  [][WorkerMoves /\ doc = "none" /\ doc' # "none" => terms.method # "card" \/ paid]_vars

Settled == row.erp \in {"SYNCED", "FAILED", "ERP_CONFLICT"} \/ status = "CANCELLED"

(* An order that may be exported is exported or ends with an error an      *)
(* administrator sees.                                                     *)
ExportSettles == (terms.method # "card" \/ paid) ~> Settled

(* The document of a cancelled order is taken back.                        *)
CancelReachesErp == status = "CANCELLED" /\ doc \in {"live", "exception"} ~> doc = "storno"
=============================================================================
