--------------------------- MODULE ErpExportProofs ---------------------------
(* Theorems about ErpExport, for every kind of order, set of calls and     *)
(* faults and number of attempts.                                          *)
EXTENDS ErpExport, TLAPS

JobStates == [at : {"none", "waiting", "active", "kept"}, tries : 1..MaxTries]

(* Every variable keeps its type, whatever fails and in whatever order the *)
(* worker, the administrator and the cancellation take their steps.        *)
THEOREM TypeCorrect == Spec => []TypeOK
<1> USE DEF Labels, ExportLabels, CancelLabels, StornoLabels, Procs, Jobs
<1>1. Init => TypeOK
  <2> SUFFICES ASSUME Init PROVE TypeOK
    OBVIOUS
  <2>1. NoRow \in Rows /\ [NoRow EXCEPT !.erp = "PENDING_ERP", !.ext = TRUE] \in Rows
    BY DEF NoRow, Rows, ErpStates
  <2>2. row \in Rows /\ saw \in [Procs -> Rows]
    BY <2>1 DEF Init
  <2>3. queue \in [Jobs -> [at : {"none", "waiting", "active", "kept"}, tries : 1..MaxTries]]
    BY ConstantsAssumption DEF Init
  <2>4. status \in {"AWAITING_PAYMENT", "PROCESSING", "CANCELLED"} /\ pc \in [Procs -> Labels]
    BY DEF Init
  <2>5. faults \in 0..MaxFaults /\ restarts \in 0..1
    BY ConstantsAssumption DEF Init
  <2>6. paid \in BOOLEAN /\ doc \in {"none", "live", "exception", "storno"}
    BY DEF Init
  <2>7. terms \in [method : Methods, immediate : Immediates, offline : Offlines]
    BY DEF Init
  <2> QED
    BY <2>2, <2>3, <2>4, <2>5, <2>6, <2>7 DEF TypeOK
<1>2. TypeOK /\ [Next]_vars => TypeOK'
  <2> SUFFICES ASSUME TypeOK, [Next]_vars PROVE TypeOK'
    OBVIOUS
  <2>q. ASSUME NEW j \in Jobs PROVE
          /\ Added(j) \in [Jobs -> JobStates]
          /\ \A at \in {"none", "waiting", "active", "kept"} :
               [queue EXCEPT ![j].at = at] \in [Jobs -> JobStates]
          /\ queue[j].tries < MaxTries =>
               [queue EXCEPT ![j] = [at |-> "waiting", tries |-> @.tries + 1]]
                 \in [Jobs -> JobStates]
    <3>1. MaxTries \in Nat \ {0}
      BY ConstantsAssumption
    <3>2. queue \in [Jobs -> JobStates] /\ queue[j] \in JobStates /\ queue[j].tries \in 1..MaxTries
      BY DEF TypeOK, JobStates
    <3>3. [at |-> "waiting", tries |-> 1] \in JobStates
      BY <3>1 DEF JobStates
    <3>4. Added(j) \in [Jobs -> JobStates]
      BY <3>2, <3>3 DEF Added
    <3>5. \A at \in {"none", "waiting", "active", "kept"} :
            [queue EXCEPT ![j].at = at] \in [Jobs -> JobStates]
      BY <3>2 DEF JobStates
    <3>6. queue[j].tries < MaxTries =>
            [queue EXCEPT ![j] = [at |-> "waiting", tries |-> @.tries + 1]] \in [Jobs -> JobStates]
      BY <3>1, <3>2 DEF JobStates
    <3> QED BY <3>4, <3>5, <3>6
  <2>g. ASSUME NEW p \in Procs, NEW label \in Labels, Goto(p, label)
        PROVE  pc' \in [Procs -> Labels]
    BY <2>g DEF TypeOK, Goto
  <2>r. /\ \A erp \in ErpStates : [row EXCEPT !.erp = erp] \in Rows
        /\ [row EXCEPT !.erp = "CANCEL_SYNCED", !.native = TRUE] \in Rows
        /\ \A p \in Procs, erp \in ErpStates :
             [erp |-> erp, ext |-> TRUE, native |-> saw[p].native] \in Rows
    BY DEF TypeOK, Rows, ErpStates
  <2>s. ASSUME NEW p \in Procs
        PROVE  /\ saw \in [Procs -> Rows]
               /\ [saw EXCEPT ![p] = row] \in [Procs -> Rows]
               /\ [saw EXCEPT ![p].native = TRUE] \in [Procs -> Rows]
               /\ [saw EXCEPT ![p].native = FALSE] \in [Procs -> Rows]
    <3>1. saw \in [Procs -> Rows] /\ row \in Rows
      BY DEF TypeOK
    <3>2. [saw EXCEPT ![p] = row] \in [Procs -> Rows]
      BY <3>1
    <3>3. \A b \in BOOLEAN : [saw[p] EXCEPT !.native = b] \in Rows
      BY <3>1 DEF Rows
    <3>4. \A b \in BOOLEAN : [saw EXCEPT ![p].native = b] \in [Procs -> Rows]
      BY <3>1, <3>3
    <3> QED BY <3>1, <3>2, <3>4
  <2>t. ASSUME NEW p \in Procs,
               \/ saw' = saw
               \/ saw' = [saw EXCEPT ![p] = row]
               \/ saw' = [saw EXCEPT ![p].native = TRUE]
               \/ saw' = [saw EXCEPT ![p].native = FALSE]
        PROVE  saw' \in [Procs -> Rows]
    <3>1. CASE saw' = saw
      BY <2>s, <3>1, Zenon
    <3>2. CASE saw' = [saw EXCEPT ![p] = row]
      BY <2>s, <3>2, Zenon
    <3>3. CASE saw' = [saw EXCEPT ![p].native = TRUE]
      BY <2>s, <3>3, Zenon
    <3>4. CASE saw' = [saw EXCEPT ![p].native = FALSE]
      BY <2>s, <3>4, Zenon
    <3> QED BY <2>t, <3>1, <3>2, <3>3, <3>4
  <2>f. ASSUME NEW kind, Fails(kind) PROVE faults' \in 0..MaxFaults
    BY <2>f, ConstantsAssumption DEF Fails, TypeOK
  <2> USE DEF TypeOK, JobStates, orderVars, erpVars
  <2>1. ASSUME NEW j \in Jobs, Take(j) PROVE TypeOK'
    BY <2>1, <2>q, <2>g DEF Take, Idle
  <2>2. ASSUME NEW j \in Jobs, Forget(j) PROVE TypeOK'
    BY <2>2, <2>q DEF Forget
  <2>3. ASSUME Check PROVE TypeOK'
    <3>1. queue' \in [Jobs -> JobStates]
      BY <2>3, <2>q DEF Check, End
    <3>2. pc' \in [Procs -> Labels]
      BY <2>3, <2>g DEF Check, End
    <3> QED BY <2>3, <3>1, <3>2 DEF Check
  <2>4. ASSUME StartSyncErp PROVE TypeOK'
    BY <2>4, <2>g DEF StartSyncErp
  <2>5. ASSUME Pay PROVE TypeOK'
    BY <2>5, <2>g DEF Pay
  <2>6. ASSUME EnqueuePaid PROVE TypeOK'
    BY <2>6, <2>q, <2>g DEF EnqueuePaid
  <2>7. ASSUME CancelUnpaid PROVE TypeOK'
    BY <2>7, <2>g, <2>s DEF CancelUnpaid
  <2>8. ASSUME StartPatch PROVE TypeOK'
    BY <2>8, <2>g, <2>s DEF StartPatch
  <2>9. ASSUME CancelRow PROVE TypeOK'
    BY <2>9, <2>g DEF CancelRow
  <2>10. ASSUME RemoveJob PROVE TypeOK'
    BY <2>10, <2>q, <2>g DEF RemoveJob
  <2>11. ASSUME CancelPending PROVE TypeOK'
    BY <2>11, <2>g, <2>r DEF CancelPending, ErpStates
  <2>12. ASSUME Restart PROVE TypeOK'
    <3> DEFINE stalled == [j \in Jobs |-> IF queue[j].at = "active"
                                     THEN [queue[j] EXCEPT !.at = "waiting"] ELSE queue[j]]
    <3>1. stalled \in [Jobs -> JobStates]
      OBVIOUS
    <3>2. [stalled EXCEPT !["export"] = [at |-> "waiting", tries |-> 1]] \in [Jobs -> JobStates]
      <4>1. [at |-> "waiting", tries |-> 1] \in JobStates
        BY ConstantsAssumption
      <4> HIDE DEF stalled
      <4> QED BY <3>1, <4>1
    <3>3. queue' \in [Jobs -> JobStates]
      <4>1. \/ queue' = stalled
            \/ queue' = [stalled EXCEPT !["export"] = [at |-> "waiting", tries |-> 1]]
        BY <2>12 DEF Restart
      <4> HIDE DEF stalled
      <4> QED BY <3>1, <3>2, <4>1
    <3> QED
      BY <2>12, <3>3 DEF Restart
  <2>13. ASSUME NEW p \in Procs, Mark(p) PROVE TypeOK'
    BY <2>13, <2>g, <2>r DEF Mark, ErpStates
  <2>14. ASSUME NEW p \in Procs, Read(p) PROVE TypeOK'
    <3>1. queue' \in [Jobs -> JobStates]
      BY <2>14, <2>q DEF Read, End
    <3>2. pc' \in [Procs -> Labels]
      BY <2>14, <2>g DEF Read, End
    <3>3. saw' \in [Procs -> Rows]
      <4>1. saw' = saw \/ saw' = [saw EXCEPT ![p] = row]
        BY <2>14 DEF Read
      <4> QED BY <2>t, <4>1
    <3> QED BY <2>14, <3>1, <3>2, <3>3 DEF Read
  <2>15. ASSUME NEW p \in Procs, Lookup(p) PROVE TypeOK'
    <3>1. faults' \in 0..MaxFaults
      BY <2>15, <2>f DEF Lookup
    <3>2. saw' \in [Procs -> Rows]
      <4>1. saw' = saw \/ saw' = [saw EXCEPT ![p].native = TRUE]
        BY <2>15 DEF Lookup
      <4> QED BY <2>t, <4>1
    <3>3. pc' \in [Procs -> Labels]
      BY <2>15, <2>g DEF Lookup
    <3> QED BY <2>15, <3>1, <3>2, <3>3 DEF Lookup
  <2>16. ASSUME NEW p \in Procs, Put(p) PROVE TypeOK'
    <3>1. doc' \in {"none", "live", "exception", "storno"} /\ faults' \in 0..MaxFaults
      BY <2>16, <2>f DEF Put, Stored
    <3>2. saw' \in [Procs -> Rows]
      <4>1. \/ saw' = saw
            \/ saw' = [saw EXCEPT ![p].native = TRUE]
            \/ saw' = [saw EXCEPT ![p].native = FALSE]
        BY <2>16 DEF Put
      <4> QED BY <2>t, <4>1
    <3>3. pc' \in [Procs -> Labels]
      BY <2>16, <2>g DEF Put
    <3> QED
      BY <2>16, <3>1, <3>2, <3>3 DEF Put
  <2>17. ASSUME NEW p \in Procs, Exception(p) PROVE TypeOK'
    <3>1. doc' \in {"none", "live", "exception", "storno"} /\ faults' \in 0..MaxFaults
      BY <2>17, <2>f DEF Exception, Stored
    <3>2. saw' \in [Procs -> Rows]
      <4>1. saw' = saw \/ saw' = [saw EXCEPT ![p].native = TRUE]
        BY <2>17 DEF Exception
      <4> QED BY <2>t, <4>1
    <3>3. pc' \in [Procs -> Labels]
      BY <2>17, <2>g DEF Exception
    <3> QED BY <2>17, <3>1, <3>2, <3>3 DEF Exception
  <2>18. ASSUME NEW p \in Procs, Written(p) PROVE TypeOK'
    <3>1. row' \in Rows
      BY <2>18, <2>r DEF Written, Outcome, ErpStates
    <3>2. queue' \in [Jobs -> JobStates]
      BY <2>18, <2>q DEF Written, End
    <3>3. pc' \in [Procs -> Labels]
      BY <2>18, <2>g DEF Written, End
    <3> QED BY <2>18, <3>1, <3>2, <3>3 DEF Written
  <2>19. ASSUME NEW p \in Procs, Retry(p) PROVE TypeOK'
    <3>1. row' \in Rows
      BY <2>19, <2>r DEF Retry, ErpStates
    <3>2. queue' \in [Jobs -> JobStates]
      BY <2>19, <2>q DEF Retry, End
    <3>3. pc' \in [Procs -> Labels]
      BY <2>19, <2>g DEF Retry, End
    <3> QED
      BY <2>19, <3>1, <3>2, <3>3 DEF Retry
  <2>20. ASSUME NEW p \in Procs, StornoRead(p) PROVE TypeOK'
    BY <2>20, <2>g, <2>s DEF StornoRead
  <2>21. ASSUME NEW p \in Procs, StornoGet(p) PROVE TypeOK'
    <3>1. queue' \in [Jobs -> JobStates]
      BY <2>21, <2>q DEF StornoGet, End
    <3>2. pc' \in [Procs -> Labels]
      BY <2>21, <2>g DEF StornoGet, End
    <3>3. faults' \in 0..MaxFaults
      BY <2>21, <2>f DEF StornoGet
    <3> QED BY <2>21, <3>1, <3>2, <3>3 DEF StornoGet
  <2>22. ASSUME NEW p \in Procs, Storno(p) PROVE TypeOK'
    BY <2>22, <2>g, <2>f DEF Storno
  <2>23. ASSUME NEW p \in Procs, StornoWrite(p) PROVE TypeOK'
    BY <2>23, <2>q, <2>g, <2>r DEF StornoWrite, End
  <2>24. ASSUME NEW p \in Procs, StornoFailed(p) PROVE TypeOK'
    <3>1. queue' \in [Jobs -> JobStates]
      BY <2>24, <2>q DEF StornoFailed, End
    <3>2. pc' \in [Procs -> Labels]
      BY <2>24, <2>g DEF StornoFailed, End
    <3> QED BY <2>24, <3>1, <3>2 DEF StornoFailed
  <2>25. CASE UNCHANGED vars
    BY <2>25 DEF vars, orderVars, erpVars
  <2> QED
    BY <2>1, <2>2, <2>3, <2>4, <2>5, <2>6, <2>7, <2>8, <2>9, <2>10, <2>11,
       <2>12, <2>13, <2>14, <2>15, <2>16, <2>17, <2>18, <2>19, <2>20, <2>21,
       <2>22, <2>23, <2>24, <2>25
    DEF Next, WorkerStep, AdminStep, CancelStep, ExportStep, StornoStep
<1> QED
  BY <1>1, <1>2, PTL DEF Spec

-----------------------------------------------------------------------------
(* What the row, and every call about to write it, claims of the document. *)
DocumentKnown ==
  /\ row.erp = "SYNCED" \/ row.native => doc # "none"
  /\ \A p \in Procs :
       saw[p].native \/ pc[p] \in {"written", "exceptionWritten", "storno", "stornoWrite"} =>
         doc # "none"

StornoKnown ==
  /\ row.erp = "CANCEL_SYNCED" => doc = "storno"
  /\ \A p \in Procs : pc[p] = "stornoWrite" => doc = "storno"

(* The worker, the administrator and the cancellation write their outcomes *)
(* over each other, but each has seen the document, and documents only     *)
(* move on.                                                                *)
LEMMA DocumentsAreKnown == Spec => [](DocumentKnown /\ StornoKnown)
<1>1. Init => DocumentKnown /\ StornoKnown
  BY DEF Init, NoRow, DocumentKnown, StornoKnown, Procs
<1>2. TypeOK /\ DocumentKnown /\ StornoKnown /\ [Next]_vars => DocumentKnown' /\ StornoKnown'
  <2> SUFFICES ASSUME TypeOK, DocumentKnown, StornoKnown, [Next]_vars
               PROVE  DocumentKnown' /\ StornoKnown'
    OBVIOUS
  <2>t. /\ pc \in [Procs -> Labels] /\ saw \in [Procs -> Rows] /\ row \in Rows
        /\ doc \in {"none", "live", "exception", "storno"}
        /\ {"worker", "admin", "canceller", "payer"} \subseteq Procs
    BY DEF TypeOK, Procs
  <2> USE DEF DocumentKnown, StornoKnown, orderVars, erpVars, Rows
  <2>1. ASSUME NEW j \in Jobs, Take(j) PROVE DocumentKnown' /\ StornoKnown'
    BY <2>1, <2>t DEF Take, Goto, Idle, At
  <2>2. ASSUME NEW j \in Jobs, Forget(j) PROVE DocumentKnown' /\ StornoKnown'
    BY <2>2, <2>t DEF Forget
  <2>3. ASSUME Check PROVE DocumentKnown' /\ StornoKnown'
    BY <2>3, <2>t DEF Check, End, Goto, At
  <2>4. ASSUME StartSyncErp PROVE DocumentKnown' /\ StornoKnown'
    BY <2>4, <2>t DEF StartSyncErp, Goto
  <2>5. ASSUME Pay PROVE DocumentKnown' /\ StornoKnown'
    BY <2>5, <2>t DEF Pay, Goto
  <2>6. ASSUME EnqueuePaid PROVE DocumentKnown' /\ StornoKnown'
    BY <2>6, <2>t DEF EnqueuePaid, Goto
  <2>7. ASSUME CancelUnpaid PROVE DocumentKnown' /\ StornoKnown'
    BY <2>7, <2>t DEF CancelUnpaid, Goto
  <2>8. ASSUME StartPatch PROVE DocumentKnown' /\ StornoKnown'
    BY <2>8, <2>t DEF StartPatch, Goto
  <2>9. ASSUME CancelRow PROVE DocumentKnown' /\ StornoKnown'
    BY <2>9, <2>t DEF CancelRow, Goto
  <2>10. ASSUME RemoveJob PROVE DocumentKnown' /\ StornoKnown'
    BY <2>10, <2>t DEF RemoveJob, Goto
  <2>11. ASSUME CancelPending PROVE DocumentKnown' /\ StornoKnown'
    BY <2>11, <2>t DEF CancelPending, Goto
  <2>12. ASSUME Restart PROVE DocumentKnown' /\ StornoKnown'
    BY <2>12, <2>t DEF Restart
  <2>13. ASSUME NEW p \in Procs, Mark(p) PROVE DocumentKnown' /\ StornoKnown'
    BY <2>13, <2>t DEF Mark, Goto
  <2>14. ASSUME NEW p \in Procs, Read(p) PROVE DocumentKnown' /\ StornoKnown'
    BY <2>14, <2>t DEF Read, Goto, End
  <2>15. ASSUME NEW p \in Procs, Lookup(p) PROVE DocumentKnown' /\ StornoKnown'
    BY <2>15, <2>t DEF Lookup, Goto
  <2>16. ASSUME NEW p \in Procs, Put(p) PROVE DocumentKnown' /\ StornoKnown'
    BY <2>16, <2>t DEF Put, Goto, Stored
  <2>17. ASSUME NEW p \in Procs, Exception(p) PROVE DocumentKnown' /\ StornoKnown'
    BY <2>17, <2>t DEF Exception, Goto, Stored
  <2>18. ASSUME NEW p \in Procs, Written(p) PROVE DocumentKnown' /\ StornoKnown'
    BY <2>18, <2>t DEF Written, At, Outcome, End, Goto
  <2>19. ASSUME NEW p \in Procs, Retry(p) PROVE DocumentKnown' /\ StornoKnown'
    BY <2>19, <2>t DEF Retry, Goto, End
  <2>20. ASSUME NEW p \in Procs, StornoRead(p) PROVE DocumentKnown' /\ StornoKnown'
    BY <2>20, <2>t DEF StornoRead, Goto
  <2>21. ASSUME NEW p \in Procs, StornoGet(p) PROVE DocumentKnown' /\ StornoKnown'
    BY <2>21, <2>t DEF StornoGet, Goto, End
  <2>22. ASSUME NEW p \in Procs, Storno(p) PROVE DocumentKnown' /\ StornoKnown'
    BY <2>22, <2>t DEF Storno, Goto
  <2>23. ASSUME NEW p \in Procs, StornoWrite(p) PROVE DocumentKnown' /\ StornoKnown'
    BY <2>23, <2>t DEF StornoWrite, At, End, Goto
  <2>24. ASSUME NEW p \in Procs, StornoFailed(p) PROVE DocumentKnown' /\ StornoKnown'
    BY <2>24, <2>t DEF StornoFailed, Goto, End
  <2>25. CASE UNCHANGED vars
    BY <2>25 DEF vars, orderVars, erpVars
  <2> QED
    BY <2>1, <2>2, <2>3, <2>4, <2>5, <2>6, <2>7, <2>8, <2>9, <2>10, <2>11,
       <2>12, <2>13, <2>14, <2>15, <2>16, <2>17, <2>18, <2>19, <2>20, <2>21,
       <2>22, <2>23, <2>24, <2>25
    DEF Next, WorkerStep, AdminStep, CancelStep, ExportStep, StornoStep, Procs
<1> QED
  BY <1>1, <1>2, TypeCorrect, PTL DEF Spec

(* The row never claims a document the ERP does not hold, whatever request *)
(* fails or loses its answer: SYNCED and a native id stand for a document. *)
THEOREM RowIsHonest == Spec => []SyncedHasDocument
<1>1. DocumentKnown => SyncedHasDocument
  BY DEF DocumentKnown, SyncedHasDocument
<1> QED
  BY <1>1, DocumentsAreKnown, PTL

(* CANCEL_SYNCED is said only of a document that was taken back, and no    *)
(* late export revives it.                                                 *)
THEOREM CancelIsHonest == Spec => []CancelSyncedIsStorno
<1>1. StornoKnown => CancelSyncedIsStorno
  BY DEF StornoKnown, CancelSyncedIsStorno
<1> QED
  BY <1>1, DocumentsAreKnown, PTL

-----------------------------------------------------------------------------
(* The worker exports a card order only once it is paid, and no payment is *)
(* taken back.                                                             *)
Sendable == terms.method # "card" \/ paid
WorkerSendsPaid ==
  pc["worker"] \in {"mark", "read", "lookup", "put", "exception"} => Sendable

(* Whatever is cancelled, exported by hand, paid or restarted meanwhile,   *)
(* the queue creates the document of a card order only after its payment.  *)
THEOREM UnpaidIsNotSent == Spec => QueueSendsPaid
<1>1. Init => WorkerSendsPaid
  BY DEF Init, WorkerSendsPaid, Procs
<1>2. TypeOK /\ DocumentKnown /\ WorkerSendsPaid /\ [Next]_vars
        => /\ WorkerSendsPaid'
           /\ WorkerMoves /\ doc = "none" /\ doc' # "none" => Sendable
  <2> DEFINE Goal == /\ WorkerSendsPaid'
                     /\ WorkerMoves /\ doc = "none" /\ doc' # "none" => Sendable
  <2> SUFFICES ASSUME TypeOK, DocumentKnown, WorkerSendsPaid, [Next]_vars
               PROVE  Goal
    OBVIOUS
  <2>t. /\ pc \in [Procs -> Labels] /\ saw \in [Procs -> Rows]
        /\ {"worker", "admin", "canceller", "payer"} \subseteq Procs
    BY DEF TypeOK, Procs
  <2> USE DEF WorkerSendsPaid, Sendable, WorkerMoves, orderVars, erpVars
  <2>1. ASSUME NEW j \in Jobs, Take(j) PROVE Goal
    BY <2>1, <2>t DEF Take, Goto
  <2>2. ASSUME NEW j \in Jobs, Forget(j) PROVE Goal
    BY <2>2, <2>t DEF Forget
  <2>3. ASSUME Check PROVE Goal
    BY <2>3, <2>t DEF Check, End, Goto, Skipped
  <2>4. ASSUME StartSyncErp PROVE Goal
    BY <2>4, <2>t DEF StartSyncErp, Goto
  <2>5. ASSUME Pay PROVE Goal
    BY <2>5, <2>t DEF Pay
  <2>6. ASSUME EnqueuePaid PROVE Goal
    BY <2>6, <2>t DEF EnqueuePaid, Goto
  <2>7. ASSUME CancelUnpaid PROVE Goal
    BY <2>7, <2>t DEF CancelUnpaid, Goto
  <2>8. ASSUME StartPatch PROVE Goal
    BY <2>8, <2>t DEF StartPatch, Goto
  <2>9. ASSUME CancelRow PROVE Goal
    BY <2>9, <2>t DEF CancelRow, Goto
  <2>10. ASSUME RemoveJob PROVE Goal
    BY <2>10, <2>t DEF RemoveJob, Goto
  <2>11. ASSUME CancelPending PROVE Goal
    BY <2>11, <2>t DEF CancelPending, Goto
  <2>12. ASSUME Restart PROVE Goal
    BY <2>12, <2>t DEF Restart
  <2>13. ASSUME NEW p \in Procs, Mark(p) PROVE Goal
    BY <2>13, <2>t DEF Mark, At, Goto
  <2>14. ASSUME NEW p \in Procs, Read(p) PROVE Goal
    BY <2>14, <2>t DEF Read, At, Goto, End
  <2>15. ASSUME NEW p \in Procs, Lookup(p) PROVE Goal
    BY <2>15, <2>t DEF Lookup, At, Goto
  <2>16. ASSUME NEW p \in Procs, Put(p) PROVE Goal
    BY <2>16, <2>t DEF Put, At, Goto
  <2>17. ASSUME NEW p \in Procs, Exception(p) PROVE Goal
    BY <2>17, <2>t DEF Exception, At, Goto
  <2>18. ASSUME NEW p \in Procs, Written(p) PROVE Goal
    BY <2>18, <2>t DEF Written, End, Goto
  <2>19. ASSUME NEW p \in Procs, Retry(p) PROVE Goal
    BY <2>19, <2>t DEF Retry, Goto, End
  <2>20. ASSUME NEW p \in Procs, StornoRead(p) PROVE Goal
    BY <2>20, <2>t DEF StornoRead, Goto
  <2>21. ASSUME NEW p \in Procs, StornoGet(p) PROVE Goal
    BY <2>21, <2>t DEF StornoGet, Goto, End
  <2>22. ASSUME NEW p \in Procs, Storno(p) PROVE Goal
    <3>1. doc # "none"
      BY <2>22, <2>t DEF Storno, At, DocumentKnown
    <3> QED
      BY <2>22, <3>1, <2>t DEF Storno, Goto
  <2>23. ASSUME NEW p \in Procs, StornoWrite(p) PROVE Goal
    BY <2>23, <2>t DEF StornoWrite, End, Goto
  <2>24. ASSUME NEW p \in Procs, StornoFailed(p) PROVE Goal
    BY <2>24, <2>t DEF StornoFailed, Goto, End
  <2>25. CASE UNCHANGED vars
    BY <2>25 DEF vars, orderVars, erpVars
  <2> QED
    BY <2>1, <2>2, <2>3, <2>4, <2>5, <2>6, <2>7, <2>8, <2>9, <2>10, <2>11,
       <2>12, <2>13, <2>14, <2>15, <2>16, <2>17, <2>18, <2>19, <2>20, <2>21,
       <2>22, <2>23, <2>24, <2>25
    DEF Next, WorkerStep, AdminStep, CancelStep, ExportStep, StornoStep, Procs
<1>3. QueueSendsPaid
        <=> [][WorkerMoves /\ doc = "none" /\ doc' # "none" => Sendable]_vars
  BY DEF QueueSendsPaid, Sendable
<1> QED
  BY <1>1, <1>2, <1>3, TypeCorrect, DocumentsAreKnown, PTL DEF Spec

=============================================================================
