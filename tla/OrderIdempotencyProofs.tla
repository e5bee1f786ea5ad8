----------------------- MODULE OrderIdempotencyProofs -----------------------
(* Theorems about OrderIdempotency, for every set of requests and keys.    *)
EXTENDS OrderIdempotency, TLAPS

(* Every variable keeps its type, and only a request with a key is ever at *)
(* a step that touches Redis: create without a key never reads the record  *)
(* of another one.                                                         *)
THEOREM TypeCorrect == Spec => [](TypeOK /\ KeyedSteps)
<1>1. Init => TypeOK /\ KeyedSteps
  BY DEF Init, TypeOK, KeyedSteps, Idle, LockedSteps
<1>2. TypeOK /\ KeyedSteps /\ [Next]_vars => (TypeOK /\ KeyedSteps)'
  <2> SUFFICES ASSUME TypeOK, KeyedSteps, [Next]_vars
               PROVE  (TypeOK /\ KeyedSteps)'
    OBVIOUS
  <2> USE KeysAssumption, NullsAssumption
          DEF TypeOK, KeyedSteps, LockedSteps, Idle, Holding, Finished, Goto, Answer
  <2>1. ASSUME NEW r \in Requests, StartUnkeyed(r) PROVE (TypeOK /\ KeyedSteps)'
    BY <2>1 DEF StartUnkeyed
  <2>2. ASSUME NEW r \in Requests, NEW from \in {"start", "waiting", "recheck"},
               NEW hit \in {"done", "releasing"},
               NEW miss \in {"lock", "waiting", "executing"},
               ReadRecord(r, from, hit, miss), KeyOf[r] \in Keys
        PROVE  (TypeOK /\ KeyedSteps)'
    BY <2>2 DEF ReadRecord, MatchedAnswer
  <2>3. ASSUME NEW r \in Requests, Lookup(r) PROVE (TypeOK /\ KeyedSteps)'
    BY <2>2, <2>3 DEF Lookup
  <2>4. ASSUME NEW r \in Requests, NEW from \in {"lock", "relock"}, SetNx(r, from)
        PROVE  (TypeOK /\ KeyedSteps)'
    BY <2>4 DEF SetNx
  <2>5. ASSUME NEW r \in Requests, TryLock(r) PROVE (TypeOK /\ KeyedSteps)'
    BY <2>4, <2>5 DEF TryLock
  <2>6. ASSUME NEW r \in Requests, Poll(r) PROVE (TypeOK /\ KeyedSteps)'
    <3>1. KeyOf[r] \in Keys
      BY <2>6 DEF Poll, ReadRecord
    <3> QED BY <2>2, <2>6, <3>1 DEF Poll
  <2>7. ASSUME NEW r \in Requests, WaitOver(r) PROVE (TypeOK /\ KeyedSteps)'
    BY <2>7 DEF WaitOver
  <2>8. ASSUME NEW r \in Requests, TryLockAgain(r) PROVE (TypeOK /\ KeyedSteps)'
    BY <2>4, <2>8 DEF TryLockAgain
  <2>9. ASSUME NEW r \in Requests, Recheck(r) PROVE (TypeOK /\ KeyedSteps)'
    <3>1. KeyOf[r] \in Keys
      BY <2>9 DEF Recheck, ReadRecord
    <3> QED BY <2>2, <2>9, <3>1 DEF Recheck
  <2>10. ASSUME NEW r \in Requests,
                CreateRejected(r) \/ CommitOrder(r) \/ Compensate(r) \/ ThrowsAfterCommit(r)
         PROVE  (TypeOK /\ KeyedSteps)'
    BY <2>10 DEF CreateRejected, CommitOrder, Compensate, ThrowsAfterCommit, Leave
  <2>11. ASSUME NEW r \in Requests, StoreResult(r) PROVE (TypeOK /\ KeyedSteps)'
    BY <2>11 DEF StoreResult, Leave
  <2>12. ASSUME NEW r \in Requests, Release(r) PROVE (TypeOK /\ KeyedSteps)'
    BY <2>12 DEF Release
  <2>13. ASSUME NEW r \in Requests, Crash(r) PROVE (TypeOK /\ KeyedSteps)'
    BY <2>13 DEF Crash
  <2>14. ASSUME NEW k \in Keys, LockExpires(k) \/ ResultExpires(k)
         PROVE  (TypeOK /\ KeyedSteps)'
    BY <2>14 DEF LockExpires, ResultExpires
  <2>15. CASE UNCHANGED vars
    BY <2>15 DEF vars
  <2> QED
    BY <2>1, <2>3, <2>5, <2>6, <2>7, <2>8, <2>9, <2>10, <2>11, <2>12, <2>13,
       <2>14, <2>15 DEF Next, Step
<1> QED
  BY <1>1, <1>2, PTL DEF Spec
-----------------------------------------------------------------------------
(* Whatever expires, fails or crashes, a client is only answered with an   *)
(* order of its own key and fingerprint.                                   *)
THEOREM ReplayIsSafe == Spec => []ReplayMatchesRequest
<1> DEFINE RInv == TypeOK /\ KeyedSteps
           RI   == RecordsOfKey /\ ReplayMatchesRequest
<1>1. Init => RI
  BY NullsAssumption DEF Init, RecordsOfKey, ReplayMatchesRequest
<1>2. RInv /\ RI /\ [Next]_vars => RI'
  <2> SUFFICES ASSUME RInv, RI, [Next]_vars PROVE RI'
    OBVIOUS
  <2> USE KeysAssumption, NullsAssumption
          DEF TypeOK, KeyedSteps, LockedSteps, RecordsOfKey, ReplayMatchesRequest, Goto, Answer
  <2>1. ASSUME NEW r \in Requests, KeyOf[r] \in Keys,
               NEW from, NEW hit, NEW miss, ReadRecord(r, from, hit, miss)
        PROVE  RI'
    BY <2>1 DEF ReadRecord, MatchedAnswer
  <2>2. ASSUME NEW r \in Requests, Lookup(r) \/ Poll(r) \/ Recheck(r) PROVE RI'
    <3>1. KeyOf[r] \in Keys
      BY <2>2 DEF Lookup, Poll, Recheck, ReadRecord
    <3> QED BY <2>1, <2>2, <3>1 DEF Lookup, Poll, Recheck
  <2>3. ASSUME NEW r \in Requests, StoreResult(r) PROVE RI'
    BY <2>3 DEF StoreResult, Leave
  <2>4. ASSUME NEW r \in Requests,
               StartUnkeyed(r) \/ TryLock(r) \/ WaitOver(r) \/ TryLockAgain(r)
        PROVE  RI'
    BY <2>4 DEF StartUnkeyed, TryLock, WaitOver, TryLockAgain, SetNx
  <2>5. ASSUME NEW r \in Requests,
               CreateRejected(r) \/ CommitOrder(r) \/ Compensate(r) \/ ThrowsAfterCommit(r)
        PROVE  RI'
    BY <2>5 DEF CreateRejected, CommitOrder, Compensate, ThrowsAfterCommit, Leave
  <2>6. ASSUME NEW r \in Requests, Release(r) \/ Crash(r) PROVE RI'
    BY <2>6 DEF Release, Crash
  <2>7. ASSUME NEW k \in Keys, LockExpires(k) \/ ResultExpires(k) PROVE RI'
    BY <2>7 DEF LockExpires, ResultExpires
  <2>8. CASE UNCHANGED vars
    BY <2>8 DEF vars
  <2> QED
    BY <2>2, <2>3, <2>4, <2>5, <2>6, <2>7, <2>8 DEF Next, Step
<1> QED
  BY <1>1, <1>2, TypeCorrect, PTL DEF Spec

-----------------------------------------------------------------------------
(* Whatever expires, fails or crashes, an answer and a record name an order*)
(* that exists: its creator is past the point where it can still be taken  *)
(* back, and never returns to it.                                          *)
Settled(o) == o \in orders /\ pc[o] \in {"releasing"} \cup Finished

AnswersSettled ==
  /\ CommittedAreOrders
  /\ \A r \in Requests : answer[r] \in Requests => Settled(answer[r])
  /\ \A k \in Keys : result[k] # NoRecord => Settled(result[k])

AnswersAreRight == ReplayMatchesRequest /\ AnsweredOrdersExist

(* What a client is told, under every failure: an order of its own key and *)
(* fingerprint (assertFingerprintMatch) that compensation leaves alone     *)
(* (compensateFailedConnectedCheckout).                                    *)
THEOREM AnswersStand == Spec => []AnswersAreRight
<1>1. Init => AnswersSettled
  BY NullsAssumption DEF Init, AnswersSettled, CommittedAreOrders
<1>2. TypeOK /\ KeyedSteps /\ AnswersSettled /\ [Next]_vars => AnswersSettled'
  <2> SUFFICES ASSUME TypeOK, KeyedSteps, AnswersSettled, [Next]_vars PROVE AnswersSettled'
    OBVIOUS
  <2> USE KeysAssumption, NullsAssumption
          DEF TypeOK, KeyedSteps, LockedSteps, AnswersSettled, CommittedAreOrders, Settled, Finished,
              Goto, Answer
  <2>1. ASSUME NEW r \in Requests, KeyOf[r] \in Keys, NEW from \in {"start", "waiting", "recheck"},
               NEW hit \in {"done", "releasing"}, NEW miss \in {"lock", "waiting", "executing"},
               ReadRecord(r, from, hit, miss)
        PROVE  AnswersSettled'
    BY <2>1 DEF ReadRecord, MatchedAnswer
  <2>2. ASSUME NEW r \in Requests,
               StartUnkeyed(r) \/ WaitOver(r) \/ TryLock(r) \/ TryLockAgain(r)
        PROVE  AnswersSettled'
    BY <2>2 DEF StartUnkeyed, WaitOver, TryLock, TryLockAgain, SetNx
  <2>3. ASSUME NEW r \in Requests, Lookup(r) \/ Poll(r) \/ Recheck(r) PROVE AnswersSettled'
    <3>1. KeyOf[r] \in Keys
      BY <2>3 DEF Lookup, Poll, Recheck, ReadRecord
    <3>2. \E from \in {"start", "waiting", "recheck"}, hit \in {"done", "releasing"},
             miss \in {"lock", "waiting", "executing"} :
            ReadRecord(r, from, hit, miss)
      BY <2>3 DEF Lookup, Poll, Recheck
    <3> QED BY <2>1, <3>1, <3>2
  <2>4. ASSUME NEW r \in Requests, CreateRejected(r) \/ CommitOrder(r) \/ ThrowsAfterCommit(r)
        PROVE  AnswersSettled'
    BY <2>4 DEF CreateRejected, CommitOrder, ThrowsAfterCommit, Leave
  (* The order of a creator at "committed" is in no answer and no record. *)
  <2>5. ASSUME NEW r \in Requests, Compensate(r) PROVE AnswersSettled'
    <3>1. /\ \A s \in Requests : answer[s] # r
          /\ \A k \in Keys : result[k] # r
      BY <2>5 DEF Compensate
    <3> QED BY <2>5, <3>1 DEF Compensate, Leave
  <2>6. ASSUME NEW r \in Requests, StoreResult(r) PROVE AnswersSettled'
    BY <2>6 DEF StoreResult, Leave
  <2>7. ASSUME NEW r \in Requests, Release(r) \/ Crash(r) PROVE AnswersSettled'
    BY <2>7 DEF Release, Crash
  <2>8. ASSUME NEW k \in Keys, LockExpires(k) \/ ResultExpires(k) PROVE AnswersSettled'
    BY <2>8 DEF LockExpires, ResultExpires
  <2>9. CASE UNCHANGED vars
    BY <2>9 DEF vars
  <2> QED
    BY <2>2, <2>3, <2>4, <2>5, <2>6, <2>7, <2>8, <2>9 DEF Next, Step
<1>3. AnswersSettled => AnsweredOrdersExist
  BY DEF AnswersSettled, Settled, AnsweredOrdersExist
<1> QED
  BY <1>1, <1>2, <1>3, TypeCorrect, ReplayIsSafe, PTL DEF Spec, AnswersAreRight

-----------------------------------------------------------------------------
NoLockExpiry == "lockExpires" \notin Faults

LockInv == HoldersHaveLocks /\ MutualExclusion

(* As long as no lock record expires, one request per key at a time is     *)
(* between taking the lock and releasing it; the DEL without an owner      *)
(* check never deletes another request's lock, and a crash keeps it.       *)
THEOREM LockWorks == ASSUME NoLockExpiry PROVE Spec => []LockInv
<1>1. Init => LockInv
  BY DEF Init, LockInv, HoldersHaveLocks, MutualExclusion, Holds, Holding
<1>2. TypeOK /\ KeyedSteps /\ LockInv /\ [Next]_vars => LockInv'
  <2> SUFFICES ASSUME TypeOK, KeyedSteps, LockInv, [Next]_vars PROVE LockInv'
    OBVIOUS
  <2> USE KeysAssumption
          DEF TypeOK, KeyedSteps, LockedSteps, LockInv, HoldersHaveLocks, MutualExclusion,
              Holds, Holding, Goto
  <2>1. ASSUME NEW r \in Requests, Lookup(r) \/ Poll(r) \/ Recheck(r) PROVE LockInv'
    BY <2>1 DEF Lookup, Poll, Recheck, ReadRecord
  <2>2. ASSUME NEW r \in Requests, NEW from \in {"lock", "relock"}, SetNx(r, from)
        PROVE  LockInv'
    BY <2>2 DEF SetNx
  <2>3. ASSUME NEW r \in Requests, TryLock(r) \/ TryLockAgain(r) PROVE LockInv'
    BY <2>2, <2>3 DEF TryLock, TryLockAgain
  <2>4. ASSUME NEW r \in Requests, StartUnkeyed(r) \/ WaitOver(r) PROVE LockInv'
    BY <2>4 DEF StartUnkeyed, WaitOver
  <2>5. ASSUME NEW r \in Requests,
               CreateRejected(r) \/ CommitOrder(r) \/ Compensate(r)
                 \/ ThrowsAfterCommit(r) \/ StoreResult(r)
        PROVE  LockInv'
    BY <2>5 DEF CreateRejected, CommitOrder, Compensate, ThrowsAfterCommit, StoreResult, Leave
  <2>6. ASSUME NEW r \in Requests, Release(r) PROVE LockInv'
    BY <2>6 DEF Release
  <2>7. ASSUME NEW r \in Requests, Crash(r) PROVE LockInv'
    BY <2>7 DEF Crash
  <2>8. ASSUME NEW k \in Keys, LockExpires(k) \/ ResultExpires(k) PROVE LockInv'
    BY <2>8, NoLockExpiry DEF LockExpires, ResultExpires, NoLockExpiry
  <2>9. CASE UNCHANGED vars
    BY <2>9 DEF vars
  <2> QED
    BY <2>1, <2>3, <2>4, <2>5, <2>6, <2>7, <2>8, <2>9 DEF Next, Step
<1> QED
  BY <1>1, <1>2, TypeCorrect, PTL DEF Spec

(* Mutual exclusion of the creators of one key. *)
COROLLARY CreatorsExclude == ASSUME NoLockExpiry PROVE Spec => []MutualExclusion
<1>1. LockInv => MutualExclusion
  BY DEF LockInv
<1> QED
  BY <1>1, LockWorks, PTL
-----------------------------------------------------------------------------
(* The failures under which a key still yields one order: nothing expires, *)
(* records are read, and executeCreate throws only before its commit or    *)
(* after compensating it.  Crashes, lost writes and lost DELs are allowed. *)
BenignFaults ==
  Faults \cap {"lockExpires", "resultExpires", "readFails", "throwsLate"} = {}

OneInv ==
  /\ OneOrderPerKey
  /\ KeyedOrdersGuarded
  /\ CreatorsSeeNoRecord
  /\ CommittedAreOrders
  /\ RecordsAreOrders
  /\ RecordsOfKey

Base == TypeOK /\ KeyedSteps /\ LockInv

(* Under benign faults two concurrent or repeated submissions with one key *)
(* never leave two orders.  OneOrderPerKey alone is not inductive: a       *)
(* worker that died or failed to store after its commit protects its order *)
(* only by the lock record it left behind (KeyedOrdersGuarded).            *)
THEOREM OneOrder == ASSUME BenignFaults PROVE Spec => []OneInv
<1>1. Init => OneInv
  BY NullsAssumption
     DEF Init, OneInv, OneOrderPerKey, KeyedOrdersGuarded, CreatorsSeeNoRecord,
         CommittedAreOrders, RecordsAreOrders, RecordsOfKey
<1>2. Base /\ OneInv /\ [Next]_vars => OneInv'
  <2> SUFFICES ASSUME Base, OneInv, [Next]_vars PROVE OneInv'
    OBVIOUS
  <2> USE KeysAssumption, NullsAssumption
          DEF Base, TypeOK, KeyedSteps, LockedSteps, LockInv, HoldersHaveLocks,
              MutualExclusion, Holds, Holding, Finished, OneInv, OneOrderPerKey,
              KeyedOrdersGuarded, CreatorsSeeNoRecord, CommittedAreOrders,
              RecordsAreOrders, RecordsOfKey, Shielded, Goto, Answer
  <2>1. ASSUME NEW r \in Requests, StartUnkeyed(r) \/ Lookup(r) \/ Poll(r) \/ WaitOver(r)
        PROVE  OneInv'
    BY <2>1 DEF StartUnkeyed, Lookup, Poll, WaitOver, ReadRecord
  <2>2. ASSUME NEW r \in Requests, TryLock(r) \/ TryLockAgain(r) PROVE OneInv'
    BY <2>2 DEF TryLock, TryLockAgain, SetNx
  <2>3. ASSUME NEW r \in Requests, Recheck(r) PROVE OneInv'
    BY <2>3, BenignFaults DEF Recheck, ReadRecord, ReadAbsent, BenignFaults
  <2>4. ASSUME NEW r \in Requests, CreateRejected(r) PROVE OneInv'
    BY <2>4 DEF CreateRejected, Leave
  <2>5. ASSUME NEW r \in Requests, CommitOrder(r) PROVE OneInv'
    <3>1. ASSUME NEW o \in orders, KeyOf[o] = KeyOf[r], KeyOf[r] # NoKey PROVE FALSE
      BY <2>5, <3>1 DEF CommitOrder
    <3> QED BY <2>5, <3>1 DEF CommitOrder
  <2>6. ASSUME NEW r \in Requests, Compensate(r) PROVE OneInv'
    BY <2>6 DEF Compensate, Leave
  <2>7. ASSUME NEW r \in Requests, StoreResult(r) PROVE OneInv'
    <3>1. CASE KeyOf[r] = NoKey
      BY <2>7, <3>1 DEF StoreResult, Leave
    <3>2. CASE KeyOf[r] # NoKey
      BY <2>7, <3>2 DEF StoreResult, Leave
    <3> QED BY <3>1, <3>2
  <2>8. ASSUME NEW r \in Requests, Release(r) PROVE OneInv'
    BY <2>8 DEF Release
  <2>9. ASSUME NEW r \in Requests, Crash(r) PROVE OneInv'
    BY <2>9 DEF Crash
  <2>10. ASSUME NEW r \in Requests, ThrowsAfterCommit(r) PROVE OneInv'
    BY <2>10, BenignFaults DEF ThrowsAfterCommit, BenignFaults
  <2>11. ASSUME NEW k \in Keys, LockExpires(k) \/ ResultExpires(k) PROVE OneInv'
    BY <2>11, BenignFaults DEF LockExpires, ResultExpires, BenignFaults
  <2>12. CASE UNCHANGED vars
    BY <2>12 DEF vars
  <2> QED
    BY <2>1, <2>2, <2>3, <2>4, <2>5, <2>6, <2>7, <2>8, <2>9, <2>10, <2>11, <2>12
    DEF Next, Step
<1>3. NoLockExpiry
  BY BenignFaults DEF NoLockExpiry, BenignFaults
<1> QED
  BY <1>1, <1>2, <1>3, TypeCorrect, LockWorks, PTL DEF Spec, Base

(* One order per key. *)
COROLLARY KeyCreatesOnce == ASSUME BenignFaults PROVE Spec => []OneOrderPerKey
<1>1. OneInv => OneOrderPerKey
  BY DEF OneInv
<1> QED
  BY <1>1, OneOrder, PTL
-----------------------------------------------------------------------------
(* What connects the answers to the orders and the records. *)
AnswersRecorded ==
  \A r \in Requests : answer[r] \in Requests =>
    /\ answer[r] \in orders
    /\ KeyOf[answer[r]] = KeyOf[r] /\ FpOf[answer[r]] = FpOf[r]
    /\ IF KeyOf[r] = NoKey THEN answer[r] = r ELSE result[KeyOf[r]] = answer[r]

AnsweredAtEnd ==
  \A r \in Requests : (answer[r] = NoAnswer) <=> (pc[r] \notin {"releasing", "done"})

OrdersAreLate ==
  \A r \in orders : pc[r] \in {"committed", "releasing"} \cup Finished

AnswerInv == AnswersRecorded /\ AnsweredAtEnd /\ OrdersAreLate

(* create with its lock, record, waits, crashes and lost writes implements *)
(* the promise an idempotency key makes to the storefront.                 *)
THEOREM Implements == ASSUME BenignFaults PROVE Spec => KeepsPromise
<1>AnswersSound. ASSUME BenignFaults PROVE Spec => []AnswerInv
  <2> USE <1>AnswersSound
  <2>1. Init => AnswerInv
    BY NullsAssumption DEF Init, AnswerInv, AnswersRecorded, AnsweredAtEnd, OrdersAreLate
  <2>2. Base /\ OneInv /\ AnswerInv /\ [Next]_vars => AnswerInv'
    <3> SUFFICES ASSUME Base, OneInv, AnswerInv, [Next]_vars PROVE AnswerInv'
      OBVIOUS
    <3> USE KeysAssumption, NullsAssumption
            DEF Base, TypeOK, KeyedSteps, LockedSteps, Finished, OneInv, AnswerInv,
                AnswersRecorded, AnsweredAtEnd, OrdersAreLate, Goto, Answer
    <3>1. ASSUME NEW r \in Requests, Lookup(r) \/ Poll(r) \/ Recheck(r) PROVE AnswerInv'
      <4>1. KeyOf[r] \in Keys
        BY <3>1 DEF Lookup, Poll, Recheck, ReadRecord
      <4> QED BY <3>1, <4>1 DEF Lookup, Poll, Recheck, ReadRecord, MatchedAnswer,
                             RecordsAreOrders, RecordsOfKey
    <3>2. ASSUME NEW r \in Requests,
                 StartUnkeyed(r) \/ TryLock(r) \/ WaitOver(r) \/ TryLockAgain(r)
          PROVE  AnswerInv'
      BY <3>2 DEF StartUnkeyed, TryLock, WaitOver, TryLockAgain, SetNx
    <3>3. ASSUME NEW r \in Requests, CreateRejected(r) \/ CommitOrder(r) PROVE AnswerInv'
      BY <3>3 DEF CreateRejected, CommitOrder, Leave
    <3>4. ASSUME NEW r \in Requests, Compensate(r) PROVE AnswerInv'
      BY <3>4 DEF Compensate, Leave, CreatorsSeeNoRecord
    <3>5. ASSUME NEW r \in Requests, StoreResult(r) PROVE AnswerInv'
      <4>1. CASE KeyOf[r] = NoKey
        BY <3>5, <4>1 DEF StoreResult, Leave, CommittedAreOrders
      <4>2. CASE KeyOf[r] # NoKey
        BY <3>5, <4>2 DEF StoreResult, Leave, CommittedAreOrders, CreatorsSeeNoRecord
      <4> QED BY <4>1, <4>2
    <3>6. ASSUME NEW r \in Requests, Release(r) \/ Crash(r) PROVE AnswerInv'
      BY <3>6 DEF Release, Crash
    <3>7. ASSUME NEW r \in Requests, ThrowsAfterCommit(r) PROVE AnswerInv'
      BY <3>7, BenignFaults DEF ThrowsAfterCommit, BenignFaults
    <3>8. ASSUME NEW k \in Keys, LockExpires(k) \/ ResultExpires(k) PROVE AnswerInv'
      BY <3>8, BenignFaults DEF LockExpires, ResultExpires, BenignFaults
    <3>9. CASE UNCHANGED vars
      BY <3>9 DEF vars
    <3> QED
      BY <3>1, <3>2, <3>3, <3>4, <3>5, <3>6, <3>7, <3>8, <3>9 DEF Next, Step
  <2>3. NoLockExpiry
    BY BenignFaults DEF NoLockExpiry, BenignFaults
  <2> QED
    BY <2>1, <2>2, <2>3, TypeCorrect, LockWorks, OneOrder, PTL DEF Spec, Base
<1>1. Init => Promise!Init
  BY DEF Init, Promise!Init, Received
<1>2. Base /\ OneInv /\ AnswerInv /\ [Next]_vars => [Promise!Next]_<<orders, Received>>
  <2> SUFFICES ASSUME Base, OneInv, AnswerInv, [Next]_vars
               PROVE  [Promise!Next]_<<orders, Received>>
    OBVIOUS
  <2> USE KeysAssumption, NullsAssumption
          DEF Base, TypeOK, Finished, OneInv, AnswerInv, AnsweredAtEnd, Received, Goto, Answer
  <2>2. ASSUME NEW r \in Requests, pc[r] # "done", pc'[r] = "done", UNCHANGED orders,
               NEW label, pc' = [pc EXCEPT ![r] = label], answer'[r] = Refused,
               \A s \in Requests : s # r => answer'[s] = answer[s]
        PROVE  Promise!Refuse(r)
    BY <2>2 DEF Promise!Refuse
  <2>3. ASSUME NEW r \in Requests, pc[r] # "done", pc'[r] = "done", UNCHANGED orders,
               NEW label, pc' = [pc EXCEPT ![r] = label], answer'[r] \in orders,
               KeyOf[answer'[r]] = KeyOf[r], FpOf[answer'[r]] = FpOf[r],
               \A s \in Requests : s # r => answer'[s] = answer[s]
        PROVE  \E o \in orders : Promise!Confirm(r, o)
    <3>1. Promise!SameCheckout(r, answer'[r])
      BY <2>3 DEF Promise!SameCheckout
    <3> QED BY <2>3, <3>1 DEF Promise!Confirm
  <2>4. ASSUME NEW r \in Requests, Lookup(r) \/ Poll(r) \/ Recheck(r)
        PROVE  [Promise!Next]_<<orders, Received>>
    <3>1. KeyOf[r] \in Keys
      BY <2>4 DEF Lookup, Poll, Recheck, ReadRecord, KeyedSteps, LockedSteps
    <3>2. CASE pc'[r] = "done"
      <4>1. answer'[r] = MatchedAnswer(r) /\ result[KeyOf[r]] # NoRecord
        BY <2>4, <3>1, <3>2 DEF Lookup, Poll, Recheck, ReadRecord
      <4>2. CASE answer'[r] = Refused
        BY <2>2, <2>4, <3>2, <4>2 DEF Lookup, Poll, Recheck, ReadRecord, Promise!Next
      <4>3. CASE answer'[r] # Refused
        <5>1. answer'[r] \in orders /\ KeyOf[answer'[r]] = KeyOf[r] /\ FpOf[answer'[r]] = FpOf[r]
          BY <3>1, <4>1, <4>3 DEF MatchedAnswer, RecordsAreOrders, RecordsOfKey
        <5> QED BY <2>3, <2>4, <3>2, <5>1 DEF Lookup, Poll, Recheck, ReadRecord, Promise!Next
      <4> QED BY <4>2, <4>3
    <3>3. CASE pc'[r] # "done"
      BY <2>4, <3>3 DEF Lookup, Poll, Recheck, ReadRecord
    <3> QED BY <3>2, <3>3
  <2>5. ASSUME NEW r \in Requests, StartUnkeyed(r) \/ TryLock(r) \/ WaitOver(r) \/ Crash(r)
        PROVE  [Promise!Next]_<<orders, Received>>
    BY <2>5 DEF StartUnkeyed, TryLock, WaitOver, Crash, SetNx
  <2>6. ASSUME NEW r \in Requests, TryLockAgain(r)
        PROVE  [Promise!Next]_<<orders, Received>>
    <3>1. CASE SetNx(r, "relock")
      BY <3>1 DEF SetNx
    <3>2. CASE ~ SetNx(r, "relock")
      BY <2>2, <2>6, <3>2 DEF TryLockAgain, Promise!Next
    <3> QED BY <3>1, <3>2
  <2>7. ASSUME NEW r \in Requests, CreateRejected(r)
        PROVE  [Promise!Next]_<<orders, Received>>
    <3>1. CASE KeyOf[r] = NoKey
      <4>1. /\ pc[r] # "done" /\ pc' = [pc EXCEPT ![r] = "done"] /\ UNCHANGED orders
            /\ answer' = [answer EXCEPT ![r] = Refused]
        BY <2>7, <3>1 DEF CreateRejected, Leave
      <4>2. Promise!Refuse(r)
        BY <2>2, <4>1
      <4> QED BY <4>2 DEF Promise!Next
    <3>2. CASE KeyOf[r] # NoKey
      BY <2>7, <3>2 DEF CreateRejected, Leave
    <3> QED BY <3>1, <3>2
  <2>8. ASSUME NEW r \in Requests, CommitOrder(r)
        PROVE  [Promise!Next]_<<orders, Received>>
    <3>1. \A o \in orders : KeyOf[r] # NoKey => KeyOf[o] # KeyOf[r]
      BY <2>8 DEF CommitOrder, KeyedOrdersGuarded, CreatorsSeeNoRecord, Shielded, Holds,
                  Holding, LockInv, MutualExclusion
    <3>2. Promise!Make(r)
      BY <2>8, <3>1 DEF CommitOrder, OrdersAreLate, Promise!Make
    <3> QED BY <3>2 DEF Promise!Next
  <2>9. ASSUME NEW r \in Requests, Compensate(r)
        PROVE  [Promise!Next]_<<orders, Received>>
    <3>1. \A s \in Requests : answer[s] # r
      BY <2>9 DEF Compensate, AnswersRecorded, CreatorsSeeNoRecord
    <3>2. r \in orders
      BY <2>9 DEF Compensate, CommittedAreOrders
    <3>3. Promise!Unmake(r)
      <4>1. CASE KeyOf[r] = NoKey
        BY <2>9, <3>1, <3>2, <4>1 DEF Compensate, Leave, Promise!Unmake
      <4>2. CASE KeyOf[r] # NoKey
        BY <2>9, <3>1, <3>2, <4>2 DEF Compensate, Leave, Promise!Unmake
      <4> QED BY <4>1, <4>2
    <3> QED BY <3>3 DEF Promise!Next
  <2>10. ASSUME NEW r \in Requests, StoreResult(r)
         PROVE  [Promise!Next]_<<orders, Received>>
    <3>1. CASE KeyOf[r] = NoKey
      BY <2>3, <2>10, <3>1 DEF StoreResult, Leave, CommittedAreOrders, Promise!Next
    <3>2. CASE KeyOf[r] # NoKey /\ pc'[r] = "done"
      BY <2>2, <2>10, <3>2 DEF StoreResult, Leave, Promise!Next
    <3>3. CASE KeyOf[r] # NoKey /\ pc'[r] # "done"
      BY <2>10, <3>3 DEF StoreResult, Leave
    <3> QED BY <3>1, <3>2, <3>3
  <2>11. ASSUME NEW r \in Requests, Release(r)
         PROVE  [Promise!Next]_<<orders, Received>>
    <3>1. CASE answer[r] = Refused
      <4>1. /\ pc[r] # "done" /\ pc' = [pc EXCEPT ![r] = "done"] /\ UNCHANGED <<orders, answer>>
        BY <2>11 DEF Release
      <4>2. Promise!Refuse(r)
        BY <2>2, <3>1, <4>1
      <4> QED BY <4>2 DEF Promise!Next
    <3>2. CASE answer[r] # Refused
      <4>1. answer[r] \in Requests
        BY <2>11, <3>2 DEF Release
      <4>2. /\ pc[r] # "done" /\ pc' = [pc EXCEPT ![r] = "done"] /\ UNCHANGED <<orders, answer>>
        BY <2>11 DEF Release
      <4>3. /\ answer[r] \in orders
            /\ KeyOf[answer[r]] = KeyOf[r] /\ FpOf[answer[r]] = FpOf[r]
        BY <4>1 DEF AnswersRecorded
      <4>4. \E o \in orders : Promise!Confirm(r, o)
        BY <2>3, <4>2, <4>3
      <4> QED BY <4>4 DEF Promise!Next
    <3> QED BY <3>1, <3>2
  <2>12. ASSUME NEW r \in Requests, ThrowsAfterCommit(r) PROVE FALSE
    BY <2>12, BenignFaults DEF ThrowsAfterCommit, BenignFaults
  <2>13. ASSUME NEW k \in Keys, LockExpires(k) \/ ResultExpires(k)
         PROVE  UNCHANGED <<orders, Received>>
    BY <2>13 DEF LockExpires, ResultExpires
  <2>14. CASE UNCHANGED vars
    BY <2>14 DEF vars
  <2> QED
    BY <2>4, <2>5, <2>6, <2>7, <2>8, <2>9, <2>10, <2>11, <2>12, <2>13, <2>14
    DEF Next, Step
<1>3. NoLockExpiry
  BY BenignFaults DEF NoLockExpiry, BenignFaults
<1> QED
  BY <1>1, <1>2, <1>3, TypeCorrect, LockWorks, OneOrder, <1>AnswersSound, PTL
  DEF Spec, Base, KeepsPromise, Promise!Spec
=============================================================================
