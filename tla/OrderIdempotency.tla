-------------------------- MODULE OrderIdempotency --------------------------
(***************************************************************************)
(* POST /orders with an Idempotency-Key header: OrdersService.create over  *)
(* the Redis lock and result records of OrderIdempotencyService.  Several  *)
(* requests, on several workers, carry the same key.  One request creates  *)
(* at most one order, so an order is named by the request that created it. *)
(***************************************************************************)
EXTENDS FiniteSets

CONSTANTS Requests,    \* calls of OrdersService.create
          Keys,        \* normalized idempotency keys
          NoKey,       \* normalizeKey returned null: absent, blank or too long
          KeyOf,       \* the key a request carries
          FpOf,        \* buildFingerprint of a request
          NoRecord, NoAnswer, Refused,
          Faults       \* the failures this instance admits

FaultKinds ==
  { "readFails",        \* GET of the result record fails: treated as absent
    "lockCallFails",    \* SET NX fails (treated as lock not free) or DEL fails
    "writeFails",       \* SET of the result record fails
    "rejects",          \* executeCreate throws before its transaction commits
    "erpRejects",       \* connected checkout is rejected and compensated
    "throwsLate",       \* executeCreate throws after its commit, order kept
    "crash",            \* the process serving the request dies
    "lockExpires",      \* 120 s pass while the lock record exists
    "resultExpires" }   \* 24 h pass since the result was stored

ASSUME KeysAssumption ==
  /\ KeyOf \in [Requests -> Keys \cup {NoKey}]
  /\ NoKey \notin Keys
ASSUME NullsAssumption ==
  /\ NoRecord \notin Requests
  /\ NoAnswer \notin Requests
  /\ Refused \notin Requests
  /\ NoAnswer # Refused
ASSUME FaultsAssumption == Faults \subseteq FaultKinds

VARIABLES pc,       \* where each request is inside create
          lock,     \* lock[k]: the Redis lock record of k exists (its value is '1')
          result,   \* result[k]: the order in the result record of k
          orders,   \* committed orders not deleted by compensation
          answer    \* what the request returns or throws

vars == <<pc, lock, result, orders, answer>>

Idle     == {"start", "lock", "waiting", "relock"}
Holding  == {"recheck", "executing", "committed", "releasing"}
Finished == {"done", "dead"}

TypeOK ==
  /\ pc \in [Requests -> Idle \cup Holding \cup Finished]
  /\ lock \in [Keys -> BOOLEAN]
  /\ result \in [Keys -> Requests \cup {NoRecord}]
  /\ orders \subseteq Requests
  /\ answer \in [Requests -> Requests \cup {NoAnswer, Refused}]

Init ==
  /\ pc = [r \in Requests |-> "start"]
  /\ lock = [k \in Keys |-> FALSE]
  /\ result = [k \in Keys |-> NoRecord]
  /\ orders = {}
  /\ answer = [r \in Requests |-> NoAnswer]

Goto(r, label)   == pc' = [pc EXCEPT ![r] = label]
Answer(r, value) == answer' = [answer EXCEPT ![r] = value]

(* getRecord: a failed read is reported as "no record". *)
ReadAbsent(r) == result[KeyOf[r]] = NoRecord \/ "readFails" \in Faults

(* Faulty variant of MatchedAnswer: replays whatever the key holds. *)
AnswerUnchecked(r) == result[KeyOf[r]]

(* getMatchingResult on an existing record: the stored response when the   *)
(* fingerprints agree, else a ConflictException.                           *)
MatchedAnswer(r) ==
  IF FpOf[result[KeyOf[r]]] = FpOf[r] THEN result[KeyOf[r]] ELSE Refused

(* One read of the record at label `from`: replay or conflict leads to     *)
(* `hit`, an absent record to `miss`.                                      *)
ReadRecord(r, from, hit, miss) ==
  /\ pc[r] = from
  /\ \/ /\ ReadAbsent(r)
        /\ Goto(r, miss)
        /\ UNCHANGED answer
     \/ /\ result[KeyOf[r]] # NoRecord
        /\ Answer(r, MatchedAnswer(r))
        /\ Goto(r, hit)
  /\ UNCHANGED <<lock, result, orders>>

(* SET NX EX at label `from`: the lock is taken, or the call reports that  *)
(* it was not.                                                             *)
SetNx(r, from) ==
  /\ pc[r] = from
  /\ ~ lock[KeyOf[r]]
  /\ lock' = [lock EXCEPT ![KeyOf[r]] = TRUE]
  /\ Goto(r, "recheck")
  /\ UNCHANGED <<result, orders, answer>>

NotAcquired(r) == lock[KeyOf[r]] \/ "lockCallFails" \in Faults

-----------------------------------------------------------------------------
(* create without a key goes straight to executeCreate. *)
StartUnkeyed(r) ==
  /\ KeyOf[r] = NoKey
  /\ pc[r] = "start"
  /\ Goto(r, "executing")
  /\ UNCHANGED <<lock, result, orders, answer>>

Lookup(r) == KeyOf[r] # NoKey /\ ReadRecord(r, "start", "done", "lock")

TryLock(r) ==
  \/ SetNx(r, "lock")
  \/ /\ pc[r] = "lock"
     /\ NotAcquired(r)
     /\ Goto(r, "waiting")
     /\ UNCHANGED <<lock, result, orders, answer>>

(* waitForMatchingResult: polls every 100 ms; the deadline can pass after  *)
(* any poll.                                                               *)
Poll(r)     == ReadRecord(r, "waiting", "done", "waiting")

(* Faulty variant of WaitOver: waits until the lock is free, no deadline. *)
WaitForLock(r) ==
  /\ pc[r] = "waiting"
  /\ ~ lock[KeyOf[r]]
  /\ Goto(r, "relock")
  /\ UNCHANGED <<lock, result, orders, answer>>

WaitOver(r) ==
  /\ pc[r] = "waiting"
  /\ Goto(r, "relock")
  /\ UNCHANGED <<lock, result, orders, answer>>

TryLockAgain(r) ==
  \/ SetNx(r, "relock")
  \/ /\ pc[r] = "relock"
     /\ NotAcquired(r)
     /\ Goto(r, "done")
     /\ Answer(r, Refused)
     /\ UNCHANGED <<lock, result, orders>>

(* Faulty variant of Recheck: the record is not read again under the lock. *)
SkipRecheck(r) ==
  /\ pc[r] = "recheck"
  /\ Goto(r, "executing")
  /\ UNCHANGED <<lock, result, orders, answer>>

Recheck(r) == ReadRecord(r, "recheck", "releasing", "executing")

(* executeCreate ends: the finally block runs only when there is a key. *)
Leave(r, value) ==
  /\ Answer(r, value)
  /\ Goto(r, IF KeyOf[r] = NoKey THEN "done" ELSE "releasing")

(* executeCreate throws before its transaction commits. *)
CreateRejected(r) ==
  /\ "rejects" \in Faults
  /\ pc[r] = "executing"
  /\ Leave(r, Refused)
  /\ UNCHANGED <<lock, result, orders>>

(* Faulty variant of CommitOrder: the result record is written before the  *)
(* ERP has accepted the order.                                             *)
CommitAndStore(r) ==
  /\ pc[r] = "executing"
  /\ orders' = orders \cup {r}
  /\ result' = IF KeyOf[r] = NoKey THEN result ELSE [result EXCEPT ![KeyOf[r]] = r]
  /\ Goto(r, "committed")
  /\ UNCHANGED <<lock, answer>>

(* The transaction of executeCreate commits. *)
CommitOrder(r) ==
  /\ pc[r] = "executing"
  /\ orders' = orders \cup {r}
  /\ Goto(r, "committed")
  /\ UNCHANGED <<lock, result, answer>>

(* Connected checkout refused by the ERP: the order is deleted again. *)
Compensate(r) ==
  /\ "erpRejects" \in Faults
  /\ pc[r] = "committed"
  /\ orders' = orders \ {r}
  /\ Leave(r, Refused)
  /\ UNCHANGED <<lock, result>>

(* createPaymentForOrder, or the deletion after an ERP reject, throws:     *)
(* nothing undoes the committed order.                                     *)
ThrowsAfterCommit(r) ==
  /\ "throwsLate" \in Faults
  /\ pc[r] = "committed"
  /\ Leave(r, Refused)
  /\ UNCHANGED <<lock, result, orders>>

(* Faulty variant of StoreResult: caches the outcome of a failed write. *)
StoreRefusal(r) ==
  /\ pc[r] = "committed"
  /\ result' = IF KeyOf[r] = NoKey THEN result ELSE [result EXCEPT ![KeyOf[r]] = Refused]
  /\ Leave(r, Refused)
  /\ UNCHANGED <<lock, orders>>

(* storeResult after a successful executeCreate; when the write fails the  *)
(* lock is kept until its TTL and 503 is thrown.                           *)
StoreResult(r) ==
  /\ pc[r] = "committed"
  /\ \/ /\ KeyOf[r] = NoKey
        /\ UNCHANGED result
        /\ Leave(r, r)
     \/ /\ KeyOf[r] # NoKey
        /\ result' = [result EXCEPT ![KeyOf[r]] = r]
        /\ Leave(r, r)
     \/ /\ KeyOf[r] # NoKey
        /\ "writeFails" \in Faults
        /\ UNCHANGED result
        /\ Answer(r, Refused)
        /\ Goto(r, "done")
  /\ UNCHANGED <<lock, orders>>

(* releaseLock: an unconditional DEL; its failure is logged only. *)
Release(r) ==
  /\ pc[r] = "releasing"
  /\ \/ lock' = [lock EXCEPT ![KeyOf[r]] = FALSE]
     \/ "lockCallFails" \in Faults /\ UNCHANGED lock
  /\ Goto(r, "done")
  /\ UNCHANGED <<result, orders, answer>>

(* The worker dies: no finally block runs, the client gets no answer. *)
Crash(r) ==
  /\ "crash" \in Faults
  /\ pc[r] \notin Finished
  /\ Goto(r, "dead")
  /\ Answer(r, NoAnswer)
  /\ UNCHANGED <<lock, result, orders>>

(* Redis drops a record at the end of its TTL. *)
LockExpires(k) ==
  /\ "lockExpires" \in Faults
  /\ lock[k]
  /\ lock' = [lock EXCEPT ![k] = FALSE]
  /\ UNCHANGED <<pc, result, orders, answer>>

ResultExpires(k) ==
  /\ "resultExpires" \in Faults
  /\ result[k] # NoRecord
  /\ result' = [result EXCEPT ![k] = NoRecord]
  /\ UNCHANGED <<pc, lock, orders, answer>>

Step(r) ==
  \/ StartUnkeyed(r) \/ Lookup(r) \/ TryLock(r) \/ Poll(r) \/ WaitOver(r)
  \/ TryLockAgain(r) \/ Recheck(r) \/ CreateRejected(r) \/ CommitOrder(r)
  \/ Compensate(r) \/ ThrowsAfterCommit(r) \/ StoreResult(r) \/ Release(r)

Next ==
  \/ \E r \in Requests : Step(r) \/ Crash(r)
  \/ \E k \in Keys : LockExpires(k) \/ ResultExpires(k)

(* A worker that is alive keeps executing its request: awaits return and   *)
(* the wait loop has a deadline.                                           *)
Fairness == \A r \in Requests : WF_vars(Step(r))

Spec     == Init /\ [][Next]_vars
FairSpec == Spec /\ Fairness

-----------------------------------------------------------------------------
(* The inductive invariant behind the properties below.  While no lock     *)
(* expires, a holder's lock record exists; while nothing but a store or a  *)
(* crash fails after the commit, an order of a key is recorded, still in   *)
(* the hands of its creator, or shielded by a lock nobody holds.           *)
LockedSteps == {"lock", "waiting", "relock", "recheck", "releasing"}

KeyedSteps == \A r \in Requests : pc[r] \in LockedSteps => KeyOf[r] \in Keys

RecordsOfKey == \A k \in Keys : result[k] \in Requests => KeyOf[result[k]] = k

Holds(r, k) == KeyOf[r] = k /\ pc[r] \in Holding

HoldersHaveLocks == \A k \in Keys : \A r \in Requests : Holds(r, k) => lock[k]

Shielded(o) ==
  /\ pc[o] \in Finished
  /\ lock[KeyOf[o]]
  /\ \A r \in Requests : ~ Holds(r, KeyOf[o])

KeyedOrdersGuarded ==
  \A o \in orders : KeyOf[o] \in Keys =>
    \/ result[KeyOf[o]] = o
    \/ pc[o] = "committed"
    \/ Shielded(o)

CreatorsSeeNoRecord ==
  \A r \in Requests : KeyOf[r] \in Keys /\ pc[r] \in {"executing", "committed"}
    => result[KeyOf[r]] = NoRecord

CommittedAreOrders == \A r \in Requests : pc[r] = "committed" => r \in orders

RecordsAreOrders == \A k \in Keys : result[k] # NoRecord => result[k] \in orders

(* What a client has received: nothing before create returns or throws. *)
Received == [r \in Requests |-> IF pc[r] = "done" THEN answer[r] ELSE NoAnswer]

Promise == INSTANCE CheckoutPromise WITH answer <- Received

(* create with its lock, record, waits and failures implements the promise *)
(* of the key, as long as no record expires, no read of a record fails and *)
(* nothing throws between the commit and the end of executeCreate.         *)
KeepsPromise == Promise!Spec

(* Only one request per key is between taking the lock and releasing it    *)
(* (comment orders.service.ts:2274), unless the lock record expires.       *)
MutualExclusion ==
  \A r, s \in Requests :
    /\ KeyOf[r] = KeyOf[s] /\ KeyOf[r] # NoKey
    /\ pc[r] \in Holding /\ pc[s] \in Holding
    => r = s

(* A key never yields two orders: concurrent submissions and retries of    *)
(* one checkout create it once, whatever the order of reads, lock attempts *)
(* and waits.                                                              *)
OneOrderPerKey ==
  \A o, p \in orders : KeyOf[o] = KeyOf[p] /\ KeyOf[o] # NoKey => o = p

(* A client is only ever answered with an order created by a request that  *)
(* carried the same key and the same fingerprint: another customer's       *)
(* checkout is never replayed, even when locks and results expire or reads *)
(* fail.                                                                   *)
ReplayMatchesRequest ==
  \A r \in Requests : answer[r] \in Requests =>
    /\ KeyOf[answer[r]] = KeyOf[r]
    /\ FpOf[answer[r]] = FpOf[r]

(* The order named in an answer is durable: compensation never deletes an  *)
(* order that a result record or an answer already names.                  *)
AnsweredOrdersExist ==
  /\ \A r \in Requests : answer[r] \in Requests => answer[r] \in orders
  /\ \A k \in Keys : result[k] # NoRecord => result[k] \in orders

(* A result record is not replaced by another order while it exists, so    *)
(* every retry inside its TTL is answered with the same order.             *)
ResultIsStable ==
  [][\A k \in Keys : result[k] # NoRecord => result'[k] \in {result[k], NoRecord}]_vars

(* Every request whose worker survives is answered: nobody waits forever   *)
(* for a lock left behind by a crashed or failed holder.                   *)
EventuallyAnswered == \A r \in Requests : <>(pc[r] \in Finished)
=============================================================================
