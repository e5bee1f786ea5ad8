------------------------------- MODULE SyncLock -------------------------------
(***************************************************************************)
(* The Redis lock in front of a synchronisation, in its three forms: the   *)
(* ERP's ("flexi": heartbeat and release look at the owner), the warehouse *)
(* mirror's ("plant": only the release does) and Nova Poshta's ("np":      *)
(* neither does).  A look and what follows it are two calls.  A holder     *)
(* that misses its heartbeats outlives its lock and does not know it.      *)
(* Not here: what is synchronised; the cancellation of a sync, which takes *)
(* Nova Poshta's lock away from its holder.                                *)
(***************************************************************************)
EXTENDS Naturals

CONSTANTS Workers,   \* runs of the synchronisation, in one process or in several
          Protocols, \* subset of {"flexi", "plant", "np"}
          Faults     \* subset of {"overrun", "crash"}

VARIABLES
  protocol,
  lock,     \* whose value the key holds
  lease,    \* "fresh" after SET or EXPIRE, "late" when the expiry is near
  pc,       \* where each run is
  overrun   \* runs that outlived their lock

vars == <<protocol, lock, lease, pc, overrun>>

Nobody == "nobody"

TypeOK ==
  /\ protocol \in Protocols
  /\ lock \in Workers \cup {Nobody} /\ lease \in {"fresh", "late"}
  /\ pc \in [Workers -> {"idle", "running", "extend", "finally", "delete", "done", "dead"}]
  /\ overrun \subseteq Workers

Init ==
  /\ protocol \in Protocols
  /\ lock = Nobody /\ lease = "fresh"
  /\ pc = [w \in Workers |-> "idle"]
  /\ overrun = {}

At(w, label)   == pc[w] = label
Goto(w, label) == pc' = [pc EXCEPT ![w] = label]

-----------------------------------------------------------------------------
(* SET key owner EX ttl NX                                                 *)
TryAcquire(w) ==
  /\ At(w, "idle")
  /\ IF lock = Nobody
     THEN lock' = w /\ lease' = "fresh" /\ Goto(w, "running")
     ELSE Goto(w, "done") /\ UNCHANGED <<lock, lease>>
  /\ UNCHANGED <<protocol, overrun>>

(* The heartbeat looks at the owner, or for any lock at all, then extends. *)
Heartbeat(w) ==
  /\ At(w, "running")
  /\ lock = w \/ (protocol # "flexi" /\ lock # Nobody)
  /\ Goto(w, "extend")
  /\ UNCHANGED <<protocol, lock, lease, overrun>>

Extend(w) ==
  /\ At(w, "extend")
  /\ lease' = "fresh"
  /\ Goto(w, "running")
  /\ UNCHANGED <<protocol, lock, overrun>>

(* The work is over, or has thrown: finally.                               *)
End(w) ==
  /\ At(w, "running")
  /\ Goto(w, "finally")
  /\ UNCHANGED <<protocol, lock, lease, overrun>>

(* Faulty variant of Mine: the key is deleted whoever holds it.            *)
Anyones(w) == TRUE

Mine(w) == protocol = "np" \/ lock = w

ReadOwner(w) ==
  /\ At(w, "finally")
  /\ Goto(w, IF Mine(w) THEN "delete" ELSE "done")
  /\ UNCHANGED <<protocol, lock, lease, overrun>>

Release(w) ==
  /\ At(w, "delete")
  /\ lock' = Nobody
  /\ Goto(w, "done")
  /\ UNCHANGED <<protocol, lease, overrun>>

(* Time passes.  A lock expires under a holder that is gone, or that has   *)
(* missed its heartbeats; not between the two calls of its release.        *)
Late ==
  /\ lock # Nobody /\ lease = "fresh"
  /\ lease' = "late"
  /\ UNCHANGED <<protocol, lock, pc, overrun>>

Expire ==
  /\ lock # Nobody /\ lease = "late"
  /\ \/ pc[lock] \in {"dead", "done"}
     \/ "overrun" \in Faults /\ pc[lock] \in {"running", "extend", "finally"}
  /\ overrun' = overrun \cup {lock}
  /\ lock' = Nobody
  /\ UNCHANGED <<protocol, lease, pc>>

Crash(w) ==
  /\ "crash" \in Faults /\ pc[w] \notin {"idle", "done", "dead"}
  /\ Goto(w, "dead")
  /\ UNCHANGED <<protocol, lock, lease, overrun>>

-----------------------------------------------------------------------------
Proceeds(w) == Extend(w) \/ ReadOwner(w) \/ Release(w)

Next ==
  \/ \E w \in Workers : TryAcquire(w) \/ Heartbeat(w) \/ End(w) \/ Proceeds(w) \/ Crash(w)
  \/ Late \/ Expire

Spec == Init /\ [][Next]_vars

-----------------------------------------------------------------------------
Inside(w) == pc[w] \in {"running", "extend", "finally", "delete"}

(* Two runs of a synchronisation do not overlap, but for one that has      *)
(* outlived its lock; and that one, when it ends, does not take the lock   *)
(* from its successor and let a third one in.                              *)
LiveHoldersExclude ==
  \A v, w \in Workers : (Inside(v) /\ Inside(w) /\ v # w) => (v \in overrun \/ w \in overrun)
=============================================================================
