---------------------------- MODULE FlexiInbound ----------------------------
(***************************************************************************)
(* Changes made in the ABRA Flexi ERP reach the shop's catalogue: a        *)
(* webhook, or the backup poll of the Changes API, asks for a refresh of   *)
(* the object that changed; refreshes of one object are coalesced by a job *)
(* with a fixed id and a dirty bit; "update and enable" reads everything   *)
(* and bridges what changed meanwhile.  A step is what happens between two *)
(* awaits.  The state of an object is named by the version of the Changes  *)
(* API that produced it; the fields it carries are left out.               *)
(***************************************************************************)
EXTENDS Naturals, Sequences, FiniteSetsExt

CONSTANTS Objects,    \* coalesce keys: cenik:1, strom:*, ...
          MaxVersion, \* bound: changes made in the ERP
          MaxTries,   \* attempts of a refresh job (5 in the code)
          MaxFails,   \* bound: failed requests of the ERP
          Calls,      \* subset of {"hook", "poll", "enable"}
          Faults,     \* subset of {"hookLost", "crash"}
          Calm        \* the ERP avoids the moments named at Change and StartPoll

VARIABLES
  changes,   \* the Changes API: changes[v] is the object version v changed
  site,      \* [Objects -> version of the state the catalogue shows]
  cursor,    \* settings.globalVersion
  accepting, \* settings.webhookAccepting
  hooks,     \* versions whose webhook is on its way
  job,       \* [Objects -> [at, tries]]: the job flexi-refresh:<key>
  dirty,     \* objects whose dirty bit is set in Redis
  failures,  \* objects with an open failure
  proc,      \* what each process is doing
  bridge,    \* what updateAndEnable has gathered
  fails, crashed

vars == <<changes, site, cursor, accepting, hooks, job, dirty, failures, proc, bridge, fails, crashed>>
erp  == <<changes, hooks>>

Procs == {"hook", "poll", "worker", "admin"}
Tip   == Len(changes)
Latest(o) == Max({0} \cup {v \in 1..Tip : changes[v] = o})
Since(v)  == {changes[w] : w \in v..Tip}  \* Changes API: start is inclusive

(* at: where the process is; todo: objects it has still to enqueue or to   *)
(* refresh; obj: the one in hand; ok: its refresh has not failed; saw: the *)
(* version it read; found: the state of the job it looked up.              *)
Idle == [at |-> "idle", todo |-> {}, obj |-> CHOOSE o \in Objects : TRUE,
         ok |-> TRUE, saw |-> 0, next |-> 0, found |-> "none"]
States == {"none", "waiting", "active", "kept"}
Labels == {"idle", "look", "add", "collect", "filter", "advance", "get", "apply", "checkDirty",
           "undirty", "finish", "tip", "fetch", "store", "pass", "refresh", "register"}

TypeOK ==
  /\ changes \in Seq(Objects) /\ Tip <= MaxVersion
  /\ site \in [Objects -> 0..MaxVersion]
  /\ cursor \in Nat
  /\ accepting \in BOOLEAN
  /\ hooks \subseteq 1..MaxVersion
  /\ job \in [Objects -> [at : States, tries : 1..MaxTries]]
  /\ dirty \subseteq Objects /\ failures \subseteq Objects
  /\ proc \in [Procs -> [at : Labels, todo : SUBSET Objects, obj : Objects, ok : BOOLEAN,
                         saw : Nat, next : Nat, found : States]]
  /\ bridge \in [base : Nat, from : Nat, next : Nat, seen : SUBSET Objects, second : BOOLEAN]
  /\ fails \in 0..MaxFails /\ crashed \in BOOLEAN

NewBridge(base, second) == [base |-> base, from |-> base + 1, next |-> base, seen |-> {}, second |-> second]
NoBridge == NewBridge(0, FALSE)

Init ==
  /\ changes = <<>> /\ hooks = {}
  /\ site = [o \in Objects |-> 0]
  /\ cursor = 0 /\ accepting = TRUE
  /\ job = [o \in Objects |-> [at |-> "none", tries |-> 1]]
  /\ dirty = {} /\ failures = {}
  /\ proc = [p \in Procs |-> Idle]
  /\ bridge = NoBridge
  /\ fails = 0 /\ crashed = FALSE

At(p, label)   == proc[p].at = label
Goto(p, label) == proc' = [proc EXCEPT ![p].at = label]

-----------------------------------------------------------------------------
(* The ERP changes an object, numbers the change and sends a webhook.      *)
(* Calm instances spare an object whose refresh is past its GET, and       *)
(* updateAndEnable from a pass that found nothing to its end.              *)
PastGet(p) == proc[p].at \in {"apply", "checkDirty", "undirty", "look", "add", "finish"}
Undisturbed(o) ==
  /\ \A p \in Procs : PastGet(p) => proc[p].obj # o
  /\ At("admin", "refresh") => bridge.next <= Tip
  /\ ~At("admin", "register") /\ ~bridge.second /\ o \notin bridge.seen

Change(o) ==
  /\ Tip < MaxVersion
  /\ Calm => Undisturbed(o)
  /\ changes' = Append(changes, o)
  /\ hooks' = hooks \cup {Tip + 1}
  /\ UNCHANGED <<site, cursor, accepting, job, dirty, failures, proc, bridge, fails, crashed>>

LoseHook(v) ==
  /\ "hookLost" \in Faults /\ v \in hooks
  /\ hooks' = hooks \ {v}
  /\ UNCHANGED <<changes, site, cursor, accepting, job, dirty, failures, proc, bridge, fails, crashed>>

(* POST webhook: while accepting is off the notification is only noted.    *)
Deliver(v) ==
  /\ "hook" \in Calls /\ v \in hooks /\ At("hook", "idle")
  /\ hooks' = hooks \ {v}
  /\ proc' = IF accepting THEN [proc EXCEPT !["hook"] = [Idle EXCEPT !.at = "look", !.todo = {changes[v]}]]
             ELSE proc
  /\ UNCHANGED <<changes, site, cursor, accepting, job, dirty, failures, bridge, fails, crashed>>

-----------------------------------------------------------------------------
(* enqueueFromChangeEntries calls enqueueRefresh for each key, a refresh   *)
(* that found its dirty bit for its own: it looks the job up, then adds it *)
(* or sets the dirty bit on what it saw.                                   *)
Refreshers == {"worker", "admin"}
LookUp(p, o) ==
  /\ At(p, "look") /\ o \in IF p \in Refreshers THEN {proc[p].obj} ELSE proc[p].todo
  /\ proc' = [proc EXCEPT ![p].at = "add", ![p].obj = o, ![p].found = job[o].at]
  /\ UNCHANGED <<erp, site, cursor, accepting, job, dirty, failures, bridge, fails, crashed>>

AfterEnqueue(p, rest) ==
  CASE p \in Refreshers                     -> "finish"
    [] p \notin Refreshers /\ rest # {}     -> "look"
    [] p \notin Refreshers /\ rest = {}     -> IF p = "hook" THEN "idle" ELSE "advance"

(* Faulty variant of Readded: a kept job is left where it is, so add drops *)
(* the new one as a duplicate.                                             *)
AddedOnly(o) == IF job[o].at = "none" THEN [job EXCEPT ![o] = [at |-> "waiting", tries |-> 1]] ELSE job

(* A finished job is removed and added anew; an active one can neither be  *)
(* removed nor added twice.                                                *)
Readded(o) == IF job[o].at = "active" THEN job ELSE [job EXCEPT ![o] = [at |-> "waiting", tries |-> 1]]

Enqueue(p) ==
  LET o == proc[p].obj  rest == proc[p].todo \ {proc[p].obj} IN
  /\ At(p, "add")
  /\ IF proc[p].found \in {"none", "kept"}
     THEN job' = Readded(o) /\ UNCHANGED dirty
     ELSE dirty' = dirty \cup {o} /\ UNCHANGED job
  /\ proc' = [proc EXCEPT ![p].at = AfterEnqueue(p, rest), ![p].todo = rest, ![p].found = "none"]
  /\ UNCHANGED <<erp, site, cursor, accepting, failures, bridge, fails, crashed>>

-----------------------------------------------------------------------------
(* pollChangesLive: read the cursor, collect what is newer, enqueue it     *)
(* unless accepting was turned off meanwhile, and only then advance the    *)
(* cursor.  Calm instances poll only when there is something to find, and  *)
(* not while updateAndEnable runs.                                         *)
StartPoll ==
  /\ "poll" \in Calls /\ At("poll", "idle") /\ accepting
  /\ Calm => Tip > cursor /\ At("admin", "idle")
  /\ cursor < MaxVersion
  /\ proc' = [proc EXCEPT !["poll"] = [Idle EXCEPT !.at = "collect", !.saw = cursor]]
  /\ UNCHANGED <<erp, site, cursor, accepting, job, dirty, failures, bridge, fails, crashed>>

(* collectChangeNotifications(start): with nothing at or after start, the  *)
(* next version is start itself.                                           *)
NextVersion(start) == Max({start, Tip})

Collect ==
  /\ At("poll", "collect")
  /\ \/ proc' = [proc EXCEPT !["poll"].at = "filter", !["poll"].todo = Since(proc["poll"].saw + 1),
                             !["poll"].next = NextVersion(proc["poll"].saw + 1)]
        /\ UNCHANGED fails
     \/ \* a request fails or the page cap is hit: the cursor stays
        /\ fails < MaxFails /\ fails' = fails + 1
        /\ proc' = [proc EXCEPT !["poll"] = Idle]
  /\ UNCHANGED <<erp, site, cursor, accepting, job, dirty, failures, bridge, crashed>>

Filter ==
  /\ At("poll", "filter")
  /\ LET todo == IF accepting THEN proc["poll"].todo ELSE {} IN
     proc' = [proc EXCEPT !["poll"].todo = todo, !["poll"].at = AfterEnqueue("poll", todo)]
  /\ UNCHANGED <<erp, site, cursor, accepting, job, dirty, failures, bridge, fails, crashed>>

Advance ==
  /\ At("poll", "advance")
  /\ cursor' = Max({proc["poll"].saw, proc["poll"].next})
  /\ proc' = [proc EXCEPT !["poll"] = Idle]
  /\ UNCHANGED <<erp, site, accepting, job, dirty, failures, bridge, fails, crashed>>

-----------------------------------------------------------------------------
(* The queue's worker takes a refresh job (concurrency 1).                 *)
Take(o) ==
  /\ At("worker", "idle") /\ job[o].at = "waiting"
  /\ job' = [job EXCEPT ![o].at = "active"]
  /\ proc' = [proc EXCEPT !["worker"] = [Idle EXCEPT !.at = "get", !.obj = o]]
  /\ UNCHANGED <<erp, site, cursor, accepting, dirty, failures, bridge, fails, crashed>>

(* processRefreshJob, in the worker or called by the bridge: GET the       *)
(* current state; a failed GET opens a failure of this object.             *)
Get(p) ==
  /\ At(p, "get")
  /\ \/ /\ proc' = [proc EXCEPT ![p].at = "apply", ![p].saw = Latest(proc[p].obj), ![p].ok = TRUE]
        /\ UNCHANGED <<failures, fails>>
     \/ /\ fails < MaxFails /\ fails' = fails + 1
        /\ failures' = failures \cup {proc[p].obj}
        /\ proc' = [proc EXCEPT ![p].at = "checkDirty", ![p].ok = FALSE]
  /\ UNCHANGED <<erp, site, cursor, accepting, job, dirty, bridge, crashed>>

(* applyCenikItem writes what was read; the failure of this object closes. *)
Apply(p) ==
  /\ At(p, "apply")
  /\ site' = [site EXCEPT ![proc[p].obj] = proc[p].saw]
  /\ failures' = failures \ {proc[p].obj}
  /\ Goto(p, "checkDirty")
  /\ UNCHANGED <<erp, cursor, accepting, job, dirty, bridge, fails, crashed>>

(* finally: consumeDirty reads the bit and deletes it in two calls; a bit  *)
(* that was set asks for another refresh.                                  *)
CheckDirty(p) ==
  /\ At(p, "checkDirty")
  /\ proc' = [proc EXCEPT ![p].at = IF proc[p].obj \in dirty THEN "undirty" ELSE "finish", ![p].saw = 0]
  /\ UNCHANGED <<erp, site, cursor, accepting, job, dirty, failures, bridge, fails, crashed>>

Undirty(p) ==
  /\ At(p, "undirty")
  /\ dirty' = dirty \ {proc[p].obj}
  /\ Goto(p, "look")
  /\ UNCHANGED <<erp, site, cursor, accepting, job, failures, bridge, fails, crashed>>

(* The job ends: a thrown error is retried until the attempts are used up; *)
(* a finished job is kept (removeOnComplete, removeOnFail: 50).            *)
Finish ==
  LET o == proc["worker"].obj IN
  /\ At("worker", "finish")
  /\ job' = IF ~proc["worker"].ok /\ job[o].tries < MaxTries
            THEN [job EXCEPT ![o] = [at |-> "waiting", tries |-> @.tries + 1]]
            ELSE [job EXCEPT ![o].at = "kept"]
  /\ proc' = [proc EXCEPT !["worker"] = Idle]
  /\ UNCHANGED <<erp, site, cursor, accepting, dirty, failures, bridge, fails, crashed>>

(* The process dies: a job it was working on is stalled and starts again.  *)
Crash(p) ==
  /\ "crash" \in Faults /\ ~crashed /\ p \in {"worker", "poll"} /\ ~At(p, "idle")
  /\ crashed' = TRUE
  /\ job' = IF p = "worker" THEN [job EXCEPT ![proc[p].obj].at = "waiting"] ELSE job
  /\ proc' = [proc EXCEPT ![p] = Idle]
  /\ UNCHANGED <<erp, site, cursor, accepting, dirty, failures, bridge, fails>>

-----------------------------------------------------------------------------
(* updateAndEnable: accepting off, baseline, the whole catalogue, a bridge *)
(* over what changed meanwhile, the new cursor, the webhook registration,  *)
(* a second bridge, accepting on.  A failing step leaves accepting off.    *)
Disable ==
  /\ "enable" \in Calls /\ At("admin", "idle") /\ accepting
  /\ Calm => At("poll", "idle")
  /\ accepting' = FALSE
  /\ Goto("admin", "tip")
  /\ UNCHANGED <<erp, site, cursor, job, dirty, failures, bridge, fails, crashed>>

Restart ==
  /\ "enable" \in Calls /\ At("admin", "idle") /\ ~accepting
  /\ Goto("admin", "tip")
  /\ UNCHANGED <<erp, site, cursor, accepting, job, dirty, failures, bridge, fails, crashed>>

Baseline ==
  /\ At("admin", "tip")
  /\ bridge' = NewBridge(Tip, FALSE)
  /\ Goto("admin", "fetch")
  /\ UNCHANGED <<erp, site, cursor, accepting, job, dirty, failures, fails, crashed>>

Abandon ==
  /\ proc["admin"].at \in {"fetch", "pass"} /\ fails < MaxFails
  /\ fails' = fails + 1
  /\ bridge' = NoBridge
  /\ proc' = [proc EXCEPT !["admin"] = Idle]
  /\ UNCHANGED <<erp, site, cursor, accepting, job, dirty, failures, crashed>>

(* runFullRefreshAll reads the catalogue and writes it.                    *)
Fetch ==
  /\ At("admin", "fetch")
  /\ proc' = [proc EXCEPT !["admin"].at = "store", !["admin"].saw = Tip]
  /\ UNCHANGED <<erp, site, cursor, accepting, job, dirty, failures, bridge, fails, crashed>>

Store ==
  /\ At("admin", "store")
  /\ site' = [o \in Objects |-> Max({0} \cup {v \in 1..proc["admin"].saw : changes[v] = o})]
  /\ Goto("admin", "pass")
  /\ UNCHANGED <<erp, cursor, accepting, job, dirty, failures, bridge, fails, crashed>>

(* One pass of runRaceBridge: every key once, however many passes.         *)
Pass ==
  /\ At("admin", "pass")
  /\ proc' = [proc EXCEPT !["admin"].at = "refresh", !["admin"].todo = Since(bridge.from) \ bridge.seen]
  /\ bridge' = [bridge EXCEPT !.next = NextVersion(bridge.from)]
  /\ UNCHANGED <<erp, site, cursor, accepting, job, dirty, failures, fails, crashed>>

RefreshNext(o) ==
  /\ At("admin", "refresh") /\ o \in proc["admin"].todo
  /\ proc' = [proc EXCEPT !["admin"].at = "get", !["admin"].obj = o, !["admin"].todo = @ \ {o}]
  /\ bridge' = [bridge EXCEPT !.seen = @ \cup {o}]
  /\ UNCHANGED <<erp, site, cursor, accepting, job, dirty, failures, fails, crashed>>

Refreshed ==
  /\ At("admin", "finish")
  /\ proc' = [proc EXCEPT !["admin"] = IF @.ok THEN [@ EXCEPT !.at = "refresh"] ELSE Idle]
  /\ bridge' = IF proc["admin"].ok THEN bridge ELSE NoBridge
  /\ UNCHANGED <<erp, site, cursor, accepting, job, dirty, failures, fails, crashed>>

(* The pass ends: another one if the tip has moved on, else the cursor is  *)
(* set; the first bridge also closes every failure (runLocked), the second *)
(* turns accepting on.                                                     *)
MorePasses == Tip > bridge.next /\ Tip >= bridge.base + 1

NextPass ==
  /\ At("admin", "refresh") /\ proc["admin"].todo = {} /\ MorePasses
  /\ bridge' = [bridge EXCEPT !.from = Max({bridge.next, bridge.base + 1})]
  /\ Goto("admin", "pass")
  /\ UNCHANGED <<erp, site, cursor, accepting, job, dirty, failures, fails, crashed>>

EndBridge ==
  /\ At("admin", "refresh") /\ proc["admin"].todo = {} /\ ~MorePasses
  /\ cursor' = Max({bridge.base, Tip, bridge.next})
  /\ IF bridge.second
     THEN /\ accepting' = TRUE
          /\ bridge' = NoBridge
          /\ proc' = [proc EXCEPT !["admin"] = Idle]
          /\ UNCHANGED failures
     ELSE /\ failures' = {}
          /\ Goto("admin", "register")
          /\ UNCHANGED <<accepting, bridge>>
  /\ UNCHANGED <<erp, site, job, dirty, fails, crashed>>

(* The webhook is registered at the new baseline, then the gap is bridged. *)
Register ==
  /\ At("admin", "register")
  /\ bridge' = NewBridge(cursor, TRUE)
  /\ Goto("admin", "pass")
  /\ UNCHANGED <<erp, site, cursor, accepting, job, dirty, failures, fails, crashed>>

-----------------------------------------------------------------------------
Step(p) ==
  \/ \E o \in Objects : LookUp(p, o)
  \/ Enqueue(p) \/ Get(p) \/ Apply(p) \/ CheckDirty(p) \/ Undirty(p)

Hooks  == Step("hook")
Polls  == Step("poll") \/ Collect \/ Filter \/ Advance
Works  == Step("worker") \/ Finish \/ \E o \in Objects : Take(o)
Admins == Step("admin") \/ Baseline \/ Fetch \/ Store \/ Pass \/ Refreshed \/ NextPass \/ EndBridge
            \/ Register \/ \E o \in Objects : RefreshNext(o)

Next ==
  \/ \E o \in Objects : Change(o)
  \/ \E v \in hooks : LoseHook(v) \/ Deliver(v)
  \/ StartPoll \/ Disable \/ Restart \/ Abandon
  \/ \E p \in Procs : Crash(p)
  \/ Hooks \/ Polls \/ Works \/ Admins

Spec == Init /\ [][Next]_vars

(* The backup poll is a repeatable job, the worker takes what is waiting,  *)
(* what has begun goes on, a webhook that is not lost is delivered; nobody  *)
(* has to press "update and enable".                                       *)
Fairness ==
  /\ WF_vars(Hooks) /\ WF_vars(Polls) /\ WF_vars(Works) /\ WF_vars(Admins)
  /\ WF_vars(StartPoll) /\ WF_vars(\E v \in hooks : Deliver(v))

FairSpec == Spec /\ Fairness

-----------------------------------------------------------------------------
Stale(o) == site[o] # Latest(o)

(* Somebody still has to look at o: the poll (its cursor lies before the   *)
(* change), a webhook, a job, whoever is about to enqueue or to read it,   *)
(* the dirty bit, the administrator's list of failures, or an enabling     *)
(* under way.                                                              *)
Remembered(o) ==
  \/ cursor < Latest(o)
  \/ \E v \in hooks : changes[v] = o
  \/ job[o].at = "waiting" \/ o \in dirty \/ o \in failures
  \/ \E p \in Procs : \/ o \in proc[p].todo
                     \/ (proc[p].obj = o /\ proc[p].at \in {"get", "look", "add"})
                     \/ (proc[p].obj = o /\ At(p, "apply") /\ proc[p].saw = Latest(o))
  \/ ~accepting

(* A change of the ERP the catalogue does not show is remembered by        *)
(* somebody, whatever the order of webhooks, polls, refreshes and crashes: *)
(* the cursor passes a change only once its refresh is on record.          *)
StaleIsRemembered == \A o \in Objects : Stale(o) => Remembered(o)

(* And it arrives, unless an open failure tells the administrator that it  *)
(* did not, or accepting was turned off and stays off.                     *)
ChangesArrive == \A o \in Objects : Stale(o) ~> (~Stale(o) \/ o \in failures \/ ~accepting)
=============================================================================
