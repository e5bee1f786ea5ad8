----------------------------- MODULE ReviewMedia -----------------------------
(***************************************************************************)
(* Photos a customer uploads through the link of a review request, before  *)
(* the review exists: a file in storage, a member of two Redis sets (who   *)
(* owns it, what may have to be cleaned up), then attached to the review   *)
(* or deleted by a clean-up job after the link has died.                   *)
(* Not here: the text of reviews, reviews of single products, the cap over *)
(* all photos of a link, the mails with the link, a clean-up that outlasts *)
(* its lock.                                                               *)
(***************************************************************************)
EXTENDS Naturals, FiniteSetsExt

CONSTANTS Images,    \* uploads, each its own file
          MaxImages, \* photos of a review (3 in the code)
          Submits,   \* requests that submit the review
          MaxTries,  \* attempts of the clean-up job (5 in the code)
          MaxFaults, \* bound: failures
          Faults     \* subset of {"redis", "storage", "queue", "crash"}

VARIABLES
  link,      \* "valid"; "dead" when revoked, expired or regenerated
  disk,      \* files in storage
  pending,   \* Redis: photos this link may attach
  manifest,  \* Redis: photos the clean-up looks at
  attached,  \* photos of the review, if there is one
  reviewed,
  upload,    \* [Images -> where its upload is]
  removal,   \* [Images -> where its removal by the customer is]
  submit,    \* [Submits -> [at, images]]
  job,       \* the clean-up job: [at, tries]
  cleaner,   \* [at, todo, keep, ok]: photos left, photos found attached; "locked" once
             \* the clean-up has left its lock behind
  faults

vars == <<link, disk, pending, manifest, attached, reviewed, upload, removal, submit, job, cleaner, faults>>

NoJob   == [at |-> "none", tries |-> 1]
Resting == [at |-> "idle", todo |-> {}, keep |-> {}, ok |-> TRUE]

SubmitStates  == [at : {"start", "commit", "release", "unlist", "done", "failed"}, images : SUBSET Images]
JobStates     == [at : {"none", "delayed", "active", "completed", "skipped", "failed"}, tries : 1..MaxTries]
CleanerStates == [at : {"idle", "look", "clean", "locked"}, todo : SUBSET Images, keep : SUBSET Images, ok : BOOLEAN]

TypeOK ==
  /\ link \in {"valid", "dead"} /\ reviewed \in BOOLEAN
  /\ disk \subseteq Images /\ pending \subseteq Images /\ manifest \subseteq Images /\ attached \subseteq Images
  /\ upload \in [Images -> {"none", "store", "own", "list", "count", "undo", "delete", "schedule", "done", "failed"}]
  /\ removal \in [Images -> {"none", "asked", "unlist", "delete", "removed", "kept"}]
  /\ submit \in [Submits -> SubmitStates]
  /\ job \in JobStates
  /\ cleaner \in CleanerStates
  /\ faults \in 0..MaxFaults

Init ==
  /\ link = "valid" /\ reviewed = FALSE
  /\ disk = {} /\ pending = {} /\ manifest = {} /\ attached = {}
  /\ upload = [i \in Images |-> "none"]
  /\ removal = [i \in Images |-> "none"]
  /\ submit = [s \in Submits |-> [at |-> "start", images |-> {}]]
  /\ job = NoJob
  /\ cleaner = Resting
  /\ faults = 0

Fault(f) == f \in Faults /\ faults < MaxFaults /\ faults' = faults + 1
Review   == <<attached, reviewed>>
Link     == <<link, Review>>

-----------------------------------------------------------------------------
(* uploadMediaByToken: the link is valid, there is no review yet, there    *)
(* are fewer photos than allowed; then the file is stored.                 *)
StartUpload(i) ==
  /\ upload[i] = "none" /\ link = "valid" /\ ~reviewed
  /\ Cardinality(pending) < MaxImages
  /\ upload' = [upload EXCEPT ![i] = "store"]
  /\ UNCHANGED <<Link, disk, pending, manifest, removal, submit, job, cleaner, faults>>

Store(i) ==
  /\ upload[i] = "store"
  /\ disk' = disk \cup {i}
  /\ upload' = [upload EXCEPT ![i] = "own"]
  /\ UNCHANGED <<Link, pending, manifest, removal, submit, job, cleaner, faults>>

(* registerPendingMediaInRedis: SADD to both sets, then the count decides. *)
(* Any failure deletes the file again.                                     *)
Registers(i) ==
  \/ /\ upload[i] = "own"
     /\ pending' = pending \cup {i} /\ UNCHANGED manifest
     /\ upload' = [upload EXCEPT ![i] = "list"]
  \/ /\ upload[i] = "list"
     /\ manifest' = manifest \cup {i} /\ UNCHANGED pending
     /\ upload' = [upload EXCEPT ![i] = "count"]

Register(i) ==
  /\ \/ Registers(i) /\ UNCHANGED faults
     \/ /\ upload[i] \in {"own", "list", "count"} /\ Fault("redis")
        /\ upload' = [upload EXCEPT ![i] = "delete"]
        /\ UNCHANGED <<pending, manifest>>
  /\ UNCHANGED <<Link, disk, removal, submit, job, cleaner>>

(* Faulty variant of TooMany: only the count before the upload matters.    *)
NeverCounted == FALSE

TooMany == Cardinality(pending) > MaxImages

Count(i) ==
  /\ upload[i] = "count"
  /\ upload' = [upload EXCEPT ![i] = IF TooMany THEN "undo" ELSE "schedule"]
  /\ UNCHANGED <<Link, disk, pending, manifest, removal, submit, job, cleaner, faults>>

Undo(i) ==
  /\ upload[i] = "undo"
  /\ \/ pending' = pending \ {i} /\ manifest' = manifest \ {i} /\ UNCHANGED faults
     \/ Fault("redis") /\ UNCHANGED <<pending, manifest>>
  /\ upload' = [upload EXCEPT ![i] = "delete"]
  /\ UNCHANGED <<Link, disk, removal, submit, job, cleaner>>

Compensate(i) ==
  /\ upload[i] = "delete"
  /\ \/ disk' = disk \ {i} /\ UNCHANGED faults
     \/ Fault("storage") /\ UNCHANGED disk
  /\ upload' = [upload EXCEPT ![i] = "failed"]
  /\ UNCHANGED <<Link, pending, manifest, removal, submit, job, cleaner>>

(* enqueueReviewPendingMediaCleanup: an active job is left, any other is   *)
(* replaced; the delay outlasts the link and the requests that found it    *)
(* valid.  The replaced job is removed first; a failure is only logged.    *)
Scheduled   == IF job.at = "active" THEN job ELSE [at |-> "delayed", tries |-> 1]
Unscheduled == IF job.at = "active" THEN {job} ELSE {job, NoJob}

Enqueues ==
  \/ job' = Scheduled /\ UNCHANGED faults
  \/ Fault("queue") /\ job' \in Unscheduled

Schedule(i) ==
  /\ upload[i] = "schedule" /\ Enqueues
  /\ upload' = [upload EXCEPT ![i] = "done"]
  /\ UNCHANGED <<Link, disk, pending, manifest, removal, submit, cleaner>>

(* The request dies: what it has stored and registered stays.              *)
LoseUpload(i) ==
  /\ upload[i] \notin {"none", "done", "failed"} /\ Fault("crash")
  /\ upload' = [upload EXCEPT ![i] = "failed"]
  /\ UNCHANGED <<Link, disk, pending, manifest, removal, submit, job, cleaner>>

-----------------------------------------------------------------------------
(* removePendingMediaByToken: the link and the review are looked at; SREM  *)
(* from the photos the link may attach decides whose removal it is; then   *)
(* the photo leaves the manifest, then storage, whose failure is only      *)
(* logged.  Nothing looks at submissions under way or at the review again. *)
StartRemove(i) ==
  /\ link = "valid" /\ ~reviewed /\ upload[i] = "done" /\ removal[i] = "none"
  /\ removal' = [removal EXCEPT ![i] = "asked"]
  /\ UNCHANGED <<Link, disk, pending, manifest, upload, submit, job, cleaner, faults>>

TakeOut(i) ==
  /\ removal[i] = "asked"
  /\ pending' = pending \ {i}
  /\ removal' = [removal EXCEPT ![i] = IF i \in pending THEN "unlist" ELSE "none"]
  /\ UNCHANGED <<Link, disk, manifest, upload, submit, job, cleaner, faults>>

Unlist(i) ==
  /\ removal[i] = "unlist"
  /\ \/ manifest' = manifest \ {i} /\ removal' = [removal EXCEPT ![i] = "delete"] /\ UNCHANGED faults
     \/ (Fault("redis") \/ Fault("crash")) /\ removal' = [removal EXCEPT ![i] = "none"] /\ UNCHANGED manifest
  /\ UNCHANGED <<Link, disk, pending, upload, submit, job, cleaner>>

Remove(i) ==
  /\ removal[i] = "delete"
  /\ \/ disk' = disk \ {i} /\ removal' = [removal EXCEPT ![i] = "removed"] /\ UNCHANGED faults
     \/ (Fault("storage") \/ Fault("crash")) /\ removal' = [removal EXCEPT ![i] = "kept"] /\ UNCHANGED disk
  /\ UNCHANGED <<Link, pending, manifest, upload, submit, job, cleaner>>

-----------------------------------------------------------------------------
(* submitByToken: every photo must be owned; the transaction looks at the  *)
(* link and the review again; then the photos leave both sets.             *)
StartSubmit(s, is) ==
  /\ submit[s].at = "start" /\ link = "valid"
  /\ is \subseteq pending /\ Cardinality(is) <= MaxImages
  /\ \A i \in is : upload[i] = "done"
  /\ submit' = [submit EXCEPT ![s] = [at |-> "commit", images |-> is]]
  /\ UNCHANGED <<Link, disk, pending, manifest, upload, removal, job, cleaner, faults>>

Commit(s) ==
  /\ submit[s].at = "commit"
  /\ IF link = "valid" /\ ~reviewed
     THEN /\ attached' = submit[s].images /\ reviewed' = TRUE
          /\ submit' = [submit EXCEPT ![s].at = "release"]
     ELSE submit' = [submit EXCEPT ![s].at = "failed"] /\ UNCHANGED Review
  /\ UNCHANGED <<link, disk, pending, manifest, upload, removal, job, cleaner, faults>>

Release(s) ==
  /\ \/ /\ submit[s].at = "release"
        /\ pending' = pending \ submit[s].images /\ UNCHANGED manifest
        /\ submit' = [submit EXCEPT ![s].at = "unlist"]
     \/ /\ submit[s].at = "unlist"
        /\ manifest' = manifest \ submit[s].images /\ UNCHANGED pending
        /\ submit' = [submit EXCEPT ![s].at = "done"]
  /\ UNCHANGED <<Link, disk, upload, removal, job, cleaner, faults>>

(* The request dies, or Redis fails it, after its commit.                  *)
LoseSubmit(s) ==
  /\ submit[s].at \in {"release", "unlist"} /\ Fault("crash")
  /\ submit' = [submit EXCEPT ![s].at = "done"]
  /\ UNCHANGED <<Link, disk, pending, manifest, upload, removal, job, cleaner>>

-----------------------------------------------------------------------------
(* The link dies; revoking and regenerating schedule the clean-up anew.    *)
Die ==
  /\ link = "valid"
  /\ link' = "dead"
  /\ UNCHANGED <<job, faults>> \/ Enqueues
  /\ UNCHANGED <<Review, disk, pending, manifest, upload, removal, submit, cleaner>>

(* processPendingMediaCleanup, under its own lock; the grace of 30 minutes *)
(* outlasts every request that found the link valid.                       *)
InFlight == \/ \E i \in Images : upload[i] \notin {"none", "done", "failed"}
            \/ \E s \in Submits : submit[s].at \in {"commit", "release", "unlist"}
            \/ \E i \in Images : removal[i] \in {"asked", "unlist", "delete"}

(* A lock somebody has left behind makes the job a success.                *)
StartCleanup ==
  /\ job.at = "delayed" /\ link = "dead" /\ ~InFlight
  /\ IF cleaner.at = "idle"
     THEN /\ job' = [job EXCEPT !.at = "active"]
          /\ cleaner' = [Resting EXCEPT !.at = "look", !.todo = manifest]
     ELSE job' = [job EXCEPT !.at = "skipped"] /\ UNCHANGED cleaner
  /\ UNCHANGED <<Link, disk, pending, manifest, upload, removal, submit, faults>>

(* Faulty variant of Attached: whatever the manifest lists is an orphan.   *)
NothingAttached(is) == {}

Attached(is) == attached \cap is

Look ==
  /\ cleaner.at = "look"
  /\ cleaner' = [cleaner EXCEPT !.at = "clean", !.keep = Attached(cleaner.todo)]
  /\ UNCHANGED <<Link, disk, pending, manifest, upload, removal, submit, job, faults>>

Clean(i) ==
  /\ cleaner.at = "clean" /\ i \in cleaner.todo
  /\ \/ /\ disk' = IF i \in cleaner.keep THEN disk ELSE disk \ {i}
        /\ manifest' = manifest \ {i}
        /\ cleaner' = [cleaner EXCEPT !.todo = @ \ {i}]
        /\ UNCHANGED faults
     \/ /\ i \notin cleaner.keep /\ Fault("storage")
        /\ cleaner' = [cleaner EXCEPT !.todo = @ \ {i}, !.ok = FALSE]
        /\ UNCHANGED <<disk, manifest>>
  /\ UNCHANGED <<Link, pending, upload, removal, submit, job>>

(* Redis, or the search for attached photos, fails the attempt.            *)
BreakOff ==
  /\ cleaner.at \in {"look", "clean"} /\ Fault("redis")
  /\ cleaner' = [cleaner EXCEPT !.at = "clean", !.todo = {}, !.ok = FALSE]
  /\ UNCHANGED <<Link, disk, pending, manifest, upload, removal, submit, job>>

(* Faulty variant of EndCleanup: what could not be deleted is not retried. *)
EndWithoutRetry ==
  /\ cleaner.at = "clean" /\ cleaner.todo = {}
  /\ job' = [job EXCEPT !.at = "completed"]
  /\ cleaner' = Resting
  /\ UNCHANGED <<Link, disk, pending, manifest, upload, removal, submit, faults>>

(* Faulty variant of EndCleanup: the attempts are not bounded.             *)
EndWithoutLimit ==
  /\ cleaner.at = "clean" /\ cleaner.todo = {}
  /\ job' = IF cleaner.ok THEN [job EXCEPT !.at = "completed"] ELSE [at |-> "delayed", tries |-> job.tries + 1]
  /\ cleaner' = Resting
  /\ UNCHANGED <<Link, disk, pending, manifest, upload, removal, submit, faults>>

Locked == [Resting EXCEPT !.at = "locked"]

EndCleanup ==
  /\ cleaner.at = "clean" /\ cleaner.todo = {}
  /\ job' = IF cleaner.ok THEN [job EXCEPT !.at = "completed"]
            ELSE IF job.tries < MaxTries THEN [at |-> "delayed", tries |-> job.tries + 1]
            ELSE [job EXCEPT !.at = "failed"]
  /\ \/ cleaner' = Resting /\ UNCHANGED faults
     \/ cleaner' = Locked /\ Fault("redis")
  /\ UNCHANGED <<Link, disk, pending, manifest, upload, removal, submit>>

(* The worker dies with the lock; the queue finds the job stalled and      *)
(* hands it out again, or gives it up.                                     *)
CleanerDies ==
  /\ cleaner.at \in {"look", "clean"} /\ Fault("crash")
  /\ cleaner' = Locked
  /\ job' \in {[job EXCEPT !.at = "delayed"], [job EXCEPT !.at = "failed"]}
  /\ UNCHANGED <<Link, disk, pending, manifest, upload, removal, submit>>

(* The lock expires after two minutes.                                     *)
Lapse ==
  /\ cleaner.at = "locked"
  /\ cleaner' = Resting
  /\ UNCHANGED <<Link, disk, pending, manifest, upload, removal, submit, job, faults>>

-----------------------------------------------------------------------------
Uploads(i) == Store(i) \/ Register(i) \/ Count(i) \/ Undo(i) \/ Compensate(i) \/ Schedule(i)
Removes(i) == TakeOut(i) \/ Unlist(i) \/ Remove(i)
Proceeds == \/ \E i \in Images : Uploads(i) \/ Removes(i) \/ Clean(i)
            \/ \E s \in Submits : Commit(s) \/ Release(s)
            \/ StartCleanup \/ Look \/ EndCleanup

Next ==
  \/ \E i \in Images : StartUpload(i) \/ LoseUpload(i) \/ StartRemove(i)
  \/ \E s \in Submits : (\E is \in SUBSET Images : StartSubmit(s, is)) \/ LoseSubmit(s)
  \/ Die \/ BreakOff \/ CleanerDies \/ Lapse \/ Proceeds

Spec == Init /\ [][Next]_vars
FairSpec == Spec /\ WF_vars(Proceeds)

-----------------------------------------------------------------------------
(* A photo of a review is in storage: the clean-up, whose manifest may     *)
(* still list it, does not take it away, nor do failed uploads; only the   *)
(* customer's own removal does, asked for before the review was there.     *)
AttachedIsKept == \A i \in attached : i \in disk \/ removal[i] = "removed"

(* Uploads at the same time do not leave more photos than a review may     *)
(* have: each looks again after it has added its own.                      *)
NeverTooMany == Cardinality({i \in pending : upload[i] \in {"schedule", "done"}}) <= MaxImages

(* A file the manifest does not list although nobody attached it: its      *)
(* upload failed, or its removal did.                                      *)
Abandoned(i) == i \notin manifest /\ (upload[i] = "failed" \/ removal[i] = "kept")

(* A photo nobody attached does not stay in storage once the link is dead, *)
(* unless no manifest lists it or no clean-up remains: it could not be     *)
(* scheduled, met a lock left behind, or has given up.                     *)
OrphansGo ==
  \A i \in Images :
    (link = "dead" /\ i \in disk)
      ~> (i \notin disk \/ i \in attached \/ Abandoned(i) \/ job.at \in {"none", "skipped", "failed"})
=============================================================================
