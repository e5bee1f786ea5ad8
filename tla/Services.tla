------------------------------ MODULE Services -------------------------------
(***************************************************************************)
(* What must hold of the services around the orders, each of it a property *)
(* of one component with variables of its own: changes that come in from   *)
(* the ERP, carts, the locks of the synchronisations, photos of reviews.   *)
(***************************************************************************)
CONSTANTS
  Objects, MaxVersion, FlexiTries, MaxFails, FlexiCalls, FlexiFaults, Calm,
  CartIds, Orders, Lines, Syncs, Strategies, CartFaults,
  Workers, Protocols, LockFaults,
  Images, MaxImages, Submits, MediaTries, MaxFaults, MediaFaults

VARIABLES
  changes, site, flexiCursor, accepting, hooks, flexiJob, dirty, failures, proc, bridge, fails, crashed,
  cart, checkout, origin, sync, merge, syncs,
  protocol, lock, lease, pc, overrun,
  link, disk, pending, manifest, attached, reviewed, upload, removal, submit, mediaJob, cleaner, faults

Flexi == INSTANCE FlexiInbound WITH
  MaxTries <- FlexiTries, Calls <- FlexiCalls, Faults <- FlexiFaults, cursor <- flexiCursor, job <- flexiJob

Cart == INSTANCE Carts WITH Faults <- CartFaults

Lock == INSTANCE SyncLock WITH Faults <- LockFaults

Media == INSTANCE ReviewMedia WITH Faults <- MediaFaults, MaxTries <- MediaTries, job <- mediaJob

-----------------------------------------------------------------------------
(* A change of the ERP that is not shown is remembered by somebody         *)
(* (pollChangesLive, enqueueRefresh, processRefreshJob).                   *)
StaleIsRemembered == Flexi!StaleIsRemembered

(* A cart is closed only for the order made from it                        *)
(* (clearOriginatingCartAfterSuccessfulOrder).                             *)
ClosedForItsOrder == Cart!ClosedForItsOrder

(* Only a run that has outlived its lock overlaps another one (tryAcquire, *)
(* release of the three locks).                                            *)
LiveHoldersExclude == Lock!LiveHoldersExclude

(* A photo of a review is in storage unless its customer has removed it    *)
(* (processPendingMediaCleanup, removePendingMediaByToken).                *)
AttachedIsKept == Media!AttachedIsKept

(* Uploads at the same time leave no more photos than allowed              *)
(* (registerPendingMediaInRedis).                                          *)
NeverTooMany == Media!NeverTooMany
=============================================================================
