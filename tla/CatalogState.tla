---------------------------- MODULE CatalogState ----------------------------
(***************************************************************************)
(* What the provider controller and the plan controller work on: one       *)
(* NutanixProvider and one MigrationPlan that refers to it.  An object has *)
(* no resource version here; it is known instead whether the cached copy,  *)
(* and the copy of a pass, is the latest version, which is what decides on *)
(* a conflict.  The provider's Secret, the maps and Prism Central are not  *)
(* watched and may change at any time: a read of one finds any state it    *)
(* may be in.                                                              *)
(***************************************************************************)
EXTENDS Builder

CONSTANTS
  Source,           \* the source VMs, by ID
  Specs,            \* the sets of VM IDs that a plan may list
  StorageMaps,      \* the StorageMaps and
  NetworkMaps,      \*   NetworkMaps there may be
  TargetNamespace,
  Cluster,          \* the target cluster, as module Validation has it
  MaxChanges        \* bound: what users change

ASSUME ChangesAssumption == MaxChanges \in Nat
ASSUME MapsAssumption ==
  \A m \in StorageMaps \cup NetworkMaps : Len(m) \in Nat /\ DOMAIN m = 1 .. Len(m)
ASSUME ReadsAnswered == Cluster.unreadable = {}

VARIABLES
  prov,             \* the NutanixProvider
  plan,             \* the MigrationPlan
  read,             \* what the plan controller's pass has found of the VMs:
                    \*   valid, and sound with the maps it has read
  basis,            \* the VMs the plan's verdict is about, and whether sound
  changes,          \* changes made so far
  gone,             \* the plan in the operator's cache has been deleted
  held,             \* a known plan has referred to the provider since before
                    \*   its deletion was asked for
  provCtl, planCtl  \* the two controllers

catalogVars == <<prov, plan, read, basis, changes, gone, held, provCtl, planCtl>>

NoProvider == [exists |-> FALSE, deleting |-> FALSE, finalizer |-> FALSE, phase |-> ""]
NewProvider == [NoProvider EXCEPT !.exists = TRUE]

NothingRead == [ok |-> FALSE, sound |-> FALSE]

NoBasis == [spec |-> {}, sound |-> TRUE]

NoVerdict == [generation |-> 0, ok |-> FALSE]
NoPlan == [exists |-> FALSE, spec |-> {}, generation |-> 0, phase |-> "", verdict |-> NoVerdict]

\* A controller: the cached object and whether that is the latest version;
\* the work queue holds the object; a delayed requeue is pending; and the
\* pass: how far it is, its copy, and whether that is the latest version.
Idle(object) ==
  [seen |-> object, fresh |-> TRUE, queued |-> TRUE, timer |-> FALSE,
   at |-> "Idle", copy |-> object, current |-> FALSE]

PassOver(ctl) == [ctl EXCEPT !.at = "Idle", !.copy = ctl.seen, !.current = FALSE]
Requeue(ctl) == [PassOver(ctl) EXCEPT !.queued = TRUE]
RequeueAfter(ctl) == [PassOver(ctl) EXCEPT !.timer = TRUE]

\* The pass has written the object, and goes on with what it has written; a
\* write that changes nothing makes no new version.
Wrote(ctl, copy, at) ==
  [ctl EXCEPT !.copy = copy, !.at = at, !.fresh = @ /\ copy = ctl.copy]

\* Somebody else has written the object.
Outdated(ctl) == [ctl EXCEPT !.fresh = FALSE, !.current = FALSE]

\* The watch brings the cache up to date and queues the object.  It may leave
\* out versions in between: a write that starts from one of them is a conflict.
Delivered(ctl, object) == [ctl EXCEPT !.seen = object, !.fresh = TRUE, !.queued = TRUE,
                                      !.copy = IF ctl.at = "Idle" THEN object ELSE ctl.copy]

TimerFired(ctl) == [ctl EXCEPT !.timer = FALSE, !.queued = TRUE]
=============================================================================
