------------------------------ MODULE Pipeline ------------------------------
(***************************************************************************)
(* What the cold and the warm pipeline have in common: the phases that are *)
(* in both orders, the failure cleanup, and what they do to the source VM, *)
(* to Prism (recovery points, images), to the target cluster (DataVolumes, *)
(* delta pods, credential secret, KubeVirt VM) and to the resource fields  *)
(* of the VM's status (src/internal/controller/migration_controller.go).   *)
(* Modules ColdPipeline and WarmPipeline add the phases of their own.      *)
(*                                                                         *)
(* Every action is an action of Migration together with its effect on the  *)
(* variables added here.  The resource fields travel with the object:      *)
(* objRes, cacheRes and memRes are the parts of obj, cache and mem that    *)
(* Migration leaves out.                                                   *)
(***************************************************************************)
EXTENDS Migration

CONSTANTS
  D,              \* data disks of each source VM
  TargetRunning,  \* plan.spec.targetPowerState is Running
  CloudFaults,    \* what may go wrong in calls to Prism and the cluster
  MaxMade,        \* bound: recovery points and images ever made
  MaxCrashes      \* bound: operator restarts

AllCloudFaults ==
  {"CallError",     \* a call fails, an import or a hook fails
   "LostAnswer",    \* a call takes effect although it returns an error
   "CleanupError"}  \* a call of a best-effort cleanup fails

ASSUME DAssumption == D \in Nat \ {0}
ASSUME TargetRunningAssumption == TargetRunning \in BOOLEAN
ASSUME CloudFaultsAssumption == CloudFaults \subseteq AllCloudFaults
ASSUME BoundsAssumption == MaxMade \in Nat /\ MaxCrashes \in Nat

VARIABLES
  objRes, cacheRes, memRes,  \* resource fields of status.vms
  world,          \* per VM: the source VM and everything made for it
  secret,         \* the Migration's credential secret exists
  made,           \* recovery points and images made so far
  crashes         \* operator restarts so far

pipelineVars == <<objRes, cacheRes, memRes, world, secret, made, crashes>>
resVars == <<objRes, cacheRes, memRes>>
envVars == <<world, secret, made, crashes>>
allVars == <<vars, pipelineVars>>

Disks == 1 .. D
Fault(f) == f \in CloudFaults

\* The warm part of a VM's status: base and delta recovery point (0: none)
\* and images, DeltaDiskIndex, DeltaPodName and PrecopyRounds.  A pod is named
\* after its round (0: the final one) and its disk.
NoPod == <<>>
NoWarm == [base |-> 0, baseImgs |-> {}, delta |-> 0, deltaImgs |-> {},
           disk |-> 0, pod |-> NoPod, rounds |-> 0]

\* OriginalPowerState, SnapshotUUID (0: none), ImageUUIDs and the number of
\* DataVolumeNames: the name of a disk's DataVolume is fixed by its index.
NoRes == [v \in VMs |-> [orig |-> "", snap |-> 0, imgs |-> {}, dvs |-> 0,
                        warm |-> NoWarm]]

\* was: the power state before the migration; power "STOPPING" still reads as
\* on; kvSeen: the operator's cache has the KubeVirt VM.
NewWorld(p) ==
  [was |-> p, power |-> p, snaps |-> {}, imgs |-> {},
   dvs |-> [d \in Disks |-> "None"], pods |-> {}, kv |-> "None",
   kvSeen |-> FALSE]

PipelineInit ==
  /\ Init
  /\ objRes = NoRes /\ cacheRes = NoRes /\ memRes = NoRes
  /\ world \in [VMs -> {NewWorld("ON"), NewWorld("OFF")}]
  /\ secret = FALSE
  /\ made = 0
  /\ crashes = 0

----------------------------------------------------------------------------
(* cleanupFailedVM deletes the DataVolumes, images, recovery points and    *)
(* the delta pod the status names and restores the recorded power state,   *)
(* each on a best-effort basis.                                            *)

\* What a best-effort deletion of S may delete.
BestEffort(S) == IF Fault("CleanupError") THEN SUBSET S ELSE {S}

SnapsOf(r) == {r.snap, r.warm.base, r.warm.delta}
ImagesOf(r) == r.imgs \cup r.warm.baseImgs \cup r.warm.deltaImgs
WithoutPods(w, gone) == {p \in w.pods : p.name \notin gone}
WithoutDVs(w, gone) == [d \in Disks |-> IF d \in gone THEN "None" ELSE w.dvs[d]]

\* Mutant: the power state is not restored.
cleanupForgetsPower(r, w) ==
  world' = [world EXCEPT ![idx] =
    [w EXCEPT !.dvs = WithoutDVs(w, 1 .. r.dvs), !.imgs = @ \ ImagesOf(r),
              !.snaps = @ \ SnapsOf(r), !.pods = WithoutPods(w, {r.warm.pod})]]

cleanupFailedVM(r, w) ==
  \E dvs \in BestEffort(1 .. r.dvs), imgs \in BestEffort(ImagesOf(r)),
     snaps \in BestEffort(SnapsOf(r)), pods \in BestEffort({r.warm.pod}),
     on \in BestEffort({r.orig} \cap {"ON"}) :
       world' = [world EXCEPT ![idx] =
         [w EXCEPT !.dvs = WithoutDVs(w, dvs), !.imgs = w.imgs \ imgs,
                   !.snaps = w.snaps \ snaps, !.pods = WithoutPods(w, pods),
                   !.power = IF "ON" \in on THEN "ON" ELSE w.power]]

(* The three ways a phase can end, r and w being the VM's status fields    *)
(* and world when the handler returns.                                     *)

Completed(r, w) ==
  /\ PhaseCompleted
  /\ memRes' = [memRes EXCEPT ![idx] = r]
  /\ world' = [world EXCEPT ![idx] = w]

NotYet(r, w) ==
  /\ PhaseWaits
  /\ memRes' = [memRes EXCEPT ![idx] = r]
  /\ world' = [world EXCEPT ![idx] = w]

Failed(r, w) ==
  /\ PhaseFailed
  /\ memRes' = [memRes EXCEPT ![idx] = r]
  /\ cleanupFailedVM(r, w)

FailedCall(r, w) == Fault("CallError") /\ Failed(r, w)
FailedWithEffect(r, w) == Fault("LostAnswer") /\ Failed(r, w)

At(phase) == AtPhase /\ mem.vms[idx] = phase
Res == memRes[idx]
Src == world[idx]

\* PreHook and PostHook: a Job runs, and ends.
runHook ==
  /\ At("PreHook") \/ At("PostHook")
  /\ Completed(Res, Src) \/ NotYet(Res, Src) \/ FailedCall(Res, Src)
  /\ UNCHANGED <<objRes, cacheRes, secret, made, crashes>>

phaseStorePowerState ==
  LET seen == IF Src.power = "OFF" THEN "OFF" ELSE "ON"
  IN  /\ At("StorePowerState")
      /\ \/ Completed([Res EXCEPT !.orig = IF @ = "" THEN seen ELSE @], Src)
         \/ Res.orig = "" /\ FailedCall(Res, Src)
      /\ UNCHANGED <<objRes, cacheRes, secret, made, crashes>>

\* Mutant: the comparison is turned round, and only stopped sources are
\* powered off.
powerOffStopped ==
  /\ At("PowerOff")
  /\ Completed(Res, Src) \/ (Res.orig = "OFF" /\ FailedCall(Res, Src))
  /\ UNCHANGED <<objRes, cacheRes, secret, made, crashes>>

phasePowerOff ==
  LET off == [Src EXCEPT !.power = IF @ = "ON" THEN "STOPPING" ELSE @]
  IN  /\ At("PowerOff")
      /\ \/ Res.orig = "OFF" /\ Completed(Res, Src)
         \/ /\ Res.orig # "OFF"
            /\ \/ Completed(Res, off)
               \/ FailedCall(Res, Src)
               \/ FailedWithEffect(Res, off)
      /\ UNCHANGED <<objRes, cacheRes, secret, made, crashes>>

\* Mutant: the power-off task has ended, so the state is not looked at.
trustPowerOffTask ==
  /\ At("WaitForPowerOff")
  /\ Completed(Res, Src)
  /\ UNCHANGED <<objRes, cacheRes, secret, made, crashes>>

phaseWaitForPowerOff ==
  /\ At("WaitForPowerOff")
  /\ \/ Src.power = "OFF" /\ Completed(Res, Src)
     \/ Src.power # "OFF" /\ NotYet(Res, Src)
     \/ FailedCall(Res, Src)
  /\ UNCHANGED <<objRes, cacheRes, secret, made, crashes>>

phaseCreateVM ==
  LET created == [Src EXCEPT !.kv = IF @ = "None" THEN "Stopped" ELSE @]
  IN  /\ At("CreateVM")
      /\ \/ Completed(Res, created)
         \/ FailedCall(Res, Src)
         \/ FailedWithEffect(Res, created)
      /\ UNCHANGED <<objRes, cacheRes, secret, made, crashes>>

\* The KubeVirt VM is read from the operator's cache.
phaseStartVM ==
  LET started == [Src EXCEPT !.kv = "Running"]
  IN  /\ At("StartVM")
      /\ \/ ~TargetRunning /\ Completed(Res, Src)
         \/ /\ TargetRunning
            /\ \/ Src.kvSeen /\ Completed(Res, started)
               \/ ~Src.kvSeen /\ Failed(Res, Src)
               \/ FailedCall(Res, Src)
               \/ Src.kvSeen /\ FailedWithEffect(Res, started)
      /\ UNCHANGED <<objRes, cacheRes, secret, made, crashes>>

\* Images, recovery point and secret are deleted; an error is only logged.
phaseCleanup ==
  /\ At("Cleanup")
  /\ \E imgs \in BestEffort(Res.imgs), snaps \in BestEffort({Res.snap}),
        creds \in BestEffort({"secret"}) :
       /\ Completed(Res, [Src EXCEPT !.imgs = @ \ imgs, !.snaps = @ \ snaps])
       /\ secret' = (secret /\ creds = {})
  /\ UNCHANGED <<objRes, cacheRes, made, crashes>>

\* The phases of both pipelines.
SharedPhase ==
  \/ runHook
  \/ phaseStorePowerState
  \/ phasePowerOff
  \/ phaseWaitForPowerOff
  \/ phaseCreateVM
  \/ phaseStartVM
  \/ phaseCleanup

----------------------------------------------------------------------------
(* The rest of the controller: the resource fields go where the object     *)
(* goes.                                                                   *)

PipelineDeliver == Deliver /\ cacheRes' = objRes /\ UNCHANGED <<objRes, memRes, envVars>>

PipelineBeginPass ==
  BeginPass /\ memRes' = cacheRes /\ UNCHANGED <<objRes, cacheRes, envVars>>

PipelineSaveStatus ==
  /\ SaveStatus
  /\ memRes # objRes => ~cacheFresh'
  /\ objRes' = memRes
  /\ memRes' = NoRes
  /\ UNCHANGED <<cacheRes, envVars>>

PipelineLoseStatus ==
  LoseStatus /\ memRes' = NoRes /\ UNCHANGED <<objRes, cacheRes, envVars>>

\* The operator dies; the cache of the new one is filled from scratch.
PipelineCrash ==
  /\ crashes < MaxCrashes
  /\ Crash
  /\ crashes' = crashes + 1
  /\ cacheRes' = objRes
  /\ memRes' = NoRes
  /\ world' = [v \in VMs |-> [world[v] EXCEPT !.kvSeen = world[v].kv # "None"]]
  /\ UNCHANGED <<objRes, secret, made>>

\* The steps of Reconcile that touch none of this.
ReconcileOnly ==
  /\ \/ ReconcileNothing \/ AddFinalizer \/ handleDeletion
     \/ setMigrationFailed \/ SkipTerminal \/ SkipPending \/ StartPending
  /\ UNCHANGED pipelineVars

PipelineUser ==
  /\ (\E v \in VMs : CancelVM(v)) \/ RequestDelete \/ PatchObject
  /\ UNCHANGED pipelineVars

----------------------------------------------------------------------------
(* Prism, CDI, the informers and the garbage collector.                    *)

PowerSettles(v) ==
  /\ world[v].power = "STOPPING"
  /\ world' = [world EXCEPT ![v].power = "OFF"]
  /\ UNCHANGED <<vars, resVars, secret, made, crashes>>

\* CDI reads the image with the secret's credentials.
ImportPossible(v) == secret /\ world[v].imgs # {}

ImportEnds(v, d) ==
  /\ world[v].dvs[d] = "Importing"
  /\ \/ /\ ImportPossible(v)
        /\ world' = [world EXCEPT ![v].dvs[d] = "Succeeded"]
     \/ /\ Fault("CallError")
        /\ world' = [world EXCEPT ![v].dvs[d] = "Failed"]
  /\ UNCHANGED <<vars, resVars, secret, made, crashes>>

KubeVirtVMSeen(v) ==
  /\ world[v].kv # "None" /\ ~world[v].kvSeen
  /\ world' = [world EXCEPT ![v].kvSeen = TRUE]
  /\ UNCHANGED <<vars, resVars, secret, made, crashes>>

\* DataVolumes, pods and secret carry an owner reference to the Migration.
GarbageCollect ==
  /\ ~obj.exists
  /\ secret \/ \E v \in VMs : \/ world[v].pods # {}
                              \/ \E d \in Disks : world[v].dvs[d] # "None"
  /\ secret' = FALSE
  /\ world' = [v \in VMs |->
                 [world[v] EXCEPT !.dvs = [d \in Disks |-> "None"], !.pods = {}]]
  /\ UNCHANGED <<vars, resVars, made, crashes>>

PipelineCloud ==
  \/ \E v \in VMs : PowerSettles(v) \/ KubeVirtVMSeen(v)
  \/ \E v \in VMs, d \in Disks : ImportEnds(v, d)
  \/ GarbageCollect

----------------------------------------------------------------------------
(* Properties of both pipelines.                                           *)

WarmTypes ==
  [base : 0 .. MaxMade, baseImgs : SUBSET (1 .. MaxMade),
   delta : 0 .. MaxMade, deltaImgs : SUBSET (1 .. MaxMade),
   disk : 0 .. D, pod : {NoPod} \cup (Nat \X Disks), rounds : Nat]
ResTypes == [VMs -> [orig : {"", "ON", "OFF"}, snap : 0 .. MaxMade,
                     imgs : SUBSET (1 .. MaxMade), dvs : 0 .. D,
                     warm : WarmTypes]]

PipelineTypeOK ==
  /\ TypeOK
  /\ objRes \in ResTypes /\ cacheRes \in ResTypes /\ memRes \in ResTypes
  /\ world \in [VMs ->
       [was : {"ON", "OFF"}, power : {"ON", "STOPPING", "OFF"},
        snaps : SUBSET (1 .. MaxMade), imgs : SUBSET (1 .. MaxMade),
        dvs : [Disks -> {"None", "Importing", "Succeeded", "Failed"}],
        pods : SUBSET [name : Nat \X Disks, img : 1 .. MaxMade,
                       phase : {"Pending", "Succeeded", "Failed"}],
        kv : {"None", "Stopped", "Running"}, kvSeen : BOOLEAN]]
  /\ secret \in BOOLEAN
  /\ made \in 0 .. MaxMade
  /\ crashes \in 0 .. MaxCrashes

\* The status in effect: the copy of the pass, or the object's.
PhaseOf(v) == IF pc = "pass" THEN mem.vms[v] ELSE obj.vms[v]
ResOf(v) == IF pc = "pass" THEN memRes[v] ELSE objRes[v]

\* Nothing is left of what was copied of a VM's disks, in Prism or the cluster.
NoDataLeft(w) ==
  /\ w.snaps = {} /\ w.imgs = {} /\ w.pods = {}
  /\ \A d \in Disks : w.dvs[d] = "None"

\* cleanupFailedVM: when a failure is reported, whichever phase it happened
\* in, the source VM is in the power state it had before the migration.
PowerRestored ==
  \A v \in VMs : obj.vms[v] = "Failed" => world[v].power = world[v].was

\* cleanupFailedVM: when a failure is reported, the recovery points, images,
\* DataVolumes and delta pods are gone, also those of a half-done phase.  (The
\* secret and the KubeVirt VM are not among what it deletes.)
FailedLeavesNoData ==
  \A v \in VMs : obj.vms[v] = "Failed" => NoDataLeft(world[v])

\* When every VM has failed nothing at all is left that was made for them, the
\* KubeVirt VMs and the credential secret they share included.
FailureLeavesNothing ==
  (\A v \in VMs : obj.vms[v] = "Failed") =>
    /\ \A v \in VMs : NoDataLeft(world[v]) /\ world[v].kv = "None"
    /\ ~secret

\* A VM that has failed has no KubeVirt VM.
FailedLeavesNoVM == \A v \in VMs : obj.vms[v] = "Failed" => world[v].kv = "None"

\* With no fault anywhere, no VM fails.
NoFailureWithoutFault == \A v \in VMs : obj.vms[v] # "Failed"

\* When a VM is reported Completed, its KubeVirt VM exists in the power state
\* the plan asks for, every disk is imported, the source is off, and the
\* recovery points, the images and the delta pods are gone (the DataVolume
\* phases to phaseCleanup).
CompletedIsWhole ==
  \A v \in VMs : obj.exists /\ obj.vms[v] = "Completed" =>
    /\ world[v].kv = (IF TargetRunning THEN "Running" ELSE "Stopped")
    /\ \A d \in Disks : world[v].dvs[d] = "Succeeded"
    /\ world[v].power = "OFF"
    /\ world[v].snaps = {} /\ world[v].imgs = {} /\ world[v].pods = {}

\* No phase makes a second recovery point, or more images than disks.
NoDuplicates ==
  \A v \in VMs : /\ Cardinality(world[v].snaps) <= 1
                 /\ Cardinality(world[v].imgs) <= D

\* phaseCreateVM never creates the target before all disks are imported.
CreatedFromImportedDisks ==
  [][ \A v \in VMs : world[v].kv = "None" /\ world'[v].kv # "None" =>
        \A d \in Disks : world[v].dvs[d] = "Succeeded" ]_allVars

\* phaseStartVM never starts the target while the source is on.
BootsWithSourceOff ==
  [][ \A v \in VMs : world[v].kv # "Running" /\ world'[v].kv = "Running" =>
        world[v].power = "OFF" ]_allVars

\* The finalizer keeps the Migration as long as recovery points or images
\* made for it are left in Prism (handleDeletion).
DeletionLeaksNothing ==
  ~obj.exists => \A v \in VMs : world[v].snaps = {} /\ world[v].imgs = {}
=============================================================================
