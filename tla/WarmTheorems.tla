---------------------------- MODULE WarmTheorems ----------------------------
(***************************************************************************)
(* The theorems about WarmPipeline, for every number of VMs, disks and     *)
(* rounds: as long as no pass is lost and calls are answered, a volume has *)
(* one writer, a run ends as it should, all was handed over when its       *)
(* VM is created, and the copy of every VM implements DeltaSync.           *)
(***************************************************************************)
EXTENDS WarmProofs, WarmCopyProofs, ControllerProofs

\* The in-flight bound of advanceVMs, for the warm pipeline.
THEOREM WarmInFlightSafe == WarmSpec => []InFlightBounded
  BY WarmIsMigration, InFlightSafe, PTL

----------------------------------------------------------------------------
(* What the handlers need to know of the number of images.                 *)

LEMMA BatchFinite ==
  ASSUME NEW s \in Nat \ {0}
  PROVE  IsFiniteSet(Batch(s)) /\ Cardinality(Batch(s)) = D
<1>1. s + 1 \in Int /\ s + D \in Int
  BY DAssumption
<1> QED
  BY <1>1, FS_Interval, DAssumption DEF Batch

LEMMA UpTo ==
  ASSUME NEW s \in Nat \ {0}, NEW i \in Batch(s)
  PROVE  Cardinality({k \in Batch(s) : k <= i}) = i - s
<1>1. {k \in Batch(s) : k <= i} = s + 1 .. i
  BY DAssumption DEF Batch
<1>2. s + 1 \in Int /\ i \in Int /\ s + 1 <= i
  BY DAssumption DEF Batch
<1>3. Cardinality(s + 1 .. i) = i - (s + 1) + 1
  BY <1>2, FS_Interval
<1>4. i - (s + 1) + 1 = i - s
  BY <1>2
<1> QED
  BY <1>1, <1>3, <1>4, Zenon

\* The image of a disk is found by its place.
LEMMA BatchImage ==
  ASSUME NEW s \in Nat \ {0}, NEW d \in Disks
  PROVE  ImageOf(Batch(s), d) = s + d
<1>1. s + d \in Batch(s) /\ (s + d) - s = d
  BY DAssumption DEF Batch, Disks
<1>2. \A i \in Batch(s) : Cardinality({k \in Batch(s) : k <= i}) = d <=> i = s + d
  <2> SUFFICES ASSUME NEW i \in Batch(s)
               PROVE  Cardinality({k \in Batch(s) : k <= i}) = d <=> i = s + d
    BY Zenon
  <2>1. Cardinality({k \in Batch(s) : k <= i}) = i - s
    BY UpTo, Zenon
  <2>2. i \in Int /\ d \in Int
    BY DAssumption DEF Batch, Disks
  <2> QED
    BY <2>1, <2>2
<1> QED
  BY <1>1, <1>2 DEF ImageOf

LEMMA Counting == Counted
<1>1. Cardinality({}) = 0
  BY FS_EmptySet, Zenon
<1> QED
  BY <1>1, BatchFinite, BatchImage DEF Counted

----------------------------------------------------------------------------
(* How a run ends.                                                         *)

LEMMA SoundInvariance ==
  ASSUME Undisturbed, Answered
  PROVE  WarmSpec => [](IInv /\ CalmInv /\ SoundInv)
<1>1. IInv /\ CalmInv /\ SoundInv /\ [WarmNext]_warmAllVars => (CalmInv /\ SoundInv)'
  BY SoundStep, Counting
<1>2. WarmSpec => []IInv
  BY WarmIsMigration, Invariance, PTL
<1> QED
  BY <1>1, <1>2, InitSound, PTL DEF WarmSpec

\* transferDisk, checkDeltaPod: as long as no pass is lost, calls take effect
\* only if they are answered and cleanups succeed, a volume has at most one
\* writer at any time, the import or one pod, whenever the cutover comes and
\* whatever is cancelled.
THEOREM WarmSingleWriter ==
  ASSUME Undisturbed, Answered
  PROVE  WarmSpec => []SingleWriter
<1>1. SoundInv => SingleWriter
  <2> SUFFICES ASSUME SoundInv, NEW v \in VMs, NEW d \in Disks
               PROVE  LET writers == {p \in world[v].pods : p.phase = "Pending" /\ p.name[2] = d}
                      IN  /\ Cardinality(writers) <= 1
                          /\ writers # {} => world[v].dvs[d] # "Importing"
    BY Zenon DEF SingleWriter
  <2> DEFINE writers == {p \in world[v].pods : p.phase = "Pending" /\ p.name[2] = d}
  <2>1. /\ \A x, y \in world[v].pods : x = y
        /\ world[v].pods # {} => \A b \in Disks : world[v].dvs[b] # "Importing"
    BY Zenon DEF SoundInv, Sound
  <2>2. \A x, y \in writers : x = y
    BY <2>1, Zenon
  <2>3. writers # {} => world[v].dvs[d] # "Importing"
    BY <2>1, Zenon
  <2> HIDE DEF writers
  <2>4. Cardinality(writers) <= 1
    <3>1. CASE writers = {}
      BY <3>1, FS_EmptySet
    <3>2. CASE writers # {}
      <4>1. PICK x : writers = {x}
        BY <2>2, <3>2
      <4> QED
        BY <4>1, FS_Singleton
    <3> QED
      BY <3>1, <3>2
  <2> QED
    BY <2>3, <2>4 DEF writers
<1> QED
  BY <1>1, SoundInvariance, PTL

\* cleanupFailedVM: under the same conditions a source VM whose warm migration
\* is reported Failed has the power state it had before, whether it failed
\* while the source ran or after the cutover.
THEOREM WarmPowerRestored ==
  ASSUME Undisturbed, Answered
  PROVE  WarmSpec => []PowerRestored
<1>1. IInv /\ CalmInv /\ SoundInv => PowerRestored
  <2> SUFFICES ASSUME IInv, CalmInv, SoundInv, NEW v \in VMs, obj.vms[v] = "Failed"
               PROVE  world[v].power = world[v].was
    BY Zenon DEF PowerRestored
  <2>1. PhaseOf(v) = "Failed"
    BY FinishedInEffect DEF isTerminalVMPhase, TerminalVMPhases
  <2> QED
    BY <2>1, Zenon DEF SoundInv, Sound
<1> QED
  BY <1>1, SoundInvariance, PTL

\* cleanupFailedVM: under the same conditions no recovery point, image, volume
\* or pod of a VM that is reported Failed is left, in whichever round it failed.
THEOREM WarmFailedLeavesNoData ==
  ASSUME Undisturbed, Answered
  PROVE  WarmSpec => []FailedLeavesNoData
<1>1. IInv /\ CalmInv /\ SoundInv => FailedLeavesNoData
  <2> SUFFICES ASSUME IInv, CalmInv, SoundInv, NEW v \in VMs, obj.vms[v] = "Failed"
               PROVE  NoDataLeft(world[v])
    BY DEF FailedLeavesNoData
  <2>1. PhaseOf(v) = "Failed"
    BY FinishedInEffect, Zenon DEF isTerminalVMPhase, TerminalVMPhases
  <2> QED
    BY <2>1, Zenon DEF SoundInv, Sound
<1> QED
  BY <1>1, SoundInvariance, PTL

\* Under the same conditions a VM whose warm migration is reported Completed is
\* whole on the target, its source is off, and the recovery points and images
\* of all its rounds are gone.
THEOREM WarmCompletedIsWhole ==
  ASSUME Undisturbed, Answered
  PROVE  WarmSpec => []CompletedIsWhole
<1>1. IInv /\ CalmInv /\ SoundInv => CompletedIsWhole
  <2> SUFFICES ASSUME IInv, CalmInv, SoundInv, NEW v \in VMs, obj.exists,
                      obj.vms[v] = "Completed"
               PROVE  /\ world[v].kv = Target
                      /\ \A d \in Disks : world[v].dvs[d] = "Succeeded"
                      /\ world[v].power = "OFF"
                      /\ world[v].snaps = {} /\ world[v].imgs = {} /\ world[v].pods = {}
    BY Zenon DEF CompletedIsWhole, Target
  <2>1. PhaseOf(v) = "Completed"
    BY FinishedInEffect, Zenon DEF isTerminalVMPhase, TerminalVMPhases
  <2> QED
    BY <2>1, Zenon DEF SoundInv, Sound, Synced, AfterStart
<1> QED
  BY <1>1, SoundInvariance, PTL

----------------------------------------------------------------------------
(* Nothing that is written is lost.                                        *)

LEMMA UpToDateInvariance ==
  ASSUME Undisturbed, Answered
  PROVE  WarmSpec => [](IInv /\ CalmInv /\ SoundInv /\ UpToDateInv)
<1>1. IInv /\ CalmInv /\ SoundInv /\ UpToDateInv /\ [WarmNext]_warmAllVars => UpToDateInv'
  BY UpToDateStep, PhaseStep, Counting
<1>2. WarmSpec => [](IInv /\ CalmInv /\ SoundInv)
  BY SoundInvariance, Zenon
<1> QED
  BY <1>1, <1>2, InitUpToDate, PTL DEF WarmSpec

\* runDeltaRound, finalizeFinalSync, phaseCreateVM: under the same conditions
\* the target of a VM that the cutover found between two rounds is created only
\* after all that was ever written to the source was in what an import or a
\* succeeded delta pod was given, for any number of rounds and whatever is
\* written while recovery points are made, images exported and disks copied.
THEOREM WarmEveryWriteHandedOver ==
  ASSUME Undisturbed, Answered
  PROVE  WarmSpec => EveryWriteHandedOver
<1> DEFINE Given == \A v \in VMs \ caught : Created(v) => handed[v] = disk[v]
<1>1. IInv /\ CalmInv /\ SoundInv /\ UpToDateInv /\ [WarmNext]_warmAllVars
        => [Given]_warmAllVars
  BY CreatedStep, PhaseStep, Counting, Zenon
<1> QED
  BY <1>1, UpToDateInvariance, PTL DEF WarmSpec, EveryWriteHandedOver

LEMMA SyncStep ==
  ASSUME Undisturbed, Answered,
         IInv, CalmInv, SoundInv, UpToDateInv, PlacedInv, [WarmNext]_warmAllVars
  PROVE  Sync!SyncNext \/ UNCHANGED Sync!syncVars
<1>0. /\ made \in 0 .. MaxMade /\ made \in Nat /\ DataTypes
      /\ content \in [1 .. MaxMade -> Contents] /\ disk \in [VMs -> Contents] /\ PerVM(handed)
  BY Numbers, Zenon DEF SoundInv, UpToDateInv, DataTypes
<1>s. /\ Sound(PhaseOf(V), ResOf(V), world[V], obj.exists, made)
      /\ UpToDate(PhaseOf(V), ResOf(V), world[V], content, disk[V], handed[V], due, V \in caught)
      /\ Placed(PhaseOf(V), ResOf(V), made)
  BY VAssumption, Zenon DEF SoundInv, UpToDateInv, PlacedInv
<1>w. world \in [VMs -> Worlds]
  BY Zenon DEF SoundInv, Sound, CalmInv, PerVM
<1>h. executePhase => Handles
  BY PhaseStep, Counting
<1>1. CASE executePhase
  <2>1. /\ idx \in VMs /\ obj.exists /\ PhaseOf(idx) = mem.vms[idx] /\ ResOf(idx) = Res
    BY <1>1, <1>h, Zenon DEF Handles
  <2>2. PICK q, r, w : Sound(q, r, w, TRUE, made') /\ Outcome(q, r, w) /\ StepTo(q, r, w)
    BY <1>1, <1>h, Zenon DEF Handles
  <2>3. Framed
    BY <1>0, <1>1, <2>1, DataFrame
  <2>4. CASE idx = V
    <3>1. Sound(mem.vms[idx], Res, Src, TRUE, made)
      BY <1>1, <1>h, Zenon DEF Handles
    <3>2. AtWork(mem.vms[idx])
      BY <1>0, <1>s, <2>1, <2>3, <2>4, <3>1 DEF AtWork, Src
    <3>3. Takes(mem.vms[idx], q, r, w)
      BY <2>1, <2>2, <2>4, <3>2, Zenon DEF Takes, StepTo, Src
    <3> QED
      BY <1>1, <2>2, <3>3, HandlerPhases, SyncHandled
  <2>5. CASE idx # V
    <3>1. /\ PhaseOf(V)' = PhaseOf(V) /\ ResOf(V)' = ResOf(V) /\ world'[V] = world[V]
          /\ disk'[V] = disk[V] /\ handed'[V] = handed[V] /\ (V \in caught') = (V \in caught)
          /\ \A i \in 1 .. made : content'[i] = content[i]
      BY <2>2, <2>3, <2>5, VAssumption DEF StepTo, Framed
    <3>2. CASE PhaseOf(V) \in {"Failed", "Cancelled"}
      BY <3>1, <3>2, SyncAborts
    <3>3. CASE PhaseOf(V) \notin {"Failed", "Cancelled"}
      <4>1. SameCopy(ResOf(V), world[V], content, ResOf(V), world[V], content')
        BY <1>0, <1>s, <3>1, <3>3, SyncOther, Zenon
      <4> QED
        BY <3>1, <4>1, SyncStutter
    <3> QED
      BY <3>2, <3>3
  <2> QED
    BY <2>4, <2>5
<1>2. CASE /\ \/ ReconcileOnly \/ PipelineBeginPass \/ PipelineSaveStatus \/ PipelineLoseStatus
              \/ PipelineUser \/ PipelineCrash \/ PipelineDeliver
           /\ UNCHANGED warmVars
  <2>1. Idles(V) /\ world' = world
    BY <1>2, IdleStep, VAssumption
  <2>2. UNCHANGED <<content, disk, handed, caught>>
    BY <1>2, Zenon DEF warmVars
  <2>3. CASE PhaseOf(V)' = "Cancelled"
    BY <2>3, SyncAborts
  <2>4. CASE PhaseOf(V)' # "Cancelled"
    <3>1. /\ ResOf(V)' = ResOf(V)
          /\ \/ PhaseOf(V)' = PhaseOf(V)
             \/ PhaseOf(V) \in BeforeStore /\ PhaseOf(V)' \in BeforeStore
      BY <2>1, <2>4 DEF Idles, BeforeStore
    <3> QED
      BY <2>1, <2>2, <3>1, SyncIdles
  <2> QED
    BY <2>3, <2>4
<1>3. ASSUME UNCHANGED <<vars, resVars>> PROVE PhaseOf(V)' = PhaseOf(V) /\ ResOf(V)' = ResOf(V)
  BY <1>3, Zenon DEF PhaseOf, ResOf, vars, resVars
<1>4. CASE PipelineCloud /\ UNCHANGED warmVars
  <2>1. UNCHANGED <<vars, resVars>> /\ UNCHANGED <<content, disk, handed, caught>>
    BY <1>4, Zenon DEF PipelineCloud, PowerSettles, KubeVirtVMSeen, ImportEnds, GarbageCollect, warmVars
  <2> DEFINE P == SUBSET Pods
  <2>2. world \in [VMs -> WorldsOf(P)]
    BY <1>w, Zenon DEF Worlds
  <2> HIDE DEF P
  <2>3. Drifts(world[V], world'[V], obj.exists)
    BY <1>4, <2>2, CloudDrifts, VAssumption
  <2> QED
    BY <1>3, <1>s, <2>1, <2>3, SyncDrifts, Zenon
<1>5. ASSUME NEW v \in VMs, PodEnds(v) PROVE Sync!SyncNext \/ UNCHANGED Sync!syncVars
  <2>1. UNCHANGED <<vars, resVars>> /\ UNCHANGED <<disk, content, caught>>
    BY <1>5, Zenon DEF PodEnds
  <2>2. CASE v = V
    BY <1>0, <1>3, <1>5, <1>s, <1>w, <2>1, <2>2, SyncPodEnds
  <2>3. CASE v # V
    <3>1. handed'[V] = handed[V] /\ world'[V] = world[V]
      BY <1>0, <1>5, <1>w, <2>3, VAssumption DEF PodEnds, PerVM
    <3> QED
      BY <1>3, <2>1, <3>1, SyncIdles
  <2> QED
    BY <2>2, <2>3
<1>6. ASSUME NEW v \in VMs, GuestWrites(v) PROVE Sync!SyncNext \/ UNCHANGED Sync!syncVars
  <2>1. PICK now \in Written(v) : /\ disk' = [disk EXCEPT ![v] = now] /\ world[v].power # "OFF"
                                  /\ UNCHANGED <<vars, resVars, world, content, handed, caught>>
    BY <1>6, Zenon DEF GuestWrites, allVars, pipelineVars, resVars
  <2>2. PhaseOf(V)' = PhaseOf(V) /\ ResOf(V)' = ResOf(V)
    BY <1>3, <2>1, Zenon
  <2>3. CASE v = V
    <3>1. disk'[V] = now /\ now \in Contents /\ NotOlder(now, disk[V])
      BY <1>0, <2>1, <2>3, WrittenGrows
    <3>2. Sync!GuestRuns
      BY <2>1, <2>3, <3>1, SyncGuestRuns
    <3>3. SameCopy(ResOf(V), world[V], content, ResOf(V)', world'[V], content')
      BY <2>1, <2>2 DEF SameCopy
    <3> QED
      BY <2>1, <2>2, <3>2, <3>3, SyncGuest
  <2>4. CASE v # V
    <3>1. disk'[V] = disk[V]
      BY <1>0, <2>1, <2>4, VAssumption
    <3> QED
      BY <2>1, <2>2, <3>1, SyncIdles
  <2> QED
    BY <2>3, <2>4
<1>7. CASE UNCHANGED allVars /\ UNCHANGED <<disk, content, handed, caught>>
  <2>1. UNCHANGED <<vars, resVars, world>>
    BY <1>7, Zenon DEF allVars, pipelineVars, resVars
  <2> QED
    BY <1>3, <1>7, <2>1, SyncIdles
<1>8. CASE CutoverComes
  <2>1. /\ UNCHANGED <<vars, resVars, world>> /\ UNCHANGED <<disk, content, handed>>
        /\ ~due /\ caught' = {v \in VMs : ResOf(v).warm.delta # 0}
    BY <1>8, Zenon DEF CutoverComes, RoundOpen, allVars, pipelineVars, resVars
  <2>2. V \notin caught /\ (V \in caught' <=> ResOf(V).warm.delta # 0)
    BY <2>1, VAssumption, Zenon DEF UpToDateInv
  <2> QED
    BY <1>3, <2>1, <2>2, SyncCuts, Zenon
<1>9. CASE UNCHANGED warmAllVars
  BY <1>7, <1>9 DEF warmAllVars, warmVars
<1> QED
  BY <1>1, <1>2, <1>4, <1>5, <1>6, <1>8, <1>9 DEF WarmNext, WarmController

LEMMA SyncStarts == WarmInit => Sync!SyncInit /\ PlacedInv
<1> SUFFICES ASSUME WarmInit PROVE Sync!SyncInit /\ PlacedInv
  BY Zenon
<1>1. \A v \in VMs : PhaseOf(v) = "None" /\ ResOf(v).warm = NoWarm /\ world[v].kv = "None"
  <2>1. \A v \in VMs : PhaseOf(v) = "None"
    BY Zenon DEF WarmInit, PipelineInit, Init, PhaseOf, NewObject
  <2>2. SoundInv /\ "None" \in BeforeCopy
    BY InitSound, Zenon DEF BeforeCopy, BeforeStore
  <2> QED
    BY <2>1, <2>2, Zenon DEF SoundInv, Sound
<1>2. PlacedInv
  BY <1>1, Zenon DEF PlacedInv, Placed, Known, BeforeCopy, BeforeStore, Synced
<1>3. NoWrites \in Sync!Contents /\ disk[V] = NoWrites /\ handed[V] = NoWrites
  BY VAssumption, Zenon DEF NoWrites, Sync!Contents, WarmInit
<1>4. /\ ResOf(V).warm.delta = 0 /\ ResOf(V).warm.base = 0 /\ ResOf(V).warm.disk = 0
  BY <1>1, VAssumption DEF NoWarm
<1>5. SyncState = "new" /\ V \notin caught
  BY <1>1, <1>4, VAssumption DEF SyncState, WarmInit
<1> QED
  BY <1>2, <1>3, <1>4, <1>5 DEF Sync!SyncInit, ContentOf

\* What passes, recovery points, images and pods of the warm pipeline hand over
\* of the disks of a VM is a copy in rounds as module DeltaSync has it, whenever
\* the cutover comes: if no pass is lost, calls take effect only if they are
\* answered and cleanups succeed.
THEOREM WarmImplementsDeltaSync ==
  ASSUME Undisturbed, Answered
  PROVE  WarmSpec => ImplementsDeltaSync
<1>1. IInv /\ CalmInv /\ SoundInv /\ PlacedInv /\ [WarmNext]_warmAllVars => PlacedInv'
  BY PlacedStep, PhaseStep, Counting
<1>2. IInv /\ CalmInv /\ SoundInv /\ UpToDateInv /\ PlacedInv /\ [WarmNext]_warmAllVars
        => [Sync!SyncNext]_(Sync!syncVars)
  BY SyncStep, Zenon
<1>3. WarmSpec => [](IInv /\ CalmInv /\ SoundInv /\ UpToDateInv)
  BY UpToDateInvariance
<1> QED
  BY <1>1, <1>2, <1>3, SyncStarts, PTL DEF WarmSpec, ImplementsDeltaSync, Sync!SyncSpec
=============================================================================
