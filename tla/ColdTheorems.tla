---------------------------- MODULE ColdTheorems ----------------------------
(***************************************************************************)
(* What ColdProofs and ControllerProofs prove together about ColdPipeline, *)
(* for every number of VMs and of disks and every combination of faults:   *)
(* no disk is exported from a source that is not off; and, each under what *)
(* it takes, how a run ends, what the target is made of and when it        *)
(* starts.                                                                 *)
(***************************************************************************)
EXTENDS ColdProofs, ControllerProofs

\* The in-flight bound of advanceVMs, for the pipeline.
THEOREM ColdInFlightSafe == ColdSpec => []InFlightBounded
  BY ColdIsMigration, InFlightSafe, PTL

\* The sets of objects are finite, so they have the sizes one expects.
LEMMA Counting == Counted
<1>1. Cardinality({}) = 0
  BY FS_EmptySet, Zenon
<1>2. ASSUME NEW i \in Nat, NEW k \in Nat
      PROVE  Cardinality(i + 1 .. i + k) = k
  <2>1. i + 1 \in Int /\ i + k \in Int
    OBVIOUS
  <2>2. Cardinality(i + 1 .. i + k) =
          IF i + 1 > i + k THEN 0 ELSE (i + k) - (i + 1) + 1
    BY <2>1, FS_Interval, Zenon
  <2> QED
    BY <2>2
<1>3. ASSUME NEW S \in SUBSET (1 .. MaxMade)
      PROVE  IsFiniteSet(S) /\ Cardinality(S) \in Nat
  <2>1. IsFiniteSet(1 .. MaxMade)
    BY FS_Interval, BoundsAssumption
  <2>2. IsFiniteSet(S)
    BY <2>1, FS_Subset, Zenon
  <2> QED
    BY <2>2, FS_CardinalityType, Zenon
<1>4. ASSUME NEW S \in SUBSET (1 .. MaxMade), NEW T \in SUBSET (1 .. MaxMade)
      PROVE  Cardinality(S \cup T) = Cardinality(S) + Cardinality(T) - Cardinality(S \cap T)
  BY <1>3, FS_Union
<1> QED
  BY <1>1, <1>2, <1>3, <1>4 DEF Counted

LEMMA ColdInvariance == ColdSpec => []IInv /\ []ColdInv
<1>1. PipelineInit => ColdInv
  BY InitStopped, Counting, Zenon DEF ColdInv
<1>2. ColdSpec => []IInv
  BY ColdIsMigration, Invariance, PTL
<1>3. IInv /\ ColdInv /\ [ColdNext]_allVars => ColdInv'
  BY ColdInvStep, Counting, Zenon
<1> QED
  BY <1>1, <1>2, <1>3, PTL DEF ColdSpec

\* phaseExportDisks never exports a disk of a source that is not off,
\* whatever was lost, repeated or read late before.
THEOREM ExportsAreOfStoppedSources == ColdSpec => ImagesOfStoppedSource
<1>1. IInv /\ ColdInv /\ [ColdNext]_allVars =>
        [\A v \in VMs : world'[v].imgs \ world[v].imgs # {} => world[v].power = "OFF"]_allVars
  BY ColdInvStep, Counting DEF StoppedStep
<1> QED
  BY <1>1, ColdInvariance, PTL DEF ColdSpec, ImagesOfStoppedSource

\* Everything the pipeline records stays in its range: at most D images and D
\* DataVolumes in a status, however often a handler is run again.
THEOREM ColdTypes == ColdSpec => []PipelineTypeOK
<1>1. ASSUME PipelineInit PROVE Counts
  <2>1. secret \in BOOLEAN
    BY <1>1, Zenon DEF PipelineInit
  <2>2. crashes \in 0 .. MaxCrashes
    BY <1>1, BoundsAssumption DEF PipelineInit
  <2> QED
    BY <2>1, <2>2, Zenon DEF Counts
<1>2. IInv /\ ColdInv /\ Counts => PipelineTypeOK
  <2> SUFFICES ASSUME IInv, ColdInv, Counts PROVE PipelineTypeOK
    BY Zenon
  <2>1. NoWarm \in WarmTypes
    BY BoundsAssumption, DAssumption DEF NoWarm, WarmTypes
  <2>2. [VMs -> Fields] \subseteq ResTypes
    <3> DEFINE F == [orig : {"", "ON", "OFF"}, snap : 0 .. MaxMade,
                     imgs : SUBSET (1 .. MaxMade), dvs : 0 .. D, warm : WarmTypes]
    <3>1. Fields \subseteq F
      BY <2>1, Zenon DEF Fields, Images
    <3>2. ResTypes = [VMs -> F]
      BY Zenon DEF ResTypes
    <3> HIDE DEF F
    <3> QED
      BY <3>1, <3>2
  <2> DEFINE W == [was : {"ON", "OFF"}, power : {"ON", "STOPPING", "OFF"},
        snaps : SUBSET (1 .. MaxMade), imgs : SUBSET (1 .. MaxMade),
        dvs : [Disks -> {"None", "Importing", "Succeeded", "Failed"}],
        pods : SUBSET [name : Nat \X Disks, img : 1 .. MaxMade,
                       phase : {"Pending", "Succeeded", "Failed"}],
        kv : {"None", "Stopped", "Running"}, kvSeen : BOOLEAN]
  <2>3. Worlds \subseteq W
    BY Zenon DEF Worlds
  <2>4. PipelineTypeOK <=>
          /\ TypeOK /\ objRes \in ResTypes /\ cacheRes \in ResTypes /\ memRes \in ResTypes
          /\ world \in [VMs -> W]
          /\ secret \in BOOLEAN /\ made \in 0 .. MaxMade /\ crashes \in 0 .. MaxCrashes
    BY Zenon DEF PipelineTypeOK
  <2> HIDE DEF W
  <2> QED
    BY <2>2, <2>3, <2>4 DEF IInv, ColdInv, EffectTypes, Counts
<1> QED
  BY <1>1, <1>2, CountsStep, ColdInvariance, PTL DEF ColdSpec

LEMMA WholeInvariance ==
  ASSUME Undisturbed, Answered
  PROVE  ColdSpec => [](IInv /\ CalmInv /\ WholeInv)
<1>1. IInv /\ ColdInv /\ CalmInv /\ WholeInv /\ [ColdNext]_allVars /\ ColdInv'
        => (CalmInv /\ WholeInv)'
  BY WholeStep, Counting, Zenon
<1> QED
  BY <1>1, InitWhole, ColdInvariance, PTL DEF ColdSpec

\* cleanupFailedVM: as long as no pass is lost, calls take effect only if they
\* are answered and cleanups succeed, a source VM whose migration is reported
\* Failed has the power state it had before, whichever phase failed.
THEOREM ColdPowerRestored ==
  ASSUME Undisturbed, Answered
  PROVE  ColdSpec => []PowerRestored
<1>1. IInv /\ CalmInv /\ WholeInv => PowerRestored
  <2> SUFFICES ASSUME IInv, CalmInv, WholeInv, NEW v \in VMs, obj.vms[v] = "Failed"
               PROVE  world[v].power = world[v].was
    BY Zenon DEF PowerRestored
  <2>1. PhaseOf(v) = "Failed"
    BY FinishedInEffect DEF isTerminalVMPhase, TerminalVMPhases
  <2> QED
    BY <2>1, Zenon DEF WholeInv, Whole
<1> QED
  BY <1>1, WholeInvariance, PTL

\* cleanupFailedVM: under the same conditions nothing made for a VM that is
\* reported Failed is left, in Prism or in the cluster.
THEOREM ColdFailedLeavesNoData ==
  ASSUME Undisturbed, Answered
  PROVE  ColdSpec => []FailedLeavesNoData
<1>1. IInv /\ CalmInv /\ WholeInv => FailedLeavesNoData
  <2> SUFFICES ASSUME IInv, CalmInv, WholeInv, NEW v \in VMs, obj.vms[v] = "Failed"
               PROVE  NoDataLeft(world[v])
    BY Zenon DEF FailedLeavesNoData
  <2>1. PhaseOf(v) = "Failed"
    BY FinishedInEffect DEF isTerminalVMPhase, TerminalVMPhases
  <2> QED
    BY <2>1, Zenon DEF WholeInv, Whole
<1> QED
  BY <1>1, WholeInvariance, PTL

\* Under the same conditions a VM reported Completed is whole on the target:
\* it exists in the power state the plan asks for with all its disks imported,
\* the source is off, and Prism is left as it was.
THEOREM ColdCompletedIsWhole ==
  ASSUME Undisturbed, Answered
  PROVE  ColdSpec => []CompletedIsWhole
<1>1. IInv /\ ColdInv /\ CalmInv /\ WholeInv => CompletedIsWhole
  <2> SUFFICES ASSUME IInv, ColdInv, CalmInv, WholeInv, NEW v \in VMs, obj.exists,
                      obj.vms[v] = "Completed"
               PROVE  /\ world[v].kv = Target
                      /\ \A d \in Disks : world[v].dvs[d] = "Succeeded"
                      /\ world[v].power = "OFF"
                      /\ world[v].snaps = {} /\ world[v].imgs = {} /\ world[v].pods = {}
    BY Zenon DEF CompletedIsWhole, Target
  <2>1. PhaseOf(v) = "Completed"
    BY FinishedInEffect, Zenon DEF isTerminalVMPhase, TerminalVMPhases
  <2>2. world[v].pods = {}
    BY DEF ColdInv, EffectTypes, Worlds
  <2> QED
    BY <2>1, <2>2, Zenon DEF WholeInv, Whole, WhileOff, AfterStart
<1> QED
  BY <1>1, WholeInvariance, ColdInvariance, PTL

\* phaseCreateVM: crashes, lost saves, failed calls and cleanups, cancellations
\* and deletions never lead to a target VM with a disk that is not imported.
\* The condition is that a pass reads the version it last saved.
THEOREM ColdCreatedFromImportedDisks ==
  ASSUME ~May("StaleRead")
  PROVE  ColdSpec => CreatedFromImportedDisks
<1>1. IInv /\ ColdInv /\ RepeatInv /\ [ColdNext]_allVars => RepeatInv'
  BY RepeatStep, Counting, Zenon
<1>2. IInv /\ ColdInv /\ RepeatInv /\ [ColdNext]_allVars =>
        [\A v \in VMs : world[v].kv = "None" /\ world'[v].kv # "None" =>
           \A d \in Disks : world[v].dvs[d] = "Succeeded"]_allVars
  BY RepeatStep, Counting, Zenon DEF CreateStep
<1>3. PipelineInit => RepeatInv
  BY InitRepeat, Zenon
<1> QED
  BY <1>1, <1>2, <1>3, ColdInvariance, PTL DEF ColdSpec, CreatedFromImportedDisks

\* phaseStartVM: under the same condition, and if the calls of a cleanup
\* succeed, the target is never started while the source is on, although a
\* lost failure has already restored the source's power.
THEOREM ColdBootsWithSourceOff ==
  ASSUME ~May("StaleRead"), ~Fault("CleanupError")
  PROVE  ColdSpec => BootsWithSourceOff
<1>1. IInv /\ ColdInv /\ RepeatInv /\ OffInv /\ [ColdNext]_allVars => (RepeatInv /\ OffInv)'
  BY RepeatStep, Counting, Zenon
<1>2. IInv /\ ColdInv /\ RepeatInv /\ OffInv /\ [ColdNext]_allVars =>
        [\A v \in VMs : world[v].kv # "Running" /\ world'[v].kv = "Running" =>
           world[v].power = "OFF"]_allVars
  BY RepeatStep, Counting, Zenon DEF BootStep
<1>3. PipelineInit => RepeatInv /\ OffInv
  BY InitRepeat
<1> QED
  BY <1>1, <1>2, <1>3, ColdInvariance, PTL DEF ColdSpec, BootsWithSourceOff
=============================================================================
