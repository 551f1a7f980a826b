----------------------------- MODULE WarmProofs -----------------------------
(***************************************************************************)
(* Proofs about WarmPipeline, for every number of VMs, disks and rounds:   *)
(* the warm pipeline is the controller of Migration with effects; and, as  *)
(* long as no pass is lost and calls are answered, each of its steps keeps *)
(* every VM sound.                                                         *)
(***************************************************************************)
EXTENDS WarmInv

----------------------------------------------------------------------------
(* Every step of the pipeline is a step of the controller, or a stutter.   *)

Answer == PhaseCompleted \/ PhaseWaits \/ PhaseFailed

LEMMA SharedAnswers == SharedPhase => Answer
  BY Zenon DEF SharedPhase, runHook, phaseStorePowerState, phasePowerOff,
    phaseWaitForPowerOff, phaseCreateVM, phaseStartVM, phaseCleanup,
    FailedCall, FailedWithEffect, Completed, NotYet, Failed, Answer

LEMMA BulkAnswers == phaseBulkCopy \/ phaseWaitBulkCopy => Answer
  BY Zenon DEF phaseBulkCopy, phaseWaitBulkCopy, createDataVolumes, InitializeWarm,
    pollDataVolumes, FailedCall, FailedWithEffect, Completed, NotYet, Failed,
    Answer

LEMMA RoundAnswers ==
  ASSUME NEW round, runDeltaRound(round)
  PROVE  Answer
<1>1. PICK r, w, q : \/ FailedCall(r, w) \/ FailedWithEffect(q, w)
                     \/ transferDisk(round, r, w)
  BY DEF runDeltaRound
<1>2. CASE FailedCall(r, w) \/ FailedWithEffect(q, w)
  BY <1>2 DEF FailedCall, FailedWithEffect, Failed, Answer
<1>3. CASE transferDisk(round, r, w)
  BY <1>3, Zenon DEF transferDisk, onComplete, finalizePrecopyRound, finalizeFinalSync,
    FailedWithEffect, NotYet, Completed, Failed, Answer
<1> QED
  BY <1>1, <1>2, <1>3

LEMMA SyncAnswers == phasePrecopy \/ phaseFinalSync => Answer
  BY RoundAnswers, Zenon DEF phasePrecopy, phaseFinalSync, checkDeltaPod, cutover,
    FailedCall, Completed, NotYet, Failed, Answer

LEMMA WarmStep == [WarmNext]_warmAllVars => [Next]_vars
<1> SUFFICES ASSUME [WarmNext]_warmAllVars PROVE [Next]_vars
  OBVIOUS
<1>1. CASE executePhase
  <2>1. Answer
    BY <1>1, SharedAnswers, BulkAnswers, SyncAnswers DEF executePhase
  <2> QED
    BY <2>1 DEF Answer, Next, Controller
<1>2. CASE \/ ReconcileOnly \/ PipelineBeginPass
           \/ PipelineSaveStatus \/ PipelineLoseStatus
  BY <1>2 DEF ReconcileOnly, PipelineBeginPass, PipelineSaveStatus,
    PipelineLoseStatus, Next, Controller
<1>3. CASE PipelineUser \/ PipelineCrash \/ PipelineDeliver
  BY <1>3 DEF PipelineUser, PipelineCrash, PipelineDeliver, Next, Environment
<1>4. CASE PipelineCloud
  BY <1>4, Zenon DEF PipelineCloud, PowerSettles, KubeVirtVMSeen, ImportEnds,
    GarbageCollect
<1>5. CASE CutoverComes \/ \E v \in VMs : GuestWrites(v) \/ PodEnds(v)
  BY <1>5 DEF CutoverComes, GuestWrites, PodEnds, allVars
<1>6. CASE UNCHANGED warmAllVars
  BY <1>6 DEF warmAllVars, allVars
<1> QED
  BY <1>1, <1>2, <1>3, <1>4, <1>5, <1>6 DEF WarmNext, WarmController

\* The warm pipeline, with its rounds, pods and cutover, is the controller of
\* Migration: its phase handlers answer only what executePhase's caller
\* expects.
THEOREM WarmIsMigration == WarmSpec => Spec
<1>1. WarmInit => Init
  BY DEF WarmInit, PipelineInit
<1> QED
  BY <1>1, WarmStep, PTL DEF WarmSpec, Spec

----------------------------------------------------------------------------
(* What a handler makes: all or nothing of a recovery point and its        *)
(* images, unless it fails.                                                *)

LEMMA MakesAll ==
  ASSUME Counted, made \in Nat, NEW j \in 0 .. ToMake(0, {})
  PROVE  /\ j \in 0 .. 1 + D /\ ToMake(0, {}) = 1 + D
         /\ SnapMade(0, j) = IF j = 0 THEN {} ELSE {made + 1}
         /\ SnapAfter(0, j) = IF j = 0 THEN 0 ELSE made + 1
         /\ ImagesMade(0, j) \subseteq made + 2 .. made + j
         /\ j = 1 + D => ImagesMade(0, j) = Batch(made + 1)
<1>1. Cardinality({}) = 0
  BY DEF Counted
<1>2. ToMake(0, {}) = 1 + D
  BY <1>1, DAssumption DEF ToMake, Needed, Missing
<1>3. j \in 0 .. 1 + D
  BY <1>2
<1>4. SnapMade(0, j) = IF j = 0 THEN {} ELSE {made + 1}
  BY <1>3, DAssumption DEF SnapMade
<1>5. SnapAfter(0, j) = IF j = 0 THEN 0 ELSE made + 1
  BY <1>3, DAssumption DEF SnapAfter
<1>6. ImagesMade(0, j) = made + 2 .. made + j
  BY <1>3, DAssumption DEF ImagesMade, Needed
<1>7. Batch(made + 1) = made + 2 .. made + (1 + D)
  BY DAssumption DEF Batch
<1> QED
  BY <1>2, <1>3, <1>4, <1>5, <1>6, <1>7

LEMMA MakesNothing ==
  ASSUME Counted, made \in Nat, NEW s \in Nat \ {0}, NEW j \in 0 .. ToMake(s, Batch(s))
  PROVE  /\ j = 0 /\ ToMake(s, Batch(s)) = 0
         /\ SnapMade(s, j) = {} /\ SnapAfter(s, j) = s /\ ImagesMade(s, j) = {}
<1>1. ToMake(s, Batch(s)) = 0
  BY DAssumption DEF Counted, ToMake, Needed, Missing
<1>2. j = 0
  BY <1>1
<1> QED
  BY <1>1, <1>2 DEF SnapMade, SnapAfter, ImagesMade, Needed

----------------------------------------------------------------------------
(* The handlers.                                                           *)

LEMMA WellIfCompleted ==
  ASSUME IInv, NEW r, NEW w, Completed(r, w),
         Sound(AfterWarm(mem.vms[idx]), r, w, TRUE, made'), Outcome(AfterWarm(mem.vms[idx]), r, w)
  PROVE  GoesWell
<1>1. passType = "warm"
  BY WarmAssumption DEF IInv, TypeOK
<1> QED
  BY <1>1, CompletedAnswers, Zenon DEF AfterWarm, GoesWell

LEMMA WellIfWaits ==
  ASSUME NEW r, NEW w, NotYet(r, w), Sound(mem.vms[idx], r, w, TRUE, made'),
         Outcome(mem.vms[idx], r, w)
  PROVE  GoesWell
  BY NotYetAnswers, Zenon DEF GoesWell

LEMMA WellIfFailed ==
  ASSUME IInv, Answered, NEW r \in Fields, NEW w \in Worlds, Failed(r, w), Named(r, w),
         w.kv = Src.kv
  PROVE  GoesWell
<1> DEFINE P == SUBSET Pods
<1>1. {} \in P /\ w \in WorldsOf(P) /\ r.dvs \in 0 .. D
  BY DEF Worlds, Fields
<1>2. ~Fault("CleanupError") /\ cleanupFailedVM(r, w)
  BY DEF Answered, Failed
<1> HIDE DEF P
<1>3. PICK c \in WorldsOf(P) : /\ Leaves(c) /\ NoDataLeft(c)
                               /\ c.was = w.was /\ c.power = w.was /\ c.kv = w.kv
  BY <1>1, <1>2, CleanedUp
<1>4. c \in Worlds
  BY Zenon DEF Worlds, P
<1>5. Sound("Failed", r, c, TRUE, made')
  BY <1>3, <1>4 DEF Sound, NoDataLeft, BeforeCopy, BeforeStore, Syncing, Synced, AfterStart
<1>6. Answers("Failed", r, c)
  BY <1>3, FailedAnswers DEF Leaves
<1> QED
  BY <1>3, <1>5, <1>6, Zenon DEF GoesWell, Outcome

\* Until a VM is finished its status names all that was made for it.
LEMMA SoundNamed ==
  ASSUME NEW p \in BeforeCopy \cup Syncing \cup Synced, NEW r, NEW w, NEW m,
         Sound(p, r, w, TRUE, m)
  PROVE  r \in Fields /\ w \in Worlds /\ Named(r, w)
<1>1. r \in Fields /\ w \in Worlds
  BY Zenon DEF Sound
<1>2. p # "Cancelled"
  BY DEF BeforeCopy, BeforeStore, Syncing, Synced
<1>3. /\ w.was = "OFF" => w.power = "OFF"
      /\ r.orig = w.was \/ (r.orig = "" /\ w.power = w.was)
  BY <1>2, Zenon DEF Sound, BeforeCopy, BeforeStore, Syncing, Synced
<1>4. CASE p \in BeforeCopy
  BY <1>1, <1>3, <1>4, Zenon DEF Sound, NoDataLeft, Named
<1>5. CASE p \in Syncing \cup Synced
  <2>1. \A d \in Disks : d <= r.dvs
    <3>1. r.dvs = D
      BY <1>5, Zenon DEF Sound
    <3> QED
      BY <3>1, DAssumption DEF Disks
  <2>2. CASE p \in Synced
    BY <1>1, <1>3, <2>1, <2>2, Zenon DEF Sound, Named
  <2>3. CASE p \in Syncing
    <3>1. Accounted(r.warm, w) /\ Ordered(r.warm, m)
      BY <2>3, Zenon DEF Sound
    <3>2. w.snaps \subseteq SnapsOf(r)
      BY <3>1 DEF Accounted, Points, SnapsOf
    <3>3. w.imgs \subseteq ImagesOf(r)
      BY <3>1 DEF Accounted, Ordered, ImagesOf
    <3>4. \A q \in w.pods : q.name = r.warm.pod
      BY <3>1 DEF Accounted, PodAt
    <3> QED
      BY <1>1, <1>3, <2>1, <3>2, <3>3, <3>4 DEF Named
  <2> QED
    BY <1>5, <2>2, <2>3
<1> QED
  BY <1>1, <1>4, <1>5

LEMMA WellIfGivenUp ==
  ASSUME IInv, Answered, Sound(mem.vms[idx], Res, Src, TRUE, made),
         mem.vms[idx] \in BeforeCopy \cup Syncing \cup Synced, Failed(Res, Src)
  PROVE  GoesWell
  BY SoundNamed, WellIfFailed, Zenon

LEMMA SoundStopping ==
  ASSUME NEW r, NEW w, NEW o \in Worlds, NEW m, Sound("PowerOff", r, w, TRUE, m),
         o.was = w.was, o.snaps = w.snaps, o.imgs = w.imgs, o.dvs = w.dvs, o.pods = w.pods,
         o.kv = w.kv, w.was = "OFF" => o.power = "OFF"
  PROVE  Sound("WaitForPowerOff", r, o, TRUE, m)
<1> USE DEF BeforeCopy, BeforeStore, Syncing, Synced, AfterStart
<1>1. /\ r \in Fields /\ r.orig = w.was /\ r.dvs = D /\ Ordered(r.warm, m) /\ Accounted(r.warm, w)
      /\ w.kv = "None" /\ \A d \in Disks : w.dvs[d] = "Succeeded"
      /\ \A x, y \in w.pods : x = y
  BY Zenon DEF Sound
<1>2. Accounted(r.warm, o)
  BY <1>1 DEF Accounted
<1>3. \A x, y \in o.pods : x = y
  BY <1>1
<1>4. \A d \in Disks : o.dvs[d] = "Succeeded" /\ o.dvs[d] # "Importing"
  BY <1>1
<1> QED
  BY <1>1, <1>2, <1>3, <1>4 DEF Sound

\* The handlers that deal with the source VM.
LEMMA WellSourcePhase ==
  ASSUME IInv, Answered, Sound(mem.vms[idx], Res, Src, TRUE, made), UNCHANGED warmVars,
         runHook \/ phaseStorePowerState \/ phasePowerOff \/ phaseWaitForPowerOff
  PROVE  GoesWell
<1> DEFINE p == mem.vms[idx]
<1> USE DEF FailedCall, FailedWithEffect, At, Answered
<1>1. Res \in Fields /\ Src \in Worlds
  BY Zenon DEF Sound
<1>2. p \in {"PreHook", "PostHook", "StorePowerState", "PowerOff", "WaitForPowerOff"}
  BY DEF runHook, phaseStorePowerState, phasePowerOff, phaseWaitForPowerOff
<1>3. CASE Failed(Res, Src)
  BY <1>2, <1>3, WellIfGivenUp DEF BeforeCopy, BeforeStore, Syncing, Synced
<1>4. UNCHANGED <<made, content, disk, handed>>
  BY Zenon DEF runHook, phaseStorePowerState, phasePowerOff, phaseWaitForPowerOff, warmVars
<1>5. ASSUME NEW r, NEW w, r.warm = Warm, w.pods = Src.pods,
             w.power = "OFF" <=> Src.power = "OFF"
      PROVE  Outcome(AfterWarm(p), r, w) /\ Outcome(p, r, w)
  BY <1>2, <1>4, <1>5, Zenon DEF Outcome, Passed
<1> USE DEF BeforeCopy, BeforeStore, Syncing, Synced, AfterStart
<1>6. CASE runHook
  <2>1. p \in {"PreHook", "PostHook"}
    BY <1>6 DEF runHook
  <2>2. Sound(AfterWarm(p), Res, Src, TRUE, made')
    BY <1>1, <1>4, <2>1, WarmSuccessors, Zenon DEF Sound
  <2>3. Outcome(AfterWarm(p), Res, Src) /\ Outcome(p, Res, Src)
    BY <1>5 DEF Warm
  <2>4. CASE Completed(Res, Src)
    BY <2>2, <2>3, <2>4, WellIfCompleted, Zenon
  <2>5. CASE NotYet(Res, Src)
    BY <1>4, <2>3, <2>5, WellIfWaits, Zenon
  <2> QED
    BY <1>3, <1>6, <2>4, <2>5, Zenon DEF runHook
<1>7. CASE phaseStorePowerState
  <2> DEFINE o == IF Res.orig = "" THEN IF Src.power = "OFF" THEN "OFF" ELSE "ON"
                  ELSE Res.orig
             r == [Res EXCEPT !.orig = o]
  <2>1. p = "StorePowerState"
    BY <1>7 DEF phaseStorePowerState
  <2>2. o = Src.was /\ Src.was \in {"ON", "OFF"}
    BY <1>1, <2>1, Zenon DEF Worlds, WorldsOf, Sound
  <2> HIDE DEF o
  <2>3. /\ r \in Fields /\ r.orig = o /\ r.snap = Res.snap /\ r.imgs = Res.imgs
        /\ r.dvs = Res.dvs /\ r.warm = Res.warm
    BY <1>1, <2>2 DEF Fields
  <2> HIDE DEF r
  <2>4. Sound(AfterWarm(p), r, Src, TRUE, made')
    BY <1>1, <1>4, <2>1, <2>2, <2>3, WarmSuccessors, Zenon DEF Sound
  <2>5. Outcome(AfterWarm(p), r, Src)
    BY <1>5, <2>3, Zenon DEF Warm
  <2>6. CASE Completed(r, Src)
    BY <2>4, <2>5, <2>6, WellIfCompleted, Zenon
  <2> QED
    BY <1>3, <1>7, <2>6 DEF phaseStorePowerState, o, r
<1>8. CASE phasePowerOff
  <2> DEFINE n == IF Src.power = "ON" THEN "STOPPING" ELSE Src.power
             off == [Src EXCEPT !.power = n]
  <2>1. p = "PowerOff"
    BY <1>8, Zenon DEF phasePowerOff
  <2>2. /\ Src.was = "OFF" => n = "OFF"
        /\ n \in {"STOPPING", "OFF"} /\ (n = "OFF" <=> Src.power = "OFF")
    BY <1>1, <2>1 DEF Worlds, WorldsOf, Sound
  <2> HIDE DEF n
  <2>3. /\ off \in Worlds /\ off.was = Src.was /\ off.power = n /\ off.snaps = Src.snaps
        /\ off.imgs = Src.imgs /\ off.dvs = Src.dvs /\ off.pods = Src.pods /\ off.kv = Src.kv
    BY <1>1, <2>2 DEF Worlds, WorldsOf
  <2> HIDE DEF off
  <2>4. Sound(AfterWarm(p), Res, off, TRUE, made')
    <3>1. Sound("PowerOff", Res, Src, TRUE, made)
      BY <2>1, Zenon
    <3>2. Sound("WaitForPowerOff", Res, off, TRUE, made)
      BY <2>2, <2>3, <3>1, SoundStopping
    <3> QED
      BY <1>4, <2>1, <3>2, WarmSuccessors, Zenon
  <2>5. CASE Completed(Res, off)
    BY <1>5, <2>2, <2>3, <2>4, <2>5, WellIfCompleted, Zenon DEF Warm
  <2>6. CASE Completed(Res, Src)
    <3>1. Sound(AfterWarm(p), Res, Src, TRUE, made')
      BY <1>4, <2>1, WarmSuccessors, Zenon DEF Sound
    <3> QED
      BY <1>5, <2>6, <3>1, WellIfCompleted, Zenon DEF Warm
  <2> QED
    BY <1>3, <1>8, <2>5, <2>6 DEF phasePowerOff, n, off
<1>9. CASE phaseWaitForPowerOff
  <2>1. p = "WaitForPowerOff"
    BY <1>9 DEF phaseWaitForPowerOff
  <2>2. Outcome(AfterWarm(p), Res, Src) /\ Outcome(p, Res, Src)
    BY <1>5 DEF Warm
  <2>3. CASE Src.power = "OFF" /\ Completed(Res, Src)
    <3>1. Sound(AfterWarm(p), Res, Src, TRUE, made')
      BY <1>4, <2>1, <2>3, WarmSuccessors, Zenon DEF Sound
    <3> QED
      BY <2>2, <2>3, <3>1, WellIfCompleted, Zenon
  <2>4. CASE NotYet(Res, Src)
    BY <1>4, <2>2, <2>4, WellIfWaits
  <2> QED
    BY <1>3, <1>9, <2>3, <2>4 DEF phaseWaitForPowerOff
<1> QED
  BY <1>6, <1>7, <1>8, <1>9

\* The handlers that deal with the target, and phaseCleanup.
LEMMA WellTargetPhase ==
  ASSUME IInv, Answered, Sound(mem.vms[idx], Res, Src, TRUE, made), UNCHANGED warmVars,
         phaseCreateVM \/ phaseStartVM \/ phaseCleanup
  PROVE  GoesWell
<1> DEFINE p == mem.vms[idx]
<1> USE DEF FailedCall, FailedWithEffect, At, Answered
<1>1. Res \in Fields /\ Src \in Worlds
  BY Zenon DEF Sound
<1>2. p \in {"CreateVM", "StartVM", "Cleanup"}
  BY Zenon DEF phaseCreateVM, phaseStartVM, phaseCleanup
<1>3. CASE Failed(Res, Src)
  BY <1>2, <1>3, WellIfGivenUp DEF BeforeCopy, BeforeStore, Syncing, Synced
<1>4. UNCHANGED <<made, content, disk, handed>>
  BY Zenon DEF phaseCreateVM, phaseStartVM, phaseCleanup, warmVars
<1> USE DEF BeforeCopy, BeforeStore, Syncing, Synced, AfterStart
<1>5. /\ Res.orig = Src.was /\ Src.power = "OFF" /\ Res.dvs = D /\ Src.snaps = {}
      /\ Src.imgs = {} /\ Src.pods = {} /\ \A d \in Disks : Src.dvs[d] = "Succeeded"
  BY <1>2, Zenon DEF Sound
<1>6. ASSUME NEW w \in Worlds, Completed(Res, w), w.was = Src.was, w.power = Src.power,
             w.snaps = {}, w.imgs = {}, w.dvs = Src.dvs, w.pods = Src.pods,
             AfterWarm(p) = "StartVM" => w.kv = "Stopped",
             AfterWarm(p) \in AfterStart => w.kv = Target
      PROVE  GoesWell
  <2>1. Sound(AfterWarm(p), Res, w, TRUE, made')
    BY <1>1, <1>2, <1>5, <1>6, WarmSuccessors, Zenon DEF Sound
  <2>2. Outcome(AfterWarm(p), Res, w)
    BY <1>2, <1>4, <1>6, Zenon DEF Outcome, Passed, Warm
  <2> QED
    BY <1>6, <2>1, <2>2, WellIfCompleted, Zenon
<1>7. CASE phaseCreateVM
  <2> DEFINE kv == IF Src.kv = "None" THEN "Stopped" ELSE Src.kv
             w == [Src EXCEPT !.kv = kv]
  <2>1. p = "CreateVM" /\ kv = "Stopped"
    BY <1>7 DEF phaseCreateVM, Sound
  <2> HIDE DEF kv
  <2>2. /\ w \in Worlds /\ w.was = Src.was /\ w.power = Src.power /\ w.snaps = Src.snaps
        /\ w.imgs = Src.imgs /\ w.dvs = Src.dvs /\ w.pods = Src.pods /\ w.kv = kv
    BY <1>1, <2>1, Zenon DEF Worlds, WorldsOf
  <2> HIDE DEF w
  <2>3. CASE Completed(Res, w)
    BY <1>5, <1>6, <2>1, <2>2, <2>3, WarmSuccessors
  <2> QED
    BY <1>3, <1>7, <2>3 DEF phaseCreateVM, w, kv
<1>8. CASE phaseStartVM
  <2> DEFINE w == [Src EXCEPT !.kv = "Running"]
  <2>1. p = "StartVM" /\ Src.kv = "Stopped"
    BY <1>8 DEF phaseStartVM, Sound
  <2>2. /\ w \in Worlds /\ w.was = Src.was /\ w.power = Src.power /\ w.snaps = Src.snaps
        /\ w.imgs = Src.imgs /\ w.dvs = Src.dvs /\ w.pods = Src.pods /\ w.kv = "Running"
    BY <1>1, Zenon DEF Worlds, WorldsOf
  <2> HIDE DEF w
  <2>3. CASE TargetRunning /\ Completed(Res, w)
    <3>1. w.kv = Target
      BY <2>2, <2>3, Zenon DEF Target
    <3> QED
      BY <1>5, <1>6, <2>1, <2>2, <2>3, <3>1, WarmSuccessors, Zenon
  <2>4. CASE ~TargetRunning /\ Completed(Res, Src)
    <3>1. Src.kv = Target
      BY <2>1, <2>4, Zenon DEF Target
    <3> QED
      BY <1>1, <1>5, <1>6, <2>1, <2>4, <3>1, WarmSuccessors, Zenon
  <2> QED
    BY <1>3, <1>8, <2>3, <2>4, Zenon DEF phaseStartVM, w
<1>9. CASE phaseCleanup
  <2> DEFINE w == [Src EXCEPT !.imgs = Src.imgs \ Res.imgs, !.snaps = Src.snaps \ {Res.snap}]
  <2>1. p = "Cleanup" /\ Src.kv = Target /\ Completed(Res, w)
    BY <1>9, Zenon DEF phaseCleanup, BestEffort, Sound
  <2>2. Src.imgs \ Res.imgs = {} /\ Src.snaps \ {Res.snap} = {}
    BY <1>5
  <2>3. /\ w \in Worlds /\ w.was = Src.was /\ w.power = Src.power /\ w.snaps = {}
        /\ w.imgs = {} /\ w.dvs = Src.dvs /\ w.pods = Src.pods /\ w.kv = Src.kv
    BY <1>1, <2>2, Zenon DEF Worlds, WorldsOf
  <2> HIDE DEF w
  <2> QED
    BY <1>6, <2>1, <2>3, WarmSuccessors
<1> QED
  BY <1>7, <1>8, <1>9

\* What makes a VM between bulk copy and final round sound.
Copying(p, r, w, m) ==
  /\ r \in Fields /\ w \in Worlds
  /\ r.orig = w.was /\ (w.was = "OFF" => w.power = "OFF")
  /\ p \in {"WaitBulkCopy", "Precopy", "PowerOff"} => w.power = w.was
  /\ p = "FinalSync" => w.power = "OFF"
  /\ r.dvs = D /\ Ordered(r.warm, m) /\ Accounted(r.warm, w)
  /\ p = "WaitBulkCopy" => r.warm.delta = 0
  /\ p # "WaitBulkCopy" => \A d \in Disks : w.dvs[d] = "Succeeded"
  /\ w.kv = "None"

LEMMA SoundSyncing ==
  ASSUME NEW p \in Syncing, NEW r, NEW w, NEW m, Copying(p, r, w, m)
  PROVE  Sound(p, r, w, TRUE, m)
<1> USE DEF BeforeCopy, BeforeStore, Syncing, Synced, AfterStart
<1>1. \A x, y \in w.pods : x = y
  BY DEF Accounted, Copying
<1>2. w.pods # {} => \A d \in Disks : w.dvs[d] # "Importing"
  <2>1. CASE p = "WaitBulkCopy"
    BY <2>1, Zenon DEF Accounted, Ordered, Copying
  <2>2. CASE p # "WaitBulkCopy"
    BY <2>2 DEF Copying
  <2> QED
    BY <2>1, <2>2, Zenon
<1> QED
  BY <1>1, <1>2, Zenon DEF Sound, Copying

LEMMA SyncingFacts ==
  ASSUME NEW p \in Syncing, NEW r, NEW w, NEW m, Sound(p, r, w, TRUE, m)
  PROVE  Copying(p, r, w, m)
  BY Zenon DEF Sound, Copying, BeforeCopy, BeforeStore, Syncing, Synced, AfterStart

LEMMA NewContent ==
  ASSUME Counted, made \in Nat, NEW now, snapshotAndExport(0, 1 + D, now)
  PROVE  MadeNow(now) /\ disk' = [disk EXCEPT ![idx] = now]
<1>1. 1 + D \in 0 .. ToMake(0, {})
  <2>1. Cardinality({}) = 0
    BY DEF Counted
  <2> QED
    BY <2>1, DAssumption DEF ToMake, Needed, Missing
<1>2. /\ SnapMade(0, 1 + D) = {made + 1}
      /\ ImagesMade(0, 1 + D) = Batch(made + 1)
  BY <1>1, MakesAll, DAssumption
<1>3. made' = made + 1 + D /\ made' <= MaxMade
  BY DAssumption DEF snapshotAndExport
<1>4. /\ disk' = [disk EXCEPT ![idx] = now]
      /\ content' = [i \in 1 .. MaxMade |->
                       IF i \in SnapMade(0, 1 + D) THEN disk[idx]
                       ELSE IF i \in ImagesMade(0, 1 + D) THEN now ELSE content[i]]
  BY DEF snapshotAndExport
<1>5. content' = [i \in 1 .. MaxMade |->
                    IF i = made + 1 THEN disk[idx]
                    ELSE IF i \in Batch(made + 1) THEN now ELSE content[i]]
  BY <1>2, <1>4
<1> QED
  BY <1>3, <1>4, <1>5 DEF MadeNow

LEMMA WellBulkCopy ==
  ASSUME Counted, IInv, Answered, made \in 0 .. MaxMade, Sound(mem.vms[idx], Res, Src, TRUE, made),
         phaseBulkCopy
  PROVE  GoesWell
<1> USE DEF FailedCall, FailedWithEffect, At, Answered
<1>0. mem.vms[idx] = "BulkCopy" /\ made \in Nat
  BY BoundsAssumption DEF phaseBulkCopy
<1>1. /\ Res \in Fields /\ Src \in Worlds /\ Res.snap = 0 /\ Res.imgs = {} /\ Res.dvs = 0
      /\ Res.warm = NoWarm /\ NoDataLeft(Src) /\ Res.orig = Src.was /\ Src.power = Src.was
      /\ Src.kv = "None"
  BY <1>0 DEF Sound, BeforeCopy, BeforeStore, Syncing, Synced
<1>2. PICK j \in 0 .. ToMake(0, {}), now \in Meanwhile(idx) :
        /\ snapshotAndExport(0, j, now)
        /\ \/ Failed(BulkAfter(j), SrcAfter(0, j))
           \/ j = ToMake(0, {}) /\ createDataVolumes(BulkAfter(j), SrcAfter(0, j))
  BY <1>1, Zenon DEF phaseBulkCopy
<1>3. /\ j \in 0 .. 1 + D /\ ToMake(0, {}) = 1 + D
      /\ SnapMade(0, j) = IF j = 0 THEN {} ELSE {made + 1}
      /\ SnapAfter(0, j) = IF j = 0 THEN 0 ELSE made + 1
      /\ ImagesMade(0, j) \subseteq made + 2 .. made + j
      /\ j = 1 + D => ImagesMade(0, j) = Batch(made + 1)
  BY <1>0, <1>2, MakesAll, Zenon
<1>4. /\ made + j <= MaxMade
      /\ SnapMade(0, j) \subseteq 1 .. MaxMade /\ ImagesMade(0, j) \subseteq 1 .. MaxMade
      /\ SnapAfter(0, j) \in Nat /\ ImagesMade(0, j) \subseteq Nat
  BY <1>0, <1>2, <1>3, BoundsAssumption, DAssumption DEF snapshotAndExport
<1> DEFINE r == BulkAfter(j)
           w == SrcAfter(0, j)
<1>5. /\ r \in Fields /\ r.snap = SnapAfter(0, j) /\ r.imgs = ImagesMade(0, j) /\ r.dvs = 0
      /\ r.warm = NoWarm /\ r.orig = Src.was
  <2> DEFINE s == SnapAfter(0, j)
             imgs == ImagesMade(0, j)
  <2>1. r = [Res EXCEPT !.snap = s, !.imgs = imgs]
    BY <1>1 DEF BulkAfter
  <2>2. s \in Nat /\ imgs \in SUBSET Nat
    BY <1>4
  <2> HIDE DEF s, imgs, r
  <2>3. r \in Fields /\ r.snap = s /\ r.imgs = imgs
    BY <1>1, <2>1, <2>2 DEF Fields
  <2>4. r.dvs = Res.dvs /\ r.warm = Res.warm /\ r.orig = Res.orig
    BY <1>1, <2>1, Zenon DEF Fields
  <2> QED
    BY <1>1, <2>3, <2>4 DEF s, imgs
<1>6. /\ w \in Worlds /\ w.snaps = SnapMade(0, j) /\ w.imgs = ImagesMade(0, j)
      /\ w.was = Src.was /\ w.power = Src.power /\ w.dvs = Src.dvs /\ w.pods = {}
      /\ w.kv = "None"
  <2> DEFINE snaps == SnapMade(0, j)
             imgs == ImagesMade(0, j)
  <2>1. w = [Src EXCEPT !.snaps = snaps, !.imgs = imgs]
    BY <1>1 DEF SrcAfter, NoDataLeft
  <2>2. snaps \in SUBSET (1 .. MaxMade) /\ imgs \in SUBSET (1 .. MaxMade)
    BY <1>4
  <2> HIDE DEF snaps, imgs, w
  <2>3. w \in Worlds /\ w.snaps = snaps /\ w.imgs = imgs
    BY <1>1, <2>1, <2>2, Zenon DEF Worlds, WorldsOf
  <2>4. /\ w.was = Src.was /\ w.power = Src.power /\ w.dvs = Src.dvs /\ w.pods = Src.pods
        /\ w.kv = Src.kv
    BY <1>1, <2>1, Zenon DEF Worlds, WorldsOf
  <2> QED
    BY <1>1, <2>3, <2>4 DEF NoDataLeft, snaps, imgs
<1>7. \A d \in Disks : w.dvs[d] = "None"
  BY <1>1, <1>6 DEF NoDataLeft
<1> HIDE DEF r, w
<1>8. w.snaps \subseteq {r.snap} /\ w.imgs = r.imgs
  BY <1>3, <1>5, <1>6, Zenon
<1>9. CASE Failed(r, w)
  <2>1. Named(r, w)
    BY <1>1, <1>5, <1>6, <1>7, <1>8 DEF Named, SnapsOf, ImagesOf
  <2> QED
    BY <1>1, <1>5, <1>6, <1>9, <2>1, WellIfFailed, Zenon
<1>10. ASSUME NEW n \in 0 .. D
       PROVE  LET rn == [r EXCEPT !.dvs = n]
                  wn == WithDVs(r, w, n)
              IN  /\ rn \in Fields /\ rn.dvs = n /\ rn.snap = r.snap /\ rn.imgs = r.imgs
                  /\ rn.warm = r.warm /\ rn.orig = r.orig
                  /\ wn \in Worlds /\ wn.snaps = w.snaps /\ wn.imgs = w.imgs /\ wn.was = w.was
                  /\ wn.power = w.power /\ wn.pods = w.pods /\ wn.kv = w.kv
                  /\ \A d \in Disks : wn.dvs[d] # "None" => d <= n
  <2> DEFINE rn == [r EXCEPT !.dvs = n]
             dvs == [d \in Disks |-> IF d \in NewDVs(r, w, n) THEN "Importing" ELSE w.dvs[d]]
             wn == [w EXCEPT !.dvs = dvs]
  <2>1. /\ rn \in Fields /\ rn.dvs = n /\ rn.snap = r.snap /\ rn.imgs = r.imgs
        /\ rn.warm = r.warm /\ rn.orig = r.orig
    BY <1>5 DEF Fields
  <2>2. WithDVs(r, w, n) = wn
    BY Zenon DEF WithDVs
  <2>3. dvs \in [Disks -> {"None", "Importing", "Succeeded", "Failed"}]
    BY <1>7, Zenon
  <2>4. \A d \in Disks : dvs[d] # "None" => d <= n
    <3>1. \A d \in NewDVs(r, w, n) : d <= n
      BY <1>5, DAssumption DEF NewDVs
    <3> QED
      BY <1>7, <3>1, Zenon
  <2> HIDE DEF dvs
  <2>5. /\ wn \in Worlds /\ wn.snaps = w.snaps /\ wn.imgs = w.imgs /\ wn.was = w.was
        /\ wn.power = w.power /\ wn.pods = w.pods /\ wn.kv = w.kv /\ wn.dvs = dvs
    BY <1>6, <2>3 DEF Worlds, WorldsOf
  <2> QED
    BY <2>1, <2>2, <2>4, <2>5
<1>11. ASSUME NEW n \in 0 .. D, Failed([r EXCEPT !.dvs = n], WithDVs(r, w, n))
       PROVE  GoesWell
  <2> DEFINE rn == [r EXCEPT !.dvs = n]
             wn == WithDVs(r, w, n)
  <2>1. /\ rn \in Fields /\ rn.dvs = n /\ rn.snap = r.snap /\ rn.imgs = r.imgs
        /\ rn.warm = r.warm /\ rn.orig = r.orig
        /\ wn \in Worlds /\ wn.snaps = w.snaps /\ wn.imgs = w.imgs /\ wn.was = w.was
        /\ wn.power = w.power /\ wn.pods = w.pods /\ wn.kv = w.kv
        /\ \A d \in Disks : wn.dvs[d] # "None" => d <= n
    BY <1>10
  <2> HIDE DEF rn, wn
  <2>2. Named(rn, wn)
    BY <1>1, <1>5, <1>6, <1>8, <2>1, Zenon DEF Named, SnapsOf, ImagesOf
  <2> QED
    BY <1>1, <1>6, <1>11, <2>1, <2>2, WellIfFailed DEF rn, wn
<1>12. CASE /\ j = 1 + D /\ Fill(r, w, D)
            /\ InitializeWarm([r EXCEPT !.dvs = D], WithDVs(r, w, D))
  <2> DEFINE rn == [r EXCEPT !.dvs = D]
             wn == WithDVs(r, w, D)
             x == [NoWarm EXCEPT !.base = made + 1, !.baseImgs = Batch(made + 1)]
             z == [rn EXCEPT !.warm = x]
  <2>0. D \in 0 .. D
    BY DAssumption
  <2>1. /\ rn \in Fields /\ rn.dvs = D /\ rn.snap = r.snap /\ rn.imgs = r.imgs
        /\ rn.warm = r.warm /\ rn.orig = r.orig
        /\ wn \in Worlds /\ wn.snaps = w.snaps /\ wn.imgs = w.imgs /\ wn.was = w.was
        /\ wn.power = w.power /\ wn.pods = w.pods /\ wn.kv = w.kv
    BY <1>10, <2>0
  <2>2. r.snap = made + 1 /\ r.imgs = Batch(made + 1) /\ w.snaps = {made + 1}
    BY <1>3, <1>5, <1>6, <1>12, DAssumption
  <2>3. Completed(z, wn)
    BY <1>5, <1>12, <2>1, <2>2, Zenon DEF InitializeWarm
  <2> HIDE DEF rn, wn
  <2>4. /\ x.base = made + 1 /\ x.baseImgs = Batch(made + 1) /\ x.delta = 0 /\ x.deltaImgs = {}
        /\ x.disk = 0 /\ x.pod = NoPod /\ x.rounds = 0
    BY DEF NoWarm
  <2>5. x \in Rounds
    <3>1. Batch(made + 1) \in SUBSET Nat /\ made + 1 \in Nat /\ 0 \in 0 .. D
      BY <1>0, DAssumption DEF Batch
    <3> QED
      BY <3>1 DEF Rounds, NoWarm
  <2>6. Ordered(x, made')
    <3>1. made' = made + j
      BY <1>2, Zenon DEF snapshotAndExport
    <3>2. Batch(0) = {}
      BY DEF Batch
    <3>3. made + 1 # 0 /\ (made + 1) + D <= made'
      BY <1>0, <1>12, <3>1, DAssumption
    <3> QED
      BY <2>4, <3>2, <3>3 DEF Ordered
  <2> HIDE DEF x
  <2>7. z \in Fields /\ z.warm = x /\ z.dvs = D /\ z.orig = rn.orig
    BY <2>1, <2>5, Zenon DEF Fields
  <2> HIDE DEF z
  <2>8. Accounted(z.warm, wn)
    <3>1. Points(x) = {made + 1} /\ Batch(x.base) \cup Batch(x.delta) = Batch(made + 1)
      BY <1>0, <2>4 DEF Points, Batch
    <3>2. "Pending" \in PodPhases
      BY DEF PodPhases
    <3> QED
      BY <1>6, <1>8, <2>1, <2>2, <2>7, <3>1, <3>2, Zenon DEF Accounted
  <2>9. Sound("WaitBulkCopy", z, wn, TRUE, made')
    <3>1. "WaitBulkCopy" \in Syncing
      BY Zenon DEF Syncing
    <3>2. z.orig = wn.was /\ wn.power = wn.was /\ wn.kv = "None"
      BY <1>1, <1>5, <1>6, <2>1, <2>7, Zenon
    <3> QED
      BY <2>1, <2>4, <2>6, <2>7, <2>8, <3>1, <3>2, SoundSyncing, Zenon DEF Copying
  <2>10. handed' = [handed EXCEPT ![idx] = [d \in Disks |-> now[d]]]
    <3>1. MadeNow(now)
      BY <1>0, <1>2, <1>12, NewContent, Zenon
    <3>2. \A d \in Disks : content'[made + 1 + d] = now
      <4>1. \A d \in Disks : /\ made + 1 + d \in 1 .. MaxMade /\ made + 1 + d # made + 1
                             /\ made + 1 + d \in Batch(made + 1)
        BY <1>0, <3>1, BoundsAssumption, DAssumption DEF MadeNow, Disks, Batch
      <4> QED
        BY <3>1, <4>1, Zenon DEF MadeNow
    <3>3. \A d \in Disks : ImageOf(r.imgs, d) = made + 1 + d
      <4>1. made + 1 \in Nat \ {0}
        BY <1>0
      <4> QED
        BY <2>2, <4>1, Zenon DEF Counted
    <3>4. \A d \in Disks : d \in NewDVs(r, w, D)
      BY <1>5, <1>7, DAssumption DEF NewDVs, Disks
    <3>5. handed' = [handed EXCEPT ![idx] =
            [d \in Disks |-> IF d \in NewDVs(r, w, D)
                             THEN content'[ImageOf(r.imgs, d)][d] ELSE handed[idx][d]]]
      BY <1>12 DEF Fill, Filled
    <3> QED
      BY <3>2, <3>3, <3>4, <3>5, Zenon
  <2>11. Outcome("WaitBulkCopy", z, wn)
    <3>1. MadeNow(now) /\ disk' = [disk EXCEPT ![idx] = now]
      BY <1>0, <1>2, <1>12, NewContent
    <3>2. wn.power = Src.power
      BY <1>6, <2>1, Zenon
    <3> QED
      BY <1>0, <1>2, <2>7, <2>10, <3>1, <3>2 DEF Outcome, BulkCopied, x
  <2> QED
    BY <1>0, <2>3, <2>9, <2>11, WarmSuccessors, WellIfCompleted, Zenon
<1>13. CASE j = 1 + D /\ createDataVolumes(r, w)
  <2>1. PICK n \in 0 .. D :
          \/ Failed(r, w)
          \/ Failed([r EXCEPT !.dvs = n], WithDVs(r, w, n))
          \/ /\ n = D /\ Fill(r, w, n)
             /\ InitializeWarm([r EXCEPT !.dvs = n], WithDVs(r, w, n))
    <3>1. r.dvs = 0 /\ 0 \in 0 .. D
      BY <1>5, DAssumption
    <3> QED
      BY <1>13, <3>1, Zenon DEF createDataVolumes
  <2> QED
    BY <1>9, <1>11, <1>12, <1>13, <2>1
<1> QED
  BY <1>2, <1>3, <1>9, <1>13, Zenon DEF r, w

\* A source that runs may go on to the rounds, and to be stopped.
LEMMA SoundGoesOn ==
  ASSUME NEW p \in {"WaitBulkCopy", "Precopy"}, NEW q \in {"Precopy", "PowerOff"},
         NEW r, NEW w, NEW m, Sound(p, r, w, TRUE, m),
         p = "WaitBulkCopy" => \A d \in Disks : w.dvs[d] = "Succeeded"
  PROVE  Sound(q, r, w, TRUE, m)
<1>1. p \in Syncing /\ q \in Syncing
  BY Zenon DEF Syncing
<1>2. Copying(p, r, w, m)
  BY <1>1, SyncingFacts, Zenon
<1>3. Copying(q, r, w, m)
  BY <1>2 DEF Copying
<1> QED
  BY <1>1, <1>3, SoundSyncing, Zenon

\* Waiting, or going on from one phase of the copy to another.
LEMMA WellIfSame ==
  ASSUME IInv, mem.vms[idx] \in Syncing \ {"FinalSync"},
         Sound(mem.vms[idx], Res, Src, TRUE, made),
         UNCHANGED <<made, content, disk, handed>>, Completed(Res, Src),
         mem.vms[idx] = "Precopy" => due,
         mem.vms[idx] = "WaitBulkCopy" => \A d \in Disks : Src.dvs[d] = "Succeeded",
         mem.vms[idx] # "PowerOff", mem.vms[idx] # "WaitForPowerOff"
  PROVE  GoesWell
<1> DEFINE p == mem.vms[idx]
<1>1. p \in Syncing /\ p \in {"WaitBulkCopy", "Precopy"} /\ AfterWarm(p) \in {"Precopy", "PowerOff"}
  BY WarmSuccessors DEF Syncing
<1>2. Sound(AfterWarm(p), Res, Src, TRUE, made')
  <2>1. made' = made /\ (p = "WaitBulkCopy" => \A d \in Disks : Src.dvs[d] = "Succeeded")
    OBVIOUS
  <2>2. Sound(p, Res, Src, TRUE, made)
    BY Zenon
  <2> HIDE DEF p
  <2> QED
    BY <1>1, <2>1, <2>2, SoundGoesOn, Zenon
<1>3. Outcome(AfterWarm(p), Res, Src)
  BY <1>1, Zenon DEF Outcome, Passed, Warm
<1> QED
  BY <1>2, <1>3, WellIfCompleted, Zenon

LEMMA WellIfWaiting ==
  ASSUME Sound(mem.vms[idx], Res, Src, TRUE, made),
         UNCHANGED <<made, content, disk, handed>>, NotYet(Res, Src)
  PROVE  GoesWell
<1>1. Outcome(mem.vms[idx], Res, Src)
  BY Zenon DEF Outcome, Passed, Warm
<1> QED
  BY <1>1, WellIfWaits, Zenon

LEMMA WellWaitBulkCopy ==
  ASSUME IInv, Answered, Sound(mem.vms[idx], Res, Src, TRUE, made), phaseWaitBulkCopy
  PROVE  GoesWell
<1> DEFINE polled == {Src.dvs[d] : d \in 1 .. Res.dvs}
<1>1. /\ mem.vms[idx] = "WaitBulkCopy" /\ mem.vms[idx] \in Syncing \ {"FinalSync"}
      /\ UNCHANGED <<made, content, disk, handed>>
  BY Zenon DEF phaseWaitBulkCopy, At, Syncing, warmVars
<1>2. Res.dvs = D
  <2>1. Copying(mem.vms[idx], Res, Src, made)
    BY <1>1, SyncingFacts, Zenon
  <2> QED
    BY <2>1, Zenon DEF Copying
<1>3. polled \subseteq {"Succeeded"} => \A d \in Disks : Src.dvs[d] = "Succeeded"
  BY <1>2, Zenon DEF Disks
<1>4. CASE Failed(Res, Src)
  BY <1>1, <1>4, WellIfGivenUp, Zenon
<1>5. CASE NotYet(Res, Src)
  BY <1>1, <1>5, WellIfWaiting
<1>6. CASE polled \subseteq {"Succeeded"} /\ Completed(Res, Src)
  BY <1>1, <1>3, <1>6, WellIfSame, Zenon
<1> QED
  BY <1>4, <1>5, <1>6, Zenon DEF phaseWaitBulkCopy, pollDataVolumes

\* The pod of a round, what a round accounts for and the disk it is at.
LEMMA OnlyThePod ==
  ASSUME NEW x, NEW w, Accounted(x, w)
  PROVE  /\ WithoutPods(w, {x.pod}) = {}
         /\ \A q \in w.pods : q.phase = "Succeeded" => PodAt(x, "Succeeded") \in w.pods
  BY DEF Accounted, WithoutPods, PodAt

LEMMA RoundIsNamed ==
  ASSUME NEW x, NEW m, NEW w, Ordered(x, m), Accounted(x, w), NEW r,
         r.warm.base = x.base, r.warm.baseImgs = x.baseImgs,
         r.warm.delta = x.delta, r.warm.deltaImgs = x.deltaImgs
  PROVE  w.snaps \subseteq SnapsOf(r) /\ w.imgs \subseteq ImagesOf(r)
  BY DEF Accounted, Ordered, Points, SnapsOf, ImagesOf

LEMMA PodIsOfADisk ==
  ASSUME NEW x \in Rounds, NEW m, Ordered(x, m), x.pod # NoPod
  PROVE  x.disk < D /\ x.disk + 1 \in 0 .. D /\ x.delta # 0
<1>1. x.disk < D /\ x.delta # 0 /\ x.disk \in 0 .. D
  BY Zenon DEF Ordered, Rounds
<1> QED
  BY <1>1, Numbers, Zenon

\* The pod of the disk at hand is looked at.
LEMMA WellCheckPod ==
  ASSUME IInv, Answered, Sound(mem.vms[idx], Res, Src, TRUE, made),
         mem.vms[idx] \in {"Precopy", "FinalSync"}, mem.vms[idx] = "Precopy" => ~due,
         Warm.pod # NoPod, checkDeltaPod, UNCHANGED <<made, content, disk, handed>>
  PROVE  GoesWell
<1> DEFINE p == mem.vms[idx]
           x == Warm
<1>0. p \in Syncing
  BY DEF Syncing
<1>1. /\ Res \in Fields /\ Src \in Worlds /\ Ordered(x, made) /\ Accounted(x, Src)
      /\ Res.orig = Src.was /\ (Src.was = "OFF" => Src.power = "OFF")
      /\ (p = "Precopy" => Src.power = Src.was) /\ (p = "FinalSync" => Src.power = "OFF")
      /\ Res.dvs = D /\ Src.kv = "None" /\ \A d \in Disks : Src.dvs[d] = "Succeeded"
  <2>1. Copying(p, Res, Src, made)
    BY <1>0, SyncingFacts, Zenon
  <2> QED
    BY <2>1, Zenon DEF Copying, Warm
<1>2. x \in Rounds
  BY <1>1, Zenon DEF Fields, Warm
<1> DEFINE gone == WithoutPods(Src, {x.pod})
           w == [Src EXCEPT !.pods = gone]
           y == [x EXCEPT !.pod = NoPod]
           z == [x EXCEPT !.pod = NoPod, !.disk = x.disk + 1]
           ry == [Res EXCEPT !.warm = y]
           rz == [Res EXCEPT !.warm = z]
<1>3. gone = {}
  BY <1>1, OnlyThePod, Zenon
<1>4. PICK phase \in getPodPhase(x.pod) :
        \/ phase = "Succeeded" /\ (NotYet(rz, w) \/ Failed(ry, w))
        \/ Failed(Res, Src)
        \/ NotYet(Res, Src)
  <2>1. BestEffort({x.pod}) = {{x.pod}}
    BY Zenon DEF BestEffort, Answered
  <2> QED
    BY <2>1, Zenon DEF checkDeltaPod, FailedCall, Warm
<1> HIDE DEF gone
<1>5. /\ w \in Worlds /\ w.pods = {} /\ w.was = Src.was /\ w.power = Src.power
      /\ w.snaps = Src.snaps /\ w.imgs = Src.imgs /\ w.dvs = Src.dvs /\ w.kv = Src.kv
  BY <1>1, <1>3, Zenon DEF Worlds, WorldsOf
<1> HIDE DEF w
<1>6. CASE Failed(Res, Src)
  BY <1>0, <1>6, WellIfGivenUp, Zenon
<1>7. CASE NotYet(Res, Src)
  BY <1>7, WellIfWaiting
<1>8. CASE Failed(ry, w)
  <2>1. y \in Rounds /\ y.base = x.base /\ y.delta = x.delta /\ y.baseImgs = x.baseImgs
          /\ y.deltaImgs = x.deltaImgs
    BY <1>2 DEF Rounds
  <2> HIDE DEF y
  <2>2. /\ ry \in Fields /\ ry.warm = y /\ ry.dvs = Res.dvs /\ ry.orig = Res.orig
    BY <1>1, <2>1, Zenon DEF Fields
  <2> HIDE DEF ry, x
  <2>3. Src.snaps \subseteq SnapsOf(ry) /\ Src.imgs \subseteq ImagesOf(ry)
    BY <1>1, <2>1, <2>2, RoundIsNamed, Zenon
  <2>4. \A d \in Disks : d <= ry.dvs
    BY <1>1, <2>2, Numbers, Zenon
  <2>5. Named(ry, w)
    BY <1>1, <1>5, <2>2, <2>3, <2>4, Zenon DEF Named
  <2> QED
    BY <1>5, <1>8, <2>2, <2>5, WellIfFailed, Zenon
<1>9. CASE phase = "Succeeded" /\ NotYet(rz, w)
  <2>1. x.disk < D /\ x.disk + 1 \in 0 .. D /\ x.delta # 0
    BY <1>1, <1>2, PodIsOfADisk, Zenon
  <2>2. /\ z \in Rounds /\ z.base = x.base /\ z.delta = x.delta /\ z.baseImgs = x.baseImgs
        /\ z.deltaImgs = x.deltaImgs /\ z.pod = NoPod
    BY <1>2, <2>1, Zenon DEF Rounds
  <2>3. PodAt(x, "Succeeded") \in Src.pods
    <3>1. PICK q \in Src.pods : q.phase = "Succeeded"
      BY <1>9 DEF getPodPhase
    <3> QED
      BY <1>1, <3>1, OnlyThePod, Zenon
  <2>4. Outcome(p, rz, w)
    <3>1. rz.warm = z
      BY <1>1, <2>2 DEF Fields
    <3> QED
      BY <1>5, <2>3, <3>1 DEF Outcome, PodDone, InRound
  <2> HIDE DEF z
  <2>5. rz \in Fields /\ rz.warm = z /\ rz.dvs = Res.dvs /\ rz.orig = Res.orig
    BY <1>1, <2>2 DEF Fields
  <2> HIDE DEF rz, x
  <2>6. Ordered(z, made)
    BY <1>1, <2>1, <2>2, Zenon DEF Ordered
  <2>7. Accounted(z, w)
    <3>1. "Pending" \in PodPhases
      BY DEF PodPhases
    <3> QED
      BY <1>1, <1>5, <2>2, <3>1, Zenon DEF Accounted, Points
  <2>8. Sound(p, rz, w, TRUE, made')
    BY <1>0, <1>1, <1>5, <2>5, <2>6, <2>7, SoundSyncing, Zenon DEF Copying
  <2> QED
    BY <1>9, <2>4, <2>8, WellIfWaits, Zenon
<1> QED
  BY <1>4, <1>6, <1>7, <1>8, <1>9, Zenon

----------------------------------------------------------------------------
(* A round.                                                                *)

\* The round is open: its recovery point and images are there.
RoundAt(p, r, w, now) ==
  /\ Copying(p, r, w, made') /\ r.warm.delta # 0
  /\ w.power = Src.power /\ w.kv = Src.kv
  /\ Opened(r.warm, now)

\* A round that is open is gone on with.
LEMMA RoundGoesOn ==
  ASSUME Counted, made \in Nat, NEW p, Copying(p, Res, Src, made), Warm.pod = NoPod, Warm.delta # 0,
         NEW j \in 0 .. ToMake(Warm.delta, Warm.deltaImgs), NEW now \in Meanwhile(idx),
         snapshotAndExport(Warm.delta, j, now), handed' = handed
  PROVE  RoundAt(p, DeltaAfter(j), SrcAfter(Warm.delta, j), now)
<1> DEFINE s == Warm.delta
<1>1. /\ Res \in Fields /\ Src \in Worlds /\ Ordered(Warm, made)
  BY Zenon DEF Copying, Warm
<1>2. /\ Warm \in Rounds /\ s \in Nat \ {0} /\ Warm.deltaImgs = Batch(s)
  <2>1. Warm \in Rounds
    BY <1>1, Zenon DEF Fields, Warm
  <2> QED
    BY <1>1, <2>1 DEF Rounds, Ordered
<1>3. /\ j = 0 /\ SnapMade(s, j) = {} /\ SnapAfter(s, j) = s /\ ImagesMade(s, j) = {}
  <2>1. j \in 0 .. ToMake(s, Batch(s))
    BY <1>2
  <2> QED
    BY <1>2, <2>1, MakesNothing
<1>4. DeltaAfter(j) = Res
  <2>1. [Warm EXCEPT !.delta = s, !.deltaImgs = Warm.deltaImgs \cup {}] = Warm
    BY <1>2, Zenon DEF Rounds
  <2>2. [Res EXCEPT !.warm = Warm] = Res
    BY <1>1 DEF Fields, Warm
  <2>3. DeltaAfter(j) = [Res EXCEPT !.warm =
          [Warm EXCEPT !.delta = SnapAfter(s, j),
                       !.deltaImgs = Warm.deltaImgs \cup ImagesMade(s, j)]]
    BY DEF DeltaAfter, Warm
  <2> QED
    BY <1>3, <2>1, <2>2, <2>3, Zenon
<1>5. SrcAfter(s, j) = Src
  BY <1>1, <1>3, Zenon DEF SrcAfter, Worlds, WorldsOf
<1>6. made' = made /\ content' = [i \in 1 .. MaxMade |-> content[i]]
  BY <1>3 DEF snapshotAndExport
<1>7. Opened(Warm, now)
  BY <1>6 DEF Opened, snapshotAndExport
<1> QED
  BY <1>4, <1>5, <1>6, <1>7, Zenon DEF RoundAt, Warm

\* What the status and the world are when a round has been opened, or as
\* much of it as the first j calls make.
LEMMA RoundBegins ==
  ASSUME Counted, made \in Nat, NEW p, Copying(p, Res, Src, made), Warm.delta = 0,
         NEW j \in 0 .. ToMake(0, {}), made + j <= MaxMade
  PROVE  /\ DeltaAfter(j) \in Fields /\ SrcAfter(0, j) \in Worlds
         /\ DeltaAfter(j).warm = [Warm EXCEPT !.delta = SnapAfter(0, j),
                                              !.deltaImgs = ImagesMade(0, j)]
         /\ DeltaAfter(j).warm \in Rounds
         /\ DeltaAfter(j).orig = Res.orig /\ DeltaAfter(j).dvs = Res.dvs
         /\ SrcAfter(0, j).snaps = {Warm.base} \cup SnapMade(0, j)
         /\ SrcAfter(0, j).imgs = Batch(Warm.base) \cup ImagesMade(0, j)
         /\ SrcAfter(0, j).was = Src.was /\ SrcAfter(0, j).power = Src.power
         /\ SrcAfter(0, j).dvs = Src.dvs /\ SrcAfter(0, j).pods = {}
         /\ SrcAfter(0, j).kv = Src.kv
<1>1. /\ Res \in Fields /\ Src \in Worlds /\ Ordered(Warm, made) /\ Accounted(Warm, Src)
  BY Zenon DEF Copying, Warm
<1>2. /\ Warm \in Rounds /\ Warm.deltaImgs = {} /\ Warm.pod = NoPod
      /\ Src.snaps = {Warm.base} /\ Src.imgs = Batch(Warm.base) /\ Src.pods = {}
  <2>1. Warm \in Rounds
    BY <1>1, Zenon DEF Fields, Warm
  <2> QED
    BY <1>1, <2>1 DEF Rounds, Ordered, Accounted, Points, Batch
<1> DEFINE s == SnapAfter(0, j)
           imgs == ImagesMade(0, j)
           snaps == SnapMade(0, j)
           x == [Warm EXCEPT !.delta = s, !.deltaImgs = imgs]
<1>3. /\ s \in Nat /\ imgs \subseteq Nat /\ snaps \subseteq 1 .. MaxMade
      /\ imgs \subseteq 1 .. MaxMade
  <2>1. /\ j \in 0 .. 1 + D
        /\ SnapMade(0, j) = IF j = 0 THEN {} ELSE {made + 1}
        /\ SnapAfter(0, j) = IF j = 0 THEN 0 ELSE made + 1
        /\ ImagesMade(0, j) \subseteq made + 2 .. made + j
    BY MakesAll
  <2> QED
    BY <2>1, BoundsAssumption, DAssumption
<1>4. DeltaAfter(j) = [Res EXCEPT !.warm = x]
  <2>1. DeltaAfter(j) = [Res EXCEPT !.warm =
          [Warm EXCEPT !.delta = SnapAfter(Warm.delta, j),
                       !.deltaImgs = Warm.deltaImgs \cup ImagesMade(Warm.delta, j)]]
    BY DEF DeltaAfter, Warm
  <2>2. Warm.deltaImgs \cup ImagesMade(Warm.delta, j) = imgs /\ SnapAfter(Warm.delta, j) = s
    BY <1>2, Zenon
  <2> QED
    BY <2>1, <2>2
<1>5. SrcAfter(0, j) = [Src EXCEPT !.snaps = Src.snaps \cup snaps, !.imgs = Src.imgs \cup imgs]
  BY DEF SrcAfter
<1> HIDE DEF s, imgs, snaps
<1>6. x \in Rounds
  BY <1>2, <1>3, Zenon DEF Rounds
<1> HIDE DEF x
<1>7. /\ DeltaAfter(j) \in Fields /\ DeltaAfter(j).warm = x
      /\ DeltaAfter(j).orig = Res.orig /\ DeltaAfter(j).dvs = Res.dvs
  BY <1>1, <1>4, <1>6 DEF Fields
<1>8. /\ SrcAfter(0, j).snaps = Src.snaps \cup snaps
      /\ SrcAfter(0, j).imgs = Src.imgs \cup imgs
      /\ SrcAfter(0, j).was = Src.was /\ SrcAfter(0, j).power = Src.power
      /\ SrcAfter(0, j).dvs = Src.dvs /\ SrcAfter(0, j).pods = Src.pods
      /\ SrcAfter(0, j).kv = Src.kv
  BY <1>1, <1>5, Zenon DEF Worlds, WorldsOf
<1>9. SrcAfter(0, j) \in Worlds
  <2> DEFINE a == Src.snaps \cup snaps
             b == Src.imgs \cup imgs
  <2>1. a \in SUBSET (1 .. MaxMade) /\ b \in SUBSET (1 .. MaxMade)
    BY <1>1, <1>3, Zenon DEF Worlds, WorldsOf
  <2>2. SrcAfter(0, j) = [Src EXCEPT !.snaps = a, !.imgs = b]
    BY <1>5
  <2> HIDE DEF a, b
  <2> QED
    BY <1>1, <2>1, <2>2, Zenon DEF Worlds, WorldsOf
<1> QED
  BY <1>2, <1>6, <1>7, <1>8, <1>9, Zenon DEF x, s, imgs, snaps

\* A round is opened, unless a call fails.
LEMMA RoundOpens ==
  ASSUME Counted, IInv, Answered, made \in 0 .. MaxMade, NEW p \in {"Precopy", "FinalSync"},
         Copying(p, Res, Src, made), Warm.pod = NoPod, NEW round, runDeltaRound(round)
  PROVE  GoesWell \/ \E r, w, now : RoundAt(p, r, w, now) /\ transferDisk(round, r, w)
<1> DEFINE s == Warm.delta
<1>0. made \in Nat
  BY BoundsAssumption
<1>1. PICK j \in 0 .. ToMake(s, Warm.deltaImgs), now \in Meanwhile(idx) :
        /\ snapshotAndExport(s, j, now) /\ handed' = handed
        /\ \/ Failed(DeltaAfter(j), SrcAfter(s, j))
           \/ /\ j = ToMake(s, Warm.deltaImgs)
              /\ transferDisk(round, DeltaAfter(j), SrcAfter(s, j))
  BY DEF runDeltaRound, FailedCall, FailedWithEffect, Answered
<1>2. p \in Syncing
  BY Zenon DEF Syncing
<1>3. CASE s # 0
  <2>1. RoundAt(p, DeltaAfter(j), SrcAfter(s, j), now)
    BY <1>0, <1>1, <1>3, RoundGoesOn
  <2>2. CASE Failed(DeltaAfter(j), SrcAfter(s, j))
    <3>1. Sound(p, DeltaAfter(j), SrcAfter(s, j), TRUE, made')
      BY <1>2, <2>1, SoundSyncing, Zenon DEF RoundAt
    <3>2. /\ DeltaAfter(j) \in Fields /\ SrcAfter(s, j) \in Worlds
          /\ Named(DeltaAfter(j), SrcAfter(s, j))
      BY <1>2, <3>1, SoundNamed, Zenon
    <3> QED
      BY <2>1, <2>2, <3>2, WellIfFailed, Zenon DEF RoundAt
  <2> QED
    BY <1>1, <2>1, <2>2, Zenon
<1>4. CASE s = 0
  <2>0. Warm.deltaImgs = {} /\ Ordered(Warm, made) /\ Accounted(Warm, Src)
    BY <1>4, Zenon DEF Copying, Warm, Ordered, Batch
  <2> DEFINE r == DeltaAfter(j)
             w == SrcAfter(0, j)
  <2>1. /\ j \in 0 .. ToMake(0, {}) /\ snapshotAndExport(0, j, now)
        /\ \/ Failed(r, w)
           \/ j = ToMake(0, {}) /\ transferDisk(round, r, w)
    BY <1>1, <1>4, <2>0, Zenon
  <2>2. made + j <= MaxMade /\ made' = made + j
    BY <2>1 DEF snapshotAndExport
  <2>3. /\ r \in Fields /\ w \in Worlds
        /\ r.warm = [Warm EXCEPT !.delta = SnapAfter(0, j), !.deltaImgs = ImagesMade(0, j)]
        /\ r.warm \in Rounds
        /\ r.orig = Res.orig /\ r.dvs = Res.dvs
        /\ w.snaps = {Warm.base} \cup SnapMade(0, j)
        /\ w.imgs = Batch(Warm.base) \cup ImagesMade(0, j)
        /\ w.was = Src.was /\ w.power = Src.power
        /\ w.dvs = Src.dvs /\ w.pods = {} /\ w.kv = Src.kv
    BY <1>0, <1>4, <2>1, <2>2, RoundBegins, Zenon
  <2> HIDE DEF r, w
  <2>4. /\ j \in 0 .. 1 + D /\ ToMake(0, {}) = 1 + D
        /\ SnapMade(0, j) = IF j = 0 THEN {} ELSE {made + 1}
        /\ SnapAfter(0, j) = IF j = 0 THEN 0 ELSE made + 1
        /\ j = 1 + D => ImagesMade(0, j) = Batch(made + 1)
    BY <1>0, <2>1, MakesAll
  <2>5. Warm \in Rounds
    BY Zenon DEF Copying, Fields, Warm
  <2>6. /\ r.warm.delta = SnapAfter(0, j) /\ r.warm.deltaImgs = ImagesMade(0, j)
        /\ r.warm.base = Warm.base /\ r.warm.baseImgs = Warm.baseImgs /\ r.warm.disk = Warm.disk
        /\ r.warm.pod = Warm.pod
    BY <2>3, <2>5 DEF Rounds
  <2>7. CASE Failed(r, w)
    <3>1. w.snaps \subseteq SnapsOf(r) /\ w.imgs \subseteq ImagesOf(r)
      BY <2>0, <2>3, <2>4, <2>6 DEF Ordered, SnapsOf, ImagesOf
    <3>2. \A d \in Disks : d <= r.dvs
      BY <2>3, DAssumption DEF Copying, Disks
    <3>3. Named(r, w)
      BY <2>3, <3>1, <3>2 DEF Named, Copying
    <3> QED
      BY <2>3, <2>7, <3>3, WellIfFailed
  <2>8. CASE j = 1 + D
    <3>1. /\ r.warm.delta = made + 1 /\ r.warm.deltaImgs = Batch(made + 1)
          /\ w.snaps = {Warm.base, made + 1} /\ w.imgs = Batch(Warm.base) \cup Batch(made + 1)
          /\ made' = made + 1 + D
      BY <2>2, <2>3, <2>4, <2>6, <2>8, DAssumption
    <3>2. Ordered(r.warm, made')
      BY <1>0, <1>4, <2>0, <2>5, <2>6, <3>1, DAssumption DEF Ordered, Rounds
    <3>3. Accounted(r.warm, w)
      <4>1. Points(r.warm) = {Warm.base, made + 1}
        <5>1. Warm.base # 0
          BY <2>0, Zenon DEF Ordered
        <5>2. made + 1 # 0
          BY <1>0
        <5> QED
          BY <2>6, <3>1, <5>1, <5>2, Zenon DEF Points
      <4>2. "Pending" \in PodPhases
        BY Zenon DEF PodPhases
      <4> QED
        BY <2>3, <2>6, <3>1, <4>1, <4>2 DEF Accounted
    <3>4. Copying(p, r, w, made')
      BY <2>3, <3>2, <3>3 DEF Copying
    <3>5. Opened(r.warm, now)
      <4>1. MadeNow(now) /\ disk' = [disk EXCEPT ![idx] = now]
        BY <1>0, <2>1, <2>8, NewContent, Zenon
      <4>2. r.warm = [Warm EXCEPT !.delta = made + 1, !.deltaImgs = Batch(made + 1)]
        BY <2>3, <2>6, <3>1, Zenon
      <4> QED
        BY <1>1, <1>4, <4>1, <4>2 DEF Opened
    <3>6. RoundAt(p, r, w, now)
      BY <1>0, <2>3, <3>1, <3>4, <3>5 DEF RoundAt
    <3> QED
      BY <2>1, <2>7, <3>6, Zenon
  <2> QED
    BY <2>1, <2>4, <2>7, <2>8, Zenon
<1> QED
  BY <1>3, <1>4

\* The last disk of a round is done: what the round is based on is deleted.
LEMMA Promotes ==
  ASSUME Answered, NEW r, NEW w, NEW now, NEW z, mem.vms[idx] = "Precopy", ~due,
         RoundAt("Precopy", r, w, now), AllDone(r.warm), z \in Fields,
         z.warm = r.warm \/ z.warm = [r.warm EXCEPT !.disk = D],
         z.orig = r.orig, z.dvs = r.dvs,
         finalizePrecopyRound(z, w)
  PROVE  GoesWell
<1> DEFINE x == r.warm
           y == [NoWarm EXCEPT !.base = x.delta, !.baseImgs = x.deltaImgs, !.rounds = x.rounds + 1]
           snaps == w.snaps \ {x.base}
           imgs == w.imgs \ x.baseImgs
           a == [z EXCEPT !.warm = y]
           b == [w EXCEPT !.snaps = snaps, !.imgs = imgs]
<1>1. /\ Copying("Precopy", r, w, made') /\ x.delta # 0 /\ w.power = Src.power /\ Opened(x, now)
      /\ r \in Fields /\ w \in Worlds /\ Ordered(x, made') /\ Accounted(x, w)
  BY DEF RoundAt, Copying
<1>2. /\ x \in Rounds /\ x.base \in Nat /\ x.delta \in Nat /\ x.rounds \in Nat
      /\ x.pod = NoPod /\ w.pods = {}
  BY <1>1, Zenon DEF Fields, Rounds, Opened, Accounted
<1>3. /\ z.warm.base = x.base /\ z.warm.baseImgs = x.baseImgs /\ z.warm.delta = x.delta
      /\ z.warm.deltaImgs = x.deltaImgs /\ z.warm.rounds = x.rounds
  BY <1>2 DEF Rounds
<1>4. NotYet(a, b)
  BY <1>3, Zenon DEF finalizePrecopyRound, BestEffort, Answered
<1>5. snaps = {x.delta} /\ imgs = Batch(x.delta)
  <2>1. x.baseImgs = Batch(x.base) /\ x.base + D < x.delta /\ x.base # 0
    BY <1>1, Zenon DEF Ordered
  <2>2. Batch(x.base) \cap Batch(x.delta) = {} /\ x.base # x.delta
    <3> HIDE DEF x
    <3> QED
      BY <1>1, <1>2, <2>1, DAssumption, SMT DEF Batch
  <2> QED
    BY <1>1, <2>1, <2>2 DEF Accounted, Points
<1> HIDE DEF snaps, imgs
<1>6. /\ y \in Rounds /\ y.base = x.delta /\ y.baseImgs = x.deltaImgs /\ y.delta = 0
      /\ y.deltaImgs = {} /\ y.disk = 0 /\ y.pod = NoPod
  <2>1. x.deltaImgs \in SUBSET Nat /\ x.rounds + 1 \in Nat /\ 0 \in 0 .. D
    BY <1>2, DAssumption DEF Rounds
  <2> QED
    BY <1>2, <2>1, Zenon DEF Rounds, NoWarm
<1>7. Ordered(y, made')
  BY <1>1, <1>6 DEF Ordered, Batch
<1>8. a \in Fields /\ a.warm = y /\ a.orig = r.orig /\ a.dvs = r.dvs
  <2> HIDE DEF y
  <2> QED
    BY <1>6 DEF Fields
<1>9. /\ b \in Worlds /\ b.snaps = snaps /\ b.imgs = imgs /\ b.was = w.was /\ b.power = w.power
      /\ b.dvs = w.dvs /\ b.pods = {} /\ b.kv = w.kv
  <2>1. snaps \in SUBSET (1 .. MaxMade) /\ imgs \in SUBSET (1 .. MaxMade)
    BY <1>1 DEF snaps, imgs, Worlds, WorldsOf
  <2> QED
    BY <1>1, <1>2, <2>1 DEF Worlds, WorldsOf
<1>10. Outcome("Precopy", a, b)
  BY <1>1, <1>8, <1>9, Zenon DEF Outcome, Promoted, InRound
<1> HIDE DEF x, y, a, b
<1>11. Accounted(y, b)
  <2>1. Points(y) = {x.delta} /\ Batch(y.base) \cup Batch(y.delta) = Batch(x.delta)
    BY <1>1, <1>2, <1>6 DEF Points, Batch
  <2>2. "Pending" \in PodPhases
    BY DEF PodPhases
  <2> QED
    BY <1>5, <1>9, <2>1, <2>2 DEF Accounted
<1>12. Copying("Precopy", a, b, made')
  BY <1>1, <1>7, <1>8, <1>9, <1>11 DEF Copying
<1>13. Sound("Precopy", a, b, TRUE, made')
  BY <1>12, SoundSyncing, Zenon DEF Syncing
<1> QED
  BY <1>4, <1>10, <1>13, WellIfWaits

LEMMA Finishes ==
  ASSUME IInv, Answered, NEW r, NEW w, NEW now, NEW z, mem.vms[idx] = "FinalSync",
         RoundAt("FinalSync", r, w, now), AllDone(r.warm), z \in Fields,
         z.warm = r.warm \/ z.warm = [r.warm EXCEPT !.disk = D],
         z.orig = r.orig, z.dvs = r.dvs,
         finalizeFinalSync(z, w)
  PROVE  GoesWell
<1> DEFINE x == r.warm
           y == [x EXCEPT !.delta = 0, !.deltaImgs = {}, !.disk = 0]
           snaps == w.snaps \ {x.base, x.delta}
           imgs == w.imgs \ (x.baseImgs \cup x.deltaImgs)
           a == [z EXCEPT !.warm = y]
           b == [w EXCEPT !.snaps = snaps, !.imgs = imgs]
<1>1. /\ Copying("FinalSync", r, w, made') /\ w.power = Src.power /\ Opened(x, now)
      /\ r \in Fields /\ w \in Worlds /\ Ordered(x, made') /\ Accounted(x, w)
  BY DEF RoundAt, Copying
<1>2. x \in Rounds /\ x.pod = NoPod /\ w.pods = {}
  BY <1>1, Zenon DEF Fields, Rounds, Opened, Accounted
<1>3. /\ z.warm.base = x.base /\ z.warm.baseImgs = x.baseImgs /\ z.warm.delta = x.delta
      /\ z.warm.deltaImgs = x.deltaImgs
      /\ [z.warm EXCEPT !.delta = 0, !.deltaImgs = {}, !.disk = 0] = y
  BY <1>2, Zenon DEF Rounds
<1>4. Completed(a, b)
  <2>1. Completed([z EXCEPT !.warm = [z.warm EXCEPT !.delta = 0, !.deltaImgs = {}, !.disk = 0]],
                  [w EXCEPT !.snaps = w.snaps \ {z.warm.base, z.warm.delta},
                            !.imgs = w.imgs \ (z.warm.baseImgs \cup z.warm.deltaImgs)])
    BY DEF finalizeFinalSync, BestEffort, Answered
  <2> QED
    BY <1>3, <2>1
<1>5. snaps = {} /\ imgs = {}
  BY <1>1, Zenon DEF Accounted, Points, Ordered
<1> HIDE DEF snaps, imgs
<1>6. y \in Rounds
  <2>1. 0 \in 0 .. D
    BY DAssumption
  <2> QED
    BY <1>2, <2>1, Zenon DEF Rounds
<1>7. a \in Fields /\ a.warm = y /\ a.orig = r.orig /\ a.dvs = r.dvs
  <2> HIDE DEF y
  <2> QED
    BY <1>6 DEF Fields
<1>8. /\ b \in Worlds /\ b.snaps = {} /\ b.imgs = {} /\ b.was = w.was /\ b.power = w.power
      /\ b.dvs = w.dvs /\ b.pods = {} /\ b.kv = w.kv
  BY <1>1, <1>2, <1>5, Zenon DEF Worlds, WorldsOf
<1>9. Outcome("CreateVM", a, b)
  BY <1>1, <1>7, <1>8, Zenon DEF Outcome, Finished
<1> HIDE DEF x, y, a, b
<1>10. /\ w.power = "OFF" /\ r.orig = w.was /\ r.dvs = D /\ w.kv = "None"
       /\ \A d \in Disks : w.dvs[d] = "Succeeded"
  BY <1>1 DEF Copying
<1>11. Sound("CreateVM", a, b, TRUE, made')
  BY <1>7, <1>8, <1>10, Zenon DEF Sound, BeforeCopy, BeforeStore, Syncing, Synced, AfterStart
<1> QED
  BY <1>4, <1>9, <1>11, WarmSuccessors, WellIfCompleted

\* The disk at hand: passed over, or copied by a pod; or the round is done.
LEMMA WellTransfer ==
  ASSUME Counted, IInv, Answered, NEW p \in {"Precopy", "FinalSync"}, mem.vms[idx] = p,
         p = "Precopy" => ~due, NEW r, NEW w, NEW now, RoundAt(p, r, w, now),
         NEW round \in Nat, round = FinalRound <=> p = "FinalSync",
         transferDisk(round, r, w)
  PROVE  GoesWell
<1> DEFINE x == r.warm
           d == x.disk + 1
           name == <<round, d>>
           pod == [name |-> name, img |-> ImageOf(x.deltaImgs, d), phase |-> "Pending"]
           created == BuildDeltaPod(name, ImageOf(x.deltaImgs, d), w)
           passed == [r EXCEPT !.warm.disk = d]
<1>0. p \in Syncing
  BY DEF Syncing
<1>1. /\ Copying(p, r, w, made') /\ x.delta # 0 /\ w.power = Src.power /\ Opened(x, now)
      /\ r \in Fields /\ w \in Worlds /\ Ordered(x, made') /\ Accounted(x, w)
  BY Zenon DEF RoundAt, Copying
<1>2. x \in Rounds /\ x.pod = NoPod /\ w.pods = {} /\ x.disk \in 0 .. D /\ x.delta \in Nat
  BY <1>1, Zenon DEF Fields, Rounds, Opened, Accounted
<1>3. d \in Nat /\ (d > D <=> x.disk = D) /\ (d <= D => d \in Disks /\ x.disk < D)
  BY <1>2, DAssumption DEF Disks
<1>4. ASSUME NEW z \in Fields, z.warm = x \/ z.warm = [x EXCEPT !.disk = D],
             z.orig = r.orig, z.dvs = r.dvs, AllDone(x), onComplete(round, z, w)
      PROVE  GoesWell
  <2>1. CASE p = "Precopy"
    <3>1. finalizePrecopyRound(z, w)
      BY <1>4, <2>1 DEF onComplete
    <3> QED
      BY <1>4, <2>1, <3>1, Promotes
  <2>2. CASE p = "FinalSync"
    <3>1. finalizeFinalSync(z, w)
      BY <1>4, <2>2 DEF onComplete
    <3> QED
      BY <1>4, <2>2, <3>1, Finishes
  <2> QED
    BY <2>1, <2>2
<1>5. CASE d > D /\ onComplete(round, r, w)
  BY <1>1, <1>3, <1>4, <1>5 DEF AllDone
<1>6. CASE Failed(r, w)
  <2>1. Sound(p, r, w, TRUE, made')
    BY <1>0, <1>1, SoundSyncing, Zenon
  <2>2. r \in Fields /\ w \in Worlds /\ Named(r, w)
    BY <1>0, <2>1, SoundNamed, Zenon
  <2> QED
    BY <1>6, <2>2, WellIfFailed, Zenon DEF RoundAt
<1>7. ASSUME d <= D
      PROVE  LET y == [x EXCEPT !.disk = d]
             IN  /\ y \in Rounds /\ passed \in Fields /\ passed.warm = y
                 /\ passed.orig = r.orig /\ passed.dvs = r.dvs
                 /\ Ordered(y, made') /\ Accounted(y, w)
  <2> DEFINE y == [x EXCEPT !.disk = d]
  <2>1. d \in 0 .. D
    BY <1>2, <1>7, DAssumption
  <2>2. /\ y \in Rounds /\ y.base = x.base /\ y.baseImgs = x.baseImgs /\ y.delta = x.delta
        /\ y.deltaImgs = x.deltaImgs /\ y.pod = x.pod
    BY <1>2, <2>1 DEF Rounds
  <2>3. passed = [r EXCEPT !.warm = y]
    OBVIOUS
  <2> HIDE DEF y, passed
  <2>4. passed \in Fields /\ passed.warm = y /\ passed.orig = r.orig /\ passed.dvs = r.dvs
    BY <1>1, <2>2, <2>3 DEF Fields
  <2>5. Ordered(y, made')
    BY <1>1, <1>2, <2>2, Zenon DEF Ordered
  <2>6. Accounted(y, w)
    <3>1. "Pending" \in PodPhases
      BY DEF PodPhases
    <3> QED
      BY <1>1, <1>2, <2>2, <3>1, Zenon DEF Accounted, Points
  <2> QED
    BY <2>2, <2>4, <2>5, <2>6, Zenon DEF y
<1>8. CASE d = D /\ Unchanged(x, d) /\ onComplete(round, passed, w)
  <2>1. AllDone(x)
    BY <1>8 DEF AllDone
  <2>2. passed \in Fields /\ passed.warm = [x EXCEPT !.disk = D]
          /\ passed.orig = r.orig /\ passed.dvs = r.dvs
    BY <1>3, <1>7, <1>8
  <2> HIDE DEF passed
  <2> QED
    BY <1>4, <1>8, <2>1, <2>2
<1>9. CASE d < D /\ Unchanged(x, d) /\ NotYet(passed, w)
  <2>1. d <= D
    BY <1>3, <1>9, DAssumption
  <2>2. /\ passed \in Fields /\ passed.warm = [x EXCEPT !.disk = d]
        /\ passed.orig = r.orig /\ passed.dvs = r.dvs
        /\ Ordered(passed.warm, made') /\ Accounted(passed.warm, w)
    BY <1>7, <2>1
  <2> HIDE DEF passed
  <2>3. Outcome(p, passed, w)
    BY <1>1, <1>2, <1>3, <1>9, <2>1, <2>2, Zenon DEF Outcome, Worked, InRound
  <2>4. Copying(p, passed, w, made')
    BY <1>1, <2>2 DEF Copying
  <2>5. Sound(p, passed, w, TRUE, made')
    BY <1>0, <2>4, SoundSyncing, Zenon
  <2> QED
    BY <1>9, <2>3, <2>5, WellIfWaits, Zenon
<1>10. CASE d <= D /\ NotYet([r EXCEPT !.warm.pod = name], created)
  <2> DEFINE y == [x EXCEPT !.pod = name]
             a == [r EXCEPT !.warm = y]
             b == [w EXCEPT !.pods = {pod}]
  <2>1. NotYet(a, b)
    <3>1. created = b
      BY <1>2 DEF BuildDeltaPod
    <3> QED
      BY <1>10, <3>1
  <2>2. name \in Nat \X Disks /\ name[2] = d /\ name # NoPod
    BY <1>3, <1>10 DEF NoPod
  <2>3. pod.img = x.delta + d /\ pod \in Pods
    <3>1. ImageOf(x.deltaImgs, d) = x.delta + d
      BY <1>1, <1>2, <1>3, <1>10, Zenon DEF Counted, Ordered
    <3>2. x.delta + d \in Nat
      BY <1>2, <1>3
    <3> QED
      BY <2>2, <3>1, <3>2, Zenon DEF Pods, PodPhases
  <2>4. /\ y \in Rounds /\ y.base = x.base /\ y.baseImgs = x.baseImgs /\ y.delta = x.delta
        /\ y.deltaImgs = x.deltaImgs /\ y.disk = x.disk /\ y.pod = name
    <3> HIDE DEF name
    <3> QED
      BY <1>2, <2>2 DEF Rounds
  <2>5. a \in Fields /\ a.warm = y /\ a.orig = r.orig /\ a.dvs = r.dvs
    <3> HIDE DEF y
    <3> QED
      BY <1>1, <2>4 DEF Fields
  <2>6. pod = PodAt(y, "Pending")
    <3>1. x.delta + d = x.delta + x.disk + 1
      BY <1>2
    <3> QED
      BY <2>3, <2>4, <3>1, Zenon DEF PodAt
  <2>7. /\ b \in Worlds /\ b.pods = {pod} /\ b.was = w.was /\ b.power = w.power
        /\ b.snaps = w.snaps /\ b.imgs = w.imgs /\ b.dvs = w.dvs /\ b.kv = w.kv
    <3> HIDE DEF pod
    <3> QED
      BY <1>1, <2>3 DEF Worlds, WorldsOf
  <2>8. Outcome(p, a, b)
    <3>1. Opened(x, now) /\ x.disk < D /\ InRound(p, b)
      BY <1>1, <1>3, <1>10, <2>7, Zenon DEF InRound
    <3>2. a.warm = [x EXCEPT !.pod = <<round, x.disk + 1>>] /\ b.pods = {PodAt(a.warm, "Pending")}
      BY <2>5, <2>6, <2>7, Zenon
    <3> HIDE DEF x, a, b, y, pod
    <3> QED
      BY <3>1, <3>2, Zenon DEF Outcome, Worked
  <2> HIDE DEF a, b, y, pod
  <2>9. Ordered(y, made')
    BY <1>1, <1>3, <1>10, <2>2, <2>4 DEF Ordered
  <2>10. Accounted(y, b)
    <3>1. "Pending" \in PodPhases
      BY DEF PodPhases
    <3> QED
      BY <1>1, <2>2, <2>4, <2>6, <2>7, <3>1, Zenon DEF Accounted, Points
  <2>11. Copying(p, a, b, made')
    BY <1>1, <2>5, <2>7, <2>9, <2>10, Zenon DEF Copying
  <2>12. Sound(p, a, b, TRUE, made')
    BY <1>0, <2>11, SoundSyncing, Zenon
  <2> QED
    BY <2>1, <2>8, <2>12, WellIfWaits
<1>11. d <= D /\ ~(d = D) => d < D
  BY <1>3, DAssumption
<1> QED
  BY <1>5, <1>6, <1>8, <1>9, <1>10, <1>11, Zenon
     DEF transferDisk, Changed, Unchanged, FailedWithEffect, Answered

\* A round is opened or gone on with, for the disk at hand.
LEMMA WellRound ==
  ASSUME Counted, IInv, Answered, made \in 0 .. MaxMade, NEW p \in {"Precopy", "FinalSync"},
         mem.vms[idx] = p, p = "Precopy" => ~due, Copying(p, Res, Src, made),
         Warm.pod = NoPod, NEW round \in Nat, round = FinalRound <=> p = "FinalSync",
         runDeltaRound(round)
  PROVE  GoesWell
<1>1. GoesWell \/ \E r, w, now : RoundAt(p, r, w, now) /\ transferDisk(round, r, w)
  BY RoundOpens, Zenon
<1>2. ASSUME NEW r, NEW w, NEW now, RoundAt(p, r, w, now), transferDisk(round, r, w)
      PROVE  GoesWell
  BY <1>2, WellTransfer, Zenon
<1> QED
  BY <1>1, <1>2, Zenon

LEMMA WellPrecopy ==
  ASSUME Counted, IInv, Answered, made \in 0 .. MaxMade, Sound(mem.vms[idx], Res, Src, TRUE, made),
         phasePrecopy
  PROVE  GoesWell
<1>1. mem.vms[idx] = "Precopy" /\ mem.vms[idx] \in Syncing
  BY Zenon DEF phasePrecopy, At, Syncing
<1>2. Copying("Precopy", Res, Src, made)
  BY <1>1, SyncingFacts, Zenon
<1>3. Warm.base # 0 /\ Warm.rounds \in Nat
  BY <1>2, Zenon DEF Copying, Ordered, Fields, Rounds, Warm
<1>4. CASE due /\ cutover /\ UNCHANGED <<made, content, disk, handed>>
  <2>1. CASE NotYet(Res, Src)
    BY <1>4, <2>1, WellIfWaiting
  <2>2. CASE Completed(Res, Src)
    BY <1>1, <1>4, <2>2, WellIfSame, Zenon
  <2> QED
    BY <1>4, <2>1, <2>2 DEF cutover
<1>5. CASE ~due /\ Warm.pod # NoPod /\ checkDeltaPod /\ UNCHANGED <<made, content, disk, handed>>
  BY <1>1, <1>5, WellCheckPod
<1>6. CASE NotYet(Res, Src) /\ UNCHANGED <<made, content, disk, handed>>
  BY <1>6, WellIfWaiting, Zenon
<1>7. CASE ~due /\ Warm.pod = NoPod /\ runDeltaRound(Warm.rounds + 1)
  <2>1. Warm.rounds + 1 \in Nat /\ Warm.rounds + 1 # FinalRound
    BY <1>3 DEF FinalRound
  <2> QED
    BY <1>1, <1>2, <1>7, <2>1, WellRound
<1> QED
  BY <1>3, <1>4, <1>5, <1>6, <1>7 DEF phasePrecopy, WarmNil

LEMMA WellFinalSync ==
  ASSUME Counted, IInv, Answered, made \in 0 .. MaxMade, Sound(mem.vms[idx], Res, Src, TRUE, made),
         phaseFinalSync
  PROVE  GoesWell
<1>1. mem.vms[idx] = "FinalSync" /\ mem.vms[idx] \in Syncing
  BY Zenon DEF phaseFinalSync, At, Syncing
<1>2. Copying("FinalSync", Res, Src, made)
  BY <1>1, SyncingFacts, Zenon
<1>3. Warm.base # 0
  BY <1>2, Zenon DEF Copying, Ordered, Warm
<1>4. CASE Warm.pod # NoPod /\ checkDeltaPod /\ UNCHANGED <<made, content, disk, handed>>
  BY <1>1, <1>4, WellCheckPod, Zenon
<1>5. CASE Warm.pod = NoPod /\ runDeltaRound(FinalRound)
  <2>1. FinalRound \in Nat
    BY Zenon DEF FinalRound
  <2> QED
    BY <1>1, <1>2, <1>5, <2>1, WellRound
<1> QED
  BY <1>3, <1>4, <1>5 DEF phaseFinalSync, WarmNil

\* Every handler leaves the VM sound.
LEMMA WellPhase ==
  ASSUME Counted, IInv, Answered, made \in 0 .. MaxMade, Sound(mem.vms[idx], Res, Src, TRUE, made),
         executePhase
  PROVE  GoesWell
  BY WellSourcePhase, WellTargetPhase, WellBulkCopy, WellWaitBulkCopy, WellPrecopy,
     WellFinalSync, Zenon DEF executePhase, SharedPhase

\* Recovery points and images are only ever made, up to the bound.
LEMMA MadeGrows ==
  ASSUME made \in 0 .. MaxMade, executePhase
  PROVE  /\ made' \in 0 .. MaxMade /\ made <= made'
         /\ UNCHANGED <<objRes, cacheRes>>
<1>1. ASSUME NEW s, NEW i, NEW j \in 0 .. ToMake(s, i), NEW now, snapshotAndExport(s, j, now)
      PROVE  made' \in 0 .. MaxMade /\ made <= made'
  BY <1>1, BoundsAssumption DEF snapshotAndExport
<1>2. made' = made => made' \in 0 .. MaxMade /\ made <= made'
  BY BoundsAssumption
<1>3. CASE SharedPhase
  BY <1>2, <1>3, Zenon DEF SharedPhase, runHook, phaseStorePowerState, phasePowerOff,
     phaseWaitForPowerOff, phaseCreateVM, phaseStartVM, phaseCleanup
<1>4. CASE phaseBulkCopy
  BY <1>1, <1>4 DEF phaseBulkCopy
<1>5. CASE phaseWaitBulkCopy
  BY <1>2, <1>5, Zenon DEF phaseWaitBulkCopy
<1>6. CASE phasePrecopy
  BY <1>1, <1>2, <1>6, Zenon DEF phasePrecopy, runDeltaRound
<1>7. CASE phaseFinalSync
  BY <1>1, <1>2, <1>7, Zenon DEF phaseFinalSync, runDeltaRound
<1> QED
  BY <1>3, <1>4, <1>5, <1>6, <1>7, Zenon DEF executePhase

----------------------------------------------------------------------------
(* The steps outside the handlers.                                         *)

\* Listing, starting and cancelling a VM, and deleting the Migration.
LEMMA SoundIdle ==
  ASSUME NEW p, NEW q, NEW r, NEW w, NEW e, NEW f, NEW m, Sound(p, r, w, e, m), f => e,
         \/ q = p
         \/ p = "None" /\ q = "Pending"
         \/ p = "Pending" /\ q = "PreHook"
         \/ q = "Cancelled"
  PROVE  Sound(q, r, w, f, m)
<1> USE DEF BeforeCopy, BeforeStore, Syncing, Synced, AfterStart
<1>1. CASE q = p
  BY <1>1, Zenon DEF Sound
<1>2. CASE p \in {"None", "Pending"} /\ q \in {"Pending", "PreHook"}
  BY <1>2, Zenon DEF Sound
<1>3. CASE q = "Cancelled"
  BY <1>3, Zenon DEF Sound
<1> QED
  BY <1>1, <1>2, <1>3

\* Recovery points and images made for another VM.
LEMMA SoundLater ==
  ASSUME NEW p, NEW r, NEW w, NEW e, NEW m \in Nat, NEW n \in Nat, m <= n, Sound(p, r, w, e, m)
  PROVE  Sound(p, r, w, e, n)
<1>1. r.warm \in Rounds
  BY Zenon DEF Sound, Fields
<1>2. Ordered(r.warm, m) => Ordered(r.warm, n)
  BY <1>1, DAssumption DEF Ordered, Rounds
<1> QED
  BY <1>2, Zenon DEF Sound

LEMMA SoundDrift ==
  ASSUME NEW p, NEW r, NEW w, NEW c \in Worlds, NEW e \in BOOLEAN, NEW m,
         Sound(p, r, w, e, m), Drifts(w, c, e)
  PROVE  Sound(p, r, c, e, m)
<1>0. w \in Worlds /\ r \in Fields
  BY Zenon DEF Sound
<1>1. w.was \in {"ON", "OFF"}
  BY <1>0 DEF Worlds, WorldsOf
<1>2. Accounted(r.warm, w) => Accounted(r.warm, c)
  BY Zenon DEF Accounted, Drifts
<1>3. NoDataLeft(w) => NoDataLeft(c)
  BY Zenon DEF NoDataLeft, Drifts
<1>4. ASSUME e, \A d \in Disks : w.dvs[d] = "Succeeded" PROVE \A d \in Disks : c.dvs[d] = "Succeeded"
  BY <1>4, Zenon DEF Drifts
<1>5. w.power = w.was => c.power = c.was
  BY <1>1, Zenon DEF Drifts
<1>6. w.power = "OFF" => c.power = "OFF"
  BY Zenon DEF Drifts
<1>7. c.was = w.was /\ c.kv = w.kv /\ c.snaps = w.snaps /\ c.imgs = w.imgs /\ c.pods \subseteq w.pods
  BY DEF Drifts
<1>8. \A x, y \in c.pods : x = y
  BY <1>7, Zenon DEF Sound
<1>9. c.pods # {} => \A d \in Disks : c.dvs[d] # "Importing"
  <2>1. c.pods # {} => \A d \in Disks : w.dvs[d] # "Importing"
    BY <1>7, Zenon DEF Sound
  <2> QED
    BY <2>1, Zenon DEF Drifts
<1>10. p \in (Syncing \ {"WaitBulkCopy"}) \cup Synced /\ e =>
         \A d \in Disks : c.dvs[d] = "Succeeded"
  BY <1>4, Zenon DEF Sound
<1>11. /\ p # "Cancelled" /\ c.was = "OFF" => c.power = "OFF"
       /\ p \in BeforeCopy \cup {"WaitBulkCopy", "Precopy", "PowerOff", "Failed"} =>
            c.power = c.was
       /\ p \in {"FinalSync"} \cup Synced => c.power = "OFF"
  BY <1>5, <1>6, <1>7, Zenon DEF Sound
<1>12. /\ p \in BeforeStore => r.orig \in {"", c.was}
       /\ p \in {"BulkCopy"} \cup Syncing \cup Synced => r.orig = c.was
       /\ p \in BeforeCopy =>
            r.snap = 0 /\ r.imgs = {} /\ r.dvs = 0 /\ r.warm = NoWarm /\ NoDataLeft(c)
       /\ p \in Syncing => r.dvs = D /\ Ordered(r.warm, m) /\ Accounted(r.warm, c)
       /\ p = "WaitBulkCopy" => r.warm.delta = 0
  BY <1>2, <1>3, <1>7, Zenon DEF Sound
<1>13. /\ p \in Synced => r.dvs = D /\ c.snaps = {} /\ c.imgs = {} /\ c.pods = {}
       /\ p \in BeforeCopy \cup Syncing \cup {"CreateVM"} => c.kv = "None"
       /\ p = "StartVM" => c.kv = "Stopped"
       /\ p \in AfterStart => c.kv = Target
       /\ p = "Failed" => NoDataLeft(c)
  BY <1>3, <1>7, Zenon DEF Sound
<1> QED
  BY <1>0, <1>8, <1>9, <1>10, <1>11, <1>12, <1>13, Zenon DEF Sound

LEMMA SoundPodEnds ==
  ASSUME NEW p, NEW r, NEW w, NEW e, NEW m, Sound(p, r, w, e, m),
         NEW q \in w.pods, NEW end \in PodPhases
  PROVE  Sound(p, r, [w EXCEPT !.pods = (w.pods \ {q}) \cup {[q EXCEPT !.phase = end]}], e, m)
<1> DEFINE ended == [q EXCEPT !.phase = end]
           pods == (w.pods \ {q}) \cup {ended}
           c == [w EXCEPT !.pods = pods]
<1>0. w \in Worlds /\ r \in Fields /\ \A x, y \in w.pods : x = y
  BY Zenon DEF Sound
<1>1. pods = {ended}
  BY <1>0
<1>2. q \in Pods
  BY <1>0 DEF Worlds, WorldsOf
<1>3. ended \in Pods /\ ended.name = q.name /\ ended.img = q.img /\ ended.phase = end
  BY <1>2 DEF Pods
<1>4. Accounted(r.warm, w) => r.warm.pod # NoPod /\ ended = PodAt(r.warm, end)
  <2> SUFFICES ASSUME Accounted(r.warm, w) PROVE r.warm.pod # NoPod /\ ended = PodAt(r.warm, end)
    OBVIOUS
  <2>1. PICK ph \in PodPhases : q = PodAt(r.warm, ph)
    BY Zenon DEF Accounted
  <2> QED
    BY <2>1 DEF PodAt, Accounted
<1> HIDE DEF ended, pods
<1>5. /\ c \in Worlds /\ c.pods = {ended} /\ c.was = w.was /\ c.power = w.power
      /\ c.snaps = w.snaps /\ c.imgs = w.imgs /\ c.dvs = w.dvs /\ c.kv = w.kv
  BY <1>0, <1>1, <1>3 DEF Worlds, WorldsOf
<1> HIDE DEF c
<1>6. Accounted(r.warm, w) => Accounted(r.warm, c)
  BY <1>4, <1>5, Zenon DEF Accounted
<1>7. ~NoDataLeft(w) /\ w.pods # {}
  BY Zenon DEF NoDataLeft
<1>8. \A x, y \in c.pods : x = y
  BY <1>5
<1>9. \A d \in Disks : c.dvs[d] # "Importing"
  BY <1>5, <1>7, Zenon DEF Sound
<1>10. Sound(p, r, c, e, m)
  BY <1>0, <1>5, <1>6, <1>7, <1>8, <1>9, Zenon DEF Sound
<1> QED
  BY <1>10 DEF c, pods, ended

LEMMA InitSound == WarmInit => CalmInv /\ SoundInv
<1> SUFFICES ASSUME WarmInit PROVE CalmInv /\ SoundInv
  OBVIOUS
<1>1. /\ pc = "idle" /\ obj = NewObject /\ objRes = NoRes /\ cacheRes = NoRes /\ memRes = NoRes
      /\ world \in [VMs -> {NewWorld("ON"), NewWorld("OFF")}] /\ made = 0
  BY Zenon DEF WarmInit, PipelineInit, Init
<1>2. PerVM(NoRes)
  BY Zenon DEF PerVM, NoRes
<1>3. CalmInv
  BY <1>1, <1>2 DEF CalmInv, PerVM
<1>4. ASSUME NEW v \in VMs PROVE Sound("None", NoRes[v], world[v], TRUE, 0)
  <2>1. NoRes[v] = [orig |-> "", snap |-> 0, imgs |-> {}, dvs |-> 0, warm |-> NoWarm]
    BY Zenon DEF NoRes
  <2>2. NoWarm \in Rounds /\ 0 \in 0 .. D
    BY DAssumption DEF Rounds, NoWarm
  <2>3. /\ NoRes[v] \in Fields /\ NoRes[v].orig = "" /\ NoRes[v].snap = 0 /\ NoRes[v].imgs = {}
        /\ NoRes[v].dvs = 0 /\ NoRes[v].warm = NoWarm
    <3> DEFINE n == 0
               none == {}
    <3>1. n \in Nat /\ n \in 0 .. D /\ none \in SUBSET Nat
      BY DAssumption
    <3> DEFINE z == [orig |-> "", snap |-> n, imgs |-> none, dvs |-> n, warm |-> NoWarm]
    <3>2. NoRes[v] = z
      BY <2>1, Zenon
    <3> HIDE DEF n, none
    <3>3. z.orig = "" /\ z.snap = n /\ z.imgs = none /\ z.dvs = n /\ z.warm = NoWarm
      BY Zenon
    <3>4. z \in Fields
      BY <2>2, <3>1 DEF Fields
    <3> HIDE DEF z
    <3> QED
      BY <3>2, <3>3, <3>4, Zenon DEF n, none
  <2>4. PICK x \in {"ON", "OFF"} : world[v] = NewWorld(x)
    BY <1>1, Zenon
  <2>5. /\ world[v].was = x /\ world[v].power = x /\ world[v].snaps = {} /\ world[v].imgs = {}
        /\ world[v].kv = "None" /\ world[v].pods = {} /\ \A d \in Disks : world[v].dvs[d] = "None"
    BY <2>4, NewWorldFields
  <2>6. world[v] \in Worlds
    BY <2>4 DEF NewWorld, Worlds, WorldsOf
  <2> QED
    BY <2>3, <2>5, <2>6, Zenon DEF Sound, NoDataLeft, BeforeCopy, BeforeStore, Syncing, Synced,
      AfterStart
<1>5. \A v \in VMs : PhaseOf(v) = "None" /\ ResOf(v) = NoRes[v]
  BY <1>1, Zenon DEF PhaseOf, ResOf, NewObject
<1>6. obj.exists = TRUE
  BY <1>1, Zenon DEF NewObject
<1>7. made = 0 /\ made \in 0 .. MaxMade
  BY <1>1, BoundsAssumption
<1> QED
  BY <1>3, <1>4, <1>5, <1>6, <1>7, Zenon DEF SoundInv

\* A handler's step: what AnswerStep says of it, and its outcome.
LEMMA PhaseStep ==
  ASSUME Counted, Answered, IInv, CalmInv, SoundInv, executePhase
  PROVE  CalmInv' /\ obj' = obj /\ Handles
<1>1. AtPhase
  BY Zenon DEF executePhase, SharedPhase, runHook, phaseStorePowerState, phasePowerOff,
    phaseWaitForPowerOff, phaseBulkCopy, phaseWaitBulkCopy, phasePrecopy, phaseFinalSync,
    phaseCreateVM, phaseStartVM, phaseCleanup, At
<1>2. idx \in VMs /\ pc = "pass" /\ obj.exists
  BY <1>1, HandledVM, Zenon DEF CalmInv, IInv, FreshInv, Reconcilable
<1>3. Sound(mem.vms[idx], Res, Src, obj.exists, made) /\ made \in 0 .. MaxMade
  BY <1>2, Zenon DEF SoundInv, PhaseOf, ResOf, Res, Src
<1>4. Sound(mem.vms[idx], Res, Src, TRUE, made)
  BY <1>2, <1>3, SoundIdle, Zenon
<1>5. PICK q, r, w : Answers(q, r, w) /\ Sound(q, r, w, TRUE, made') /\ Outcome(q, r, w)
  BY <1>3, <1>4, WellPhase, Zenon DEF GoesWell
<1>6. made' \in 0 .. MaxMade /\ made <= made' /\ UNCHANGED <<objRes, cacheRes>>
  BY <1>3, MadeGrows
<1>7. /\ CalmInv' /\ obj' = obj /\ PhaseOf(idx) = mem.vms[idx] /\ ResOf(idx) = Res
      /\ StepTo(q, r, w)
  BY <1>5, <1>6, AnswerStep, Zenon DEF StepTo
<1> QED
  BY <1>2, <1>4, <1>5, <1>6, <1>7, Zenon DEF Handles

LEMMA IdlingIsSound ==
  ASSUME NEW v, Idles(v), ExistsStays, Sound(PhaseOf(v), ResOf(v), world[v], obj.exists, made)
  PROVE  Sound(PhaseOf(v)', ResOf(v), world[v], obj'.exists, made)
  BY SoundIdle, Zenon DEF Idles, ExistsStays

LEMMA SoundStep ==
  ASSUME Counted, Undisturbed, Answered, IInv, CalmInv, SoundInv, [WarmNext]_warmAllVars
  PROVE  CalmInv' /\ SoundInv'
<1>0. obj.exists \in BOOLEAN /\ made \in 0 .. MaxMade /\ made \in Nat
  <2>1. obj \in Objects /\ made \in 0 .. MaxMade
    BY Zenon DEF IInv, TypeOK, SoundInv
  <2>2. obj.exists \in BOOLEAN
    BY <2>1, Zenon DEF Objects
  <2> QED
    BY <2>1, <2>2, Numbers, Zenon
<1>1. CASE executePhase
  <2>1. /\ CalmInv' /\ obj' = obj /\ idx \in VMs /\ obj.exists
        /\ made' \in 0 .. MaxMade /\ made <= made' /\ made' \in Nat
    BY <1>1, PhaseStep, BoundsAssumption DEF Handles
  <2>2. PICK q, r, w : Sound(q, r, w, TRUE, made') /\ StepTo(q, r, w)
    BY <1>1, PhaseStep, Zenon DEF Handles
  <2>3. Sound(q, r, w, obj.exists, made')
    BY <2>2, SoundIdle, Zenon
  <2>4. ASSUME NEW v \in VMs
        PROVE  Sound(PhaseOf(v)', ResOf(v)', world'[v], obj'.exists, made')
    <3>1. CASE v = idx
      BY <2>1, <2>2, <2>3, <3>1, Zenon DEF StepTo
    <3>2. CASE v # idx
      <4>1. Sound(PhaseOf(v), ResOf(v), world[v], obj.exists, made)
        BY DEF SoundInv
      <4>2. Sound(PhaseOf(v), ResOf(v), world[v], obj.exists, made')
        BY <1>0, <2>1, <4>1, SoundLater, Zenon
      <4> QED
        BY <2>1, <2>2, <3>2, <4>2, Zenon DEF StepTo
    <3> QED
      BY <3>1, <3>2
  <2> QED
    BY <2>1, <2>4, Zenon DEF SoundInv
<1>2. CASE \/ ReconcileOnly \/ PipelineBeginPass \/ PipelineSaveStatus \/ PipelineLoseStatus
           \/ PipelineUser \/ PipelineCrash \/ PipelineDeliver
  <2>1. /\ CalmInv' /\ ExistsStays
        /\ \A v \in VMs : Idles(v)
        /\ UNCHANGED <<world, made>>
    BY <1>2, IdleStep
  <2>2. ASSUME NEW v \in VMs
        PROVE  Sound(PhaseOf(v)', ResOf(v)', world'[v], obj'.exists, made')
    <3>1. Sound(PhaseOf(v), ResOf(v), world[v], obj.exists, made)
      BY DEF SoundInv
    <3>2. Sound(PhaseOf(v)', ResOf(v), world[v], obj'.exists, made)
      BY <2>1, <3>1, IdlingIsSound, Zenon
    <3> QED
      BY <2>1, <3>2, Zenon DEF Idles
  <2> QED
    BY <1>0, <2>1, <2>2, Zenon DEF SoundInv
<1>3. ASSUME UNCHANGED <<vars, resVars, made>>, PerVM(world)',
             \A v \in VMs : Sound(PhaseOf(v), ResOf(v), world'[v], obj.exists, made)
      PROVE  CalmInv' /\ SoundInv'
  <2>1. CalmInv'
    BY <1>3 DEF CalmInv, PerVM, vars, resVars
  <2>2. \A v \in VMs : PhaseOf(v)' = PhaseOf(v) /\ ResOf(v)' = ResOf(v) /\ obj' = obj
    BY <1>3, Zenon DEF PhaseOf, ResOf, vars, resVars
  <2> QED
    BY <1>0, <1>3, <2>1, <2>2, Zenon DEF SoundInv
<1>4. world \in [VMs -> Worlds]
  BY Zenon DEF SoundInv, Sound, CalmInv, PerVM
<1>5. CASE PipelineCloud
  <2> DEFINE P == SUBSET Pods
  <2>1. UNCHANGED <<vars, resVars, made>>
    BY <1>5, Zenon DEF PipelineCloud, PowerSettles, KubeVirtVMSeen, ImportEnds, GarbageCollect
  <2>2. {} \in P /\ world \in [VMs -> WorldsOf(P)]
    BY <1>4, Zenon DEF Worlds
  <2> HIDE DEF P
  <2>3. world' \in [VMs -> WorldsOf(P)] /\ \A v \in VMs : Drifts(world[v], world'[v], obj.exists)
    BY <1>5, <2>2, CloudDrifts, CloudTypes, Zenon
  <2>4. ASSUME NEW v \in VMs
        PROVE  Sound(PhaseOf(v), ResOf(v), world'[v], obj.exists, made)
    <3>1. Sound(PhaseOf(v), ResOf(v), world[v], obj.exists, made)
      BY DEF SoundInv
    <3>2. world'[v] \in Worlds
      BY <2>3, Zenon DEF Worlds, P
    <3> QED
      BY <1>0, <2>3, <3>1, <3>2, SoundDrift
  <2>5. PerVM(world)'
    BY <2>3, Zenon DEF PerVM
  <2> QED
    BY <1>3, <2>1, <2>4, <2>5
<1>6. ASSUME NEW v \in VMs, PodEnds(v) PROVE CalmInv' /\ SoundInv'
  <2>1. PICK q \in world[v].pods, end \in {"Succeeded", "Failed"} :
          /\ world' = [world EXCEPT ![v].pods = (@ \ {q}) \cup {[q EXCEPT !.phase = end]}]
          /\ UNCHANGED <<vars, resVars, made>>
    BY <1>6, Zenon DEF PodEnds
  <2> DEFINE c == [world[v] EXCEPT !.pods = (world[v].pods \ {q}) \cup {[q EXCEPT !.phase = end]}]
  <2>2. world' = [world EXCEPT ![v] = c]
    BY <2>1
  <2>3. Sound(PhaseOf(v), ResOf(v), c, obj.exists, made)
    <3>1. Sound(PhaseOf(v), ResOf(v), world[v], obj.exists, made) /\ end \in PodPhases
      BY DEF SoundInv, PodPhases
    <3> QED
      BY <3>1, SoundPodEnds, Zenon
  <2> HIDE DEF c
  <2>4. \A u \in VMs : Sound(PhaseOf(u), ResOf(u), world'[u], obj.exists, made)
    BY <1>4, <2>2, <2>3, Zenon DEF SoundInv
  <2>5. PerVM(world)'
    BY <1>4, <2>2, Zenon DEF PerVM
  <2> QED
    BY <1>3, <2>1, <2>4, <2>5
<1>7. CASE UNCHANGED allVars
  BY <1>7, Zenon DEF allVars, vars, pipelineVars, CalmInv, PerVM, SoundInv, PhaseOf, ResOf
<1>8. CASE CutoverComes \/ \E v \in VMs : GuestWrites(v)
  BY <1>7, <1>8, Zenon DEF CutoverComes, GuestWrites
<1>9. CASE UNCHANGED warmAllVars
  BY <1>7, <1>9 DEF warmAllVars
<1> QED
  BY <1>1, <1>2, <1>5, <1>6, <1>8, <1>9 DEF WarmNext, WarmController
=============================================================================
