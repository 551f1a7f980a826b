---------------------------- MODULE WarmPipeline ----------------------------
(***************************************************************************)
(* The warm migration pipeline: the disks of the running source are copied *)
(* in rounds, until the cutover stops it for the last one                  *)
(* (src/internal/controller/migration_controller.go, from phaseBulkCopy;   *)
(* src/internal/transfer/delta.go).                                        *)
(*                                                                         *)
(* The content of a disk is the number of writes it has seen.              *)
(* A recovery point holds the contents of all disks when it was made, an   *)
(* image the content its disk had when it was exported: the export reads   *)
(* the VM's disk, not the recovery point.                                  *)
(***************************************************************************)
EXTENDS Pipeline

CONSTANTS
  MaxRounds,   \* plan.spec.warmConfig.maxPrecopyRounds
  MaxWrites    \* bound: writes to the disks of each VM

ASSUME WarmAssumption ==
  /\ PlanTypes = {"warm"}
  /\ MaxRounds \in Nat /\ MaxWrites \in Nat

VARIABLES
  disk,      \* per VM: contents of the source's disks
  content,   \* contents of each recovery point and image ever made
  target,    \* per VM: what its volumes hold, once imported
  due,       \* spec.cutover has passed
  handed,    \* history, per VM: the contents that an import, or a delta pod
             \*   that has succeeded, was given to write
  caught     \* history: the VMs with a round open when the cutover came

warmVars == <<disk, content, target, due, handed, caught>>
warmAllVars == <<allVars, warmVars>>

NoWrites == [d \in Disks |-> 0]

WarmInit ==
  /\ PipelineInit
  /\ disk = [v \in VMs |-> NoWrites]
  /\ content = [i \in 1 .. MaxMade |-> NoWrites]
  /\ target = [v \in VMs |-> NoWrites]
  /\ due = FALSE
  /\ handed = [v \in VMs |-> NoWrites]
  /\ caught = {}

----------------------------------------------------------------------------
(* A handler makes the recovery point snap stands for if the status has    *)
(* none, and then the images that are missing, in the order of the disks.  *)
(* j is the number of these it gets to make.                               *)

Needed(snap) == IF snap = 0 THEN 1 ELSE 0
Missing(imgs) == IF D > Cardinality(imgs) THEN D - Cardinality(imgs) ELSE 0
ToMake(snap, imgs) == Needed(snap) + Missing(imgs)

SnapMade(snap, j) == IF snap = 0 /\ j > 0 THEN {made + 1} ELSE {}
SnapAfter(snap, j) == IF snap = 0 /\ j > 0 THEN made + 1 ELSE snap
ImagesMade(snap, j) == made + Needed(snap) + 1 .. made + j
ImageOf(imgs, d) == CHOOSE i \in imgs : Cardinality({k \in imgs : k <= i}) = d

SrcAfter(snap, j) ==
  [Src EXCEPT !.snaps = @ \cup SnapMade(snap, j),
              !.imgs = @ \cup ImagesMade(snap, j)]

\* The guest may write while a handler is at work.
WritesTo(v) == {w \in Disks \X (1 .. MaxWrites) : w[2] <= disk[v][w[1]]}
Written(v) ==
  {[disk[v] EXCEPT ![d] = @ + 1] : d \in {e \in Disks : Cardinality(WritesTo(v)) < MaxWrites}}
Meanwhile(v) == {disk[v]} \cup (IF world[v].power = "OFF" THEN {} ELSE Written(v))

\* Mutant: the images are exported before the recovery point is made.
exportFirst(snap, j, now) ==
  /\ made + j <= MaxMade
  /\ made' = made + j
  /\ content' = [i \in 1 .. MaxMade |->
                   IF i \in SnapMade(snap, j) THEN now
                   ELSE IF i \in ImagesMade(snap, j) THEN disk[idx] ELSE content[i]]
  /\ disk' = [disk EXCEPT ![idx] = now]

snapshotAndExport(snap, j, now) ==
  /\ made + j <= MaxMade
  /\ made' = made + j
  /\ content' = [i \in 1 .. MaxMade |->
                   IF i \in SnapMade(snap, j) THEN disk[idx]
                   ELSE IF i \in ImagesMade(snap, j) THEN now ELSE content[i]]
  /\ disk' = [disk EXCEPT ![idx] = now]

----------------------------------------------------------------------------
(* The bulk copy.                                                          *)

NewDVs(r, w, n) == {d \in r.dvs + 1 .. n : w.dvs[d] = "None"}
WithDVs(r, w, n) ==
  [w EXCEPT !.dvs = [d \in Disks |-> IF d \in NewDVs(r, w, n) THEN "Importing"
                                     ELSE @[d]]]
Filled(r, w, n, old) ==
  [d \in Disks |-> IF d \in NewDVs(r, w, n) THEN content'[ImageOf(r.imgs, d)][d]
                   ELSE old[d]]
Fill(r, w, n) ==
  /\ target' = [target EXCEPT ![idx] = Filled(r, w, n, @)]
  /\ handed' = [handed EXCEPT ![idx] = Filled(r, w, n, @)]

InitializeWarm(r, w) ==
  Completed([r EXCEPT !.warm = [@ EXCEPT !.base = r.snap, !.baseImgs = r.imgs]], w)

\* The handler may fail at the secret or at any DataVolume.
createDataVolumes(r, w) ==
  \/ FailedCall(r, w) /\ UNCHANGED <<secret, target, handed>>
  \/ /\ secret' = TRUE
     /\ \E n \in r.dvs .. D :
          \/ Fill(r, w, n) /\ FailedCall([r EXCEPT !.dvs = n], WithDVs(r, w, n))
          \/ /\ n < D
             /\ Fill(r, w, n + 1)
             /\ FailedWithEffect([r EXCEPT !.dvs = n], WithDVs(r, w, n + 1))
          \/ /\ n = D
             /\ Fill(r, w, n)
             /\ InitializeWarm([r EXCEPT !.dvs = n], WithDVs(r, w, n))

BulkAfter(j) ==
  [Res EXCEPT !.snap = SnapAfter(Res.snap, j),
              !.imgs = @ \cup ImagesMade(Res.snap, j)]

phaseBulkCopy ==
  /\ At("BulkCopy")
  /\ \E j \in 0 .. ToMake(Res.snap, Res.imgs), now \in Meanwhile(idx) :
       LET w == SrcAfter(Res.snap, j)
       IN  /\ snapshotAndExport(Res.snap, j, now)
           /\ \/ /\ FailedCall(BulkAfter(j), w)
                 /\ UNCHANGED <<secret, target, handed>>
              \/ /\ j > 0 /\ FailedWithEffect(BulkAfter(j - 1), w)
                 /\ UNCHANGED <<secret, target, handed>>
              \/ /\ j = ToMake(Res.snap, Res.imgs)
                 /\ createDataVolumes(BulkAfter(j), w)
  /\ UNCHANGED <<objRes, cacheRes, crashes, due, caught>>

\* One that is missing counts as not ready.
pollDataVolumes ==
  LET polled == {Src.dvs[d] : d \in 1 .. Res.dvs}
  IN  \/ (Fault("CallError") \/ "Failed" \in polled) /\ Failed(Res, Src)
      \/ polled \subseteq {"Succeeded"} /\ Completed(Res, Src)
      \/ /\ "Failed" \notin polled /\ ~(polled \subseteq {"Succeeded"})
         /\ NotYet(Res, Src)

\* Mutant: the rounds start while the volumes are still being filled.
skipWait ==
  /\ At("WaitBulkCopy")
  /\ Completed(Res, Src)
  /\ UNCHANGED <<objRes, cacheRes, secret, made, crashes, warmVars>>

phaseWaitBulkCopy ==
  /\ At("WaitBulkCopy")
  /\ pollDataVolumes
  /\ UNCHANGED <<objRes, cacheRes, secret, made, crashes, warmVars>>

----------------------------------------------------------------------------
(* The rounds.                                                             *)

Warm == Res.warm

\* What the operator reads of the pod the status names: its cache may not
\* have it yet, and the read may fail.
getPodPhase(name) ==
  {p.phase : p \in {q \in Src.pods : q.name = name}}
    \cup (IF May("StaleRead") \/ Fault("CallError") \/ \A q \in Src.pods : q.name # name
          THEN {"Unknown"} ELSE {})

\* Mutant: the next pass starts the same disk again.
samePodAgain ==
  \E phase \in getPodPhase(Warm.pod) :
    \/ /\ phase = "Succeeded"
       /\ NotYet([Res EXCEPT !.warm.pod = NoPod],
                 [Src EXCEPT !.pods = WithoutPods(Src, {Warm.pod})])
    \/ phase = "Failed" /\ Failed(Res, Src)
    \/ phase \in {"Pending", "Unknown"} /\ NotYet(Res, Src)

checkDeltaPod ==
  \E phase \in getPodPhase(Warm.pod), gone \in BestEffort({Warm.pod}) :
    LET w == [Src EXCEPT !.pods = WithoutPods(Src, gone)]
    IN  \/ /\ phase = "Succeeded"
           /\ \/ NotYet([Res EXCEPT !.warm.pod = NoPod, !.warm.disk = @ + 1], w)
              \/ FailedCall([Res EXCEPT !.warm.pod = NoPod], w)
        \/ phase = "Failed" /\ Failed(Res, Src)
        \/ phase \in {"Pending", "Unknown"} /\ NotYet(Res, Src)

\* Mutant: the old base is not deleted.
promoteOnly(r, w) ==
  NotYet([r EXCEPT !.warm = [NoWarm EXCEPT !.base = r.warm.delta,
                                           !.baseImgs = r.warm.deltaImgs,
                                           !.rounds = r.warm.rounds + 1]], w)

finalizePrecopyRound(r, w) ==
  \E snaps \in BestEffort({r.warm.base}), imgs \in BestEffort(r.warm.baseImgs) :
    NotYet([r EXCEPT !.warm = [NoWarm EXCEPT !.base = r.warm.delta,
                                             !.baseImgs = r.warm.deltaImgs,
                                             !.rounds = r.warm.rounds + 1]],
           [w EXCEPT !.snaps = @ \ snaps, !.imgs = @ \ imgs])

\* Mutant: the resources of the last round are not deleted.
keepLastRound(r, w) ==
  Completed([r EXCEPT !.warm = [@ EXCEPT !.delta = 0, !.deltaImgs = {}, !.disk = 0]],
            [w EXCEPT !.snaps = @ \ {r.warm.base}, !.imgs = @ \ r.warm.baseImgs])

finalizeFinalSync(r, w) ==
  \E snaps \in BestEffort({r.warm.base, r.warm.delta}),
     imgs \in BestEffort(r.warm.baseImgs \cup r.warm.deltaImgs) :
    Completed([r EXCEPT !.warm = [@ EXCEPT !.delta = 0, !.deltaImgs = {}, !.disk = 0]],
              [w EXCEPT !.snaps = @ \ snaps, !.imgs = @ \ imgs])

\* The callback each phase passes to runDeltaRound; precopy rounds count from 1.
FinalRound == 0
onComplete(round, r, w) ==
  IF round = FinalRound THEN finalizeFinalSync(r, w) ELSE finalizePrecopyRound(r, w)

\* A pod of the same name is left as it is.
BuildDeltaPod(name, img, w) ==
  IF \E p \in w.pods : p.name = name THEN w
  ELSE [w EXCEPT !.pods = @ \cup {[name |-> name, img |-> img, phase |-> "Pending"]}]

\* The changes between base and delta are asked for of both recovery points.
CBTPossible(r, w) == {r.warm.base, r.warm.delta} \subseteq w.snaps
Changed(r, d) == content'[r.warm.delta][d] # content'[r.warm.base][d]

\* One disk after the other: one that has not changed is passed over, for one
\* that has a pod is created.
transferDisk(round, r, w) ==
  LET d == r.warm.disk + 1
      name == <<round, d>>
      created == BuildDeltaPod(name, ImageOf(r.warm.deltaImgs, d), w)
      passed == [r EXCEPT !.warm.disk = d]
  IN  \/ d > D /\ onComplete(round, r, w)
      \/ /\ d <= D
         /\ Fault("CallError") \/ ~CBTPossible(r, w)
         /\ Failed(r, w)
      \/ /\ d <= D /\ CBTPossible(r, w) /\ ~Changed(r, d)
         /\ IF d = D THEN onComplete(round, passed, w) ELSE NotYet(passed, w)
      \/ /\ d <= D /\ CBTPossible(r, w) /\ Changed(r, d)
         /\ \/ NotYet([r EXCEPT !.warm.pod = name], created)
            \/ FailedWithEffect(r, created)

DeltaAfter(j) ==
  [Res EXCEPT !.warm =
     [Warm EXCEPT !.delta = SnapAfter(Warm.delta, j),
                  !.deltaImgs = Warm.deltaImgs \cup ImagesMade(Warm.delta, j)]]

runDeltaRound(round) ==
  /\ \E j \in 0 .. ToMake(Warm.delta, Warm.deltaImgs), now \in Meanwhile(idx) :
       LET w == SrcAfter(Warm.delta, j)
       IN  /\ snapshotAndExport(Warm.delta, j, now)
           /\ \/ FailedCall(DeltaAfter(j), w)
              \/ j > 0 /\ FailedWithEffect(DeltaAfter(j - 1), w)
              \/ /\ j = ToMake(Warm.delta, Warm.deltaImgs)
                 /\ transferDisk(round, DeltaAfter(j), w)
  /\ UNCHANGED <<target, handed>>

\* Warm is set by phaseBulkCopy, and saved with the phase that follows it.
WarmNil == Warm.base = 0

\* A round that has begun is left open.
cutover ==
  \/ "Pending" \in getPodPhase(Warm.pod) /\ NotYet(Res, Src)
  \/ getPodPhase(Warm.pod) # {"Pending"} /\ Completed(Res, Src)

\* The interval between two rounds may not have passed.
IntervalWait == Warm.rounds > 0 /\ Warm.delta = 0

phasePrecopy ==
  /\ At("Precopy")
  /\ IF WarmNil THEN Failed(Res, Src) /\ UNCHANGED <<made, disk, content, target, handed>>
     ELSE \/ /\ \/ due /\ cutover
                \/ ~due /\ Warm.pod # NoPod /\ checkDeltaPod
                \/ /\ ~due /\ Warm.pod = NoPod
                   /\ Warm.rounds >= MaxRounds \/ IntervalWait
                   /\ NotYet(Res, Src)
             /\ UNCHANGED <<made, disk, content, target, handed>>
          \/ /\ ~due /\ Warm.pod = NoPod /\ Warm.rounds < MaxRounds
             /\ runDeltaRound(Warm.rounds + 1)
  /\ UNCHANGED <<objRes, cacheRes, secret, crashes, due, caught>>

phaseFinalSync ==
  /\ At("FinalSync")
  /\ IF WarmNil THEN Failed(Res, Src) /\ UNCHANGED <<made, disk, content, target, handed>>
     ELSE \/ /\ Warm.pod # NoPod /\ checkDeltaPod
             /\ UNCHANGED <<made, disk, content, target, handed>>
          \/ Warm.pod = NoPod /\ runDeltaRound(FinalRound)
  /\ UNCHANGED <<objRes, cacheRes, secret, crashes, due, caught>>

executePhase ==
  \/ SharedPhase /\ UNCHANGED warmVars
  \/ phaseBulkCopy
  \/ phaseWaitBulkCopy
  \/ phasePrecopy
  \/ phaseFinalSync

WarmController ==
  \/ executePhase
  \/ /\ \/ ReconcileOnly \/ PipelineBeginPass
        \/ PipelineSaveStatus \/ PipelineLoseStatus
     /\ UNCHANGED warmVars

----------------------------------------------------------------------------
(* The guest, the clock and the pods.                                      *)

GuestWrites(v) ==
  /\ world[v].power # "OFF"
  /\ \E now \in Written(v) : disk' = [disk EXCEPT ![v] = now]
  /\ UNCHANGED <<allVars, content, target, due, handed, caught>>

RoundOpen(v) == ResOf(v).warm.delta # 0

CutoverComes ==
  /\ ~due
  /\ due' = TRUE
  /\ caught' = {v \in VMs : RoundOpen(v)}
  /\ UNCHANGED <<allVars, disk, content, target, handed>>

\* The pod needs the secret to start, and is not restarted.  Its list has one
\* region or more, and no newline at its end: read takes the last line for the
\* end of the file, and for any other line dd is told to write to the directory
\* the volume is mounted at, and fails.  So a pod with one region succeeds, one
\* with more fails, and neither writes anything.
PodEnds(v) ==
  \E p \in world[v].pods, end \in {"Succeeded", "Failed"} :
    LET d == p.name[2]
    IN  /\ p.phase = "Pending" /\ secret /\ world[v].dvs[d] = "Succeeded"
        /\ world' = [world EXCEPT ![v].pods = (@ \ {p}) \cup {[p EXCEPT !.phase = end]}]
        /\ handed' = IF end = "Succeeded"
                     THEN [handed EXCEPT ![v][d] = content[p.img][d]] ELSE handed
        /\ UNCHANGED <<vars, resVars, secret, made, crashes, disk, content, target, due, caught>>

WarmNext ==
  \/ WarmController
  \/ (PipelineUser \/ PipelineCrash \/ PipelineDeliver \/ PipelineCloud)
       /\ UNCHANGED warmVars
  \/ \E v \in VMs : GuestWrites(v) \/ PodEnds(v)
  \/ CutoverComes

WarmSpec == WarmInit /\ [][WarmNext]_warmAllVars

\* As for the cold pipeline; and pods end, reads of them do not fail for ever,
\* and the cutover comes.
WarmHookAnswered(v) ==
  idx = v /\ memFresh /\ runHook /\ ~PhaseWaits /\ UNCHANGED warmVars

PodTakenNote(v) ==
  /\ idx = v /\ memFresh /\ Warm.pod # NoPod
  /\ phasePrecopy \/ phaseFinalSync
  /\ memRes' # memRes \/ ~PhaseWaits

WarmFairness ==
  /\ WF_warmAllVars(WarmController)
  /\ WF_warmAllVars(PipelineDeliver /\ UNCHANGED warmVars)
  /\ WF_warmAllVars(CutoverComes)
  /\ \A v \in VMs :
       /\ SF_warmAllVars(WarmHookAnswered(v))
       /\ SF_warmAllVars(PodTakenNote(v))
       /\ WF_warmAllVars(PodEnds(v))
       /\ WF_warmAllVars(PowerSettles(v) /\ UNCHANGED warmVars)
       /\ WF_warmAllVars(KubeVirtVMSeen(v) /\ UNCHANGED warmVars)
       /\ \A d \in Disks : WF_warmAllVars(ImportPossible(v) /\ ImportEnds(v, d)
                                            /\ UNCHANGED warmVars)

WarmFairSpec == WarmSpec /\ WarmFairness

----------------------------------------------------------------------------
(* Properties.                                                             *)

Created(v) == world[v].kv = "None" /\ world'[v].kv # "None"

\* phaseCreateVM: the target is created only after every write to the source,
\* whenever it was made, was in what an import or a succeeded delta pod was
\* given; unless the cutover came in the middle of a round.
EveryWriteHandedOver ==
  [][ \A v \in VMs \ caught : Created(v) => handed[v] = disk[v] ]_warmAllVars

\* The same, whenever the cutover comes: the last round is one of the stopped
\* source.
CutoverLosesNothing ==
  [][ \A v \in VMs : Created(v) => handed[v] = disk[v] ]_warmAllVars

\* The delta pods write what they are given: the target is created from volumes
\* that hold all that was ever written to the source.
TargetUpToDate ==
  [][ \A v \in VMs : Created(v) => target[v] = disk[v] ]_warmAllVars

\* A volume has at most one writer at any time: the import, or one pod.
SingleWriter ==
  \A v \in VMs, d \in Disks :
    LET writers == {p \in world[v].pods : p.phase = "Pending" /\ p.name[2] = d}
    IN  /\ Cardinality(writers) <= 1
        /\ writers # {} => world[v].dvs[d] # "Importing"
=============================================================================
