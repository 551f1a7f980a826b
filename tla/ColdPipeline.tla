---------------------------- MODULE ColdPipeline ----------------------------
(***************************************************************************)
(* The cold migration pipeline: the source is powered off, and its disks   *)
(* are exported as images and imported into DataVolumes                    *)
(* (src/internal/controller/migration_controller.go).                      *)
(***************************************************************************)
EXTENDS Pipeline

ASSUME ColdAssumption == PlanTypes = {"cold"}

phaseCreateSnapshot ==
  LET n == IF Res.snap = 0 THEN 1 ELSE 0
      r == [Res EXCEPT !.snap = IF n = 1 THEN made + 1 ELSE @]
      w == [Src EXCEPT !.snaps = @ \cup {r.snap}]
  IN  /\ At("CreateSnapshot")
      /\ \/ /\ made + n <= MaxMade
            /\ made' = made + n
            /\ Completed(r, w) \/ (n = 1 /\ FailedWithEffect(Res, w))
         \/ n = 1 /\ FailedCall(Res, Src) /\ UNCHANGED made
      /\ UNCHANGED <<objRes, cacheRes, secret, crashes>>

\* The images not yet in the status, one per data disk, and what making k of
\* them does.
MissingImages == IF D > Cardinality(Res.imgs) THEN D - Cardinality(Res.imgs) ELSE 0
NewImages(k) == made + 1 .. made + k
ResWithImages(k) == [Res EXCEPT !.imgs = @ \cup NewImages(k)]
SrcWithImages(k) == [Src EXCEPT !.imgs = @ \cup NewImages(k)]

\* Mutant: the UUIDs enter the status only when all images are made.
recordImagesAtEnd ==
  /\ At("ExportDisks")
  /\ \E k \in 0 .. MissingImages :
       /\ made + k <= MaxMade
       /\ made' = made + k
       /\ IF k = MissingImages THEN Completed(ResWithImages(k), SrcWithImages(k))
                               ELSE FailedCall(Res, SrcWithImages(k))
  /\ UNCHANGED <<objRes, cacheRes, secret, crashes>>

\* The handler may fail before the first image, or after any but the last.
phaseExportDisks ==
  /\ At("ExportDisks")
  /\ \E k \in 0 .. MissingImages :
       /\ made + k <= MaxMade
       /\ made' = made + k
       /\ \/ /\ k = MissingImages
             /\ Completed(ResWithImages(k), SrcWithImages(k))
          \/ /\ k < MissingImages \/ k = 0
             /\ FailedCall(ResWithImages(k), SrcWithImages(k))
          \/ /\ k > 0
             /\ FailedWithEffect(ResWithImages(k - 1), SrcWithImages(k))
  /\ UNCHANGED <<objRes, cacheRes, secret, crashes>>

\* The status with the first n DataVolumes in it; the cluster once those not
\* yet in the status are created (one that exists already will do); and all
\* the status will name.
ResWithDVs(n) == [Res EXCEPT !.dvs = n]
SrcWithDVs(n) ==
  [Src EXCEPT !.dvs = [d \in Disks |->
     IF d > Res.dvs /\ d <= n /\ @[d] = "None" THEN "Importing" ELSE @[d]]]
\* Mutant: the disks that have a DataVolume are not passed over.
appendAgain == Res.dvs + Cardinality(Res.imgs)

AllDVs ==
  IF Res.dvs < Cardinality(Res.imgs) THEN Cardinality(Res.imgs) ELSE Res.dvs
Polled == {SrcWithDVs(AllDVs).dvs[d] : d \in 1 .. AllDVs}
ImportedSoFar == ResWithDVs(AllDVs)

\* Mutants: one DataVolume that has succeeded is enough; one that is missing
\* is passed over.
pollAny ==
  /\ At("ImportDisks")
  /\ secret' = TRUE
  /\ IF "Succeeded" \in Polled
       THEN Completed(ImportedSoFar, SrcWithDVs(AllDVs))
       ELSE NotYet(ImportedSoFar, SrcWithDVs(AllDVs))
  /\ UNCHANGED <<objRes, cacheRes, made, crashes>>

passOverMissing ==
  /\ At("ImportDisks")
  /\ secret' = TRUE
  /\ \/ "Failed" \in Polled /\ Failed(ImportedSoFar, SrcWithDVs(AllDVs))
     \/ IF Polled \subseteq {"Succeeded", "None"}
          THEN Completed(ImportedSoFar, SrcWithDVs(AllDVs))
          ELSE NotYet(ImportedSoFar, SrcWithDVs(AllDVs))
  /\ UNCHANGED <<objRes, cacheRes, made, crashes>>

\* The secret is ensured, the DataVolumes are created, and all that the
\* status names are polled: one that is missing counts as not ready.
phaseImportDisks ==
  /\ At("ImportDisks")
  /\ \/ FailedCall(Res, Src) /\ UNCHANGED secret
     \/ /\ secret' = TRUE
        /\ \/ \E n \in Res.dvs .. AllDVs :
                \/ FailedCall(ResWithDVs(n), SrcWithDVs(n))
                \/ n < AllDVs /\ FailedWithEffect(ResWithDVs(n), SrcWithDVs(n + 1))
           \/ "Failed" \in Polled /\ Failed(ImportedSoFar, SrcWithDVs(AllDVs))
           \/ /\ Polled \subseteq {"Succeeded"}
              /\ Completed(ImportedSoFar, SrcWithDVs(AllDVs))
           \/ /\ "Failed" \notin Polled /\ ~(Polled \subseteq {"Succeeded"})
              /\ NotYet(ImportedSoFar, SrcWithDVs(AllDVs))
  /\ UNCHANGED <<objRes, cacheRes, made, crashes>>

executePhase ==
  \/ SharedPhase
  \/ phaseCreateSnapshot
  \/ phaseExportDisks
  \/ phaseImportDisks

ColdController ==
  \/ ReconcileOnly
  \/ PipelineBeginPass
  \/ executePhase
  \/ PipelineSaveStatus
  \/ PipelineLoseStatus

ColdNext ==
  PipelineUser \/ PipelineCrash \/ PipelineDeliver \/ ColdController \/ PipelineCloud

ColdSpec == PipelineInit /\ [][ColdNext]_allVars

\* Hooks end, the cloud does its work, the operator runs.  An import that
\* cannot read its image may be retried for ever.
HookAnswered(v) == idx = v /\ memFresh /\ runHook /\ ~PhaseWaits

ColdFairness ==
  /\ WF_allVars(ColdController)
  /\ WF_allVars(PipelineDeliver)
  /\ \A v \in VMs : /\ SF_allVars(HookAnswered(v))
                    /\ WF_allVars(PowerSettles(v))
                    /\ WF_allVars(KubeVirtVMSeen(v))
                    /\ \A d \in Disks : WF_allVars(ImportPossible(v) /\ ImportEnds(v, d))

ColdFairSpec == ColdSpec /\ ColdFairness

----------------------------------------------------------------------------
(* Properties.                                                             *)

\* phaseExportDisks never exports a disk of a VM that may still write to it,
\* even in a pass that repeats what was lost.
ImagesOfStoppedSource ==
  [][ \A v \in VMs : world'[v].imgs \ world[v].imgs # {} =>
        world[v].power = "OFF" ]_allVars
=============================================================================
