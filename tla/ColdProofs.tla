----------------------------- MODULE ColdProofs -----------------------------
(***************************************************************************)
(* Proofs about ColdPipeline, for every number of VMs and of disks and     *)
(* every combination of faults: the pipeline is the controller of          *)
(* Migration with effects, and every step of it keeps what ColdTheorems    *)
(* states of a run.                                                        *)
(***************************************************************************)
EXTENDS ColdPipeline, PipelineProofs

----------------------------------------------------------------------------
(* Every step of the pipeline is a step of the controller, or a stutter.   *)

LEMMA PhaseIsController == executePhase => Controller
  BY Zenon DEF executePhase, SharedPhase, runHook, phaseStorePowerState, phasePowerOff,
    phaseWaitForPowerOff, phaseCreateSnapshot, phaseExportDisks,
    phaseImportDisks, phaseCreateVM, phaseStartVM, phaseCleanup,
    FailedCall, FailedWithEffect, Completed, NotYet, Failed, Controller

LEMMA ColdStep == [ColdNext]_allVars => [Next]_vars
<1> SUFFICES ASSUME [ColdNext]_allVars PROVE [Next]_vars
  OBVIOUS
<1>1. CASE PipelineUser
  BY <1>1 DEF PipelineUser, Next, Environment
<1>2. CASE PipelineCrash
  BY <1>2 DEF PipelineCrash, Next, Environment
<1>3. CASE PipelineDeliver
  BY <1>3 DEF PipelineDeliver, Next
<1>4. CASE ColdController
  BY <1>4, PhaseIsController DEF ColdController, ReconcileOnly, PipelineBeginPass,
    PipelineSaveStatus, PipelineLoseStatus, Next, Controller
<1>5. CASE PipelineCloud
  BY <1>5, Zenon DEF PipelineCloud, PowerSettles, KubeVirtVMSeen, ImportEnds,
    GarbageCollect
<1>6. CASE UNCHANGED allVars
  BY <1>6 DEF allVars
<1> QED
  BY <1>1, <1>2, <1>3, <1>4, <1>5, <1>6 DEF ColdNext

\* The cold pipeline, with everything it does to Prism and to the cluster,
\* is the controller of Migration: its phase handlers answer only what
\* executePhase's caller expects.
THEOREM ColdIsMigration == ColdSpec => Spec
<1>1. PipelineInit => Init
  BY DEF PipelineInit
<1> QED
  BY <1>1, ColdStep, PTL DEF ColdSpec, Spec

----------------------------------------------------------------------------
(* Images are made of stopped sources.                                     *)

Worlds ==
  [was : {"ON", "OFF"}, power : {"ON", "STOPPING", "OFF"},
   snaps : SUBSET (1 .. MaxMade), imgs : SUBSET (1 .. MaxMade),
   dvs : [Disks -> {"None", "Importing", "Succeeded", "Failed"}],
   pods : {{}}, kv : {"None", "Stopped", "Running"}, kvSeen : BOOLEAN]
Images == {S \in SUBSET (1 .. MaxMade) : Cardinality(S) <= D}
Fields == [orig : {"", "ON", "OFF"}, snap : 0 .. MaxMade, imgs : Images,
           dvs : 0 .. D, warm : {NoWarm}]

EffectTypes ==
  /\ objRes \in [VMs -> Fields]
  /\ cacheRes \in [VMs -> Fields]
  /\ memRes \in [VMs -> Fields]
  /\ world \in [VMs -> Worlds]
  /\ made \in 0 .. MaxMade

\* The phases between the look at the power state and the last export.  No
\* handler of theirs waits, so they are never saved.
Exporting == {"CreateSnapshot", "ExportDisks"}

NotExporting(o) == \A v \in VMs : o.vms[v] \notin Exporting

StoppedInv ==
  /\ NotExporting(obj)
  /\ NotExporting(cache)
  /\ \A v \in VMs : mem.vms[v] \in Exporting =>
       /\ pc = "pass" /\ idx = v
       /\ world[v].power = "OFF"

\* What a handler never takes back: images in the status are old or new ones,
\* the DataVolumes it names stay named, a VM whose DataVolumes are all named
\* gets no other, a stopped source stays off.  Only CreateVM and StartVM touch
\* the target.
Keeps(r, w) ==
  /\ made <= made' /\ r.imgs \subseteq Res.imgs \cup (made + 1 .. made')
  /\ Res.dvs <= r.dvs
  /\ Res.dvs = D => w.dvs = Src.dvs
  /\ w.kvSeen = Src.kvSeen
  /\ \/ w.kv = Src.kv
     \/ mem.vms[idx] = "CreateVM" /\ Src.kv = "None" /\ w.kv = "Stopped"
     \/ mem.vms[idx] = "StartVM" /\ Src.kvSeen /\ w.kv = "Running"
  /\ Src.power = "OFF" => w.power = "OFF"

\* When a handler answers Completed: the source is off, there is an image per
\* disk, every disk is imported.
Done(r, w) ==
  /\ mem.vms[idx] = "WaitForPowerOff" => Src.power = "OFF"
  /\ mem.vms[idx] = "ExportDisks" /\ Res.imgs \subseteq 1 .. made => Cardinality(r.imgs) = D
  /\ mem.vms[idx] = "ImportDisks" /\ Cardinality(Res.imgs) = D =>
       \A d \in Disks : w.dvs[d] = "Succeeded"

\* How the handler of the VM at idx leaves the world: only ExportDisks adds
\* images, only PowerOff changes the power state.
Effect(r, w) ==
  /\ r \in Fields /\ w \in Worlds
  /\ w.imgs \subseteq Src.imgs \/ mem.vms[idx] = "ExportDisks"
  /\ w.power = Src.power \/ mem.vms[idx] = "PowerOff"
  /\ Keeps(r, w)
  /\ \/ Completed(r, w) /\ Done(r, w)
     \/ /\ NotYet(r, w)
        /\ mem.vms[idx] = "ImportDisks" /\ Cardinality(Res.imgs) = D =>
             r.imgs = Res.imgs /\ r.dvs = D
     \/ Failed(r, w)

\* What is used of the sizes of sets of objects.
Counted ==
  /\ Cardinality({}) = 0
  /\ \A i, k \in Nat : Cardinality(i + 1 .. i + k) = k
  /\ \A S \in SUBSET (1 .. MaxMade) : Cardinality(S) \in Nat
  /\ \A S, T \in SUBSET (1 .. MaxMade) :
       Cardinality(S \cup T) = Cardinality(S) + Cardinality(T) - Cardinality(S \cap T)

LEMMA ImagesFinite ==
  ASSUME Counted, NEW S \in Images
  PROVE  Cardinality(S) \in 0 .. D
  BY DAssumption DEF Images, Counted

LEMMA NoResType ==
  ASSUME Counted
  PROVE  NoRes \in [VMs -> Fields]
<1>1. {} \in Images
  BY DAssumption DEF Images, Counted
<1>2. 0 \in 0 .. MaxMade /\ 0 \in 0 .. D
  BY BoundsAssumption, DAssumption
<1> QED
  BY <1>1, <1>2 DEF NoRes, Fields

LEMMA AtFacts ==
  ASSUME IInv, EffectTypes, AtPhase
  PROVE  Res \in Fields /\ Src \in Worlds /\ idx \in VMs
  BY HandledVM DEF EffectTypes, Res, Src

LEMMA KeepsStatus ==
  ASSUME EffectTypes, Res \in Fields, NEW r, NEW w, made <= made', r.imgs = Res.imgs,
         r.dvs = Res.dvs, w.dvs = Src.dvs, w.kv = Src.kv, w.kvSeen = Src.kvSeen,
         Src.power = "OFF" => w.power = "OFF"
  PROVE  Keeps(r, w)
<1>1. Res.dvs <= Res.dvs
  <2>1. Res.dvs \in 0 .. D
    BY DEF Fields
  <2> QED
    BY <2>1, DAssumption
<1> QED
  BY <1>1 DEF Keeps

LEMMA SourcePhaseEffect ==
  ASSUME IInv, EffectTypes,
         runHook \/ phaseStorePowerState \/ phasePowerOff
           \/ phaseWaitForPowerOff
  PROVE  (\E r \in Fields, w \in Worlds : Effect(r, w)) /\ UNCHANGED made
<1> USE DEF FailedCall, FailedWithEffect, At
<1>0. Res \in Fields /\ Src \in Worlds
  BY AtFacts DEF runHook, phaseStorePowerState, phasePowerOff,
    phaseWaitForPowerOff
<1>a. made <= made'
  <2>1. made' = made
    BY DEF runHook, phaseStorePowerState, phasePowerOff, phaseWaitForPowerOff
  <2> QED
    BY <2>1, BoundsAssumption DEF EffectTypes
<1>b. Keeps(Res, Src)
  BY <1>0, <1>a, KeepsStatus
<1>1. CASE runHook
  <2>1. Effect(Res, Src)
    BY <1>0, <1>b, <1>1 DEF runHook, Effect, Done
  <2> QED
    BY <1>0, <1>1, <2>1 DEF runHook
<1>2. CASE phaseStorePowerState
  <2> DEFINE seen == IF Res.orig = "" THEN IF Src.power = "OFF" THEN "OFF" ELSE "ON"
                     ELSE Res.orig
             r == [Res EXCEPT !.orig = seen]
  <2>1. r \in Fields /\ r.imgs = Res.imgs /\ r.dvs = Res.dvs
    <3>1. seen \in {"", "ON", "OFF"}
      BY <1>0 DEF Fields
    <3> QED
      BY <1>0, <3>1 DEF Fields
  <2>2. Completed(r, Src) \/ Failed(Res, Src)
    BY <1>2 DEF phaseStorePowerState
  <2>3. mem.vms[idx] = "StorePowerState"
    BY <1>2 DEF phaseStorePowerState
  <2> HIDE DEF r
  <2>a. Keeps(r, Src)
    BY <1>0, <1>a, <2>1, KeepsStatus
  <2>4. Effect(r, Src) \/ Effect(Res, Src)
    BY <1>0, <1>b, <2>a, <2>1, <2>2, <2>3 DEF Effect, Done
  <2> QED
    BY <1>0, <1>2, <2>1, <2>4 DEF phaseStorePowerState
<1>3. CASE phasePowerOff
  <2> DEFINE off == [Src EXCEPT !.power = IF Src.power = "ON" THEN "STOPPING" ELSE Src.power]
  <2>1. /\ off \in Worlds /\ off.imgs = Src.imgs /\ off.dvs = Src.dvs
        /\ off.kv = Src.kv /\ off.kvSeen = Src.kvSeen /\ (Src.power = "OFF" => off.power = "OFF")
    <3>1. (IF Src.power = "ON" THEN "STOPPING" ELSE Src.power) \in {"ON", "STOPPING", "OFF"}
      BY <1>0 DEF Worlds
    <3> QED
      BY <1>0, <3>1 DEF Worlds
  <2>2. \/ Completed(Res, Src) \/ Completed(Res, off)
        \/ Failed(Res, Src) \/ Failed(Res, off)
    BY <1>3 DEF phasePowerOff
  <2>3. mem.vms[idx] = "PowerOff"
    BY <1>3 DEF phasePowerOff
  <2> HIDE DEF off
  <2>a. Keeps(Res, off)
    BY <1>0, <1>a, <2>1, KeepsStatus
  <2>4. Effect(Res, Src) \/ Effect(Res, off)
    BY <1>0, <1>b, <2>a, <2>1, <2>2, <2>3 DEF Effect, Done
  <2> QED
    BY <1>0, <1>3, <2>1, <2>4 DEF phasePowerOff
<1>4. CASE phaseWaitForPowerOff
  <2>1. Effect(Res, Src)
    BY <1>0, <1>b, <1>4 DEF phaseWaitForPowerOff, Effect, Done
  <2> QED
    BY <1>0, <1>4, <2>1 DEF phaseWaitForPowerOff
<1> QED
  BY <1>1, <1>2, <1>3, <1>4

LEMMA CreateSnapshotEffect ==
  ASSUME IInv, EffectTypes, phaseCreateSnapshot
  PROVE  (\E r \in Fields, w \in Worlds : Effect(r, w)) /\ made' \in 0 .. MaxMade
<1> DEFINE n == IF Res.snap = 0 THEN 1 ELSE 0
           s == IF n = 1 THEN made + 1 ELSE Res.snap
           r == [Res EXCEPT !.snap = s]
           w == [Src EXCEPT !.snaps = Src.snaps \cup {r.snap}]
<1>0. Res \in Fields /\ Src \in Worlds /\ made \in 0 .. MaxMade
  BY AtFacts DEF phaseCreateSnapshot, At, EffectTypes
<1>1. CASE Failed(Res, Src) /\ made' = made
  <2>1. Keeps(Res, Src)
    <3>1. made <= made'
      BY <1>0, <1>1, BoundsAssumption
    <3> QED
      BY <1>0, <3>1, KeepsStatus
  <2>2. Effect(Res, Src)
    BY <1>0, <1>1, <2>1 DEF Effect
  <2> QED
    BY <1>0, <1>1, <2>2
<1>2. CASE /\ made + n <= MaxMade /\ made' = made + n
           /\ Completed(r, w) \/ Failed(Res, w)
  <2>1. s \in 1 .. MaxMade /\ made' \in 0 .. MaxMade /\ made <= made'
    <3>1. Res.snap \in 0 .. MaxMade
      BY <1>0 DEF Fields
    <3> QED
      BY <1>0, <1>2, <3>1, BoundsAssumption
  <2> HIDE DEF s, n
  <2>2. r \in Fields /\ r.snap = s /\ r.imgs = Res.imgs /\ r.dvs = Res.dvs
    <3>1. s \in 0 .. MaxMade
      BY <2>1
    <3> QED
      BY <1>0, <3>1 DEF Fields
  <2>3. /\ w \in Worlds /\ w.imgs = Src.imgs /\ w.power = Src.power
        /\ w.dvs = Src.dvs /\ w.kv = Src.kv /\ w.kvSeen = Src.kvSeen
    <3>1. Src.snaps \cup {r.snap} \in SUBSET (1 .. MaxMade)
      <4> HIDE DEF r
      <4> QED
        BY <1>0, <2>1, <2>2 DEF Worlds
    <3> HIDE DEF r
    <3> QED
      BY <1>0, <3>1 DEF Worlds
  <2>4. mem.vms[idx] = "CreateSnapshot"
    BY DEF phaseCreateSnapshot, At
  <2> HIDE DEF r, w
  <2>a. Keeps(r, w) /\ Keeps(Res, w)
    BY <1>0, <2>1, <2>2, <2>3, KeepsStatus, Zenon
  <2>5. Effect(r, w) \/ Effect(Res, w)
    BY <1>0, <1>2, <2>a, <2>2, <2>3, <2>4 DEF Effect, Done
  <2> QED
    BY <1>0, <2>1, <2>2, <2>3, <2>5
<1> QED
  BY <1>1, <1>2 DEF phaseCreateSnapshot, FailedCall, FailedWithEffect

LEMMA NewImagesCount ==
  ASSUME Counted, made \in 0 .. MaxMade, NEW k \in Nat
  PROVE  Cardinality(NewImages(k)) = k
<1>1. made \in Nat
  BY BoundsAssumption
<1> QED
  BY <1>1 DEF NewImages, Counted

\* An export leaves at most one image per disk in the status.
LEMMA ImagesBounded ==
  ASSUME Counted, made \in 0 .. MaxMade, NEW k \in Nat, made + k <= MaxMade,
         NEW S \in Images, Cardinality(S) + k <= D
  PROVE  S \cup NewImages(k) \in Images
<1> DEFINE T == NewImages(k)
<1>1. S \in SUBSET (1 .. MaxMade) /\ T \in SUBSET (1 .. MaxMade)
  BY BoundsAssumption DEF Images, NewImages
<1>2. Cardinality(T) = k
  BY NewImagesCount
<1> HIDE DEF T
<1>3. /\ Cardinality(S \cup T) = Cardinality(S) + k - Cardinality(S \cap T)
      /\ Cardinality(S) \in Nat /\ Cardinality(S \cap T) \in Nat
  BY <1>1, <1>2 DEF Counted
<1>4. Cardinality(S \cup T) <= D
  BY <1>3, DAssumption
<1> QED
  BY <1>1, <1>4, Zenon DEF Images, T

LEMMA ExportDisksEffect ==
  ASSUME Counted, IInv, EffectTypes, phaseExportDisks
  PROVE  (\E r \in Fields, w \in Worlds : Effect(r, w)) /\ made' \in 0 .. MaxMade
<1>0. Res \in Fields /\ Src \in Worlds /\ made \in 0 .. MaxMade
  BY AtFacts DEF phaseExportDisks, At, EffectTypes
<1>1. Res.imgs \in Images /\ Src.imgs \in SUBSET (1 .. MaxMade)
  BY <1>0 DEF Fields, Worlds
<1>2. MissingImages \in Nat /\ Cardinality(Res.imgs) + MissingImages = D
  <2>1. Cardinality(Res.imgs) \in 0 .. D
    BY <1>1, ImagesFinite
  <2> QED
    BY <2>1, DAssumption DEF MissingImages
<1>3. PICK k \in 0 .. MissingImages :
        /\ made + k <= MaxMade
        /\ made' = made + k
        /\ \/ k = MissingImages /\ Completed(ResWithImages(k), SrcWithImages(k))
           \/ Failed(ResWithImages(k), SrcWithImages(k))
           \/ k > 0 /\ Failed(ResWithImages(k - 1), SrcWithImages(k))
  BY DEF phaseExportDisks, FailedCall, FailedWithEffect
<1>4. k \in 0 .. k /\ (k > 0 => k - 1 \in 0 .. k) /\ k \in Nat
  BY <1>2
<1>5. SrcWithImages(k) \in Worlds /\ SrcWithImages(k).power = Src.power
      /\ SrcWithImages(k).dvs = Src.dvs /\ SrcWithImages(k).kv = Src.kv
      /\ SrcWithImages(k).kvSeen = Src.kvSeen
  <2>1. Src.imgs \cup NewImages(k) \in SUBSET (1 .. MaxMade)
    BY <1>0, <1>1, <1>3, <1>4, BoundsAssumption DEF NewImages
  <2> QED
    BY <1>0, <2>1 DEF Worlds, SrcWithImages
<1>6. ASSUME NEW j \in 0 .. k
      PROVE  ResWithImages(j) \in Fields /\ Keeps(ResWithImages(j), SrcWithImages(k))
  <2>1. /\ j \in Nat /\ made + j <= MaxMade /\ Cardinality(Res.imgs) + j <= D
        /\ made <= made' /\ made + j <= made' /\ made \in Int
    <3>1. Cardinality(Res.imgs) \in Nat
      BY <1>1, ImagesFinite
    <3> QED
      BY <1>0, <1>2, <1>3, <1>4, <3>1, BoundsAssumption, DAssumption
  <2>2. Res.imgs \cup NewImages(j) \in Images
    BY <1>0, <1>1, <2>1, ImagesBounded
  <2>3. /\ ResWithImages(j) \in Fields /\ ResWithImages(j).dvs = Res.dvs
        /\ ResWithImages(j).imgs = Res.imgs \cup NewImages(j)
    BY <1>0, <2>2 DEF Fields, ResWithImages
  <2>4. made' \in Int
    BY <1>0, <1>3, <1>4, BoundsAssumption
  <2>5. NewImages(j) \subseteq made + 1 .. made'
    BY <2>1, <2>4 DEF NewImages
  <2>6. Res.dvs <= Res.dvs
    <3>1. Res.dvs \in 0 .. D
      BY <1>0 DEF Fields
    <3> QED
      BY <3>1, DAssumption
  <2> QED
    BY <1>5, <2>1, <2>3, <2>5, <2>6 DEF Keeps
<1>7. mem.vms[idx] = "ExportDisks"
  BY DEF phaseExportDisks, At
<1>8. ASSUME k = MissingImages, Res.imgs \subseteq 1 .. made
      PROVE  Cardinality(ResWithImages(k).imgs) = D
  <2>1. ResWithImages(k).imgs = Res.imgs \cup NewImages(k)
    BY <1>0 DEF Fields, ResWithImages
  <2>3. Cardinality(NewImages(k)) = k /\ NewImages(k) \in SUBSET (1 .. MaxMade)
    BY <1>0, <1>3, <1>4, NewImagesCount, BoundsAssumption DEF NewImages
  <2>4. Res.imgs \cap NewImages(k) = {}
    BY <1>0, <1>4, <1>8, BoundsAssumption DEF NewImages
  <2>5. Res.imgs \in SUBSET (1 .. MaxMade) /\ Cardinality(Res.imgs) \in Nat
    BY <1>1, ImagesFinite DEF Images
  <2>6. Cardinality(Res.imgs \cup NewImages(k)) =
          Cardinality(Res.imgs) + k - Cardinality(Res.imgs \cap NewImages(k))
    <3>1. \A S, T \in SUBSET (1 .. MaxMade) :
            Cardinality(S \cup T) = Cardinality(S) + Cardinality(T) - Cardinality(S \cap T)
      BY Zenon DEF Counted
    <3> QED
      BY <2>3, <2>5, <3>1, Zenon
  <2>7. Cardinality(Res.imgs \cap NewImages(k)) = 0
    BY <2>4, Zenon DEF Counted
  <2> QED
    BY <1>2, <1>4, <1>8, <2>1, <2>5, <2>6, <2>7, DAssumption
<1>9. \E x \in Fields : Effect(x, SrcWithImages(k))
  <2>1. CASE k = MissingImages /\ Completed(ResWithImages(k), SrcWithImages(k))
    <3>1. Done(ResWithImages(k), SrcWithImages(k))
      BY <1>7, <1>8, <2>1, Zenon DEF Done
    <3>2. Effect(ResWithImages(k), SrcWithImages(k))
      BY <1>4, <1>5, <1>6, <1>7, <2>1, <3>1 DEF Effect
    <3> QED
      BY <1>4, <1>6, <3>2
  <2>2. ASSUME NEW j \in 0 .. k, Failed(ResWithImages(j), SrcWithImages(k))
        PROVE  \E x \in Fields : Effect(x, SrcWithImages(k))
    <3>1. Effect(ResWithImages(j), SrcWithImages(k))
      BY <1>5, <1>6, <1>7, <2>2 DEF Effect
    <3> QED
      BY <1>6, <3>1, Zenon
  <2> QED
    BY <1>3, <1>4, <2>1, <2>2
<1>10. made' \in 0 .. MaxMade
  BY <1>0, <1>3, <1>4, BoundsAssumption
<1> QED
  BY <1>5, <1>9, <1>10

LEMMA ImportDisksEffect ==
  ASSUME Counted, IInv, EffectTypes, phaseImportDisks
  PROVE  (\E r \in Fields, w \in Worlds : Effect(r, w)) /\ UNCHANGED made
<1>0. Res \in Fields /\ Src \in Worlds /\ made \in 0 .. MaxMade
  BY AtFacts DEF phaseImportDisks, At, EffectTypes
<1>1. Res.imgs \in Images /\ Res.dvs \in 0 .. D
  BY <1>0 DEF Fields
<1>2. /\ AllDVs \in Res.dvs .. D
      /\ Cardinality(Res.imgs) = D => AllDVs = D
  <2>1. Cardinality(Res.imgs) \in 0 .. D
    BY <1>1, ImagesFinite
  <2> QED
    BY <1>1, <2>1, DAssumption DEF AllDVs
<1>3. made' = made /\ made <= made'
  <2>1. made' = made
    BY DEF phaseImportDisks
  <2> QED
    BY <1>0, <2>1, BoundsAssumption
<1>4. ASSUME NEW n \in 0 .. D
      PROVE  /\ SrcWithDVs(n) \in Worlds
             /\ SrcWithDVs(n).imgs = Src.imgs /\ SrcWithDVs(n).power = Src.power
             /\ SrcWithDVs(n).kv = Src.kv /\ SrcWithDVs(n).kvSeen = Src.kvSeen
             /\ Res.dvs = D => SrcWithDVs(n).dvs = Src.dvs
  <2> DEFINE states == {"None", "Importing", "Succeeded", "Failed"}
             dvs == [d \in Disks |->
                       IF d > Res.dvs /\ d <= n /\ Src.dvs[d] = "None"
                         THEN "Importing" ELSE Src.dvs[d]]
  <2>1. Src.dvs \in [Disks -> states]
    BY <1>0 DEF Worlds
  <2>2. dvs \in [Disks -> states]
    BY <2>1
  <2>3. ASSUME Res.dvs = D PROVE dvs = Src.dvs
    <3>1. \A d \in Disks : ~(d > D)
      BY DAssumption DEF Disks
    <3> QED
      BY <2>1, <2>3, <3>1
  <2>4. SrcWithDVs(n) = [Src EXCEPT !.dvs = dvs]
    BY DEF SrcWithDVs
  <2> HIDE DEF dvs
  <2> QED
    BY <1>0, <2>2, <2>3, <2>4 DEF Worlds
<1>5. ASSUME NEW n \in Res.dvs .. D
      PROVE  /\ ResWithDVs(n) \in Fields /\ n \in 0 .. D /\ Res.dvs <= n
             /\ ResWithDVs(n).imgs = Res.imgs /\ ResWithDVs(n).dvs = n
  <2>1. n \in 0 .. D /\ Res.dvs <= n
    BY <1>1, DAssumption
  <2> QED
    BY <1>0, <2>1 DEF ResWithDVs, Fields
<1>6. ASSUME NEW n \in Res.dvs .. D, NEW m \in 0 .. D
      PROVE  Keeps(ResWithDVs(n), SrcWithDVs(m))
  BY <1>3, <1>4, <1>5 DEF Keeps
<1>7. mem.vms[idx] = "ImportDisks"
  BY DEF phaseImportDisks, At
<1>8. CASE Failed(Res, Src)
  <2>1. Keeps(Res, Src)
    BY <1>0, <1>3, KeepsStatus
  <2>2. Effect(Res, Src)
    BY <1>0, <1>7, <1>8, <2>1 DEF Effect
  <2> QED
    BY <1>0, <1>3, <2>2
<1>9. ASSUME NEW n \in Res.dvs .. D, NEW m \in 0 .. D, Failed(ResWithDVs(n), SrcWithDVs(m))
      PROVE  \E r \in Fields, w \in Worlds : Effect(r, w)
  <2>1. Effect(ResWithDVs(n), SrcWithDVs(m))
    BY <1>4, <1>5, <1>6, <1>7, <1>9, Zenon DEF Effect
  <2> QED
    BY <1>4, <1>5, <2>1, Zenon
<1> DEFINE r == ResWithDVs(AllDVs)
           w == SrcWithDVs(AllDVs)
<1>10. r \in Fields /\ w \in Worlds /\ Keeps(r, w)
  BY <1>2, <1>4, <1>5, <1>6
<1>11. CASE Polled \subseteq {"Succeeded"} /\ Completed(r, w)
  <2>1. ASSUME Cardinality(Res.imgs) = D PROVE \A d \in Disks : w.dvs[d] = "Succeeded"
    BY <1>2, <1>11, <2>1 DEF Polled, Disks
  <2>2. Done(r, w)
    BY <1>7, <2>1, Zenon DEF Done
  <2>3. Effect(r, w)
    BY <1>2, <1>4, <1>5, <1>7, <1>10, <1>11, <2>2, Zenon DEF Effect
  <2> QED
    BY <1>3, <1>10, <2>3
<1>12. CASE NotYet(r, w)
  <2>1. Effect(r, w)
    BY <1>2, <1>4, <1>5, <1>7, <1>10, <1>12 DEF Effect
  <2> QED
    BY <1>3, <1>10, <2>1
<1>13. \A n \in Res.dvs .. AllDVs : /\ n \in Res.dvs .. D /\ n \in 0 .. D
                                    /\ n < AllDVs => n + 1 \in 0 .. D
  BY <1>1, <1>2, DAssumption
<1>14. AllDVs \in Res.dvs .. D /\ AllDVs \in 0 .. D
  BY <1>2, <1>5
<1> HIDE DEF r, w
<1> QED
  BY <1>3, <1>8, <1>9, <1>11, <1>12, <1>13, <1>14, Zenon
  DEF phaseImportDisks, FailedCall, FailedWithEffect, ImportedSoFar, r, w

LEMMA TargetPhaseEffect ==
  ASSUME IInv, EffectTypes, phaseCreateVM \/ phaseStartVM \/ phaseCleanup
  PROVE  (\E r \in Fields, w \in Worlds : Effect(r, w)) /\ UNCHANGED made
<1> USE DEF FailedCall, FailedWithEffect, At
<1>0. Res \in Fields /\ Src \in Worlds
  BY AtFacts, Zenon DEF phaseCreateVM, phaseStartVM, phaseCleanup
<1>a. made <= made'
  <2>1. made' = made
    BY Zenon DEF phaseCreateVM, phaseStartVM, phaseCleanup
  <2> QED
    BY <2>1, BoundsAssumption DEF EffectTypes
<1>b. Keeps(Res, Src)
  BY <1>0, <1>a, KeepsStatus, Zenon
<1>1. CASE phaseCreateVM
  <2> DEFINE kv == IF Src.kv = "None" THEN "Stopped" ELSE Src.kv
             w == [Src EXCEPT !.kv = kv]
  <2>1. /\ w \in Worlds /\ w.imgs = Src.imgs /\ w.power = Src.power
        /\ w.dvs = Src.dvs /\ w.kvSeen = Src.kvSeen /\ w.kv = kv
    <3>1. kv \in {"None", "Stopped", "Running"}
      BY <1>0 DEF Worlds
    <3> HIDE DEF kv
    <3> QED
      BY <1>0, <3>1 DEF Worlds
  <2>2. /\ Completed(Res, w) \/ Failed(Res, Src) \/ Failed(Res, w)
        /\ mem.vms[idx] = "CreateVM" /\ made' = made
    BY <1>1, Zenon DEF phaseCreateVM
  <2> HIDE DEF w
  <2>a. Keeps(Res, w)
    BY <1>b, <2>1, <2>2, Zenon DEF Keeps
  <2>3. Effect(Res, w) \/ Effect(Res, Src)
    BY <1>0, <1>b, <2>a, <2>1, <2>2, Zenon DEF Effect, Done
  <2> QED
    BY <1>0, <2>1, <2>2, <2>3
<1>2. CASE phaseStartVM
  <2> DEFINE w == [Src EXCEPT !.kv = "Running"]
  <2>1. /\ w \in Worlds /\ w.imgs = Src.imgs /\ w.power = Src.power
        /\ w.dvs = Src.dvs /\ w.kvSeen = Src.kvSeen /\ w.kv = "Running"
    BY <1>0 DEF Worlds
  <2>2. /\ \/ Src.kvSeen /\ (Completed(Res, w) \/ Failed(Res, w))
           \/ Completed(Res, Src) \/ Failed(Res, Src)
        /\ mem.vms[idx] = "StartVM" /\ made' = made
    BY <1>2, Zenon DEF phaseStartVM
  <2> HIDE DEF w
  <2>a. Src.kvSeen => Keeps(Res, w)
    BY <1>b, <2>1, <2>2, Zenon DEF Keeps
  <2>3. Effect(Res, w) \/ Effect(Res, Src)
    BY <1>0, <1>b, <2>a, <2>1, <2>2 DEF Effect, Done
  <2> QED
    BY <1>0, <2>1, <2>2, <2>3
<1>3. CASE phaseCleanup
  <2>1. PICK imgs, snaps :
          Completed(Res, [Src EXCEPT !.imgs = Src.imgs \ imgs,
                                     !.snaps = Src.snaps \ snaps])
    BY <1>3, Zenon DEF phaseCleanup
  <2> DEFINE w == [Src EXCEPT !.imgs = Src.imgs \ imgs,
                              !.snaps = Src.snaps \ snaps]
  <2>3. Completed(Res, w)
    BY <2>1
  <2>4. /\ w \in Worlds /\ w.imgs \subseteq Src.imgs /\ w.power = Src.power
        /\ w.dvs = Src.dvs /\ w.kvSeen = Src.kvSeen /\ w.kv = Src.kv
    BY <1>0, Zenon DEF Worlds
  <2>5. mem.vms[idx] = "Cleanup" /\ made' = made
    BY <1>3, Zenon DEF phaseCleanup
  <2> HIDE DEF w
  <2>a. Keeps(Res, w)
    BY <1>b, <2>4, Zenon DEF Keeps
  <2>6. Effect(Res, w)
    BY <1>0, <2>a, <2>3, <2>4, <2>5 DEF Effect, Done
  <2> QED
    BY <1>0, <2>4, <2>5, <2>6
<1> QED
  BY <1>1, <1>2, <1>3

LEMMA PhaseEffect ==
  ASSUME Counted, IInv, EffectTypes, executePhase
  PROVE  /\ \E r \in Fields, w \in Worlds : Effect(r, w)
         /\ made' \in 0 .. MaxMade
         /\ UNCHANGED <<objRes, cacheRes>>
<1>1. UNCHANGED <<objRes, cacheRes>>
  BY Zenon DEF executePhase, SharedPhase, runHook, phaseStorePowerState, phasePowerOff,
    phaseWaitForPowerOff, phaseCreateSnapshot, phaseExportDisks,
    phaseImportDisks, phaseCreateVM, phaseStartVM, phaseCleanup
<1>2. made \in 0 .. MaxMade
  BY DEF EffectTypes
<1> QED
  BY <1>1, <1>2, SourcePhaseEffect, CreateSnapshotEffect, ExportDisksEffect,
    ImportDisksEffect, TargetPhaseEffect DEF executePhase, SharedPhase

\* cleanupFailedVM adds no images and leaves the target alone; unless a call
\* fails, it deletes every DataVolume the status names.
LEMMA CleanupFacts ==
  ASSUME EffectTypes, idx \in VMs, NEW r \in Fields, NEW w \in Worlds,
         cleanupFailedVM(r, w)
  PROVE  \E c \in Worlds : /\ world' = [world EXCEPT ![idx] = c]
                           /\ c.imgs \subseteq w.imgs
                           /\ c.kv = w.kv /\ c.kvSeen = w.kvSeen
                           /\ \/ Fault("CleanupError")
                              \/ \A d \in Disks : d <= r.dvs => c.dvs[d] = "None"
<1>1. PICK dvs, imgs, snaps, pods, on :
        /\ dvs \in BestEffort(1 .. r.dvs)
        /\ world' = [world EXCEPT ![idx] =
          [w EXCEPT !.dvs = WithoutDVs(w, dvs), !.imgs = w.imgs \ imgs,
                    !.snaps = w.snaps \ snaps, !.pods = WithoutPods(w, pods),
                    !.power = IF "ON" \in on THEN "ON" ELSE w.power]]
  BY Zenon DEF cleanupFailedVM
<1> DEFINE gone == WithoutDVs(w, dvs)
           power == IF "ON" \in on THEN "ON" ELSE w.power
           c == [w EXCEPT !.dvs = gone, !.imgs = w.imgs \ imgs,
                          !.snaps = w.snaps \ snaps, !.pods = {},
                          !.power = power]
<1>2. gone \in [Disks -> {"None", "Importing", "Succeeded", "Failed"}]
  BY DEF Worlds, WithoutDVs
<1>3. power \in {"ON", "STOPPING", "OFF"}
  BY DEF Worlds
<1>4. world' = [world EXCEPT ![idx] = c]
  <2>1. WithoutPods(w, pods) = {}
    BY DEF Worlds, WithoutPods
  <2> QED
    BY <1>1, <2>1
<1>5. ASSUME ~Fault("CleanupError"), NEW d \in Disks, d <= r.dvs
      PROVE  gone[d] = "None"
  <2>1. r.dvs \in 0 .. D /\ dvs = 1 .. r.dvs
    BY <1>1, <1>5 DEF Fields, BestEffort
  <2>2. d \in 1 .. r.dvs
    BY <1>5, <2>1, Prefix, Zenon
  <2> QED
    BY <2>1, <2>2 DEF WithoutDVs
<1> HIDE DEF gone, power
<1>6. /\ c \in Worlds /\ c.imgs \subseteq w.imgs /\ c.kv = w.kv /\ c.kvSeen = w.kvSeen
      /\ c.dvs = gone
  BY <1>2, <1>3, Zenon DEF Worlds
<1> QED
  BY <1>4, <1>5, <1>6, Zenon

\* Export phases are reached only from WaitForPowerOff.
LEMMA ColdOrder ==
  ASSUME NEW p, nextPhaseInOrder(p, OrderOf("cold")) \in Exporting
  PROVE  p \in Exporting \cup {"WaitForPowerOff"}
<1> DEFINE order == OrderOf("cold")
<1>1. order = phaseOrder /\ Len(phaseOrder) = 13
  BY DEF OrderOf, phaseOrder
<1>2. CASE \E i \in 1 .. Len(order) - 1 : order[i] = p
  <2> DEFINE i == CHOOSE i \in 1 .. Len(order) - 1 : order[i] = p
  <2>1. i \in 1 .. Len(order) - 1 /\ order[i] = p
    BY <1>2
  <2>2. nextPhaseInOrder(p, order) = order[i + 1]
    BY <1>2 DEF nextPhaseInOrder
  <2> HIDE DEF i
  <2>3. i \in 1 .. 12 /\ phaseOrder[i] = p /\ phaseOrder[i + 1] \in Exporting
    BY <1>1, <2>1, <2>2
  <2> QED
    BY <2>3 DEF phaseOrder, Exporting
<1>3. CASE ~ \E i \in 1 .. Len(order) - 1 : order[i] = p
  BY <1>3, Zenon DEF nextPhaseInOrder
<1> QED
  BY <1>2, <1>3

\* What ImagesOfStoppedSource says of one step.
StoppedStep ==
  \A v \in VMs : world'[v].imgs \ world[v].imgs # {} => world[v].power = "OFF"

LEMMA PhaseStopped ==
  ASSUME Counted, IInv, EffectTypes, StoppedInv, executePhase
  PROVE  EffectTypes' /\ StoppedInv' /\ StoppedStep
<1>0. /\ made' \in 0 .. MaxMade
      /\ UNCHANGED <<objRes, cacheRes>>
  BY PhaseEffect
<1>1. PICK r \in Fields, w \in Worlds : Effect(r, w)
  BY PhaseEffect
<1>2. AtPhase
  BY <1>1 DEF Effect, Completed, NotYet, Failed, PhaseCompleted, PhaseWaits,
    PhaseFailed
<1>3. idx \in VMs /\ pc = "pass" /\ mem \in Objects /\ passType = "cold"
  BY <1>2, HandledVM, ColdAssumption, Zenon DEF IInv, TypeOK
<1>4. PICK c \in Worlds :
        /\ world' = [world EXCEPT ![idx] = c]
        /\ c.imgs \subseteq w.imgs
        /\ c = w \/ Failed(r, w)
  <2>1. CASE Completed(r, w) \/ NotYet(r, w)
    BY <2>1, Zenon DEF Completed, NotYet
  <2>2. CASE Failed(r, w)
    BY <1>3, <2>2, CleanupFacts, Zenon DEF Failed
  <2> QED
    BY <1>1, <2>1, <2>2 DEF Effect
<1>5. memRes' = [memRes EXCEPT ![idx] = r]
  BY <1>1, Zenon DEF Effect, Completed, NotYet, Failed
<1>6. EffectTypes'
  BY <1>0, <1>3, <1>4, <1>5 DEF EffectTypes
<1>7. StoppedStep
  <2>1. c.imgs \ world[idx].imgs # {} => mem.vms[idx] \in Exporting
    BY <1>1, <1>4 DEF Effect, Src, Exporting
  <2> QED
    BY <1>3, <1>4, <2>1, Zenon DEF StoppedStep, StoppedInv, EffectTypes
<1>8. UNCHANGED <<obj, cache, pc>>
  BY <1>1 DEF Effect, Completed, NotYet, Failed, PhaseCompleted, PhaseWaits,
    PhaseFailed, apiVars
<1>9. \A v \in VMs \ {idx} : mem.vms[v] \notin Exporting
  BY DEF StoppedInv
<1>10. CASE Completed(r, w) /\ Done(r, w)
  <2> DEFINE q == nextPhaseInOrder(mem.vms[idx], OrderOf(passType))
  <2>1. mem' = [mem EXCEPT !.vms[idx] = q] /\ idx' = idx
    BY <1>10 DEF Completed, PhaseCompleted
  <2>2. world' = [world EXCEPT ![idx] = w]
    BY <1>10, Zenon DEF Completed
  <2>3. q \in Exporting => w.power = "OFF"
    <3>1. q \in Exporting => mem.vms[idx] \in Exporting \cup {"WaitForPowerOff"}
      BY <1>3, ColdOrder
    <3> HIDE DEF q
    <3> QED
      BY <1>1, <1>3, <1>10, <3>1 DEF Effect, Done, Src, StoppedInv, Exporting
  <2> HIDE DEF q
  <2>4. \A v \in VMs : mem'.vms[v] = IF v = idx THEN q ELSE mem.vms[v]
    BY <1>3, <2>1, Zenon DEF Objects
  <2> QED
    BY <1>3, <1>6, <1>7, <1>8, <1>9, <2>1, <2>2, <2>3, <2>4
    DEF StoppedInv, NotExporting, EffectTypes
<1>11. CASE NotYet(r, w)
  <2>1. mem' = mem /\ mem.vms[idx] \notin Exporting
    BY <1>11, Zenon DEF NotYet, PhaseWaits, WaitingPhases, Exporting
  <2> QED
    BY <1>6, <1>7, <1>8, <1>9, <2>1 DEF StoppedInv, NotExporting
<1>12. CASE Failed(r, w)
  <2>1. \A v \in VMs : mem'.vms[v] = IF v = idx THEN "Failed" ELSE mem.vms[v]
    BY <1>3, <1>12 DEF Failed, PhaseFailed, Objects
  <2> QED
    BY <1>6, <1>7, <1>8, <1>9, <2>1 DEF StoppedInv, NotExporting, Exporting
<1> QED
  BY <1>1, <1>10, <1>11, <1>12 DEF Effect

LEMMA InitStopped ==
  ASSUME Counted, PipelineInit
  PROVE  EffectTypes /\ StoppedInv
<1>1. NoRes \in [VMs -> Fields]
  BY NoResType, Zenon
<1>2. NewWorld("ON") \in Worlds /\ NewWorld("OFF") \in Worlds
  BY DEF NewWorld, Worlds
<1>3. EffectTypes
  BY <1>1, <1>2, BoundsAssumption DEF PipelineInit, EffectTypes
<1>4. NotExporting(NewObject)
  BY DEF NotExporting, NewObject, Exporting
<1> QED
  BY <1>3, <1>4 DEF PipelineInit, Init, StoppedInv, NotExporting

\* The steps that leave the world alone.
LEMMA ControllerStopped ==
  ASSUME Counted, IInv, EffectTypes, StoppedInv, ColdController
  PROVE  EffectTypes' /\ StoppedInv' /\ StoppedStep
<1>0. obj \in Objects /\ cache \in Objects /\ mem \in Objects
  BY DEF IInv, TypeOK
<1>1. CASE executePhase
  BY <1>1, PhaseStopped, Zenon
<1>2. CASE UNCHANGED pipelineVars /\ (ReconcileNothing \/ AddFinalizer
             \/ handleDeletion \/ setMigrationFailed)
  <2>1. EffectTypes' /\ StoppedStep
    BY <1>2 DEF pipelineVars, EffectTypes, StoppedStep
  <2>2. obj'.vms \in {obj.vms, cache.vms} /\ UNCHANGED <<cache, mem, pc, idx>>
    BY <1>0, <1>2, Zenon DEF ReconcileNothing, AddFinalizer, handleDeletion,
      setMigrationFailed, Write, apiVars, passVars, Objects
  <2> QED
    BY <1>2, <2>1, <2>2 DEF StoppedInv, NotExporting, pipelineVars
<1>3. CASE UNCHANGED pipelineVars /\ (SkipTerminal \/ SkipPending \/ StartPending)
  <2>1. EffectTypes' /\ StoppedStep
    BY <1>3 DEF pipelineVars, EffectTypes, StoppedStep
  <2>2. /\ UNCHANGED <<obj, cache, pc, world>>
        /\ idx \in VMs
        /\ mem.vms[idx] \notin Exporting
    BY <1>3 DEF SkipTerminal, SkipPending, StartPending, AtVM, apiVars,
      isTerminalVMPhase, TerminalVMPhases, Exporting, pipelineVars
  <2>3. \A v \in VMs : mem'.vms[v] \in {mem.vms[v], "PreHook"}
    BY <1>0, <1>3 DEF SkipTerminal, SkipPending, StartPending, Objects
  <2>4. \A v \in VMs : mem'.vms[v] \notin Exporting
    <3>1. \A v \in VMs : mem.vms[v] \notin Exporting
      BY <2>2 DEF StoppedInv
    <3> QED
      BY <2>3, <3>1 DEF Exporting
  <2> QED
    BY <2>1, <2>2, <2>4, Zenon DEF StoppedInv, NotExporting
<1>4. CASE PipelineBeginPass
  <2>1. EffectTypes' /\ StoppedStep
    BY <1>4 DEF PipelineBeginPass, envVars, EffectTypes, StoppedStep
  <2>2. \A v \in VMs : mem'.vms[v] \in {cache.vms[v], "Pending", "Cancelled"}
    <3> DEFINE o == initializeVMStatuses(cache)
    <3>1. o \in Objects /\ \A v \in VMs : o.vms[v] \in {cache.vms[v], "Pending"}
      BY <1>0, Zenon DEF initializeVMStatuses, Objects, VMPhases, MigrationPhaseSet
    <3>2. mem' = processCancellations(o)
      BY <1>4 DEF PipelineBeginPass, BeginPass
    <3> HIDE DEF o
    <3> QED
      BY <3>1, <3>2 DEF processCancellations, Objects
  <2>3. UNCHANGED <<obj, cache>>
    BY <1>4 DEF PipelineBeginPass, BeginPass, apiVars
  <2>4. \A v \in VMs : mem'.vms[v] \notin Exporting
    BY <2>2, Zenon DEF StoppedInv, NotExporting, Exporting
  <2> QED
    BY <2>1, <2>3, <2>4 DEF StoppedInv, NotExporting
<1>5. CASE PipelineSaveStatus \/ PipelineLoseStatus
  <2>1. /\ UNCHANGED <<world, made, cacheRes>>
        /\ memRes' = NoRes
        /\ objRes' \in {objRes, memRes}
        /\ UNCHANGED cache
        /\ mem' = NewObject
        /\ idx > N /\ idx \in Int
        /\ obj'.vms \in {obj.vms, mem.vms}
    BY <1>0, <1>5 DEF PipelineSaveStatus, PipelineLoseStatus, SaveStatus, LoseStatus,
      EndPass, PassDone, envVars, updateOverallStatus, Objects, IInv, TypeOK
  <2>2. NoRes \in [VMs -> Fields]
    BY NoResType, Zenon
  <2>3. EffectTypes' /\ StoppedStep
    BY <2>1, <2>2 DEF EffectTypes, StoppedStep
  <2>4. idx \notin VMs
    BY <2>1, NAssumption DEF VMs
  <2>5. NotExporting(mem) /\ NotExporting(NewObject)
    BY <2>4 DEF NotExporting, NewObject, Exporting, StoppedInv
  <2> QED
    BY <2>1, <2>3, <2>5, Zenon DEF StoppedInv, NotExporting
<1> QED
  BY <1>1, <1>2, <1>3, <1>4, <1>5 DEF ColdController, ReconcileOnly

LEMMA WorldStopped ==
  ASSUME Counted, IInv, EffectTypes, StoppedInv,
         PipelineUser \/ PipelineCrash \/ PipelineDeliver \/ PipelineCloud
  PROVE  EffectTypes' /\ StoppedInv' /\ StoppedStep
<1>0. obj \in Objects /\ world \in [VMs -> Worlds]
  BY DEF IInv, TypeOK, EffectTypes
<1>1. CASE PipelineUser
  <2>1. obj'.vms = obj.vms /\ UNCHANGED <<cache, mem, pc, idx>>
    BY <1>0, <1>1, Zenon DEF PipelineUser, CancelVM, RequestDelete, PatchObject, Write,
      passVars, Objects
  <2> QED
    BY <1>1, <2>1, Zenon DEF PipelineUser, pipelineVars, EffectTypes, StoppedInv,
      NotExporting, StoppedStep
<1>2. CASE PipelineDeliver
  BY <1>2, Zenon DEF PipelineDeliver, Deliver, envVars, passVars, EffectTypes,
    StoppedInv, NotExporting, StoppedStep
<1>3. CASE PipelineCrash
  <2>1. /\ UNCHANGED <<obj, objRes, made>> /\ cache' = obj /\ cacheRes' = objRes
        /\ memRes' = NoRes /\ mem' = NewObject
    BY <1>3 DEF PipelineCrash, Crash, EndPass
  <2>2. NoRes \in [VMs -> Fields]
    BY NoResType
  <2>3. /\ world' \in [VMs -> Worlds]
        /\ \A v \in VMs : world'[v].imgs = world[v].imgs
    <3>1. \A v \in VMs : (world[v].kv # "None") \in BOOLEAN
      OBVIOUS
    <3>2. \A w \in Worlds, b \in BOOLEAN :
            /\ [w EXCEPT !.kvSeen = b] \in Worlds
            /\ [w EXCEPT !.kvSeen = b].imgs = w.imgs
      BY DEF Worlds
    <3> QED
      BY <1>0, <1>3, <3>1, <3>2, Zenon DEF PipelineCrash
  <2>4. NotExporting(NewObject)
    BY Zenon DEF NotExporting, NewObject, Exporting
  <2> QED
    BY <2>1, <2>2, <2>3, <2>4 DEF EffectTypes, StoppedInv, NotExporting,
      StoppedStep
<1>4. CASE PipelineCloud
  <2>1. UNCHANGED <<obj, cache, mem, pc, idx, objRes, cacheRes, memRes, made>>
    BY <1>4, Zenon DEF PipelineCloud, PowerSettles, KubeVirtVMSeen, ImportEnds,
      GarbageCollect, vars, resVars
  <2>2. /\ world' \in [VMs -> Worlds]
        /\ \A v \in VMs : /\ world'[v].imgs = world[v].imgs
                          /\ world[v].power = "OFF" => world'[v].power = "OFF"
    <3> DEFINE Same(w, c) == /\ c \in Worlds /\ c.imgs = w.imgs
                             /\ w.power = "OFF" => c.power = "OFF"
    <3>0. ASSUME NEW v \in VMs, NEW c, Same(world[v], c),
                 world' = [world EXCEPT ![v] = c]
          PROVE  /\ world' \in [VMs -> Worlds]
                 /\ \A u \in VMs : Same(world[u], world'[u])
      BY <1>0, <3>0
    <3>1. ASSUME NEW v \in VMs, PowerSettles(v)
          PROVE  \E c : Same(world[v], c) /\ world' = [world EXCEPT ![v] = c]
      <4> DEFINE c == [world[v] EXCEPT !.power = "OFF"]
      <4>1. Same(world[v], c)
        BY <1>0, Zenon DEF Worlds
      <4>2. world' = [world EXCEPT ![v] = c]
        BY <3>1 DEF PowerSettles
      <4> QED
        BY <4>1, <4>2, Zenon
    <3>2. ASSUME NEW v \in VMs, KubeVirtVMSeen(v)
          PROVE  \E c : Same(world[v], c) /\ world' = [world EXCEPT ![v] = c]
      <4> DEFINE c == [world[v] EXCEPT !.kvSeen = TRUE]
      <4>1. Same(world[v], c)
        BY <1>0, Zenon DEF Worlds
      <4>2. world' = [world EXCEPT ![v] = c]
        BY <3>2 DEF KubeVirtVMSeen
      <4> QED
        BY <4>1, <4>2, Zenon
    <3>3. ASSUME NEW v \in VMs, NEW d \in Disks, ImportEnds(v, d)
          PROVE  \E c : Same(world[v], c) /\ world' = [world EXCEPT ![v] = c]
      <4>1. PICK s \in {"Succeeded", "Failed"} :
              world' = [world EXCEPT ![v].dvs[d] = s]
        BY <3>3 DEF ImportEnds
      <4> DEFINE c == [world[v] EXCEPT !.dvs = [world[v].dvs EXCEPT ![d] = s]]
      <4>2. Same(world[v], c)
        BY <1>0, <4>1, Zenon DEF Worlds
      <4>3. world' = [world EXCEPT ![v] = c]
        BY <4>1
      <4> QED
        BY <4>2, <4>3, Zenon
    <3>4. CASE GarbageCollect
      <4> DEFINE none == [d \in Disks |-> "None"]
      <4>1. none \in [Disks -> {"None", "Importing", "Succeeded", "Failed"}]
        OBVIOUS
      <4>2. world' = [v \in VMs |-> [world[v] EXCEPT !.dvs = none, !.pods = {}]]
        BY <3>4, Zenon DEF GarbageCollect
      <4> HIDE DEF none
      <4>3. \A w \in Worlds : Same(w, [w EXCEPT !.dvs = none, !.pods = {}])
        BY <4>1, Zenon DEF Worlds
      <4> QED
        BY <1>0, <4>2, <4>3, Zenon
    <3> HIDE DEF Same
    <3> QED
      BY <1>4, <3>0, <3>1, <3>2, <3>3, <3>4 DEF PipelineCloud, Same
  <2> QED
    BY <2>1, <2>2 DEF EffectTypes, StoppedInv, NotExporting, StoppedStep
<1> QED
  BY <1>1, <1>2, <1>3, <1>4

ColdInv == EffectTypes /\ StoppedInv

LEMMA ColdInvStep ==
  ASSUME Counted, IInv, ColdInv, [ColdNext]_allVars
  PROVE  ColdInv' /\ StoppedStep
<1>1. CASE ColdNext
  BY <1>1, ControllerStopped, WorldStopped DEF ColdNext, ColdInv
<1>2. CASE UNCHANGED allVars
  BY <1>2, Zenon DEF allVars, vars, pipelineVars, EffectTypes, StoppedInv,
    NotExporting, StoppedStep, ColdInv
<1> QED
  BY <1>1, <1>2

----------------------------------------------------------------------------
(* Types.                                                                  *)

Counts == secret \in BOOLEAN /\ crashes \in 0 .. MaxCrashes

LEMMA CountsStep ==
  ASSUME Counts, [ColdNext]_allVars
  PROVE  Counts'
<1>1. CASE executePhase
  BY <1>1, Zenon
     DEF Counts, executePhase, SharedPhase, runHook, phaseStorePowerState, phasePowerOff,
    phaseWaitForPowerOff, phaseCreateSnapshot, phaseExportDisks, phaseImportDisks,
    phaseCreateVM, phaseStartVM, phaseCleanup
<1>2. CASE PipelineCrash
  BY <1>2, BoundsAssumption DEF Counts, PipelineCrash
<1>3. CASE PipelineCloud
  BY <1>3, Zenon
     DEF Counts, PipelineCloud, PowerSettles, KubeVirtVMSeen, ImportEnds, GarbageCollect
<1>4. CASE \/ PipelineUser \/ ReconcileOnly \/ PipelineDeliver \/ PipelineBeginPass
           \/ PipelineSaveStatus \/ PipelineLoseStatus \/ UNCHANGED allVars
  BY <1>4 DEF Counts, PipelineUser, ReconcileOnly, PipelineDeliver, PipelineBeginPass,
    PipelineSaveStatus, PipelineLoseStatus, allVars, pipelineVars, envVars
<1> QED
  BY <1>1, <1>2, <1>3, <1>4 DEF ColdNext, ColdController

----------------------------------------------------------------------------
(* How a run ends when no pass is lost and no call takes effect without an *)
(* answer: the status names all that was made for the VM, so what          *)
(* cleanupFailedVM and phaseCleanup delete is all there is.                *)

WhileOff == {"CreateSnapshot", "ExportDisks", "ImportDisks", "CreateVM", "StartVM",
             "PostHook", "Cleanup", "Completed"}
BeforeExport == BeforeStore \cup {"PowerOff", "WaitForPowerOff", "CreateSnapshot", "ExportDisks"}
BeforeCreate == BeforeExport \cup {"ImportDisks", "CreateVM"}
AfterStart == {"PostHook", "Cleanup", "Completed"}

\* What the status r accounts for, in the world w.
Accounted(r, w) ==
  /\ w.snaps \subseteq {r.snap}
  /\ w.imgs \subseteq r.imgs
  /\ \A d \in Disks : w.dvs[d] # "None" => d <= r.dvs
  /\ w.was = "OFF" => w.power = "OFF"

\* A VM in phase p whose status and world are r and w; e: the Migration exists.
Whole(p, r, w, e) ==
  /\ p # "Cancelled" => Accounted(r, w)
  /\ p \in BeforeStore \cup {"PowerOff", "Failed"} => w.power = w.was
  /\ p \in BeforeStore => r.orig \in {"", w.was}
  /\ p \in {"PowerOff", "WaitForPowerOff"} \cup WhileOff => r.orig = w.was
  /\ p \in WhileOff => w.power = "OFF"
  /\ p \in BeforeExport => r.imgs = {}
  /\ p = "ImportDisks" => Cardinality(r.imgs) = D
  /\ p \in BeforeCreate => w.kv = "None"
  /\ p = "StartVM" => w.kv = "Stopped"
  /\ p \in AfterStart => w.kv = Target
  /\ p \in {"CreateVM", "StartVM"} \cup AfterStart /\ e =>
       \A d \in Disks : w.dvs[d] = "Succeeded"
  /\ p = "Failed" => NoDataLeft(w)
  /\ p = "Completed" => w.snaps = {} /\ w.imgs = {}

WholeInv == \A v \in VMs : Whole(PhaseOf(v), ResOf(v), world[v], obj.exists)

----------------------------------------------------------------------------

After(p) == nextPhaseInOrder(p, OrderOf("cold"))

LEMMA ColdSequence ==
  ASSUME NEW i \in 1 .. 12
  PROVE  After(phaseOrder[i]) = phaseOrder[i + 1]
<1> DEFINE order == OrderOf("cold")
           p == phaseOrder[i]
           j == CHOOSE j \in 1 .. Len(order) - 1 : order[j] = p
<1>1. order = phaseOrder /\ Len(order) - 1 = 12
  BY DEF OrderOf, phaseOrder
<1>2. \E j0 \in 1 .. Len(order) - 1 : order[j0] = p
  BY <1>1, Zenon
<1>3. j \in 1 .. 12 /\ phaseOrder[j] = phaseOrder[i]
  BY <1>1, <1>2, Zenon
<1>4. After(p) = order[j + 1]
  BY <1>2 DEF After, nextPhaseInOrder
<1> HIDE DEF j
<1>5. j = i
  BY <1>3 DEF phaseOrder
<1> QED
  BY <1>1, <1>4, <1>5

\* The phase after each phase of the cold pipeline.
LEMMA ColdSuccessors ==
  /\ After("PreHook") = "StorePowerState"
  /\ After("StorePowerState") = "PowerOff"
  /\ After("PowerOff") = "WaitForPowerOff"
  /\ After("WaitForPowerOff") = "CreateSnapshot"
  /\ After("CreateSnapshot") = "ExportDisks"
  /\ After("ExportDisks") = "ImportDisks"
  /\ After("ImportDisks") = "CreateVM"
  /\ After("CreateVM") = "StartVM"
  /\ After("StartVM") = "PostHook"
  /\ After("PostHook") = "Cleanup"
  /\ After("Cleanup") = "Completed"
<1>1. \A i \in 1 .. 12 : After(phaseOrder[i]) = phaseOrder[i + 1]
  BY ColdSequence
<1>2. /\ phaseOrder[2] = "PreHook" /\ phaseOrder[3] = "StorePowerState"
      /\ phaseOrder[4] = "PowerOff" /\ phaseOrder[5] = "WaitForPowerOff"
      /\ phaseOrder[6] = "CreateSnapshot" /\ phaseOrder[7] = "ExportDisks"
      /\ phaseOrder[8] = "ImportDisks" /\ phaseOrder[9] = "CreateVM"
      /\ phaseOrder[10] = "StartVM" /\ phaseOrder[11] = "PostHook"
      /\ phaseOrder[12] = "Cleanup" /\ phaseOrder[13] = "Completed"
  BY Zenon DEF phaseOrder
<1>3. /\ After(phaseOrder[2]) = phaseOrder[3] /\ After(phaseOrder[3]) = phaseOrder[4]
      /\ After(phaseOrder[4]) = phaseOrder[5] /\ After(phaseOrder[5]) = phaseOrder[6]
      /\ After(phaseOrder[6]) = phaseOrder[7] /\ After(phaseOrder[7]) = phaseOrder[8]
      /\ After(phaseOrder[8]) = phaseOrder[9] /\ After(phaseOrder[9]) = phaseOrder[10]
      /\ After(phaseOrder[10]) = phaseOrder[11] /\ After(phaseOrder[11]) = phaseOrder[12]
      /\ After(phaseOrder[12]) = phaseOrder[13]
  BY <1>1
<1> QED
  BY <1>2, <1>3

\* cleanupFailedVM undoes all that is accounted for.
LEMMA Mended ==
  ASSUME ~Fault("CleanupError"), NEW r \in Fields, NEW w \in Worlds,
         Accounted(r, w), r.orig = w.was \/ (r.orig = "" /\ w.power = w.was),
         cleanupFailedVM(r, w)
  PROVE  \E c : world' = [world EXCEPT ![idx] = c] /\ Whole("Failed", r, c, TRUE)
<1> DEFINE P == {{}}
<1>1. w \in WorldsOf(P) /\ {} \in P
  BY Zenon DEF Worlds, WorldsOf
<1>2. r.dvs \in 0 .. D
  BY DEF Fields
<1>3. Named(r, w)
  BY Zenon DEF Accounted, Named, SnapsOf, ImagesOf, Worlds
<1> HIDE DEF P
<1>4. PICK c \in WorldsOf(P) :
        /\ Leaves(c) /\ NoDataLeft(c)
        /\ c.was = w.was /\ c.power = w.was /\ c.kv = w.kv
  BY <1>1, <1>2, <1>3, CleanedUp, Zenon
<1>5. Whole("Failed", r, c, TRUE)
  BY <1>4, Zenon DEF Whole, Accounted, NoDataLeft, BeforeStore, WhileOff, BeforeExport,
    BeforeCreate, AfterStart
<1> QED
  BY <1>4, <1>5, Zenon DEF Leaves

\* The handler's answer leaves the VM at idx whole.
GoesWell == \E q, r, w : Answers(q, r, w) /\ Whole(q, r, w, TRUE)

LEMMA WellIfCompleted ==
  ASSUME IInv, NEW r, NEW w, Completed(r, w), Whole(After(mem.vms[idx]), r, w, TRUE)
  PROVE  GoesWell
<1>1. passType = "cold"
  BY ColdAssumption DEF IInv, TypeOK
<1> QED
  BY <1>1, CompletedAnswers, Zenon DEF After, GoesWell

LEMMA WellIfWaits ==
  ASSUME NEW r, NEW w, NotYet(r, w), Whole(mem.vms[idx], r, w, TRUE)
  PROVE  GoesWell
  BY NotYetAnswers DEF GoesWell

LEMMA WellIfFailed ==
  ASSUME IInv, Answered, NEW r \in Fields, NEW w \in Worlds, Failed(r, w), Accounted(r, w),
         r.orig = w.was \/ (r.orig = "" /\ w.power = w.was)
  PROVE  GoesWell
<1>1. PICK c : world' = [world EXCEPT ![idx] = c] /\ Whole("Failed", r, c, TRUE)
  BY Mended, Zenon DEF Failed, Answered
<1> QED
  BY <1>1, FailedAnswers, Zenon DEF GoesWell

\* The handlers that deal with the source VM.
LEMMA WholeSourcePhase ==
  ASSUME IInv, EffectTypes, Answered, Whole(mem.vms[idx], Res, Src, TRUE),
         runHook \/ phaseStorePowerState \/ phasePowerOff \/ phaseWaitForPowerOff
  PROVE  GoesWell
<1> DEFINE p == mem.vms[idx]
<1> USE DEF FailedCall, FailedWithEffect, At, Answered
<1>1. Res \in Fields /\ Src \in Worlds
  BY AtFacts, Zenon DEF runHook, phaseStorePowerState, phasePowerOff, phaseWaitForPowerOff
<1>2. p # "Cancelled" => Accounted(Res, Src)
  BY Zenon DEF Whole
<1> USE DEF Whole, BeforeStore, WhileOff, BeforeExport, BeforeCreate, AfterStart
<1>3. CASE runHook
  <2>1. p \in {"PreHook", "PostHook"}
    BY <1>3, Zenon DEF runHook
  <2>2. Whole(After(p), Res, Src, TRUE)
    BY <1>1, <2>1, ColdSuccessors, Zenon
  <2>3. Accounted(Res, Src) /\ (Res.orig = Src.was \/ (Res.orig = "" /\ Src.power = Src.was))
    BY <1>1, <2>1, Zenon
  <2> QED
    BY <1>1, <1>3, <2>2, <2>3, WellIfCompleted, WellIfWaits, WellIfFailed, Zenon DEF runHook
<1>4. CASE phaseStorePowerState
  <2> DEFINE o == IF Res.orig = "" THEN IF Src.power = "OFF" THEN "OFF" ELSE "ON"
                  ELSE Res.orig
             r == [Res EXCEPT !.orig = o]
  <2>1. p = "StorePowerState"
    BY <1>4 DEF phaseStorePowerState
  <2>2. o = Src.was
    BY <1>1, <2>1, Zenon DEF Worlds
  <2> HIDE DEF o
  <2>3. /\ r.orig = o /\ r.snap = Res.snap /\ r.imgs = Res.imgs /\ r.dvs = Res.dvs
    BY <1>1, Zenon DEF Fields
  <2> HIDE DEF r
  <2>4. Whole(After(p), r, Src, TRUE)
    BY <1>1, <2>1, <2>2, <2>3, ColdSuccessors, Zenon DEF Accounted
  <2>5. CASE Completed(r, Src)
    BY <2>4, <2>5, WellIfCompleted, Zenon
  <2>6. CASE Res.orig = "" /\ Failed(Res, Src)
    BY <1>1, <1>2, <2>1, <2>6, WellIfFailed, Zenon
  <2> QED
    BY <1>4, <2>5, <2>6 DEF phaseStorePowerState, o, r
<1>5. CASE phasePowerOff
  <2> DEFINE n == IF Src.power = "ON" THEN "STOPPING" ELSE Src.power
             off == [Src EXCEPT !.power = n]
  <2>1. p = "PowerOff"
    BY <1>5, Zenon DEF phasePowerOff
  <2>2. Src.was = "OFF" => n = "OFF"
    BY <2>1
  <2> HIDE DEF n
  <2>3. /\ off.was = Src.was /\ off.power = n /\ off.snaps = Src.snaps /\ off.imgs = Src.imgs
        /\ off.dvs = Src.dvs /\ off.kv = Src.kv
    BY <1>1, Zenon DEF Worlds
  <2> HIDE DEF off
  <2>4. Whole(After(p), Res, off, TRUE)
    BY <2>1, <2>2, <2>3, ColdSuccessors, Zenon DEF Accounted
  <2>5. CASE Completed(Res, off)
    BY <2>4, <2>5, WellIfCompleted, Zenon
  <2>6. CASE Res.orig = "OFF" /\ Completed(Res, Src)
    <3>1. Whole(After(p), Res, Src, TRUE)
      BY <2>1, <2>6, ColdSuccessors, Zenon
    <3> QED
      BY <2>6, <3>1, WellIfCompleted, Zenon
  <2>7. CASE Failed(Res, Src)
    BY <1>1, <1>2, <2>1, <2>7, WellIfFailed, Zenon
  <2> QED
    BY <1>5, <2>5, <2>6, <2>7 DEF phasePowerOff, n, off
<1>6. CASE phaseWaitForPowerOff
  <2>1. p = "WaitForPowerOff"
    BY <1>6, Zenon DEF phaseWaitForPowerOff
  <2>2. Src.power = "OFF" => Whole(After(p), Res, Src, TRUE)
    BY <2>1, ColdSuccessors, Zenon
  <2>3. Accounted(Res, Src) /\ Res.orig = Src.was
    BY <1>2, <2>1, Zenon
  <2>4. CASE Src.power = "OFF" /\ Completed(Res, Src)
    BY <2>2, <2>4, WellIfCompleted, Zenon
  <2>5. CASE NotYet(Res, Src)
    BY <2>5, WellIfWaits, Zenon
  <2>6. CASE Failed(Res, Src)
    BY <1>1, <2>3, <2>6, WellIfFailed, Zenon
  <2> QED
    BY <1>6, <2>4, <2>5, <2>6, Zenon DEF phaseWaitForPowerOff
<1> QED
  BY <1>3, <1>4, <1>5, <1>6, Zenon

\* Recovery point and images enter the status as they are made.
LEMMA WholeCreateSnapshot ==
  ASSUME IInv, EffectTypes, Answered, Whole(mem.vms[idx], Res, Src, TRUE), phaseCreateSnapshot
  PROVE  GoesWell
<1> DEFINE n == IF Res.snap = 0 THEN 1 ELSE 0
           s == IF n = 1 THEN made + 1 ELSE Res.snap
           r == [Res EXCEPT !.snap = s]
           w == [Src EXCEPT !.snaps = Src.snaps \cup {r.snap}]
<1>1. Res \in Fields /\ Src \in Worlds
  BY AtFacts DEF phaseCreateSnapshot, At
<1>2. mem.vms[idx] = "CreateSnapshot"
  BY DEF phaseCreateSnapshot, At
<1>3. CASE Failed(Res, Src)
  BY <1>1, <1>2, <1>3, WellIfFailed, Zenon DEF Whole, BeforeStore, WhileOff, BeforeExport,
    BeforeCreate, AfterStart
<1>4. CASE Completed(r, w)
  <2>1. Src.snaps \cup {s} = {s}
    <3>1. Src.snaps \subseteq {Res.snap} /\ Src.snaps \subseteq 1 .. MaxMade
      BY <1>1, <1>2, Zenon DEF Accounted, Worlds, Whole
    <3>2. Res.snap = 0 => Src.snaps = {}
      BY <3>1, BoundsAssumption
    <3>3. Res.snap # 0 => s = Res.snap
      OBVIOUS
    <3> QED
      BY <3>1, <3>2, <3>3, Zenon
  <2> HIDE DEF s
  <2>2. r.snap = s /\ r.imgs = Res.imgs /\ r.dvs = Res.dvs /\ r.orig = Res.orig
    BY <1>1 DEF Fields
  <2> HIDE DEF r
  <2>3. /\ w.was = Src.was /\ w.power = Src.power /\ w.snaps = {s} /\ w.imgs = Src.imgs
        /\ w.dvs = Src.dvs /\ w.kv = Src.kv
    BY <1>1, <2>1, <2>2 DEF Worlds
  <2> HIDE DEF w
  <2>4. Whole(After(mem.vms[idx]), r, w, TRUE)
    BY <1>2, <2>2, <2>3, ColdSuccessors, Zenon
       DEF Accounted, Whole, BeforeStore, WhileOff, BeforeExport,
      BeforeCreate, AfterStart
  <2> QED
    BY <1>4, <2>4, WellIfCompleted, Zenon
<1> QED
  BY <1>3, <1>4 DEF phaseCreateSnapshot, FailedCall, FailedWithEffect, Answered

LEMMA WholeExportDisks ==
  ASSUME Counted, IInv, EffectTypes, Answered, Whole(mem.vms[idx], Res, Src, TRUE), phaseExportDisks
  PROVE  GoesWell
<1>1. Res \in Fields /\ Src \in Worlds /\ made \in 0 .. MaxMade
  BY AtFacts, Zenon DEF phaseExportDisks, At, EffectTypes
<1>2. mem.vms[idx] = "ExportDisks"
  BY Zenon DEF phaseExportDisks, At
<1>3. Res.imgs = {} /\ Src.imgs = {} /\ Res.imgs \in Images
  BY <1>1, <1>2, Zenon DEF Accounted, Fields, Whole, BeforeExport
<1>4. MissingImages = D /\ Cardinality(Res.imgs) = 0
  BY <1>3, DAssumption DEF MissingImages, Counted
<1>5. PICK k \in 0 .. D :
        /\ made + k <= MaxMade
        /\ \/ k = D /\ Completed(ResWithImages(k), SrcWithImages(k))
           \/ Failed(ResWithImages(k), SrcWithImages(k))
  BY <1>4 DEF phaseExportDisks, FailedCall, FailedWithEffect, Answered
<1>6. k \in Nat /\ k <= D /\ made + k \in Int /\ made + 1 \in Int
  BY <1>1, <1>5, DAssumption, BoundsAssumption
<1> DEFINE r == ResWithImages(k)
           w == SrcWithImages(k)
<1>7. NewImages(k) \in Images
  <2>1. Res.imgs \cup NewImages(k) \in Images
    BY <1>1, <1>3, <1>4, <1>5, <1>6, ImagesBounded
  <2> QED
    BY <1>3, <2>1, Zenon
<1>8. /\ r = [Res EXCEPT !.imgs = NewImages(k)]
      /\ w = [Src EXCEPT !.imgs = NewImages(k)]
  BY <1>3 DEF ResWithImages, SrcWithImages
<1> HIDE DEF r, w
<1>9. /\ r \in Fields
      /\ r.imgs = NewImages(k) /\ r.snap = Res.snap /\ r.dvs = Res.dvs /\ r.orig = Res.orig
  BY <1>1, <1>7, <1>8 DEF Fields
<1>10. /\ w \in Worlds
       /\ w.was = Src.was /\ w.power = Src.power /\ w.snaps = Src.snaps
       /\ w.imgs = NewImages(k) /\ w.dvs = Src.dvs /\ w.kv = Src.kv
  BY <1>1, <1>7, <1>8 DEF Worlds, Images
<1>11. Accounted(r, w) /\ r.orig = w.was
  BY <1>2, <1>9, <1>10, Zenon DEF Accounted, Whole, BeforeStore, WhileOff, BeforeExport,
    BeforeCreate, AfterStart
<1>12. CASE k = D /\ Completed(r, w)
  <2>1. Cardinality(NewImages(k)) = D
    BY <1>1, <1>6, <1>12, NewImagesCount
  <2>2. Whole(After(mem.vms[idx]), r, w, TRUE)
    BY <1>2, <1>9, <1>10, <1>11, <2>1, ColdSuccessors, Zenon
       DEF Whole, BeforeStore, WhileOff, BeforeExport,
      BeforeCreate, AfterStart
  <2> QED
    BY <1>12, <2>2, WellIfCompleted, Zenon
<1>13. CASE Failed(r, w)
  BY <1>9, <1>10, <1>11, <1>13, WellIfFailed, Zenon
<1> QED
  BY <1>5, <1>12, <1>13 DEF r, w

\* A DataVolume enters the status when it is made, and CreateVM is reached
\* when there is one per disk and all have succeeded.
LEMMA WholeImportDisks ==
  ASSUME IInv, EffectTypes, Answered, Whole(mem.vms[idx], Res, Src, TRUE), phaseImportDisks
  PROVE  GoesWell
<1>1. Res \in Fields /\ Src \in Worlds
  BY AtFacts, Zenon DEF phaseImportDisks, At
<1>2. mem.vms[idx] = "ImportDisks"
  BY DEF phaseImportDisks, At
<1>3. Res.dvs \in 0 .. D /\ Cardinality(Res.imgs) = D /\ Accounted(Res, Src) /\ Res.orig = Src.was
  BY <1>1, <1>2, Zenon DEF Fields, Whole, WhileOff
<1>4. AllDVs = D
  BY <1>3, DAssumption DEF AllDVs
<1>5. ASSUME NEW n \in Res.dvs .. D
      PROVE  /\ ResWithDVs(n) \in Fields /\ SrcWithDVs(n) \in Worlds
             /\ Accounted(ResWithDVs(n), SrcWithDVs(n))
             /\ ResWithDVs(n).orig = SrcWithDVs(n).was
             /\ ResWithDVs(n).imgs = Res.imgs
             /\ SrcWithDVs(n).power = Src.power /\ SrcWithDVs(n).kv = Src.kv
  <2>1. n \in 0 .. D /\ Res.dvs <= n
    BY <1>3, DAssumption
  <2>2. /\ ResWithDVs(n) \in Fields /\ ResWithDVs(n).orig = Res.orig /\ ResWithDVs(n).dvs = n
        /\ ResWithDVs(n).imgs = Res.imgs /\ ResWithDVs(n).snap = Res.snap
    BY <1>1, <2>1 DEF ResWithDVs, Fields
  <2> DEFINE dvs == [d \in Disks |->
                       IF d > Res.dvs /\ d <= n /\ Src.dvs[d] = "None"
                         THEN "Importing" ELSE Src.dvs[d]]
  <2>3. dvs \in [Disks -> {"None", "Importing", "Succeeded", "Failed"}]
    BY <1>1, Zenon DEF Worlds
  <2>4. \A d \in Disks : dvs[d] # "None" => d <= n
    <3>1. \A d \in Disks : Src.dvs[d] # "None" => d <= Res.dvs
      BY <1>3, Zenon DEF Accounted
    <3>2. \A d \in Disks : d <= Res.dvs => d <= n
      BY <1>3, <2>1, DAssumption DEF Disks
    <3> QED
      BY <3>1, <3>2, Zenon
  <2>5. SrcWithDVs(n) = [Src EXCEPT !.dvs = dvs]
    BY DEF SrcWithDVs
  <2> HIDE DEF dvs
  <2>6. /\ SrcWithDVs(n) \in Worlds /\ SrcWithDVs(n).dvs = dvs
        /\ SrcWithDVs(n).snaps = Src.snaps /\ SrcWithDVs(n).imgs = Src.imgs
        /\ SrcWithDVs(n).was = Src.was /\ SrcWithDVs(n).power = Src.power
        /\ SrcWithDVs(n).kv = Src.kv
    BY <1>1, <2>3, <2>5 DEF Worlds
  <2>7. Accounted(ResWithDVs(n), SrcWithDVs(n))
    BY <1>3, <2>2, <2>4, <2>6, Zenon DEF Accounted
  <2> QED
    BY <1>3, <2>2, <2>6, <2>7, Zenon
<1>6. D \in Res.dvs .. D
  BY <1>3, DAssumption
<1>7. ASSUME NEW n \in Res.dvs .. D, Failed(ResWithDVs(n), SrcWithDVs(n))
      PROVE  GoesWell
  BY <1>5, <1>7, WellIfFailed, Zenon
<1>8. CASE Failed(Res, Src)
  BY <1>1, <1>3, <1>8, WellIfFailed, Zenon
<1> DEFINE r == ResWithDVs(D)
           w == SrcWithDVs(D)
<1>9. CASE Polled \subseteq {"Succeeded"} /\ Completed(r, w)
  <2>1. \A d \in Disks : w.dvs[d] = "Succeeded"
    BY <1>4, <1>9, Zenon DEF Polled, Disks
  <2>2. Whole(After(mem.vms[idx]), r, w, TRUE)
    BY <1>2, <1>5, <1>6, <2>1, ColdSuccessors, Zenon
       DEF Whole, BeforeStore, WhileOff, BeforeExport,
      BeforeCreate, AfterStart
  <2> QED
    BY <1>9, <2>2, WellIfCompleted, Zenon
<1>10. CASE NotYet(r, w)
  <2>1. Whole(mem.vms[idx], r, w, TRUE)
    BY <1>2, <1>5, <1>6, Zenon
       DEF Whole, BeforeStore, WhileOff, BeforeExport, BeforeCreate, AfterStart
  <2> QED
    BY <1>10, <2>1, WellIfWaits
<1> QED
  BY <1>4, <1>6, <1>7, <1>8, <1>9, <1>10
  DEF phaseImportDisks, FailedCall, FailedWithEffect, Answered, ImportedSoFar

\* The handlers that deal with the target, and phaseCleanup.
LEMMA WholeTargetPhase ==
  ASSUME IInv, EffectTypes, Answered, Whole(mem.vms[idx], Res, Src, TRUE),
         phaseCreateVM \/ phaseStartVM \/ phaseCleanup
  PROVE  GoesWell
<1> USE DEF FailedCall, FailedWithEffect, At, Answered, Whole, BeforeStore, WhileOff,
      BeforeExport, BeforeCreate, AfterStart
<1>1. Res \in Fields /\ Src \in Worlds
  BY AtFacts, Zenon DEF phaseCreateVM, phaseStartVM, phaseCleanup
<1>2. mem.vms[idx] \in {"CreateVM", "StartVM", "Cleanup"}
  BY Zenon DEF phaseCreateVM, phaseStartVM, phaseCleanup
<1>3. Accounted(Res, Src) /\ Res.orig = Src.was
  BY <1>2, Zenon
<1>4. CASE Failed(Res, Src)
  BY <1>1, <1>3, <1>4, WellIfFailed, Zenon
<1>5. CASE phaseCreateVM
  <2> DEFINE kv == IF Src.kv = "None" THEN "Stopped" ELSE Src.kv
             w == [Src EXCEPT !.kv = kv]
  <2>1. mem.vms[idx] = "CreateVM" /\ kv = "Stopped"
    BY <1>5 DEF phaseCreateVM
  <2> HIDE DEF kv
  <2>2. /\ w.was = Src.was /\ w.power = Src.power /\ w.snaps = Src.snaps
        /\ w.imgs = Src.imgs /\ w.dvs = Src.dvs /\ w.kv = kv
    BY <1>1 DEF Worlds
  <2> HIDE DEF w
  <2>3. Whole(After(mem.vms[idx]), Res, w, TRUE)
    BY <2>1, <2>2, ColdSuccessors, Zenon DEF Accounted
  <2>4. CASE Completed(Res, w)
    BY <2>3, <2>4, WellIfCompleted, Zenon
  <2> QED
    BY <1>4, <1>5, <2>4 DEF phaseCreateVM, w, kv
<1>6. CASE phaseStartVM
  <2> DEFINE w == [Src EXCEPT !.kv = "Running"]
  <2>1. mem.vms[idx] = "StartVM"
    BY <1>6 DEF phaseStartVM
  <2>2. /\ w.was = Src.was /\ w.power = Src.power /\ w.snaps = Src.snaps
        /\ w.imgs = Src.imgs /\ w.dvs = Src.dvs /\ w.kv = "Running"
    BY <1>1, Zenon DEF Worlds
  <2> HIDE DEF w
  <2>3. CASE TargetRunning /\ Completed(Res, w)
    <3>1. Whole(After(mem.vms[idx]), Res, w, TRUE)
      BY <2>1, <2>2, <2>3, ColdSuccessors, Zenon DEF Accounted, Target
    <3> QED
      BY <2>3, <3>1, WellIfCompleted, Zenon
  <2>4. CASE ~TargetRunning /\ Completed(Res, Src)
    <3>1. Whole(After(mem.vms[idx]), Res, Src, TRUE)
      BY <2>1, <2>4, ColdSuccessors, Zenon DEF Target
    <3> QED
      BY <2>4, <3>1, WellIfCompleted, Zenon
  <2> QED
    BY <1>4, <1>6, <2>3, <2>4 DEF phaseStartVM, w
<1>7. CASE phaseCleanup
  <2> DEFINE w == [Src EXCEPT !.imgs = Src.imgs \ Res.imgs, !.snaps = Src.snaps \ {Res.snap}]
  <2>1. mem.vms[idx] = "Cleanup" /\ Completed(Res, w)
    BY <1>7, Zenon DEF phaseCleanup, BestEffort
  <2>2. Src.imgs \ Res.imgs = {} /\ Src.snaps \ {Res.snap} = {}
    BY <1>3, Zenon DEF Accounted
  <2>3. /\ w.was = Src.was /\ w.power = Src.power /\ w.snaps = {}
        /\ w.imgs = {} /\ w.dvs = Src.dvs /\ w.kv = Src.kv
    BY <1>1, <2>2, Zenon DEF Worlds
  <2> HIDE DEF w
  <2>4. Whole(After(mem.vms[idx]), Res, w, TRUE)
    BY <2>1, <2>3, ColdSuccessors, Zenon DEF Accounted
  <2> QED
    BY <2>1, <2>4, WellIfCompleted, Zenon
<1> QED
  BY <1>5, <1>6, <1>7, Zenon

LEMMA WholePhase ==
  ASSUME Counted, IInv, ColdInv, Answered, Whole(mem.vms[idx], Res, Src, TRUE), executePhase
  PROVE  GoesWell /\ UNCHANGED <<objRes, cacheRes>>
<1>1. EffectTypes
  BY DEF ColdInv
<1> QED
  BY <1>1, PhaseEffect, WholeSourcePhase, WholeCreateSnapshot, WholeExportDisks,
    WholeImportDisks, WholeTargetPhase DEF executePhase, SharedPhase

\* Listing, starting and cancelling a VM, and deleting the Migration.
LEMMA WholeIdle ==
  ASSUME NEW p, NEW q, NEW r, NEW w, NEW e, NEW f, Whole(p, r, w, e), f => e,
         \/ q = p
         \/ p = "None" /\ q = "Pending"
         \/ p = "Pending" /\ q = "PreHook"
         \/ q = "Cancelled"
  PROVE  Whole(q, r, w, f)
  BY Zenon DEF Whole, BeforeStore, WhileOff, BeforeExport, BeforeCreate, AfterStart

LEMMA WholeDrift ==
  ASSUME NEW p, NEW r, NEW w \in Worlds, NEW c, NEW e \in BOOLEAN,
         Whole(p, r, w, e), Drifts(w, c, e)
  PROVE  Whole(p, r, c, e)
<1>1. w.was \in {"ON", "OFF"}
  BY DEF Worlds
<1>2. Accounted(r, w) => Accounted(r, c)
  BY <1>1, Zenon DEF Accounted, Drifts
<1>3. NoDataLeft(w) => NoDataLeft(c)
  BY Zenon DEF NoDataLeft, Drifts
<1>4. ASSUME e, \A d \in Disks : w.dvs[d] = "Succeeded"
      PROVE \A d \in Disks : c.dvs[d] = "Succeeded"
  BY <1>4, Zenon DEF Drifts
<1>5. w.power = w.was => c.power = c.was
  BY <1>1, Zenon DEF Drifts
<1>6. w.power = "OFF" => c.power = "OFF"
  BY Zenon DEF Drifts
<1>7. c.was = w.was /\ c.kv = w.kv /\ c.snaps = w.snaps /\ c.imgs = w.imgs
  BY DEF Drifts
<1> QED
  BY <1>2, <1>3, <1>4, <1>5, <1>6, <1>7, Zenon DEF Whole

LEMMA ColdDrifts ==
  ASSUME ColdInv, PipelineCloud
  PROVE  \A v \in VMs : Drifts(world[v], world'[v], obj.exists)
<1>1. world \in [VMs -> WorldsOf({{}})]
  BY DEF ColdInv, EffectTypes, Worlds, WorldsOf
<1> QED
  BY <1>1, CloudDrifts, Zenon

LEMMA InitWhole == PipelineInit => CalmInv /\ WholeInv
<1> SUFFICES ASSUME PipelineInit PROVE CalmInv /\ WholeInv
  OBVIOUS
<1>1. /\ pc = "idle" /\ obj = NewObject /\ objRes = NoRes /\ cacheRes = NoRes /\ memRes = NoRes
      /\ world \in [VMs -> {NewWorld("ON"), NewWorld("OFF")}]
  BY Zenon DEF PipelineInit, Init
<1>2. PerVM(NoRes)
  BY DEF PerVM, NoRes
<1>3. CalmInv
  BY <1>1, <1>2 DEF CalmInv, PerVM
<1>4. ASSUME NEW v \in VMs PROVE Whole("None", NoRes[v], world[v], TRUE)
  <2>1. /\ NoRes[v].orig = "" /\ NoRes[v].imgs = {} /\ NoRes[v].snap = 0
    BY Zenon DEF NoRes
  <2>2. PICK x \in {"ON", "OFF"} : world[v] = NewWorld(x)
    BY <1>1, Zenon
  <2>3. /\ world[v].was = x /\ world[v].power = x /\ world[v].snaps = {} /\ world[v].imgs = {}
        /\ world[v].kv = "None" /\ \A d \in Disks : world[v].dvs[d] = "None"
    BY <2>2 DEF NewWorld
  <2> QED
    BY <2>1, <2>3, Zenon DEF Whole, Accounted, BeforeStore, WhileOff, BeforeExport, BeforeCreate,
      AfterStart
<1>5. \A v \in VMs : PhaseOf(v) = "None" /\ ResOf(v) = NoRes[v]
  BY <1>1, Zenon DEF PhaseOf, ResOf, NewObject
<1>6. obj.exists
  BY <1>1, Zenon DEF NewObject
<1> QED
  BY <1>3, <1>4, <1>5, <1>6, WholeIdle, Zenon DEF WholeInv

LEMMA WholeStep ==
  ASSUME Counted, Undisturbed, Answered, IInv, ColdInv, CalmInv, WholeInv, [ColdNext]_allVars, ColdInv'
  PROVE  CalmInv' /\ WholeInv'
<1>0. obj.exists \in BOOLEAN
  BY Zenon DEF IInv, TypeOK, Objects
<1>1. CASE executePhase
  <2>1. AtPhase
    BY <1>1, Zenon DEF executePhase, SharedPhase, runHook, phaseStorePowerState, phasePowerOff,
      phaseWaitForPowerOff, phaseCreateSnapshot, phaseExportDisks, phaseImportDisks,
      phaseCreateVM, phaseStartVM, phaseCleanup, At
  <2>2. idx \in VMs /\ pc = "pass" /\ obj.exists
    BY <2>1, HandledVM, Zenon DEF CalmInv, IInv, FreshInv, Reconcilable
  <2>3. Whole(mem.vms[idx], Res, Src, obj.exists)
    BY <2>2, Zenon DEF WholeInv, PhaseOf, ResOf, Res, Src
  <2>4. Whole(mem.vms[idx], Res, Src, TRUE)
    BY <2>2, <2>3, WholeIdle, Zenon
  <2>5. PICK q, r, w : Answers(q, r, w) /\ Whole(q, r, w, TRUE)
    BY <1>1, <2>4, WholePhase, Zenon DEF GoesWell
  <2>6. UNCHANGED <<objRes, cacheRes>>
    BY <1>1, <2>4, WholePhase
  <2>7. /\ CalmInv' /\ obj' = obj
        /\ \A v \in VMs :
              /\ PhaseOf(v)' = IF v = idx THEN q ELSE PhaseOf(v)
              /\ ResOf(v)' = IF v = idx THEN r ELSE ResOf(v)
              /\ world'[v] = IF v = idx THEN w ELSE world[v]
    BY <2>5, <2>6, AnswerStep, Zenon
  <2>8. Whole(q, r, w, obj.exists)
    BY <2>5, WholeIdle, Zenon
  <2>9. ASSUME NEW v \in VMs
        PROVE  Whole(PhaseOf(v)', ResOf(v)', world'[v], obj'.exists)
    <3>1. CASE v = idx
      BY <2>7, <2>8, <3>1, Zenon
    <3>2. CASE v # idx
      BY <2>7, <3>2, Zenon DEF WholeInv
    <3> QED
      BY <3>1, <3>2, Zenon
  <2> QED
    BY <2>7, <2>9 DEF WholeInv
<1>2. CASE \/ ReconcileOnly \/ PipelineBeginPass \/ PipelineSaveStatus \/ PipelineLoseStatus
           \/ PipelineUser \/ PipelineCrash \/ PipelineDeliver
  <2>1. /\ CalmInv' /\ ExistsStays
        /\ \A v \in VMs : Idles(v)
        /\ UNCHANGED world
    BY <1>2, IdleStep, Zenon
  <2>2. ASSUME NEW v \in VMs
        PROVE  Whole(PhaseOf(v)', ResOf(v)', world'[v], obj'.exists)
    <3>1. Whole(PhaseOf(v), ResOf(v), world[v], obj.exists)
      BY Zenon DEF WholeInv
    <3>2. Whole(PhaseOf(v)', ResOf(v), world[v], obj'.exists)
      BY <2>1, <3>1, WholeIdle, Zenon DEF Idles, ExistsStays
    <3> QED
      BY <2>1, <3>2, Zenon DEF Idles
  <2> QED
    BY <2>1, <2>2 DEF WholeInv
<1>3. CASE PipelineCloud
  <2>1. UNCHANGED <<vars, resVars>>
    BY <1>3, Zenon DEF PipelineCloud, PowerSettles, KubeVirtVMSeen, ImportEnds, GarbageCollect
  <2>2. PerVM(world)'
    BY Zenon DEF ColdInv, EffectTypes, PerVM
  <2>3. CalmInv'
    BY <2>1, <2>2, Zenon DEF CalmInv, PerVM, vars, resVars
  <2>4. ASSUME NEW v \in VMs
        PROVE  Whole(PhaseOf(v)', ResOf(v)', world'[v], obj'.exists)
    <3>1. Whole(PhaseOf(v), ResOf(v), world[v], obj.exists) /\ world[v] \in Worlds
      BY DEF WholeInv, ColdInv, EffectTypes
    <3>2. Whole(PhaseOf(v), ResOf(v), world'[v], obj.exists)
      BY <1>0, <1>3, <3>1, ColdDrifts, WholeDrift, Zenon
    <3>3. PhaseOf(v)' = PhaseOf(v) /\ ResOf(v)' = ResOf(v) /\ obj' = obj
      BY <2>1, Zenon DEF PhaseOf, ResOf, vars, resVars
    <3> QED
      BY <3>2, <3>3, Zenon
  <2> QED
    BY <2>3, <2>4 DEF WholeInv
<1>4. CASE UNCHANGED allVars
  BY <1>4, Zenon DEF allVars, vars, pipelineVars, CalmInv, PerVM, WholeInv, PhaseOf, ResOf
<1> QED
  BY <1>1, <1>2, <1>3, <1>4, Zenon DEF ColdNext, ColdController

----------------------------------------------------------------------------
(* What may be lost and repeated, as long as no pass starts from an old    *)
(* version: the target is made of imported disks only, and started only    *)
(* beside a stopped source.                                                *)

\* A pass that reaches one of these phases leaves it again: no handler waits.
Passing == {"CreateVM", "StartVM"}

\* The saved status of v, and the copy of it a pass works on: an import has an
\* image for every disk, a saved one also a DataVolume, and the copy names at
\* least as many DataVolumes.  CreateVM is reached when all are imported.
Repeatable(v) ==
  /\ obj.vms[v] \notin Passing
  /\ mem.vms[v] \in Passing => pc = "pass" /\ idx = v
  /\ objRes[v].imgs \subseteq 1 .. made /\ memRes[v].imgs \subseteq 1 .. made
  /\ obj.vms[v] = "ImportDisks" => Cardinality(objRes[v].imgs) = D /\ objRes[v].dvs = D
  /\ mem.vms[v] = "ImportDisks" =>
       Cardinality(memRes[v].imgs) = D /\ (idx # v => memRes[v].dvs = D)
  /\ pc = "pass" => objRes[v].dvs <= memRes[v].dvs
  /\ world[v].kvSeen => world[v].kv # "None"
  /\ mem.vms[v] = "CreateVM" => \A d \in Disks : world[v].dvs[d] = "Succeeded"

RepeatInv ==
  /\ cacheFresh => cacheRes = objRes
  /\ pc = "pass" => obj.exists /\ obj.finalizer
  /\ \A v \in VMs : Repeatable(v)

\* A source whose import is under way is off, unless a failure that was lost
\* has deleted every DataVolume.
Importable(r, w) == w.power = "OFF" \/ (r.dvs = D /\ \A d \in Disks : w.dvs[d] = "None")

OffInv ==
  \A v \in VMs :
    /\ mem.vms[v] \in Passing => world[v].power = "OFF"
    /\ mem.vms[v] = "ImportDisks" => Importable(memRes[v], world[v])
    /\ obj.vms[v] = "ImportDisks" => Importable(objRes[v], world[v])

\* Each of these phases follows one phase only.
LEMMA ColdPredecessors ==
  ASSUME NEW p
  PROVE  /\ After(p) = "CreateSnapshot" => p = "WaitForPowerOff"
         /\ After(p) = "ExportDisks" => p = "CreateSnapshot"
         /\ After(p) = "ImportDisks" => p = "ExportDisks"
         /\ After(p) = "CreateVM" => p = "ImportDisks"
         /\ After(p) = "StartVM" => p = "CreateVM"
<1>1. Len(phaseOrder) - 1 = 12 /\ OrderOf("cold") = phaseOrder
  BY DEF OrderOf, phaseOrder
<1>2. CASE \E i \in 1 .. 12 : phaseOrder[i] = p
  <2>1. PICK i \in 1 .. 12 : phaseOrder[i] = p
    BY <1>2
  <2>2. After(p) = phaseOrder[i + 1]
    BY <2>1, ColdSequence
  <2> QED
    BY <2>1, <2>2 DEF phaseOrder
<1>3. CASE ~ \E i \in 1 .. 12 : phaseOrder[i] = p
  <2>1. After(p) = p
    BY <1>1, <1>3, Zenon DEF After, nextPhaseInOrder
  <2> QED
    BY <1>3, <2>1 DEF phaseOrder
<1> QED
  BY <1>2, <1>3

\* How a handler ends: the effect (r, w) before, and the world c after, a
\* cleanup, and the phase q that comes next.
Ending(q, r, w, c) ==
  /\ Effect(r, w) /\ Answers(q, r, c) /\ c \in Worlds
  /\ c.kv = w.kv /\ c.kvSeen = w.kvSeen
  /\ \/ q = After(mem.vms[idx]) /\ c = w /\ idx' = idx /\ Done(r, w)
     \/ /\ q = mem.vms[idx] /\ c = w /\ q \in WaitingPhases
        /\ q = "ImportDisks" /\ Cardinality(Res.imgs) = D => r.imgs = Res.imgs /\ r.dvs = D
     \/ /\ q = "Failed" /\ idx' = idx
        /\ Fault("CleanupError") \/ \A d \in Disks : d <= r.dvs => c.dvs[d] = "None"

LEMMA HandlerEnds ==
  ASSUME Counted, IInv, ColdInv, executePhase
  PROVE  \E q, r, w, c : Ending(q, r, w, c)
<1>0. EffectTypes
  BY DEF ColdInv
<1>1. PICK r \in Fields, w \in Worlds : Effect(r, w)
  BY <1>0, PhaseEffect
<1>2. passType = "cold"
  BY ColdAssumption DEF IInv, TypeOK
<1>3. CASE Completed(r, w) /\ Done(r, w)
  <2>1. Ending(After(mem.vms[idx]), r, w, w)
    <3>1. Answers(After(mem.vms[idx]), r, w)
      BY <1>2, <1>3, CompletedAnswers DEF After
    <3> QED
      BY <1>1, <1>3, <3>1 DEF Ending, Completed, PhaseCompleted
  <2> QED
    BY <2>1
<1>4. CASE /\ NotYet(r, w)
           /\ mem.vms[idx] = "ImportDisks" /\ Cardinality(Res.imgs) = D =>
                r.imgs = Res.imgs /\ r.dvs = D
  <2>1. Ending(mem.vms[idx], r, w, w)
    <3>1. Answers(mem.vms[idx], r, w)
      BY <1>4, NotYetAnswers, Zenon
    <3> QED
      BY <1>1, <1>4, <3>1, Zenon DEF Ending, NotYet, PhaseWaits
  <2> QED
    BY <2>1
<1>5. CASE Failed(r, w)
  <2>1. idx \in VMs
    BY <1>5, HandledVM DEF Failed, PhaseFailed
  <2>2. PICK c \in Worlds :
          /\ world' = [world EXCEPT ![idx] = c]
          /\ c.kv = w.kv /\ c.kvSeen = w.kvSeen
          /\ Fault("CleanupError") \/ \A d \in Disks : d <= r.dvs => c.dvs[d] = "None"
    BY <1>0, <1>5, <2>1, CleanupFacts, Zenon DEF Failed
  <2>3. Answers("Failed", r, c)
    BY <1>5, <2>2, FailedAnswers, Zenon
  <2>4. Ending("Failed", r, w, c)
    BY <1>1, <1>5, <2>2, <2>3, Zenon DEF Ending, Failed, PhaseFailed
  <2> QED
    BY <2>4
<1> QED
  BY <1>1, <1>3, <1>4, <1>5, Zenon DEF Effect

\* What CreatedFromImportedDisks and BootsWithSourceOff say of one step.
CreateStep ==
  \A v \in VMs : world[v].kv = "None" /\ world'[v].kv # "None" =>
    \A d \in Disks : world[v].dvs[d] = "Succeeded"
BootStep ==
  \A v \in VMs : world[v].kv # "Running" /\ world'[v].kv = "Running" =>
    world[v].power = "OFF"

\* An answer changes what belongs to the VM at idx, and nothing else.
LEMMA AnswerMoves ==
  ASSUME IInv, ColdInv, NEW q, NEW r, NEW c, Answers(q, r, c)
  PROVE  /\ idx \in VMs /\ pc = "pass" /\ UNCHANGED <<obj, cacheFresh, pc>>
         /\ \A v \in VMs : /\ mem'.vms[v] = IF v = idx THEN q ELSE mem.vms[v]
                           /\ memRes'[v] = IF v = idx THEN r ELSE memRes[v]
                           /\ world'[v] = IF v = idx THEN c ELSE world[v]
<1>1. idx \in VMs /\ pc = "pass"
  BY HandledVM, Zenon DEF Answers
<1> QED
  BY <1>1, Zenon DEF Answers, ColdInv, EffectTypes, apiVars

LEMMA RepeatPhase ==
  ASSUME Counted, IInv, ColdInv, RepeatInv, executePhase
  PROVE  RepeatInv' /\ CreateStep
<1> DEFINE p == mem.vms[idx]
<1>1. PICK q, r, w, c : Ending(q, r, w, c)
  BY HandlerEnds
<1>2. /\ idx \in VMs /\ pc = "pass" /\ UNCHANGED <<obj, cacheFresh, pc>>
      /\ \A v \in VMs : /\ mem'.vms[v] = IF v = idx THEN q ELSE mem.vms[v]
                        /\ memRes'[v] = IF v = idx THEN r ELSE memRes[v]
                        /\ world'[v] = IF v = idx THEN c ELSE world[v]
  <2>1. Answers(q, r, c)
    BY <1>1, Zenon DEF Ending
  <2> QED
    BY <2>1, AnswerMoves, Zenon
<1>3. UNCHANGED <<objRes, cacheRes>> /\ made' \in 0 .. MaxMade /\ made \in 0 .. MaxMade
  BY PhaseEffect, Zenon DEF ColdInv, EffectTypes
<1>4. Repeatable(idx) /\ Res = memRes[idx] /\ Src = world[idx]
  BY <1>2 DEF RepeatInv, Res, Src
<1>5. Keeps(r, w) /\ r \in Fields /\ Res \in Fields /\ objRes[idx] \in Fields
  BY <1>1, <1>2, <1>4, Zenon DEF Ending, Effect, ColdInv, EffectTypes
<1>6. made <= made' /\ 1 .. made \subseteq 1 .. made' /\ made + 1 .. made' \subseteq 1 .. made'
  BY <1>3, <1>5, BoundsAssumption DEF Keeps
<1>7. r.imgs \subseteq 1 .. made'
  BY <1>4, <1>5, <1>6, Zenon DEF Keeps, Repeatable
<1>8. objRes[idx].dvs <= r.dvs
  <2>1. objRes[idx].dvs \in 0 .. D /\ Res.dvs \in 0 .. D /\ r.dvs \in 0 .. D
    BY <1>5, Zenon DEF Fields
  <2>2. objRes[idx].dvs <= Res.dvs /\ Res.dvs <= r.dvs
    BY <1>2, <1>4, <1>5, Zenon DEF Keeps, Repeatable
  <2> QED
    BY <2>1, <2>2, DAssumption
<1>9. c.kvSeen => c.kv # "None"
  BY <1>1, <1>4, <1>5, Zenon DEF Ending, Keeps, Repeatable
<1>10. q \in Passing => idx' = idx
  BY <1>1, Zenon DEF Ending, Passing, WaitingPhases
<1>11. q = "CreateVM" => \A d \in Disks : c.dvs[d] = "Succeeded"
  <2> SUFFICES ASSUME q = "CreateVM" PROVE \A d \in Disks : c.dvs[d] = "Succeeded"
    OBVIOUS
  <2>1. q = After(p) /\ c = w /\ Done(r, w)
    BY <1>1, Zenon DEF Ending, WaitingPhases
  <2>2. p = "ImportDisks"
    BY <2>1, ColdPredecessors
  <2> QED
    BY <1>4, <2>1, <2>2, Zenon DEF Done, Repeatable
<1>12. q = "ImportDisks" => Cardinality(r.imgs) = D /\ (idx' # idx => r.dvs = D)
  <2> SUFFICES ASSUME q = "ImportDisks"
               PROVE  Cardinality(r.imgs) = D /\ (idx' # idx => r.dvs = D)
    BY Zenon
  <2>1. CASE q = After(p) /\ idx' = idx /\ Done(r, w)
    <3>1. p = "ExportDisks"
      BY <2>1, ColdPredecessors
    <3> QED
      BY <1>4, <2>1, <3>1, Zenon DEF Done, Repeatable
  <2>2. CASE /\ q = p
             /\ q = "ImportDisks" /\ Cardinality(Res.imgs) = D => r.imgs = Res.imgs /\ r.dvs = D
    BY <1>4, <2>2, Zenon DEF Repeatable
  <2> QED
    BY <1>1, <2>1, <2>2, Zenon DEF Ending
<1>13. ASSUME NEW v \in VMs PROVE Repeatable(v)'
  <2>1. Repeatable(v)
    BY DEF RepeatInv
  <2>2. CASE v = idx
    BY <1>2, <1>3, <1>4, <1>6, <1>7, <1>8, <1>9, <1>10, <1>11, <1>12, <2>2, Zenon DEF Repeatable
  <2>3. CASE v # idx
    BY <1>2, <1>3, <1>6, <2>1, <2>3, Zenon DEF Repeatable, Passing
  <2> QED
    BY <2>2, <2>3
<1>14. CreateStep
  <2>1. Src.kv = "None" /\ c.kv # "None" => p = "CreateVM"
    BY <1>1, <1>4, <1>5, Zenon DEF Ending, Keeps, Repeatable
  <2> QED
    BY <1>2, <1>4, <2>1, Zenon DEF CreateStep, Repeatable
<1> QED
  BY <1>2, <1>3, <1>13, <1>14 DEF RepeatInv

LEMMA OffPhase ==
  ASSUME Counted, IInv, ColdInv, RepeatInv, OffInv, ~Fault("CleanupError"), executePhase
  PROVE  OffInv' /\ BootStep
<1> DEFINE p == mem.vms[idx]
<1>1. PICK q, r, w, c : Ending(q, r, w, c)
  BY HandlerEnds
<1>2. /\ idx \in VMs /\ pc = "pass" /\ UNCHANGED <<obj, cacheFresh, pc>>
      /\ \A v \in VMs : /\ mem'.vms[v] = IF v = idx THEN q ELSE mem.vms[v]
                        /\ memRes'[v] = IF v = idx THEN r ELSE memRes[v]
                        /\ world'[v] = IF v = idx THEN c ELSE world[v]
  <2>1. Answers(q, r, c)
    BY <1>1, Zenon DEF Ending
  <2> QED
    BY <2>1, AnswerMoves, Zenon
<1>3. UNCHANGED <<objRes, cacheRes>>
  BY PhaseEffect DEF ColdInv
<1>4. Repeatable(idx) /\ Res = memRes[idx] /\ Src = world[idx]
  BY <1>2, Zenon DEF RepeatInv, Res, Src
<1>5. Keeps(r, w) /\ r \in Fields /\ Res \in Fields /\ objRes[idx] \in Fields
  BY <1>1, <1>2, <1>4, Zenon DEF Ending, Effect, ColdInv, EffectTypes
<1>6. Res.dvs = D => r.dvs = D
  <2>1. Res.dvs \in 0 .. D /\ r.dvs \in 0 .. D
    BY <1>5, Zenon DEF Fields
  <2> QED
    BY <1>5, <2>1, Numbers, Zenon DEF Keeps
<1>7. 1 \in Disks /\ \A d \in Disks : d <= D
  BY DAssumption DEF Disks
<1>8. q # "Failed" => c = w
  BY <1>1, Zenon DEF Ending
<1>9. q \in Passing => c.power = "OFF"
  <2> SUFFICES ASSUME q \in Passing PROVE c.power = "OFF"
    OBVIOUS
  <2>1. q = After(p) /\ c = w /\ Done(r, w)
    BY <1>1, Zenon DEF Ending, Passing, WaitingPhases
  <2>2. CASE p = "CreateVM"
    BY <1>2, <1>4, <1>5, <2>1, <2>2, Zenon DEF OffInv, Passing, Keeps
  <2>3. CASE p = "ImportDisks"
    <3>1. \A d \in Disks : w.dvs[d] = "Succeeded"
      BY <1>4, <2>1, <2>3 DEF Done, Repeatable
    <3>2. Importable(Res, Src)
      BY <1>2, <1>4, <2>3, Zenon DEF OffInv
    <3> QED
      BY <1>5, <1>7, <2>1, <3>1, <3>2, Zenon DEF Keeps, Importable
  <2> QED
    BY <2>1, <2>2, <2>3, ColdPredecessors, Zenon DEF Passing
<1>10. q = "ImportDisks" => Importable(r, c)
  <2> SUFFICES ASSUME q = "ImportDisks" PROVE Importable(r, c)
    OBVIOUS
  <2>1. c = w
    BY <1>8, Zenon
  <2>2. CASE p = "ExportDisks"
    <3>1. Src.power = "OFF"
      BY <1>2, <1>4, <2>2, Zenon DEF ColdInv, StoppedInv, Exporting
    <3> QED
      BY <1>5, <2>1, <3>1, Zenon DEF Keeps, Importable
  <2>3. CASE p = "ImportDisks"
    <3>1. Importable(Res, Src)
      BY <1>2, <1>4, <2>3, Zenon DEF OffInv
    <3> QED
      BY <1>5, <1>6, <2>1, <3>1 DEF Keeps, Importable
  <2> QED
    BY <1>1, <2>2, <2>3, ColdPredecessors, Zenon DEF Ending
<1>11. obj.vms[idx] = "ImportDisks" => Importable(objRes[idx], c)
  <2> SUFFICES ASSUME obj.vms[idx] = "ImportDisks" PROVE Importable(objRes[idx], c)
    OBVIOUS
  <2>1. objRes[idx].dvs = D /\ Importable(objRes[idx], Src)
    BY <1>2, <1>4, Zenon DEF OffInv, Repeatable
  <2>2. Res.dvs = D
    <3>1. objRes[idx].dvs <= Res.dvs /\ Res.dvs \in 0 .. D
      BY <1>2, <1>4, <1>5, Zenon DEF Repeatable, Fields
    <3> QED
      BY <2>1, <3>1, DAssumption
  <2>3. CASE q = "Failed"
    <3>1. \A d \in Disks : c.dvs[d] = "None" \/ c = w
      BY <1>1, <1>6, <1>7, <2>2, Zenon DEF Ending
    <3> QED
      BY <1>5, <2>1, <2>2, <3>1 DEF Importable, Keeps
  <2>4. CASE q # "Failed"
    BY <1>5, <1>8, <2>1, <2>2, <2>4, Zenon DEF Importable, Keeps
  <2> QED
    BY <2>3, <2>4, Zenon
<1>12. OffInv'
  <2> SUFFICES ASSUME NEW v \in VMs
               PROVE  /\ mem'.vms[v] \in Passing => world'[v].power = "OFF"
                      /\ mem'.vms[v] = "ImportDisks" => Importable(memRes'[v], world'[v])
                      /\ obj'.vms[v] = "ImportDisks" => Importable(objRes'[v], world'[v])
    BY DEF OffInv, Importable
  <2>1. CASE v = idx
    BY <1>2, <1>3, <1>9, <1>10, <1>11, <2>1, Zenon
  <2>2. CASE v # idx
    BY <1>2, <1>3, <2>2, Zenon DEF OffInv
  <2> QED
    BY <2>1, <2>2, Zenon
<1>13. BootStep
  <2>1. Src.kv # "Running" /\ c.kv = "Running" => p = "StartVM"
    BY <1>1, <1>5, Zenon DEF Ending, Keeps
  <2> QED
    BY <1>2, <1>4, <2>1, Zenon DEF BootStep, OffInv, Passing
<1> QED
  BY <1>12, <1>13

\* The steps between the handlers.
LEMMA RepeatIdle ==
  ASSUME IInv, ColdInv, RepeatInv, ~May("StaleRead"),
         \/ ReconcileOnly \/ PipelineBeginPass \/ PipelineSaveStatus \/ PipelineLoseStatus
         \/ PipelineUser \/ PipelineCrash \/ PipelineDeliver
  PROVE  /\ RepeatInv' /\ (OffInv => OffInv')
         /\ \A v \in VMs : world'[v].kv = world[v].kv
<1>0. /\ obj \in Objects /\ cache \in Objects /\ mem \in Objects
      /\ (cacheFresh => cache = obj) /\ made \in 0 .. MaxMade /\ idx \in 1 .. N + 1
  BY DEF IInv, TypeOK, FlagsInv, ColdInv, EffectTypes
<1>1. CASE UNCHANGED pipelineVars /\ (ReconcileNothing \/ AddFinalizer
             \/ handleDeletion \/ setMigrationFailed)
  <2>1. /\ obj'.vms = obj.vms /\ UNCHANGED <<mem, pc, idx>> /\ (cacheFresh' => cacheFresh)
        /\ pc = "idle"
    <3>1. CASE ReconcileNothing
      BY <3>1, Zenon DEF ReconcileNothing, apiVars, passVars, Dequeue
    <3>2. CASE AddFinalizer \/ handleDeletion \/ setMigrationFailed
      <4>1. cacheFresh' = FALSE /\ UNCHANGED <<mem, pc, idx>> /\ pc = "idle"
        BY <3>2 DEF AddFinalizer, handleDeletion, setMigrationFailed, Write, passVars, Dequeue
      <4>2. obj'.vms = obj.vms
        BY <1>0, <3>2, Zenon DEF AddFinalizer, handleDeletion, setMigrationFailed, Write, Objects
      <4> QED
        BY <4>1, <4>2
    <3> QED
      BY <1>1, <3>1, <3>2, Zenon
  <2> QED
    BY <1>1, <2>1, Zenon DEF pipelineVars, RepeatInv, Repeatable, OffInv, Importable
<1>2. CASE PipelineUser
  <2>1. cacheFresh' = FALSE /\ UNCHANGED <<mem, pc, idx>>
    BY <1>2 DEF PipelineUser, CancelVM, RequestDelete, PatchObject, Write, passVars
  <2>2. obj'.vms = obj.vms /\ obj'.finalizer = obj.finalizer /\ obj.exists
    BY <1>0, <1>2, Zenon DEF PipelineUser, CancelVM, RequestDelete, PatchObject, Write, UserMayWrite,
      Objects
  <2>3. obj.finalizer => obj'.exists
    BY <1>0, <1>2, Zenon DEF PipelineUser, CancelVM, RequestDelete, PatchObject, Write, UserMayWrite,
      Objects
  <2>4. UNCHANGED pipelineVars
    BY <1>2 DEF PipelineUser
  <2> QED
    BY <2>1, <2>2, <2>3, <2>4, Zenon DEF pipelineVars, RepeatInv, Repeatable, OffInv, Importable
<1>3. CASE UNCHANGED pipelineVars /\ (SkipTerminal \/ SkipPending \/ StartPending)
  <2>1. /\ UNCHANGED <<obj, cacheFresh, pc>> /\ pc = "pass" /\ idx \in VMs
        /\ mem.vms[idx] \notin Passing \cup {"ImportDisks"}
    BY <1>3 DEF SkipTerminal, SkipPending, StartPending, AtVM, apiVars, isTerminalVMPhase,
      TerminalVMPhases, Passing
  <2>2. \A v \in VMs : mem'.vms[v] \in {mem.vms[v], "PreHook"}
    BY <1>0, <1>3 DEF SkipTerminal, SkipPending, StartPending, Objects
  <2>3. \A v \in VMs : mem'.vms[v] \notin Passing
    <3>1. \A v \in VMs : mem.vms[v] \notin Passing
      BY <2>1, Zenon DEF RepeatInv, Repeatable
    <3> QED
      BY <2>2, <3>1, Zenon DEF Passing
  <2>4. \A v \in VMs : mem'.vms[v] = "ImportDisks" => mem.vms[v] = "ImportDisks" /\ idx # v
    BY <2>1, <2>2, Zenon
  <2> QED
    BY <1>3, <2>1, <2>3, <2>4, Zenon
       DEF pipelineVars, RepeatInv, Repeatable, OffInv, Importable, Passing
<1>4. CASE PipelineBeginPass
  <2>1. /\ cacheFresh /\ UNCHANGED <<obj, cacheFresh, objRes, cacheRes, world, made>>
        /\ memRes' = objRes /\ pc' = "pass" /\ Reconcilable(obj) /\ idx' = 1
    BY <1>0, <1>4 DEF PipelineBeginPass, BeginPass, Dequeue, apiVars, envVars, RepeatInv
  <2>2. \A v \in VMs : mem'.vms[v] \in {obj.vms[v], "Pending", "Cancelled"}
    <3> DEFINE o == initializeVMStatuses(obj)
    <3>1. o \in Objects /\ \A v \in VMs : o.vms[v] \in {obj.vms[v], "Pending"}
      BY <1>0, Zenon DEF initializeVMStatuses, Objects, VMPhases, MigrationPhaseSet
    <3>2. mem' = processCancellations(o)
      BY <1>0, <1>4, <2>1, Zenon DEF PipelineBeginPass, BeginPass
    <3> HIDE DEF o
    <3> QED
      BY <3>1, <3>2 DEF processCancellations, Objects
  <2>3. obj.exists /\ obj.finalizer
    BY <2>1, Zenon DEF Reconcilable
  <2>4. \A v \in VMs : objRes[v].dvs <= objRes[v].dvs
    <3>1. \A v \in VMs : objRes[v].dvs \in 0 .. D
      BY Zenon DEF ColdInv, EffectTypes, Fields
    <3> QED
      BY <3>1, DAssumption
  <2> QED
    BY <2>1, <2>2, <2>3, <2>4, Zenon DEF RepeatInv, Repeatable, OffInv, Importable, Passing
<1>5. CASE PipelineSaveStatus \/ PipelineLoseStatus
  <2>1. /\ pc' = "idle" /\ mem' = NewObject /\ memRes' = NoRes /\ UNCHANGED <<cacheRes, world, made>>
        /\ idx > N
        /\ cacheFresh' => cacheFresh
    BY <1>5 DEF PipelineSaveStatus, PipelineLoseStatus, SaveStatus, LoseStatus, EndPass, PassDone,
      envVars
  <2>2. \/ obj' = obj /\ objRes' = objRes
        \/ /\ obj'.vms = mem.vms /\ objRes' = memRes
           /\ cacheFresh' => memRes = objRes
    BY <1>0, <1>5, Zenon DEF PipelineSaveStatus, PipelineLoseStatus, SaveStatus, LoseStatus,
      updateOverallStatus, Objects
  <2>3. idx \notin VMs
    BY <1>0, <2>1, NAssumption DEF VMs
  <2>4. \A v \in VMs : /\ mem'.vms[v] = "None" /\ memRes'[v].imgs = {}
                       /\ mem.vms[v] \notin Passing
                       /\ mem.vms[v] = "ImportDisks" => memRes[v].dvs = D
    BY <2>1, <2>3, Zenon DEF NewObject, NoRes, RepeatInv, Repeatable
  <2>5. ASSUME NEW v \in VMs PROVE Repeatable(v)'
    <3>1. Repeatable(v)
      BY Zenon DEF RepeatInv
    <3>2. \/ obj'.vms[v] = obj.vms[v] /\ objRes'[v] = objRes[v]
          \/ obj'.vms[v] = mem.vms[v] /\ objRes'[v] = memRes[v]
      BY <2>2, Zenon
    <3>3. obj'.vms[v] \notin Passing /\ objRes'[v].imgs \subseteq 1 .. made
          /\ (obj'.vms[v] = "ImportDisks" => Cardinality(objRes'[v].imgs) = D /\ objRes'[v].dvs = D)
      BY <2>4, <3>1, <3>2, Zenon DEF Repeatable
    <3>4. mem'.vms[v] \notin Passing /\ mem'.vms[v] # "ImportDisks" /\ mem'.vms[v] # "CreateVM"
      BY <2>4, Zenon DEF Passing
    <3>5. world'[v] = world[v] /\ made' = made /\ pc' # "pass" /\ memRes'[v].imgs \subseteq 1 .. made
      BY <2>1, <2>4, Zenon
    <3> QED
      BY <3>1, <3>3, <3>4, <3>5, Zenon DEF Repeatable
  <2>6. RepeatInv'
    BY <2>1, <2>2, <2>5, Zenon DEF RepeatInv
  <2>7. ASSUME OffInv PROVE OffInv'
    BY <2>1, <2>2, <2>4, <2>7, Zenon DEF OffInv, Passing
  <2> QED
    BY <2>1, <2>6, <2>7, Zenon
<1>6. CASE PipelineDeliver
  BY <1>6, Zenon
     DEF PipelineDeliver, Deliver, envVars, passVars, RepeatInv, Repeatable, OffInv, Importable
<1>7. CASE PipelineCrash
  <2>1. /\ pc' = "idle" /\ mem' = NewObject /\ memRes' = NoRes /\ cacheRes' = objRes
        /\ UNCHANGED <<obj, objRes, made>>
    BY <1>7 DEF PipelineCrash, Crash, EndPass
  <2>2. \A v \in VMs : /\ world'[v].kv = world[v].kv /\ world'[v].power = world[v].power
                       /\ world'[v].dvs = world[v].dvs
                       /\ world'[v].kvSeen => world[v].kv # "None"
    <3>1. \A v \in VMs : world[v] \in Worlds
      BY DEF ColdInv, EffectTypes
    <3>2. \A w \in Worlds, b \in BOOLEAN :
            /\ [w EXCEPT !.kvSeen = b].kv = w.kv
            /\ [w EXCEPT !.kvSeen = b].power = w.power
            /\ [w EXCEPT !.kvSeen = b].dvs = w.dvs
            /\ [w EXCEPT !.kvSeen = b].kvSeen = b
      BY Zenon DEF Worlds
    <3> SUFFICES ASSUME NEW v \in VMs
                 PROVE  /\ world'[v].kv = world[v].kv /\ world'[v].power = world[v].power
                        /\ world'[v].dvs = world[v].dvs
                        /\ world'[v].kvSeen => world[v].kv # "None"
      BY Zenon
    <3> DEFINE b == world[v].kv # "None"
    <3>3. world'[v] = [world[v] EXCEPT !.kvSeen = b]
      BY <1>7, Zenon DEF PipelineCrash
    <3>4. b \in BOOLEAN /\ (b => world[v].kv # "None")
      OBVIOUS
    <3> HIDE DEF b
    <3> QED
      BY <3>1, <3>2, <3>3, <3>4
  <2>3. \A v \in VMs : mem'.vms[v] = "None" /\ memRes'[v].imgs = {}
    BY <2>1, Zenon DEF NewObject, NoRes
  <2>4. ASSUME NEW v \in VMs PROVE Repeatable(v)'
    <3>1. Repeatable(v)
      BY Zenon DEF RepeatInv
    <3>2. mem'.vms[v] \notin Passing /\ mem'.vms[v] # "ImportDisks" /\ mem'.vms[v] # "CreateVM"
      BY <2>3, Zenon DEF Passing
    <3>3. pc' # "pass" /\ memRes'[v].imgs \subseteq 1 .. made
      BY <2>1, <2>3, Zenon
    <3> QED
      BY <2>1, <2>2, <3>1, <3>2, <3>3, Zenon DEF Repeatable
  <2>5. RepeatInv'
    BY <2>1, <2>4, Zenon DEF RepeatInv
  <2>6. ASSUME OffInv PROVE OffInv'
    <3>1. ASSUME NEW v \in VMs
          PROVE  /\ mem'.vms[v] \notin Passing \cup {"ImportDisks"}
                 /\ obj'.vms[v] = "ImportDisks" => Importable(objRes'[v], world'[v])
      <4>1. mem'.vms[v] \notin Passing \cup {"ImportDisks"}
        BY <2>3, Zenon DEF Passing
      <4>2. obj.vms[v] = "ImportDisks" => Importable(objRes[v], world[v])
        BY <2>6, Zenon DEF OffInv
      <4>3. Importable(objRes[v], world[v]) => Importable(objRes[v], world'[v])
        BY <2>2, Zenon DEF Importable
      <4> QED
        BY <2>1, <4>1, <4>2, <4>3, Zenon
    <3> QED
      BY <3>1, Zenon DEF OffInv
  <2> QED
    BY <2>2, <2>5, <2>6, Zenon
<1> QED
  BY <1>1, <1>2, <1>3, <1>4, <1>5, <1>6, <1>7, Zenon DEF ReconcileOnly

LEMMA RepeatCloud ==
  ASSUME IInv, ColdInv, RepeatInv, PipelineCloud
  PROVE  /\ RepeatInv' /\ (OffInv => OffInv')
         /\ \A v \in VMs : world'[v].kv = world[v].kv
<1>1. UNCHANGED <<vars, resVars, made>>
  BY Zenon DEF PipelineCloud, PowerSettles, KubeVirtVMSeen, ImportEnds, GarbageCollect
<1>2. \A v \in VMs : Drifts(world[v], world'[v], obj.exists)
  BY ColdDrifts
<1>3. ASSUME NEW v \in VMs PROVE Repeatable(v)'
  <2>1. Repeatable(v) /\ Drifts(world[v], world'[v], obj.exists)
    BY <1>2 DEF RepeatInv
  <2>2. mem.vms[v] = "CreateVM" => obj.exists
    BY <2>1, Zenon DEF RepeatInv, Repeatable, Passing
  <2> QED
    BY <1>1, <2>1, <2>2, Zenon DEF Repeatable, Drifts, vars, resVars
<1>4. ASSUME NEW v \in VMs
      PROVE  /\ world[v].power = "OFF" => world'[v].power = "OFF"
             /\ \A r : Importable(r, world[v]) => Importable(r, world'[v])
  <2>1. Drifts(world[v], world'[v], obj.exists)
    BY <1>2
  <2> QED
    BY <2>1, Zenon DEF Importable, Drifts
<1>5. OffInv => OffInv'
  BY <1>1, <1>4, Zenon DEF OffInv, vars, resVars
<1> QED
  BY <1>1, <1>2, <1>3, <1>5, Zenon DEF RepeatInv, Drifts, vars, resVars

LEMMA InitRepeat == PipelineInit => RepeatInv /\ OffInv
<1> SUFFICES ASSUME PipelineInit PROVE RepeatInv /\ OffInv
  OBVIOUS
<1>1. /\ pc = "idle" /\ obj = NewObject /\ mem = NewObject /\ objRes = NoRes /\ cacheRes = NoRes
      /\ memRes = NoRes /\ world \in [VMs -> {NewWorld("ON"), NewWorld("OFF")}]
  BY DEF PipelineInit, Init
<1>2. \A v \in VMs : NewObject.vms[v] = "None" /\ NoRes[v].imgs = {}
  BY Zenon DEF NewObject, NoRes
<1>3. \A v \in VMs : ~world[v].kvSeen
  <2> SUFFICES ASSUME NEW v \in VMs PROVE ~world[v].kvSeen
    OBVIOUS
  <2>1. PICK x : world[v] = NewWorld(x)
    BY <1>1, Zenon
  <2> QED
    BY <2>1, NewWorldFields
<1> QED
  BY <1>1, <1>2, <1>3, Zenon DEF RepeatInv, Repeatable, OffInv, Passing

LEMMA RepeatStep ==
  ASSUME Counted, ~May("StaleRead"), IInv, ColdInv, RepeatInv, [ColdNext]_allVars
  PROVE  /\ RepeatInv' /\ CreateStep
         /\ ~Fault("CleanupError") /\ OffInv => OffInv' /\ BootStep
<1>1. CASE executePhase
  BY <1>1, RepeatPhase, OffPhase, Zenon
<1>2. CASE \/ ReconcileOnly \/ PipelineBeginPass \/ PipelineSaveStatus \/ PipelineLoseStatus
           \/ PipelineUser \/ PipelineCrash \/ PipelineDeliver
  BY <1>2, RepeatIdle, Zenon DEF CreateStep, BootStep
<1>3. CASE PipelineCloud
  BY <1>3, RepeatCloud DEF CreateStep, BootStep
<1>4. CASE UNCHANGED allVars
  BY <1>4, Zenon
     DEF allVars, vars, pipelineVars, RepeatInv, Repeatable, OffInv, Importable, CreateStep,
    BootStep
<1> QED
  BY <1>1, <1>2, <1>3, <1>4 DEF ColdNext, ColdController
=============================================================================
