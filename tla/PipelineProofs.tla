--------------------------- MODULE PipelineProofs ---------------------------
(***************************************************************************)
(* What the proofs about the two pipelines share: what the steps between   *)
(* the phase handlers do to the status in effect, as long as no pass is    *)
(* lost, what an answer of a handler and the cloud do to a VM, and that    *)
(* cleanupFailedVM undoes all that the status names.                       *)
(***************************************************************************)
EXTENDS Pipeline, MigrationInv, TLAPS

\* No pass works on an old version and none is lost: nobody writes the object
\* inside a pass, reads are up to date, saves are accepted and the operator
\* does not die.
Undisturbed == {"MidPass", "StaleRead", "SaveError", "Crash"} \cap Disturbances = {}

PerVM(f) == f = [v \in VMs |-> f[v]]

CalmInv ==
  /\ pc = "pass" => memFresh
  /\ cacheFresh => cacheRes = objRes
  /\ PerVM(objRes) /\ PerVM(memRes) /\ PerVM(world)

\* Between the handlers a VM is listed, started or cancelled, and nothing else.
Idles(v) ==
  /\ ResOf(v)' = ResOf(v)
  /\ \/ PhaseOf(v)' = PhaseOf(v)
     \/ PhaseOf(v) = "None" /\ PhaseOf(v)' = "Pending"
     \/ PhaseOf(v) = "Pending" /\ PhaseOf(v)' = "PreHook"
     \/ PhaseOf(v)' = "Cancelled"

ExistsStays == obj'.exists => obj.exists

\* What a pass makes of the VMs before it works on the first.
LEMMA PassBegins ==
  ASSUME NEW o \in Objects, Sane(o), Reconcilable(o), NEW v \in VMs
  PROVE  LET p == processCancellations(initializeVMStatuses(o))
         IN  \/ p.vms[v] = o.vms[v]
             \/ o.vms[v] = "None" /\ p.vms[v] = "Pending"
             \/ p.vms[v] = "Cancelled"
<1> DEFINE i == initializeVMStatuses(o)
<1>1. i \in Objects /\ (i.vms[v] = o.vms[v] \/ (o.vms[v] = "None" /\ i.vms[v] = "Pending"))
  BY DEF initializeVMStatuses, Objects, MigrationPhaseSet, VMPhases
<1> HIDE DEF i
<1>2. processCancellations(i).vms[v] \in {i.vms[v], "Cancelled"}
  BY <1>1 DEF processCancellations, Objects
<1> QED
  BY <1>1, <1>2 DEF i

\* A handler works on a VM of the pass, in one of the pipeline's phases.
LEMMA HandledVM ==
  ASSUME IInv, AtPhase
  PROVE  idx \in VMs /\ pc = "pass" /\ mem.vms[idx] \in ActiveVMPhases
  BY DEF IInv, TypeOK, PassInv, AtPhase, AtVM, Objects, VMPhases,
    isActiveVMPhase, isTerminalVMPhase

\* What the steps between the handlers do.
LEMMA IdleStep ==
  ASSUME IInv, CalmInv, Undisturbed,
         \/ ReconcileOnly \/ PipelineBeginPass \/ PipelineSaveStatus \/ PipelineLoseStatus
         \/ PipelineUser \/ PipelineCrash \/ PipelineDeliver
  PROVE  /\ CalmInv' /\ ExistsStays
         /\ \A v \in VMs : Idles(v)
         /\ UNCHANGED <<world, secret, made>>
<1>0. obj \in Objects /\ cache \in Objects /\ mem \in Objects
  BY DEF IInv, TypeOK
<1>1. /\ ~May("MidPass") /\ ~May("StaleRead") /\ ~May("SaveError") /\ ~May("Crash")
      /\ cacheFresh => cache = obj
  BY DEF Undisturbed, May, IInv, FlagsInv
<1>2. pc \in {"idle", "pass"}
  BY DEF IInv, TypeOK
<1>3. CASE \/ PipelineUser
           \/ UNCHANGED pipelineVars /\ (ReconcileNothing \/ AddFinalizer
                                           \/ handleDeletion \/ setMigrationFailed)
  <2>1. pc = "idle" /\ UNCHANGED <<pc, pipelineVars>>
    BY <1>1, <1>2, <1>3 DEF PipelineUser, CancelVM, RequestDelete, PatchObject, UserMayWrite,
       ReconcileNothing, AddFinalizer, handleDeletion, setMigrationFailed, Dequeue
  <2>2. obj'.vms = obj.vms /\ ExistsStays /\ (cacheFresh' => cacheFresh)
    <3> USE DEF Write, ExistsStays, Objects
    <3>1. CASE PipelineUser
      <4>1. obj.exists /\ cacheFresh' = FALSE
        BY <3>1 DEF PipelineUser, CancelVM, RequestDelete, PatchObject, UserMayWrite
      <4>2. obj'.vms = obj.vms
        BY <1>0, <3>1 DEF PipelineUser, CancelVM, RequestDelete, PatchObject
      <4> QED
        BY <4>1, <4>2
    <3>2. CASE ReconcileNothing
      BY <3>2 DEF ReconcileNothing, apiVars
    <3>3. CASE AddFinalizer \/ handleDeletion \/ setMigrationFailed
      <4>1. obj.exists /\ cacheFresh' = FALSE
        BY <1>1, <3>3 DEF AddFinalizer, handleDeletion, setMigrationFailed, Reconcilable
      <4>2. obj'.vms = obj.vms
        BY <1>0, <1>1, <3>3 DEF AddFinalizer, handleDeletion, setMigrationFailed
      <4> QED
        BY <4>1, <4>2
    <3> QED
      BY <1>3, <3>1, <3>2, <3>3
  <2> QED
    BY <2>1, <2>2 DEF CalmInv, PerVM, Idles, PhaseOf, ResOf, pipelineVars
<1>4. CASE UNCHANGED pipelineVars /\ (SkipTerminal \/ SkipPending \/ StartPending)
  <2>1. /\ pc = "pass" /\ idx \in VMs /\ UNCHANGED <<pc, obj, cacheFresh, memFresh, pipelineVars>>
        /\ \/ mem' = mem
           \/ mem.vms[idx] = "Pending" /\ mem' = [mem EXCEPT !.vms[idx] = "PreHook"]
    BY <1>4 DEF SkipTerminal, SkipPending, StartPending, AtVM, apiVars
  <2>2. \A v \in VMs : \/ mem'.vms[v] = mem.vms[v]
                       \/ mem.vms[v] = "Pending" /\ mem'.vms[v] = "PreHook"
    BY <1>0, <2>1 DEF Objects
  <2> QED
    BY <2>1, <2>2 DEF CalmInv, PerVM, Idles, PhaseOf, ResOf, pipelineVars, ExistsStays
<1>5. CASE PipelineBeginPass
  <2>1. /\ pc = "idle" /\ pc' = "pass" /\ cacheFresh /\ memFresh' = cacheFresh
        /\ UNCHANGED <<obj, cacheFresh, objRes, cacheRes, world, secret, made>>
        /\ memRes' = cacheRes
        /\ mem' = processCancellations(initializeVMStatuses(obj))
        /\ Reconcilable(obj)
    BY <1>1, <1>5 DEF PipelineBeginPass, BeginPass, Dequeue, apiVars, envVars
  <2>2. \A v \in VMs : \/ mem'.vms[v] = obj.vms[v]
                       \/ obj.vms[v] = "None" /\ mem'.vms[v] = "Pending"
                       \/ mem'.vms[v] = "Cancelled"
    BY <1>0, <2>1, PassBegins DEF IInv
  <2>3. memRes' = objRes
    BY <2>1 DEF CalmInv
  <2> QED
    BY <2>1, <2>2, <2>3 DEF CalmInv, PerVM, Idles, PhaseOf, ResOf, ExistsStays
<1>6. CASE PipelineSaveStatus
  <2>1. /\ pc = "pass" /\ pc' = "idle" /\ memFresh /\ UNCHANGED <<cacheRes, world, secret, made>>
        /\ obj' = updateOverallStatus(mem) /\ objRes' = memRes /\ memRes' = NoRes
        /\ cacheFresh' => cacheFresh /\ memRes = objRes
    BY <1>6 DEF PipelineSaveStatus, SaveStatus, PassDone, EndPass, envVars
  <2>2. obj'.vms = mem.vms /\ obj'.exists = mem.exists
    BY <1>0, <2>1 DEF updateOverallStatus, Objects
  <2>3. mem.exists = obj.exists
    BY <2>1 DEF IInv, FreshInv
  <2>4. PerVM(NoRes)
    BY DEF PerVM, NoRes
  <2> QED
    BY <2>1, <2>2, <2>3, <2>4 DEF CalmInv, PerVM, Idles, PhaseOf, ResOf, ExistsStays
<1>7. CASE PipelineLoseStatus \/ PipelineCrash
  BY <1>1, <1>7 DEF PipelineLoseStatus, LoseStatus, PassDone, PipelineCrash, Crash, CalmInv
<1>8. CASE PipelineDeliver
  BY <1>8 DEF PipelineDeliver, Deliver, passVars, envVars, CalmInv, PerVM, Idles, PhaseOf, ResOf,
     ExistsStays
<1> QED
  BY <1>3, <1>4, <1>5, <1>6, <1>7, <1>8 DEF ReconcileOnly

----------------------------------------------------------------------------
(* The order of the warm pipeline.                                         *)

\* The phase that the warm pipeline takes after a phase.
AfterWarm(p) == nextPhaseInOrder(p, OrderOf("warm"))

LEMMA WarmSequence ==
  ASSUME NEW i \in 1 .. 13
  PROVE  AfterWarm(warmPhaseOrder[i]) = warmPhaseOrder[i + 1]
<1> DEFINE order == OrderOf("warm")
           p == warmPhaseOrder[i]
           j == CHOOSE j \in 1 .. Len(order) - 1 : order[j] = p
<1>1. order = warmPhaseOrder /\ Len(order) - 1 = 13
  BY DEF OrderOf, warmPhaseOrder
<1>2. \E j0 \in 1 .. Len(order) - 1 : order[j0] = p
  BY <1>1
<1>3. j \in 1 .. 13 /\ warmPhaseOrder[j] = warmPhaseOrder[i]
  BY <1>1, <1>2
<1>4. AfterWarm(p) = order[j + 1]
  BY <1>2 DEF AfterWarm, nextPhaseInOrder
<1> HIDE DEF j
<1>5. j = i
  BY <1>3 DEF warmPhaseOrder
<1> QED
  BY <1>1, <1>4, <1>5

\* The phase after each phase of the warm pipeline.
LEMMA WarmSuccessors ==
  /\ AfterWarm("PreHook") = "StorePowerState"
  /\ AfterWarm("StorePowerState") = "BulkCopy"
  /\ AfterWarm("BulkCopy") = "WaitBulkCopy"
  /\ AfterWarm("WaitBulkCopy") = "Precopy"
  /\ AfterWarm("Precopy") = "PowerOff"
  /\ AfterWarm("PowerOff") = "WaitForPowerOff"
  /\ AfterWarm("WaitForPowerOff") = "FinalSync"
  /\ AfterWarm("FinalSync") = "CreateVM"
  /\ AfterWarm("CreateVM") = "StartVM"
  /\ AfterWarm("StartVM") = "PostHook"
  /\ AfterWarm("PostHook") = "Cleanup"
  /\ AfterWarm("Cleanup") = "Completed"
<1> DEFINE o == warmPhaseOrder
<1>1. \A i \in 1 .. 13 : AfterWarm(o[i]) = o[i + 1]
  BY WarmSequence
<1>2. /\ o[2] = "PreHook" /\ o[3] = "StorePowerState" /\ o[4] = "BulkCopy"
      /\ o[5] = "WaitBulkCopy" /\ o[6] = "Precopy" /\ o[7] = "PowerOff"
      /\ o[8] = "WaitForPowerOff" /\ o[9] = "FinalSync" /\ o[10] = "CreateVM"
      /\ o[11] = "StartVM" /\ o[12] = "PostHook" /\ o[13] = "Cleanup"
      /\ o[14] = "Completed"
  BY DEF warmPhaseOrder
<1> HIDE DEF o
<1>3. /\ AfterWarm(o[2]) = o[3] /\ AfterWarm(o[3]) = o[4] /\ AfterWarm(o[4]) = o[5]
      /\ AfterWarm(o[5]) = o[6] /\ AfterWarm(o[6]) = o[7] /\ AfterWarm(o[7]) = o[8]
      /\ AfterWarm(o[8]) = o[9] /\ AfterWarm(o[9]) = o[10] /\ AfterWarm(o[10]) = o[11]
      /\ AfterWarm(o[11]) = o[12] /\ AfterWarm(o[12]) = o[13] /\ AfterWarm(o[13]) = o[14]
  BY <1>1
<1> QED
  BY <1>2, <1>3

----------------------------------------------------------------------------
(* An answer of a handler takes the VM at idx to phase q, with status r    *)
(* and world w, and touches no other VM.                                   *)

Answers(q, r, w) ==
  /\ AtPhase
  /\ \A v \in VMs : mem'.vms[v] = IF v = idx THEN q ELSE mem.vms[v]
  /\ memRes' = [memRes EXCEPT ![idx] = r]
  /\ world' = [world EXCEPT ![idx] = w]
  /\ UNCHANGED <<apiVars, pc, memFresh>>

LEMMA CompletedAnswers ==
  ASSUME IInv, NEW r, NEW w, Completed(r, w)
  PROVE  Answers(nextPhaseInOrder(mem.vms[idx], OrderOf(passType)), r, w)
<1> DEFINE q == nextPhaseInOrder(mem.vms[idx], OrderOf(passType))
<1>1. mem \in Objects /\ mem' = [mem EXCEPT !.vms[idx] = q]
  BY DEF IInv, TypeOK, Completed, PhaseCompleted
<1> HIDE DEF q
<1>2. \A v \in VMs : mem'.vms[v] = IF v = idx THEN q ELSE mem.vms[v]
  BY <1>1 DEF Objects
<1> QED
  BY <1>2 DEF Answers, Completed, PhaseCompleted, q

LEMMA NotYetAnswers ==
  ASSUME NEW r, NEW w, NotYet(r, w)
  PROVE  Answers(mem.vms[idx], r, w)
  BY DEF Answers, NotYet, PhaseWaits

LEMMA FailedAnswers ==
  ASSUME IInv, NEW r, NEW w, NEW c, Failed(r, w), world' = [world EXCEPT ![idx] = c]
  PROVE  Answers("Failed", r, c)
<1>1. mem \in Objects /\ mem' = [mem EXCEPT !.vms[idx] = "Failed"]
  BY DEF IInv, TypeOK, Failed, PhaseFailed
<1>2. \A v \in VMs : mem'.vms[v] = IF v = idx THEN "Failed" ELSE mem.vms[v]
  BY <1>1 DEF Objects
<1> QED
  BY <1>2 DEF Answers, Failed, PhaseFailed

LEMMA AnswerStep ==
  ASSUME IInv, CalmInv, NEW q, NEW r, NEW w, Answers(q, r, w), UNCHANGED <<objRes, cacheRes>>
  PROVE  /\ CalmInv' /\ obj' = obj
         /\ idx \in VMs /\ obj.exists
         /\ PhaseOf(idx) = mem.vms[idx] /\ ResOf(idx) = Res
         /\ \A v \in VMs :
              /\ PhaseOf(v)' = IF v = idx THEN q ELSE PhaseOf(v)
              /\ ResOf(v)' = IF v = idx THEN r ELSE ResOf(v)
              /\ world'[v] = IF v = idx THEN w ELSE world[v]
<1>1. idx \in VMs /\ pc = "pass" /\ memFresh
  BY HandledVM DEF CalmInv, Answers
<1>2. obj.exists
  BY <1>1 DEF IInv, FreshInv, Reconcilable
<1>3. /\ PerVM(memRes)' /\ \A v \in VMs : memRes'[v] = IF v = idx THEN r ELSE memRes[v]
  BY <1>1 DEF CalmInv, PerVM, Answers
<1>4. /\ PerVM(world)' /\ \A v \in VMs : world'[v] = IF v = idx THEN w ELSE world[v]
  BY <1>1 DEF CalmInv, PerVM, Answers
<1>5. CalmInv' /\ obj' = obj /\ pc' = pc
  BY <1>1, <1>3, <1>4 DEF CalmInv, apiVars, PerVM, Answers
<1> QED
  BY <1>1, <1>2, <1>3, <1>4, <1>5 DEF PhaseOf, ResOf, Res, Answers

\* A VM reported finished is finished in the copy a pass works on.
LEMMA FinishedInEffect ==
  ASSUME IInv, CalmInv, NEW v \in VMs, isTerminalVMPhase(obj.vms[v])
  PROVE  PhaseOf(v) = obj.vms[v]
<1>1. CASE pc = "pass"
  <2>1. VMStep(v, mem.vms[v])
    BY <1>1 DEF IInv, FreshInv, CalmInv
  <2> QED
    BY <1>1, <2>1 DEF PhaseOf, VMStep, VMForward
<1>2. CASE pc # "pass"
  BY <1>2 DEF PhaseOf
<1> QED
  BY <1>1, <1>2

----------------------------------------------------------------------------
(* The worlds of a VM, P being the sets of pods there may be, and what the *)
(* cloud does to them.                                                     *)

WorldsOf(P) ==
  [was : {"ON", "OFF"}, power : {"ON", "STOPPING", "OFF"},
   snaps : SUBSET (1 .. MaxMade), imgs : SUBSET (1 .. MaxMade),
   dvs : [Disks -> {"None", "Importing", "Succeeded", "Failed"}],
   pods : P, kv : {"None", "Stopped", "Running"}, kvSeen : BOOLEAN]

\* What the cloud does to what is there.
Drifts(w, c, e) ==
  /\ c.was = w.was /\ c.snaps = w.snaps /\ c.imgs = w.imgs /\ c.kv = w.kv
  /\ c.pods \subseteq w.pods /\ (c.kvSeen => w.kvSeen \/ w.kv # "None")
  /\ c.power = w.power \/ (w.power = "STOPPING" /\ c.power = "OFF")
  /\ \A d \in Disks :
       c.dvs[d] = w.dvs[d] \/ w.dvs[d] = "Importing" \/ (~e /\ c.dvs[d] = "None")

LEMMA CloudDrifts ==
  ASSUME NEW P, world \in [VMs -> WorldsOf(P)], PipelineCloud
  PROVE  \A v \in VMs : Drifts(world[v], world'[v], obj.exists)
<1>1. ASSUME NEW v \in VMs, NEW c, world' = [world EXCEPT ![v] = c],
             Drifts(world[v], c, obj.exists)
      PROVE  \A u \in VMs : Drifts(world[u], world'[u], obj.exists)
  BY <1>1 DEF Drifts
<1>2. ASSUME NEW v \in VMs, PowerSettles(v)
      PROVE  \A u \in VMs : Drifts(world[u], world'[u], obj.exists)
  <2> DEFINE c == [world[v] EXCEPT !.power = "OFF"]
  <2>1. world' = [world EXCEPT ![v] = c]
    BY <1>2 DEF PowerSettles
  <2>2. Drifts(world[v], c, obj.exists)
    BY <1>2 DEF PowerSettles, Drifts, WorldsOf
  <2> QED
    BY <1>1, <2>1, <2>2
<1>3. ASSUME NEW v \in VMs, KubeVirtVMSeen(v)
      PROVE  \A u \in VMs : Drifts(world[u], world'[u], obj.exists)
  <2> DEFINE c == [world[v] EXCEPT !.kvSeen = TRUE]
  <2>1. world' = [world EXCEPT ![v] = c]
    BY <1>3 DEF KubeVirtVMSeen
  <2>2. Drifts(world[v], c, obj.exists)
    BY <1>3 DEF KubeVirtVMSeen, Drifts, WorldsOf
  <2> QED
    BY <1>1, <2>1, <2>2
<1>4. ASSUME NEW v \in VMs, NEW d \in Disks, ImportEnds(v, d)
      PROVE  \A u \in VMs : Drifts(world[u], world'[u], obj.exists)
  <2>1. PICK s : world' = [world EXCEPT ![v].dvs[d] = s]
    BY <1>4 DEF ImportEnds
  <2> DEFINE dvs == [world[v].dvs EXCEPT ![d] = s]
             c == [world[v] EXCEPT !.dvs = dvs]
  <2>2. world' = [world EXCEPT ![v] = c]
    BY <2>1
  <2>3. \A b \in Disks : dvs[b] = world[v].dvs[b] \/ world[v].dvs[b] = "Importing"
    BY <1>4 DEF ImportEnds, WorldsOf
  <2> HIDE DEF dvs
  <2>4. Drifts(world[v], c, obj.exists)
    BY <2>3 DEF Drifts, WorldsOf
  <2> QED
    BY <1>1, <2>2, <2>4
<1>5. CASE GarbageCollect
  <2> DEFINE none == [d \in Disks |-> "None"]
             Gone(w) == [w EXCEPT !.dvs = none, !.pods = {}]
  <2>1. ~obj.exists /\ \A v \in VMs : world'[v] = Gone(world[v])
    BY <1>5 DEF GarbageCollect
  <2>2. \A d \in Disks : none[d] = "None"
    OBVIOUS
  <2> HIDE DEF none
  <2>3. \A w \in WorldsOf(P) : Drifts(w, Gone(w), FALSE)
    BY <2>2 DEF Drifts, WorldsOf
  <2> HIDE DEF Gone
  <2> QED
    BY <2>1, <2>3 DEF Drifts
<1> QED
  BY <1>2, <1>3, <1>4, <1>5 DEF PipelineCloud

LEMMA CloudTypes ==
  ASSUME NEW P, {} \in P, world \in [VMs -> WorldsOf(P)], PipelineCloud
  PROVE  world' \in [VMs -> WorldsOf(P)]
<1>1. ASSUME NEW v \in VMs, PowerSettles(v) PROVE world' \in [VMs -> WorldsOf(P)]
  BY <1>1 DEF PowerSettles, WorldsOf
<1>2. ASSUME NEW v \in VMs, KubeVirtVMSeen(v) PROVE world' \in [VMs -> WorldsOf(P)]
  <2> DEFINE c == [world[v] EXCEPT !.kvSeen = TRUE]
  <2>1. world' = [world EXCEPT ![v] = c]
    BY <1>2 DEF KubeVirtVMSeen
  <2>2. c \in WorldsOf(P)
    BY DEF WorldsOf
  <2> HIDE DEF c
  <2> QED
    BY <2>1, <2>2
<1>3. ASSUME NEW v \in VMs, NEW d \in Disks, ImportEnds(v, d)
      PROVE  world' \in [VMs -> WorldsOf(P)]
  <2>1. PICK s \in {"Succeeded", "Failed"} : world' = [world EXCEPT ![v].dvs[d] = s]
    BY <1>3 DEF ImportEnds
  <2> DEFINE dvs == [world[v].dvs EXCEPT ![d] = s]
             c == [world[v] EXCEPT !.dvs = dvs]
  <2>2. world' = [world EXCEPT ![v] = c]
    BY <2>1
  <2>3. dvs \in [Disks -> {"None", "Importing", "Succeeded", "Failed"}]
    BY DEF WorldsOf
  <2> HIDE DEF dvs
  <2>4. c \in WorldsOf(P)
    BY <2>3 DEF WorldsOf
  <2> HIDE DEF c
  <2> QED
    BY <2>2, <2>4
<1>4. CASE GarbageCollect
  <2> DEFINE none == [d \in Disks |-> "None"]
             Gone(w) == [w EXCEPT !.dvs = none, !.pods = {}]
  <2>1. world' = [v \in VMs |-> Gone(world[v])]
    BY <1>4 DEF GarbageCollect
  <2>2. none \in [Disks -> {"None", "Importing", "Succeeded", "Failed"}]
    OBVIOUS
  <2> HIDE DEF none
  <2>3. \A w \in WorldsOf(P) : Gone(w) \in WorldsOf(P)
    BY <2>2 DEF WorldsOf
  <2> HIDE DEF Gone
  <2> QED
    BY <2>1, <2>3
<1> QED
  BY <1>1, <1>2, <1>3, <1>4 DEF PipelineCloud

----------------------------------------------------------------------------
(* A migration whose calls are answered.                                   *)

\* Calls take effect only if they are answered, and cleanups succeed.
Answered == ~Fault("LostAnswer") /\ ~Fault("CleanupError")

Target == IF TargetRunning THEN "Running" ELSE "Stopped"

BeforeStore == {"None", "Pending", "PreHook", "StorePowerState"}

LEMMA Prefix == \A n \in 0 .. D : \A d \in Disks : d <= n => d \in 1 .. n
  BY DAssumption DEF Disks

\* The disks, and the numbers of recovery points and images.
LEMMA Numbers ==
  /\ \A d \in Disks : d \in Nat /\ d <= D /\ ~(d <= 0)
  /\ \A d \in 0 .. D : d < D => d + 1 \in Disks /\ d + 1 \in 0 .. D
  /\ \A m, n \in 0 .. D : m = D /\ m <= n => n = D
  /\ \A n \in 0 .. D : 1 .. n \subseteq Disks
  /\ \A m \in 0 .. MaxMade : m \in Nat /\ 1 .. m \subseteq 1 .. MaxMade
  BY BoundsAssumption, DAssumption DEF Disks

LEMMA NewWorldFields ==
  ASSUME NEW x, NEW w, w = NewWorld(x)
  PROVE  /\ w.was = x /\ w.power = x
         /\ w.snaps = {} /\ w.imgs = {} /\ w.pods = {}
         /\ \A d \in Disks : w.dvs[d] = "None"
         /\ w.kv = "None" /\ ~w.kvSeen
  BY DEF NewWorld

\* The status r names all that was made for the VM, in the world w, and what
\* has to be undone.
Named(r, w) ==
  /\ w.snaps \subseteq SnapsOf(r) /\ w.imgs \subseteq ImagesOf(r)
  /\ \A d \in Disks : w.dvs[d] # "None" => d <= r.dvs
  /\ \A p \in w.pods : p.name = r.warm.pod
  /\ w.was = "OFF" => w.power = "OFF"
  /\ r.orig = w.was \/ (r.orig = "" /\ w.power = w.was)

\* What a handler, or the cleanup after it, leaves of the VM at idx.
Leaves(c) == world' = [world EXCEPT ![idx] = c]

\* cleanupFailedVM undoes all that the status names.
LEMMA CleanedUp ==
  ASSUME ~Fault("CleanupError"), NEW P, {} \in P, NEW r, r.dvs \in 0 .. D,
         NEW w \in WorldsOf(P), Named(r, w), cleanupFailedVM(r, w)
  PROVE  \E c \in WorldsOf(P) : /\ Leaves(c) /\ NoDataLeft(c)
                                /\ c.was = w.was /\ c.power = w.was /\ c.kv = w.kv
<1> DEFINE gone == WithoutDVs(w, 1 .. r.dvs)
           power == IF r.orig = "ON" THEN "ON" ELSE w.power
           c == [w EXCEPT !.dvs = gone, !.imgs = w.imgs \ ImagesOf(r),
                          !.snaps = w.snaps \ SnapsOf(r),
                          !.pods = WithoutPods(w, {r.warm.pod}), !.power = power]
<1>1. Leaves(c)
  BY DEF cleanupFailedVM, BestEffort, Leaves
<1>2. w.imgs \ ImagesOf(r) = {} /\ w.snaps \ SnapsOf(r) = {}
  BY DEF Named
<1>3. /\ \A d \in Disks : gone[d] = "None"
      /\ gone \in [Disks -> {"None", "Importing", "Succeeded", "Failed"}]
  <2>1. \A d \in Disks : d <= r.dvs => d \in 1 .. r.dvs
    BY Prefix, Zenon
  <2>2. \A d \in Disks : d \in 1 .. r.dvs \/ w.dvs[d] = "None"
    BY <2>1, Zenon DEF Named
  <2> QED
    BY <2>2 DEF WithoutDVs
<1>4. WithoutPods(w, {r.warm.pod}) = {}
  BY DEF WithoutPods, Named
<1>5. power = w.was /\ power \in {"ON", "STOPPING", "OFF"}
  BY DEF Named, WorldsOf
<1> HIDE DEF gone, power
<1>6. /\ c.imgs = {} /\ c.snaps = {} /\ c.pods = {} /\ c.dvs = gone
      /\ c.power = power /\ c.was = w.was /\ c.kv = w.kv
  BY <1>2, <1>4 DEF WorldsOf
<1>7. c \in WorldsOf(P)
  BY <1>2, <1>3, <1>4, <1>5 DEF WorldsOf
<1> HIDE DEF c
<1>8. NoDataLeft(c)
  BY <1>3, <1>6 DEF NoDataLeft
<1> QED
  BY <1>1, <1>5, <1>6, <1>7, <1>8
=============================================================================
