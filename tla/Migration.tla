----------------------------- MODULE Migration -----------------------------
(***************************************************************************)
(* The Migration custom resource and its controller                        *)
(* (src/internal/controller/migration_controller.go).                      *)
(*                                                                         *)
(* The object lives in the API server (obj).  The controller reads it from *)
(* an informer cache that lags behind (cache), works on the copy it read   *)
(* (mem), executing one phase after another for one VM after another, and  *)
(* writes the status once, at the end of the pass.  The write succeeds     *)
(* only if nobody has written the object since the version that was read.  *)
(* Versions appear as two flags: cacheFresh (the cache holds the latest    *)
(* version) and memFresh (the pass was started from the latest version).   *)
(*                                                                         *)
(* What a phase does outside the object is abstracted to its outcome:      *)
(* completed, still waiting, or an error.                                  *)
(***************************************************************************)
EXTENDS MigrationLifecycle

CONSTANTS
  PlanTypes,     \* the types the plan may have
  Disturbances   \* what may come between the controller and a clean run

AllDisturbances ==
  {"Cancel",     \* the user lists a VM in spec.cancel
   "Delete",     \* the user deletes the Migration
   "Patch",      \* the object is written for another reason, e.g. a cutover
   "PlanEdit",   \* the user changes the plan's type
   "MidPass",    \* such writes may fall inside a reconcile pass
   "StaleRead",  \* a pass may start from a cache that lags
   "SaveError",  \* the API server may refuse a write for no visible reason
   "Crash",      \* the operator may die inside a pass
   "Resolve"}    \* the plan, or a reference of it, may fail to resolve

ASSUME PlanTypesAssumption == PlanTypes \subseteq MigrationTypes
ASSUME DisturbancesAssumption == Disturbances \subseteq AllDisturbances

VARIABLES
  cache,         \* the informer's copy
  cacheFresh,    \* cache is the latest version of obj
  planType,      \* plan.spec.type
  queued,        \* the work queue holds a request for the Migration
  pc,            \* "idle", or "pass" inside Reconcile
  mem,           \* the copy the pass works on
  memFresh,      \* nobody wrote obj since the version the pass started from
  passType,      \* the plan type the pass read
  idx,           \* the VM advanceVMs has come to
  activeCount,   \* advanceVMs' count of active VMs
  needsRequeue   \* advanceVMs' result

apiVars == <<obj, cache, cacheFresh, planType>>
passVars == <<mem, passType, idx, activeCount, needsRequeue>>
vars == <<obj, cache, cacheFresh, planType, queued, pc, mem, memFresh,
          passType, idx, activeCount, needsRequeue>>

May(d) == d \in Disturbances

----------------------------------------------------------------------------
(* The steps of Reconcile on the copy it read.                             *)

Started(o) == o.phase \notin {"", "Pending"}

\* Mutant: the phase of a new entry is left at its zero value.
initializeWithoutPhase(o) ==
  IF Started(o) THEN o
  ELSE [o EXCEPT !.phase = "Running", !.vms = [v \in VMs |-> ""]]

initializeVMStatuses(o) ==
  IF Started(o) THEN o
  ELSE [o EXCEPT !.phase = "Running",
                 !.vms = [v \in VMs |-> IF o.vms[v] = "None" THEN "Pending"
                                        ELSE o.vms[v]]]

\* Mutants: only a VM that has not started is cancelled; a finished VM is
\* cancelled too.
cancelOnlyPending(o) ==
  [o EXCEPT !.vms =
     [v \in VMs |-> IF v \in o.cancel /\ o.vms[v] = "Pending"
                    THEN "Cancelled" ELSE o.vms[v]]]
cancelFinished(o) ==
  [o EXCEPT !.vms =
     [v \in VMs |-> IF v \in o.cancel THEN "Cancelled" ELSE o.vms[v]]]

processCancellations(o) ==
  [o EXCEPT !.vms =
     [v \in VMs |-> IF v \in o.cancel /\ ~isTerminalVMPhase(o.vms[v])
                    THEN "Cancelled" ELSE o.vms[v]]]

\* The phases whose handler can answer "not yet"; and those that can fail.
WaitingPhases ==
  {"PreHook", "PostHook", "WaitForPowerOff", "ImportDisks", "WaitBulkCopy",
   "Precopy", "FinalSync"}
FailingPhases == ActiveVMPhases \ {"Cleanup"}

----------------------------------------------------------------------------
Init ==
  /\ obj = NewObject
  /\ cache = NewObject
  /\ cacheFresh = TRUE
  /\ planType \in PlanTypes
  /\ queued = TRUE
  /\ pc = "idle"
  /\ mem = NewObject
  /\ memFresh = FALSE
  /\ passType = planType
  /\ idx = 1
  /\ activeCount = 0
  /\ needsRequeue = FALSE

\* A write to the API server: every copy read before it is out of date.
Write(o) ==
  /\ obj' = o
  /\ cacheFresh' = FALSE
  /\ memFresh' = FALSE
  /\ UNCHANGED cache

(* The user and the API server.                                            *)

UserMayWrite == obj.exists /\ (pc = "idle" \/ May("MidPass"))

CancelVM(v) ==
  /\ May("Cancel") /\ UserMayWrite
  /\ v \notin obj.cancel
  /\ Write([obj EXCEPT !.cancel = @ \cup {v}])
  /\ UNCHANGED <<planType, queued, pc, passVars>>

RequestDelete ==
  /\ May("Delete") /\ UserMayWrite
  /\ ~obj.deleting
  /\ Write([obj EXCEPT !.deleting = TRUE, !.exists = obj.finalizer])
  /\ UNCHANGED <<planType, queued, pc, passVars>>

PatchObject ==
  /\ May("Patch") /\ UserMayWrite
  /\ Write(obj)
  /\ UNCHANGED <<planType, queued, pc, passVars>>

EditPlanType ==
  /\ May("PlanEdit")
  /\ planType' \in PlanTypes \ {planType}
  /\ UNCHANGED <<obj, cache, cacheFresh, queued, pc, memFresh, passVars>>

\* The watch brings the cache up to date and queues a request.
Deliver ==
  /\ ~cacheFresh
  /\ cache' = obj
  /\ cacheFresh' = TRUE
  /\ queued' = TRUE
  /\ UNCHANGED <<obj, planType, pc, memFresh, passVars>>

----------------------------------------------------------------------------
(* Reconcile.                                                              *)

\* The request is taken from the queue and the object read from the cache.
Dequeue ==
  /\ pc = "idle"
  /\ queued
  /\ cacheFresh \/ May("StaleRead")

\* Nothing to do: the object is gone, or finished.  A Migration that is
\* being deleted while Running is left alone as well, but looked at again.
ReconcileNothing ==
  /\ Dequeue
  /\ \/ ~cache.exists
     \/ /\ cache.exists /\ ~cache.deleting /\ cache.finalizer
        /\ isTerminalMigrationPhase(cache.phase)
  /\ queued' = FALSE
  /\ UNCHANGED <<apiVars, pc, memFresh, passVars>>

\* The request stays in the queue: Requeue is set.
AddFinalizer ==
  /\ Dequeue
  /\ cache.exists /\ ~cache.deleting /\ ~cache.finalizer
  /\ cacheFresh
  /\ Write([cache EXCEPT !.finalizer = TRUE])
  /\ UNCHANGED <<planType, queued, pc, passVars>>

\* Mutant: deletion is not blocked while Running.
deleteWhileRunning ==
  /\ Dequeue
  /\ cache.exists /\ cache.deleting /\ cache.finalizer
  /\ cacheFresh
  /\ queued' = FALSE
  /\ Write([cache EXCEPT !.finalizer = FALSE, !.exists = FALSE])
  /\ UNCHANGED <<planType, pc, passVars>>

handleDeletion ==
  /\ Dequeue
  /\ cache.exists /\ cache.deleting /\ cache.finalizer
  /\ cache.phase # "Running"
  /\ cacheFresh
  /\ queued' = FALSE
  /\ Write([cache EXCEPT !.finalizer = FALSE, !.exists = FALSE])
  /\ UNCHANGED <<planType, pc, passVars>>

\* The plan, the provider, its secret, a map or the client cannot be had.
resolveFails == May("Resolve")

setMigrationFailed ==
  /\ resolveFails
  /\ Dequeue
  /\ Reconcilable(cache)
  /\ cacheFresh
  /\ queued' = FALSE
  /\ Write([cache EXCEPT !.phase = "Failed"])
  /\ UNCHANGED <<planType, pc, passVars>>

BeginPass ==
  /\ Dequeue
  /\ Reconcilable(cache)
  /\ pc' = "pass"
  /\ queued' = FALSE
  /\ mem' = processCancellations(initializeVMStatuses(cache))
  /\ memFresh' = cacheFresh
  /\ passType' = planType
  /\ idx' = 1
  /\ activeCount' = Cardinality(ActiveVMs(mem'))
  /\ needsRequeue' = FALSE
  /\ UNCHANGED apiVars

AtVM == pc = "pass" /\ idx \in VMs

SkipTerminal ==
  /\ AtVM
  /\ isTerminalVMPhase(mem.vms[idx])
  /\ idx' = idx + 1
  /\ UNCHANGED <<apiVars, queued, pc, mem, memFresh, passType, activeCount,
                 needsRequeue>>

SkipPending ==
  /\ AtVM
  /\ mem.vms[idx] = "Pending"
  /\ activeCount >= Limit
  /\ idx' = idx + 1
  /\ needsRequeue' = TRUE
  /\ UNCHANGED <<apiVars, queued, pc, mem, memFresh, passType, activeCount>>

\* Mutant: off by one at the limit.
startAtLimit ==
  /\ AtVM
  /\ mem.vms[idx] = "Pending"
  /\ activeCount <= Limit
  /\ mem' = [mem EXCEPT !.vms[idx] = "PreHook"]
  /\ activeCount' = activeCount + 1
  /\ UNCHANGED <<apiVars, queued, pc, memFresh, passType, idx, needsRequeue>>

StartPending ==
  /\ AtVM
  /\ mem.vms[idx] = "Pending"
  /\ activeCount < Limit
  /\ mem' = [mem EXCEPT !.vms[idx] = "PreHook"]
  /\ activeCount' = activeCount + 1
  /\ UNCHANGED <<apiVars, queued, pc, memFresh, passType, idx, needsRequeue>>

AtPhase == AtVM /\ isActiveVMPhase(mem.vms[idx])

\* executePhase answered Completed: advanceSingleVM goes on with the next
\* phase, in the same pass.
PhaseCompleted ==
  /\ AtPhase
  /\ mem' = [mem EXCEPT
       !.vms[idx] = nextPhaseInOrder(mem.vms[idx], OrderOf(passType))]
  /\ UNCHANGED <<apiVars, queued, pc, memFresh, passType, idx, activeCount,
                 needsRequeue>>

PhaseWaits ==
  /\ AtPhase
  /\ mem.vms[idx] \in WaitingPhases
  /\ idx' = idx + 1
  /\ needsRequeue' = TRUE
  /\ UNCHANGED <<apiVars, queued, pc, mem, memFresh, passType, activeCount>>

PhaseFailed ==
  /\ AtPhase
  /\ mem.vms[idx] \in FailingPhases
  /\ mem' = [mem EXCEPT !.vms[idx] = "Failed"]
  /\ UNCHANGED <<apiVars, queued, pc, memFresh, passType, idx, activeCount,
                 needsRequeue>>

\* Out of the pass; what it worked on is forgotten.
EndPass ==
  /\ pc' = "idle"
  /\ mem' = NewObject
  /\ idx' = 1
  /\ activeCount' = 0
  /\ needsRequeue' = FALSE
  /\ UNCHANGED <<planType, passType>>

PassDone == pc = "pass" /\ idx > N

\* Mutant: the status is written without regard to the version read.
saveBlindly ==
  /\ PassDone
  /\ obj' = [obj EXCEPT !.phase = updateOverallStatus(mem).phase, !.vms = mem.vms]
  /\ cacheFresh' = FALSE
  /\ UNCHANGED cache
  /\ memFresh' = FALSE
  /\ queued' = (queued \/ needsRequeue)
  /\ EndPass

\* updateOverallStatus and a Status().Update that is accepted.  An update
\* that changes nothing makes no new version, and no watch event.  The
\* status has parts this model leaves out, so one that changes none of the
\* modelled parts may still make a version.
SaveStatus ==
  /\ PassDone
  /\ memFresh
  /\ obj' = updateOverallStatus(mem)
  /\ \/ cacheFresh' = FALSE
     \/ obj' = obj /\ UNCHANGED cacheFresh
  /\ UNCHANGED cache
  /\ memFresh' = FALSE
  /\ queued' = (queued \/ needsRequeue)
  /\ EndPass

\* The update is refused: a conflict, or any other error.  Reconcile returns
\* the error and the request goes back to the queue.
LoseStatus ==
  /\ PassDone
  /\ ~memFresh \/ May("SaveError")
  /\ queued' = TRUE
  /\ memFresh' = FALSE
  /\ UNCHANGED <<obj, cache, cacheFresh>>
  /\ EndPass

\* The operator dies inside a pass; the new one lists the object again.
Crash ==
  /\ May("Crash")
  /\ pc = "pass"
  /\ cache' = obj
  /\ cacheFresh' = TRUE
  /\ queued' = TRUE
  /\ memFresh' = FALSE
  /\ UNCHANGED obj
  /\ EndPass

Environment ==
  \/ \E v \in VMs : CancelVM(v)
  \/ RequestDelete
  \/ PatchObject
  \/ EditPlanType
  \/ Crash

Controller ==
  \/ ReconcileNothing
  \/ AddFinalizer
  \/ handleDeletion
  \/ setMigrationFailed
  \/ BeginPass
  \/ SkipTerminal
  \/ SkipPending
  \/ StartPending
  \/ PhaseCompleted
  \/ PhaseWaits
  \/ PhaseFailed
  \/ SaveStatus
  \/ LoseStatus

Next == Environment \/ Deliver \/ Controller

Spec == Init /\ [][Next]_vars

\* What each phase waits for comes in the end and stays: a hook Job ends at
\* its deadline, an import succeeds or fails, the source powers off, the
\* user sets the cutover.  So a pass that read the latest version is not
\* told to wait for ever.
PhaseAnswered(v) == idx = v /\ memFresh /\ (PhaseCompleted \/ PhaseFailed)

\* The controller's goroutine runs, and the watch delivers.
Fairness ==
  /\ WF_vars(Controller)
  /\ WF_vars(Deliver)
  /\ \A v \in VMs : SF_vars(PhaseAnswered(v))

FairSpec == Spec /\ Fairness

----------------------------------------------------------------------------
(* Properties.                                                             *)

TypeOK ==
  /\ obj \in Objects
  /\ cache \in Objects
  /\ cacheFresh \in BOOLEAN
  /\ planType \in PlanTypes
  /\ queued \in BOOLEAN
  /\ pc \in {"idle", "pass"}
  /\ mem \in Objects
  /\ memFresh \in BOOLEAN
  /\ passType \in PlanTypes
  /\ idx \in 1 .. N + 1
  /\ activeCount \in Nat
  /\ needsRequeue \in BOOLEAN

\* advanceVMs never has more than maxInFlight VMs past Pending and not
\* finished, in the copy it works on or in the object, whatever is
\* cancelled, lost or re-read meanwhile.
InFlightBounded ==
  /\ Cardinality(ActiveVMs(obj)) <= Limit
  /\ Cardinality(ActiveVMs(mem)) <= Limit

\* updateOverallStatus never reports an end that the VMs have not reached:
\* Completed only with every VM finished, none failed and some migrated,
\* Cancelled only with every VM cancelled, Running only with work left.
\* (Failed is also what setMigrationFailed reports, whatever the VMs are at.)
OverallStatusAgrees ==
  /\ obj.phase = "Completed" =>
       /\ \A v \in VMs : obj.vms[v] \in {"Completed", "Cancelled"}
       /\ \E v \in VMs : obj.vms[v] = "Completed"
  /\ obj.phase = "Cancelled" => \A v \in VMs : obj.vms[v] = "Cancelled"
  /\ obj.phase = "Running" => \E v \in VMs : ~isTerminalVMPhase(obj.vms[v])

\* A pass started from an old version, retried after a conflict or repeated
\* after a crash never takes a VM back in the saved status, and nothing
\* changes once the Migration has a terminal phase.
StatusOnlyAdvances ==
  [][ /\ \A v \in VMs : VMForward(obj.vms[v], obj.vms[v]')
      /\ isTerminalMigrationPhase(obj.phase) =>
           obj.phase' = obj.phase /\ obj.vms' = obj.vms ]_vars

\* Once a VM is in spec.cancel, no save takes it anywhere but to Cancelled:
\* a pass that read the object before the cancellation cannot win.
CancelWins ==
  [][ \A v \in obj.cancel :
        ~isTerminalVMPhase(obj.vms[v]) =>
          obj.vms[v]' \in {obj.vms[v], "Cancelled"} ]_vars

\* "Finalizer prevents deletion during running migration": the object does
\* not go away while its saved phase is Running.
FinalizerHolds ==
  [][ obj.exists /\ obj.phase = "Running" => obj'.exists ]_vars

\* advanceVMs' requeue, the conflict errors and the watch between them leave
\* no Migration behind: unless the user deletes it, it reaches a terminal
\* phase.
EventuallyFinished == <>(isTerminalMigrationPhase(obj.phase) \/ obj.deleting)

\* A deletion the user asks for is carried out in the end.
DeletionCompletes == obj.deleting ~> ~obj.exists
=============================================================================
