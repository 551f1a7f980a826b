----------------------------- MODULE HookRunner -----------------------------
(***************************************************************************)
(* The hook runner, for one VM and one of its two steps                    *)
(* (src/internal/controller/hook_runner.go): a Job is created, watched,    *)
(* and replaced when it has failed, over many reconcile passes.  The       *)
(* number of the attempt is kept in the Job only.  The Job is read from a  *)
(* cache that lags behind, and what a pass found may be lost before it is  *)
(* saved.                                                                  *)
(***************************************************************************)
EXTENDS Integers

CONSTANTS
  hookMaxRetries,  \* attempts
  HookFaults,      \* what may go wrong
  MaxUpsets        \* bound: stale reads, lost passes and restarts

AllHookFaults ==
  {"CallError",      \* a call to the API server fails
   "CleanupError",   \* the Job or ConfigMap cannot be deleted after the last run
   "HookReadError",  \* the Hook cannot be read
   "StaleRead",      \* the cache lags behind when a pass begins
   "Lost"}           \* the pass is not saved, or the operator dies in it

ASSUME RetriesAssumption == hookMaxRetries \in Nat \ {0}
ASSUME HookFaultsAssumption == HookFaults \subseteq AllHookFaults
ASSUME UpsetsAssumption == MaxUpsets \in Nat

VARIABLES
  configured,      \* the plan has a hook for this VM and step
  saved,           \* "Hook", "Passed" or "Failed" in the VM's saved status
  mem,             \* the same in the copy of the pass; "None" between passes
  job,             \* the Job
  seen,            \* the Job in the operator's cache
  ctx,             \* the ConfigMap the Job mounts exists
  ok, fails,       \* a run has succeeded; runs that have failed
  broken,          \* a call to the API server has failed
  upsets           \* stale reads, lost passes and restarts so far

hookVars == <<configured, saved, mem, job, seen, ctx, ok, fails, broken, upsets>>

MayHappen(f) == f \in HookFaults
NoJob == [attempt |-> 0, state |-> "None"]
Job(attempt) == [attempt |-> attempt, state |-> "Active"]
Jobs == {NoJob} \cup [attempt : Nat \ {0}, state : {"Active", "Succeeded", "Failed"}]

HookInit ==
  /\ configured \in BOOLEAN
  /\ saved = "Hook" /\ mem = "None"
  /\ job = NoJob /\ seen = NoJob /\ ctx = FALSE
  /\ ok = FALSE /\ fails = 0 /\ broken = FALSE
  /\ upsets = 0

----------------------------------------------------------------------------
(* A pass.  The handler's answer: completed, not yet, or an error.         *)

Completed == mem' = "Passed" /\ UNCHANGED broken
NotYet == mem' = "Hook" /\ UNCHANGED broken
Fails == mem' = "Failed" /\ UNCHANGED broken
CallFails == MayHappen("CallError") /\ mem' = "Failed" /\ broken' = TRUE
Dies == MayHappen("Lost") /\ mem' = "None" /\ UNCHANGED broken

\* The Hook of this VM and step: one that cannot be read counts as none.
findHook == {configured} \cup (IF MayHappen("HookReadError") THEN {FALSE} ELSE {})

\* A Job that exists already is left as it is.
createHookJobWithAttempt(attempt) == job' = IF job = NoJob THEN Job(attempt) ELSE job

\* The ConfigMap is created, and then the Job; the operator may die in
\* between.
createHook ==
  \/ /\ ctx' = TRUE
     /\ \/ createHookJobWithAttempt(1) /\ (NotYet \/ CallFails)
        \/ UNCHANGED job /\ (CallFails \/ Dies)
  \/ UNCHANGED <<ctx, job>> /\ CallFails

\* Mutant: the ConfigMap is forgotten.
deleteJobOnly == job' = NoJob /\ UNCHANGED ctx

\* The Job is deleted, and then the ConfigMap, best-effort.
cleanupHookResources ==
  /\ job' \in {NoJob} \cup (IF MayHappen("CleanupError") THEN {job} ELSE {})
  /\ ctx' \in {FALSE} \cup (IF MayHappen("CleanupError") THEN {ctx} ELSE {})

\* The operator dies between the two.
cleanupCutShort == job' = NoJob /\ UNCHANGED ctx /\ Dies

\* Mutant: the new Job is created while the old one is still there.
createBeforeDeleted(attempt) ==
  /\ createHookJobWithAttempt(attempt) /\ NotYet
  /\ UNCHANGED ctx

\* The Job that has failed is deleted by its name, whichever it is by now,
\* and a new one created; the operator may die in between.
retryHook(attempt) ==
  /\ \/ job' = Job(attempt) /\ (NotYet \/ CallFails)
     \/ job' = NoJob /\ CallFails
     \/ UNCHANGED job /\ CallFails
     \/ job' = NoJob /\ Dies
  /\ UNCHANGED ctx

\* Mutant: off by one at the last attempt.
giveUpEarly ==
  \/ seen.state = "Succeeded" /\ cleanupHookResources /\ Completed
  \/ /\ seen.state = "Failed" /\ seen.attempt + 1 >= hookMaxRetries
     /\ cleanupHookResources /\ Fails
  \/ /\ seen.state = "Failed" /\ seen.attempt + 1 < hookMaxRetries
     /\ retryHook(seen.attempt + 1)
  \/ seen.state = "Active" /\ NotYet /\ UNCHANGED <<job, ctx>>

checkHookJob ==
  \/ /\ seen.state = "Succeeded"
     /\ (cleanupHookResources /\ Completed) \/ cleanupCutShort
  \/ /\ seen.state = "Failed" /\ seen.attempt >= hookMaxRetries
     /\ (cleanupHookResources /\ Fails) \/ cleanupCutShort
  \/ /\ seen.state = "Failed" /\ seen.attempt < hookMaxRetries
     /\ retryHook(seen.attempt + 1)
  \/ seen.state = "Active" /\ NotYet /\ UNCHANGED <<job, ctx>>

\* A pass that reads an old Job, or that is cut short, is an upset.
runHook ==
  /\ mem = "None" /\ saved = "Hook"
  /\ \E found \in findHook :
       \/ ~found /\ Completed /\ UNCHANGED <<job, ctx>>
       \/ found /\ CallFails /\ UNCHANGED <<job, ctx>>  \* reading the Job
       \/ found /\ seen = NoJob /\ createHook
       \/ found /\ seen # NoJob /\ checkHookJob
  /\ upsets' = IF seen # job \/ mem' = "None" THEN upsets + 1 ELSE upsets
  /\ seen # job => MayHappen("StaleRead")
  /\ upsets' <= MaxUpsets
  /\ UNCHANGED <<configured, saved, seen, ok, fails>>

SaveResult ==
  /\ mem # "None"
  /\ saved' = mem
  /\ mem' = "None"
  /\ UNCHANGED <<configured, job, seen, ctx, ok, fails, broken, upsets>>

LoseResult ==
  /\ MayHappen("Lost") /\ upsets < MaxUpsets
  /\ mem # "None"
  /\ mem' = "None"
  /\ upsets' = upsets + 1
  /\ UNCHANGED <<configured, saved, job, seen, ctx, ok, fails, broken>>

----------------------------------------------------------------------------
(* The cluster: a run ends, at its deadline if not before; the cache is    *)
(* brought up to date.                                                     *)

JobEnds ==
  /\ job.state = "Active"
  /\ \/ /\ job' = [job EXCEPT !.state = "Succeeded"]
        /\ ok' = TRUE /\ UNCHANGED fails
     \/ /\ job' = [job EXCEPT !.state = "Failed"]
        /\ fails' = fails + 1 /\ UNCHANGED ok
  /\ UNCHANGED <<configured, saved, mem, seen, ctx, broken, upsets>>

JobSeen ==
  /\ seen # job
  /\ seen' = job
  /\ UNCHANGED <<configured, saved, mem, job, ctx, ok, fails, broken, upsets>>

HookNext == runHook \/ SaveResult \/ LoseResult \/ JobEnds \/ JobSeen

HookSpec == HookInit /\ [][HookNext]_hookVars

\* The controller calls again while it is told to wait, the Job has a
\* deadline, and the watch delivers.
HookFairSpec ==
  /\ HookSpec
  /\ WF_hookVars(runHook)
  /\ WF_hookVars(SaveResult)
  /\ WF_hookVars(JobEnds)
  /\ WF_hookVars(JobSeen)

----------------------------------------------------------------------------
(* Properties.                                                             *)

HookTypeOK ==
  /\ configured \in BOOLEAN
  /\ saved \in {"Hook", "Passed", "Failed"}
  /\ mem \in {"None", "Hook", "Passed", "Failed"}
  /\ job \in Jobs /\ seen \in Jobs
  /\ ctx \in BOOLEAN
  /\ ok \in BOOLEAN /\ fails \in Nat /\ broken \in BOOLEAN
  /\ upsets \in 0 .. MaxUpsets

Gate == INSTANCE HookGate

\* runHook lets the pipeline go on only after a run has succeeded and gives up
\* only after hookMaxRetries have failed or a call has, whatever the cache
\* shows and whichever passes are lost.
ImplementsHookGate == Gate!GateSpec

\* checkHookJob: when the pipeline goes on, no Job and no ConfigMap of the
\* hook is left behind.
PassedLeavesNothing == saved = "Passed" => job = NoJob /\ ~ctx

\* The hook does not hold the pipeline up for ever.
HookEnds == <>(saved # "Hook")
=============================================================================
