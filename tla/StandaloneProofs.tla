-------------------------- MODULE StandaloneProofs --------------------------
(***************************************************************************)
(* Proofs about the three parts that stand alone.  HookRunner implements   *)
(* HookGate, for every number of attempts, any lag of the cache and any    *)
(* number of lost passes, as long as the Hook itself can be read; and if   *)
(* deletions succeed it leaves nothing behind.  DeltaSync, copying in      *)
(* rounds, loses nothing, for every set of blocks, any number of rounds    *)
(* and whatever is written meanwhile.  And what PrismClient promises, for  *)
(* every number of retries and of calls, every inventory, size of a page   *)
(* and age of a token: a call creates at most one object, one that returns *)
(* without error has happened, a listing is the inventory, and a token is  *)
(* live until it is renewed.                                               *)
(***************************************************************************)
EXTENDS HookRunner, DeltaSync, PrismClient, SequenceTheorems, TLAPS

----------------------------------------------------------------------------
(* The hook runner.                                                        *)

\* What is known of a Job, the real one or the cached one: the attempts
\* before it have failed, and its state tells how its own run ended.
Earned(j) ==
  j # NoJob =>
    /\ configured
    /\ fails >= j.attempt - 1
    /\ j.state = "Failed" => fails >= j.attempt
    /\ j.state = "Succeeded" => ok

HookInv ==
  /\ HookTypeOK
  /\ Earned(job) /\ Earned(seen)
  /\ mem # "None" => saved = "Hook"
  /\ mem = "Passed" => (configured => ok)
  /\ mem = "Failed" => configured /\ (fails >= hookMaxRetries \/ broken)

\* No call of a pass takes away what is known of Jobs: a Job it creates has
\* only attempts behind it that the Job it replaces has seen fail.
LEMMA PassKeepsEarned ==
  ASSUME HookInv, "HookReadError" \notin HookFaults, runHook
  PROVE  /\ job' \in Jobs /\ Earned(job)' /\ Earned(seen)'
         /\ mem' \in {"None", "Hook", "Passed", "Failed"}
         /\ ctx' \in BOOLEAN /\ broken' \in BOOLEAN
         /\ broken => broken'
         /\ mem' = "Passed" => (configured => ok)
         /\ mem' = "Failed" => configured /\ (fails >= hookMaxRetries \/ broken')
<1>1. findHook = {configured}
  BY DEF findHook, MayHappen
<1>2. \/ ~configured /\ Completed /\ UNCHANGED <<job, ctx>>
      \/ configured /\ CallFails /\ UNCHANGED <<job, ctx>>
      \/ configured /\ seen = NoJob /\ createHook
      \/ configured /\ seen # NoJob /\ checkHookJob
  BY <1>1, Zenon DEF runHook
<1>4. UNCHANGED <<configured, saved, seen, ok, fails>>
  BY DEF runHook
<1>5. Earned(seen)'
  BY <1>4 DEF HookInv, Earned
<1>6. /\ NoJob \in Jobs
      /\ \A a \in Nat \ {0} : Job(a) \in Jobs /\ Job(a) # NoJob /\ Job(a).attempt = a
                              /\ Job(a).state = "Active"
  BY DEF Jobs, Job, NoJob
<1>7. \A a \in Nat \ {0} : (configured /\ fails >= a - 1 /\ job' = Job(a)) => Earned(job)'
  BY <1>4, <1>6 DEF Earned, HookInv, HookTypeOK
<1>8. job' = job => Earned(job)'
  BY <1>4 DEF HookInv, Earned
<1>9. job' = NoJob => Earned(job)'
  BY <1>4 DEF Earned, NoJob
<1>10. CASE \/ ~configured /\ Completed /\ UNCHANGED <<job, ctx>>
            \/ configured /\ CallFails /\ UNCHANGED <<job, ctx>>
  BY <1>5, <1>8, <1>10, Zenon DEF HookInv, HookTypeOK, Completed, CallFails
<1>11. CASE configured /\ seen = NoJob /\ createHook
  <2>1. job' = job \/ job' = Job(1)
    BY <1>11 DEF createHook, createHookJobWithAttempt
  <2>2. job' \in Jobs /\ Earned(job)'
    BY <1>6, <1>7, <1>8, <1>11, <2>1 DEF HookInv, HookTypeOK
  <2>3. \/ mem' \in {"Hook", "None"} /\ broken' = broken
        \/ mem' = "Failed" /\ broken' = TRUE
    BY <1>11 DEF createHook, NotYet, CallFails, Dies
  <2>4. ctx' \in BOOLEAN
    BY <1>11 DEF createHook, HookInv, HookTypeOK
  <2>5. QED
    BY <1>5, <1>11, <2>2, <2>3, <2>4 DEF HookInv, HookTypeOK
<1>12. CASE configured /\ seen # NoJob /\ checkHookJob
  <2>1. seen.attempt \in Nat \ {0} /\ fails \in Nat
    BY <1>12 DEF HookInv, HookTypeOK, Jobs
  <2>2. CASE seen.state = "Succeeded" /\ cleanupHookResources /\ Completed
    <3>1. job' = NoJob \/ job' = job
      BY <2>2 DEF cleanupHookResources
    <3>2. ok
      BY <1>12, <2>2 DEF HookInv, Earned
    <3>3. QED
      BY <1>5, <1>6, <1>8, <1>9, <2>2, <3>1, <3>2
         DEF cleanupHookResources, Completed, HookInv, HookTypeOK
  <2>3. CASE /\ seen.state = "Failed" /\ seen.attempt >= hookMaxRetries
             /\ cleanupHookResources /\ Fails
    <3>1. job' = NoJob \/ job' = job
      BY <2>3 DEF cleanupHookResources
    <3>2. configured /\ fails >= seen.attempt
      BY <1>12, <2>3 DEF HookInv, Earned
    <3>3. fails >= hookMaxRetries
      BY <2>1, <2>3, <3>2, RetriesAssumption
    <3>4. QED
      BY <1>5, <1>6, <1>8, <1>9, <2>3, <3>1, <3>2, <3>3
         DEF cleanupHookResources, Fails, HookInv, HookTypeOK
  <2>4. CASE /\ seen.state = "Failed" /\ seen.attempt < hookMaxRetries
             /\ retryHook(seen.attempt + 1)
    <3>1. job' = NoJob \/ job' = job \/ job' = Job(seen.attempt + 1)
      BY <2>4 DEF retryHook
    <3>2. configured /\ fails >= seen.attempt
      BY <1>12, <2>4 DEF HookInv, Earned
    <3>3. seen.attempt + 1 \in Nat \ {0} /\ fails >= (seen.attempt + 1) - 1
      BY <2>1, <3>2
    <3>4. job' \in Jobs /\ Earned(job)'
      BY <1>6, <1>7, <1>8, <1>9, <3>1, <3>2, <3>3 DEF HookInv, HookTypeOK
    <3>5. /\ \/ mem' \in {"Hook", "None"} /\ broken' = broken
             \/ mem' = "Failed" /\ broken' = TRUE
          /\ ctx' = ctx
      BY <2>4 DEF retryHook, NotYet, CallFails, Dies
    <3>6. QED
      BY <1>5, <1>12, <3>4, <3>5, Zenon DEF HookInv, HookTypeOK
  <2>5. CASE seen.state = "Active" /\ NotYet /\ UNCHANGED <<job, ctx>>
    BY <1>5, <1>8, <2>5 DEF NotYet, HookInv, HookTypeOK
  <2>6. CASE cleanupCutShort
    BY <1>5, <1>6, <1>9, <2>6 DEF cleanupCutShort, Dies, HookInv, HookTypeOK
  <2>7. QED
    BY <1>12, <2>2, <2>3, <2>4, <2>5, <2>6 DEF checkHookJob
<1>13. QED
  BY <1>2, <1>10, <1>11, <1>12, Zenon

\* A run that ends makes the Job's state tell how.
LEMMA EndKeepsEarned ==
  ASSUME HookInv, JobEnds
  PROVE  /\ job' \in Jobs /\ ok' \in BOOLEAN /\ fails' \in Nat
         /\ Earned(job)' /\ Earned(seen)'
         /\ ok => ok'
         /\ fails' >= fails
         /\ configured
<1>1. /\ job.attempt \in Nat \ {0} /\ job # NoJob /\ fails \in Nat
      /\ job \in [attempt : Nat \ {0}, state : {"Active", "Succeeded", "Failed"}]
  BY DEF JobEnds, HookInv, HookTypeOK, Jobs, NoJob
<1>2. configured /\ fails >= job.attempt - 1
  BY <1>1 DEF HookInv, Earned
<1>3. configured' = configured /\ seen' = seen
  BY DEF JobEnds
<1>4. CASE job' = [job EXCEPT !.state = "Succeeded"] /\ ok' = TRUE /\ UNCHANGED fails
  <2>1. job'.attempt = job.attempt /\ job'.state = "Succeeded" /\ job' \in Jobs
    BY <1>1, <1>4 DEF Jobs
  <2>2. Earned(job)'
    BY <1>2, <1>3, <1>4, <2>1 DEF Earned
  <2>3. Earned(seen)'
    BY <1>3, <1>4 DEF HookInv, Earned
  <2>4. QED
    BY <1>1, <1>2, <1>4, <2>1, <2>2, <2>3
<1>5. CASE job' = [job EXCEPT !.state = "Failed"] /\ fails' = fails + 1 /\ UNCHANGED ok
  <2>1. job'.attempt = job.attempt /\ job'.state = "Failed" /\ job' \in Jobs
    BY <1>1, <1>5 DEF Jobs
  <2>2. fails + 1 >= job.attempt /\ fails + 1 >= job.attempt - 1
    BY <1>1, <1>2
  <2>3. Earned(job)'
    BY <1>2, <1>3, <1>5, <2>1, <2>2 DEF Earned
  <2>4. seen = NoJob \/ seen.attempt \in Nat
    BY DEF HookInv, HookTypeOK, Jobs
  <2>5. Earned(seen)'
    BY <1>1, <1>3, <1>5, <2>4 DEF HookInv, Earned
  <2>6. QED
    BY <1>1, <1>2, <1>5, <2>1, <2>3, <2>5 DEF HookInv, HookTypeOK
<1>6. QED
  BY <1>4, <1>5 DEF JobEnds

\* HookInv holds when the pipeline comes to the hook.
LEMMA InitHookInv ==
  ASSUME HookInit
  PROVE  HookInv
<1>1. fails \in Nat /\ upsets \in 0 .. MaxUpsets
  BY UpsetsAssumption DEF HookInit
<1>2. HookTypeOK
  BY <1>1, Zenon DEF HookInit, HookTypeOK, Jobs
<1>3. QED
  BY <1>2 DEF HookInit, HookInv, Earned

\* HookInv is inductive.
LEMMA HookInvStep ==
  ASSUME HookInv, "HookReadError" \notin HookFaults, [HookNext]_hookVars
  PROVE  HookInv'
<1>1. CASE runHook
  <2>1. UNCHANGED <<configured, saved, seen, ok, fails>>
    BY <1>1 DEF runHook
  <2>2. upsets' \in 0 .. MaxUpsets
    BY <1>1, UpsetsAssumption DEF runHook, HookInv, HookTypeOK
  <2>3. HookTypeOK'
    BY <1>1, <2>1, <2>2, PassKeepsEarned DEF HookInv, HookTypeOK
  <2>4. saved' = "Hook"
    BY <1>1, <2>1 DEF runHook
  <2>5. QED
    BY <1>1, <2>1, <2>3, <2>4, PassKeepsEarned DEF HookInv
<1>2. CASE SaveResult
  BY <1>2 DEF SaveResult, HookInv, HookTypeOK, Earned
<1>3. CASE LoseResult
  <2>1. upsets' \in 0 .. MaxUpsets
    BY <1>3, UpsetsAssumption DEF LoseResult, HookInv, HookTypeOK
  <2>2. QED
    BY <1>3, <2>1 DEF LoseResult, HookInv, HookTypeOK, Earned
<1>4. CASE JobEnds
  <2>1. UNCHANGED <<configured, saved, mem, seen, ctx, broken, upsets>>
    BY <1>4 DEF JobEnds
  <2>2. fails >= hookMaxRetries => fails' >= hookMaxRetries
    BY <1>4, EndKeepsEarned, RetriesAssumption DEF HookInv, HookTypeOK
  <2>3. QED
    BY <1>4, <2>1, <2>2, EndKeepsEarned DEF HookInv, HookTypeOK
<1>5. CASE JobSeen
  BY <1>5 DEF JobSeen, HookInv, HookTypeOK, Earned
<1>6. CASE UNCHANGED hookVars
  BY <1>6 DEF hookVars, HookInv, HookTypeOK, Earned
<1>7. QED
  BY <1>1, <1>2, <1>3, <1>4, <1>5, <1>6 DEF HookNext

\* Every step of the hook runner is a step of HookGate, or none.
LEMMA HookStepIsGateStep ==
  ASSUME HookInv, "HookReadError" \notin HookFaults, [HookNext]_hookVars
  PROVE  [Gate!RunEnds \/ Gate!CallBreaks \/ Gate!GoOn \/ Gate!GiveUp]_(Gate!gateVars)
<1>1. CASE runHook
  <2>1. UNCHANGED <<configured, saved, ok, fails>>
    BY <1>1 DEF runHook
  <2>2. broken' = broken \/ broken' = TRUE
    BY <1>1, PassKeepsEarned DEF HookInv, HookTypeOK
  <2>3. QED
    BY <2>1, <2>2 DEF Gate!CallBreaks, Gate!gateVars
<1>2. CASE SaveResult
  <2>1. /\ saved' = mem /\ mem \in {"Hook", "Passed", "Failed"}
        /\ UNCHANGED <<configured, ok, fails, broken>>
    BY <1>2 DEF SaveResult, HookInv, HookTypeOK
  <2>2. saved = "Hook"
    BY <1>2 DEF SaveResult, HookInv
  <2>3. CASE mem = "Hook"
    BY <2>1, <2>2, <2>3 DEF Gate!gateVars
  <2>4. CASE mem = "Passed"
    BY <2>1, <2>2, <2>4 DEF HookInv, Gate!GoOn
  <2>5. CASE mem = "Failed"
    BY <2>1, <2>2, <2>5 DEF HookInv, Gate!GiveUp
  <2>6. QED
    BY <2>1, <2>3, <2>4, <2>5
<1>3. CASE LoseResult \/ JobSeen \/ UNCHANGED hookVars
  BY <1>3 DEF LoseResult, JobSeen, hookVars, Gate!gateVars
<1>4. CASE JobEnds
  BY <1>4, EndKeepsEarned, Zenon DEF JobEnds, Gate!RunEnds
<1>5. QED
  BY <1>1, <1>2, <1>3, <1>4 DEF HookNext

\* runHook and checkHookJob implement the gate, for any number of attempts,
\* with a stale cache, lost passes, restarts and failed calls, as long as
\* findHook does not take a Hook that it cannot read for none.
THEOREM HookRunnerIsGate ==
  ASSUME "HookReadError" \notin HookFaults
  PROVE  HookSpec => ImplementsHookGate
<1>1. HookInit => HookInv /\ Gate!GateInit
  BY InitHookInv, Zenon DEF HookInit, Gate!GateInit
<1>2. HookInv /\ [HookNext]_hookVars => HookInv'
  BY HookInvStep
<1>3. HookInv /\ [HookNext]_hookVars
        => [Gate!RunEnds \/ Gate!CallBreaks \/ Gate!GoOn \/ Gate!GiveUp]_(Gate!gateVars)
  BY HookStepIsGateStep
<1>4. QED
  BY <1>1, <1>2, <1>3, PTL DEF HookSpec, ImplementsHookGate, Gate!GateSpec

----------------------------------------------------------------------------
\* A pass that lets the pipeline go on has nothing left behind it, from when
\* it has found that out; and a step without a hook never has anything.
TidyInv ==
  /\ ctx => configured
  /\ mem = "Passed" \/ saved = "Passed" => job = NoJob /\ ~ctx

\* TidyInv is inductive together with HookInv.
LEMMA TidyStep ==
  ASSUME HookInv, TidyInv, {"HookReadError", "CleanupError"} \cap HookFaults = {},
         [HookNext]_hookVars
  PROVE  TidyInv'
<1>1. CASE runHook
  <2>1. mem = "None" /\ saved = "Hook" /\ saved' = saved /\ configured' = configured
    BY <1>1 DEF runHook
  <2>2. findHook = {configured}
    BY DEF findHook, MayHappen
  <2>3. \/ ~configured /\ UNCHANGED <<job, ctx>>
        \/ configured /\ CallFails
        \/ configured /\ createHook
        \/ configured /\ checkHookJob
    BY <1>1, <2>2, Zenon DEF runHook
  <2>4. CASE ~configured /\ UNCHANGED <<job, ctx>>
    BY <2>1, <2>4 DEF TidyInv, HookInv, Earned
  <2>5. CASE configured /\ (CallFails \/ createHook)
    <3>1. mem' # "Passed"
      BY <2>5 DEF CallFails, createHook, NotYet, Dies
    <3>2. QED
      BY <2>1, <2>5, <3>1 DEF TidyInv
  <2>6. CASE configured /\ checkHookJob
    <3>1. mem' # "Passed" \/ cleanupHookResources
      BY <2>6 DEF checkHookJob, cleanupCutShort, retryHook, Fails, NotYet, CallFails, Dies
    <3>2. cleanupHookResources => job' = NoJob /\ ~ctx'
      BY DEF cleanupHookResources, MayHappen
    <3>3. QED
      BY <2>1, <2>6, <3>1, <3>2 DEF TidyInv
  <2>7. QED
    BY <2>3, <2>4, <2>5, <2>6
<1>2. CASE SaveResult
  BY <1>2 DEF SaveResult, TidyInv
<1>3. CASE LoseResult
  BY <1>3 DEF LoseResult, TidyInv, HookInv
<1>4. CASE JobEnds
  BY <1>4 DEF JobEnds, TidyInv, NoJob
<1>5. CASE JobSeen \/ UNCHANGED hookVars
  BY <1>5 DEF JobSeen, hookVars, TidyInv
<1>6. QED
  BY <1>1, <1>2, <1>3, <1>4, <1>5 DEF HookNext

\* When runHook lets the pipeline go on, no Job and no ConfigMap of the hook is
\* left behind, whichever passes are lost and wherever the operator dies: what
\* checkHookJob has only half deleted, a later pass creates anew and deletes.  This
\* takes that the Hook can be read and that no deletion fails, which are the
\* two errors the runner only logs.
THEOREM PassedIsTidy ==
  ASSUME {"HookReadError", "CleanupError"} \cap HookFaults = {}
  PROVE  HookSpec => []PassedLeavesNothing
<1>0. "HookReadError" \notin HookFaults
  OBVIOUS
<1>1. HookInit => HookInv /\ TidyInv
  BY InitHookInv, Zenon DEF HookInit, TidyInv
<1>2. HookInv /\ TidyInv /\ [HookNext]_hookVars => (HookInv /\ TidyInv)'
  BY <1>0, HookInvStep, TidyStep
<1>3. TidyInv => PassedLeavesNothing
  BY DEF TidyInv, PassedLeavesNothing
<1>4. QED
  BY <1>1, <1>2, <1>3, PTL DEF HookSpec

----------------------------------------------------------------------------
(* Copying in rounds.                                                      *)

SyncTypeOK ==
  /\ disk \in Contents /\ target \in Contents /\ base \in Contents
  /\ delta \in Contents
  /\ on \in BOOLEAN /\ open \in BOOLEAN
  /\ done \in SUBSET Blocks

Live == st \in {"syncing", "synced", "created"}

\* The target is never behind the base, so a block that has not changed since
\* need not be copied; a block the round is done with is not behind the
\* delta, so the delta may become the base; and a delta that is open while
\* the source is off, having stopped between two rounds, has all of the source.
SyncInv ==
  /\ st # "aborted" => SyncTypeOK
  /\ Live => NotOlder(target, base) /\ NotOlder(disk, target)
  /\ st = "new" => ~open
  /\ st = "syncing" /\ open =>
       /\ NotOlder(disk, delta) /\ NotOlder(delta, base)
       /\ \A b \in done : target[b] >= delta[b]
       /\ ~on /\ ~cut => delta = disk
  /\ st \in {"synced", "created"} => ~on /\ ~open /\ (~cut => target = disk)

LEMMA Same ==
  ASSUME NEW x \in Contents, NEW y \in Contents, NotOlder(x, y), NotOlder(y, x)
  PROVE  x = y
<1>1. ASSUME NEW b \in Blocks PROVE x[b] = y[b]
  <2>1. x[b] \in Nat /\ y[b] \in Nat
    BY DEF Contents
  <2>2. x[b] >= y[b] /\ y[b] >= x[b]
    BY DEF NotOlder
  <2> QED
    BY <2>1, <2>2
<1> QED
  BY <1>1 DEF Contents

LEMMA Ordered ==
  ASSUME NEW x \in Contents, NEW y \in Contents, NEW z \in Contents,
         NotOlder(x, y), NotOlder(y, z)
  PROVE  NotOlder(x, z)
<1> SUFFICES ASSUME NEW b \in Blocks PROVE x[b] >= z[b]
  BY DEF NotOlder
<1>1. x[b] \in Nat /\ y[b] \in Nat /\ z[b] \in Nat
  BY DEF Contents
<1>2. x[b] >= y[b] /\ y[b] >= z[b]
  BY DEF NotOlder
<1> QED
  BY <1>1, <1>2

LEMMA Itself == ASSUME NEW x \in Contents PROVE NotOlder(x, x)
  BY DEF Contents, NotOlder

\* What the target is worth once a round has progressed to D.
LEMMA ProgressFacts ==
  ASSUME SyncInv, NEW s, NEW D, Progress(s, D)
  PROVE  /\ SyncTypeOK /\ s \in Contents /\ D \in SUBSET Blocks
         /\ disk' \in Contents /\ NotOlder(disk', disk)
         /\ NotOlder(disk, s) /\ NotOlder(s, base)
         /\ \A b \in D : target[b] >= s[b]
         /\ ~on => disk' = disk /\ (~cut => s = disk)
         /\ NotOlder(target, base) /\ NotOlder(disk, target)
         /\ UNCHANGED <<on, target, cut>>
<1>1. SyncTypeOK /\ st = "syncing" /\ NotOlder(target, base) /\ NotOlder(disk, target)
  BY DEF Progress, SyncInv, Live
<1>2. /\ s \in Contents /\ D \in SUBSET Blocks /\ disk' \in Contents
      /\ NotOlder(disk', disk) /\ UNCHANGED <<on, target, cut>>
  BY <1>1 DEF Progress, GuestRuns, SyncTypeOK
<1>3. NotOlder(disk, s)
  BY <1>1, Itself DEF Progress, SyncInv, SyncTypeOK
<1>4. NotOlder(s, base)
  <2>1. CASE open
    BY <1>1, <2>1 DEF Progress, SyncInv
  <2>2. CASE ~open
    <3>1. s = disk
      BY <2>2 DEF Progress
    <3> QED
      BY <1>1, <3>1, Ordered DEF SyncTypeOK
  <2> QED
    BY <2>1, <2>2
<1>5. ~on => disk' = disk /\ (~cut => s = disk)
  BY <1>1 DEF Progress, SyncInv, GuestRuns
<1>6. ASSUME NEW b \in D PROVE target[b] >= s[b]
  <2>1. b \in Blocks
    BY <1>2
  <2>2. CASE open /\ b \in done
    BY <1>1, <2>2 DEF Progress, SyncInv
  <2>3. CASE base[b] = s[b]
    BY <1>1, <2>1, <2>3 DEF NotOlder
  <2>4. CASE target[b] >= s[b]
    BY <2>4
  <2> QED
    BY <1>6, <2>2, <2>3, <2>4 DEF Progress
<1> QED
  BY <1>1, <1>2, <1>3, <1>4, <1>5, <1>6

LEMMA SyncStep == SyncInv /\ [SyncNext]_syncVars => SyncInv'
<1> SUFFICES ASSUME SyncInv, [SyncNext]_syncVars PROVE SyncInv'
  OBVIOUS
<1>0. SUFFICES ASSUME st # "aborted", st' # "aborted" PROVE SyncInv'
  <2>1. CASE st' = "aborted"
    BY <2>1 DEF SyncInv, Live
  <2>2. CASE st = "aborted"
    BY <2>2, Zenon DEF SyncInv, Live, SyncNext, syncVars, Guest, Cutover, Stop, BulkCopy, Work,
      Promote, Finish, Progress, Copy, Create, Abort
  <2> QED
    BY <1>0, <2>1, <2>2
<1>1. SyncTypeOK
  BY <1>0 DEF SyncInv
<1>2. CASE Guest
  <2>1. SyncTypeOK' /\ NotOlder(disk', disk) /\ UNCHANGED <<target, base, delta, st, on, open, done, cut>>
    BY <1>1, <1>2 DEF Guest, GuestRuns, SyncTypeOK
  <2>2. Live => NotOlder(disk', target')
    BY <1>1, <2>1, Ordered DEF SyncInv, SyncTypeOK
  <2>3. st = "syncing" /\ open => NotOlder(disk', delta')
    BY <1>1, <2>1, Ordered DEF SyncInv, SyncTypeOK
  <2> QED
    BY <1>2, <2>1, <2>2, <2>3 DEF SyncInv, Live, Guest, GuestRuns, NotOlder
<1>3. CASE Stop
  BY <1>1, <1>3 DEF Stop, SyncInv, SyncTypeOK, Live, NotOlder
<1>11. CASE Cutover
  BY <1>1, <1>11 DEF Cutover, SyncInv, SyncTypeOK, Live, NotOlder
<1>4. CASE BulkCopy
  <2>1. SyncTypeOK' /\ ~open'
    BY <1>1, <1>4 DEF BulkCopy, GuestRuns, SyncTypeOK, SyncInv
  <2> QED
    BY <1>4, <2>1, Zenon DEF BulkCopy, SyncInv, Live, NotOlder
<1>5. CASE Work
  <2>1. PICK s, D : Progress(s, D) /\ s = delta' /\ D = done'
    BY <1>5 DEF Work
  <2>2. /\ s \in Contents /\ D \in SUBSET Blocks /\ disk' \in Contents
        /\ NotOlder(disk', disk) /\ NotOlder(disk, s) /\ NotOlder(s, base)
        /\ \A b \in D : target[b] >= s[b]
        /\ ~on => disk' = disk /\ (~cut => s = disk)
        /\ NotOlder(target, base) /\ NotOlder(disk, target)
        /\ UNCHANGED <<on, target, cut>>
    BY <2>1, ProgressFacts
  <2>3. NotOlder(disk', s) /\ NotOlder(disk', target)
    BY <1>1, <2>2, Ordered DEF SyncTypeOK
  <2>4. SyncTypeOK'
    BY <1>1, <1>5, <2>1, <2>2 DEF Work, SyncTypeOK
  <2>5. open' /\ st' = "syncing" /\ base' = base
    BY <1>5, <2>1, Zenon DEF Work, Progress
  <2> QED
    BY <2>1, <2>2, <2>3, <2>4, <2>5, Zenon DEF SyncInv, Live, NotOlder
<1>6. CASE Promote
  <2>1. PICK s : Progress(s, Blocks) /\ s = base'
    BY <1>6 DEF Promote
  <2>2. /\ s \in Contents /\ disk' \in Contents /\ NotOlder(disk', disk)
        /\ \A b \in Blocks : target[b] >= s[b]
        /\ NotOlder(disk, target)
        /\ UNCHANGED <<on, target, cut>>
    BY <2>1, ProgressFacts
  <2>3. NotOlder(disk', target) /\ NotOlder(target, s)
    BY <1>1, <2>2, Ordered DEF SyncTypeOK, NotOlder
  <2>4. SyncTypeOK'
    BY <1>1, <1>6, <2>1, <2>2 DEF Promote, SyncTypeOK
  <2>5. ~open' /\ st' = "syncing"
    BY <1>6, <2>1 DEF Promote, Progress
  <2> QED
    BY <2>1, <2>2, <2>3, <2>4, <2>5, Zenon DEF SyncInv, Live, NotOlder
<1>7. CASE Finish
  <2>1. PICK s : Progress(s, Blocks)
    BY <1>7 DEF Finish
  <2>2. /\ s \in Contents /\ disk' = disk /\ (~cut => s = disk)
        /\ \A b \in Blocks : target[b] >= s[b]
        /\ NotOlder(target, base) /\ NotOlder(disk, target)
        /\ UNCHANGED <<on, target, cut>>
    BY <1>7, <2>1, ProgressFacts DEF Finish
  <2>3. ~cut => target = disk
    BY <1>1, <2>2, Same DEF SyncTypeOK, NotOlder
  <2>4. SyncTypeOK'
    BY <1>1, <1>7, <2>2, Zenon DEF Finish, SyncTypeOK
  <2>5. ~open' /\ st' = "synced" /\ ~on /\ base' = base
    BY <1>7 DEF Finish
  <2> QED
    BY <2>2, <2>3, <2>4, <2>5, Zenon DEF SyncInv, Live, NotOlder
<1>8. ASSUME NEW b \in Blocks, Copy(b) PROVE SyncInv'
  <2>1. /\ SyncTypeOK' /\ st = "syncing" /\ open
        /\ UNCHANGED <<disk, on, base, open, delta, done, cut, st>>
    BY <1>1, <1>8 DEF Copy, SyncTypeOK
  <2>2. /\ disk \in Contents /\ target \in Contents /\ base \in Contents
        /\ delta \in Contents /\ target' \in Contents /\ done \in SUBSET Blocks
    BY <1>1, <2>1 DEF SyncTypeOK
  <2>3. \A c \in Blocks : target'[c] = target[c] \/ c = b
    BY <1>8, Zenon DEF Copy
  <2>4. target'[b] >= delta[b] /\ disk[b] >= target'[b] /\ delta[b] >= base[b]
    BY <1>8, <2>1 DEF Copy, SyncInv, NotOlder
  <2> QED
    BY <2>1, <2>2, <2>3, <2>4 DEF SyncInv, Live, NotOlder, Contents
<1>9. CASE Create
  BY <1>1, <1>9 DEF Create, SyncInv, SyncTypeOK, Live, NotOlder
<1>10. CASE UNCHANGED syncVars
  BY <1>1, <1>10 DEF syncVars, SyncInv, SyncTypeOK, Live, NotOlder
<1> QED
  BY <1>0, <1>2, <1>3, <1>4, <1>5, <1>6, <1>7, <1>8, <1>9, <1>10, <1>11
  DEF SyncNext, Abort

\* Whatever is written while the rounds go on, the target that is created in
\* the end has all that the last base has, and all that was ever written if the
\* source was not stopped in the middle of a round: for every set of blocks and
\* number of rounds.
THEOREM CopyInRoundsLosesNothing == SyncSpec => []NothingLost
<1>1. SyncInit => SyncInv
  BY DEF SyncInit, SyncInv, SyncTypeOK, Live
<1>2. SyncInv => NothingLost
  BY DEF SyncInv, Live, NothingLost
<1> QED
  BY <1>1, <1>2, SyncStep, PTL DEF SyncSpec

----------------------------------------------------------------------------
(* The client of Prism Central.                                            *)

Tasks == [op : Ops, target : Int, status : {"RUNNING", "SUCCEEDED", "FAILED"}, call : Nat]
Places == {"Idle", "Send", "Poll", "Get", "Wait", "Page", "Renew", "Renewed"}
Calls == [op : Ops, target : Int, at : Places, attempt : Nat,
          body : {"None", "Whole", "Spent"}, task : Int, offset : Nat,
          late : BOOLEAN, touched : BOOLEAN, result : {"None", "OK", "Error"}]

PrismTypes ==
  /\ call \in Calls /\ calls \in Nat /\ tasks \in Seq(Tasks)
  /\ \A t \in DOMAIN tasks : tasks[t].call <= calls

\* A call that could still be accepted has not been accepted before.
BodyIsUnsent ==
  call.at = "Send" /\ call.op = "Create" /\ call.body = "Whole" =>
    \A t \in DOMAIN tasks : tasks[t].call = calls => tasks[t].op # "Create"

PrismInv == PrismTypes /\ BodyIsUnsent /\ OneObjectPerCall

-----------------------------------------------------------------------------
\* A call only moves on: another attempt never gets its body back.
LEMMA RetryKeepsCall ==
  ASSUME call \in Calls, RetryWith(call.body) \/ RetryWith(AfterSending)
  PROVE  /\ call' \in Calls
         /\ call'.op = call.op
         /\ call'.at = "Send" => call.at = "Send" /\ call'.body \in {call.body, AfterSending}
  <1>1. CASE call.attempt < maxRetries
    <2>1. call.attempt + 1 \in Nat
      BY DEF Calls
    <2>2. AfterSending \in {"None", "Whole", "Spent"}
      BY DEF AfterSending, Spent
    <2>3. \/ call' = [call EXCEPT !.attempt = call.attempt + 1, !.body = call.body]
          \/ call' = [call EXCEPT !.attempt = call.attempt + 1, !.body = AfterSending]
      BY <1>1 DEF RetryWith
    <2>4. CASE call' = [call EXCEPT !.attempt = call.attempt + 1, !.body = call.body]
      BY <2>1, <2>4 DEF Calls
    <2>5. CASE call' = [call EXCEPT !.attempt = call.attempt + 1, !.body = AfterSending]
      BY <2>1, <2>2, <2>5 DEF Calls
    <2> QED BY <2>3, <2>4, <2>5
  <1>2. CASE ~(call.attempt < maxRetries)
    <2>1. call' = [call EXCEPT !.at = "Idle", !.result = "Error"]
      BY <1>2 DEF RetryWith, Return
    <2> QED BY <2>1, Zenon DEF Calls, Places
  <1> QED BY <1>1, <1>2

\* What leaves the tasks and the number of calls alone, and gives no call its
\* body back, keeps the invariant.
LEMMA QuietStep ==
  ASSUME PrismInv, UNCHANGED <<calls, tasks>>,
         call' \in Calls, call'.op = call.op,
         call'.at = "Send" => call.at = "Send" /\ call'.body \in {call.body, AfterSending}
  PROVE  PrismInv'
  <1>1. PrismTypes'
    BY DEF PrismInv, PrismTypes
  <1>2. BodyIsUnsent'
    BY DEF PrismInv, BodyIsUnsent, AfterSending, Spent, PrismTypes, Calls
  <1>3. OneObjectPerCall'
    BY Zenon DEF PrismInv, OneObjectPerCall
  <1> QED BY <1>1, <1>2, <1>3 DEF PrismInv

\* A call that returns is over.
LEMMA ReturnKeepsCall ==
  ASSUME call \in Calls, Return("OK") \/ Return("Error")
  PROVE  call' \in Calls /\ call'.op = call.op /\ call'.at = "Idle"
  <1>1. CASE Return("OK")
    BY <1>1, Zenon DEF Return, Calls, Places
  <1>2. CASE Return("Error")
    BY <1>2 DEF Return, Calls, Places
  <1> QED BY <1>1, <1>2

\* Another attempt after a request was sent has no body left.
LEMMA RetrySpendsBody ==
  ASSUME call \in Calls, RetryWith(AfterSending)
  PROVE  call'.at = "Send" => call'.body # "Whole"
  <1>1. AfterSending # "Whole"
    BY DEF AfterSending, Spent
  <1>2. CASE call.attempt < maxRetries
    <2>1. call' = [call EXCEPT !.attempt = call.attempt + 1, !.body = AfterSending]
      BY <1>2 DEF RetryWith
    <2> QED BY <1>1, <2>1 DEF Calls
  <1>3. CASE ~(call.attempt < maxRetries)
    BY <1>3, ReturnKeepsCall DEF RetryWith
  <1> QED BY <1>2, <1>3

\* Going on to another step leaves the call what it is.
LEMMA GoToKeepsCall ==
  ASSUME call \in Calls, NEW p \in {"Poll", "Get", "Wait", "Page"}, GoTo(p)
  PROVE  call' \in Calls /\ call'.op = call.op /\ call'.at = p
  BY DEF GoTo, Calls, Places

\* A new call has the type of a call.
LEMMA NewCallTyped == ASSUME NEW op \in Ops, NEW vm \in Int PROVE NewCall(op, vm) \in Calls
  <1> DEFINE b == IF op \in {"Delete", "List"} THEN "None" ELSE "Whole"
             c == [op |-> op, target |-> vm, at |-> "Send", attempt |-> 0, body |-> b,
                   task |-> 0, offset |-> 0, late |-> FALSE, touched |-> FALSE, result |-> "None"]
  <1>1. b \in {"None", "Whole", "Spent"}
    OBVIOUS
  <1>2. NewCall(op, vm) = c
    BY DEF NewCall
  <1> HIDE DEF b
  <1>3. c \in Calls
    BY <1>1 DEF Calls, Places
  <1> QED BY <1>2, <1>3

\* The end of a task changes its status and nothing else.
EndOfTask(u, how) ==
  /\ tasks' \in Seq(Tasks) /\ DOMAIN tasks' = DOMAIN tasks
  /\ \A t \in DOMAIN tasks :
       /\ tasks'[t].op = tasks[t].op /\ tasks'[t].call = tasks[t].call
       /\ tasks'[t].target = tasks[t].target
       /\ tasks'[t].status = IF t = u THEN how ELSE tasks[t].status

LEMMA TaskEndIs ==
  ASSUME tasks \in Seq(Tasks), NEW u \in DOMAIN tasks, NEW how \in {"SUCCEEDED", "FAILED"},
         tasks' = [tasks EXCEPT ![u].status = how]
  PROVE  EndOfTask(u, how)
  <1>1. tasks[u] \in Tasks
    OBVIOUS
  <1> DEFINE ended == [tasks[u] EXCEPT !.status = how]
  <1>2. /\ ended \in Tasks /\ ended.op = tasks[u].op /\ ended.call = tasks[u].call
        /\ ended.target = tasks[u].target /\ ended.status = how
    BY <1>1 DEF Tasks
  <1>3. tasks' = [tasks EXCEPT ![u] = ended]
    OBVIOUS
  <1> HIDE DEF ended
  <1> QED BY <1>2, <1>3 DEF EndOfTask

-----------------------------------------------------------------------------
\* The step that matters: Prism accepts a request.
LEMMA SendKeepsInv == ASSUME PrismInv, SendMutation PROVE PrismInv'
  <1> DEFINE new == [op |-> call.op, target |-> call.target,
                     status |-> "RUNNING", call |-> calls]
  <1>1. /\ call \in Calls /\ calls \in Nat /\ tasks \in Seq(Tasks)
        /\ call.at = "Send" /\ (call.op = "Create" => call.body = "Whole")
        /\ calls' = calls /\ tasks' = Append(tasks, new)
        /\ \A t \in DOMAIN tasks : tasks[t].call <= calls
    BY DEF PrismInv, PrismTypes, SendMutation, CreateObject, DeleteObject, PowerVM
  <1>2. new \in Tasks
    BY <1>1, Zenon DEF Tasks, Calls, Ops
  <1>3. /\ tasks' \in Seq(Tasks)
        /\ DOMAIN tasks' = DOMAIN tasks \cup {Len(tasks) + 1}
        /\ Len(tasks) + 1 \notin DOMAIN tasks
        /\ tasks'[Len(tasks) + 1] = new
        /\ \A t \in DOMAIN tasks : tasks'[t] = tasks[t]
    BY <1>1, <1>2
  <1>4. /\ call' \in Calls /\ call'.op = call.op
        /\ call'.at = "Send" => call'.body # "Whole"
    <2>1. CASE call' = [call EXCEPT !.at = "Poll", !.attempt = 0, !.task = Len(tasks) + 1]
      <3>1. Len(tasks) + 1 \in Int
        BY <1>1
      <3> QED BY <1>1, <2>1, <3>1 DEF Calls, Places
    <2>2. CASE RetryWith(AfterSending)
      BY <1>1, <2>2, RetryKeepsCall, RetrySpendsBody
    <2>3. CASE Return("Error")
      BY <1>1, <2>3, ReturnKeepsCall, Zenon
    <2> QED BY <2>1, <2>2, <2>3 DEF SendMutation
  <1>5. PrismTypes'
    BY <1>1, <1>2, <1>3, <1>4 DEF PrismTypes
  <1>6. BodyIsUnsent'
    BY <1>4 DEF BodyIsUnsent
  <1>7. call.op = "Create" => \A t \in DOMAIN tasks : tasks[t].call = calls => tasks[t].op # "Create"
    BY <1>1, Zenon DEF PrismInv, BodyIsUnsent
  <1>8. OneObjectPerCall'
    BY <1>3, <1>7 DEF PrismInv, OneObjectPerCall
  <1> QED BY <1>5, <1>6, <1>8 DEF PrismInv

\* Every step keeps the invariant.
LEMMA PrismStep == ASSUME PrismInv, [PrismNext]_prismVars PROVE PrismInv'
  <1>1. call \in Calls /\ calls \in Nat /\ tasks \in Seq(Tasks)
    BY DEF PrismInv, PrismTypes
  <1>2. CASE RequestFails
    <2>1. CASE RetryWith(call.body) \/ RetryWith(AfterSending)
      BY <1>1, <1>2, <2>1, RetryKeepsCall, QuietStep DEF RequestFails, prismWorld
    <2>2. CASE Return("Error")
      BY <1>1, <1>2, <2>2, ReturnKeepsCall, QuietStep DEF RequestFails, prismWorld
    <2> QED BY <1>2, <2>1, <2>2 DEF RequestFails
  <1>3. CASE SendMutation
    BY <1>3, SendKeepsInv
  <1>4. CASE PollTask
    <2>1. \/ Return("OK") \/ Return("Error") \/ GoTo("Poll") \/ GoTo("Get") \/ GoTo("Wait")
      BY <1>4, Zenon DEF PollTask, PollDeadline, PollAnswer
    <2> QED BY <1>1, <1>4, <2>1, ReturnKeepsCall, GoToKeepsCall, QuietStep DEF PollTask, prismWorld
  <1>5. CASE ListVMs
    <2>1. CASE Return("OK")
      BY <1>1, <1>5, <2>1, ReturnKeepsCall, QuietStep DEF ListVMs, prismWorld
    <2>2. CASE call' = [call EXCEPT !.attempt = 0, !.offset = NextOffset]
      <3>1. NextOffset \in Nat
        BY <1>1, ClientAssumption DEF NextOffset, Calls
      <3> QED BY <1>1, <1>5, <2>2, <3>1, QuietStep DEF ListVMs, prismWorld, Calls
    <2> QED BY <1>5, <2>1, <2>2 DEF ListVMs
  <1>6. CASE DiscoverClusterForCBT
    <2>1. CASE call' = [call EXCEPT !.at = IF call.at = "Send" THEN "Page" ELSE "Renewed", !.attempt = 0]
      BY <1>1, <1>6, <2>1, QuietStep DEF DiscoverClusterForCBT, prismWorld, Calls, Places
    <2>2. CASE RetryWith(AfterSending)
      BY <1>1, <1>6, <2>2, RetryKeepsCall, QuietStep DEF DiscoverClusterForCBT, prismWorld
    <2> QED BY <1>6, <2>1, <2>2 DEF DiscoverClusterForCBT
  <1>7. CASE GetChangedRegions
    <2>1. CASE call' = [call EXCEPT !.at = "Renew", !.attempt = 0, !.body = "Whole"]
      BY <1>1, <1>7, <2>1, QuietStep DEF GetChangedRegions, AskPage, prismWorld, Calls, Places
    <2>2. CASE Return("OK") \/ Return("Error") \/ GoTo("Page")
      BY <1>1, <1>7, <2>2, ReturnKeepsCall, GoToKeepsCall, QuietStep
         DEF GetChangedRegions, AskPage, prismWorld
    <2> QED BY <1>7, <2>1, <2>2 DEF GetChangedRegions, AskPage
  <1>8. CASE CallPrism
    <2>1. PICK o \in Ops, g \in 0..Len(tasks) : call' = NewCall(o, g)
      BY <1>8 DEF CallPrism
    <2>2. calls' = calls + 1 /\ tasks' = tasks
      BY <1>8 DEF CallPrism, prismWorld
    <2>3. call' \in Calls
      <3>1. g \in Int
        BY <1>1, <2>1
      <3>2. NewCall(o, g) \in Calls
        BY <2>1, <3>1, NewCallTyped
      <3> QED BY <2>1, <3>2
    <2>4. \A t \in DOMAIN tasks : tasks[t].call \in Nat /\ tasks[t].call <= calls
      <3>1. \A t \in DOMAIN tasks : tasks[t] \in Tasks
        BY <1>1
      <3>2. \A t \in DOMAIN tasks : tasks[t].call <= calls
        BY DEF PrismInv, PrismTypes
      <3> QED BY <3>1, <3>2 DEF Tasks
    <2>5. PrismTypes'
      BY <1>1, <2>2, <2>3, <2>4 DEF PrismTypes
    <2>6. BodyIsUnsent'
      BY <1>1, <2>2, <2>4 DEF BodyIsUnsent
    <2> QED BY <2>2, <2>5, <2>6 DEF PrismInv, OneObjectPerCall
  <1>9. CASE PollTimeout
    BY <1>1, <1>9, QuietStep, Zenon DEF PollTimeout, prismWorld, Calls
  <1>10. CASE InventoryChanges
    BY <1>1, <1>10, QuietStep DEF InventoryChanges, Calls
  <1>11. CASE TaskEnds
    <2>1. PICK u \in DOMAIN tasks, how \in {"SUCCEEDED", "FAILED"} :
            tasks' = [tasks EXCEPT ![u].status = how]
      BY <1>11, Zenon DEF TaskEnds
    <2>2. call' = call /\ calls' = calls
      BY <1>11 DEF TaskEnds
    <2>3. EndOfTask(u, how)
      BY <1>1, <2>1, TaskEndIs, Zenon
    <2> QED BY <2>2, <2>3, Zenon DEF EndOfTask, PrismInv, PrismTypes, BodyIsUnsent, OneObjectPerCall
  <1>12. CASE UNCHANGED <<call, calls, tasks>>
    BY <1>12 DEF PrismInv, PrismTypes, BodyIsUnsent, OneObjectPerCall
  <1> QED
    BY <1>2, <1>3, <1>4, <1>5, <1>6, <1>7, <1>8, <1>9, <1>10, <1>11, <1>12
       DEF PrismNext, Client, ContextEnds, TokensAge, prismVars, prismWorld

\* PrismInv holds at the start.
LEMMA InitPrismInv == ASSUME PrismInit PROVE PrismInv
  <1>1. call \in Calls /\ call.at = "Idle"
    <2> DEFINE c == NewCall("List", 0)
    <2>1. c \in Calls
      BY NewCallTyped DEF Ops
    <2>2. call = [c EXCEPT !.at = "Idle"]
      BY DEF PrismInit
    <2> HIDE DEF c
    <2> QED BY <2>1, <2>2 DEF Calls, Places
  <1>2. calls \in Nat /\ tasks \in Seq(Tasks) /\ DOMAIN tasks = {}
    BY DEF PrismInit
  <1> QED BY <1>1, <1>2 DEF PrismInv, PrismTypes, BodyIsUnsent, OneObjectPerCall

-----------------------------------------------------------------------------
\* Whatever the number of retries and of calls, whichever answers are lost and
\* whatever tasks run on: one creating call of the client makes Prism accept
\* at most one creation.
THEOREM CreatesAtMostOnce == PrismSpec => []OneObjectPerCall
  <1>1. PrismInit => PrismInv
    BY InitPrismInv
  <1>2. PrismInv /\ [PrismNext]_prismVars => PrismInv'
    BY PrismStep
  <1>3. PrismInv => OneObjectPerCall
    BY DEF PrismInv
  <1> QED BY <1>1, <1>2, <1>3, PTL DEF PrismSpec

-----------------------------------------------------------------------------
(* What a call that returns has done.                                      *)

\* A call has its result when it is over, polls the task that it started
\* itself, and only a query for changed regions has pages of them; what has
\* returned without error has a task that has succeeded.
CallInv ==
  /\ call.result # "None" => call.at = "Idle"
  /\ call.at \in {"Page", "Renew", "Renewed"} => call.op = "Regions"
  /\ \/ call.at \in {"Poll", "Get", "Wait"}
     \/ call.result = "OK" /\ call.op \notin {"List", "Regions"}
     =>
       /\ call.op \notin {"List", "Regions"}
       /\ call.task \in DOMAIN tasks
       /\ tasks[call.task].op = call.op
       /\ tasks[call.task].target = call.target
       /\ tasks[call.task].call = calls
       /\ call.result = "OK" => tasks[call.task].status = "SUCCEEDED"

\* It is still the same request.
SameRequest ==
  /\ call' \in Calls
  /\ call'.op = call.op /\ call'.target = call.target /\ call'.task = call.task
  /\ call'.offset = call.offset /\ call'.touched = call.touched

\* The ways a call moves on.
LEMMA RetryMoves ==
  ASSUME call \in Calls, RetryWith(call.body) \/ RetryWith(AfterSending)
  PROVE  /\ SameRequest
         /\ \/ call'.at = call.at /\ call'.result = call.result
            \/ call'.at = "Idle" /\ call'.result = "Error"
  <1>1. CASE call.attempt < maxRetries
    <2>1. PICK b \in {call.body, AfterSending} :
            call' = [call EXCEPT !.attempt = call.attempt + 1, !.body = b]
      BY <1>1 DEF RetryWith
    <2> QED BY <2>1, RetryKeepsCall DEF Calls, SameRequest
  <1>2. CASE ~(call.attempt < maxRetries)
    <2>1. call' = [call EXCEPT !.at = "Idle", !.result = "Error"]
      BY <1>2 DEF RetryWith, Return
    <2> QED BY <2>1, RetryKeepsCall DEF Calls, SameRequest
  <1> QED BY <1>1, <1>2

LEMMA ReturnMoves ==
  ASSUME call \in Calls, NEW r \in {"OK", "Error"}, Return(r)
  PROVE  SameRequest /\ call'.at = "Idle" /\ call'.result = r
  BY ReturnKeepsCall, Zenon DEF Return, Calls, SameRequest

LEMMA GoToMoves ==
  ASSUME call \in Calls, NEW p \in {"Poll", "Get", "Wait", "Page"}, GoTo(p)
  PROVE  SameRequest /\ call'.at = p /\ call'.result = call.result
  BY GoToKeepsCall DEF GoTo, Calls, SameRequest

\* Prism is left alone, and the call goes on in its own way, or returns.
LEMMA MoveKeepsCallInv ==
  ASSUME PrismInv, CallInv, UNCHANGED <<calls, tasks>>, SameRequest,
         \/ call'.at = call.at /\ call'.result = call.result
         \/ call'.at = "Idle" /\ call'.result = "Error"
         \/ call'.at = "Idle" /\ call'.result = "OK" /\ call.op \in {"List", "Regions"}
         \/ /\ call'.at = "Idle" /\ call'.result = "OK" /\ call.at = "Get"
            /\ tasks[call.task].status = "SUCCEEDED"
         \/ /\ call.at \in {"Poll", "Get", "Wait"} /\ call'.at \in {"Poll", "Get", "Wait"}
            /\ call'.result = call.result
         \/ /\ call.op = "Regions" /\ call'.at \in {"Page", "Renew", "Renewed"}
            /\ call'.result = call.result /\ call.at # "Idle"
  PROVE  CallInv'
  BY Zenon DEF CallInv, SameRequest, PrismInv, PrismTypes, Calls, Places

\* CallInv is inductive, together with PrismInv.
LEMMA CallStep == ASSUME PrismInv, CallInv, [PrismNext]_prismVars PROVE CallInv'
  <1>1. call \in Calls /\ calls \in Nat /\ tasks \in Seq(Tasks)
    BY DEF PrismInv, PrismTypes
  <1>2. CASE RequestFails
    <2>1. UNCHANGED <<calls, tasks>>
      BY <1>2 DEF RequestFails, prismWorld
    <2>2. CASE RetryWith(call.body) \/ RetryWith(AfterSending)
      BY <1>1, <2>1, <2>2, RetryMoves, MoveKeepsCallInv, Zenon
    <2>3. CASE Return("Error")
      BY <1>1, <2>1, <2>3, ReturnMoves, MoveKeepsCallInv
    <2> QED BY <1>2, <2>2, <2>3 DEF RequestFails
  <1>3. CASE SendMutation
    <2> DEFINE new == [op |-> call.op, target |-> call.target,
                       status |-> "RUNNING", call |-> calls]
    <2>1. /\ call.at = "Send" /\ call.op \notin {"List", "Regions"} /\ calls' = calls
          /\ tasks' = Append(tasks, new)
      BY <1>3 DEF SendMutation, CreateObject, DeleteObject, PowerVM
    <2>2. call.result = "None"
      BY <2>1 DEF CallInv
    <2>3. CASE call' = [call EXCEPT !.at = "Poll", !.attempt = 0, !.task = Len(tasks) + 1]
      <3>1. /\ call'.at = "Poll" /\ call'.op = call.op /\ call'.target = call.target
            /\ call'.task = Len(tasks) + 1 /\ call'.result = "None"
        BY <1>1, <2>2, <2>3 DEF Calls
      <3>2. Len(tasks) + 1 \in DOMAIN tasks' /\ tasks'[Len(tasks) + 1] = new
        BY <1>1, <2>1
      <3>3. new.op = call.op /\ new.target = call.target /\ new.call = calls
        OBVIOUS
      <3> HIDE DEF new
      <3> QED BY <2>1, <3>1, <3>2, <3>3 DEF CallInv
    <2>4. CASE RetryWith(AfterSending) \/ Return("Error")
      <3>1. /\ call'.op = call.op
            /\ \/ call'.at = "Send" /\ call'.result = "None"
               \/ call'.at = "Idle" /\ call'.result = "Error"
        BY <1>1, <2>1, <2>2, <2>4, RetryMoves, ReturnMoves DEF SameRequest
      <3> QED BY <3>1 DEF CallInv
    <2> QED BY <1>3, <2>3, <2>4 DEF SendMutation
  <1>4. CASE PollTask
    <2>1. UNCHANGED <<calls, tasks>>
      BY <1>4, Zenon DEF PollTask, prismWorld
    <2>2. \/ Return("Error")
          \/ call.at \in {"Poll", "Get", "Wait"} /\ (GoTo("Poll") \/ GoTo("Get") \/ GoTo("Wait"))
          \/ call.at = "Get" /\ tasks[call.task].status = "SUCCEEDED" /\ Return("OK")
      BY <1>4, Zenon DEF PollTask, PollDeadline, PollAnswer
    <2> QED BY <1>1, <2>1, <2>2, ReturnMoves, GoToMoves, MoveKeepsCallInv, Zenon
  <1>5. CASE ListVMs
    <2>1. UNCHANGED <<calls, tasks>> /\ call.op = "List"
      BY <1>5 DEF ListVMs, prismWorld
    <2>2. CASE Return("OK")
      BY <1>1, <2>1, <2>2, ReturnMoves, MoveKeepsCallInv
    <2>3. CASE call' = [call EXCEPT !.attempt = 0, !.offset = NextOffset]
      <3>1. /\ call'.at = call.at /\ call'.op = call.op /\ call'.result = call.result
        BY <1>1, <2>3 DEF Calls
      <3> QED BY <2>1, <3>1 DEF CallInv
    <2> QED BY <1>5, <2>2, <2>3 DEF ListVMs
  <1>6. CASE DiscoverClusterForCBT
    <2>1. UNCHANGED <<calls, tasks>> /\ call.op = "Regions" /\ call.at \in {"Send", "Renew"}
      BY <1>6 DEF DiscoverClusterForCBT, prismWorld
    <2>2. CASE RetryWith(AfterSending)
      BY <1>1, <2>1, <2>2, RetryMoves, MoveKeepsCallInv, Zenon
    <2>3. CASE call' = [call EXCEPT !.at = IF call.at = "Send" THEN "Page" ELSE "Renewed", !.attempt = 0]
      <3>1. /\ SameRequest /\ call'.at \in {"Page", "Renewed"} /\ call'.result = call.result
        BY <1>1, <2>3, Zenon DEF Calls, Places, SameRequest
      <3> QED BY <2>1, <3>1, MoveKeepsCallInv, Zenon
    <2> QED BY <1>6, <2>2, <2>3 DEF DiscoverClusterForCBT
  <1>7. CASE GetChangedRegions
    <2>1. UNCHANGED <<calls, tasks>> /\ call.at \in {"Page", "Renewed"} /\ call.op = "Regions"
      BY <1>7 DEF GetChangedRegions, AskPage, prismWorld, CallInv
    <2>2. CASE call' = [call EXCEPT !.at = "Renew", !.attempt = 0, !.body = "Whole"]
      <3>1. /\ SameRequest /\ call'.at = "Renew" /\ call'.result = call.result
        BY <1>1, <2>2, Zenon DEF Calls, Places, SameRequest
      <3> QED BY <2>1, <3>1, MoveKeepsCallInv
    <2>3. CASE Return("OK") \/ Return("Error") \/ GoTo("Page")
      BY <1>1, <2>1, <2>3, ReturnMoves, GoToMoves, MoveKeepsCallInv
    <2> QED BY <1>7, <2>2, <2>3 DEF GetChangedRegions, AskPage
  <1>8. CASE CallPrism
    <2>1. call'.at = "Send" /\ call'.result = "None"
      BY <1>8 DEF CallPrism, NewCall
    <2> QED BY <2>1 DEF CallInv
  <1>9. CASE PollTimeout
    <2>1. SameRequest /\ call'.at = call.at /\ call'.result = call.result
      BY <1>1, <1>9 DEF PollTimeout, Calls, SameRequest
    <2> QED BY <1>9, <2>1, MoveKeepsCallInv DEF PollTimeout, prismWorld
  <1>10. CASE InventoryChanges
    <2>1. call'.at = call.at /\ call'.result = call.result /\ call'.op = call.op /\ call.op = "List"
      BY <1>1, <1>10 DEF InventoryChanges, Calls
    <2> QED BY <2>1, Zenon DEF CallInv
  <1>11. CASE TaskEnds
    <2>1. PICK u \in DOMAIN tasks, how \in {"SUCCEEDED", "FAILED"} :
            tasks[u].status = "RUNNING" /\ tasks' = [tasks EXCEPT ![u].status = how]
      BY <1>11 DEF TaskEnds
    <2>2. EndOfTask(u, how)
      BY <1>1, <2>1, TaskEndIs
    <2> QED BY <1>11, <2>1, <2>2 DEF TaskEnds, CallInv, EndOfTask
  <1>12. CASE UNCHANGED <<call, calls, tasks>>
    BY <1>12, Zenon DEF CallInv
  <1> QED
    BY <1>2, <1>3, <1>4, <1>5, <1>6, <1>7, <1>8, <1>9, <1>10, <1>11, <1>12
       DEF PrismNext, Client, ContextEnds, TokensAge, prismVars, prismWorld

\* When CreateRecoveryPoint, CreateImageFromDisk, CloneVMFromRecoveryPoint or
\* the calls that delete or switch a VM return without error, it has happened:
\* PollTask has polled the task of this very call to its success, whatever
\* attempts before it were lost.
THEOREM OKMeansDone == PrismSpec => []OKIsDone
  <1>1. PrismInit => PrismInv /\ CallInv
    <2>1. PrismInit => call.at = "Idle" /\ call.result = "None"
      BY DEF PrismInit, NewCall
    <2> QED BY <2>1, InitPrismInv, Zenon DEF CallInv
  <1>2. PrismInv /\ CallInv /\ [PrismNext]_prismVars => (PrismInv /\ CallInv)'
    BY PrismStep, CallStep
  <1>3. PrismInv /\ CallInv => OKIsDone
    BY Zenon DEF CallInv, OKIsDone, Done, Objects
  <1> QED BY <1>1, <1>2, <1>3, PTL DEF PrismSpec

-----------------------------------------------------------------------------
(* The age of the token that a page of changed regions is asked for with.  *)

Tokens == [held : Int, cached : Int, pages : Nat, renewed : BOOLEAN]

\* Until the renewal, the token the caller holds is the cached one, whose age
\* GetChangedRegions looks at; a renewed one is new when it is used.
TokenInv ==
  /\ token \in Tokens
  /\ asked \in Int
  /\ token.renewed => token.pages > 0
  /\ call.at \in {"Page", "Renew"} /\ ~token.renewed => token.held = token.cached
  /\ call.at = "Renewed" => token.cached = 0
  /\ LiveUntilRenewed

\* What leaves the tokens alone and does not begin to ask with one.
LEMMA QuietToken ==
  ASSUME TokenInv, UNCHANGED <<token, asked>>,
         \/ call'.at = call.at
         \/ call'.at \notin {"Page", "Renew", "Renewed"}
         \/ call'.at = "Renew" /\ call.at = "Page"
  PROVE  TokenInv'
  BY DEF TokenInv, LiveUntilRenewed

\* A page is asked for: the step that matters.
LEMMA AskKeepsTokenInv ==
  ASSUME PrismInv, TokenInv, NEW age \in Int, AskPage(age), call.at \in {"Page", "Renewed"},
         call.at = "Renewed" => age = 0,
         call.at = "Page" => age = token.held /\ token.cached <= TokenMaxAge
  PROVE  TokenInv'
  <1>1. call \in Calls /\ token \in Tokens
    BY DEF PrismInv, PrismTypes, TokenInv
  <1>2. /\ token' \in Tokens /\ token'.pages = token.pages + 1
        /\ token'.renewed = (token.renewed \/ call.at = "Renewed")
        /\ token'.held = token.held /\ token'.cached = token.cached
    <2> DEFINE r == token.renewed \/ call.at = "Renewed"
    <2>1. token' = [token EXCEPT !.pages = token.pages + 1, !.renewed = r]
      BY DEF AskPage
    <2>2. r \in BOOLEAN /\ token.pages + 1 \in Nat
      BY <1>1 DEF Tokens
    <2> HIDE DEF r
    <2>3. /\ token' \in Tokens /\ token'.pages = token.pages + 1 /\ token'.renewed = r
          /\ token'.held = token.held /\ token'.cached = token.cached
      BY <1>1, <2>1, <2>2 DEF Tokens
    <2> QED BY <2>3, Zenon DEF r
  <1>3. asked' = age
    BY DEF AskPage
  <1>4. call'.at \in {"Idle", "Page"}
    BY <1>1, ReturnMoves, GoToMoves DEF AskPage
  <1>5. token'.renewed => token'.pages > 0
    BY <1>1, <1>2 DEF Tokens
  <1>6. LiveUntilRenewed'
    <2>1. CASE call.at = "Renewed"
      BY <1>3, <2>1, ClientAssumption DEF LiveUntilRenewed
    <2>2. CASE call.at = "Page" /\ ~token.renewed
      <3>1. age = token.cached /\ token.cached \in Int
        BY <1>1, <2>2 DEF TokenInv, Tokens
      <3> QED BY <1>3, <2>2, <3>1, ClientAssumption DEF LiveUntilRenewed
    <2>3. CASE token.renewed
      <3>1. token.pages > 0 /\ token.pages \in Nat
        BY <1>1, <2>3 DEF TokenInv, Tokens
      <3>2. token'.renewed
        BY <1>2, <2>3, Zenon
      <3> QED BY <1>2, <3>1, <3>2 DEF LiveUntilRenewed
    <2> QED BY <2>1, <2>2, <2>3
  <1>7. call'.at = "Page" /\ ~token'.renewed => token'.held = token'.cached
    BY <1>2 DEF TokenInv
  <1> QED BY <1>2, <1>3, <1>4, <1>5, <1>6, <1>7 DEF TokenInv

\* TokenInv is inductive, together with PrismInv.
LEMMA TokenStep == ASSUME PrismInv, TokenInv, [PrismNext]_prismVars PROVE TokenInv'
  <1>1. call \in Calls /\ token \in Tokens
    BY DEF PrismInv, PrismTypes, TokenInv
  <1>2. CASE RequestFails
    BY <1>1, <1>2, RetryMoves, ReturnMoves, QuietToken DEF RequestFails
  <1>3. CASE SendMutation
    <2>1. call.at = "Send" /\ UNCHANGED <<token, asked>>
      BY <1>3 DEF SendMutation
    <2>2. call'.at \in {"Send", "Poll", "Idle"}
      BY <1>1, <1>3, <2>1, RetryMoves, ReturnMoves DEF SendMutation, Calls
    <2> QED BY <2>1, <2>2, QuietToken
  <1>4. CASE PollTask
    <2>1. Return("OK") \/ Return("Error") \/ GoTo("Poll") \/ GoTo("Get") \/ GoTo("Wait")
      BY <1>4 DEF PollTask, PollDeadline, PollAnswer
    <2> QED BY <1>1, <1>4, <2>1, ReturnMoves, GoToMoves, QuietToken, Zenon DEF PollTask
  <1>5. CASE ListVMs
    <2>1. Return("OK") \/ call'.at = call.at
      BY <1>1, <1>5 DEF ListVMs, Calls
    <2> QED BY <1>1, <1>5, <2>1, ReturnMoves, QuietToken DEF ListVMs
  <1>6. CASE DiscoverClusterForCBT
    <2>1. CASE RetryWith(AfterSending) /\ UNCHANGED token
      BY <1>1, <1>6, <2>1, RetryMoves, QuietToken DEF DiscoverClusterForCBT
    <2>2. CASE /\ token' = [token EXCEPT !.cached = 0, !.held = IF call.at = "Send" THEN 0 ELSE @]
               /\ call' = [call EXCEPT !.at = IF @ = "Send" THEN "Page" ELSE "Renewed", !.attempt = 0]
      <3>1. /\ token' \in Tokens /\ token'.cached = 0 /\ token'.pages = token.pages
            /\ token'.renewed = token.renewed
            /\ call.at = "Send" => token'.held = 0
        <4> DEFINE h == IF call.at = "Send" THEN 0 ELSE token.held
        <4>1. h \in Int /\ (call.at = "Send" => h = 0)
          BY <1>1 DEF Tokens
        <4>2. token' = [token EXCEPT !.cached = 0, !.held = h]
          BY <1>1, <2>2 DEF Tokens
        <4> HIDE DEF h
        <4>3. token' \in Tokens
          <5>1. [token EXCEPT !.held = h] \in Tokens
            BY <1>1, <4>1 DEF Tokens
          <5> DEFINE u == [token EXCEPT !.held = h]
          <5>2. token' = [u EXCEPT !.cached = 0]
            BY <1>1, <4>2 DEF Tokens
          <5>3. u \in Tokens
            BY <5>1
          <5> HIDE DEF u
          <5> QED BY <5>2, <5>3 DEF Tokens
        <4>4. /\ token'.cached = 0 /\ token'.pages = token.pages
              /\ token'.renewed = token.renewed /\ token'.held = h
          BY <1>1, <4>2 DEF Tokens
        <4> QED BY <4>1, <4>3, <4>4
      <3>2. call'.at = IF call.at = "Send" THEN "Page" ELSE "Renewed"
        BY <1>1, <2>2 DEF Calls
      <3>3. asked' = asked
        BY <1>6 DEF DiscoverClusterForCBT
      <3> QED BY <3>1, <3>2, <3>3 DEF TokenInv, LiveUntilRenewed
    <2> QED BY <1>6, <2>1, <2>2 DEF DiscoverClusterForCBT
  <1>7. CASE GetChangedRegions
    <2>1. CASE call.at = "Page" /\ TooOld
                /\ call' = [call EXCEPT !.at = "Renew", !.attempt = 0, !.body = "Whole"]
                /\ UNCHANGED <<token, asked>>
      <3>1. call'.at = "Renew"
        BY <1>1, <2>1 DEF Calls
      <3> QED BY <2>1, <3>1, QuietToken
    <2>2. CASE call.at = "Page" /\ ~TooOld /\ AskPage(token.held)
      <3>1. token.held \in Int /\ token.cached <= TokenMaxAge
        BY <1>1, <2>2, ClientAssumption DEF TooOld, Tokens
      <3> QED BY <2>2, <3>1, AskKeepsTokenInv
    <2>3. CASE call.at = "Renewed" /\ AskPage(token.cached)
      <3>1. token.cached = 0 /\ token.cached \in Int
        BY <1>1, <2>3 DEF TokenInv, Tokens
      <3> QED BY <2>3, <3>1, AskKeepsTokenInv
    <2> QED BY <1>7, <2>1, <2>2, <2>3 DEF GetChangedRegions
  <1>8. CASE CallPrism
    <2>1. call'.at = "Send" /\ token' = NoToken /\ asked' = None
      BY <1>8 DEF CallPrism, NewCall
    <2> QED BY <2>1, ClientAssumption DEF TokenInv, LiveUntilRenewed, Tokens, NoToken, None
  <1>9. CASE TokensAge
    <2>1. /\ token' = [token EXCEPT !.held = Older(token.held), !.cached = Older(token.cached)]
          /\ call' = call /\ asked' = asked /\ call.at \in {"Page", "Renew"}
      BY <1>9 DEF TokensAge
    <2>2. Older(token.held) \in Int /\ Older(token.cached) \in Int
      BY <1>1, ClientAssumption DEF Older, Tokens
    <2>3. /\ token' \in Tokens /\ token'.pages = token.pages /\ token'.renewed = token.renewed
          /\ token'.held = Older(token.held) /\ token'.cached = Older(token.cached)
      BY <1>1, <2>1, <2>2, Zenon DEF Tokens
    <2> QED BY <2>1, <2>3 DEF TokenInv, LiveUntilRenewed
  <1>10. CASE PollTimeout \/ InventoryChanges
    <2>1. call'.at = call.at /\ UNCHANGED <<token, asked>>
      BY <1>1, <1>10 DEF PollTimeout, InventoryChanges, Calls
    <2> QED BY <2>1, QuietToken
  <1>11. CASE UNCHANGED <<call, token, asked>>
    BY <1>11, QuietToken
  <1> QED
    BY <1>2, <1>3, <1>4, <1>5, <1>6, <1>7, <1>8, <1>9, <1>10, <1>11
       DEF PrismNext, Client, ContextEnds, TaskEnds, prismVars

\* Until GetChangedRegions has renewed a token in the middle of a query, no
\* page is asked for with an expired one, nor is the page that the renewal was
\* made for: whatever the two ages, as long as TokenMaxAge is the smaller.
THEOREM TokenLivesUntilRenewed == PrismSpec => []LiveUntilRenewed
  <1>1. PrismInit => PrismInv /\ TokenInv
    <2> SUFFICES ASSUME PrismInit PROVE PrismInv /\ TokenInv
      OBVIOUS
    <2>1. call.at = "Idle" /\ token = NoToken /\ asked = None
      BY DEF PrismInit, NewCall
    <2>2. TokenInv
      BY <2>1, ClientAssumption DEF TokenInv, LiveUntilRenewed, Tokens, NoToken, None
    <2> QED BY <2>2, InitPrismInv
  <1>2. PrismInv /\ TokenInv /\ [PrismNext]_prismVars => (PrismInv /\ TokenInv)'
    BY PrismStep, TokenStep
  <1>3. TokenInv => LiveUntilRenewed
    BY DEF TokenInv
  <1> QED BY <1>1, <1>2, <1>3, PTL DEF PrismSpec

-----------------------------------------------------------------------------
(* What a listing has collected.                                           *)

\* As long as the inventory stays the same, ListVMs has collected it up to the
\* offset it asks for next.
ListInv ==
  /\ vms \in Seq(Nat) /\ churn \in Nat
  /\ call.op = "List" /\ call.at = "Send" /\ ~call.touched =>
       /\ call.offset <= Len(vms)
       /\ listed = SubSeq(vms, 1, call.offset)
  /\ ListIsExact

\* A page continues what has been collected.
LEMMA PageContinues ==
  ASSUME NEW n \in Nat, vms \in Seq(Nat), n <= Len(vms),
         NEW e, e = IF n + pageSize < Len(vms) THEN n + pageSize ELSE Len(vms)
  PROVE  /\ SubSeq(vms, 1, n) \o Page(n) = SubSeq(vms, 1, e)
         /\ Len(SubSeq(vms, 1, e)) = e
         /\ e \in n .. Len(vms)
  <1>1. Len(vms) \in Nat /\ e \in n .. Len(vms)
    BY ClientAssumption
  <1>2. Page(n) = SubSeq(vms, n + 1, e)
    BY Zenon DEF Page
  <1>3. 1 \in 1 .. Len(vms) + 1 /\ n \in 1 - 1 .. Len(vms)
    BY <1>1
  <1>4. SubSeq(vms, 1, n) \o SubSeq(vms, n + 1, e) = SubSeq(vms, 1, e)
    BY <1>1, <1>3, ConcatAdjacentSubSeq, Zenon
  <1>5. Len(SubSeq(vms, 1, e)) = e
    BY <1>1
  <1> QED BY <1>1, <1>2, <1>4, <1>5, Zenon

\* What leaves the inventory and the listing alone.
LEMMA QuietList ==
  ASSUME ListInv, UNCHANGED <<vms, churn, listed>>,
         call'.op = call.op, call'.touched = call.touched,
         call'.at = "Send" => call.at = "Send" /\ call'.offset = call.offset,
         call'.result = "OK" => call.result = "OK" \/ call.op # "List"
  PROVE  ListInv'
  BY Zenon DEF ListInv, ListIsExact

\* ListInv is inductive, together with PrismInv and CallInv.
LEMMA ListStep == ASSUME PrismInv, CallInv, ListInv, [PrismNext]_prismVars PROVE ListInv'
  <1>1. call \in Calls /\ vms \in Seq(Nat) /\ churn \in Nat
    BY DEF PrismInv, PrismTypes, ListInv
  <1>2. CASE RequestFails
    BY <1>1, <1>2, RetryMoves, ReturnMoves, QuietList DEF RequestFails, prismWorld, SameRequest
  <1>3. CASE SendMutation
    <2>1. call.op # "List" /\ UNCHANGED <<vms, churn, listed>>
      BY <1>3 DEF SendMutation, CreateObject, DeleteObject, PowerVM
    <2>2. call'.op = call.op
      BY <1>1, <1>3, RetryMoves, ReturnMoves DEF SendMutation, SameRequest, Calls
    <2> QED BY <2>1, <2>2 DEF ListInv, ListIsExact
  <1>4. CASE PollTask
    <2>1. call.op # "List"
      BY <1>4, Zenon DEF PollTask, PollDeadline, CallInv
    <2>2. Return("OK") \/ Return("Error") \/ GoTo("Poll") \/ GoTo("Get") \/ GoTo("Wait")
      BY <1>4, Zenon DEF PollTask, PollDeadline, PollAnswer
    <2> QED BY <1>1, <1>4, <2>1, <2>2, ReturnMoves, GoToMoves, QuietList
            DEF PollTask, prismWorld, SameRequest
  <1>5. CASE ListVMs
    <2> DEFINE n == call.offset
               e == IF n + pageSize < Len(vms) THEN n + pageSize ELSE Len(vms)
    <2>1. /\ call.at = "Send" /\ call.op = "List" /\ UNCHANGED <<vms, churn>>
          /\ listed' = listed \o Page(n) /\ n \in Nat
      BY <1>1, <1>5 DEF ListVMs, prismWorld, Calls
    <2>2. ~call.touched => /\ listed' = SubSeq(vms, 1, e)
                           /\ Len(listed') = e
                           /\ e \in n .. Len(vms)
      <3> SUFFICES ASSUME ~call.touched PROVE listed' = SubSeq(vms, 1, e) /\ Len(listed') = e /\ e \in n .. Len(vms)
        OBVIOUS
      <3>1. n <= Len(vms) /\ listed = SubSeq(vms, 1, n)
        BY <2>1 DEF ListInv
      <3> QED BY <1>1, <2>1, <3>1, PageContinues, Zenon
    <2>3. CASE Len(listed') >= Len(vms)
      <3>1. Return("OK")
        BY <1>5, <2>3 DEF ListVMs
      <3>2. call'.at = "Idle" /\ call'.touched = call.touched
        BY <1>1, <3>1, ReturnMoves DEF SameRequest
      <3>3. ~call.touched => listed' = vms
        <4> SUFFICES ASSUME ~call.touched PROVE listed' = vms
          OBVIOUS
        <4>1. e = Len(vms)
          BY <1>1, <2>1, <2>2, <2>3
        <4> QED BY <1>1, <2>2, <4>1
      <3> QED BY <1>1, <2>1, <3>2, <3>3 DEF ListInv, ListIsExact
    <2>4. CASE ~(Len(listed') >= Len(vms))
      <3>1. call' = [call EXCEPT !.attempt = 0, !.offset = n + pageSize]
        BY <1>5, <2>4 DEF ListVMs, NextOffset
      <3>2. /\ call'.at = "Send" /\ call'.touched = call.touched /\ call'.op = "List"
            /\ call'.offset = n + pageSize /\ call'.result = call.result
        BY <1>1, <2>1, <3>1 DEF Calls
      <3>3. call.result = "None"
        BY <2>1, Zenon DEF CallInv
      <3>4. ~call.touched => e = n + pageSize /\ e <= Len(vms)
        BY <1>1, <2>1, <2>2, <2>4, ClientAssumption
      <3> QED BY <1>1, <2>1, <2>2, <3>2, <3>3, <3>4, Zenon DEF ListInv, ListIsExact
    <2> QED BY <2>3, <2>4
  <1>6. CASE DiscoverClusterForCBT \/ GetChangedRegions
    <2>1. call.op = "Regions" /\ UNCHANGED <<vms, churn, listed>>
      BY <1>6 DEF DiscoverClusterForCBT, GetChangedRegions, AskPage, prismWorld, CallInv
    <2>2. call'.op = call.op
      BY <1>1, <1>6, RetryMoves, ReturnMoves, GoToMoves
         DEF DiscoverClusterForCBT, GetChangedRegions, AskPage, SameRequest, Calls
    <2> QED BY <1>1, <2>1, <2>2 DEF ListInv, ListIsExact
  <1>7. CASE CallPrism
    <2>1. call'.offset = 0 /\ call'.result = "None" /\ listed' = << >> /\ UNCHANGED <<vms, churn>>
      BY <1>7 DEF CallPrism, NewCall, prismWorld
    <2>2. SubSeq(vms, 1, 0) = << >> /\ 0 <= Len(vms)
      BY <1>1
    <2> QED BY <1>1, <2>1, <2>2 DEF ListInv, ListIsExact
  <1>8. CASE PollTimeout
    <2>1. SameRequest /\ call'.at = call.at /\ call'.result = call.result
      BY <1>1, <1>8 DEF PollTimeout, Calls, SameRequest
    <2> QED BY <1>8, <2>1, QuietList DEF PollTimeout, prismWorld, SameRequest
  <1>9. CASE InventoryChanges
    <2>1. call'.touched /\ churn' \in Nat
      BY <1>1, <1>9 DEF InventoryChanges, Calls
    <2>2. vms' \in Seq(Nat)
      <3>1. CASE vms' = Append(vms, Len(VMs) + churn + 1)
        BY <1>1, <3>1, InventoryAssumption
      <3>2. ASSUME NEW i \in DOMAIN vms, vms' = SubSeq(vms, 1, i - 1) \o SubSeq(vms, i + 1, Len(vms))
            PROVE  vms' \in Seq(Nat)
        <4>1. SubSeq(vms, 1, i - 1) \in Seq(Nat) /\ SubSeq(vms, i + 1, Len(vms)) \in Seq(Nat)
          BY <1>1
        <4> QED BY <3>2, <4>1
      <3> QED BY <1>9, <3>1, <3>2 DEF InventoryChanges
    <2> QED BY <2>1, <2>2 DEF ListInv, ListIsExact
  <1>10. CASE UNCHANGED <<call, vms, churn, listed>>
    BY <1>10 DEF ListInv, ListIsExact
  <1> QED
    BY <1>2, <1>3, <1>4, <1>5, <1>6, <1>7, <1>8, <1>9, <1>10
       DEF PrismNext, Client, ContextEnds, TaskEnds, TokensAge, prismVars, prismWorld

\* ListVMs returns the inventory as it is, each VM once and in order, whatever
\* the size of a page and of the inventory and whichever requests are retried,
\* if the inventory stays the same meanwhile.
THEOREM ListingIsExact == PrismSpec => []ListIsExact
  <1>1. PrismInit => PrismInv /\ CallInv /\ ListInv
    <2> SUFFICES ASSUME PrismInit PROVE PrismInv /\ CallInv /\ ListInv
      OBVIOUS
    <2>1. call.at = "Idle" /\ call.result = "None" /\ vms = VMs /\ churn = 0
      BY DEF PrismInit, NewCall
    <2>2. CallInv
      BY <2>1 DEF CallInv
    <2>3. ListInv
      BY <2>1, InventoryAssumption DEF ListInv, ListIsExact
    <2> QED BY <2>2, <2>3, InitPrismInv
  <1>2. /\ PrismInv /\ CallInv /\ ListInv /\ [PrismNext]_prismVars
        => (PrismInv /\ CallInv /\ ListInv)'
    BY PrismStep, CallStep, ListStep
  <1>3. ListInv => ListIsExact
    BY DEF ListInv
  <1> QED BY <1>1, <1>2, <1>3, PTL DEF PrismSpec
=============================================================================
