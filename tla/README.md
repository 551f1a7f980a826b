# A TLA+ model of the Nutanix VM migration operator

This directory holds a formal model of the operator in `src/`: TLA+ modules
translated from the code, TLC configurations that check them on small
instances, and theorems with proofs that TLAPS checks for every instance.

The operator moves virtual machines from Nutanix AHV to KubeVirt. A user
creates a `Migration` that refers to a plan; the operator takes each VM of the
plan through a pipeline of phases and records where it is in the Migration's
status. Nothing else is persisted. The operator may be restarted at any time,
reads objects from caches that lag, and shares the objects with users who edit,
cancel and delete.

## Parts

| Part | Code | Modules |
|---|---|---|
| Migration object and controller | `api/v1alpha1/migration_types.go`, `internal/controller/migration_controller.go` | `MigrationPhases`, `MigrationLifecycle`, `Migration` |
| What both pipelines share, failure cleanup | `migration_controller.go`, `internal/transfer/manager.go` | `Pipeline` |
| Cold pipeline | `migration_controller.go` | `ColdPipeline` |
| Warm pipeline | `migration_controller.go`, `internal/transfer/delta.go` | `DeltaSync`, `WarmPipeline`, `WarmSync` |
| Hook runner | `internal/controller/hook_runner.go` | `HookGate`, `HookRunner` |
| Validator, builder | `internal/validation`, `internal/builder` | `Validation`, `Builder` |
| Plan and provider controllers | `internal/controller/plan_controller.go`, `provider_controller.go` | `CatalogState`, `PlanController`, `ProviderController`, `Catalog` |
| Nutanix client, changed block tracking | `internal/nutanix` | `PrismClient` |

They interact as follows. The provider controller keeps a connection to Prism
Central and guards the provider while plans refer to it; the plan controller
validates a plan against maps, source VMs and the target cluster. The migration
controller reads plan, provider, maps and secret at the start of each pass, and
drives Prism Central and the target cluster through the Nutanix client and the
transfer manager. Hook Jobs run before and after the pipeline.

What makes it hard: a pass executes many phases, with irreversible effects,
before it saves anything, so every lost pass (a conflict, an error, a restart) is
repeated from the phase saved last; a pass may start from an old version;
cancellation and deletion fall between any two steps; all VMs of a Migration
share one secret; some effects (power-off, import, a hook, a task in Prism) end
long after the call that started them; and a guest goes on writing while its
disks are copied. `PROJECT.json` lists the hazards line by line, with the
properties that cover each, and maps every definition to the lines it models.

Three modules are abstract specifications, each implemented by a detailed one:

| Promise | Abstract | Detailed | Shown by |
|---|---|---|---|
| what users may rely on about a Migration | `MigrationLifecycle` | `Migration` | TLC and proof |
| a copy of a running disk in rounds | `DeltaSync` | `WarmPipeline` (mapped in `WarmSync`) | TLC and proof, also what such a copy loses: nothing, unless it is cut in the middle of a round |
| a gate that opens only after a hook has succeeded | `HookGate` | `HookRunner` | TLC and proof |

Besides, `ColdPipeline` and `WarmPipeline` are proved to implement `Migration`,
so that what is proved of the controller holds of both pipelines.

## The modules

**Migration.** `obj` is the object in the API server, `cache` the informer's
copy, `mem` the copy a pass works on. Resource versions are two flags:
`cacheFresh` (nothing was written since `cache`) and `memFresh` (nothing was
written since the version `mem` was read from). A write is accepted only from a
fresh copy; an update that changes nothing makes no version and no watch event.
`Reconcile` is split where others can act in between: the early returns are one
action each, `BeginPass` reads, initialises and applies cancellations, then one
action per step of `advanceVMs`/`advanceSingleVM` (`SkipTerminal`, `SkipPending`,
`StartPending`, `PhaseCompleted`, `PhaseWaits`, `PhaseFailed`), and `SaveStatus`
or `LoseStatus` (conflict or error) ends the pass; `Crash` ends it without a
trace. A Migration that is deleted while Running is requeued without effect,
which is a stuttering step. The constant `Disturbances` says what may happen
besides a clean run, so that one module serves the runs that assume little and
those that assume much.

**Pipeline, ColdPipeline.** Each action is an action of `Migration` conjoined
with its effect on `world` (power state, recovery points, images, DataVolumes,
delta pods and KubeVirt VM of each VM), on the shared `secret`, and on the
resource fields of the status, which travel with the object as `objRes`,
`cacheRes` and `memRes`. A handler ends by `Completed`, `NotYet` or `Failed`, the
last with `cleanupFailedVM`. A call may fail, take effect and still fail, or, in
a cleanup, fail silently (`CloudFaults`). Power-off, import and the operator's
view of the KubeVirt VM are completed by actions of their own; the garbage
collector takes what the Migration owns. The power state "STOPPING" stands for a
guest that has not stopped yet, which Prism shows as ON. Recovery points and
images are numbered in the order they are made.

A consequence the model makes visible: a status is saved only when some handler
waits or the VM ends, so the phases of a cold migration ever saved are PreHook,
WaitForPowerOff, ImportDisks, PostHook and the terminal ones. The checks for
earlier work in StorePowerState, CreateSnapshot and ExportDisks never find any.

**WarmPipeline.** A disk is one block, and its content the number of writes it
has seen. `disk` is the source, `content` what each recovery point and image
holds, `target` what the volumes hold. A handler makes a recovery point and then one image
per disk; as the code exports the *live* disk and not the snapshot, an image may
hold writes made after the snapshot (`snapshotAndExport`). A round asks for the
changes between base and delta snapshot, one disk at a time, and starts a pod for
each disk that has changed (`transferDisk`); `finalizePrecopyRound` makes the
delta the base. The cutover may come at any time. The pod runs the script as it is
written (`PodEnds`): its list of regions has no newline at the end, so that `read`
takes the last line for the end of the file; for any other line `dd` is told to
write to `/data/disk`, the directory the volume is mounted at, and fails. So a pod
with one region succeeds, one with more fails, and neither writes anything: after
the bulk copy nothing changes `target`. What the rounds themselves do right or wrong
is therefore stated on a history variable, `handed`, the contents that an import, or
a pod that has succeeded, was *given* to write; a second one, `caught`, holds the VMs
that had a round open when the cutover came. The properties differ in these:
`TargetUpToDate` is about `target`, `CutoverLosesNothing` about `handed`, and
`EveryWriteHandedOver` about `handed` for the VMs that are not in `caught`. Volumes are
of mode Filesystem; with mode Block the pod, which mounts its volume as a directory,
cannot start. `WarmSync` says
what the variables of `DeltaSync` are for one VM of the plan, `V`.

**HookRunner.** One VM and one of its two steps: the Job, the Job in the
operator's cache, the ConfigMap, the attempt in the Job's annotation. Passes may
be lost or cut short, and read an old Job (`upsets`).

**Validation, Builder.** Each check of the validator is an operator that returns
a set of concerns; the pipeline's own lookups (`FindStorageMapping`,
`findNetworkMapping`) are translated beside them. `Buildable` says what the
pipeline will need; `SameMachine` that the built VM's disks hold the data of the
source's, in their places, although the builder counts them on its own.

**Catalog.** The plan controller and the provider controller over one provider
and one plan, a step for each write and one for the reads in between; users
create, edit and delete. Secrets, maps and Prism are not watched: a read finds any
state they may be in. Reads between two writes of a pass are one step, as
nothing the pass does depends on their order. The watch may leave out versions, as a
write from any of them would be refused; but a plan that was deleted and created
again may be seen as gone in between (`gone`). A write is refused when it is not
from the latest version; any other error of a write has the same effect.

**PrismClient.** One call after another: `doRequest` with its retries, the task
a call starts and polls, the pages of a list, the pages of changed regions with
the token held by the caller and the one in the client's cache. The body of a
request is read by the first attempt, so that a retry sends an empty one
(`AfterSending`), which Prism does not accept for a create. Prism may carry out a
request whose answer is lost, and finish a task that nobody polls any more. Lists
are assumed to come with the number of all entities (without it the code stops
after one page).

## Runs

| Run | Shows |
|---|---|
| `migration_faults` | with every disturbance at once: types, in-flight bound, overall status, forward-only status, cancellation wins, finalizer holds, refinement of `MigrationLifecycle` |
| `cold_whole` | with uninterrupted passes and failing calls: failures restore the source's power state and leave no recovery point, image, volume or pod, completed VMs are whole, and two VMs that share the secret both end |
| `cold_faults` | with crashes, conflicts and lost answers: exports only from stopped sources, no target without its disks, no boot beside a running source |
| `warm_sync` | with a guest that writes, a cutover at any time, failing calls and cancellations: refinement of `DeltaSync`, every write is handed to an import or a pod unless the cutover falls into a round, one writer per volume, failures leave no data, completed VMs are whole, the migration ends |
| `hooks` | with failing calls, stale reads and lost passes: refinement of `HookGate`, a passed hook leaves nothing behind, every hook ends |
| `catalog` | a Ready plan can be built, its VMs keep their disks in their places, a provider in use stays, a deleted one goes once it is free, every plan gets a verdict on its latest version |
| `prism` | no call makes two objects, success means done, an undisturbed list is exact, tokens are alive until the first renewal, every call returns |

Runs that are expected to end in a violation, each a disagreement between the
code and what the repository's documents say of it (quoted in `PROJECT.json`):

| Run | Shows |
|---|---|
| `migration_delete` | a Migration deleted while Running is neither deleted nor run any further |
| `failure_cleanup` | the cleanup after a failure leaves the credential secret, and a KubeVirt VM that was already created |
| `warm_cutover` | a cutover in the middle of a round: FinalSync goes on with the snapshot of the running source, and later writes are handed to no pod |
| `warm_last_region` | the delta script writes nothing: `read` passes over the last region, whose line has no newline, and for any other one `dd` writes to a directory and fails |
| `prism_token` | after one renewal the pages go on with the token the caller holds, which expires |

Further configurations, each of which shows one more such behaviour (TLC ends
with a violation of the property named):

| Configuration | Property | Shows |
|---|---|---|
| `MCColdPowerAfterCrash.cfg` | `PowerRestored` | a restart after PowerOff makes OFF the "original" power state |
| `MCColdFailureLeavesVM.cfg` | `FailedLeavesNoVM` | a failure after CreateVM leaves the KubeVirt VM, its volumes deleted |
| `MCWarmPodFails.cfg` | `NoFailureWithoutFault` | a delta pod with more than one region fails, and its VM with it |
| `MCColdDuplicates.cfg` | `NoDuplicates` | a pass from a stale cache makes a second recovery point and images |
| `MCColdStartVM.cfg` | `NoFailureWithoutFault` | StartVM may not see the VM that CreateVM has just made, and fails |
| `MCColdStuckAfterCrash.cfg` | `EventuallyFinished` | a restart after a failure in WaitForPowerOff waits for ever for a source that the cleanup powered on |
| `MCColdDelete.cfg` | `DeletionLeaksNothing` | a deletion during the first pass leaks what the pass made |
| `MCWarmSharedSecret.cfg` | `EventuallyFinished` | the first warm VM to finish deletes the secret the pods of the second need |
| `MCProviderRefresh.cfg` | `RefreshesOnInterval` | every status write of the provider controller is an event for itself: it does not wait for the refresh interval |

Other behaviour that the model shows and that a reader of the code should know:

* a restart after a failure cleanup in PostHook lets the resumed VM complete
  although its DataVolumes are gone; if the cleanup failed to delete them, the
  target boots beside a source that the cleanup has powered on (so
  `BootsWithSourceOff` is checked with cleanups that succeed);
* cancelling a VM, and `setMigrationFailed` after one failed read of a
  reference, leave the source as it is and everything that was made;
* deleting a completed Migration deletes the disks of its VMs, which it owns;
* warm: a lost pass may leave a pod name in the status whose pod is gone, which
  is waited for without limit, or a base snapshot that is gone, on which the next
  round fails (so `warm_sync` has no crashes);
* hooks: a Hook that cannot be read counts as none, and the VM passes; a Job or ConfigMap that
  could not be deleted stays (the `hooks` run assumes neither);
* plans: `setPlanError` asks for a retry but has recorded the generation as
  validated, so the retry does nothing; a Ready plan stays so when maps, cluster
  or VMs change; a namespace or storage class that cannot be read counts as there;
* providers: one that is deleted before its first pass has no finalizer, and one
  whose deletion was asked for does not wait for plans that come later;
* client: a create that is refused with 429 or 503 is retried without its body
  and cannot succeed; a delete whose answer was lost is retried and reports 404.

**Bounds.** Two VMs show one VM's effect on another and a limit that bites (one
at a time, in `migration_faults`). `cold_whole` has two VMs of two disks, so that
a phase may stop half-way; `cold_faults` one VM of one disk and one crash
(`MaxCrashes`), as what matters there is where passes are cut. `MaxMade` bounds
recovery points and images and is enough for the pipeline and its repetitions.
`warm_sync` has two disks, two rounds (the first from the bulk copy, the second
from a promoted base, and FinalSync from one promoted twice) and two writes, which
may be to one disk in two rounds or to both. `hooks` has the code's three
attempts and four upsets, more than one for each attempt. `catalog` has three
changes by users, enough to create, edit and delete in any order; its VMs and maps
have a case for each rule. `prism` has two calls, two retries (the code: three),
five VMs in pages of two, two changes of the inventory, and ages of tokens in
units of three minutes (renewal after 4, expiry after 5), up to four pages, each
standing for many.

**Fairness.** The controllers' workers run whenever they have something to do, and
the watch delivers: weak fairness of `Controller`, `Deliver` and their counterparts.
Delayed requeues come due. What phases wait for comes in the end: a hook Job has a
deadline, an import that can read its image ends (one that cannot may be retried for
ever), a guest stops, a pod that can start ends, the cutover comes. In the pipelines
that is weak fairness of the cloud's actions, and strong fairness of a hook's
answer, as a pass may find the hook unfinished any number of times, and of a pod's
end being taken note of, as the read of a pod may fail, but not for ever
(`PodTakenNote`); in `Migration`, where a phase is only its answer, it is strong
fairness of each VM's answer. The client's steps are a running goroutine, and the
poll deadline passes; no task is assumed to end. Liveness runs assume no crashes
without end, no plan edits and no writes refused for no reason: any of these may go
on for ever, and nothing the code does could then help. Deadlock is not checked: a
system whose Migration has ended, or whose bound on changes is used up, stops.

## Proofs

Each theorem holds for every value of the constants within the named assumptions
of the modules (at least one VM, an integer limit, at least one attempt, ...).

| Module | Holds |
|---|---|
| `MigrationInv`, `WarmInv` | the inductive invariants of `Migration` and of `WarmPipeline` |
| `ControllerProofs` | the theorems on `Migration` and on `Catalog` |
| `PipelineProofs` | lemmas the two pipelines share |
| `ColdProofs`, `ColdTheorems` | what the steps of the cold pipeline preserve; the theorems that follow |
| `WarmProofs`, `WarmCopyProofs`, `WarmTheorems` | what the handlers of the warm pipeline answer; what that does to the copy; the theorems that follow |
| `StandaloneProofs` | the theorems on `HookRunner`, `DeltaSync` and `PrismClient` |

**The controller** (`ControllerProofs`): type correctness, `InFlightBounded`,
`OverallStatusAgrees`, the refinement of `MigrationLifecycle`, and the action
properties `StatusOnlyAdvances`, `CancelWins`, `FinalizerHolds`. The invariant
(`IInv`) adds to the types: every version of the object respects the limit and, when
Running, has an entry for each VM (`Sane`); the flags mean what they say
(`FlagsInv`); in a pass, the number of active VMs is at most `activeCount`, which is
at most the limit (`PassInv`, an inequality, because the code never decrements the
count when a VM finishes); and a fresh copy differs from the object by what one save
may do to each VM (`FreshInv`). The last makes the refinement go through: a pass
takes many steps, but only an accepted save is visible, and it is accepted only from
a fresh copy. The action properties follow from the refinement.

**Both pipelines** (`PipelineProofs`): `Undisturbed` and `Answered` are the
hypotheses of the theorems on how a run ends: nobody writes the object inside a
pass, reads are up to date, saves are accepted and the operator does not die; a
call takes effect only if it is answered, and cleanups succeed. Calls may fail,
users may cancel, patch and delete, hooks, imports and pods may fail. Neither can
be dropped: `MCColdPowerAfterCrash.cfg` shows `PowerRestored` fail once a pass is
lost, and what a call has made whose answer is lost is in no status, so no cleanup
knows of it. `CalmInv` says that a pass works on a fresh copy; the status in effect
of a VM (`PhaseOf`, `ResOf`: the copy in a pass, the object between two) is then
changed by one handler at a time (`AnswerStep`),
and between the handlers a VM is only listed, started or cancelled (`IdleStep`).
`CleanedUp`: cleanupFailedVM undoes all that the status names. The secret and the
KubeVirt VM are not named there, and stay (`failure_cleanup`).

**The cold pipeline** (`ColdProofs`, `ColdTheorems`) implements `Migration`, which
carries the theorems above over to it.
* `ImagesOfStoppedSource`, under any faults: no disk of a source that is not off
  is ever exported, whatever was lost, repeated or read late. The invariant
  (`StoppedInv`) says that CreateSnapshot and ExportDisks are never saved, so they
  are reached only within the pass in which WaitForPowerOff saw the source off, and
  that only a failure, which leaves those phases, powers it on. `PipelineTypeOK`
  adds the counts of images and DataVolumes.
* `PowerRestored`, `FailedLeavesNoData` and `CompletedIsWhole`, if `Undisturbed` and
  `Answered`. The invariant (`WholeInv`) says phase by phase what has been made of a
  VM and that the status names it, so a failure in any phase can undo it.
* `CreatedFromImportedDisks`, as long as no pass starts from an old version, and
  `BootsWithSourceOff`, if cleanups succeed besides: passes may be lost and repeated,
  answers lost. The invariant (`RepeatInv`, `OffInv`) says that CreateVM and StartVM
  are never saved, and that a saved ImportDisks has an image and a DataVolume for
  every disk; so a pass that is repeated polls all volumes again before it goes on.

**The warm pipeline** (`WarmProofs`, `WarmCopyProofs`, `WarmTheorems`) implements
`Migration` as well.
* `SingleWriter`, `PowerRestored`, `FailedLeavesNoData` and `CompletedIsWhole`, if
  `Undisturbed` and `Answered`, for any number of VMs, disks, rounds and writes,
  whenever the cutover comes. The invariant (`SoundInv`) says that a recovery point s
  is followed by its images, s + 1 to s + D; that while disks are copied the base,
  and in a round the delta, with their images are all there is in Prism (`Ordered`,
  `Accounted`); and that the only pod there may be is that of the disk the round is
  at, and it comes only after all imports. Each handler leaves its VM like that or
  cleaned up, and gives one of seven answers (`GoesWell`, `Outcome`).
* `EveryWriteHandedOver`, under the same assumptions and with a cutover at any time:
  when the target is created, all the guest ever wrote has been in what an import or a
  succeeded pod was given, except for a VM with a round open at the cutover, for which
  `warm_cutover` shows that it fails. That the pods write what they are given is
  not assumed and not claimed: as the script is, they do not (`warm_last_region`). The
  invariant (`UpToDateInv`) says that what was handed over is at least as new as the
  base and never newer than the source; that in a round the base is not newer than the
  delta, the image of each disk is at least as new as the snapshot before it, and the
  disks the round is done with are at least as new as the delta; and, for a VM that was
  not caught in a round, that none is open from the cutover to FinalSync, and that the
  delta of FinalSync is the source as it stopped.
* `ImplementsDeltaSync`, under the same assumptions: each VM's passes, recovery
  points, images and pods are a copy in rounds. `PlacedInv` adds that a VM whose
  copy is finished still has its last base and no open round; then each of the seven
  answers is a step of `DeltaSync` or a stuttering step (`SyncStep`).

How many images there are, and which of them is a disk's, is a matter of
`Cardinality`; the handlers' proofs take from it only `Counted`, which the lemma
`Counting` establishes once. `Handles` is what the invariants of the copy need
to know of a handler, so that these are shown for seven answers and not for each
path through each handler.

**DeltaSync** (`StandaloneProofs`): a copy in rounds loses nothing if the source stops
between two rounds, and nothing older than its base if it is cut in the middle of one
(`NothingLost`).
The invariant: outside a round each block of the target is at least as new as the
base, within a round those it is done with are at least as new as the delta, nothing
is newer than the source, and the source is off from the last round on.

**The hook runner** (`StandaloneProofs`) implements `HookGate`. The invariant relates every
Job, in the cluster and in the cache, to the runs that have ended: a Job of
attempt n means at least n - 1 failed runs, a failed one n, a succeeded one a
success. That is why a stale Job, or an attempt counted again after a restart,
never makes the runner give up early. `PassedLeavesNothing`, if the Hook can be
read and deletions succeed, the two errors the runner only logs: a pass that ends
the hook has deleted the Job and its ConfigMap (`TidyInv`).

**Plans and providers** (`ControllerProofs`): `UsedProviderStays` and
`ReadyIsBuildable`. The invariant: a copy that may still be saved is the object as
it is; while a plan holds the provider, that plan is in the operator's cache and not
to be seen as gone, and a pass that is about to remove the finalizer works on a
version from before the deletion; and a verdict is never on a later generation than
the plan has, so an edit leaves it behind. What the validator has passed can be
built by `ValidIsBuildable`: a VM on which it reports no error is `Buildable`, for
any VM, maps and cluster whose reads are answered.

**The Nutanix client** (`StandaloneProofs`): `OneObjectPerCall`. The invariant: a
request that still has its body has started no task. Every attempt spends the body,
whatever becomes of it. `OKIsDone`: the task that a call polls is one it has started
itself (`CallInv`). `ListIsExact`, for every inventory (`InventoryAssumption`) and
page size: what has been listed is the inventory up to the offset (`ListInv`), and a
page that is not full is the last. `LiveUntilRenewed`: until it is renewed the token
in use is the cached one, whose age is looked at before each page (`TokenInv`).

Model-checked only:
* liveness, which is out of reach of the prover;
* `DisksKeepTheirPlaces` of `Catalog`: the builder and the pipeline filter the list
  of disks, and what filtering a sequence returns for every sequence takes an
  induction over it.

## Not modelled

* Metrics and events: nothing in the operator reads them back. (The gauge of
  active migrations counts a first pass whose save is lost again.)
* The operator's flags and wiring, the mock Prism Central, generated deep copies,
  the wording of conditions and events: no behaviour of their own.
* CPU, memory, firmware and the sanitising of names in the builder, and the
  contents of manifests in the transfer manager: mappings of values without
  state. `checkMACConflicts`: its only caller gives it no addresses to compare.
* Names are taken to be different; `shortID` cuts them to eight characters, and
  two Migrations or VMs that agree in these would share Jobs, pods and volumes.
* `kubectl-vma` except for `cancel`: the other commands create or print objects.
