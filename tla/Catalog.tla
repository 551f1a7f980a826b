------------------------------- MODULE Catalog -------------------------------
(***************************************************************************)
(* The provider controller and the plan controller together, with the      *)
(* users who change what they work on.                                     *)
(***************************************************************************)
EXTENDS ProviderController, PlanController

CatalogInit ==
  /\ prov = NewProvider /\ provCtl = Idle(prov)
  /\ plan = NoPlan /\ planCtl = [Idle(plan) EXCEPT !.queued = FALSE]
  /\ read = NothingRead
  /\ basis = NoBasis
  /\ changes = 0
  /\ gone = FALSE /\ held = FALSE

----------------------------------------------------------------------------
(* Users.                                                                  *)

Change == changes < MaxChanges /\ changes' = changes + 1

CreatePlan ==
  /\ Change /\ ~plan.exists
  /\ \E s \in Specs :
       plan' = [NoPlan EXCEPT !.exists = TRUE, !.spec = s, !.generation = 1]
  /\ planCtl' = Outdated(planCtl)
  /\ UNCHANGED <<prov, read, basis, gone, held, provCtl>>

EditPlan ==
  /\ Change /\ plan.exists
  /\ \E s \in Specs \ {plan.spec} :
       plan' = [plan EXCEPT !.spec = s, !.generation = @ + 1]
  /\ planCtl' = Outdated(planCtl)
  /\ UNCHANGED <<prov, read, basis, gone, held, provCtl>>

DeletePlan ==
  /\ Change /\ plan.exists
  /\ plan' = NoPlan
  /\ planCtl' = Outdated(planCtl)
  /\ gone' = planCtl.seen.exists /\ held' = FALSE /\ basis' = NoBasis
  /\ UNCHANGED <<prov, read, provCtl>>

DeleteProvider ==
  /\ Change /\ prov.exists /\ ~prov.deleting
  /\ prov' = Stored([prov EXCEPT !.deleting = TRUE])
  /\ provCtl' = Outdated(provCtl)
  /\ held' = (prov.finalizer /\ plan.exists /\ planCtl.seen.exists /\ ~gone)
  /\ UNCHANGED <<plan, read, basis, gone, planCtl>>

EditProvider ==
  /\ Change /\ prov.exists /\ ~prov.deleting
  /\ provCtl' = Outdated(provCtl)
  /\ UNCHANGED <<prov, plan, read, basis, gone, held, planCtl>>

CatalogNext ==
  \/ ProviderPass \/ ProviderSeen \/ ProviderTimer
  \/ PlanPass \/ PlanSeen \/ PlanTimer
  \/ CreatePlan \/ EditPlan \/ DeletePlan \/ DeleteProvider \/ EditProvider

CatalogSpec == CatalogInit /\ [][CatalogNext]_catalogVars

\* The queue is worked off, requeues come due and watches deliver.
CatalogFairSpec ==
  /\ CatalogSpec
  /\ WF_catalogVars(ProviderPass) /\ WF_catalogVars(ProviderSeen)
  /\ WF_catalogVars(ProviderTimer)
  /\ WF_catalogVars(PlanPass) /\ WF_catalogVars(PlanSeen)

----------------------------------------------------------------------------
(* Properties.                                                             *)

\* The plan controller calls a plan Ready only if each of its VMs can be built
\* with the maps it has read; and a verdict on the plan's generation is a
\* verdict on the VMs it lists.
ReadyIsBuildable ==
  plan.phase = "Ready" =>
    /\ basis.sound
    /\ plan.verdict.generation = plan.generation => basis.spec = plan.spec

\* The VMs of a plan that is Ready keep their disks: phaseImportDisks counts
\* the data disks to name the volumes and buildDisksAndVolumes counts them on
\* its own to attach them, and CD-ROMs take part in neither.
DisksKeepTheirPlaces ==
  plan.phase = "Ready" /\ plan.verdict.generation = plan.generation =>
    \A v \in plan.spec, nmap \in NetworkMaps : SameMachine(Source[v], nmap, TargetNamespace)

\* The finalizer: a provider does not go while a plan refers to it that the
\* operator knew of when the deletion was asked for (isProviderInUse).
UsedProviderStays == held => prov.exists

\* The provider's deletion is carried out once no plan is left, although no
\* watch tells the provider controller of that.
DeletedProviderGoes == []<>~(prov.deleting /\ ~plan.exists)

\* The plan controller comes to a verdict on the plan as it is.
PlanGetsVerdict == []<>(plan.exists => plan.verdict.generation = plan.generation)

\* A connected provider that nobody changes has its inventory fetched when the
\* refresh interval is over (RequeueAfter), not while that is still running.
RefreshesOnInterval ==
  [][provCtl.at = "Idle" /\ provCtl'.at = "Connecting" /\ provCtl.seen.phase = "Connected"
       => ~provCtl.timer]_catalogVars
=============================================================================
