--------------------------- MODULE PlanController ---------------------------
(***************************************************************************)
(* The plan controller (src/internal/controller/plan_controller.go): a     *)
(* step for each write, and one for the reads in between.  It watches      *)
(* plans only.                                                             *)
(***************************************************************************)
EXTENDS CatalogState

OnlyPlan == UNCHANGED <<prov, changes, held, provCtl>>

\* Mutant: a verdict on any generation will do.
verdictOfOnce(copy) == copy.verdict.generation > 0

AlreadyValidated(copy) == copy.verdict.generation = copy.generation

\* The pass writes the status, or finds that its copy is old.
UpdatePlan(current, copy, next) ==
  IF plan.exists /\ current
    THEN plan' = copy /\ planCtl' = next
    ELSE UNCHANGED plan /\ planCtl' = Requeue(planCtl)

BeginPlan ==
  LET copy == planCtl.seen
      ctl == [planCtl EXCEPT !.queued = FALSE, !.copy = copy, !.current = planCtl.fresh]
      validating == [copy EXCEPT !.phase = "Validating"]
  IN /\ planCtl.at = "Idle" /\ planCtl.queued
     /\ \/ /\ copy.exists => AlreadyValidated(copy)
           /\ planCtl' = PassOver(ctl) /\ UNCHANGED plan
        \/ /\ copy.exists /\ ~AlreadyValidated(copy)
           /\ UpdatePlan(ctl.current, validating, Wrote(ctl, validating, "Validating"))
     /\ UNCHANGED <<read, basis, gone>>
     /\ OnlyPlan

\* The provider, its Secret or a map cannot be read.  Only the provider is in
\* the model, in the operator's cache; the others may be in any state.
FailToResolve ==
  /\ planCtl.at = "Validating"
  /\ planCtl' = [planCtl EXCEPT !.at = "Unresolved"]
  /\ UNCHANGED <<plan, read, basis, gone>>
  /\ OnlyPlan

\* A VM that cannot be fetched counts as one with errors.
Valid(v, smap, nmap, fetched) ==
  v \in fetched /\ ~HasErrors(Validate(Source[v], smap, nmap, TargetNamespace, Cluster))

\* The VM can be built with these maps.
SoundVM(v, smap, nmap) ==
  v \in DOMAIN Source /\ Buildable(Source[v], smap, nmap, TargetNamespace, Cluster)

\* The maps are read, and the VMs fetched and validated one by one.
ValidateVMs ==
  LET spec == planCtl.copy.spec
  IN /\ planCtl.at = "Validating"
     /\ provCtl.seen.exists
     /\ \E smap \in StorageMaps, nmap \in NetworkMaps,
             fetched \in SUBSET (spec \cap DOMAIN Source) :
          read' = [ok |-> \A v \in spec : Valid(v, smap, nmap, fetched),
                   sound |-> \A v \in spec : SoundVM(v, smap, nmap)]
     /\ planCtl' = [planCtl EXCEPT !.at = "Verdict"]
     /\ UNCHANGED <<plan, basis, gone>>
     /\ OnlyPlan

WithVerdict(copy, ok) ==
  [copy EXCEPT !.phase = IF ok THEN "Ready" ELSE "Error",
               !.verdict = [generation |-> copy.generation, ok |-> ok]]

SaveVerdict ==
  LET copy == WithVerdict(planCtl.copy, read.ok)
  IN /\ planCtl.at = "Verdict"
     /\ UpdatePlan(planCtl.current, copy, PassOver(Wrote(planCtl, copy, "Idle")))
     /\ basis' = IF plan' = plan THEN basis
                 ELSE [spec |-> copy.spec, sound |-> read.sound]
     /\ read' = NothingRead /\ UNCHANGED gone
     /\ OnlyPlan

setPlanError ==
  LET copy == WithVerdict(planCtl.copy, FALSE)
  IN /\ planCtl.at = "Unresolved"
     /\ UpdatePlan(planCtl.current, copy, RequeueAfter(Wrote(planCtl, copy, "Idle")))
     /\ UNCHANGED <<read, basis, gone>>
     /\ OnlyPlan

PlanPass ==
  \/ BeginPlan \/ FailToResolve \/ ValidateVMs \/ SaveVerdict \/ setPlanError

\* A plan that has been deleted and created again may be seen as gone first.
PlanSeen ==
  /\ ~planCtl.fresh
  /\ \/ planCtl' = Delivered(planCtl, plan)
     \/ /\ gone /\ plan.exists
        /\ planCtl' = Outdated(Delivered(planCtl, NoPlan))
  /\ gone' = FALSE
  /\ UNCHANGED <<plan, read, basis>>
  /\ OnlyPlan

PlanTimer ==
  /\ planCtl.timer
  /\ planCtl' = TimerFired(planCtl)
  /\ UNCHANGED <<plan, read, basis, gone>>
  /\ OnlyPlan
=============================================================================
