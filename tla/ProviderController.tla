------------------------- MODULE ProviderController -------------------------
(***************************************************************************)
(* The provider controller                                                 *)
(* (src/internal/controller/provider_controller.go): a step for each       *)
(* write, and one for the reads in between.  It watches providers only.    *)
(***************************************************************************)
EXTENDS CatalogState

OnlyProvider == UNCHANGED <<plan, read, basis, changes, gone, held, planCtl>>

\* An object with a deletion timestamp is gone with its last finalizer.
Stored(p) == IF p.deleting /\ ~p.finalizer THEN NoProvider ELSE p

\* A write by the pass, from the latest version or not: not is a conflict, an
\* error that requeues the provider.
UpdateProvider(current, copy, next) ==
  IF prov.exists /\ current
    THEN prov' = Stored(copy) /\ provCtl' = next
    ELSE UNCHANGED prov /\ provCtl' = Requeue(provCtl)

\* A provider that is gone, one that is to go, a new one, and any other.
BeginProvider ==
  LET copy == provCtl.seen
      ctl == [provCtl EXCEPT !.queued = FALSE, !.copy = copy, !.current = provCtl.fresh]
      kept == [copy EXCEPT !.finalizer = TRUE]
      connecting == [copy EXCEPT !.phase = "Connecting"]
  IN /\ provCtl.at = "Idle" /\ provCtl.queued
     /\ \/ /\ ~copy.exists
           /\ provCtl' = PassOver(ctl) /\ UNCHANGED prov
        \/ /\ copy.deleting /\ copy.finalizer
           /\ provCtl' = [ctl EXCEPT !.at = "InUse"] /\ UNCHANGED prov
        \/ /\ copy.exists /\ ~copy.deleting /\ ~copy.finalizer
           /\ UpdateProvider(ctl.current, kept, Requeue(Wrote(ctl, kept, "Idle")))
        \/ /\ copy.exists /\ ~copy.deleting /\ copy.finalizer
           /\ UpdateProvider(ctl.current, connecting, Wrote(ctl, connecting, "Connecting"))
     /\ OnlyProvider

\* Mutant: the finalizer goes without a look at the plans.
releaseUnchecked ==
  /\ provCtl.at = "InUse"
  /\ provCtl' = [provCtl EXCEPT !.at = "Release"]
  /\ UNCHANGED prov
  /\ OnlyProvider

\* Mutant: nobody comes back to a provider that is in use.
inUseForgotten ==
  /\ provCtl.at = "InUse"
  /\ provCtl' = IF planCtl.seen.exists THEN PassOver(provCtl)
                ELSE [provCtl EXCEPT !.at = "Release"]
  /\ UNCHANGED prov
  /\ OnlyProvider

\* The plans in the operator's cache decide.
isProviderInUse ==
  /\ provCtl.at = "InUse"
  /\ provCtl' = IF planCtl.seen.exists THEN RequeueAfter(provCtl)
                ELSE [provCtl EXCEPT !.at = "Release"]
  /\ UNCHANGED prov
  /\ OnlyProvider

RemoveFinalizer ==
  LET copy == [provCtl.copy EXCEPT !.finalizer = FALSE]
  IN /\ provCtl.at = "Release"
     /\ UpdateProvider(provCtl.current, copy, PassOver(Wrote(provCtl, copy, "Idle")))
     /\ OnlyProvider

\* The Secret is read and the VMs are listed.  Either may fail; what is listed
\* besides, subnets, clusters and containers, is only counted.
FetchInventory ==
  /\ provCtl.at = "Connecting"
  /\ \E at \in {"Connected", "Error"} : provCtl' = [provCtl EXCEPT !.at = at]
  /\ UNCHANGED prov
  /\ OnlyProvider

SaveConnected ==
  LET copy == [provCtl.copy EXCEPT !.phase = "Connected"]
  IN /\ provCtl.at = "Connected"
     /\ UpdateProvider(provCtl.current, copy, RequeueAfter(Wrote(provCtl, copy, "Idle")))
     /\ OnlyProvider

setErrorCondition ==
  LET copy == [provCtl.copy EXCEPT !.phase = "Error"]
  IN /\ provCtl.at = "Error"
     /\ UpdateProvider(provCtl.current, copy, RequeueAfter(Wrote(provCtl, copy, "Idle")))
     /\ OnlyProvider

ProviderPass ==
  \/ BeginProvider \/ isProviderInUse \/ RemoveFinalizer
  \/ FetchInventory \/ SaveConnected \/ setErrorCondition

ProviderSeen ==
  /\ ~provCtl.fresh
  /\ provCtl' = Delivered(provCtl, prov)
  /\ UNCHANGED prov
  /\ OnlyProvider

ProviderTimer ==
  /\ provCtl.timer
  /\ provCtl' = TimerFired(provCtl)
  /\ UNCHANGED prov
  /\ OnlyProvider
=============================================================================
