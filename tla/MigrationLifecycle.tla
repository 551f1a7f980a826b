------------------------- MODULE MigrationLifecycle -------------------------
(***************************************************************************)
(* The Migration object as its users see it, and what they may rely on:    *)
(* an abstract specification in which every accepted write of the user or  *)
(* of the controller is one step on the object.  Module Migration, where a *)
(* reconcile pass takes many steps on a copy that may be out of date,      *)
(* implements it.                                                          *)
(***************************************************************************)
EXTENDS MigrationPhases, FiniteSets

CONSTANTS
  N,             \* number of VMs in the plan
  MaxInFlight    \* plan.spec.maxInFlight

ASSUME NAssumption == N \in Nat \ {0}
ASSUME MaxInFlightAssumption == MaxInFlight \in Int

VARIABLE obj     \* the Migration in the API server

VMs == 1 .. N
Limit == IF MaxInFlight > 1 THEN MaxInFlight ELSE 1

Objects ==
  [exists : BOOLEAN, deleting : BOOLEAN, finalizer : BOOLEAN,
   phase : MigrationPhaseSet, vms : [VMs -> VMPhases], cancel : SUBSET VMs]

NewObject ==
  [exists |-> TRUE, deleting |-> FALSE, finalizer |-> FALSE, phase |-> "",
   vms |-> [v \in VMs |-> "None"], cancel |-> {}]

ActiveVMs(o) ==
  {v \in VMs : o.vms[v] # "None" /\ isActiveVMPhase(o.vms[v])}

\* Reconcile gets past its early returns.
Reconcilable(o) ==
  /\ o.exists /\ ~o.deleting /\ o.finalizer
  /\ ~isTerminalMigrationPhase(o.phase)

\* Mutant: a VM that has not finished does not keep the Migration Running.
statusOfFinished(o) ==
  [o EXCEPT !.phase =
     IF \A v \in VMs : o.vms[v] = "Cancelled" THEN "Cancelled"
     ELSE IF \E v \in VMs : o.vms[v] = "Failed" THEN "Failed"
     ELSE "Completed"]

updateOverallStatus(o) ==
  [o EXCEPT !.phase =
     IF \E v \in VMs : ~isTerminalVMPhase(o.vms[v]) THEN "Running"
     ELSE IF \A v \in VMs : o.vms[v] = "Cancelled" THEN "Cancelled"
     ELSE IF \E v \in VMs : o.vms[v] = "Failed" THEN "Failed"
     ELSE "Completed"]

----------------------------------------------------------------------------
LInit == obj = NewObject

LCancel(v) == obj.exists /\ obj' = [obj EXCEPT !.cancel = @ \cup {v}]

LDelete == obj.exists /\ obj' = [obj EXCEPT !.deleting = TRUE,
                                            !.exists = obj.finalizer]

LProtect ==
  /\ obj.exists /\ ~obj.deleting
  /\ obj' = [obj EXCEPT !.finalizer = TRUE]

LRelease ==
  /\ obj.exists /\ obj.deleting /\ obj.phase # "Running"
  /\ obj' = [obj EXCEPT !.finalizer = FALSE, !.exists = FALSE]

LGiveUp == Reconcilable(obj) /\ obj' = [obj EXCEPT !.phase = "Failed"]

\* What one accepted save may do to one VM: a cancelled VM that has not
\* finished becomes Cancelled and no other does; any other VM advances.
VMStep(v, to) ==
  IF v \in obj.cancel /\ ~isTerminalVMPhase(obj.vms[v])
    THEN to = "Cancelled"
    ELSE /\ to # "None"
         /\ VMForward(obj.vms[v], to)
         /\ to = "Cancelled" => obj.vms[v] = "Cancelled"

LSave(w) ==
  /\ Reconcilable(obj)
  /\ \A v \in VMs : VMStep(v, w[v])
  /\ obj' = updateOverallStatus([obj EXCEPT !.vms = w])
  /\ Cardinality(ActiveVMs(obj')) <= Limit

LNext ==
  \/ \E v \in VMs : LCancel(v)
  \/ LDelete
  \/ LProtect
  \/ LRelease
  \/ LGiveUp
  \/ \E w \in [VMs -> VMPhases] : LSave(w)

\* Every accepted write to the Migration is one of the steps above, whatever
\* passes were started, repeated or lost in between (Reconcile).
LSpec == LInit /\ [][LNext]_obj
=============================================================================
