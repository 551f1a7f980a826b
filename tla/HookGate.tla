------------------------------ MODULE HookGate ------------------------------
(***************************************************************************)
(* What a hook promises, for one VM and one of its two steps: an abstract  *)
(* specification.  The pipeline goes on only after a run of the hook has   *)
(* succeeded, and the VM is given up only after enough runs have failed    *)
(* or a call to the cluster has.  Module HookRunner implements it.         *)
(***************************************************************************)
EXTENDS Integers

CONSTANT hookMaxRetries  \* runs that must have failed

VARIABLES
  configured,      \* the plan has a hook for this VM and step
  saved,           \* "Hook", "Passed" or "Failed" in the VM's saved status
  ok,              \* a run of the hook has succeeded
  fails,           \* runs that have failed
  broken           \* a call to the API server has failed

gateVars == <<configured, saved, ok, fails, broken>>

GateInit ==
  /\ configured \in BOOLEAN
  /\ saved = "Hook"
  /\ ok = FALSE
  /\ fails = 0
  /\ broken = FALSE

RunEnds ==
  /\ configured
  /\ \/ ok' = TRUE /\ UNCHANGED fails
     \/ fails' = fails + 1 /\ UNCHANGED ok
  /\ UNCHANGED <<configured, saved, broken>>

CallBreaks ==
  /\ broken' = TRUE
  /\ UNCHANGED <<configured, saved, ok, fails>>

GoOn ==
  /\ saved = "Hook"
  /\ configured => ok
  /\ saved' = "Passed"
  /\ UNCHANGED <<configured, ok, fails, broken>>

GiveUp ==
  /\ saved = "Hook"
  /\ configured
  /\ fails >= hookMaxRetries \/ broken
  /\ saved' = "Failed"
  /\ UNCHANGED <<configured, ok, fails, broken>>

GateSpec == GateInit /\ [][RunEnds \/ CallBreaks \/ GoOn \/ GiveUp]_gateVars
=============================================================================
