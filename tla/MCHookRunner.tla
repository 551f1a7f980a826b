---------------------------- MODULE MCHookRunner ----------------------------
(* Settings for model checking HookRunner.                                 *)
EXTENDS HookRunner

CallsStaleLost == {"CallError", "StaleRead", "Lost"}
=============================================================================
