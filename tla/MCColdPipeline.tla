--------------------------- MODULE MCColdPipeline ---------------------------
(* Settings for model checking ColdPipeline.                               *)
EXTENDS ColdPipeline

Cold == {"cold"}
Nothing == {}

\* The operator is never interrupted: its users act between two passes.
UsersBetweenPasses == {"Cancel", "Delete"}
DeletesMidPass == {"Delete", "MidPass"}

\* Passes are interrupted and repeated, from up-to-date reads.
Interrupted == {"Cancel", "Delete", "Patch", "MidPass", "SaveError", "Crash",
                "Resolve"}
Crashes == {"Crash"}

StaleReads == {"StaleRead"}

CallsFail == {"CallError"}
CallsFailOrSeemTo == {"CallError", "LostAnswer"}
=============================================================================
