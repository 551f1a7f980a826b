--------------------------- MODULE MCWarmPipeline ---------------------------
(* Settings for model checking WarmPipeline and WarmSync.                  *)
EXTENDS WarmSync

WarmPlan == {"warm"}
Nothing == {}
Cancels == {"Cancel"}
CallsFail == {"CallError"}
=============================================================================
