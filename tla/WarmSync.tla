------------------------------ MODULE WarmSync ------------------------------
(***************************************************************************)
(* The warm pipeline as a copy in rounds: what DeltaSync's variables are,  *)
(* for one VM of the plan, in a state of WarmPipeline.                     *)
(***************************************************************************)
EXTENDS WarmPipeline

CONSTANT V   \* the VM that is looked at

ASSUME VAssumption == V \in VMs

ContentOf(i) == IF i = 0 THEN NoWrites ELSE content[i]

SyncState ==
  IF PhaseOf(V) \in {"Failed", "Cancelled"} THEN "aborted"
  ELSE IF world[V].kv # "None" THEN "created"
  ELSE IF PhaseOf(V) = "CreateVM" THEN "synced"
  ELSE IF ResOf(V).warm.base = 0 THEN "new" ELSE "syncing"

Sync == INSTANCE DeltaSync WITH
  Blocks <- Disks, disk <- disk[V], on <- world[V].power # "OFF",
  target <- handed[V], base <- ContentOf(ResOf(V).warm.base),
  open <- ResOf(V).warm.delta # 0, delta <- ContentOf(ResOf(V).warm.delta),
  done <- 1 .. ResOf(V).warm.disk, cut <- V \in caught, st <- SyncState

\* What the passes, recovery points, images and pods of the warm pipeline do
\* together is a copy in rounds as DeltaSync promises it.
ImplementsDeltaSync == Sync!SyncSpec
=============================================================================
