-------------------------- MODULE MigrationPhases --------------------------
(***************************************************************************)
(* The phases of a Migration and of the VMs in it, the two pipeline        *)
(* orders, and the predicates the migration controller decides by          *)
(* (src/internal/controller/migration_controller.go).                      *)
(***************************************************************************)
EXTENDS Integers, Sequences

\* Pipeline of a cold migration.
phaseOrder ==
  << "Pending", "PreHook", "StorePowerState", "PowerOff", "WaitForPowerOff",
     "CreateSnapshot", "ExportDisks", "ImportDisks", "CreateVM", "StartVM",
     "PostHook", "Cleanup", "Completed" >>

\* Pipeline of a warm migration.
warmPhaseOrder ==
  << "Pending", "PreHook", "StorePowerState", "BulkCopy", "WaitBulkCopy",
     "Precopy", "PowerOff", "WaitForPowerOff", "FinalSync", "CreateVM",
     "StartVM", "PostHook", "Cleanup", "Completed" >>

MigrationTypes == {"cold", "warm"}

OrderOf(type) == IF type = "warm" THEN warmPhaseOrder ELSE phaseOrder

\* The successor in the pipeline; a phase the order does not list is its own
\* successor, as in the code.
nextPhaseInOrder(current, order) ==
  IF \E i \in 1 .. Len(order) - 1 : order[i] = current
    THEN order[(CHOOSE i \in 1 .. Len(order) - 1 : order[i] = current) + 1]
    ELSE current

\* "None" stands for a VM that has no entry in status.vms yet.
ActiveVMPhases ==
  {"PreHook", "StorePowerState", "PowerOff", "WaitForPowerOff",
   "CreateSnapshot", "ExportDisks", "ImportDisks", "BulkCopy",
   "WaitBulkCopy", "Precopy", "FinalSync", "CreateVM", "StartVM",
   "PostHook", "Cleanup"}
TerminalVMPhases == {"Completed", "Failed", "Cancelled"}
VMPhases == {"None", "Pending"} \cup ActiveVMPhases \cup TerminalVMPhases

TerminalMigrationPhases == {"Completed", "Failed", "Cancelled"}
MigrationPhaseSet == {"", "Pending", "Running"} \cup TerminalMigrationPhases

isTerminalVMPhase(phase) == phase \in TerminalVMPhases
isTerminalMigrationPhase(phase) == phase \in TerminalMigrationPhases
isActiveVMPhase(phase) == phase # "Pending" /\ ~isTerminalVMPhase(phase)

\* How far a VM has come; both pipelines climb it.
Rank(phase) ==
  CASE phase = "None" -> 0
    [] phase = "Pending" -> 1
    [] phase = "PreHook" -> 2
    [] phase = "StorePowerState" -> 3
    [] phase = "BulkCopy" -> 4
    [] phase = "WaitBulkCopy" -> 5
    [] phase = "Precopy" -> 6
    [] phase = "PowerOff" -> 7
    [] phase = "WaitForPowerOff" -> 8
    [] phase = "CreateSnapshot" -> 9
    [] phase = "ExportDisks" -> 10
    [] phase = "ImportDisks" -> 11
    [] phase = "FinalSync" -> 12
    [] phase = "CreateVM" -> 13
    [] phase = "StartVM" -> 14
    [] phase = "PostHook" -> 15
    [] phase = "Cleanup" -> 16
    [] OTHER -> 17

\* A VM may stay where it is, or climb; a terminal phase is never left.
VMForward(from, to) ==
  \/ from = to
  \/ ~isTerminalVMPhase(from) /\ Rank(from) < Rank(to)
=============================================================================
