---------------------------- MODULE MigrationInv ----------------------------
(***************************************************************************)
(* The inductive invariant of Migration: what is true of every version of  *)
(* the object, and of the copies that the cache and a pass hold of it.     *)
(***************************************************************************)
EXTENDS Migration

\* What is true of every version of the object, and so of every copy.
Sane(o) ==
  /\ o.phase = "Running" => \A v \in VMs : o.vms[v] # "None"
  /\ Cardinality(ActiveVMs(o)) <= Limit

\* The flags mean what their names say.
FlagsInv ==
  /\ cacheFresh => cache = obj
  /\ memFresh => pc = "pass"

\* The copy a pass works on, whether or not it is up to date.
PassInv ==
  /\ pc = "idle" => ActiveVMs(mem) = {}
  /\ pc = "pass" =>
       /\ mem.phase = "Running"
       /\ \A v \in VMs : mem.vms[v] # "None"
       /\ Cardinality(ActiveVMs(mem)) <= activeCount
       /\ activeCount <= Limit

\* An up-to-date copy differs from the object by what a save may do.
FreshInv ==
  memFresh =>
    /\ Reconcilable(obj)
    /\ mem.exists = obj.exists /\ mem.deleting = obj.deleting
    /\ mem.finalizer = obj.finalizer /\ mem.cancel = obj.cancel
    /\ \A v \in VMs : VMStep(v, mem.vms[v])

IInv ==
  /\ TypeOK
  /\ Sane(obj)
  /\ Sane(cache)
  /\ FlagsInv
  /\ PassInv
  /\ FreshInv
=============================================================================
