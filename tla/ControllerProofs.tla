-------------------------- MODULE ControllerProofs --------------------------
(***************************************************************************)
(* Proofs about the controllers.  Migration, for every number of VMs,      *)
(* every maxInFlight and every combination of disturbances: type           *)
(* correctness, the in-flight bound, that the phase of the object agrees   *)
(* with its VMs, and that the controller implements MigrationLifecycle.    *)
(* Validation and Catalog, for every set of source VMs, maps and plans and *)
(* any number of changes by users: what a VM that passes validation is     *)
(* good for, and what the controllers of providers and plans keep.         *)
(***************************************************************************)
EXTENDS MigrationInv, Catalog, FiniteSetTheorems, TLAPS

----------------------------------------------------------------------------
(* Facts about the phases.                                                 *)

LEMMA RankType == \A p : Rank(p) \in 0 .. 17
  BY DEF Rank

\* Each pipeline climbs, and has only phases of a VM in it.
LEMMA OrderClimbs ==
  ASSUME NEW type \in MigrationTypes, NEW i \in 1 .. Len(OrderOf(type)) - 1
  PROVE  /\ Rank(OrderOf(type)[i]) < Rank(OrderOf(type)[i + 1])
         /\ OrderOf(type)[i + 1] \in VMPhases \ {"None", "Failed", "Cancelled"}
<1>1. CASE type = "warm"
  <2>1. OrderOf(type) = warmPhaseOrder /\ Len(warmPhaseOrder) = 14
    BY <1>1 DEF OrderOf, warmPhaseOrder
  <2>2. i \in 1 .. 13
    BY <2>1
  <2> QED
    BY <2>1, <2>2 DEF warmPhaseOrder, Rank, VMPhases, ActiveVMPhases,
      TerminalVMPhases
<1>2. CASE type # "warm"
  <2>1. OrderOf(type) = phaseOrder /\ Len(phaseOrder) = 13
    BY <1>2 DEF OrderOf, phaseOrder
  <2>2. i \in 1 .. 12
    BY <2>1
  <2> QED
    BY <2>1, <2>2 DEF phaseOrder, Rank, VMPhases, ActiveVMPhases,
      TerminalVMPhases
<1> QED
  BY <1>1, <1>2, Zenon

\* nextPhaseInOrder stays or climbs, and never fails or cancels a VM.
LEMMA NextPhaseClimbs ==
  ASSUME NEW type \in MigrationTypes, NEW p \in ActiveVMPhases
  PROVE  LET q == nextPhaseInOrder(p, OrderOf(type))
         IN  /\ q \in VMPhases \ {"None", "Failed", "Cancelled"}
             /\ q = p \/ Rank(p) < Rank(q)
<1> DEFINE order == OrderOf(type)
<1>1. CASE \E i \in 1 .. Len(order) - 1 : order[i] = p
  <2> DEFINE i == CHOOSE i \in 1 .. Len(order) - 1 : order[i] = p
  <2>1. i \in 1 .. Len(order) - 1 /\ order[i] = p
    BY <1>1
  <2>2. nextPhaseInOrder(p, order) = order[i + 1]
    BY <1>1 DEF nextPhaseInOrder
  <2> HIDE DEF i
  <2> QED
    BY <2>1, <2>2, OrderClimbs
<1>2. CASE ~ \E i \in 1 .. Len(order) - 1 : order[i] = p
  <2>1. nextPhaseInOrder(p, order) = p
    BY <1>2 DEF nextPhaseInOrder
  <2> QED
    BY <2>1 DEF VMPhases, ActiveVMPhases
<1> QED
  BY <1>1, <1>2

\* Advancing twice is advancing.
LEMMA ForwardTransitive ==
  ASSUME NEW a, NEW b, NEW c, VMForward(a, b), VMForward(b, c)
  PROVE  VMForward(a, c)
  BY RankType DEF VMForward

----------------------------------------------------------------------------
(* Facts about the number of active VMs.                                   *)

LEMMA ActiveFinite ==
  ASSUME NEW o
  PROVE  /\ IsFiniteSet(ActiveVMs(o))
         /\ Cardinality(ActiveVMs(o)) \in Nat
<1>1. IsFiniteSet(VMs)
  BY FS_Interval, NAssumption DEF VMs
<1>2. ActiveVMs(o) \subseteq VMs
  BY DEF ActiveVMs
<1> QED
  BY <1>1, <1>2, FS_Subset, FS_CardinalityType

LEMMA ActiveShrinks ==
  ASSUME NEW o, NEW p, ActiveVMs(p) \subseteq ActiveVMs(o)
  PROVE  Cardinality(ActiveVMs(p)) <= Cardinality(ActiveVMs(o))
  BY ActiveFinite, FS_Subset

LEMMA ActiveGrowsByOne ==
  ASSUME NEW o, NEW p, NEW v, ActiveVMs(p) \subseteq ActiveVMs(o) \cup {v}
  PROVE  Cardinality(ActiveVMs(p)) <= Cardinality(ActiveVMs(o)) + 1
<1> DEFINE S == ActiveVMs(o) \cup {v}
<1>1. IsFiniteSet(S) /\ Cardinality(S) <= Cardinality(ActiveVMs(o)) + 1
  BY ActiveFinite, FS_AddElement
<1>2. Cardinality(ActiveVMs(p)) <= Cardinality(S)
  BY <1>1, FS_Subset
<1>3. Cardinality(S) \in Nat
  BY <1>1, FS_CardinalityType
<1> QED
  BY <1>1, <1>2, <1>3, ActiveFinite

----------------------------------------------------------------------------
(* Facts about the steps of Reconcile.                                     *)

\* updateOverallStatus touches the phase alone, and the phase it derives
\* keeps the object sane.
LEMMA OverallStatusFacts ==
  ASSUME NEW o \in Objects, \A v \in VMs : o.vms[v] # "None",
         Cardinality(ActiveVMs(o)) <= Limit
  PROVE  LET p == updateOverallStatus(o)
         IN  /\ p \in Objects /\ Sane(p)
             /\ p = [o EXCEPT !.phase = p.phase]
             /\ ActiveVMs(p) = ActiveVMs(o)
<1> DEFINE p == updateOverallStatus(o)
<1>1. p \in Objects /\ p = [o EXCEPT !.phase = p.phase] /\ p.vms = o.vms
  BY DEF updateOverallStatus, Objects, MigrationPhaseSet,
    TerminalMigrationPhases
<1>2. ActiveVMs(p) = ActiveVMs(o)
  BY <1>1 DEF ActiveVMs
<1> QED
  BY <1>1, <1>2 DEF Sane

\* The copy a pass starts with.
LEMMA BeginFacts ==
  ASSUME NEW o \in Objects, Sane(o), Reconcilable(o)
  PROVE  LET p == processCancellations(initializeVMStatuses(o))
         IN  /\ p \in Objects
             /\ p.phase = "Running"
             /\ p.exists = o.exists /\ p.deleting = o.deleting
             /\ p.finalizer = o.finalizer /\ p.cancel = o.cancel
             /\ \A v \in VMs :
                  /\ p.vms[v] # "None"
                  /\ IF v \in o.cancel /\ ~isTerminalVMPhase(o.vms[v])
                       THEN p.vms[v] = "Cancelled"
                       ELSE \/ p.vms[v] = o.vms[v]
                            \/ o.vms[v] = "None" /\ p.vms[v] = "Pending"
             /\ Cardinality(ActiveVMs(p)) <= Limit
<1> DEFINE i == initializeVMStatuses(o)
           p == processCancellations(i)
<1>1. /\ i \in Objects
      /\ i.phase = "Running"
      /\ i.exists = o.exists /\ i.deleting = o.deleting
      /\ i.finalizer = o.finalizer /\ i.cancel = o.cancel
      /\ \A v \in VMs : /\ i.vms[v] # "None"
                        /\ \/ i.vms[v] = o.vms[v]
                           \/ o.vms[v] = "None" /\ i.vms[v] = "Pending"
  <2>1. CASE Started(o)
    <3>1. o.phase = "Running"
      BY <2>1 DEF Started, Reconcilable, isTerminalMigrationPhase, Objects,
        MigrationPhaseSet
    <3> QED
      BY <2>1, <3>1 DEF initializeVMStatuses, Sane
  <2>2. CASE ~Started(o)
    BY <2>2, Zenon DEF initializeVMStatuses, Objects, MigrationPhaseSet, VMPhases
  <2> QED
    BY <2>1, <2>2
<1> HIDE DEF i
<1>2. /\ p \in Objects
      /\ p.phase = "Running"
      /\ p.exists = o.exists /\ p.deleting = o.deleting
      /\ p.finalizer = o.finalizer /\ p.cancel = o.cancel
  BY <1>1 DEF processCancellations, Objects, VMPhases, TerminalVMPhases
<1>3. ASSUME NEW v \in VMs
      PROVE  p.vms[v] = IF v \in o.cancel /\ ~isTerminalVMPhase(i.vms[v])
                        THEN "Cancelled" ELSE i.vms[v]
  BY <1>1 DEF processCancellations, Objects
<1> HIDE DEF p
<1>4. \A v \in VMs :
        /\ p.vms[v] # "None"
        /\ IF v \in o.cancel /\ ~isTerminalVMPhase(o.vms[v])
             THEN p.vms[v] = "Cancelled"
             ELSE \/ p.vms[v] = o.vms[v]
                  \/ o.vms[v] = "None" /\ p.vms[v] = "Pending"
  BY <1>1, <1>3 DEF isTerminalVMPhase, TerminalVMPhases
<1>5. ActiveVMs(p) \subseteq ActiveVMs(o)
  BY <1>4 DEF ActiveVMs, isActiveVMPhase, isTerminalVMPhase,
    TerminalVMPhases
<1>6. Limit \in Nat
  BY MaxInFlightAssumption DEF Limit
<1>7. Cardinality(ActiveVMs(p)) <= Limit
  BY <1>5, <1>6, ActiveShrinks, ActiveFinite DEF Sane
<1> QED
  BY <1>2, <1>4, <1>7 DEF p, i

LEMMA LimitNat == Limit \in Nat \ {0}
  BY MaxInFlightAssumption DEF Limit

\* Where the pass stands, an active VM has one of the pipeline's phases.
LEMMA AtPhaseFacts ==
  ASSUME IInv, AtPhase
  PROVE  /\ idx \in VMs /\ pc = "pass"
         /\ mem.vms[idx] \in ActiveVMPhases
         /\ idx \in ActiveVMs(mem)
  BY DEF IInv, TypeOK, PassInv, AtPhase, AtVM, Objects, VMPhases,
    isActiveVMPhase, isTerminalVMPhase, ActiveVMs

\* Moving the VM at idx forward to an active or a finished phase keeps the
\* copy within what a save may do.
LEMMA MoveFacts ==
  ASSUME IInv, pc = "pass", idx \in VMs, NEW q \in VMPhases,
         q \notin {"None", "Cancelled"},
         ~isTerminalVMPhase(mem.vms[idx]), VMForward(mem.vms[idx], q),
         mem' = [mem EXCEPT !.vms[idx] = q], UNCHANGED <<obj, memFresh>>
  PROVE  /\ mem' \in Objects
         /\ mem'.phase = "Running"
         /\ \A v \in VMs : mem'.vms[v] # "None"
         /\ ActiveVMs(mem') \subseteq ActiveVMs(mem) \cup {idx}
         /\ FreshInv'
<1>1. mem' \in Objects /\ mem'.phase = "Running"
  BY DEF IInv, TypeOK, PassInv, Objects
<1>2. \A v \in VMs : mem'.vms[v] = IF v = idx THEN q ELSE mem.vms[v]
  BY DEF IInv, TypeOK, Objects
<1>3. \A v \in VMs : mem'.vms[v] # "None"
  BY <1>2 DEF IInv, PassInv
<1>4. ActiveVMs(mem') \subseteq ActiveVMs(mem) \cup {idx}
  BY <1>2 DEF ActiveVMs
<1>5. ASSUME memFresh
      PROVE  \A v \in VMs : VMStep(v, mem'.vms[v])
  <2> SUFFICES ASSUME NEW v \in VMs, v = idx PROVE VMStep(v, q)
    BY <1>2, <1>5 DEF IInv, FreshInv
  <2>1. VMStep(idx, mem.vms[idx])
    BY <1>5 DEF IInv, FreshInv
  <2>2. ~(idx \in obj.cancel /\ ~isTerminalVMPhase(obj.vms[idx]))
    BY <2>1 DEF VMStep, isTerminalVMPhase, TerminalVMPhases
  <2>3. VMForward(obj.vms[idx], mem.vms[idx])
    BY <2>1, <2>2 DEF VMStep
  <2>4. VMForward(obj.vms[idx], q)
    BY <2>3, ForwardTransitive
  <2> QED
    BY <2>2, <2>4 DEF VMStep
<1>6. /\ mem'.exists = mem.exists /\ mem'.deleting = mem.deleting
      /\ mem'.finalizer = mem.finalizer /\ mem'.cancel = mem.cancel
  BY DEF IInv, TypeOK, Objects
<1>7. FreshInv'
  BY <1>5, <1>6 DEF IInv, FreshInv, VMStep
<1> QED
  BY <1>1, <1>3, <1>4, <1>7

LEMMA NewObjectFacts ==
  NewObject \in Objects /\ Sane(NewObject) /\ ActiveVMs(NewObject) = {}
<1>1. NewObject \in Objects
  BY DEF NewObject, Objects, MigrationPhaseSet, VMPhases
<1>2. ActiveVMs(NewObject) = {}
  BY DEF NewObject, ActiveVMs
<1>3. Cardinality(ActiveVMs(NewObject)) <= Limit
  BY <1>2, FS_EmptySet, LimitNat
<1>4. NewObject.phase # "Running"
  BY DEF NewObject
<1> QED
  BY <1>1, <1>2, <1>3, <1>4 DEF Sane

LEMMA InitIInv == Init => IInv
<1> SUFFICES ASSUME Init PROVE IInv
  OBVIOUS
<1>1. idx \in 1 .. N + 1 /\ activeCount \in Nat
  BY NAssumption DEF Init
<1>2. TypeOK
  BY <1>1, NewObjectFacts, Zenon DEF Init, TypeOK
<1> QED
  BY <1>2, NewObjectFacts DEF Init, IInv, FlagsInv, PassInv, FreshInv

\* A write leaves a sane object behind, and no fresh copy.
LEMMA WriteFacts ==
  ASSUME IInv, NEW o \in Objects, Sane(o), Write(o),
         UNCHANGED <<planType, pc, passVars>>, queued' \in BOOLEAN
  PROVE  IInv'
<1>1. TypeOK'
  BY Zenon DEF IInv, TypeOK, Write, passVars
<1>2. Sane(obj)' /\ Sane(cache)'
  BY DEF IInv, Sane, Write, ActiveVMs
<1>3. FlagsInv' /\ FreshInv'
  BY DEF FlagsInv, FreshInv, Write
<1>4. PassInv'
  BY DEF IInv, PassInv, passVars, ActiveVMs
<1> QED
  BY <1>1, <1>2, <1>3, <1>4 DEF IInv

\* A change of the object that leaves phase and VMs alone.
LEMMA SameProgressSane ==
  ASSUME NEW o, NEW p, Sane(o), p.vms = o.vms,
         p.phase = "Running" => o.phase = "Running"
  PROVE  Sane(p)
<1>1. ActiveVMs(p) = ActiveVMs(o)
  BY DEF ActiveVMs
<1> QED
  BY <1>1 DEF Sane

----------------------------------------------------------------------------
(* Every step preserves the invariant.                                     *)

LEMMA UserStepIInv ==
  ASSUME IInv, Environment \/ Deliver
  PROVE  IInv'
<1>1. ASSUME NEW v \in VMs, CancelVM(v) PROVE IInv'
  <2> DEFINE o == [obj EXCEPT !.cancel = @ \cup {v}]
  <2>1. o \in Objects /\ o.vms = obj.vms /\ o.phase = obj.phase
    BY DEF IInv, TypeOK, Objects
  <2>2. Sane(o)
    BY <2>1, SameProgressSane, Zenon DEF IInv
  <2> QED
    BY <1>1, <2>1, <2>2, WriteFacts DEF CancelVM, IInv, TypeOK
<1>2. ASSUME RequestDelete PROVE IInv'
  <2> DEFINE o == [obj EXCEPT !.deleting = TRUE, !.exists = obj.finalizer]
  <2>1. o \in Objects /\ o.vms = obj.vms /\ o.phase = obj.phase
    BY Zenon DEF IInv, TypeOK, Objects
  <2>2. Sane(o)
    BY <2>1, SameProgressSane, Zenon DEF IInv
  <2> QED
    BY <1>2, <2>1, <2>2, WriteFacts DEF RequestDelete, IInv, TypeOK
<1>3. ASSUME PatchObject PROVE IInv'
  BY <1>3, WriteFacts, Zenon DEF PatchObject, IInv, TypeOK
<1>4. ASSUME EditPlanType PROVE IInv'
  BY <1>4, Zenon DEF EditPlanType, IInv, TypeOK, Sane, FlagsInv, PassInv,
    FreshInv, VMStep, ActiveVMs, Reconcilable, passVars
<1>5. ASSUME Crash PROVE IInv'
  <2>0. 1 \in 1 .. N + 1 /\ 0 \in Nat
    BY NAssumption
  <2>1. TypeOK'
    BY <1>5, <2>0, NewObjectFacts, Zenon DEF Crash, EndPass, IInv, TypeOK
  <2>2. Sane(obj)' /\ Sane(cache)'
    BY <1>5, Zenon DEF Crash, IInv, Sane, ActiveVMs
  <2> QED
    BY <1>5, <2>1, <2>2, NewObjectFacts DEF Crash, EndPass, IInv, FlagsInv,
      PassInv, FreshInv
<1>6. ASSUME Deliver PROVE IInv'
  <2>1. TypeOK'
    BY <1>6, Zenon DEF Deliver, IInv, TypeOK, passVars
  <2>2. Sane(obj)' /\ Sane(cache)'
    BY <1>6, Zenon DEF Deliver, IInv, Sane, ActiveVMs
  <2>3. FlagsInv' /\ PassInv' /\ FreshInv'
    BY <1>6 DEF Deliver, IInv, FlagsInv, PassInv, FreshInv, VMStep,
      ActiveVMs, Reconcilable, passVars
  <2> QED
    BY <2>1, <2>2, <2>3 DEF IInv
<1> QED
  BY <1>1, <1>2, <1>3, <1>4, <1>5, <1>6 DEF Environment

LEMMA ReconcileIInv ==
  ASSUME IInv,
         \/ ReconcileNothing \/ AddFinalizer \/ handleDeletion
         \/ setMigrationFailed \/ BeginPass
  PROVE  IInv'
<1>1. ASSUME ReconcileNothing PROVE IInv'
  <2>1. TypeOK'
    BY <1>1, Zenon DEF ReconcileNothing, IInv, TypeOK, passVars, apiVars
  <2> QED
    BY <1>1, <2>1 DEF ReconcileNothing, IInv, FlagsInv, PassInv, FreshInv,
      Sane, VMStep, ActiveVMs, Reconcilable, passVars, apiVars
<1>2. ASSUME AddFinalizer PROVE IInv'
  <2> DEFINE o == [cache EXCEPT !.finalizer = TRUE]
  <2>1. o \in Objects /\ o.vms = cache.vms /\ o.phase = cache.phase
    BY Zenon DEF IInv, TypeOK, Objects
  <2>2. Sane(o)
    BY <2>1, SameProgressSane, Zenon DEF IInv
  <2> QED
    BY <1>2, <2>1, <2>2, WriteFacts DEF AddFinalizer, IInv, TypeOK
<1>3. ASSUME handleDeletion PROVE IInv'
  <2> DEFINE o == [cache EXCEPT !.finalizer = FALSE, !.exists = FALSE]
  <2>1. o \in Objects /\ o.vms = cache.vms /\ o.phase = cache.phase
    BY Zenon DEF IInv, TypeOK, Objects
  <2>2. Sane(o)
    BY <2>1, SameProgressSane, Zenon DEF IInv
  <2> QED
    BY <1>3, <2>1, <2>2, WriteFacts, Zenon DEF handleDeletion
<1>4. ASSUME setMigrationFailed PROVE IInv'
  <2> DEFINE o == [cache EXCEPT !.phase = "Failed"]
  <2>1. o \in Objects /\ o.vms = cache.vms /\ o.phase = "Failed"
    BY DEF IInv, TypeOK, Objects, MigrationPhaseSet, TerminalMigrationPhases
  <2>2. Sane(o)
    BY <2>1, SameProgressSane, Zenon DEF IInv
  <2> QED
    BY <1>4, <2>1, <2>2, WriteFacts, Zenon DEF setMigrationFailed
<1>5. ASSUME BeginPass PROVE IInv'
  <2>1. /\ mem' = processCancellations(initializeVMStatuses(cache))
        /\ cache \in Objects /\ Sane(cache) /\ Reconcilable(cache)
    BY <1>5 DEF BeginPass, IInv, TypeOK
  <2>2. /\ mem' \in Objects
        /\ mem'.phase = "Running"
        /\ mem'.exists = cache.exists /\ mem'.deleting = cache.deleting
        /\ mem'.finalizer = cache.finalizer /\ mem'.cancel = cache.cancel
        /\ \A v \in VMs :
             /\ mem'.vms[v] # "None"
             /\ IF v \in cache.cancel /\ ~isTerminalVMPhase(cache.vms[v])
                  THEN mem'.vms[v] = "Cancelled"
                  ELSE \/ mem'.vms[v] = cache.vms[v]
                       \/ cache.vms[v] = "None" /\ mem'.vms[v] = "Pending"
        /\ Cardinality(ActiveVMs(mem')) <= Limit
    BY <2>1, BeginFacts
  <2>3. activeCount' = Cardinality(ActiveVMs(mem')) /\ activeCount' \in Nat
    BY <1>5, ActiveFinite DEF BeginPass
  <2>0. 1 \in 1 .. N + 1
    BY NAssumption
  <2>4. TypeOK'
    BY <1>5, <2>0, <2>2, <2>3, Zenon DEF BeginPass, IInv, TypeOK, apiVars
  <2>5. Sane(obj)' /\ Sane(cache)' /\ FlagsInv'
    BY <1>5, Zenon DEF BeginPass, IInv, Sane, FlagsInv, ActiveVMs, apiVars
  <2>6. PassInv'
    BY <1>5, <2>2, <2>3, LimitNat DEF BeginPass, PassInv
  <2>7. ASSUME memFresh' PROVE FreshInv'
    <3>1. cache = obj /\ obj' = obj
      BY <1>5, <2>7 DEF BeginPass, IInv, FlagsInv, apiVars
    <3>2. VMForward("None", "Pending")
      BY DEF VMForward, Rank, isTerminalVMPhase, TerminalVMPhases
    <3>3. \A v \in VMs : VMStep(v, mem'.vms[v])
      BY <2>2, <3>1, <3>2 DEF VMStep, VMForward
    <3> QED
      BY <2>1, <2>2, <3>1, <3>3, Zenon DEF FreshInv, VMStep, Reconcilable
  <2> QED
    BY <2>4, <2>5, <2>6, <2>7, Zenon DEF IInv, FreshInv
<1> QED
  BY <1>1, <1>2, <1>3, <1>4, <1>5, Zenon

LEMMA AdvanceIInv ==
  ASSUME IInv,
         \/ SkipTerminal \/ SkipPending \/ StartPending
         \/ PhaseCompleted \/ PhaseWaits \/ PhaseFailed
  PROVE  IInv'
<1>1. ASSUME SkipTerminal \/ SkipPending \/ PhaseWaits PROVE IInv'
  <2>0. idx' \in 1 .. N + 1
    BY <1>1, NAssumption DEF SkipTerminal, SkipPending, PhaseWaits, AtPhase,
      AtVM, VMs
  <2>1. UNCHANGED <<obj, cache, cacheFresh, planType, queued, pc, mem,
                    memFresh, passType, activeCount>>
    BY <1>1, Zenon DEF SkipTerminal, SkipPending, PhaseWaits, apiVars
  <2>2. needsRequeue' \in BOOLEAN
    BY <1>1, Zenon DEF SkipTerminal, SkipPending, PhaseWaits, IInv, TypeOK
  <2>3. TypeOK'
    BY <2>0, <2>1, <2>2 DEF IInv, TypeOK
  <2> QED
    BY <2>1, <2>3, Zenon DEF IInv, FlagsInv, PassInv, FreshInv, Sane, VMStep,
      ActiveVMs, Reconcilable
<1>2. ASSUME StartPending PROVE IInv'
  <2>1. /\ pc = "pass" /\ idx \in VMs /\ mem.vms[idx] = "Pending"
        /\ mem' = [mem EXCEPT !.vms[idx] = "PreHook"]
        /\ UNCHANGED <<obj, cache, cacheFresh, planType, queued, pc,
                       memFresh, passType, idx, needsRequeue>>
    BY <1>2 DEF StartPending, AtVM, apiVars
  <2>2. /\ "PreHook" \in VMPhases
        /\ ~isTerminalVMPhase("Pending")
        /\ VMForward("Pending", "PreHook")
    BY DEF VMPhases, ActiveVMPhases, VMForward, Rank, isTerminalVMPhase,
      TerminalVMPhases
  <2>3. /\ mem' \in Objects
        /\ mem'.phase = "Running"
        /\ \A v \in VMs : mem'.vms[v] # "None"
        /\ ActiveVMs(mem') \subseteq ActiveVMs(mem) \cup {idx}
        /\ FreshInv'
    BY <2>1, <2>2, MoveFacts, Zenon
  <2>4. Cardinality(ActiveVMs(mem')) <= Cardinality(ActiveVMs(mem)) + 1
    BY <2>3, ActiveGrowsByOne
  <2>5. /\ activeCount' \in Nat /\ activeCount' <= Limit
        /\ Cardinality(ActiveVMs(mem')) <= activeCount'
    BY <1>2, <2>1, <2>4, ActiveFinite, LimitNat DEF StartPending, IInv,
      TypeOK, PassInv
  <2>6. TypeOK'
    BY <2>1, <2>3, <2>5 DEF IInv, TypeOK
  <2>7. PassInv'
    BY <2>1, <2>3, <2>5 DEF PassInv
  <2> QED
    BY <2>1, <2>3, <2>6, <2>7 DEF IInv, FlagsInv, Sane, ActiveVMs
<1>3. ASSUME PhaseCompleted \/ PhaseFailed PROVE IInv'
  <2>1. /\ pc = "pass" /\ idx \in VMs
        /\ mem.vms[idx] \in ActiveVMPhases /\ idx \in ActiveVMs(mem)
    BY <1>3, AtPhaseFacts DEF PhaseCompleted, PhaseFailed
  <2>2. UNCHANGED <<obj, cache, cacheFresh, planType, queued, pc, memFresh,
                    passType, idx, activeCount, needsRequeue>>
    BY <1>3 DEF PhaseCompleted, PhaseFailed, apiVars
  <2>3. ~isTerminalVMPhase(mem.vms[idx])
    BY <2>1 DEF ActiveVMPhases, isTerminalVMPhase, TerminalVMPhases
  <2>4. PICK q \in VMPhases :
          /\ q \notin {"None", "Cancelled"}
          /\ VMForward(mem.vms[idx], q)
          /\ mem' = [mem EXCEPT !.vms[idx] = q]
    <3>1. CASE PhaseCompleted
      <4>1. passType \in MigrationTypes
        BY PlanTypesAssumption DEF IInv, TypeOK
      <4> QED
        BY <2>1, <2>3, <3>1, <4>1, NextPhaseClimbs DEF PhaseCompleted,
          VMForward
    <3>2. CASE PhaseFailed
      <4>1. VMForward(mem.vms[idx], "Failed")
        BY <2>1, <2>3 DEF VMForward, Rank, ActiveVMPhases
      <4> QED
        BY <3>2, <4>1, Zenon DEF PhaseFailed, VMPhases, TerminalVMPhases
    <3> QED
      BY <1>3, <3>1, <3>2
  <2>5. /\ mem' \in Objects
        /\ mem'.phase = "Running"
        /\ \A v \in VMs : mem'.vms[v] # "None"
        /\ ActiveVMs(mem') \subseteq ActiveVMs(mem) \cup {idx}
        /\ FreshInv'
    BY <2>1, <2>2, <2>3, <2>4, MoveFacts
  <2>6. Cardinality(ActiveVMs(mem')) <= Cardinality(ActiveVMs(mem))
    BY <2>1, <2>5, ActiveShrinks, Zenon
  <2>7. Cardinality(ActiveVMs(mem')) <= activeCount'
    BY <2>1, <2>2, <2>6, ActiveFinite DEF IInv, TypeOK, PassInv
  <2>8. TypeOK'
    BY <2>2, <2>5, Zenon DEF IInv, TypeOK
  <2>9. PassInv'
    BY <2>1, <2>2, <2>5, <2>7 DEF IInv, PassInv
  <2> QED
    BY <2>2, <2>5, <2>8, <2>9, Zenon DEF IInv, FlagsInv, Sane, ActiveVMs
<1> QED
  BY <1>1, <1>2, <1>3, Zenon

\* What SaveStatus writes.
LEMMA SaveFacts ==
  ASSUME IInv, SaveStatus
  PROVE  obj' \in Objects /\ Sane(obj') /\ obj'.vms = mem.vms
<1>1. mem \in Objects /\ pc = "pass"
  BY Zenon DEF IInv, TypeOK, SaveStatus, PassDone
<1>2. /\ \A v \in VMs : mem.vms[v] # "None"
      /\ Cardinality(ActiveVMs(mem)) <= Limit
  BY <1>1, ActiveFinite, LimitNat DEF IInv, TypeOK, PassInv
<1>3. obj' = updateOverallStatus(mem)
  BY Zenon DEF SaveStatus
<1> QED
  BY <1>1, <1>2, <1>3, OverallStatusFacts DEF Objects

LEMMA EndIInv ==
  ASSUME IInv, SaveStatus \/ LoseStatus
  PROVE  IInv'
<1>0. 1 \in 1 .. N + 1 /\ 0 \in Nat
  BY NAssumption
<1>1. UNCHANGED cache /\ EndPass /\ memFresh' = FALSE
  BY DEF SaveStatus, LoseStatus
<1>2. obj' \in Objects /\ Sane(obj')
  BY SaveFacts DEF LoseStatus, IInv, TypeOK
<1>3. \/ cacheFresh' = FALSE
      \/ cacheFresh' = cacheFresh /\ obj' = obj
  BY DEF SaveStatus, LoseStatus
<1>4. queued' \in BOOLEAN
  BY Zenon DEF SaveStatus, LoseStatus, IInv, TypeOK
<1>5. TypeOK'
  BY <1>0, <1>1, <1>2, <1>3, <1>4, NewObjectFacts, Zenon DEF EndPass, IInv, TypeOK
<1>6. Sane(cache)'
  BY <1>1 DEF IInv, Sane, ActiveVMs
<1> QED
  BY <1>1, <1>2, <1>3, <1>5, <1>6, NewObjectFacts DEF EndPass, IInv,
    FlagsInv, PassInv, FreshInv

LEMMA NextIInv == IInv /\ [Next]_vars => IInv'
<1> SUFFICES ASSUME IInv, [Next]_vars PROVE IInv'
  OBVIOUS
<1>1. CASE Environment \/ Deliver
  BY <1>1, UserStepIInv
<1>2. CASE Controller
  BY <1>2, ReconcileIInv, AdvanceIInv, EndIInv DEF Controller
<1>3. CASE UNCHANGED vars
  BY <1>3, Zenon DEF vars, IInv, TypeOK, Sane, FlagsInv, PassInv, FreshInv,
    VMStep, ActiveVMs, Reconcilable
<1> QED
  BY <1>1, <1>2, <1>3 DEF Next

LEMMA Invariance == Spec => []IInv
  BY InitIInv, NextIInv, PTL DEF Spec

----------------------------------------------------------------------------
(* The theorems.                                                           *)

\* Every variable of the controller keeps its type, whatever the number of
\* VMs and whatever is disturbed.
THEOREM TypeCorrect == Spec => []TypeOK
<1>1. IInv => TypeOK
  BY DEF IInv
<1> QED
  BY <1>1, Invariance, PTL

\* advanceVMs respects maxInFlight in the saved object and in the copy it
\* works on, for every number of VMs, every limit, and every interleaving of
\* cancellations, conflicts, stale reads and crashes.
THEOREM InFlightSafe == Spec => []InFlightBounded
<1>1. IInv => InFlightBounded
  <2> SUFFICES ASSUME IInv PROVE InFlightBounded
    BY Zenon
  <2>1. CASE pc = "idle"
    <3>1. Cardinality(ActiveVMs(mem)) = 0
      BY <2>1, FS_EmptySet, Zenon DEF IInv, PassInv
    <3> QED
      BY <3>1, LimitNat DEF IInv, Sane, InFlightBounded
  <2>2. CASE pc = "pass"
    BY <2>2, ActiveFinite, LimitNat DEF IInv, TypeOK, Sane, PassInv,
      InFlightBounded
  <2> QED
    BY <2>1, <2>2 DEF IInv, TypeOK
<1> QED
  BY <1>1, Invariance, PTL

----------------------------------------------------------------------------
(* The controller implements the lifecycle.                                *)

LEMMA SaveIsLSave ==
  ASSUME IInv, SaveStatus
  PROVE  LSave(mem.vms) /\ mem.vms \in [VMs -> VMPhases]
<1>1. /\ mem \in Objects /\ obj \in Objects
      /\ Reconcilable(obj)
      /\ mem.exists = obj.exists /\ mem.deleting = obj.deleting
      /\ mem.finalizer = obj.finalizer /\ mem.cancel = obj.cancel
      /\ \A v \in VMs : VMStep(v, mem.vms[v])
  BY DEF IInv, TypeOK, FreshInv, SaveStatus
<1> DEFINE o == [obj EXCEPT !.vms = mem.vms]
<1>2. /\ o.vms = mem.vms
      /\ \A p \in MigrationPhaseSet :
           [mem EXCEPT !.phase = p] = [o EXCEPT !.phase = p]
  BY <1>1, Zenon DEF Objects
<1> HIDE DEF o
<1>3. updateOverallStatus(mem) = updateOverallStatus(o)
  BY <1>2 DEF updateOverallStatus, MigrationPhaseSet,
    TerminalMigrationPhases
<1>4. obj' = updateOverallStatus(o)
  BY <1>3 DEF SaveStatus
<1>5. Cardinality(ActiveVMs(obj')) <= Limit
  BY SaveFacts DEF Sane
<1> QED
  BY <1>1, <1>4, <1>5, Zenon DEF LSave, o, Objects

LEMMA StepRefines == IInv /\ [Next]_vars => [LNext]_obj
<1> SUFFICES ASSUME IInv, [Next]_vars PROVE LNext \/ UNCHANGED obj
  OBVIOUS
<1>1. ASSUME NEW v \in VMs, CancelVM(v) PROVE LNext
  BY <1>1 DEF CancelVM, UserMayWrite, Write, LNext, LCancel
<1>2. CASE RequestDelete
  BY <1>2 DEF RequestDelete, UserMayWrite, Write, LNext, LDelete
<1>3. CASE PatchObject
  BY <1>3 DEF PatchObject, Write
<1>4. CASE AddFinalizer
  BY <1>4 DEF AddFinalizer, Write, IInv, FlagsInv, LNext, LProtect
<1>5. CASE handleDeletion
  BY <1>5 DEF handleDeletion, Write, IInv, FlagsInv, LNext, LRelease
<1>6. CASE setMigrationFailed
  BY <1>6 DEF setMigrationFailed, Write, IInv, FlagsInv, LNext, LGiveUp
<1>7. CASE SaveStatus
  BY <1>7, SaveIsLSave, Zenon DEF LNext
<1>8. CASE \/ EditPlanType \/ Crash \/ Deliver \/ ReconcileNothing
           \/ BeginPass \/ SkipTerminal \/ SkipPending \/ StartPending
           \/ PhaseCompleted \/ PhaseWaits \/ PhaseFailed \/ LoseStatus
           \/ UNCHANGED vars
  BY <1>8 DEF EditPlanType, Crash, Deliver, ReconcileNothing, BeginPass,
    SkipTerminal, SkipPending, StartPending, PhaseCompleted, PhaseWaits,
    PhaseFailed, LoseStatus, apiVars, vars
<1> QED
  BY <1>1, <1>2, <1>3, <1>4, <1>5, <1>6, <1>7, <1>8 DEF Next, Environment,
    Controller

\* The reconciler, with its stale cache, its private copy and its optimistic
\* writes, implements the abstract lifecycle: each accepted write is one
\* legal step of the object.
THEOREM ImplementsLifecycle == Spec => LSpec
<1>1. Init => LInit
  BY DEF Init, LInit
<1> QED
  BY <1>1, StepRefines, Invariance, PTL DEF Spec, LSpec

----------------------------------------------------------------------------
(* Action properties, from the lifecycle.                                  *)

\* A Migration that is Running has the finalizer.
Protected == obj.exists /\ obj.phase = "Running" => obj.finalizer

\* A step of the lifecycle, field by field.
LEMMA LifecycleStep ==
  ASSUME obj \in Objects, LNext \/ UNCHANGED obj
  PROVE  /\ \A v \in VMs : VMForward(obj.vms[v], obj'.vms[v])
         /\ isTerminalMigrationPhase(obj.phase) =>
              obj'.phase = obj.phase /\ obj'.vms = obj.vms
         /\ \A v \in obj.cancel :
              ~isTerminalVMPhase(obj.vms[v]) =>
                obj'.vms[v] \in {obj.vms[v], "Cancelled"}
         /\ Protected /\ obj.exists /\ obj.phase = "Running" => obj'.exists
         /\ Protected => Protected'
<1> USE DEF VMForward, Protected
<1>0. obj \in Objects
  BY Zenon
<1>1. CASE UNCHANGED obj
  BY <1>1
<1>2. ASSUME NEW v \in VMs, LCancel(v)
      PROVE  /\ obj'.vms = obj.vms /\ obj'.phase = obj.phase
             /\ obj'.exists = obj.exists /\ obj'.finalizer = obj.finalizer
  BY <1>0, <1>2, Zenon DEF LCancel, Objects
<1>3. CASE LDelete
  BY <1>0, <1>3 DEF LDelete, Objects
<1>4. CASE LProtect
  BY <1>0, <1>4 DEF LProtect, Objects
<1>5. CASE LRelease
  BY <1>0, <1>5 DEF LRelease, Objects
<1>6. CASE LGiveUp
  BY <1>0, <1>6 DEF LGiveUp, Objects, Reconcilable
<1>7. ASSUME NEW w \in [VMs -> VMPhases], LSave(w)
      PROVE  /\ obj'.vms = w /\ ~isTerminalMigrationPhase(obj.phase)
             /\ obj.exists /\ obj.finalizer /\ obj'.exists /\ obj'.finalizer
             /\ \A v \in VMs : /\ VMForward(obj.vms[v], w[v])
                               /\ VMStep(v, w[v])
  <2>1. /\ obj'.vms = w /\ obj'.exists = obj.exists
        /\ obj'.finalizer = obj.finalizer
    BY <1>0, <1>7 DEF LSave, updateOverallStatus, Objects
  <2>2. ASSUME NEW v \in VMs PROVE VMForward(obj.vms[v], w[v])
    <3>1. ASSUME ~isTerminalVMPhase(obj.vms[v])
          PROVE  Rank(obj.vms[v]) < Rank("Cancelled")
      BY <1>0, <3>1 DEF Objects, VMPhases, ActiveVMPhases, Rank,
        isTerminalVMPhase
    <3> QED
      BY <1>7, <3>1, Zenon DEF LSave, VMStep
  <2> QED
    BY <1>7, <2>1, <2>2, Zenon DEF LSave, Reconcilable
<1>8. obj.cancel \subseteq VMs
  BY <1>0 DEF Objects
<1> QED
  BY <1>0, <1>1, <1>2, <1>3, <1>4, <1>5, <1>6, <1>7, <1>8, Zenon DEF LNext, VMStep

\* No save takes a VM back, and a terminal Migration never changes, for any
\* mix of stale reads, conflicts, crashes and edits.
THEOREM StatusAdvances == Spec => StatusOnlyAdvances
<1>1. IInv /\ [Next]_vars =>
        /\ \A v \in VMs : VMForward(obj.vms[v], obj.vms[v]')
        /\ isTerminalMigrationPhase(obj.phase) =>
             obj.phase' = obj.phase /\ obj.vms' = obj.vms
  BY StepRefines, LifecycleStep DEF IInv, TypeOK
<1> QED
  BY <1>1, Invariance, PTL DEF Spec, StatusOnlyAdvances

\* A cancellation, once in the object, is never overtaken by a pass that had
\* not seen it.
THEOREM CancellationWins == Spec => CancelWins
<1>1. IInv /\ [Next]_vars =>
        \A v \in obj.cancel :
          ~isTerminalVMPhase(obj.vms[v]) =>
            obj.vms[v]' \in {obj.vms[v], "Cancelled"}
  BY StepRefines, LifecycleStep DEF IInv, TypeOK
<1> QED
  BY <1>1, Invariance, PTL DEF Spec, CancelWins

\* The finalizer does its work: the object of a Running Migration does not
\* go away, whoever deletes it and whenever.
THEOREM RunningIsProtected == Spec => FinalizerHolds
<1>1. Init => Protected
  <2>1. NewObject.phase # "Running"
    BY DEF NewObject
  <2> QED
    BY <2>1, Zenon DEF Init, Protected
<1>2. IInv /\ Protected /\ [Next]_vars =>
        /\ Protected'
        /\ obj.exists /\ obj.phase = "Running" => obj'.exists
  BY StepRefines, LifecycleStep, Zenon DEF IInv, TypeOK
<1> QED
  BY <1>1, <1>2, Invariance, PTL DEF Spec, FinalizerHolds

\* What updateOverallStatus writes agrees with the VMs.
LEMMA DerivedPhaseAgrees ==
  ASSUME NEW o \in Objects, obj' = updateOverallStatus(o)
  PROVE  OverallStatusAgrees'
<1>1. /\ obj'.vms = o.vms
      /\ obj'.phase = IF \E v \in VMs : ~isTerminalVMPhase(o.vms[v]) THEN "Running"
                      ELSE IF \A v \in VMs : o.vms[v] = "Cancelled" THEN "Cancelled"
                      ELSE IF \E v \in VMs : o.vms[v] = "Failed" THEN "Failed"
                      ELSE "Completed"
  BY DEF updateOverallStatus, Objects
<1> QED
  BY <1>1 DEF OverallStatusAgrees, isTerminalVMPhase, TerminalVMPhases

\* Completed, Cancelled and Running are reported only of VMs that justify it:
\* only updateOverallStatus derives them, from the VMs it saves with them, and
\* no later write changes one without the other.
THEOREM StatusAgrees == Spec => []OverallStatusAgrees
<1>1. Init => OverallStatusAgrees
  <2>1. NewObject.phase = ""
    BY DEF NewObject
  <2> QED
    BY <2>1 DEF Init, OverallStatusAgrees
<1>2. IInv /\ OverallStatusAgrees /\ [Next]_vars => OverallStatusAgrees'
  <2> SUFFICES ASSUME IInv, OverallStatusAgrees, [Next]_vars
               PROVE  OverallStatusAgrees'
    OBVIOUS
  <2>1. obj \in Objects
    BY DEF IInv, TypeOK
  <2>2. LNext \/ UNCHANGED obj
    BY StepRefines, Zenon
  <2>3. ASSUME obj'.vms = obj.vms, obj'.phase \in {obj.phase, "Failed"}
        PROVE  OverallStatusAgrees'
    BY <2>3 DEF OverallStatusAgrees
  <2>4. CASE UNCHANGED obj
    BY <2>3, <2>4
  <2>5. ASSUME NEW v \in VMs, LCancel(v) PROVE OverallStatusAgrees'
    BY <2>1, <2>3, <2>5 DEF LCancel, Objects
  <2>6. CASE LDelete \/ LProtect \/ LRelease \/ LGiveUp
    BY <2>1, <2>3, <2>6, Zenon DEF LDelete, LProtect, LRelease, LGiveUp, Objects
  <2>7. ASSUME NEW w \in [VMs -> VMPhases], LSave(w)
        PROVE  OverallStatusAgrees'
    <3>1. [obj EXCEPT !.vms = w] \in Objects
      BY <2>1 DEF Objects
    <3> QED
      BY <2>7, <3>1, DerivedPhaseAgrees DEF LSave
  <2> QED
    BY <2>2, <2>4, <2>5, <2>6, <2>7 DEF LNext
<1> QED
  BY <1>1, <1>2, Invariance, PTL DEF Spec

----------------------------------------------------------------------------
(* What a VM without validation errors is good for.                        *)

\* A set of numbers that is not empty has a least one.
LEMMA LeastExists ==
  ASSUME NEW S \in SUBSET Nat, S # {}
  PROVE  \E i \in S : \A j \in S : i <= j
<1> DEFINE R == OpToRel(<, Nat)
<1>1. IsWellFoundedOn(R, Nat)
  BY NatLessThanWellFounded
<1>2. \A i, j \in Nat : j < i => <<j, i>> \in R
  BY DEF OpToRel
<1> HIDE DEF R
<1>3. PICK i \in S : \A j \in S : <<j, i>> \notin R
  BY <1>1, WFMin, Zenon
<1>4. ASSUME NEW j \in S
      PROVE  i <= j
  <2>1. i \in Nat /\ j \in Nat /\ ~(j < i)
    BY <1>2, <1>3, Zenon
  <2>2. QED
    BY <2>1
<1>5. QED
  BY <1>4

\* The lookup finds a pair of the map, and one that matches.
LEMMA FirstMatchMatches ==
  ASSUME NEW map, NEW ref, NEW n \in Nat, DOMAIN map = 1 .. n, isMapped(ref, map)
  PROVE  /\ FirstMatch(ref, map) \in DOMAIN map
         /\ Matches(map[FirstMatch(ref, map)], ref)
<1> DEFINE S == {i \in 1 .. n : Matches(map[i], ref)}
<1>1. S # {} /\ S \in SUBSET Nat
  BY DEF isMapped
<1>2. \E i \in S : \A j \in S : i <= j
  BY <1>1, LeastExists, Zenon
<1>3. QED
  BY <1>2, Zenon DEF FirstMatch

\* A validation without errors (HasErrors of what Validate returns) leaves
\* nothing missing that phaseImportDisks, the builder and the importer look
\* up, for any VM, any maps and any cluster, if no read has failed.
THEOREM ValidIsBuildable ==
  ASSUME NEW vm, NEW smap, NEW nmap, NEW ns, NEW cluster,
         NEW m \in Nat, DOMAIN smap = 1 .. m,
         NEW n \in Nat, DOMAIN nmap = 1 .. n,
         cluster.unreadable = {},
         ~HasErrors(Validate(vm, smap, nmap, ns, cluster))
  PROVE  Buildable(vm, smap, nmap, ns, cluster)
<1>1. \A rule, x : Error(rule, x) \notin Validate(vm, smap, nmap, ns, cluster)
  BY Zenon DEF HasErrors, Error
<1>2. ASSUME NEW i \in StoredDisks(vm), ~isMapped(vm.disks[i].ref, smap)
      PROVE  FALSE
  <2>1. Error("storage", vm.disks[i].ref) \in checkUnmappedStorage(vm, smap)
    BY <1>2, Zenon DEF checkUnmappedStorage
  <2>2. QED
    BY <1>1, <2>1 DEF Validate
<1>3. ASSUME NEW i \in WiredNICs(vm), ~isMapped(vm.nics[i].ref, nmap)
      PROVE  FALSE
  <2>1. Error("network", vm.nics[i].ref) \in checkUnmappedNetwork(vm, nmap)
    BY <1>3, Zenon DEF checkUnmappedNetwork
  <2>2. QED
    BY <1>1, <2>1 DEF Validate
<1>4. DataDisks(vm) = StoredDisks(vm)
  BY <1>1, Zenon DEF Validate, checkVolumeGroupDisks, StoredDisks
<1>5. NeededClasses(vm, smap) \subseteq cluster.classes
  BY <1>1, Zenon DEF Validate, checkStorageClasses, NotFound
<1>6. Attachments(vm, nmap, ns) \subseteq cluster.nads
  BY <1>1, Zenon DEF Validate, checkMultusNADs, Unread
<1>7. ns \in cluster.namespaces
  BY <1>1, Zenon DEF Validate, checkNamespace, NotFound
<1>8. {"cdi", "kubevirt"} \subseteq cluster.crds
  BY <1>1, Zenon DEF Validate, checkInstalled, Unread
<1>9. ASSUME NEW i \in DataDisks(vm)
      PROVE  /\ vm.disks[i].stored /\ isMapped(vm.disks[i].ref, smap)
             /\ FindStorageMapping(vm.disks[i], smap) \in cluster.classes
  <2> DEFINE ref == vm.disks[i].ref
             p == FirstMatch(ref, smap)
  <2>1. vm.disks[i].stored /\ isMapped(ref, smap)
    BY <1>2, <1>4, Zenon DEF StoredDisks
  <2>2. p \in DOMAIN smap /\ Matches(smap[p], ref)
    BY <2>1, FirstMatchMatches, Zenon
  <2>3. smap[p].class \in NeededClasses(vm, smap)
    BY <1>4, <2>2, Zenon DEF NeededClasses
  <2>4. QED
    BY <1>5, <2>1, <2>3, Zenon DEF FindStorageMapping
<1>10. ASSUME NEW i \in DOMAIN vm.nics
       PROVE  findNetworkMapping(vm.nics[i], nmap, ns) \subseteq cluster.nads
  BY <1>6 DEF findNetworkMapping, Attachments, WiredNICs, findNetworkDestination
<1>11. QED
  BY <1>3, <1>7, <1>8, <1>9, <1>10, Zenon DEF Buildable

----------------------------------------------------------------------------
(* Types.                                                                  *)

Phases == {"", "Connecting", "Connected", "Validating", "Ready", "Error"}
Stages == {"Idle", "InUse", "Release", "Connecting", "Connected", "Error",
           "Validating", "Unresolved", "Verdict"}

Providers == [exists : BOOLEAN, deleting : BOOLEAN, finalizer : BOOLEAN, phase : Phases]
VMLists == Specs \cup {{}}
Plans == [exists : BOOLEAN, spec : VMLists, generation : Nat, phase : Phases,
          verdict : [generation : Nat, ok : BOOLEAN]]
Controllers(T) ==
  [seen : T, fresh : BOOLEAN, queued : BOOLEAN, timer : BOOLEAN, at : Stages,
   copy : T, current : BOOLEAN]

LEMMA StagesAre ==
  /\ "Idle" \in Stages /\ "InUse" \in Stages /\ "Release" \in Stages
  /\ "Connecting" \in Stages /\ "Connected" \in Stages /\ "Error" \in Stages
  /\ "Validating" \in Stages /\ "Unresolved" \in Stages /\ "Verdict" \in Stages
  BY DEF Stages

\* What the operators on a controller do to it.
LEMMA StageFacts ==
  ASSUME NEW T, NEW c \in Controllers(T), NEW at \in Stages
  PROVE  LET b == [c EXCEPT !.at = at]
         IN  /\ b \in Controllers(T)
             /\ b.seen = c.seen /\ b.fresh = c.fresh /\ b.at = at
             /\ b.copy = c.copy /\ b.current = c.current
  BY DEF Controllers

LEMMA PassOverFacts ==
  ASSUME NEW T, NEW c \in Controllers(T)
  PROVE  /\ PassOver(c) \in Controllers(T)
         /\ PassOver(c).at = "Idle" /\ PassOver(c).current = FALSE
         /\ PassOver(c).seen = c.seen /\ PassOver(c).fresh = c.fresh
  BY Zenon DEF PassOver, Controllers, Stages

LEMMA RequeueFacts ==
  ASSUME NEW T, NEW c \in Controllers(T)
  PROVE  /\ Requeue(c) \in Controllers(T) /\ RequeueAfter(c) \in Controllers(T)
         /\ Requeue(c).at = "Idle" /\ Requeue(c).current = FALSE
         /\ Requeue(c).seen = c.seen /\ Requeue(c).fresh = c.fresh
         /\ RequeueAfter(c).at = "Idle" /\ RequeueAfter(c).current = FALSE
         /\ RequeueAfter(c).seen = c.seen /\ RequeueAfter(c).fresh = c.fresh
<1> DEFINE e == PassOver(c)
<1>1. /\ e \in Controllers(T) /\ e.at = "Idle" /\ e.current = FALSE
      /\ e.seen = c.seen /\ e.fresh = c.fresh
  BY PassOverFacts, Zenon
<1> HIDE DEF e
<1>2. LET r == [e EXCEPT !.queued = TRUE]
      IN  /\ r \in Controllers(T) /\ r.at = e.at /\ r.current = e.current
          /\ r.seen = e.seen /\ r.fresh = e.fresh
  BY <1>1, Zenon DEF Controllers
<1>3. LET r == [e EXCEPT !.timer = TRUE]
      IN  /\ r \in Controllers(T) /\ r.at = e.at /\ r.current = e.current
          /\ r.seen = e.seen /\ r.fresh = e.fresh
  BY <1>1, Zenon DEF Controllers
<1>4. QED
  BY <1>1, <1>2, <1>3 DEF Requeue, RequeueAfter, e

LEMMA WroteFacts ==
  ASSUME NEW T, NEW c \in Controllers(T), NEW o \in T, NEW at \in Stages
  PROVE  /\ Wrote(c, o, at) \in Controllers(T)
         /\ Wrote(c, o, at).at = at /\ Wrote(c, o, at).copy = o
         /\ Wrote(c, o, at).seen = c.seen /\ Wrote(c, o, at).current = c.current
         /\ Wrote(c, o, at).fresh => c.fresh /\ o = c.copy
  BY Zenon DEF Wrote, Controllers

LEMMA OutdatedFacts ==
  ASSUME NEW T, NEW c \in Controllers(T)
  PROVE  /\ Outdated(c) \in Controllers(T)
         /\ Outdated(c).fresh = FALSE /\ Outdated(c).current = FALSE
         /\ Outdated(c).seen = c.seen /\ Outdated(c).at = c.at /\ Outdated(c).copy = c.copy
  BY Zenon DEF Outdated, Controllers

LEMMA DeliveredFacts ==
  ASSUME NEW T, NEW c \in Controllers(T), NEW o \in T
  PROVE  /\ Delivered(c, o) \in Controllers(T)
         /\ Delivered(c, o).seen = o /\ Delivered(c, o).at = c.at
         /\ Delivered(c, o).current = c.current
         /\ c.at # "Idle" => Delivered(c, o).copy = c.copy
  BY Zenon DEF Delivered, Controllers

LEMMA TimerFacts ==
  ASSUME NEW T, NEW c \in Controllers(T)
  PROVE  /\ TimerFired(c) \in Controllers(T)
         /\ TimerFired(c).seen = c.seen /\ TimerFired(c).fresh = c.fresh
         /\ TimerFired(c).at = c.at /\ TimerFired(c).copy = c.copy
         /\ TimerFired(c).current = c.current
  BY Zenon DEF TimerFired, Controllers

LEMMA PickedUpFacts ==
  ASSUME NEW T, NEW c \in Controllers(T)
  PROVE  LET b == [c EXCEPT !.queued = FALSE, !.copy = c.seen, !.current = c.fresh]
         IN  /\ b \in Controllers(T)
             /\ b.seen = c.seen /\ b.fresh = c.fresh /\ b.at = c.at
             /\ b.copy = c.seen /\ b.current = c.fresh
  BY Zenon DEF Controllers

----------------------------------------------------------------------------
(* The invariant.                                                          *)

\* The finalizer.  While a plan holds the provider, a pass that is about to
\* remove the finalizer works on a version from before the deletion.
ProviderInv ==
  /\ held => prov.exists /\ prov.deleting /\ prov.finalizer
  /\ provCtl.fresh => provCtl.seen = prov
  /\ provCtl.current /\ provCtl.at # "Idle" => provCtl.copy = prov
  /\ provCtl.at \in {"InUse", "Release"} => provCtl.copy.deleting /\ provCtl.copy.finalizer
  /\ provCtl.at \in {"Connecting", "Connected", "Error"} => ~provCtl.copy.deleting
  /\ provCtl.at = "Release" => ~(held /\ provCtl.current)

\* The plan.  One that holds the provider is in the operator's cache; a pass
\* that may still save works on the plan as it is; and a verdict is never on a
\* later generation than there is.
Judged(p) == p.verdict.generation <= p.generation

PlanInv ==
  /\ held => plan.exists /\ planCtl.seen.exists /\ ~gone
  /\ planCtl.fresh => planCtl.seen = plan
  /\ planCtl.current /\ planCtl.at # "Idle" => planCtl.copy = plan
  /\ planCtl.at # "Idle" => planCtl.copy.exists /\ Judged(planCtl.copy)
  /\ Judged(plan) /\ Judged(planCtl.seen)

ProviderSide ==
  prov \in Providers /\ provCtl \in Controllers(Providers) /\ ProviderInv

PlanSide ==
  plan \in Plans /\ planCtl \in Controllers(Plans) /\ PlanInv

VerdictSide ==
  /\ read \in [ok : BOOLEAN, sound : BOOLEAN] /\ (read.ok => read.sound)
  /\ ReadyIsBuildable

CatalogInv == ProviderSide /\ PlanSide /\ VerdictSide

----------------------------------------------------------------------------
(* The provider controller.                                                *)

LEMMA StoredFacts ==
  ASSUME NEW p \in Providers
  PROVE  /\ Stored(p) \in Providers
         /\ ~p.deleting \/ p.finalizer => Stored(p) = p
  BY Zenon DEF Stored, NoProvider, Providers, Phases

\* A write by the pass: it changes nothing for a plan that holds the provider.
LEMMA WriteKeepsProvider ==
  ASSUME ProviderSide, OnlyProvider,
         NEW cur, NEW copy \in Providers, NEW next \in Controllers(Providers),
         UpdateProvider(cur, copy, next),
         next.seen = provCtl.seen,
         next.fresh => provCtl.fresh /\ (cur => copy = prov) /\ Stored(copy) = copy,
         next.at # "Idle" => /\ next.at = "Connecting" /\ next.copy = copy
                             /\ ~copy.deleting,
         held /\ cur => copy.exists /\ copy.deleting /\ copy.finalizer
  PROVE  ProviderSide'
<1>1. CASE prov.exists /\ cur
  <2>1. prov' = Stored(copy) /\ provCtl' = next
    BY <1>1, Zenon DEF UpdateProvider
  <2>2. prov' \in Providers /\ (~copy.deleting \/ copy.finalizer => prov' = copy)
    BY <2>1, StoredFacts, Zenon
  <2>3. held' = held
    BY Zenon DEF OnlyProvider
  <2>4. held' => prov'.exists /\ prov'.deleting /\ prov'.finalizer
    BY <1>1, <2>2, <2>3, Zenon
  <2>5. provCtl'.fresh => provCtl'.seen = prov'
    BY <1>1, <2>1, Zenon DEF ProviderSide, ProviderInv
  <2>6. provCtl'.at # "Idle" => /\ provCtl'.copy = prov' /\ provCtl'.at = "Connecting"
                                /\ ~provCtl'.copy.deleting
    BY <2>1, <2>2, Zenon
  <2>7. QED
    BY <2>1, <2>2, <2>4, <2>5, <2>6, Zenon DEF ProviderSide, ProviderInv
<1>2. CASE ~(prov.exists /\ cur)
  <2>1. prov' = prov /\ provCtl' = Requeue(provCtl)
    BY <1>2, Zenon DEF UpdateProvider
  <2>2. /\ provCtl' \in Controllers(Providers) /\ provCtl'.at = "Idle"
        /\ provCtl'.seen = provCtl.seen /\ provCtl'.fresh = provCtl.fresh
    BY <2>1, RequeueFacts, Zenon DEF ProviderSide
  <2>3. QED
    BY <2>1, <2>2, Zenon DEF ProviderSide, ProviderInv, OnlyProvider
<1>3. QED
  BY <1>1, <1>2

\* The first step of a pass: a write is accepted only from the latest version,
\* and that one is not being deleted.
LEMMA BeginProviderKeeps ==
  ASSUME ProviderSide, BeginProvider
  PROVE  ProviderSide'
<1> DEFINE copy == provCtl.seen
           ctl == [provCtl EXCEPT !.queued = FALSE, !.copy = copy, !.current = provCtl.fresh]
           kept == [copy EXCEPT !.finalizer = TRUE]
           connecting == [copy EXCEPT !.phase = "Connecting"]
<1>1. /\ ctl \in Controllers(Providers)
      /\ ctl.seen = copy /\ ctl.fresh = provCtl.fresh /\ ctl.at = provCtl.at
      /\ ctl.copy = copy /\ ctl.current = provCtl.fresh
  BY PickedUpFacts, Zenon DEF ProviderSide
<1>2. copy \in Providers /\ (provCtl.fresh => copy = prov)
  BY DEF ProviderSide, ProviderInv, Controllers
<1>3. kept \in Providers /\ kept.finalizer /\ kept.deleting = copy.deleting
  BY <1>2, Zenon DEF Providers
<1>4. connecting \in Providers /\ connecting.deleting = copy.deleting
  BY <1>2 DEF Providers, Phases
<1>5. OnlyProvider
  BY Zenon DEF BeginProvider
<1>6. held => prov.deleting
  BY DEF ProviderSide, ProviderInv
<1>7. ctl \in Controllers(Providers)
  BY <1>1
<1>8. kept \in Providers /\ connecting \in Providers
  BY <1>3, <1>4, Zenon
<1> HIDE DEF ctl, kept, connecting
<1>9. CASE ~copy.exists /\ provCtl' = PassOver(ctl) /\ UNCHANGED prov
  <2>1. /\ provCtl' \in Controllers(Providers) /\ provCtl'.at = "Idle"
        /\ provCtl'.seen = provCtl.seen /\ provCtl'.fresh = provCtl.fresh
    BY <1>1, <1>9, PassOverFacts, Zenon
  <2>2. QED
    BY <1>5, <1>9, <2>1 DEF ProviderSide, ProviderInv, OnlyProvider
<1>10. CASE /\ copy.deleting /\ copy.finalizer
           /\ provCtl' = [ctl EXCEPT !.at = "InUse"] /\ UNCHANGED prov
  <2>1. /\ provCtl' \in Controllers(Providers) /\ provCtl'.at = "InUse"
        /\ provCtl'.seen = copy /\ provCtl'.fresh = provCtl.fresh
        /\ provCtl'.copy = copy /\ provCtl'.current = provCtl.fresh
    BY <1>1, <1>10, StageFacts, StagesAre
  <2>2. QED
    BY <1>2, <1>5, <1>10, <2>1 DEF ProviderSide, ProviderInv, OnlyProvider
<1>11. CASE /\ copy.exists /\ ~copy.deleting /\ ~copy.finalizer
           /\ UpdateProvider(ctl.current, kept, Requeue(Wrote(ctl, kept, "Idle")))
  <2> DEFINE w == Wrote(ctl, kept, "Idle")
             next == Requeue(w)
  <2>1. /\ w \in Controllers(Providers)
        /\ w.seen = ctl.seen
        /\ w.fresh => kept = ctl.copy
    BY <1>7, <1>8, WroteFacts, StagesAre
  <2> HIDE DEF w
  <2>2. /\ next \in Controllers(Providers) /\ next.at = "Idle"
        /\ next.seen = w.seen /\ next.fresh = w.fresh
    BY <2>1, RequeueFacts, Zenon
  <2>3. held => ~ctl.current
    BY <1>1, <1>2, <1>6, <1>11
  <2> HIDE DEF next
  <2>4. UpdateProvider(ctl.current, kept, next)
    BY <1>11, Zenon DEF next, w
  <2>5. QED
    BY <1>1, <1>3, <1>5, <1>11, <2>1, <2>2, <2>3, <2>4, WriteKeepsProvider, Zenon
<1>12. CASE /\ copy.exists /\ ~copy.deleting /\ copy.finalizer
            /\ UpdateProvider(ctl.current, connecting, Wrote(ctl, connecting, "Connecting"))
  <2> DEFINE next == Wrote(ctl, connecting, "Connecting")
  <2>1. /\ next \in Controllers(Providers) /\ next.at = "Connecting"
        /\ next.seen = ctl.seen /\ next.copy = connecting
        /\ next.fresh => ctl.fresh /\ connecting = ctl.copy
    BY <1>7, <1>8, WroteFacts, StagesAre
  <2>2. held => ~ctl.current
    BY <1>1, <1>2, <1>6, <1>12, Zenon
  <2>3. Stored(connecting) = connecting
    BY <1>4, <1>12, StoredFacts
  <2> HIDE DEF next
  <2>4. UpdateProvider(ctl.current, connecting, next)
    BY <1>12 DEF next
  <2>5. QED
    BY <1>1, <1>2, <1>4, <1>5, <1>12, <2>1, <2>2, <2>3, <2>4, WriteKeepsProvider, Zenon
<1>13. QED
  BY <1>9, <1>10, <1>11, <1>12 DEF BeginProvider, ctl, kept, connecting

\* The look at the plans finds the one that holds the provider.
LEMMA InUseKeeps ==
  ASSUME ProviderSide, PlanSide, isProviderInUse
  PROVE  ProviderSide'
<1>1. /\ provCtl.at = "InUse" /\ prov' = prov /\ held' = held
      /\ provCtl' = IF planCtl.seen.exists THEN RequeueAfter(provCtl)
                    ELSE [provCtl EXCEPT !.at = "Release"]
  BY DEF isProviderInUse, OnlyProvider
<1>2. provCtl \in Controllers(Providers)
  BY DEF ProviderSide
<1>3. CASE planCtl.seen.exists
  <2>1. /\ provCtl' \in Controllers(Providers) /\ provCtl'.at = "Idle"
        /\ provCtl'.seen = provCtl.seen /\ provCtl'.fresh = provCtl.fresh
    BY <1>1, <1>2, <1>3, RequeueFacts
  <2>2. QED
    BY <1>1, <2>1 DEF ProviderSide, ProviderInv
<1>4. CASE ~planCtl.seen.exists
  <2>1. /\ provCtl' \in Controllers(Providers) /\ provCtl'.at = "Release"
        /\ provCtl'.seen = provCtl.seen /\ provCtl'.fresh = provCtl.fresh
        /\ provCtl'.copy = provCtl.copy /\ provCtl'.current = provCtl.current
    BY <1>1, <1>2, <1>4, StageFacts, StagesAre
  <2>2. ~held
    BY <1>4, Zenon DEF PlanSide, PlanInv
  <2>3. QED
    BY <1>1, <2>1, <2>2 DEF ProviderSide, ProviderInv
<1>5. QED
  BY <1>3, <1>4

\* The finalizer is removed only if no plan holds the provider.
LEMMA RemoveFinalizerKeeps ==
  ASSUME ProviderSide, RemoveFinalizer
  PROVE  ProviderSide'
<1> DEFINE copy == [provCtl.copy EXCEPT !.finalizer = FALSE]
           w == Wrote(provCtl, copy, "Idle")
           next == PassOver(w)
<1>1. provCtl \in Controllers(Providers) /\ provCtl.copy \in Providers
  BY DEF ProviderSide, Controllers
<1>2. copy \in Providers /\ copy # provCtl.copy
  BY <1>1, Zenon DEF RemoveFinalizer, ProviderSide, ProviderInv, Providers
<1> HIDE DEF copy
<1>3. /\ w \in Controllers(Providers) /\ w.seen = provCtl.seen
      /\ w.fresh => copy = provCtl.copy
  BY <1>1, <1>2, WroteFacts, StagesAre
<1> HIDE DEF w
<1>4. /\ next \in Controllers(Providers) /\ next.at = "Idle"
      /\ next.seen = w.seen /\ next.fresh = w.fresh
  BY <1>3, PassOverFacts
<1>5. ~(held /\ provCtl.current)
  BY DEF RemoveFinalizer, ProviderSide, ProviderInv
<1>6. UpdateProvider(provCtl.current, copy, next) /\ OnlyProvider
  BY DEF RemoveFinalizer, copy, w
<1> HIDE DEF next
<1>7. QED
  BY <1>2, <1>3, <1>4, <1>5, <1>6, WriteKeepsProvider, Zenon

\* SaveConnected and setErrorCondition.
LEMMA SavePhaseKeeps ==
  ASSUME ProviderSide, OnlyProvider, NEW phase \in Phases,
         provCtl.at \in {"Connected", "Error"},
         LET copy == [provCtl.copy EXCEPT !.phase = phase]
         IN  UpdateProvider(provCtl.current, copy, RequeueAfter(Wrote(provCtl, copy, "Idle")))
  PROVE  ProviderSide'
<1> DEFINE copy == [provCtl.copy EXCEPT !.phase = phase]
           w == Wrote(provCtl, copy, "Idle")
           next == RequeueAfter(w)
<1>1. /\ provCtl \in Controllers(Providers) /\ provCtl.copy \in Providers
      /\ ~provCtl.copy.deleting /\ (provCtl.current => provCtl.copy = prov)
  BY DEF ProviderSide, ProviderInv, Controllers
<1>2. copy \in Providers /\ ~copy.deleting
  BY <1>1 DEF Providers
<1>3. UpdateProvider(provCtl.current, copy, next)
  OBVIOUS
<1> HIDE DEF copy
<1>4. /\ w \in Controllers(Providers) /\ w.seen = provCtl.seen
      /\ w.fresh => provCtl.fresh /\ copy = provCtl.copy
  BY <1>1, <1>2, WroteFacts, StagesAre
<1> HIDE DEF w
<1>5. /\ next \in Controllers(Providers) /\ next.at = "Idle"
      /\ next.seen = w.seen /\ next.fresh = w.fresh
  BY <1>4, RequeueFacts
<1>6. Stored(copy) = copy
  BY <1>2, StoredFacts
<1>7. ~(held /\ provCtl.current)
  BY <1>1 DEF ProviderSide, ProviderInv
<1> HIDE DEF next
<1>8. QED
  BY <1>1, <1>2, <1>3, <1>4, <1>5, <1>6, <1>7, WriteKeepsProvider

LEMMA ProviderStepKeeps ==
  ASSUME ProviderSide, PlanSide, ProviderPass \/ ProviderSeen \/ ProviderTimer
  PROVE  ProviderSide'
<1>0. provCtl \in Controllers(Providers) /\ prov \in Providers
  BY DEF ProviderSide
<1>1. CASE FetchInventory
  <2>1. PICK at \in {"Connected", "Error"} : provCtl' = [provCtl EXCEPT !.at = at]
    BY <1>1 DEF FetchInventory
  <2>2. at \in Stages
    BY DEF Stages
  <2>3. /\ provCtl' \in Controllers(Providers) /\ provCtl'.at = at
        /\ provCtl'.seen = provCtl.seen /\ provCtl'.fresh = provCtl.fresh
        /\ provCtl'.copy = provCtl.copy /\ provCtl'.current = provCtl.current
    BY <1>0, <2>1, <2>2, StageFacts
  <2>4. QED
    BY <1>1, <2>3 DEF FetchInventory, OnlyProvider, ProviderSide, ProviderInv
<1>2. CASE SaveConnected
  BY <1>2, SavePhaseKeeps DEF SaveConnected, Phases
<1>3. CASE setErrorCondition
  BY <1>3, SavePhaseKeeps, Zenon DEF setErrorCondition, Phases
<1>4. CASE ProviderSeen
  <2>1. /\ provCtl' \in Controllers(Providers) /\ provCtl'.seen = prov
        /\ provCtl'.at = provCtl.at /\ provCtl'.current = provCtl.current
        /\ provCtl.at # "Idle" => provCtl'.copy = provCtl.copy
    BY <1>0, <1>4, DeliveredFacts DEF ProviderSeen
  <2>2. QED
    BY <1>4, <2>1, Zenon DEF ProviderSeen, OnlyProvider, ProviderSide, ProviderInv
<1>5. CASE ProviderTimer
  <2>1. /\ provCtl' \in Controllers(Providers)
        /\ provCtl'.seen = provCtl.seen /\ provCtl'.fresh = provCtl.fresh
        /\ provCtl'.at = provCtl.at /\ provCtl'.copy = provCtl.copy
        /\ provCtl'.current = provCtl.current
    BY <1>0, <1>5, TimerFacts, Zenon DEF ProviderTimer
  <2>2. QED
    BY <1>5, <2>1, Zenon DEF ProviderTimer, OnlyProvider, ProviderSide, ProviderInv
<1>6. QED
  BY <1>1, <1>2, <1>3, <1>4, <1>5, BeginProviderKeeps, InUseKeeps,
    RemoveFinalizerKeeps DEF ProviderPass

----------------------------------------------------------------------------
(* The plan controller.                                                    *)

LEMMA ZeroLeast == \A n \in Nat : 0 <= n
  OBVIOUS

LEMMA NewPlanFacts ==
  ASSUME NEW e \in BOOLEAN, NEW s \in VMLists, NEW g \in Nat, NEW p,
         p = [exists |-> e, spec |-> s, generation |-> g, phase |-> "", verdict |-> NoVerdict]
  PROVE  p \in Plans /\ p.exists = e /\ p.phase = "" /\ Judged(p)
<1>1. NoVerdict \in [generation : Nat, ok : BOOLEAN] /\ NoVerdict.generation = 0
  BY Zenon DEF NoVerdict
<1>2. "" \in Phases
  BY Zenon DEF Phases
<1>3. p \in Plans /\ p.exists = e /\ p.phase = ""
  BY <1>1, <1>2, Zenon DEF Plans
<1>4. p.verdict = NoVerdict /\ p.generation = g
  BY Zenon
<1>5. 0 <= g
  BY ZeroLeast, Zenon
<1>6. NoVerdict.generation <= g
  BY <1>1, <1>5, Zenon
<1>7. Judged(p)
  BY <1>4, <1>6, Zenon DEF Judged
<1>8. QED
  BY <1>3, <1>7, Zenon

LEMMA NoPlanFacts == NoPlan \in Plans /\ NoPlan.phase = "" /\ Judged(NoPlan)
<1>1. NoPlan = [exists |-> FALSE, spec |-> {}, generation |-> 0, phase |-> "",
                verdict |-> NoVerdict]
  BY DEF NoPlan
<1>2. {} \in VMLists /\ 0 \in Nat /\ FALSE \in BOOLEAN
  BY DEF VMLists
<1>3. QED
  BY <1>1, <1>2, NewPlanFacts, Zenon

\* A write by the pass.
LEMMA WriteKeepsPlan ==
  ASSUME PlanSide, OnlyPlan, gone' = gone,
         NEW cur, NEW copy \in Plans, NEW next \in Controllers(Plans),
         UpdatePlan(cur, copy, next), copy.exists, Judged(copy),
         next.seen = planCtl.seen,
         next.fresh => planCtl.fresh /\ (cur => copy = plan),
         next.at # "Idle" => next.copy = copy
  PROVE  PlanSide'
<1>0. held' = held
  BY Zenon DEF OnlyPlan
<1>1. CASE plan.exists /\ cur
  <2>1. plan' = copy /\ planCtl' = next
    BY <1>1, Zenon DEF UpdatePlan
  <2>2. planCtl'.fresh => planCtl'.seen = plan'
    BY <1>1, <2>1, Zenon DEF PlanSide, PlanInv
  <2>3. held' => plan'.exists /\ planCtl'.seen.exists /\ ~gone'
    BY <1>0, <2>1, Zenon DEF PlanSide, PlanInv
  <2>4. Judged(plan)' /\ Judged(planCtl.seen)'
    BY <2>1, Zenon DEF PlanSide, PlanInv, Judged
  <2>5. planCtl'.at # "Idle" => planCtl'.copy = plan' /\ Judged(planCtl.copy)'
    BY <2>1, Zenon DEF Judged
  <2>6. QED
    BY <2>1, <2>2, <2>3, <2>4, <2>5, Zenon DEF PlanSide, PlanInv
<1>2. CASE ~(plan.exists /\ cur)
  <2>1. plan' = plan /\ planCtl' = Requeue(planCtl)
    BY <1>2, Zenon DEF UpdatePlan
  <2>2. /\ planCtl' \in Controllers(Plans) /\ planCtl'.at = "Idle"
        /\ planCtl'.seen = planCtl.seen /\ planCtl'.fresh = planCtl.fresh
    BY <2>1, RequeueFacts DEF PlanSide
  <2>3. QED
    BY <1>0, <2>1, <2>2, Zenon DEF PlanSide, PlanInv, Judged
<1>3. QED
  BY <1>1, <1>2, Zenon

LEMMA BeginPlanKeeps ==
  ASSUME PlanSide, BeginPlan
  PROVE  PlanSide'
<1> DEFINE copy == planCtl.seen
           ctl == [planCtl EXCEPT !.queued = FALSE, !.copy = copy, !.current = planCtl.fresh]
           validating == [copy EXCEPT !.phase = "Validating"]
           next == Wrote(ctl, validating, "Validating")
<1>1. /\ ctl.seen = copy /\ ctl.fresh = planCtl.fresh
      /\ ctl.copy = copy /\ ctl.current = planCtl.fresh
  BY PickedUpFacts, Zenon DEF PlanSide
<1>2. ctl \in Controllers(Plans)
  BY PickedUpFacts, Zenon DEF PlanSide
<1>3. copy \in Plans /\ (planCtl.fresh => copy = plan) /\ Judged(copy)
  BY DEF PlanSide, PlanInv, Controllers
<1>4. validating \in Plans
  BY <1>3 DEF Plans, Phases
<1>5. validating.exists = copy.exists /\ Judged(validating)
  BY <1>3 DEF Plans, Judged
<1>6. OnlyPlan /\ gone' = gone
  BY Zenon DEF BeginPlan
<1> HIDE DEF ctl, validating
<1>7. CASE planCtl' = PassOver(ctl) /\ UNCHANGED plan
  <2>1. /\ planCtl' \in Controllers(Plans) /\ planCtl'.at = "Idle"
        /\ planCtl'.seen = ctl.seen /\ planCtl'.fresh = ctl.fresh
    BY <1>2, <1>7, PassOverFacts, Zenon
  <2>2. QED
    BY <1>1, <1>6, <1>7, <2>1 DEF PlanSide, PlanInv, Judged, OnlyPlan
<1>8. CASE copy.exists /\ UpdatePlan(ctl.current, validating, next)
  <2>1. /\ next \in Controllers(Plans)
        /\ next.seen = ctl.seen /\ next.copy = validating
        /\ next.fresh => ctl.fresh /\ validating = ctl.copy
    BY <1>2, <1>4, WroteFacts, StagesAre
  <2> HIDE DEF next
  <2>2. QED
    BY <1>1, <1>3, <1>4, <1>5, <1>6, <1>8, <2>1, WriteKeepsPlan, Zenon
<1>9. QED
  BY <1>7, <1>8 DEF BeginPlan, ctl, validating, next

LEMMA WithVerdictFacts ==
  ASSUME NEW c \in Plans, NEW passes \in BOOLEAN
  PROVE  /\ WithVerdict(c, passes) \in Plans
         /\ WithVerdict(c, passes).exists = c.exists /\ WithVerdict(c, passes).spec = c.spec
         /\ WithVerdict(c, passes).phase = IF passes THEN "Ready" ELSE "Error"
         /\ Judged(WithVerdict(c, passes))
<1> DEFINE verdict == [generation |-> c.generation, ok |-> passes]
           a == [c EXCEPT !.phase = IF passes THEN "Ready" ELSE "Error"]
           b == [a EXCEPT !.verdict = verdict]
<1>1. /\ a \in Plans /\ a.exists = c.exists /\ a.spec = c.spec
      /\ a.generation = c.generation /\ a.phase = IF passes THEN "Ready" ELSE "Error"
  BY Zenon DEF Plans, Phases
<1>2. /\ verdict \in [generation : Nat, ok : BOOLEAN]
      /\ verdict.generation = c.generation /\ c.generation \in Nat
  BY DEF Plans
<1>3. WithVerdict(c, passes) = b
  BY DEF WithVerdict
<1> HIDE DEF a, verdict
<1>4. /\ b \in Plans /\ b.exists = a.exists /\ b.spec = a.spec /\ b.phase = a.phase
      /\ b.generation = a.generation /\ b.verdict = verdict
  BY <1>1, <1>2 DEF Plans
<1>5. QED
  BY <1>1, <1>2, <1>3, <1>4 DEF Judged

\* SaveVerdict and setPlanError, which end the pass each in its own way.
LEMMA VerdictKeeps ==
  ASSUME PlanSide, OnlyPlan, gone' = gone, NEW passes \in BOOLEAN, planCtl.at # "Idle", NEW next,
         LET copy == WithVerdict(planCtl.copy, passes)
             w == Wrote(planCtl, copy, "Idle")
         IN  /\ next = PassOver(w) \/ next = RequeueAfter(w)
             /\ UpdatePlan(planCtl.current, copy, next)
  PROVE  PlanSide'
<1> DEFINE copy == WithVerdict(planCtl.copy, passes)
           w == Wrote(planCtl, copy, "Idle")
<1>1. planCtl \in Controllers(Plans) /\ planCtl.copy \in Plans
  BY Zenon DEF PlanSide, Controllers
<1>2. /\ planCtl.copy.exists
      /\ planCtl.current => planCtl.copy = plan
  BY Zenon DEF PlanSide, PlanInv
<1>3. copy \in Plans
  BY <1>1, WithVerdictFacts, Zenon
<1>4. copy.exists /\ Judged(copy)
  BY <1>1, <1>2, WithVerdictFacts, Zenon
<1>5. /\ next = PassOver(w) \/ next = RequeueAfter(w)
      /\ UpdatePlan(planCtl.current, copy, next)
  BY Zenon
<1> HIDE DEF copy
<1>6. /\ w \in Controllers(Plans) /\ w.seen = planCtl.seen
      /\ w.fresh => planCtl.fresh /\ copy = planCtl.copy
  BY <1>1, <1>3, WroteFacts, StagesAre
<1> HIDE DEF w
<1>7. /\ next \in Controllers(Plans) /\ next.at = "Idle"
      /\ next.seen = w.seen /\ next.fresh = w.fresh
  <2>1. w \in Controllers(Plans)
    BY <1>6
  <2>2. CASE next = PassOver(w)
    BY <2>1, <2>2, PassOverFacts, Zenon
  <2>3. CASE next = RequeueAfter(w)
    BY <2>1, <2>3, RequeueFacts, Zenon
  <2>4. QED
    BY <1>5, <2>2, <2>3, Zenon
<1>8. QED
  BY <1>2, <1>3, <1>4, <1>5, <1>6, <1>7, WriteKeepsPlan, Zenon

LEMMA PlanStepKeeps ==
  ASSUME PlanSide, VerdictSide, PlanPass \/ PlanSeen \/ PlanTimer
  PROVE  PlanSide'
<1>0. planCtl \in Controllers(Plans) /\ plan \in Plans /\ read.ok \in BOOLEAN
  BY Zenon DEF PlanSide, VerdictSide
<1>1. CASE FailToResolve \/ ValidateVMs
  <2>1. PICK at \in {"Unresolved", "Verdict"} : planCtl' = [planCtl EXCEPT !.at = at]
    BY <1>1 DEF FailToResolve, ValidateVMs
  <2>2. at \in Stages
    BY DEF Stages
  <2>3. /\ planCtl' \in Controllers(Plans) /\ planCtl'.at = at
        /\ planCtl'.seen = planCtl.seen /\ planCtl'.fresh = planCtl.fresh
        /\ planCtl'.copy = planCtl.copy /\ planCtl'.current = planCtl.current
    BY <1>0, <2>1, <2>2, StageFacts
  <2>4. planCtl.at # "Idle" /\ plan' = plan /\ held' = held /\ gone' = gone
    BY <1>1, Zenon DEF FailToResolve, ValidateVMs, OnlyPlan
  <2>5. QED
    BY <2>3, <2>4 DEF PlanSide, PlanInv, Judged
<1>2. CASE SaveVerdict
  BY <1>0, <1>2, VerdictKeeps, Zenon DEF SaveVerdict
<1>3. CASE setPlanError
  BY <1>0, <1>3, VerdictKeeps, Zenon DEF setPlanError
<1>4. CASE PlanSeen
  <2>0. plan' = plan /\ held' = held /\ gone' = FALSE
    BY <1>4, Zenon DEF PlanSeen, OnlyPlan
  <2>1. CASE planCtl' = Delivered(planCtl, plan)
    <3>1. /\ planCtl' \in Controllers(Plans) /\ planCtl'.seen = plan
          /\ planCtl'.at = planCtl.at /\ planCtl'.current = planCtl.current
          /\ planCtl.at # "Idle" => planCtl'.copy = planCtl.copy
      BY <1>0, <2>1, DeliveredFacts
    <3>2. QED
      BY <2>0, <3>1, Zenon DEF PlanSide, PlanInv, Judged
  <2>2. CASE gone /\ planCtl' = Outdated(Delivered(planCtl, NoPlan))
    <3> DEFINE ctl == Delivered(planCtl, NoPlan)
    <3>1. /\ ctl \in Controllers(Plans) /\ ctl.seen = NoPlan /\ ctl.at = planCtl.at
          /\ planCtl.at # "Idle" => ctl.copy = planCtl.copy
      <4>1. planCtl \in Controllers(Plans) /\ NoPlan \in Plans
        BY <1>0, NoPlanFacts, Zenon
      <4>2. QED
        BY <4>1, DeliveredFacts
    <3> HIDE DEF ctl
    <3>2. /\ planCtl' \in Controllers(Plans) /\ planCtl'.seen = NoPlan
          /\ planCtl'.fresh = FALSE /\ planCtl'.current = FALSE
          /\ planCtl'.at = planCtl.at /\ planCtl'.copy = ctl.copy
      BY <2>2, <3>1, OutdatedFacts DEF ctl
    <3>3. ~held
      BY <2>2, Zenon DEF PlanSide, PlanInv
    <3>4. QED
      BY <2>0, <3>1, <3>2, <3>3, NoPlanFacts, Zenon DEF PlanSide, PlanInv, Judged
  <2>3. QED
    BY <1>4, <2>1, <2>2, Zenon DEF PlanSeen
<1>5. CASE PlanTimer
  <2>1. /\ planCtl' \in Controllers(Plans)
        /\ planCtl'.seen = planCtl.seen /\ planCtl'.fresh = planCtl.fresh
        /\ planCtl'.at = planCtl.at /\ planCtl'.copy = planCtl.copy
        /\ planCtl'.current = planCtl.current
    BY <1>0, <1>5, TimerFacts, Zenon DEF PlanTimer
  <2>2. QED
    BY <1>5, <2>1, Zenon DEF PlanTimer, OnlyPlan, PlanSide, PlanInv, Judged
<1>6. QED
  BY <1>1, <1>2, <1>3, <1>4, <1>5, BeginPlanKeeps DEF PlanPass

\* What the pass has found: VMs without errors can be built (ValidIsBuildable).
LEMMA ValidatedIsSound ==
  ASSUME ValidateVMs
  PROVE  read' \in [ok : BOOLEAN, sound : BOOLEAN] /\ (read'.ok => read'.sound)
<1> DEFINE spec == planCtl.copy.spec
<1>1. PICK smap \in StorageMaps, nmap \in NetworkMaps,
           fetched \in SUBSET (spec \cap DOMAIN Source) :
        read' = [ok |-> \A v \in spec : Valid(v, smap, nmap, fetched),
                 sound |-> \A v \in spec : SoundVM(v, smap, nmap)]
  BY Zenon DEF ValidateVMs
<1>2. ASSUME NEW v \in spec, Valid(v, smap, nmap, fetched)
      PROVE  SoundVM(v, smap, nmap)
  <2>1. v \in DOMAIN Source
    BY <1>2, Zenon DEF Valid
  <2>2. ~HasErrors(Validate(Source[v], smap, nmap, TargetNamespace, Cluster))
    BY <1>2, Zenon DEF Valid
  <2>3. /\ Len(smap) \in Nat /\ DOMAIN smap = 1 .. Len(smap)
        /\ Len(nmap) \in Nat /\ DOMAIN nmap = 1 .. Len(nmap)
    BY MapsAssumption, Zenon
  <2>4. Buildable(Source[v], smap, nmap, TargetNamespace, Cluster)
    BY <2>2, <2>3, ReadsAnswered, ValidIsBuildable
  <2>5. QED
    BY <2>1, <2>4, Zenon DEF SoundVM
<1> DEFINE passes == \A v \in spec : Valid(v, smap, nmap, fetched)
           sound == \A v \in spec : SoundVM(v, smap, nmap)
<1>3. (passes => sound) /\ passes \in BOOLEAN /\ sound \in BOOLEAN
  BY <1>2, Zenon
<1>4. read' = [ok |-> passes, sound |-> sound]
  BY <1>1
<1> HIDE DEF passes, sound
<1>5. QED
  BY <1>3, <1>4

\* Only SaveVerdict makes a plan Ready, and it records what it is about.
LEMMA PlanStepKeepsVerdict ==
  ASSUME PlanSide, VerdictSide, PlanPass \/ PlanSeen \/ PlanTimer
  PROVE  VerdictSide'
<1>0. planCtl.copy \in Plans /\ planCtl.seen \in Plans /\ read.ok \in BOOLEAN
  BY DEF PlanSide, VerdictSide, Controllers
<1>1. CASE BeginPlan
  <2>1. plan' = plan \/ plan' = [planCtl.seen EXCEPT !.phase = "Validating"]
    BY <1>1 DEF BeginPlan, UpdatePlan
  <2>2. plan' = plan \/ plan'.phase = "Validating"
    BY <1>0, <2>1 DEF Plans
  <2>3. QED
    BY <1>1, <2>2 DEF BeginPlan, VerdictSide, ReadyIsBuildable
<1>2. CASE ValidateVMs
  BY <1>2, ValidatedIsSound, Zenon DEF ValidateVMs, VerdictSide, ReadyIsBuildable
<1>3. CASE SaveVerdict
  <2> DEFINE copy == WithVerdict(planCtl.copy, read.ok)
  <2>1. /\ plan' = plan \/ plan' = copy
        /\ basis' = IF plan' = plan THEN basis ELSE [spec |-> copy.spec, sound |-> read.sound]
        /\ read' = NothingRead
    BY <1>3, Zenon DEF SaveVerdict, UpdatePlan
  <2>2. copy.phase = IF read.ok THEN "Ready" ELSE "Error"
    BY <1>0, WithVerdictFacts
  <2> HIDE DEF copy
  <2>3. ReadyIsBuildable'
    <3>1. CASE plan' = plan
      BY <2>1, <3>1, Zenon DEF VerdictSide, ReadyIsBuildable
    <3>2. CASE plan' # plan
      BY <2>1, <2>2, <3>2 DEF VerdictSide, ReadyIsBuildable
    <3>3. QED
      BY <3>1, <3>2, Zenon
  <2>4. QED
    BY <2>1, <2>3, Zenon DEF VerdictSide, NothingRead
<1>4. CASE setPlanError
  <2>1. plan' = plan \/ plan' = WithVerdict(planCtl.copy, FALSE)
    BY <1>4, Zenon DEF setPlanError, UpdatePlan
  <2>2. WithVerdict(planCtl.copy, FALSE).phase = IF FALSE THEN "Ready" ELSE "Error"
    BY <1>0, WithVerdictFacts, Zenon
  <2>3. plan' = plan \/ plan'.phase = "Error"
    BY <2>1, <2>2
  <2>4. QED
    BY <1>4, <2>3, Zenon DEF setPlanError, VerdictSide, ReadyIsBuildable
<1>5. CASE FailToResolve \/ PlanSeen \/ PlanTimer
  BY <1>5 DEF FailToResolve, PlanSeen, PlanTimer, VerdictSide, ReadyIsBuildable
<1>6. QED
  BY <1>1, <1>2, <1>3, <1>4, <1>5 DEF PlanPass

----------------------------------------------------------------------------
(* The users.                                                              *)

\* An edit leaves the old verdict behind its generation.
LEMMA PlanUserKeeps ==
  ASSUME CatalogInv, CreatePlan \/ EditPlan \/ DeletePlan
  PROVE  CatalogInv'
<1>0. plan \in Plans /\ planCtl \in Controllers(Plans)
  BY DEF CatalogInv, PlanSide
<1>1. /\ planCtl' = Outdated(planCtl) /\ prov' = prov /\ provCtl' = provCtl
      /\ read' = read
  BY Zenon DEF CreatePlan, EditPlan, DeletePlan
<1>2. /\ planCtl' \in Controllers(Plans)
      /\ planCtl'.fresh = FALSE /\ planCtl'.current = FALSE
      /\ planCtl'.seen = planCtl.seen /\ planCtl'.at = planCtl.at
      /\ planCtl'.copy = planCtl.copy
  BY <1>0, <1>1, OutdatedFacts, Zenon
<1>3. held' => held /\ (gone' => gone)
  BY Zenon DEF CreatePlan, EditPlan, DeletePlan
<1>4. ProviderSide'
  BY <1>1, <1>3, Zenon DEF CatalogInv, ProviderSide, ProviderInv
<1>5. /\ plan' \in Plans /\ Judged(plan)' /\ (held' => plan'.exists)
      /\ ReadyIsBuildable'
  <2>1. CASE CreatePlan
    <3>1. PICK s \in Specs :
            plan' = [NoPlan EXCEPT !.exists = TRUE, !.spec = s, !.generation = 1]
      BY <2>1, Zenon DEF CreatePlan
    <3>2. plan' = [exists |-> TRUE, spec |-> s, generation |-> 1, phase |-> "",
                   verdict |-> NoVerdict]
      BY <3>1 DEF NoPlan
    <3>3. s \in VMLists /\ 1 \in Nat /\ TRUE \in BOOLEAN
      BY DEF VMLists
    <3>4. plan' \in Plans /\ plan'.exists = TRUE /\ plan'.phase = "" /\ Judged(plan')
      BY <3>2, <3>3, NewPlanFacts, Zenon
    <3>5. QED
      BY <3>4, Zenon DEF Judged, ReadyIsBuildable
  <2>2. CASE EditPlan
    <3>1. PICK s \in Specs : plan' = [plan EXCEPT !.spec = s, !.generation = @ + 1]
      BY <2>2, Zenon DEF EditPlan
    <3>2. /\ plan' \in Plans /\ plan'.exists = plan.exists /\ plan'.phase = plan.phase
          /\ plan'.verdict = plan.verdict /\ plan'.generation = plan.generation + 1
      <4> DEFINE g == plan.generation + 1
                 a == [plan EXCEPT !.spec = s]
      <4>1. s \in VMLists /\ g \in Nat
        BY <1>0 DEF VMLists, Plans
      <4>2. /\ a \in Plans /\ a.exists = plan.exists /\ a.phase = plan.phase
            /\ a.verdict = plan.verdict /\ a.generation = plan.generation
        BY <1>0, <4>1 DEF Plans
      <4>3. plan' = [a EXCEPT !.generation = g]
        BY <1>0, <3>1 DEF Plans
      <4> HIDE DEF a, g
      <4>4. /\ plan' \in Plans /\ plan'.exists = a.exists /\ plan'.phase = a.phase
            /\ plan'.verdict = a.verdict /\ plan'.generation = g
        BY <4>1, <4>2, <4>3 DEF Plans
      <4>5. QED
        BY <4>2, <4>4 DEF g
    <3>3. plan.verdict.generation \in Nat /\ plan.generation \in Nat
      BY <1>0, Zenon DEF Plans
    <3>4. Judged(plan)' /\ plan'.verdict.generation # plan'.generation
      BY <3>2, <3>3 DEF Judged, CatalogInv, PlanSide, PlanInv
    <3>5. plan.exists /\ basis' = basis
      BY <2>2, Zenon DEF EditPlan
    <3>6. QED
      BY <3>2, <3>4, <3>5 DEF CatalogInv, VerdictSide, ReadyIsBuildable
  <2>3. CASE DeletePlan
    BY <2>3, NoPlanFacts, Zenon DEF DeletePlan, Judged, ReadyIsBuildable
  <2>4. QED
    BY <2>1, <2>2, <2>3
<1>6. PlanSide'
  BY <1>2, <1>3, <1>5, Zenon DEF CatalogInv, PlanSide, PlanInv, Judged
<1>7. VerdictSide'
  BY <1>1, <1>5 DEF CatalogInv, VerdictSide
<1>8. QED
  BY <1>4, <1>6, <1>7 DEF CatalogInv

\* A deletion makes every version read before it an old one.
LEMMA ProviderUserKeeps ==
  ASSUME CatalogInv, DeleteProvider \/ EditProvider
  PROVE  CatalogInv'
<1>0. prov \in Providers /\ provCtl \in Controllers(Providers)
  BY DEF CatalogInv, ProviderSide
<1>1. /\ provCtl' = Outdated(provCtl) /\ plan' = plan /\ planCtl' = planCtl
      /\ read' = read /\ basis' = basis /\ gone' = gone
  BY DEF DeleteProvider, EditProvider
<1>2. /\ provCtl' \in Controllers(Providers)
      /\ provCtl'.fresh = FALSE /\ provCtl'.current = FALSE
      /\ provCtl'.seen = provCtl.seen /\ provCtl'.at = provCtl.at
      /\ provCtl'.copy = provCtl.copy
  BY <1>0, <1>1, OutdatedFacts, Zenon
<1>3. /\ prov' \in Providers
      /\ held' => prov'.exists /\ prov'.deleting /\ prov'.finalizer
      /\ held' => plan.exists /\ planCtl.seen.exists /\ ~gone
  <2>1. CASE DeleteProvider
    <3> DEFINE p == [prov EXCEPT !.deleting = TRUE]
    <3>1. /\ p \in Providers /\ p.exists = prov.exists /\ p.deleting
          /\ p.finalizer = prov.finalizer
      BY <1>0, Zenon DEF Providers
    <3>2. /\ prov.exists /\ prov' = Stored(p)
          /\ held' => prov.finalizer /\ plan.exists /\ planCtl.seen.exists /\ ~gone
      BY <2>1, Zenon DEF DeleteProvider
    <3> HIDE DEF p
    <3>3. Stored(p) \in Providers /\ (p.finalizer => Stored(p) = p)
      BY <3>1, StoredFacts, Zenon
    <3>4. QED
      BY <3>1, <3>2, <3>3, Zenon
  <2>2. CASE EditProvider
    BY <2>2, Zenon DEF EditProvider, CatalogInv, ProviderSide, ProviderInv, PlanSide, PlanInv
  <2>3. QED
    BY <2>1, <2>2, Zenon
<1>4. ProviderSide'
  BY <1>2, <1>3 DEF CatalogInv, ProviderSide, ProviderInv
<1>5. PlanSide'
  BY <1>1, <1>3, Zenon DEF CatalogInv, PlanSide, PlanInv, Judged
<1>6. VerdictSide'
  BY <1>1 DEF CatalogInv, VerdictSide, ReadyIsBuildable
<1>7. QED
  BY <1>4, <1>5, <1>6 DEF CatalogInv

----------------------------------------------------------------------------
(* The theorems.                                                           *)

LEMMA CatalogInvHolds == CatalogSpec => []CatalogInv
<1>1. CatalogInit => CatalogInv
  <2> SUFFICES ASSUME CatalogInit PROVE CatalogInv
    OBVIOUS
  <2>1. ProviderSide
    BY DEF CatalogInit, ProviderSide, ProviderInv, NewProvider, NoProvider, Providers,
      Phases, Idle, Controllers, Stages
  <2>2. PlanSide
    <3>1. planCtl = [seen |-> NoPlan, fresh |-> TRUE, queued |-> FALSE, timer |-> FALSE,
                     at |-> "Idle", copy |-> NoPlan, current |-> FALSE]
      BY DEF CatalogInit, Idle
    <3>2. planCtl \in Controllers(Plans) /\ planCtl.seen = NoPlan /\ planCtl.at = "Idle"
      BY <3>1, NoPlanFacts, StagesAre, Zenon DEF Controllers
    <3>3. plan = NoPlan /\ ~held
      BY DEF CatalogInit
    <3>4. QED
      BY <3>2, <3>3, NoPlanFacts, Zenon DEF PlanSide, PlanInv
  <2>3. VerdictSide
    BY DEF CatalogInit, VerdictSide, ReadyIsBuildable, NothingRead, NoPlan
  <2>4. QED
    BY <2>1, <2>2, <2>3 DEF CatalogInv
<1>2. CatalogInv /\ [CatalogNext]_catalogVars => CatalogInv'
  <2> SUFFICES ASSUME CatalogInv, [CatalogNext]_catalogVars PROVE CatalogInv'
    OBVIOUS
  <2>0. ProviderSide /\ PlanSide /\ VerdictSide
    BY DEF CatalogInv
  <2>1. CASE ProviderPass \/ ProviderSeen \/ ProviderTimer
    <3>1. ProviderSide'
      BY <2>0, <2>1, ProviderStepKeeps
    <3>2. OnlyProvider
      BY <2>1, Zenon DEF ProviderPass, ProviderSeen, ProviderTimer, BeginProvider,
        isProviderInUse, RemoveFinalizer, FetchInventory, SaveConnected, setErrorCondition
    <3>3. PlanSide' /\ VerdictSide'
      BY <2>0, <3>2 DEF OnlyProvider, PlanSide, PlanInv, Judged, VerdictSide, ReadyIsBuildable
    <3>4. QED
      BY <3>1, <3>3 DEF CatalogInv
  <2>2. CASE PlanPass \/ PlanSeen \/ PlanTimer
    <3>1. PlanSide' /\ VerdictSide'
      BY <2>0, <2>2, PlanStepKeeps, PlanStepKeepsVerdict
    <3>2. OnlyPlan
      BY <2>2, Zenon DEF PlanPass, PlanSeen, PlanTimer, BeginPlan, FailToResolve, ValidateVMs,
        SaveVerdict, setPlanError
    <3>3. ProviderSide'
      BY <2>0, <3>2 DEF OnlyPlan, ProviderSide, ProviderInv
    <3>4. QED
      BY <3>1, <3>3 DEF CatalogInv
  <2>3. CASE UNCHANGED catalogVars
    <3>1. ProviderSide'
      BY <2>0, <2>3, Zenon DEF catalogVars, CatalogInv, ProviderSide, ProviderInv
    <3>2. PlanSide'
      BY <2>0, <2>3, Zenon DEF catalogVars, CatalogInv, PlanSide, PlanInv, Judged
    <3>3. VerdictSide'
      BY <2>0, <2>3, Zenon DEF catalogVars, CatalogInv, VerdictSide, ReadyIsBuildable
    <3>4. QED
      BY <3>1, <3>2, <3>3, Zenon DEF CatalogInv
  <2>4. QED
    BY <2>1, <2>2, <2>3, PlanUserKeeps, ProviderUserKeeps DEF CatalogNext
<1>3. QED
  BY <1>1, <1>2, PTL DEF CatalogSpec

\* The finalizer of the provider controller works: whatever the interleaving of
\* its passes with users and watches, no provider goes away under a plan that
\* the operator knew of when the deletion was asked for.
THEOREM UsedProviderIsKept == CatalogSpec => []UsedProviderStays
<1>1. CatalogInv => UsedProviderStays
  BY DEF CatalogInv, ProviderSide, ProviderInv, UsedProviderStays
<1>2. QED
  BY <1>1, CatalogInvHolds, PTL

\* What the plan controller calls Ready can be built, for any VMs, plans and
\* maps, and the verdict is on the plan it is recorded for.
THEOREM ReadyPlansAreBuildable == CatalogSpec => []ReadyIsBuildable
<1>1. CatalogInv => ReadyIsBuildable
  BY DEF CatalogInv, VerdictSide
<1>2. QED
  BY <1>1, CatalogInvHolds, PTL
=============================================================================
