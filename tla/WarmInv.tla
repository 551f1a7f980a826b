------------------------------ MODULE WarmInv ------------------------------
(***************************************************************************)
(* The inductive invariants of WarmPipeline, and the answers its handlers  *)
(* may give.                                                               *)
(***************************************************************************)
EXTENDS WarmPipeline, PipelineProofs

----------------------------------------------------------------------------
(* How a run ends when no pass is lost, no call takes effect without an    *)
(* answer and cleanups succeed: each recovery point is followed by its     *)
(* images, one per disk, and the status names all that was made.           *)

BeforeCopy == BeforeStore \cup {"BulkCopy"}
Syncing == {"WaitBulkCopy", "Precopy", "PowerOff", "WaitForPowerOff", "FinalSync"}
Synced == {"CreateVM", "StartVM", "PostHook", "Cleanup", "Completed"}
AfterStart == {"PostHook", "Cleanup", "Completed"}

PodPhases == {"Pending", "Succeeded", "Failed"}
Pods == [name : Nat \X Disks, img : Nat, phase : PodPhases]
Worlds == WorldsOf(SUBSET Pods)
Rounds == [base : Nat, baseImgs : SUBSET Nat, delta : Nat, deltaImgs : SUBSET Nat,
           disk : 0 .. D, pod : {NoPod} \cup (Nat \X Disks), rounds : Nat]
Fields == [orig : {"", "ON", "OFF"}, snap : Nat, imgs : SUBSET Nat, dvs : 0 .. D,
           warm : Rounds]

\* The images of recovery point s, and the points that are not 0.
Batch(s) == IF s = 0 THEN {} ELSE s + 1 .. s + D
Points(x) == {x.base, x.delta} \ {0}

\* The pod of the disk the round is at, in one of its phases.
PodAt(x, phase) == [name |-> x.pod, img |-> x.delta + x.disk + 1, phase |-> phase]

\* The rounds x of a status: the first m recovery points and images are made.
Ordered(x, m) ==
  /\ x.base # 0 /\ x.baseImgs = Batch(x.base) /\ x.base + D <= m
  /\ x.deltaImgs = Batch(x.delta)
  /\ x.delta # 0 => x.base + D < x.delta /\ x.delta + D <= m
  /\ x.delta = 0 => x.disk = 0 /\ x.pod = NoPod
  /\ x.pod # NoPod => x.disk < D /\ x.pod[2] = x.disk + 1

\* What a status whose rounds are x accounts for, in the world w.
Accounted(x, w) ==
  /\ w.snaps = Points(x)
  /\ w.imgs = Batch(x.base) \cup Batch(x.delta)
  /\ x.pod = NoPod => w.pods = {}
  /\ \E phase \in PodPhases : w.pods \subseteq {PodAt(x, phase)}

\* A VM in phase p whose status and world are r and w; e: the Migration exists.
Sound(p, r, w, e, m) ==
  /\ r \in Fields /\ w \in Worlds
  /\ \A x, y \in w.pods : x = y
  /\ w.pods # {} => \A d \in Disks : w.dvs[d] # "Importing"
  /\ p # "Cancelled" /\ w.was = "OFF" => w.power = "OFF"
  /\ p \in BeforeCopy \cup {"WaitBulkCopy", "Precopy", "PowerOff", "Failed"} =>
       w.power = w.was
  /\ p \in BeforeStore => r.orig \in {"", w.was}
  /\ p \in {"BulkCopy"} \cup Syncing \cup Synced => r.orig = w.was
  /\ p \in {"FinalSync"} \cup Synced => w.power = "OFF"
  /\ p \in BeforeCopy =>
       r.snap = 0 /\ r.imgs = {} /\ r.dvs = 0 /\ r.warm = NoWarm /\ NoDataLeft(w)
  /\ p \in Syncing => r.dvs = D /\ Ordered(r.warm, m) /\ Accounted(r.warm, w)
  /\ p = "WaitBulkCopy" => r.warm.delta = 0
  /\ p \in (Syncing \ {"WaitBulkCopy"}) \cup Synced /\ e =>
       \A d \in Disks : w.dvs[d] = "Succeeded"
  /\ p \in Synced => r.dvs = D /\ w.snaps = {} /\ w.imgs = {} /\ w.pods = {}
  /\ p \in BeforeCopy \cup Syncing \cup {"CreateVM"} => w.kv = "None"
  /\ p = "StartVM" => w.kv = "Stopped"
  /\ p \in AfterStart => w.kv = Target
  /\ p = "Failed" => NoDataLeft(w)

SoundInv ==
  /\ made \in 0 .. MaxMade
  /\ \A v \in VMs : Sound(PhaseOf(v), ResOf(v), world[v], obj.exists, made)

----------------------------------------------------------------------------
(* All that is written is handed over; and all that was ever written, if   *)
(* the cutover comes between two rounds.                                   *)

Contents == [Disks -> Nat]
NotOlder(x, y) == \A d \in Disks : x[d] >= y[d]

\* The rounds x of a status, given the contents c of recovery points and
\* images: what they say of the source's disks s and of what was handed over, t.
Current(x, pods, c, s, t) ==
  /\ t \in Contents /\ NotOlder(t, c[x.base]) /\ NotOlder(s, t)
  /\ x.delta # 0 =>
       /\ NotOlder(c[x.delta], c[x.base])
       /\ \A d \in Disks : c[x.delta + d][d] >= c[x.delta][d] /\ s[d] >= c[x.delta + d][d]
       /\ \A d \in Disks : d <= x.disk => t[d] >= c[x.delta][d]
       /\ \A q \in pods : q.phase = "Succeeded" => t[q.name[2]] >= c[x.delta][q.name[2]]

\* u: the cutover has come; k: a round was open then.
UpToDate(p, r, w, c, s, t, u, k) ==
  /\ p \in Syncing => Current(r.warm, w.pods, c, s, t)
  /\ ~k =>
       /\ p \in {"PowerOff", "WaitForPowerOff"} \/ (p = "Precopy" /\ u) => r.warm.delta = 0
       /\ p = "FinalSync" /\ r.warm.delta # 0 => c[r.warm.delta] = s
       /\ p = "CreateVM" => t = s

DataTypes ==
  /\ content \in [1 .. MaxMade -> Contents]
  /\ disk \in [VMs -> Contents] /\ PerVM(handed)

UpToDateInv ==
  /\ DataTypes
  /\ ~due => caught = {}
  /\ \A v \in VMs : UpToDate(PhaseOf(v), ResOf(v), world[v], content, disk[v], handed[v], due,
                             v \in caught)

\* What the handlers need to know of the number of images: they come in
\* batches of one per disk, in the order of the disks.
Counted ==
  /\ Cardinality({}) = 0
  /\ \A s \in Nat \ {0} : Cardinality(Batch(s)) = D
  /\ \A s \in Nat \ {0}, d \in Disks : ImageOf(Batch(s), d) = s + d

----------------------------------------------------------------------------
(* The answers a handler may give for the VM at idx, q, r and w being its  *)
(* phase, status and world when the handler has returned.                  *)

\* Nothing of the copy changes.
Passed(q, r, w) ==
  /\ UNCHANGED <<made, content, disk, handed>>
  /\ r.warm = Warm /\ w.pods = Src.pods
  /\ w.power = "OFF" <=> Src.power = "OFF"
  /\ \/ q = mem.vms[idx]
     \/ /\ q = AfterWarm(mem.vms[idx])
        /\ mem.vms[idx] \notin {"BulkCopy", "FinalSync"}
        /\ mem.vms[idx] = "Precopy" => due

\* A recovery point and its images are made, while the guest writes.
MadeNow(now) ==
  /\ made' = made + 1 + D /\ made' <= MaxMade
  /\ content' = [i \in 1 .. MaxMade |->
                   IF i = made + 1 THEN disk[idx]
                   ELSE IF i \in Batch(made + 1) THEN now ELSE content[i]]

BulkCopied(q, r, w) ==
  /\ mem.vms[idx] = "BulkCopy" /\ q = "WaitBulkCopy"
  /\ \E now \in Meanwhile(idx) :
       /\ MadeNow(now)
       /\ disk' = [disk EXCEPT ![idx] = now]
       /\ handed' = [handed EXCEPT ![idx] = [d \in Disks |-> now[d]]]
  /\ r.warm = [NoWarm EXCEPT !.base = made + 1, !.baseImgs = Batch(made + 1)]
  /\ w.power = Src.power

\* In a round: no pod is made in Precopy once the cutover has come.
InRound(q, w) ==
  /\ mem.vms[idx] \in {"Precopy", "FinalSync"} /\ (mem.vms[idx] = "Precopy" => ~due)
  /\ q = mem.vms[idx]
  /\ w.power = Src.power

PodDone(q, r, w) ==
  /\ InRound(q, w)
  /\ UNCHANGED <<made, content, disk, handed>>
  /\ PodAt(Warm, "Succeeded") \in Src.pods /\ Warm.pod # NoPod
  /\ r.warm = [Warm EXCEPT !.pod = NoPod, !.disk = Warm.disk + 1]
  /\ w.pods = {}

\* The round is open with x, or has been opened.
Opened(x, now) ==
  /\ now \in Meanwhile(idx)
  /\ disk' = [disk EXCEPT ![idx] = now]
  /\ handed' = handed
  /\ Warm.pod = NoPod
  /\ \/ /\ Warm.delta # 0 /\ x = Warm
        /\ made' = made /\ content' = [i \in 1 .. MaxMade |-> content[i]]
     \/ /\ Warm.delta = 0 /\ MadeNow(now)
        /\ x = [Warm EXCEPT !.delta = made + 1, !.deltaImgs = Batch(made + 1)]

Unchanged(x, d) == content'[x.delta][d] = content'[x.base][d]

Worked(q, r, w) ==
  /\ InRound(q, w)
  /\ \E x, now, round :
       /\ Opened(x, now) /\ x.disk < D
       /\ \/ /\ Unchanged(x, x.disk + 1)
             /\ r.warm = [x EXCEPT !.disk = x.disk + 1]
             /\ w.pods = {}
          \/ /\ r.warm = [x EXCEPT !.pod = <<round, x.disk + 1>>]
             /\ w.pods = {PodAt(r.warm, "Pending")}

AllDone(x) == x.disk = D \/ (x.disk + 1 = D /\ Unchanged(x, D))

Promoted(q, r, w) ==
  /\ InRound(q, w) /\ q = "Precopy"
  /\ \E x, now :
       /\ Opened(x, now) /\ AllDone(x)
       /\ r.warm = [NoWarm EXCEPT !.base = x.delta, !.baseImgs = x.deltaImgs,
                                  !.rounds = x.rounds + 1]
  /\ w.pods = {}

Finished(q, r, w) ==
  /\ mem.vms[idx] = "FinalSync" /\ q = "CreateVM"
  /\ \E x, now :
       /\ Opened(x, now) /\ AllDone(x)
       /\ r.warm = [x EXCEPT !.delta = 0, !.deltaImgs = {}, !.disk = 0]
  /\ w.power = Src.power

Outcome(q, r, w) ==
  \/ q = "Failed" /\ w.kv = Src.kv
  \/ Passed(q, r, w) \/ BulkCopied(q, r, w)
  \/ PodDone(q, r, w) \/ Worked(q, r, w) \/ Promoted(q, r, w) \/ Finished(q, r, w)

GoesWell ==
  \E q, r, w : Answers(q, r, w) /\ Sound(q, r, w, TRUE, made') /\ Outcome(q, r, w)

\* Of the VM at idx the phase, status and world become q, r and w.
StepTo(q, r, w) ==
  \A v \in VMs :
    /\ PhaseOf(v)' = IF v = idx THEN q ELSE PhaseOf(v)
    /\ ResOf(v)' = IF v = idx THEN r ELSE ResOf(v)
    /\ world'[v] = IF v = idx THEN w ELSE world[v]

\* What a handler finds, and what comes of it.
Handles ==
  /\ idx \in VMs /\ obj.exists /\ PhaseOf(idx) = mem.vms[idx] /\ ResOf(idx) = Res
  /\ Sound(mem.vms[idx], Res, Src, TRUE, made)
  /\ made' \in 0 .. MaxMade /\ made <= made'
  /\ \E q, r, w : Sound(q, r, w, TRUE, made') /\ Outcome(q, r, w) /\ StepTo(q, r, w)
=============================================================================
