--------------------------- MODULE WarmCopyProofs ---------------------------
(***************************************************************************)
(* What the answers of the handlers, the guest and the pods do to the data *)
(* of a warm migration: what a recovery point has is handed over before it *)
(* becomes the base, and every step is a step of DeltaSync.                *)
(***************************************************************************)
EXTENDS WarmInv, WarmSync

LEMMA OlderThan ==
  ASSUME NEW x \in Contents, NEW y \in Contents, NEW z \in Contents,
         NotOlder(x, y), NotOlder(y, z)
  PROVE  NotOlder(x, z)
<1> SUFFICES ASSUME NEW d \in Disks PROVE x[d] >= z[d]
  BY DEF NotOlder
<1>1. x[d] \in Nat /\ y[d] \in Nat /\ z[d] \in Nat
  BY DEF Contents
<1>2. x[d] >= y[d] /\ y[d] >= z[d]
  BY DEF NotOlder
<1> QED
  BY <1>1, <1>2

LEMMA NotOlderItself ==
  ASSUME NEW x \in Contents PROVE NotOlder(x, x)
  BY DEF Contents, NotOlder

LEMMA SameContent ==
  ASSUME NEW x \in Contents, NEW y \in Contents, NotOlder(x, y), NotOlder(y, x)
  PROVE  x = y
<1>1. ASSUME NEW d \in Disks PROVE x[d] = y[d]
  <2>1. x[d] \in Nat /\ y[d] \in Nat
    BY DEF Contents
  <2>2. x[d] >= y[d] /\ y[d] >= x[d]
    BY DEF NotOlder
  <2> QED
    BY <2>1, <2>2
<1> QED
  BY <1>1 DEF Contents

\* A disk and a number of disks; the pod of a round.
LEMMA UpToDisk == \A d \in Disks : \A n : d <= n => d \in 1 .. n
  BY DEF Disks

LEMMA PodOf ==
  ASSUME NEW x, NEW w, Accounted(x, w), NEW k \in w.pods
  PROVE  x.pod # NoPod /\ k.name = x.pod
  BY DEF Accounted, PodAt

\* What a sound VM between bulk copy and final round has.
LEMMA RoundFacts ==
  ASSUME NEW p \in Syncing, Sound(p, Res, Src, TRUE, made)
  PROVE  /\ Warm \in Rounds /\ Ordered(Warm, made) /\ Accounted(Warm, Src)
         /\ p = "FinalSync" => Src.power = "OFF"
  BY DEF Sound, Fields, Warm

\* The images of a batch are there, and hold what the disk held last.
LEMMA NewImages ==
  ASSUME made \in Nat, NEW now, MadeNow(now)
  PROVE  /\ made + 1 \in 1 .. MaxMade /\ content'[made + 1] = disk[idx]
         /\ \A d \in Disks : made + 1 + d \in 1 .. MaxMade /\ content'[made + 1 + d] = now
         /\ \A i \in 1 .. made : i \in 1 .. MaxMade /\ content'[i] = content[i]
<1>1. made + 1 \in 1 .. MaxMade
  BY BoundsAssumption, DAssumption DEF MadeNow
<1>2. \A d \in Disks : /\ made + 1 + d \in 1 .. MaxMade /\ made + 1 + d # made + 1
                       /\ made + 1 + d \in Batch(made + 1)
  BY BoundsAssumption, DAssumption DEF MadeNow, Disks, Batch
<1>3. \A i \in 1 .. made : i \in 1 .. MaxMade /\ i # made + 1 /\ i \notin Batch(made + 1)
  BY BoundsAssumption, DAssumption DEF MadeNow, Batch
<1> QED
  BY <1>1, <1>2, <1>3 DEF MadeNow

LEMMA WrittenGrows ==
  ASSUME disk \in [VMs -> Contents], NEW v \in VMs, NEW now \in Written(v)
  PROVE  now \in Contents /\ NotOlder(now, disk[v])
<1> DEFINE s == disk[v]
<1>1. PICK b \in Disks : now = [s EXCEPT ![b] = s[b] + 1]
  BY DEF Written
<1>2. s \in Contents
  OBVIOUS
<1> HIDE DEF s
<1>3. \A d \in Disks : s[d] \in Nat
  BY <1>2 DEF Contents
<1>4. s[b] + 1 \in Nat /\ s[b] + 1 >= s[b] /\ \A d \in Disks : s[d] >= s[d]
  BY <1>3
<1>5. now \in Contents
  BY <1>1, <1>2, <1>4 DEF Contents
<1>6. \A d \in Disks : now[d] >= s[d]
  BY <1>1, <1>2, <1>4 DEF Contents
<1> QED
  BY <1>5, <1>6 DEF NotOlder, s

\* What the guest writes while a handler is at work.
LEMMA MeanwhileGrows ==
  ASSUME disk \in [VMs -> Contents], NEW v \in VMs, NEW now \in Meanwhile(v)
  PROVE  /\ now \in Contents /\ NotOlder(now, disk[v])
         /\ world[v].power = "OFF" => now = disk[v]
<1>1. CASE now = disk[v]
  BY <1>1, NotOlderItself
<1>2. CASE now \in Written(v) /\ world[v].power # "OFF"
  BY <1>2, WrittenGrows
<1> QED
  BY <1>1, <1>2 DEF Meanwhile

\* A handler changes no content that was made before, and of the disks and
\* volumes only those of the VM at idx.
Framed ==
  /\ DataTypes' /\ due' = due /\ caught' = caught
  /\ \A i \in 1 .. made : content'[i] = content[i]
  /\ \A v \in VMs \ {idx} : disk'[v] = disk[v] /\ handed'[v] = handed[v]

LEMMA MadeFrame ==
  ASSUME made \in 0 .. MaxMade, DataTypes, idx \in VMs,
         NEW s, NEW j \in Nat, NEW now \in Meanwhile(idx), snapshotAndExport(s, j, now)
  PROVE  /\ content' \in [1 .. MaxMade -> Contents] /\ disk' \in [VMs -> Contents]
         /\ \A i \in 1 .. made : content'[i] = content[i]
         /\ \A v \in VMs \ {idx} : disk'[v] = disk[v]
<1>1. now \in Contents /\ disk[idx] \in Contents
  BY MeanwhileGrows DEF DataTypes
<1>2. ASSUME NEW i \in 1 .. made
      PROVE  i \in 1 .. MaxMade /\ i \notin SnapMade(s, j) /\ i \notin ImagesMade(s, j)
  BY BoundsAssumption DEF SnapMade, ImagesMade, Needed
<1>3. content' = [i \in 1 .. MaxMade |->
                   IF i \in SnapMade(s, j) THEN disk[idx]
                   ELSE IF i \in ImagesMade(s, j) THEN now ELSE content[i]]
  BY DEF snapshotAndExport
<1>4. content' \in [1 .. MaxMade -> Contents]
  BY <1>1, <1>3 DEF DataTypes
<1>5. \A i \in 1 .. made : content'[i] = content[i]
  BY <1>2, <1>3
<1> QED
  BY <1>1, <1>4, <1>5 DEF snapshotAndExport, DataTypes

LEMMA FillFrame ==
  ASSUME DataTypes, idx \in VMs, NEW r, NEW w, NEW n, Fill(r, w, n)
  PROVE  PerVM(handed)' /\ \A v \in VMs \ {idx} : handed'[v] = handed[v]
  BY DEF DataTypes, Fill, Filled, PerVM

LEMMA DataFrame ==
  ASSUME made \in 0 .. MaxMade, DataTypes, idx \in VMs, executePhase
  PROVE  Framed
<1>0. \A s, i : \A j \in 0 .. ToMake(s, i) : j \in Nat
  OBVIOUS
<1>1. CASE UNCHANGED <<content, disk, handed, due, caught>>
  <2>1. made <= MaxMade /\ \A i \in 1 .. made : i \in 1 .. MaxMade
    <3>1. made <= MaxMade
      BY BoundsAssumption
    <3> QED
      BY <3>1, Numbers, Zenon
  <2> QED
    BY <1>1, <2>1, Zenon DEF Framed, DataTypes, PerVM
<1>2. CASE SharedPhase /\ UNCHANGED warmVars
  BY <1>1, <1>2 DEF warmVars
<1>3. CASE phaseWaitBulkCopy
  BY <1>1, <1>3 DEF phaseWaitBulkCopy, warmVars
<1>4. CASE phaseBulkCopy
  <2>1. PICK j \in 0 .. ToMake(Res.snap, Res.imgs), now \in Meanwhile(idx) :
          /\ snapshotAndExport(Res.snap, j, now)
          /\ \/ handed' = handed
             \/ createDataVolumes(BulkAfter(j), SrcAfter(Res.snap, j))
    BY <1>4 DEF phaseBulkCopy
  <2>2. handed' = handed \/ \E r, w, n : Fill(r, w, n)
    BY <2>1, Zenon DEF createDataVolumes
  <2>3. PerVM(handed)' /\ \A v \in VMs \ {idx} : handed'[v] = handed[v]
    BY <2>2, FillFrame DEF DataTypes, PerVM
  <2>4. due' = due /\ caught' = caught
    BY <1>4 DEF phaseBulkCopy
  <2>5. /\ content' \in [1 .. MaxMade -> Contents] /\ disk' \in [VMs -> Contents]
        /\ \A i \in 1 .. made : content'[i] = content[i]
        /\ \A v \in VMs \ {idx} : disk'[v] = disk[v]
    BY <1>0, <2>1, MadeFrame, Zenon
  <2> QED
    BY <2>3, <2>4, <2>5 DEF Framed, DataTypes
<1>5. ASSUME NEW round, runDeltaRound(round), due' = due, caught' = caught
      PROVE  Framed
  <2>1. PICK j \in 0 .. ToMake(Warm.delta, Warm.deltaImgs), now \in Meanwhile(idx) :
          snapshotAndExport(Warm.delta, j, now) /\ handed' = handed
    BY <1>5, Zenon DEF runDeltaRound
  <2>2. /\ content' \in [1 .. MaxMade -> Contents] /\ disk' \in [VMs -> Contents]
        /\ \A i \in 1 .. made : content'[i] = content[i]
        /\ \A v \in VMs \ {idx} : disk'[v] = disk[v]
    BY <1>0, <2>1, MadeFrame
  <2> QED
    BY <1>5, <2>1, <2>2 DEF Framed, DataTypes, PerVM
<1>6. CASE phasePrecopy
  BY <1>1, <1>5, <1>6 DEF phasePrecopy
<1>7. CASE phaseFinalSync
  BY <1>1, <1>5, <1>7 DEF phaseFinalSync
<1> QED
  BY <1>2, <1>3, <1>4, <1>6, <1>7 DEF executePhase

\* The recovery points and images a status names are among those made.
LEMMA Places ==
  ASSUME NEW m \in Nat, NEW x \in Rounds, Ordered(x, m)
  PROVE  /\ x.base \in 1 .. m
         /\ x.delta # 0 => x.delta \in 1 .. m /\ \A d \in Disks : x.delta + d \in 1 .. m
<1>1. x.base \in Nat /\ x.delta \in Nat
  BY DEF Rounds
<1>2. x.base \in 1 .. m
  BY <1>1, DAssumption DEF Ordered
<1>3. ASSUME x.delta # 0
      PROVE  x.delta \in 1 .. m /\ \A d \in Disks : x.delta + d \in 1 .. m
  <2>1. x.delta + D <= m
    BY <1>3, Zenon DEF Ordered
  <2> QED
    BY <1>1, <1>3, <2>1, DAssumption DEF Disks
<1> QED
  BY <1>2, <1>3

\* What is made for another VM does not matter.
LEMMA CurrentLater ==
  ASSUME NEW m \in Nat, NEW x \in Rounds, Ordered(x, m), NEW pods, NEW c, NEW b, NEW s, NEW t,
         Current(x, pods, c, s, t), \A i \in 1 .. m : b[i] = c[i]
  PROVE  Current(x, pods, b, s, t)
<1>1. b[x.base] = c[x.base]
  BY Places
<1>2. x.delta # 0 => b[x.delta] = c[x.delta] /\ \A d \in Disks : b[x.delta + d] = c[x.delta + d]
  BY Places, Zenon
<1> QED
  BY <1>1, <1>2 DEF Current

LEMMA UpToDateLater ==
  ASSUME NEW p, NEW r, NEW w, NEW e, NEW m \in Nat, Sound(p, r, w, e, m),
         NEW c, NEW b, NEW s, NEW t, NEW u, NEW k, UpToDate(p, r, w, c, s, t, u, k),
         \A i \in 1 .. m : b[i] = c[i]
  PROVE  UpToDate(p, r, w, b, s, t, u, k)
<1>1. p \in Syncing => r.warm \in Rounds /\ Ordered(r.warm, m)
  BY Zenon DEF Sound, Fields
<1>2. p \in Syncing => Current(r.warm, w.pods, b, s, t)
  BY <1>1, CurrentLater DEF UpToDate
<1>3. p = "FinalSync" /\ r.warm.delta # 0 => b[r.warm.delta] = c[r.warm.delta]
  BY <1>1, Places, Zenon DEF Syncing
<1> QED
  BY <1>2, <1>3 DEF UpToDate

\* The source is written to.
LEMMA CurrentWritten ==
  ASSUME NEW x, NEW pods, NEW c, NEW s \in Contents, NEW now \in Contents, NEW t,
         NotOlder(now, s), Current(x, pods, c, s, t),
         x.delta # 0 => \A d \in Disks : c[x.delta + d] \in Contents
  PROVE  Current(x, pods, c, now, t)
<1>1. NotOlder(now, t)
  BY OlderThan, Zenon DEF Current
<1>2. ASSUME x.delta # 0, NEW d \in Disks PROVE now[d] >= c[x.delta + d][d]
  <2>1. s[d] >= c[x.delta + d][d] /\ now[d] >= s[d]
    BY <1>2, Zenon DEF Current, NotOlder
  <2>2. s[d] \in Nat /\ now[d] \in Nat /\ c[x.delta + d][d] \in Nat
    BY <1>2 DEF Contents
  <2> QED
    BY <2>1, <2>2
<1> QED
  BY <1>1, <1>2, Zenon DEF Current

----------------------------------------------------------------------------
(* Each outcome of a handler keeps the VM up to date.                      *)

\* The VM at idx is up to date, and its handler is at work.
AtWork(p) ==
  /\ made \in 0 .. MaxMade /\ made \in Nat /\ idx \in VMs /\ DataTypes /\ Framed
  /\ mem.vms[idx] = p /\ Sound(p, Res, Src, TRUE, made)
  /\ UpToDate(p, Res, Src, content, disk[idx], handed[idx], due, idx \in caught)

\* A round that is open, x being its fields, and what it says of the source
\* now that the handler returns.
OpenNow(p, x, now) ==
  /\ x \in Rounds /\ x.delta # 0 /\ x.pod = NoPod /\ now \in Contents
  /\ Current(x, {}, content', now, handed[idx])
  /\ content'[x.base] \in Contents /\ content'[x.delta] \in Contents
  /\ \A d \in Disks : content'[x.delta + d] \in Contents
  /\ disk'[idx] = now /\ handed'[idx] = handed[idx]
  /\ p = "FinalSync" /\ idx \notin caught => content'[x.delta] = now

LEMMA OpenedFacts ==
  ASSUME NEW p \in {"Precopy", "FinalSync"}, AtWork(p), NEW x, NEW now, Opened(x, now)
  PROVE  OpenNow(p, x, now)
<1> DEFINE s == disk[idx]
           t == handed[idx]
<1>0. /\ made \in 0 .. MaxMade /\ made \in Nat /\ idx \in VMs /\ p \in Syncing
      /\ content \in [1 .. MaxMade -> Contents] /\ disk \in [VMs -> Contents]
  BY DEF AtWork, DataTypes, Syncing
<1>1. /\ Warm \in Rounds /\ Ordered(Warm, made) /\ Accounted(Warm, Src)
      /\ p = "FinalSync" => Src.power = "OFF"
  BY <1>0, RoundFacts, Zenon DEF AtWork
<1>2. /\ now \in Contents /\ NotOlder(now, s) /\ s \in Contents
      /\ p = "FinalSync" => now = s
  BY <1>0, <1>1, MeanwhileGrows DEF Opened, Src
<1>3. /\ disk'[idx] = now /\ handed'[idx] = t /\ Warm.pod = NoPod /\ Src.pods = {}
  BY <1>0, <1>1, Zenon DEF Opened, Accounted
<1>4. Current(Warm, {}, content, s, t) /\ t \in Contents
  BY <1>0, <1>3 DEF AtWork, UpToDate, Warm, Current
<1>5. /\ Warm.base \in 1 .. made
      /\ Warm.delta # 0 => Warm.delta \in 1 .. made /\ \A d \in Disks : Warm.delta + d \in 1 .. made
  BY <1>0, <1>1, Places, Zenon
<1>6. \A i \in 1 .. made : content'[i] = content[i] /\ content[i] \in Contents
  <2>1. \A i \in 1 .. made : i \in 1 .. MaxMade
    BY <1>0, Numbers, Zenon
  <2> QED
    BY <1>0, <2>1 DEF AtWork, Framed
<1>7. Current(Warm, {}, content', s, t)
  BY <1>0, <1>1, <1>4, <1>6, CurrentLater, Zenon
<1>8. CASE Warm.delta # 0 /\ x = Warm
  <2>1. /\ content'[x.base] \in Contents /\ content'[x.delta] \in Contents
        /\ \A d \in Disks : content'[x.delta + d] \in Contents
    BY <1>5, <1>6, <1>8, Zenon
  <2>2. Current(x, {}, content', now, t)
    BY <1>2, <1>7, <1>8, <2>1, CurrentWritten, Zenon
  <2>3. p = "FinalSync" /\ idx \notin caught => content'[x.delta] = now
    BY <1>2, <1>5, <1>6, <1>8, Zenon DEF AtWork, UpToDate, Warm
  <2> QED
    BY <1>1, <1>2, <1>3, <1>8, <2>1, <2>2, <2>3 DEF OpenNow
<1>9. CASE /\ Warm.delta = 0 /\ MadeNow(now)
           /\ x = [Warm EXCEPT !.delta = made + 1, !.deltaImgs = Batch(made + 1)]
  <2>1. /\ content'[made + 1] = s /\ \A d \in Disks : content'[made + 1 + d] = now
    BY <1>0, <1>9, NewImages
  <2>2. made + 1 \in Nat /\ made + 1 # 0 /\ Batch(made + 1) \in SUBSET Nat
    BY <1>0, DAssumption DEF Batch
  <2>3. /\ x \in Rounds /\ x.base = Warm.base /\ x.delta = made + 1 /\ x.disk = 0 /\ x.pod = NoPod
    <3>1. Warm.disk = 0
      BY <1>1, <1>9, Zenon DEF Ordered
    <3> QED
      BY <1>1, <1>3, <1>9, <2>2, <3>1, Zenon DEF Rounds
  <2>4. content'[x.base] = content[Warm.base] /\ content'[x.base] \in Contents
    BY <1>5, <1>6, <2>3
  <2>5. NotOlder(t, content'[x.base]) /\ NotOlder(s, t)
    BY <1>4, <2>3, <2>4, Zenon DEF Current
  <2>6. NotOlder(s, content'[x.base]) /\ NotOlder(now, t)
    BY <1>2, <1>4, <2>4, <2>5, OlderThan
  <2>7. \A d \in Disks : now[d] >= s[d] /\ now[d] >= now[d] /\ ~(d <= 0)
    BY <1>2, Numbers, NotOlderItself, Zenon DEF NotOlder
  <2>8. Current(x, {}, content', now, t)
    BY <1>4, <2>1, <2>3, <2>5, <2>6, <2>7 DEF Current
  <2> QED
    BY <1>2, <1>3, <2>1, <2>2, <2>3, <2>4, <2>8 DEF OpenNow
<1> QED
  BY <1>8, <1>9 DEF Opened

\* The phases a handler runs in.
Handled == (BeforeStore \ {"None", "Pending"}) \cup {"BulkCopy"} \cup Syncing
             \cup (Synced \ {"Completed"})

LEMMA HandlerPhases == executePhase => mem.vms[idx] \in Handled
  BY Zenon DEF executePhase, SharedPhase, runHook, phaseStorePowerState, phasePowerOff,
    phaseWaitForPowerOff, phaseBulkCopy, phaseWaitBulkCopy, phasePrecopy, phaseFinalSync,
    phaseCreateVM, phaseStartVM, phaseCleanup, At, Handled, BeforeStore, Syncing, Synced

LEMMA UpToDatePassed ==
  ASSUME NEW p \in Handled, AtWork(p), NEW q, NEW r, NEW w, Passed(q, r, w)
  PROVE  UpToDate(q, r, w, content', disk'[idx], handed'[idx], due, idx \in caught)
<1>1. /\ content' = content /\ disk' = disk /\ handed' = handed
      /\ r.warm = Res.warm /\ w.pods = Src.pods
  BY Zenon DEF Passed, Warm
<1>2. /\ mem.vms[idx] = p
      /\ p \in Syncing => Current(r.warm, w.pods, content', disk'[idx], handed'[idx])
      /\ idx \notin caught =>
           /\ p \in {"PowerOff", "WaitForPowerOff"} \/ (p = "Precopy" /\ due) => r.warm.delta = 0
           /\ p = "FinalSync" /\ r.warm.delta # 0 => content'[r.warm.delta] = disk'[idx]
           /\ p = "CreateVM" => handed'[idx] = disk'[idx]
  BY <1>1, Zenon DEF AtWork, UpToDate
<1>3. CASE q = p
  BY <1>2, <1>3, Zenon DEF UpToDate
<1>4. CASE q = AfterWarm(p) /\ p \notin {"BulkCopy", "FinalSync"} /\ (p = "Precopy" => due)
  <2>1. p = "WaitBulkCopy" => r.warm.delta = 0
    BY <1>1, Zenon DEF AtWork, Sound
  <2>2. CASE p \in Syncing
    <3>1. \/ p = "WaitBulkCopy" /\ q = "Precopy"
          \/ p = "Precopy" /\ q = "PowerOff"
          \/ p = "PowerOff" /\ q = "WaitForPowerOff"
          \/ p = "WaitForPowerOff" /\ q = "FinalSync"
      BY <1>4, <2>2, WarmSuccessors, Zenon DEF Syncing
    <3>2. idx \notin caught => r.warm.delta = 0
      BY <1>2, <1>4, <2>1, <3>1
    <3>3. q # "CreateVM"
      BY <3>1, Zenon
    <3> QED
      BY <1>2, <2>2, <3>2, <3>3 DEF UpToDate
  <2>3. CASE p \notin Syncing
    <3>1. q \notin Syncing /\ q # "CreateVM"
      BY <1>4, <2>3, WarmSuccessors, Zenon DEF Handled, BeforeStore, Syncing, Synced
    <3> QED
      BY <3>1 DEF UpToDate, Syncing
  <2> QED
    BY <2>2, <2>3
<1> QED
  BY <1>2, <1>3, <1>4 DEF Passed

LEMMA UpToDateBulkCopied ==
  ASSUME NEW p, AtWork(p), NEW q, NEW r, NEW w, BulkCopied(q, r, w)
  PROVE  UpToDate(q, r, w, content', disk'[idx], handed'[idx], due, idx \in caught)
<1>0. /\ made \in Nat /\ idx \in VMs /\ disk \in [VMs -> Contents] /\ PerVM(handed)
  BY DEF AtWork, DataTypes
<1>1. PICK now \in Meanwhile(idx) :
        /\ MadeNow(now) /\ disk' = [disk EXCEPT ![idx] = now]
        /\ handed' = [handed EXCEPT ![idx] = [d \in Disks |-> now[d]]]
  BY Zenon DEF BulkCopied
<1>2. now \in Contents /\ NotOlder(now, disk[idx])
  BY <1>0, MeanwhileGrows
<1>3. disk'[idx] = now /\ handed'[idx] = now
  BY <1>0, <1>1, <1>2 DEF PerVM, Contents
<1>4. r.warm.base = made + 1 /\ r.warm.delta = 0
  BY Zenon DEF BulkCopied, NoWarm
<1>5. content'[r.warm.base] = disk[idx]
  BY <1>0, <1>1, <1>4, NewImages, Zenon
<1>6. Current(r.warm, w.pods, content', disk'[idx], handed'[idx])
  BY <1>2, <1>3, <1>4, <1>5, NotOlderItself DEF Current
<1>7. q = "WaitBulkCopy"
  BY Zenon DEF BulkCopied
<1> QED
  BY <1>4, <1>6, <1>7, Zenon DEF UpToDate

\* A round in which one disk more is done, or a pod is at work.
LEMMA UpToDateInRound ==
  ASSUME NEW p, NEW q, NEW r, NEW w, NEW c, NEW s, NEW t, InRound(q, w), mem.vms[idx] = p,
         Current(r.warm, w.pods, c, s, t),
         p = "FinalSync" /\ idx \notin caught /\ r.warm.delta # 0 => c[r.warm.delta] = s
  PROVE  UpToDate(q, r, w, c, s, t, due, idx \in caught)
  BY Zenon DEF InRound, UpToDate

\* x and y are the same round, and y is at most one disk further.
LEMMA CurrentFurther ==
  ASSUME NEW x, NEW y, NEW pods, NEW new, NEW c, NEW s, NEW t, Current(x, pods, c, s, t),
         y.base = x.base, y.delta = x.delta,
         \A d \in Disks : d <= y.disk => d <= x.disk \/ t[d] >= c[x.delta][d],
         \A q \in new : q.phase # "Succeeded"
  PROVE  Current(y, new, c, s, t)
  BY Zenon DEF Current

LEMMA UpToDatePodDone ==
  ASSUME NEW p, AtWork(p), NEW q, NEW r, NEW w, PodDone(q, r, w)
  PROVE  UpToDate(q, r, w, content', disk'[idx], handed'[idx], due, idx \in caught)
<1> DEFINE c == content'
           s == disk'[idx]
           t == handed'[idx]
           pod == PodAt(Warm, "Succeeded")
<1>0. /\ content' = content /\ disk' = disk /\ handed' = handed /\ mem.vms[idx] = p
      /\ p \in {"Precopy", "FinalSync"} /\ p \in Syncing /\ made \in Nat
      /\ pod \in Src.pods /\ Warm.pod # NoPod /\ InRound(q, w)
  BY Zenon DEF AtWork, PodDone, InRound, Syncing
<1>1. Warm \in Rounds /\ Ordered(Warm, made)
  BY <1>0, RoundFacts, Zenon DEF AtWork
<1>2. /\ Current(Warm, Src.pods, c, s, t)
      /\ p = "FinalSync" /\ idx \notin caught /\ Warm.delta # 0 => c[Warm.delta] = s
  BY <1>0, Zenon DEF AtWork, UpToDate, Warm
<1>3. /\ r.warm.base = Warm.base /\ r.warm.delta = Warm.delta /\ r.warm.disk = Warm.disk + 1
      /\ w.pods = {}
  BY <1>1, Zenon DEF PodDone, Rounds
<1>4. Warm.delta # 0 /\ Warm.pod[2] = Warm.disk + 1 /\ Warm.disk \in Nat
  BY <1>0, <1>1 DEF Ordered, Rounds
<1>5. t[Warm.disk + 1] >= c[Warm.delta][Warm.disk + 1]
  <2>1. pod.phase = "Succeeded" /\ pod.name = Warm.pod
    BY Zenon DEF PodAt
  <2> QED
    BY <1>0, <1>2, <1>4, <2>1 DEF Current
<1>6. \A d \in Disks : d <= r.warm.disk => d <= Warm.disk \/ d = Warm.disk + 1
  BY <1>3, <1>4 DEF Disks
<1> HIDE DEF c, s, t
<1>7. Current(r.warm, w.pods, c, s, t)
  BY <1>2, <1>3, <1>5, <1>6, CurrentFurther
<1> QED
  BY <1>0, <1>2, <1>3, <1>7, UpToDateInRound DEF c, s, t

\* A disk that has not changed since the base has all of the delta.
LEMMA UnchangedIsDone ==
  ASSUME NEW p, NEW x, NEW now, OpenNow(p, x, now), NEW d \in Disks, Unchanged(x, d)
  PROVE  handed[idx][d] >= content'[x.delta][d]
<1>1. NotOlder(handed[idx], content'[x.base])
  BY Zenon DEF OpenNow, Current
<1> QED
  BY <1>1, Zenon DEF NotOlder, Unchanged

LEMMA UpToDateWorked ==
  ASSUME NEW p, AtWork(p), NEW q, NEW r, NEW w, Worked(q, r, w)
  PROVE  UpToDate(q, r, w, content', disk'[idx], handed'[idx], due, idx \in caught)
<1> DEFINE c == content'
           s == disk'[idx]
           t == handed'[idx]
<1>0. mem.vms[idx] = p /\ p \in {"Precopy", "FinalSync"} /\ InRound(q, w)
  BY DEF AtWork, Worked, InRound
<1>1. PICK x, now, round :
        /\ Opened(x, now) /\ x.disk < D
        /\ \/ /\ Unchanged(x, x.disk + 1)
              /\ r.warm = [x EXCEPT !.disk = x.disk + 1]
              /\ w.pods = {}
           \/ /\ r.warm = [x EXCEPT !.pod = <<round, x.disk + 1>>]
              /\ w.pods = {PodAt(r.warm, "Pending")}
  BY Zenon DEF Worked
<1>2. OpenNow(p, x, now)
  BY <1>0, <1>1, OpenedFacts, Zenon
<1>3. /\ x \in Rounds /\ x.disk \in Nat /\ x.delta # 0 /\ Current(x, {}, c, s, t)
      /\ handed'[idx] = handed[idx]
      /\ p = "FinalSync" /\ idx \notin caught => c[x.delta] = s
  BY <1>2 DEF OpenNow, Rounds
<1>4. r.warm.base = x.base /\ r.warm.delta = x.delta
  BY <1>1, <1>3 DEF Rounds
<1>5. Current(r.warm, w.pods, c, s, t)
  <2>1. CASE Unchanged(x, x.disk + 1) /\ r.warm = [x EXCEPT !.disk = x.disk + 1] /\ w.pods = {}
    <3>1. r.warm.disk = x.disk + 1
      BY <1>3, <2>1, Zenon DEF Rounds
    <3>2. \A d \in Disks : d <= r.warm.disk => d <= x.disk \/ d = x.disk + 1
      BY <1>3, <3>1 DEF Disks
    <3>3. x.disk + 1 \in Disks
      BY <1>1, <1>3, DAssumption DEF Disks
    <3>4. t[x.disk + 1] >= c[x.delta][x.disk + 1]
      BY <1>2, <1>3, <2>1, <3>3, UnchangedIsDone, Zenon
    <3> HIDE DEF c, s, t
    <3> QED
      BY <1>3, <1>4, <2>1, <3>2, <3>4, CurrentFurther, Zenon
  <2>2. CASE /\ r.warm = [x EXCEPT !.pod = <<round, x.disk + 1>>]
             /\ w.pods = {PodAt(r.warm, "Pending")}
    <3>1. r.warm.disk = x.disk
      BY <1>3, <2>2 DEF Rounds
    <3>2. \A k \in w.pods : k.phase # "Succeeded"
      BY <2>2 DEF PodAt
    <3> HIDE DEF c, s, t
    <3> QED
      BY <1>3, <1>4, <3>1, <3>2, CurrentFurther
  <2> QED
    BY <1>1, <2>1, <2>2
<1> QED
  BY <1>0, <1>3, <1>4, <1>5, UpToDateInRound

\* When all disks of a round are done the target has all of its delta.
LEMMA RoundIsDone ==
  ASSUME NEW p, NEW x, NEW now, OpenNow(p, x, now), AllDone(x)
  PROVE  NotOlder(handed[idx], content'[x.delta])
<1> SUFFICES ASSUME NEW d \in Disks PROVE handed[idx][d] >= content'[x.delta][d]
  BY Zenon DEF NotOlder
<1>1. x \in Rounds /\ x.disk \in Nat /\ x.delta # 0 /\ Current(x, {}, content', now, handed[idx])
  BY DEF OpenNow, Rounds
<1>2. CASE d <= x.disk
  BY <1>1, <1>2, Zenon DEF Current
<1>3. CASE ~(d <= x.disk)
  <2>1. d = D /\ Unchanged(x, D)
    <3>1. d \in Nat /\ d <= D /\ D \in Nat
      BY Numbers, DAssumption
    <3>2. CASE x.disk = D
      BY <1>1, <1>3, <3>1, <3>2, Zenon
    <3>3. CASE x.disk + 1 = D /\ Unchanged(x, D)
      BY <1>1, <1>3, <3>1, <3>3
    <3> QED
      BY <3>2, <3>3, Zenon DEF AllDone
  <2> QED
    BY <2>1, UnchangedIsDone
<1> QED
  BY <1>2, <1>3, Zenon

LEMMA UpToDatePromoted ==
  ASSUME NEW p, AtWork(p), NEW q, NEW r, NEW w, Promoted(q, r, w)
  PROVE  UpToDate(q, r, w, content', disk'[idx], handed'[idx], due, idx \in caught)
<1>0. mem.vms[idx] = p /\ p = "Precopy" /\ InRound(q, w)
  BY DEF AtWork, Promoted, InRound
<1>1. PICK x, now :
        /\ Opened(x, now) /\ AllDone(x)
        /\ r.warm = [NoWarm EXCEPT !.base = x.delta, !.baseImgs = x.deltaImgs,
                                   !.rounds = x.rounds + 1]
  BY Zenon DEF Promoted
<1>2. OpenNow(p, x, now)
  BY <1>0, <1>1, OpenedFacts
<1>3. r.warm.base = x.delta /\ r.warm.delta = 0
  BY <1>1 DEF NoWarm
<1>4. NotOlder(handed'[idx], content'[x.delta])
  BY <1>1, <1>2, RoundIsDone, Zenon DEF OpenNow
<1>5. Current(r.warm, w.pods, content', disk'[idx], handed'[idx])
  BY <1>2, <1>3, <1>4, Zenon DEF Current, OpenNow
<1> QED
  BY <1>0, <1>3, <1>5, UpToDateInRound

\* The last round is done: the target has all that was written.
LEMMA UpToDateFinished ==
  ASSUME NEW p, AtWork(p), NEW q, NEW r, NEW w, Finished(q, r, w)
  PROVE  UpToDate(q, r, w, content', disk'[idx], handed'[idx], due, idx \in caught)
<1>0. p = "FinalSync" /\ q = "CreateVM"
  BY DEF AtWork, Finished
<1>1. PICK x, now : Opened(x, now) /\ AllDone(x)
  BY Zenon DEF Finished
<1>2. OpenNow(p, x, now)
  BY <1>0, <1>1, OpenedFacts
<1>3. /\ idx \notin caught => NotOlder(handed[idx], now)
      /\ NotOlder(now, handed[idx]) /\ handed[idx] \in Contents
  BY <1>0, <1>1, <1>2, RoundIsDone, Zenon DEF OpenNow, Current
<1>4. idx \notin caught => handed[idx] = now
  BY <1>2, <1>3, SameContent, Zenon DEF OpenNow
<1> QED
  BY <1>0, <1>2, <1>4 DEF UpToDate, OpenNow, Syncing

LEMMA UpToDateOutcome ==
  ASSUME NEW p \in Handled, AtWork(p), NEW q, NEW r, NEW w, Outcome(q, r, w)
  PROVE  UpToDate(q, r, w, content', disk'[idx], handed'[idx], due, idx \in caught)
<1>1. CASE q = "Failed"
  BY <1>1, Zenon DEF UpToDate, Syncing
<1> QED
  BY <1>1, UpToDatePassed, UpToDateBulkCopied, UpToDatePodDone, UpToDateWorked,
     UpToDatePromoted, UpToDateFinished, Zenon DEF Outcome

----------------------------------------------------------------------------
(* The steps outside the handlers.                                         *)

LEMMA UpToDateIdle ==
  ASSUME NEW p, NEW q, NEW r, NEW w, NEW c, NEW s, NEW t, NEW u, NEW k, UpToDate(p, r, w, c, s, t, u, k),
         \/ q = p
         \/ p = "None" /\ q = "Pending"
         \/ p = "Pending" /\ q = "PreHook"
         \/ q = "Cancelled"
  PROVE  UpToDate(q, r, w, c, s, t, u, k)
<1>1. q = p \/ q \in {"Pending", "PreHook", "Cancelled"}
  BY Zenon
<1> QED
  BY <1>1 DEF UpToDate, Syncing

LEMMA UpToDateDrift ==
  ASSUME NEW p, NEW r, NEW w, NEW o, NEW c, NEW s, NEW t, NEW u, NEW k, UpToDate(p, r, w, c, s, t, u, k),
         o.pods \subseteq w.pods
  PROVE  UpToDate(p, r, o, c, s, t, u, k)
  BY Zenon DEF UpToDate, Current

\* The guest writes only while the source runs.
LEMMA UpToDateWritten ==
  ASSUME NEW p, NEW r, NEW w, NEW e, NEW m \in 0 .. MaxMade, Sound(p, r, w, e, m),
         NEW c \in [1 .. MaxMade -> Contents], NEW s \in Contents, NEW now \in Contents,
         NEW t, NEW u, NEW k, UpToDate(p, r, w, c, s, t, u, k), NotOlder(now, s), w.power # "OFF"
  PROVE  UpToDate(p, r, w, c, now, t, u, k)
<1>1. p \notin {"FinalSync", "CreateVM"}
  BY Zenon DEF Sound, Synced
<1>2. ASSUME p \in Syncing PROVE Current(r.warm, w.pods, c, now, t)
  <2>1. r.warm \in Rounds /\ Ordered(r.warm, m)
    BY <1>2, Zenon DEF Sound, Fields
  <2>2. m \in Nat /\ \A i \in 1 .. m : i \in 1 .. MaxMade
    BY Numbers, Zenon
  <2>3. r.warm.delta # 0 => \A d \in Disks : c[r.warm.delta + d] \in Contents
    BY <2>1, <2>2, Places, Zenon
  <2> QED
    BY <1>2, <2>3, CurrentWritten, Zenon DEF UpToDate
<1> QED
  BY <1>1, <1>2 DEF UpToDate

\* A pod copies the image of its disk.
LEMMA UpToDatePodEnds ==
  ASSUME NEW p, NEW r, NEW w, NEW e, NEW m \in 0 .. MaxMade, Sound(p, r, w, e, m),
         NEW c \in [1 .. MaxMade -> Contents], NEW s \in Contents, NEW t, NEW u, NEW k,
         UpToDate(p, r, w, c, s, t, u, k),
         NEW q \in w.pods, q.phase = "Pending", NEW end \in {"Succeeded", "Failed"},
         NEW o, o.pods = {[q EXCEPT !.phase = end]},
         NEW n, n = IF end = "Succeeded" THEN [t EXCEPT ![q.name[2]] = c[q.img][q.name[2]]] ELSE t
  PROVE  UpToDate(p, r, o, c, s, n, u, k)
<1> DEFINE x == r.warm
           d == q.name[2]
<1>1. p # "CreateVM"
  BY DEF Sound, Synced
<1>2. q \in Pods
  BY Zenon DEF Sound, Worlds, WorldsOf
<1>3. ASSUME NEW y \in o.pods PROVE y.name = q.name /\ y.phase = end
  BY <1>2, <1>3 DEF Pods
<1>4. ASSUME p \in Syncing PROVE Current(x, o.pods, c, s, n)
  <2>1. x \in Rounds /\ Ordered(x, m) /\ Accounted(x, w) /\ Current(x, w.pods, c, s, t)
    BY <1>4 DEF Sound, Fields, UpToDate
  <2>2. x.pod # NoPod /\ q = PodAt(x, "Pending")
    BY <2>1 DEF Accounted, PodAt
  <2>3. /\ x.delta # 0 /\ x.disk \in Nat /\ x.delta \in Nat /\ d = x.disk + 1 /\ d \in Disks
        /\ q.img = x.delta + d
    <3>1. x.delta # 0 /\ x.disk < D /\ q.name = x.pod /\ x.pod[2] = x.disk + 1
          /\ q.img = x.delta + x.disk + 1
      BY <2>1, <2>2 DEF Ordered, PodAt
    <3>2. x.disk \in Nat /\ x.delta \in Nat
      BY <2>1 DEF Rounds
    <3>3. d = x.disk + 1
      BY <3>1, Zenon
    <3> HIDE DEF x, d
    <3>4. x.disk + 1 \in Disks /\ x.delta + x.disk + 1 = x.delta + (x.disk + 1)
      BY <3>1, <3>2, DAssumption, SMT DEF Disks
    <3> QED
      BY <3>1, <3>2, <3>3, <3>4, Zenon
  <2>4. CASE end = "Failed"
    <3>1. \A y \in o.pods : y.phase # "Succeeded"
      BY <1>3, <2>4, Zenon
    <3> QED
      BY <2>1, <2>4, <3>1, CurrentFurther, Zenon
  <2>5. CASE end = "Succeeded"
    <3> DEFINE a == c[x.delta + d][d]
    <3>1. t \in Contents /\ n = [t EXCEPT ![d] = a]
      BY <2>1, <2>3, <2>5 DEF Current
    <3>2. m \in Nat /\ \A i \in 1 .. m : i \in 1 .. MaxMade
      BY Numbers, Zenon
    <3>3. c[x.base] \in Contents /\ c[x.delta] \in Contents /\ c[x.delta + d] \in Contents
      BY <2>1, <2>3, <3>2, Places, Zenon
    <3>4. a \in Nat /\ c[x.base][d] \in Nat /\ c[x.delta][d] \in Nat /\ s[d] \in Nat
      BY <2>3, <3>3, Zenon DEF Contents
    <3>5. a >= c[x.delta][d] /\ s[d] >= a /\ c[x.delta][d] >= c[x.base][d]
      BY <2>1, <2>3, Zenon DEF Current, NotOlder
    <3> HIDE DEF a, d, x
    <3>6. a >= c[x.base][d]
      BY <3>4, <3>5
    <3>7. n \in Contents /\ n[d] = a /\ \A b \in Disks \ {d} : n[b] = t[b]
      BY <2>3, <3>1, <3>4, Zenon DEF Contents
    <3>8. NotOlder(n, c[x.base]) /\ NotOlder(s, n)
      BY <2>1, <3>5, <3>6, <3>7, Zenon DEF Current, NotOlder
    <3>9. \A b \in Disks : b <= x.disk => n[b] >= c[x.delta][b]
      <4>1. \A b \in Disks : b <= x.disk => b # d
        BY <2>3, Numbers
      <4> QED
        BY <2>1, <2>3, <3>7, <4>1, Zenon DEF Current
    <3>10. \A y \in o.pods : n[y.name[2]] >= c[x.delta][y.name[2]]
      BY <1>3, <3>5, <3>7, Zenon DEF d
    <3> QED
      BY <2>1, <3>7, <3>8, <3>9, <3>10, Zenon DEF Current
  <2> QED
    BY <2>4, <2>5
<1> QED
  BY <1>1, <1>4 DEF UpToDate

LEMMA InitUpToDate == WarmInit => UpToDateInv
<1> SUFFICES ASSUME WarmInit PROVE UpToDateInv
  OBVIOUS
<1>1. NoWrites \in Contents
  BY DEF NoWrites, Contents
<1>2. DataTypes
  BY <1>1 DEF DataTypes, WarmInit, PerVM
<1>3. \A v \in VMs : PhaseOf(v) = "None"
  BY Zenon DEF WarmInit, PipelineInit, Init, PhaseOf, NewObject
<1>4. caught = {}
  BY Zenon DEF WarmInit
<1> QED
  BY <1>2, <1>3, <1>4 DEF UpToDateInv, UpToDate, Syncing

\* Of all handlers only phaseCreateVM creates the target.
LEMMA CreatesAtCreateVM ==
  ASSUME NEW p \in Handled, mem.vms[idx] = p, Sound(p, Res, Src, TRUE, made),
         NEW q, NEW r, NEW w, NEW m, Sound(q, r, w, TRUE, m), Outcome(q, r, w),
         Src.kv = "None", w.kv # "None"
  PROVE  p = "CreateVM"
<1>1. p \in BeforeCopy \cup Syncing \cup {"CreateVM"}
  <2>1. Target # "None"
    BY DEF Target
  <2>2. p \notin {"StartVM"} \cup AfterStart
    BY <2>1, Zenon DEF Sound
  <2> QED
    BY <2>2 DEF Handled, BeforeCopy, Synced, AfterStart
<1>2. q \notin BeforeCopy \cup Syncing \cup {"CreateVM"}
  BY Zenon DEF Sound
<1>3. Passed(q, r, w)
  BY <1>2, Zenon DEF Outcome, BulkCopied, PodDone, Worked, Promoted, Finished, InRound, Syncing
<1>4. q = AfterWarm(p) /\ p \notin {"BulkCopy", "FinalSync"}
  BY <1>1, <1>2, <1>3, Zenon DEF Passed
<1> QED
  BY <1>1, <1>2, <1>4, WarmSuccessors, Zenon DEF Handled, BeforeCopy, BeforeStore, Syncing, Synced

\* The steps, given what a handler finds and what comes of it.
LEMMA UpToDateStep ==
  ASSUME executePhase => Handles, Undisturbed, Answered,
         IInv, CalmInv, SoundInv, UpToDateInv, [WarmNext]_warmAllVars
  PROVE  UpToDateInv'
<1>0. /\ made \in 0 .. MaxMade /\ made \in Nat /\ DataTypes
      /\ content \in [1 .. MaxMade -> Contents] /\ disk \in [VMs -> Contents] /\ PerVM(handed)
  BY Numbers, Zenon DEF SoundInv, UpToDateInv, DataTypes
<1>c. ~due => caught = {}
  BY Zenon DEF UpToDateInv
<1>s. ASSUME NEW v \in VMs
      PROVE  /\ Sound(PhaseOf(v), ResOf(v), world[v], obj.exists, made)
             /\ UpToDate(PhaseOf(v), ResOf(v), world[v],
                         content, disk[v], handed[v], due, v \in caught)
  BY Zenon DEF SoundInv, UpToDateInv
<1>1. CASE executePhase
  <2>1. /\ idx \in VMs /\ obj.exists /\ PhaseOf(idx) = mem.vms[idx] /\ ResOf(idx) = Res
    BY <1>1, Zenon DEF Handles
  <2>2. PICK q, r, w : Outcome(q, r, w) /\ StepTo(q, r, w)
    BY <1>1, Zenon DEF Handles
  <2>3. Framed
    BY <1>0, <1>1, <2>1, DataFrame
  <2>4. mem.vms[idx] \in Handled
    BY <1>1, HandlerPhases
  <2>5. AtWork(mem.vms[idx])
    <3>1. Sound(mem.vms[idx], Res, Src, TRUE, made)
      BY <1>1, Zenon DEF Handles
    <3> QED
      BY <1>0, <1>s, <2>1, <2>3, <3>1, Zenon DEF AtWork, Src
  <2>6. UpToDate(q, r, w, content', disk'[idx], handed'[idx], due, idx \in caught)
    BY <2>2, <2>4, <2>5, UpToDateOutcome, Zenon
  <2>7. ASSUME NEW v \in VMs
        PROVE  UpToDate(PhaseOf(v)', ResOf(v)', world'[v],
                        content', disk'[v], handed'[v], due', v \in caught')
    <3>1. CASE v = idx
      BY <2>2, <2>3, <2>6, <3>1, Zenon DEF StepTo, Framed
    <3>2. CASE v # idx
      <4>1. /\ PhaseOf(v)' = PhaseOf(v) /\ ResOf(v)' = ResOf(v) /\ world'[v] = world[v]
            /\ disk'[v] = disk[v] /\ handed'[v] = handed[v] /\ due' = due /\ caught' = caught
            /\ \A i \in 1 .. made : content'[i] = content[i]
        BY <2>2, <2>3, <3>2, Zenon DEF StepTo, Framed
      <4>2. UpToDate(PhaseOf(v), ResOf(v), world[v],
                     content', disk[v], handed[v], due, v \in caught)
        BY <1>0, <1>s, <4>1, UpToDateLater, Zenon
      <4> QED
        BY <4>1, <4>2, Zenon
    <3> QED
      BY <3>1, <3>2
  <2> QED
    BY <1>c, <2>3, <2>7, Zenon DEF UpToDateInv, Framed, DataTypes
<1>2. CASE /\ \/ ReconcileOnly \/ PipelineBeginPass \/ PipelineSaveStatus \/ PipelineLoseStatus
              \/ PipelineUser \/ PipelineCrash \/ PipelineDeliver
           /\ UNCHANGED warmVars
  <2>1. \A v \in VMs : Idles(v) /\ world'[v] = world[v]
    BY <1>2, IdleStep, Zenon
  <2>2. UNCHANGED <<content, disk, handed, due, caught>>
    BY <1>2 DEF warmVars
  <2>3. ASSUME NEW v \in VMs
        PROVE  UpToDate(PhaseOf(v)', ResOf(v)', world'[v],
                        content', disk'[v], handed'[v], due', v \in caught')
    <3>1. UpToDate(PhaseOf(v)', ResOf(v), world[v], content, disk[v], handed[v], due, v \in caught)
      BY <1>s, <2>1, UpToDateIdle, Zenon DEF Idles
    <3> QED
      BY <2>1, <2>2, <3>1, Zenon DEF Idles
  <2> QED
    BY <1>0, <1>c, <2>2, <2>3, Zenon DEF UpToDateInv, DataTypes, PerVM
<1>3. ASSUME UNCHANGED <<vars, resVars, content>>, disk' \in [VMs -> Contents], PerVM(handed)',
             ~due' => caught' = {},
             \A v \in VMs : UpToDate(PhaseOf(v), ResOf(v), world'[v],
                                     content, disk'[v], handed'[v], due', v \in caught')
      PROVE  UpToDateInv'
  <2>1. \A v \in VMs : PhaseOf(v)' = PhaseOf(v) /\ ResOf(v)' = ResOf(v)
    BY <1>3, Zenon DEF PhaseOf, ResOf, vars, resVars
  <2> QED
    BY <1>0, <1>3, <2>1, Zenon DEF UpToDateInv, DataTypes
<1>4. CASE PipelineCloud /\ UNCHANGED warmVars
  <2>1. UNCHANGED <<vars, resVars>> /\ UNCHANGED <<content, disk, handed, due, caught>>
    BY <1>4, Zenon DEF PipelineCloud, PowerSettles, KubeVirtVMSeen, ImportEnds, GarbageCollect, warmVars
  <2> DEFINE P == SUBSET Pods
  <2>2. world \in [VMs -> WorldsOf(P)]
    BY Zenon DEF SoundInv, Sound, CalmInv, PerVM, Worlds
  <2> HIDE DEF P
  <2>3. \A v \in VMs : Drifts(world[v], world'[v], obj.exists)
    BY <1>4, <2>2, CloudDrifts
  <2>4. ASSUME NEW v \in VMs
        PROVE  UpToDate(PhaseOf(v), ResOf(v), world'[v],
                        content, disk[v], handed[v], due, v \in caught)
    BY <1>s, <2>3, UpToDateDrift, Zenon DEF Drifts
  <2> QED
    BY <1>0, <1>3, <1>c, <2>1, <2>4 DEF PerVM
<1>5. ASSUME NEW v \in VMs, PodEnds(v) PROVE UpToDateInv'
  <2>1. PICK q \in world[v].pods, end \in {"Succeeded", "Failed"} :
          /\ q.phase = "Pending"
          /\ world' = [world EXCEPT ![v].pods = (@ \ {q}) \cup {[q EXCEPT !.phase = end]}]
          /\ handed' = IF end = "Succeeded"
                       THEN [handed EXCEPT ![v][q.name[2]] = content[q.img][q.name[2]]] ELSE handed
          /\ UNCHANGED <<vars, resVars, disk, content, due, caught>>
    BY <1>5, Zenon DEF PodEnds
  <2> DEFINE pods == (world[v].pods \ {q}) \cup {[q EXCEPT !.phase = end]}
             o == [world[v] EXCEPT !.pods = pods]
             n == IF end = "Succeeded"
                  THEN [handed[v] EXCEPT ![q.name[2]] = content[q.img][q.name[2]]] ELSE handed[v]
  <2>2. world' = [world EXCEPT ![v] = o]
    BY <2>1, Zenon
  <2>3. PerVM(handed)' /\ handed'[v] = n /\ \A u \in VMs \ {v} : handed'[u] = handed[u]
    BY <1>0, <2>1 DEF PerVM
  <2>4. pods = {[q EXCEPT !.phase = end]} /\ world[v] \in Worlds /\ PerVM(world)
    BY <1>s, Zenon DEF Sound, CalmInv
  <2> HIDE DEF pods, n
  <2>5. o.pods = pods
    BY <2>4 DEF Worlds, WorldsOf
  <2> HIDE DEF o
  <2>6. UpToDate(PhaseOf(v), ResOf(v), o, content, disk[v], n, due, v \in caught)
    BY <1>0, <1>s, <2>1, <2>4, <2>5, UpToDatePodEnds, Zenon DEF n
  <2>7. ASSUME NEW u \in VMs
        PROVE  UpToDate(PhaseOf(u), ResOf(u), world'[u],
                        content, disk[u], handed'[u], due, u \in caught)
    <3>1. world'[v] = o /\ (u # v => world'[u] = world[u])
      BY <2>2, <2>4, Zenon DEF PerVM
    <3> QED
      BY <1>s, <2>3, <2>6, <3>1, Zenon
  <2> QED
    BY <1>0, <1>3, <1>c, <2>1, <2>3, <2>7, Zenon
<1>6. ASSUME NEW v \in VMs, GuestWrites(v) PROVE UpToDateInv'
  <2>1. PICK now \in Written(v) : /\ disk' = [disk EXCEPT ![v] = now] /\ world[v].power # "OFF"
                                  /\ UNCHANGED <<vars, resVars, world, content, handed, due, caught>>
    BY <1>6, Zenon DEF GuestWrites, allVars, pipelineVars, resVars
  <2>2. now \in Contents /\ NotOlder(now, disk[v])
    BY <1>0, WrittenGrows
  <2>3. UpToDate(PhaseOf(v), ResOf(v), world[v], content, now, handed[v], due, v \in caught)
    BY <1>0, <1>s, <2>1, <2>2, UpToDateWritten, Zenon
  <2>4. disk' \in [VMs -> Contents] /\ disk'[v] = now /\ \A u \in VMs \ {v} : disk'[u] = disk[u]
    BY <1>0, <2>1, <2>2, Zenon
  <2>5. ASSUME NEW u \in VMs
        PROVE  UpToDate(PhaseOf(u), ResOf(u), world'[u],
                        content, disk'[u], handed'[u], due', u \in caught')
    BY <1>s, <2>1, <2>3, <2>4, Zenon
  <2> QED
    BY <1>0, <1>3, <1>c, <2>1, <2>4, <2>5 DEF PerVM
<1>7. CASE CutoverComes
  <2>1. /\ caught' = {v \in VMs : ResOf(v).warm.delta # 0} /\ ~due
        /\ due' = TRUE /\ UNCHANGED <<vars, resVars, world, content, disk, handed>>
    BY <1>7, Zenon DEF CutoverComes, RoundOpen, allVars, pipelineVars, resVars
  <2>2. ASSUME NEW v \in VMs
        PROVE  UpToDate(PhaseOf(v), ResOf(v), world'[v],
                        content, disk'[v], handed'[v], due', v \in caught')
    <3>1. v \notin caught /\ (v \notin caught' => ResOf(v).warm.delta = 0)
      BY <1>c, <2>1, Zenon
    <3> QED
      BY <1>s, <2>1, <3>1, Zenon DEF UpToDate
  <2> QED
    BY <1>0, <1>3, <2>1, <2>2, Zenon DEF PerVM
<1>8. CASE UNCHANGED warmAllVars
  BY <1>8 DEF warmAllVars, warmVars, allVars, vars, pipelineVars, PerVM, UpToDateInv, DataTypes,
     PhaseOf, ResOf
<1> QED
  BY <1>1, <1>2, <1>4, <1>5, <1>6, <1>7, <1>8 DEF WarmNext, WarmController

\* The target of a VM is made when all that its source holds was handed over.
LEMMA CreatedStep ==
  ASSUME executePhase => Handles, Undisturbed, Answered,
         IInv, CalmInv, SoundInv, UpToDateInv, WarmNext, NEW v \in VMs \ caught,
         Created(v)
  PROVE  handed[v] = disk[v]
<1>1. CASE executePhase
  <2>1. /\ idx \in VMs /\ obj.exists /\ PhaseOf(idx) = mem.vms[idx] /\ ResOf(idx) = Res
    BY <1>1, Zenon DEF Handles
  <2>2. PICK q, r, w : Sound(q, r, w, TRUE, made') /\ Outcome(q, r, w) /\ StepTo(q, r, w)
    BY <1>1, Zenon DEF Handles
  <2>3. v = idx /\ Src.kv = "None" /\ w.kv # "None"
    BY <2>2, Zenon DEF StepTo, Src, Created
  <2>4. mem.vms[idx] \in Handled
    BY <1>1, HandlerPhases
  <2>5. /\ Sound(mem.vms[idx], Res, Src, TRUE, made)
        /\ UpToDate(mem.vms[idx], Res, Src, content, disk[idx], handed[idx], due, idx \in caught)
    BY <1>1, <2>1, Zenon DEF Handles, UpToDateInv, Src
  <2>6. mem.vms[idx] = "CreateVM"
    BY <2>2, <2>3, <2>4, <2>5, CreatesAtCreateVM, Zenon
  <2> QED
    BY <2>3, <2>5, <2>6, Zenon DEF UpToDate
<1>2. CASE \/ ReconcileOnly \/ PipelineBeginPass \/ PipelineSaveStatus \/ PipelineLoseStatus
           \/ PipelineUser \/ PipelineCrash \/ PipelineDeliver
  BY <1>2, IdleStep, Zenon DEF Created
<1>3. CASE PipelineCloud
  <2> DEFINE P == SUBSET Pods
  <2>1. world \in [VMs -> WorldsOf(P)]
    BY Zenon DEF SoundInv, Sound, CalmInv, PerVM, Worlds
  <2> HIDE DEF P
  <2>2. Drifts(world[v], world'[v], obj.exists)
    BY <1>3, <2>1, CloudDrifts
  <2> QED
    BY <2>2 DEF Drifts, Created
<1>4. ASSUME NEW u \in VMs, PodEnds(u) PROVE world'[v].kv = world[v].kv
  <2>1. PICK pods : world' = [world EXCEPT ![u].pods = pods]
    BY <1>4 DEF PodEnds
  <2>2. world \in [VMs -> Worlds]
    BY Zenon DEF SoundInv, Sound, CalmInv, PerVM
  <2> QED
    BY <2>1, <2>2, Zenon DEF Worlds, WorldsOf
<1>5. CASE CutoverComes \/ \E u \in VMs : GuestWrites(u)
  BY <1>5 DEF CutoverComes, GuestWrites, allVars, pipelineVars, Created
<1> QED
  BY <1>1, <1>2, <1>3, <1>4, <1>5, Zenon DEF WarmNext, WarmController, Created

----------------------------------------------------------------------------
(* The warm pipeline implements DeltaSync.                                 *)

ContentIn(c, i) == IF i = 0 THEN NoWrites ELSE c[i]

StateOf(p, r, w) ==
  IF p \in {"Failed", "Cancelled"} THEN "aborted"
  ELSE IF w.kv # "None" THEN "created"
  ELSE IF p = "CreateVM" THEN "synced"
  ELSE IF r.warm.base = 0 THEN "new" ELSE "syncing"

\* What DeltaSync's variables are, in this state and in the next.
LEMMA SyncVariables ==
  /\ SyncState = StateOf(PhaseOf(V), ResOf(V), world[V])
  /\ SyncState' = StateOf(PhaseOf(V)', ResOf(V)', world'[V])
  /\ ContentOf(ResOf(V).warm.base) = ContentIn(content, ResOf(V).warm.base)
  /\ (ContentOf(ResOf(V).warm.base))' = ContentIn(content', ResOf(V)'.warm.base)
  /\ ContentOf(ResOf(V).warm.delta) = ContentIn(content, ResOf(V).warm.delta)
  /\ (ContentOf(ResOf(V).warm.delta))' = ContentIn(content', ResOf(V)'.warm.delta)
<1>1. SyncState = StateOf(PhaseOf(V), ResOf(V), world[V])
  BY Zenon DEF SyncState, StateOf
<1>2. SyncState' = StateOf(PhaseOf(V)', ResOf(V)', world'[V])
  BY DEF SyncState, StateOf
<1> QED
  BY <1>1, <1>2, Zenon DEF ContentOf, ContentIn

\* The status r and the world w of a VM, with the contents c, and those after
\* a step stand for the same copy.
SameCopy(r, w, c, r1, w1, c1) ==
  /\ w1.power = "OFF" <=> w.power = "OFF"
  /\ ContentIn(c1, r1.warm.base) = ContentIn(c, r.warm.base)
  /\ ContentIn(c1, r1.warm.delta) = ContentIn(c, r.warm.delta)
  /\ r1.warm.delta = 0 <=> r.warm.delta = 0
  /\ r1.warm.disk = r.warm.disk

LEMMA SyncStutter ==
  ASSUME disk'[V] = disk[V], handed'[V] = handed[V], (V \in caught') = (V \in caught),
         SameCopy(ResOf(V), world[V], content, ResOf(V)', world'[V], content'),
         StateOf(PhaseOf(V)', ResOf(V)', world'[V]) = StateOf(PhaseOf(V), ResOf(V), world[V])
  PROVE  UNCHANGED Sync!syncVars
  BY SyncVariables, Zenon DEF SameCopy, Sync!syncVars

\* Where a VM's phase is, there its copy is.
LEMMA StateAt ==
  ASSUME NEW p, NEW r, NEW w, NEW e, NEW m, Sound(p, r, w, e, m)
  PROVE  /\ p \in BeforeCopy => StateOf(p, r, w) = "new"
         /\ p \in Syncing => StateOf(p, r, w) = "syncing"
         /\ p = "CreateVM" => StateOf(p, r, w) = "synced"
         /\ p \in {"StartVM"} \cup AfterStart => StateOf(p, r, w) = "created"
         /\ p \in {"Failed", "Cancelled"} => StateOf(p, r, w) = "aborted"
<1>1. p \in BeforeCopy => r.warm.base = 0 /\ w.kv = "None" /\ p \notin {"Failed", "Cancelled", "CreateVM"}
  <2>1. p \in BeforeCopy => r.warm = NoWarm /\ w.kv = "None"
    BY Zenon DEF Sound
  <2>2. NoWarm.base = 0
    BY DEF NoWarm
  <2> QED
    BY <2>1, <2>2 DEF BeforeCopy, BeforeStore
<1>2. p \in Syncing => r.warm.base # 0 /\ w.kv = "None" /\ p \notin {"Failed", "Cancelled", "CreateVM"}
  BY Zenon DEF Sound, Ordered, Syncing
<1>3. p = "CreateVM" => w.kv = "None"
  BY Zenon DEF Sound
<1>4. p \in {"StartVM"} \cup AfterStart => w.kv # "None" /\ p \notin {"Failed", "Cancelled"}
  BY Zenon DEF Sound, AfterStart, Target
<1> QED
  BY <1>1, <1>2, <1>3, <1>4, Zenon DEF StateOf

LEMMA SyncGuestRuns ==
  ASSUME disk'[V] \in Contents, NotOlder(disk'[V], disk[V]),
         world[V].power = "OFF" => disk'[V] = disk[V]
  PROVE  Sync!GuestRuns
  BY DEF Sync!GuestRuns, Sync!Contents, Sync!NotOlder, Contents, NotOlder

\* The round the VM at V is in goes on, with the snapshot s, after a step to
\* which the following applies.
RoundSteps(s) ==
  /\ Sync!GuestRuns
  /\ world'[V].power = "OFF" <=> world[V].power = "OFF"
  /\ handed'[V] = handed[V] /\ caught' = caught
  /\ StateOf(PhaseOf(V), ResOf(V), world[V]) = "syncing"
  /\ s = IF ResOf(V).warm.delta # 0 THEN ContentIn(content, ResOf(V).warm.delta) ELSE disk[V]

DiskDone(s, d) ==
  \/ ResOf(V).warm.delta # 0 /\ d <= ResOf(V).warm.disk
  \/ ContentIn(content, ResOf(V).warm.base)[d] = s[d]
  \/ handed[V][d] >= s[d]

LEMMA SyncProgress ==
  ASSUME NEW s, RoundSteps(s), NEW S \in SUBSET Disks, \A d \in S : DiskDone(s, d)
  PROVE  Sync!Progress(s, S)
<1>1. SyncState = "syncing"
  BY SyncVariables, Zenon DEF RoundSteps
<1>2. s = IF ResOf(V).warm.delta # 0 THEN ContentOf(ResOf(V).warm.delta) ELSE disk[V]
  BY SyncVariables, Zenon DEF RoundSteps
<1>3. \A d \in S : \/ ResOf(V).warm.delta # 0 /\ d \in 1 .. ResOf(V).warm.disk
                   \/ ContentOf(ResOf(V).warm.base)[d] = s[d]
                   \/ handed[V][d] >= s[d]
  <2>1. \A d \in S : d <= ResOf(V).warm.disk => d \in 1 .. ResOf(V).warm.disk
    BY UpToDisk, Zenon
  <2> QED
    BY <2>1, SyncVariables, Zenon DEF DiskDone
<1>4. UNCHANGED <<world[V].power # "OFF", handed[V], V \in caught>>
  BY Zenon DEF RoundSteps
<1> QED
  BY <1>1, <1>2, <1>3, <1>4, Zenon DEF Sync!Progress, RoundSteps

LEMMA SyncWorks ==
  ASSUME NEW s, RoundSteps(s), ResOf(V)'.warm.delta # 0,
         ContentIn(content', ResOf(V)'.warm.delta) = s,
         ContentIn(content', ResOf(V)'.warm.base) = ContentIn(content, ResOf(V).warm.base),
         StateOf(PhaseOf(V)', ResOf(V)', world'[V]) = "syncing",
         ResOf(V)'.warm.disk \in 0 .. D,
         \A d \in Disks : d <= ResOf(V)'.warm.disk => DiskDone(s, d)
  PROVE  Sync!SyncNext
<1> DEFINE S == 1 .. ResOf(V)'.warm.disk
<1>1. S \in SUBSET Disks /\ \A d \in S : DiskDone(s, d)
  <2>1. S \subseteq Disks /\ \A d \in S : d <= ResOf(V)'.warm.disk
    BY Numbers
  <2> QED
    BY <2>1, Zenon
<1> HIDE DEF S
<1>2. Sync!Progress(s, S)
  BY <1>1, SyncProgress
<1>3. /\ (ContentOf(ResOf(V).warm.delta))' = s /\ (1 .. ResOf(V).warm.disk)' = S
      /\ (ContentOf(ResOf(V).warm.base))' = ContentOf(ResOf(V).warm.base)
      /\ SyncState' = SyncState
      /\ (ResOf(V).warm.delta # 0)' = TRUE
  BY SyncVariables, Zenon DEF RoundSteps, S
<1>4. Sync!Work
  BY <1>2, <1>3, Zenon DEF Sync!Work
<1> QED
  BY <1>4, Zenon DEF Sync!SyncNext

\* After the last disk of a round its snapshot is the base, or the copy is
\* done; no round is open.
RoundCloses ==
  /\ ResOf(V)'.warm.delta = 0 /\ ResOf(V)'.warm.disk = 0

LEMMA SyncClosed ==
  ASSUME RoundCloses
  PROVE  /\ (ResOf(V).warm.delta # 0)' = FALSE /\ (1 .. ResOf(V).warm.disk)' = {}
         /\ (ContentOf(ResOf(V).warm.delta))' \in [Disks -> Nat]
<1>1. NoWrites \in [Disks -> Nat]
  BY Zenon DEF NoWrites
<1>2. (ContentOf(ResOf(V).warm.delta))' = NoWrites
  BY SyncVariables DEF RoundCloses, ContentIn
<1> QED
  BY <1>1, <1>2 DEF RoundCloses

LEMMA SyncPromotes ==
  ASSUME NEW s, RoundSteps(s), RoundCloses, ContentIn(content', ResOf(V)'.warm.base) = s,
         StateOf(PhaseOf(V)', ResOf(V)', world'[V]) = "syncing",
         \A d \in Disks : DiskDone(s, d)
  PROVE  Sync!SyncNext
<1>1. Sync!Progress(s, Disks)
  BY SyncProgress
<1>2. (ContentOf(ResOf(V).warm.base))' = s /\ SyncState' = SyncState
  BY SyncVariables, Zenon DEF RoundSteps
<1>3. Sync!Promote
  BY <1>1, <1>2, SyncClosed, Zenon DEF Sync!Promote, Sync!Contents
<1> QED
  BY <1>3, Zenon DEF Sync!SyncNext

LEMMA SyncFinishes ==
  ASSUME NEW s, RoundSteps(s), RoundCloses, world[V].power = "OFF",
         ContentIn(content', ResOf(V)'.warm.base) = ContentIn(content, ResOf(V).warm.base),
         StateOf(PhaseOf(V)', ResOf(V)', world'[V]) = "synced",
         \A d \in Disks : DiskDone(s, d)
  PROVE  Sync!SyncNext
<1>1. Sync!Progress(s, Disks)
  BY SyncProgress
<1>2. s = IF ResOf(V).warm.delta # 0 THEN ContentOf(ResOf(V).warm.delta) ELSE disk[V]
  BY SyncVariables, Zenon DEF RoundSteps
<1>3. /\ (ContentOf(ResOf(V).warm.base))' = ContentOf(ResOf(V).warm.base)
      /\ SyncState' = "synced"
  BY SyncVariables, Zenon
<1>4. Sync!Finish
  BY <1>1, <1>2, <1>3, SyncClosed, Zenon DEF Sync!Finish, Sync!Contents
<1> QED
  BY <1>4, Zenon DEF Sync!SyncNext

LEMMA SyncBulkCopies ==
  ASSUME disk[V] \in Contents, disk'[V] \in Contents, NotOlder(disk'[V], disk[V]),
         world[V].power = "OFF" => disk'[V] = disk[V],
         world'[V].power = "OFF" <=> world[V].power = "OFF", handed'[V] = disk'[V],
         caught' = caught,
         ContentIn(content', ResOf(V)'.warm.base) = disk[V],
         ResOf(V).warm.delta = 0, ResOf(V)'.warm.delta = 0,
         ResOf(V)'.warm.disk = ResOf(V).warm.disk,
         StateOf(PhaseOf(V), ResOf(V), world[V]) = "new",
         StateOf(PhaseOf(V)', ResOf(V)', world'[V]) = "syncing"
  PROVE  Sync!SyncNext
<1>1. Sync!GuestRuns
  BY SyncGuestRuns
<1>2. /\ SyncState = "new" /\ SyncState' = "syncing"
      /\ (ContentOf(ResOf(V).warm.base))' = disk[V]
      /\ (ContentOf(ResOf(V).warm.delta))' = ContentOf(ResOf(V).warm.delta)
  BY SyncVariables, Zenon DEF ContentIn
<1>3. /\ (handed[V])' \in [Disks -> Nat]
      /\ Sync!NotOlder((handed[V])', disk[V]) /\ Sync!NotOlder((disk[V])', (handed[V])')
  BY NotOlderItself, Zenon DEF Sync!NotOlder, Contents, NotOlder
<1>4. UNCHANGED <<world[V].power # "OFF", ResOf(V).warm.delta # 0, 1 .. ResOf(V).warm.disk,
                  V \in caught>>
  OBVIOUS
<1>5. Sync!BulkCopy
  BY <1>1, <1>2, <1>3, <1>4, Zenon DEF Sync!BulkCopy, Sync!Contents
<1> QED
  BY <1>5, Zenon DEF Sync!SyncNext

\* What the other variables of DeltaSync do when only one changes.
LEMMA SyncSame ==
  ASSUME SameCopy(ResOf(V), world[V], content, ResOf(V)', world'[V], content')
  PROVE  UNCHANGED <<world[V].power # "OFF", ContentOf(ResOf(V).warm.base),
                     ResOf(V).warm.delta # 0, ContentOf(ResOf(V).warm.delta),
                     1 .. ResOf(V).warm.disk>>
  BY SyncVariables, Zenon DEF SameCopy

LEMMA SyncCreates ==
  ASSUME SameCopy(ResOf(V), world[V], content, ResOf(V)', world'[V], content'),
         disk'[V] = disk[V], handed'[V] = handed[V], caught' = caught,
         StateOf(PhaseOf(V), ResOf(V), world[V]) = "synced",
         StateOf(PhaseOf(V)', ResOf(V)', world'[V]) = "created"
  PROVE  Sync!SyncNext
<1>1. SyncState = "synced" /\ SyncState' = "created"
  BY SyncVariables, Zenon
<1>2. UNCHANGED <<disk[V], handed[V], V \in caught>>
  OBVIOUS
<1>3. Sync!Create
  BY <1>1, <1>2, SyncSame, Zenon DEF Sync!Create
<1> QED
  BY <1>3 DEF Sync!SyncNext

LEMMA SyncAborts ==
  ASSUME PhaseOf(V)' \in {"Failed", "Cancelled"}
  PROVE  Sync!SyncNext
<1>1. SyncState' = "aborted"
  BY SyncVariables, Zenon DEF StateOf
<1> QED
  BY <1>1, Zenon DEF Sync!SyncNext, Sync!Abort

LEMMA SyncCopies ==
  ASSUME SameCopy(ResOf(V), world[V], content, ResOf(V)', world'[V], content'),
         disk'[V] = disk[V], handed'[V] \in Contents, caught' = caught,
         ResOf(V).warm.delta # 0,
         StateOf(PhaseOf(V), ResOf(V), world[V]) = "syncing",
         StateOf(PhaseOf(V)', ResOf(V)', world'[V]) = "syncing",
         NEW d \in Disks, handed'[V][d] >= ContentIn(content, ResOf(V).warm.delta)[d],
         disk[V][d] >= handed'[V][d], \A b \in Disks \ {d} : handed'[V][b] = handed[V][b]
  PROVE  Sync!SyncNext
<1>1. SyncState = "syncing" /\ SyncState' = SyncState
  BY SyncVariables, Zenon
<1>2. /\ (handed[V])' \in [Disks -> Nat] /\ (disk[V])' = disk[V] /\ UNCHANGED (V \in caught)
      /\ (handed[V])'[d] >= ContentOf(ResOf(V).warm.delta)[d] /\ disk[V][d] >= (handed[V])'[d]
      /\ \A b \in Disks \ {d} : (handed[V])'[b] = handed[V][b]
  BY SyncVariables, Zenon DEF Contents
<1>3. Sync!Copy(d)
  BY <1>1, <1>2, SyncSame, Zenon DEF Sync!Copy, Sync!Contents
<1> QED
  BY <1>3 DEF Sync!SyncNext

LEMMA SyncGuest ==
  ASSUME SameCopy(ResOf(V), world[V], content, ResOf(V)', world'[V], content'),
         handed'[V] = handed[V], caught' = caught, Sync!GuestRuns,
         StateOf(PhaseOf(V)', ResOf(V)', world'[V]) = StateOf(PhaseOf(V), ResOf(V), world[V])
  PROVE  Sync!SyncNext
<1>1. SyncState' = SyncState /\ (handed[V])' = handed[V] /\ UNCHANGED (V \in caught)
  BY SyncVariables, Zenon
<1>2. Sync!Guest
  BY <1>1, SyncSame, Zenon DEF Sync!Guest
<1> QED
  BY <1>2 DEF Sync!SyncNext

LEMMA SyncStops ==
  ASSUME ResOf(V)' = ResOf(V), content' = content, disk'[V] = disk[V], handed'[V] = handed[V],
         caught' = caught, world[V].power # "OFF", world'[V].power = "OFF",
         ResOf(V).warm.delta = 0 \/ V \in caught,
         StateOf(PhaseOf(V)', ResOf(V)', world'[V]) = StateOf(PhaseOf(V), ResOf(V), world[V])
  PROVE  Sync!SyncNext
<1>1. /\ SyncState' = SyncState /\ (handed[V])' = handed[V] /\ (disk[V])' = disk[V]
      /\ (ContentOf(ResOf(V).warm.base))' = ContentOf(ResOf(V).warm.base)
      /\ (ContentOf(ResOf(V).warm.delta))' = ContentOf(ResOf(V).warm.delta)
  BY SyncVariables, Zenon
<1>2. (world[V].power # "OFF")' = FALSE
  BY Zenon
<1>3. UNCHANGED <<ResOf(V).warm.delta # 0, 1 .. ResOf(V).warm.disk, V \in caught>>
  OBVIOUS
<1>4. Sync!Stop
  BY <1>1, <1>2, <1>3, Zenon DEF Sync!Stop
<1> QED
  BY <1>4, Zenon DEF Sync!SyncNext

\* The cutover comes: in the middle of a round of this VM, or not.
LEMMA SyncCuts ==
  ASSUME ResOf(V)' = ResOf(V), content' = content, disk'[V] = disk[V], handed'[V] = handed[V],
         world' = world, PhaseOf(V)' = PhaseOf(V), V \notin caught,
         V \in caught' <=> ResOf(V).warm.delta # 0
  PROVE  Sync!SyncNext \/ UNCHANGED Sync!syncVars
<1>1. /\ SameCopy(ResOf(V), world[V], content, ResOf(V)', world'[V], content')
      /\ StateOf(PhaseOf(V)', ResOf(V)', world'[V]) = StateOf(PhaseOf(V), ResOf(V), world[V])
  BY Zenon DEF SameCopy
<1>2. CASE V \notin caught'
  <2>1. (V \in caught') = (V \in caught)
    BY <1>2
  <2> QED
    BY <1>1, <2>1, SyncStutter, Zenon
<1>3. CASE V \in caught'
  <2>1. (V \in caught)' = TRUE /\ ResOf(V).warm.delta # 0
    BY <1>3
  <2>2. SyncState' = SyncState /\ UNCHANGED <<disk[V], handed[V]>>
    BY <1>1, SyncVariables, Zenon
  <2>3. Sync!Cutover
    BY <1>1, <2>1, <2>2, SyncSame, Zenon DEF Sync!Cutover
  <2> QED
    BY <2>3, Zenon DEF Sync!SyncNext
<1> QED
  BY <1>2, <1>3, Zenon

----------------------------------------------------------------------------
(* The handler of the VM that is looked at: its phase is p, and becomes q, *)
(* with the status r and the world w.                                      *)

Takes(p, q, r, w) ==
  /\ AtWork(p) /\ idx = V
  /\ PhaseOf(V) = p /\ ResOf(V) = Res /\ world[V] = Src
  /\ PhaseOf(V)' = q /\ ResOf(V)' = r /\ world'[V] = w
  /\ Sound(q, r, w, TRUE, made')

LEMMA SyncPassed ==
  ASSUME NEW p \in Handled, NEW q, NEW r, NEW w, Takes(p, q, r, w), Passed(q, r, w)
  PROVE  Sync!SyncNext \/ UNCHANGED Sync!syncVars
<1>0. caught' = caught /\ (V \in caught') = (V \in caught)
  BY DEF Takes, AtWork, Framed
<1>1. /\ content' = content /\ disk'[V] = disk[V] /\ handed'[V] = handed[V]
      /\ SameCopy(ResOf(V), world[V], content, ResOf(V)', world'[V], content')
  BY Zenon DEF Passed, Takes, SameCopy, Warm
<1>2. Sound(p, Res, Src, TRUE, made) /\ Sound(q, r, w, TRUE, made') /\ mem.vms[idx] = p
  BY Zenon DEF Takes, AtWork
<1> DEFINE Stays == \/ p \in BeforeCopy /\ q \in BeforeCopy
                    \/ p \in Syncing /\ q \in Syncing
                    \/ p = "CreateVM" /\ q = "CreateVM"
                    \/ p \in {"StartVM"} \cup AfterStart /\ q \in {"StartVM"} \cup AfterStart
           Creates == p = "CreateVM" /\ q = "StartVM"
<1>3. CASE Stays
  <2>1. StateOf(q, r, w) = StateOf(p, Res, Src)
    BY <1>2, <1>3, StateAt, Zenon
  <2> QED
    BY <1>0, <1>1, <2>1, SyncStutter, Zenon DEF Takes
<1>4. CASE Creates
  <2>1. StateOf(p, Res, Src) = "synced" /\ StateOf(q, r, w) = "created"
    BY <1>2, <1>4, StateAt, Zenon
  <2> QED
    BY <1>0, <1>1, <2>1, SyncCreates, Zenon DEF Takes
<1>5. Stays \/ Creates
  <2> USE DEF Handled, BeforeCopy, BeforeStore, Syncing, Synced, AfterStart
  <2>1. CASE q = p
    BY <2>1, Zenon
  <2>2. CASE q = AfterWarm(p) /\ p \notin {"BulkCopy", "FinalSync"}
    BY <2>2, WarmSuccessors
  <2> QED
    BY <1>2, <2>1, <2>2 DEF Passed
<1> QED
  BY <1>3, <1>4, <1>5

LEMMA SyncBulkCopied ==
  ASSUME NEW p, NEW q, NEW r, NEW w, Takes(p, q, r, w), BulkCopied(q, r, w)
  PROVE  Sync!SyncNext
<1>0. /\ made \in Nat /\ V \in VMs /\ disk \in [VMs -> Contents] /\ PerVM(handed)
      /\ p = "BulkCopy" /\ q = "WaitBulkCopy" /\ caught' = caught
  BY Zenon DEF Takes, AtWork, DataTypes, BulkCopied, Framed
<1>1. PICK now \in Meanwhile(V) :
        /\ MadeNow(now) /\ disk' = [disk EXCEPT ![V] = now]
        /\ handed' = [handed EXCEPT ![V] = [d \in Disks |-> now[d]]]
  BY Zenon DEF BulkCopied, Takes
<1>2. /\ now \in Contents /\ NotOlder(now, disk[V])
      /\ world[V].power = "OFF" => now = disk[V]
  BY <1>0, MeanwhileGrows, Zenon
<1>3. disk'[V] = now /\ handed'[V] = now
  BY <1>0, <1>1, <1>2 DEF PerVM, Contents
<1>4. r.warm.base = made + 1 /\ r.warm.delta = 0 /\ r.warm.disk = 0 /\ made + 1 # 0
  BY <1>0 DEF BulkCopied, NoWarm
<1>5. ContentIn(content', r.warm.base) = disk[V]
  BY <1>0, <1>1, <1>4, NewImages, Zenon DEF ContentIn, Takes
<1>6. Res.warm.delta = 0 /\ Res.warm.disk = 0
  <2>1. Res.warm = NoWarm
    BY <1>0, Zenon DEF Takes, AtWork, Sound, BeforeCopy
  <2> QED
    BY <2>1 DEF NoWarm
<1>7. StateOf(p, Res, Src) = "new" /\ StateOf(q, r, w) = "syncing"
  <2>1. p \in BeforeCopy /\ q \in Syncing
    BY <1>0 DEF BeforeCopy, Syncing
  <2>2. Sound(p, Res, Src, TRUE, made) /\ Sound(q, r, w, TRUE, made')
    BY Zenon DEF Takes, AtWork
  <2> QED
    BY <2>1, <2>2, StateAt, Zenon
<1>8. w.power = Src.power
  BY DEF BulkCopied
<1> QED
  BY <1>0, <1>2, <1>3, <1>4, <1>5, <1>6, <1>7, <1>8, SyncBulkCopies, Zenon DEF Takes

\* The snapshot of the open round, or of the one that is opened.
LEMMA OpenedSteps ==
  ASSUME NEW p \in {"Precopy", "FinalSync"}, NEW q, NEW r, NEW w, Takes(p, q, r, w),
         NEW x, NEW now, Opened(x, now), w.power = Src.power
  PROVE  /\ RoundSteps(content'[x.delta])
         /\ x.base = Warm.base /\ x.delta # 0 /\ x.base # 0
         /\ content'[x.base] = ContentIn(content, Warm.base)
<1>0. /\ made \in Nat /\ made \in 0 .. MaxMade /\ V \in VMs /\ disk \in [VMs -> Contents]
      /\ PerVM(handed) /\ idx = V /\ p \in Syncing /\ ResOf(V).warm = Warm
      /\ caught' = caught
  BY Zenon DEF Takes, AtWork, DataTypes, Syncing, Warm, Res, Framed
<1>1. Warm \in Rounds /\ Ordered(Warm, made)
  BY <1>0, RoundFacts, Zenon DEF Takes, AtWork
<1>2. /\ now \in Contents /\ NotOlder(now, disk[V])
      /\ world[V].power = "OFF" => now = disk[V]
  BY <1>0, MeanwhileGrows DEF Opened
<1>3. disk'[V] = now /\ handed'[V] = handed[V]
  BY <1>0 DEF Opened
<1>4. Sync!GuestRuns
  BY <1>2, <1>3, SyncGuestRuns, Zenon
<1>5. /\ Warm.base \in 1 .. made
      /\ Warm.delta # 0 => Warm.delta \in 1 .. made
  BY <1>0, <1>1, Places, Zenon
<1>6. \A i \in 1 .. made : content'[i] = content[i] /\ i # 0
  <2>1. \A i \in 1 .. made : i # 0
    BY <1>0
  <2> QED
    BY <2>1, Zenon DEF Takes, AtWork, Framed
<1>7. StateOf(p, Res, Src) = "syncing"
  BY <1>0, StateAt, Zenon DEF Takes, AtWork
<1>8. /\ x.base = Warm.base /\ x.delta # 0
      /\ content'[x.delta] = IF Warm.delta # 0 THEN ContentIn(content, Warm.delta) ELSE disk[V]
  <2>1. CASE Warm.delta # 0 /\ x = Warm
    BY <1>5, <1>6, <2>1, Zenon DEF ContentIn
  <2>2. CASE /\ Warm.delta = 0 /\ MadeNow(now)
             /\ x = [Warm EXCEPT !.delta = made + 1, !.deltaImgs = Batch(made + 1)]
    <3>1. x.base = Warm.base /\ x.delta = made + 1 /\ made + 1 # 0
      BY <1>0, <1>1, <2>2 DEF Rounds
    <3>2. content'[made + 1] = disk[V]
      BY <1>0, <2>2, NewImages
    <3> QED
      BY <2>2, <3>1, <3>2
  <2> QED
    BY <2>1, <2>2 DEF Opened
<1>9. x.base # 0 /\ content'[x.base] = ContentIn(content, Warm.base)
  BY <1>5, <1>6, <1>8, Zenon DEF ContentIn
<1> QED
  BY <1>0, <1>3, <1>4, <1>7, <1>8, <1>9, Zenon DEF RoundSteps, Takes

\* The disks a status has behind it are done.
LEMMA CurrentIsDone ==
  ASSUME NEW y, NEW pods, NEW s, Current(y, pods, content', s, handed[V]), y.delta # 0
  PROVE  \A d \in Disks : d <= y.disk => DiskDone(content'[y.delta], d)
  BY Zenon DEF Current, DiskDone

LEMMA SyncPodDone ==
  ASSUME NEW p, NEW q, NEW r, NEW w, Takes(p, q, r, w), PodDone(q, r, w)
  PROVE  Sync!SyncNext
<1>0. /\ AtWork(p) /\ mem.vms[idx] = p /\ p \in Syncing /\ q = p /\ idx = V /\ V \in VMs
      /\ w.power = Src.power /\ disk \in [VMs -> Contents] /\ Warm.pod # NoPod
      /\ caught' = caught
  BY Zenon DEF Takes, AtWork, PodDone, InRound, Syncing, DataTypes, Framed
<1>1. Warm \in Rounds /\ Ordered(Warm, made) /\ ResOf(V).warm = Warm
  BY <1>0, RoundFacts, Zenon DEF AtWork, Takes, Warm, Res
<1>2. /\ r.warm.base = Warm.base /\ r.warm.delta = Warm.delta /\ Warm.delta # 0
      /\ r.warm.disk = Warm.disk + 1 /\ r.warm.disk \in 0 .. D
  <2>1. Warm.disk < D /\ Warm.disk \in 0 .. D
    BY <1>0, <1>1, Zenon DEF Ordered, Rounds
  <2> QED
    BY <1>0, <1>1, <2>1, DAssumption DEF PodDone, Rounds, Ordered
<1>3. content' = content /\ disk'[V] = disk[V] /\ handed'[V] = handed[V]
  BY DEF PodDone
<1>4. Sync!GuestRuns
  <2>1. disk[V] \in Contents /\ NotOlder(disk[V], disk[V])
    BY <1>0, NotOlderItself, Zenon
  <2> QED
    BY <1>3, <2>1, SyncGuestRuns, Zenon
<1>5. StateOf(p, Res, Src) = "syncing" /\ StateOf(q, r, w) = "syncing"
  <2>1. Sound(p, Res, Src, TRUE, made) /\ Sound(q, r, w, TRUE, made')
    BY Zenon DEF Takes, AtWork
  <2> QED
    BY <1>0, <2>1, StateAt, Zenon
<1>6. RoundSteps(ContentIn(content, Warm.delta))
  BY <1>0, <1>1, <1>2, <1>3, <1>4, <1>5, Zenon DEF RoundSteps, Takes
<1>7. UpToDate(q, r, w, content', disk'[V], handed'[V], due, V \in caught)
  BY <1>0, UpToDatePodDone, Zenon
<1>8. Current(r.warm, w.pods, content', disk'[V], handed[V])
  BY <1>0, <1>3, <1>7, Zenon DEF UpToDate
<1>9. \A d \in Disks : d <= r.warm.disk => DiskDone(content'[r.warm.delta], d)
  BY <1>2, <1>8, CurrentIsDone, Zenon
<1>10. /\ ContentIn(content', r.warm.delta) = ContentIn(content, Warm.delta)
       /\ ContentIn(content', r.warm.base) = ContentIn(content, Warm.base)
       /\ content'[r.warm.delta] = ContentIn(content, Warm.delta)
  BY <1>2, <1>3, Zenon DEF ContentIn
<1> QED
  BY <1>1, <1>2, <1>5, <1>6, <1>9, <1>10, SyncWorks, Zenon DEF Takes

LEMMA SyncWorked ==
  ASSUME NEW p, NEW q, NEW r, NEW w, Takes(p, q, r, w), Worked(q, r, w)
  PROVE  Sync!SyncNext
<1>0. /\ AtWork(p) /\ p \in {"Precopy", "FinalSync"} /\ p \in Syncing /\ q = p /\ idx = V
      /\ w.power = Src.power /\ ResOf(V).warm = Warm
  BY DEF Takes, AtWork, Worked, InRound, Syncing, Warm, Res
<1>1. PICK x, now, round :
        /\ Opened(x, now) /\ x.disk < D
        /\ \/ r.warm = [x EXCEPT !.disk = x.disk + 1]
           \/ r.warm = [x EXCEPT !.pod = <<round, x.disk + 1>>]
  BY Zenon DEF Worked
<1>2. OpenNow(p, x, now)
  BY <1>0, <1>1, OpenedFacts
<1>3. x \in Rounds /\ x.disk \in 0 .. D /\ x.delta # 0 /\ handed'[V] = handed[V]
  BY <1>0, <1>2, Zenon DEF OpenNow, Rounds
<1>4. r.warm.base = x.base /\ r.warm.delta = x.delta /\ r.warm.disk \in 0 .. D
  BY <1>1, <1>3, DAssumption DEF Rounds
<1>5. /\ RoundSteps(content'[x.delta]) /\ x.base = Warm.base /\ x.base # 0
      /\ content'[x.base] = ContentIn(content, Warm.base)
  BY <1>0, <1>1, OpenedSteps
<1>6. StateOf(q, r, w) = "syncing"
  BY <1>0, StateAt, Zenon DEF Takes
<1>7. Current(r.warm, w.pods, content', disk'[V], handed[V])
  <2>1. UpToDate(q, r, w, content', disk'[V], handed'[V], due, V \in caught)
    BY <1>0, UpToDateWorked, Zenon
  <2> QED
    BY <1>0, <1>3, <2>1, Zenon DEF UpToDate
<1>8. \A d \in Disks : d <= r.warm.disk => DiskDone(content'[r.warm.delta], d)
  BY <1>3, <1>4, <1>7, CurrentIsDone, Zenon
<1>9. /\ ContentIn(content', r.warm.delta) = content'[x.delta]
      /\ ContentIn(content', r.warm.base) = ContentIn(content, Warm.base)
  BY <1>3, <1>4, <1>5 DEF ContentIn
<1> QED
  BY <1>0, <1>3, <1>4, <1>5, <1>6, <1>8, <1>9, SyncWorks, Zenon DEF Takes

LEMMA SyncPromoted ==
  ASSUME NEW p, NEW q, NEW r, NEW w, Takes(p, q, r, w), Promoted(q, r, w)
  PROVE  Sync!SyncNext
<1>0. /\ AtWork(p) /\ p \in {"Precopy", "FinalSync"} /\ q \in Syncing /\ idx = V
      /\ w.power = Src.power
  BY DEF Takes, AtWork, Promoted, InRound, Syncing
<1>1. PICK x, now :
        /\ Opened(x, now) /\ AllDone(x)
        /\ r.warm = [NoWarm EXCEPT !.base = x.delta, !.baseImgs = x.deltaImgs,
                                   !.rounds = x.rounds + 1]
  BY Zenon DEF Promoted
<1>2. r.warm.base = x.delta /\ r.warm.delta = 0 /\ r.warm.disk = 0
  BY <1>1 DEF NoWarm
<1>3. RoundSteps(content'[x.delta]) /\ x.delta # 0
  BY <1>0, <1>1, OpenedSteps
<1>4. \A d \in Disks : DiskDone(content'[x.delta], d)
  <2>1. OpenNow(p, x, now)
    BY <1>0, <1>1, OpenedFacts
  <2>2. NotOlder(handed[V], content'[x.delta])
    BY <1>0, <1>1, <2>1, RoundIsDone
  <2> QED
    BY <2>2, Zenon DEF NotOlder, DiskDone
<1>5. StateOf(q, r, w) = "syncing"
  BY <1>0, StateAt, Zenon DEF Takes
<1>6. RoundCloses /\ ContentIn(content', r.warm.base) = content'[x.delta]
  BY <1>2, <1>3, Zenon DEF RoundCloses, ContentIn, Takes
<1> QED
  BY <1>3, <1>4, <1>5, <1>6, SyncPromotes, Zenon DEF Takes

LEMMA SyncFinished ==
  ASSUME NEW p, NEW q, NEW r, NEW w, Takes(p, q, r, w), Finished(q, r, w)
  PROVE  Sync!SyncNext
<1>0. /\ AtWork(p) /\ p \in {"Precopy", "FinalSync"} /\ p = "FinalSync" /\ q = "CreateVM"
      /\ idx = V /\ w.power = Src.power /\ ResOf(V).warm = Warm
  BY Zenon DEF Takes, AtWork, Finished, Warm, Res
<1>1. PICK x, now :
        /\ Opened(x, now) /\ AllDone(x)
        /\ r.warm = [x EXCEPT !.delta = 0, !.deltaImgs = {}, !.disk = 0]
  BY Zenon DEF Finished
<1>2. OpenNow(p, x, now)
  BY <1>0, <1>1, OpenedFacts
<1>3. r.warm.base = x.base /\ r.warm.delta = 0 /\ r.warm.disk = 0
  BY <1>1, <1>2 DEF OpenNow, Rounds
<1>4. /\ RoundSteps(content'[x.delta]) /\ x.base # 0
      /\ content'[x.base] = ContentIn(content, Warm.base)
  BY <1>0, <1>1, OpenedSteps
<1>5. \A d \in Disks : DiskDone(content'[x.delta], d)
  <2>1. NotOlder(handed[V], content'[x.delta])
    BY <1>0, <1>1, <1>2, RoundIsDone
  <2> QED
    BY <2>1, Zenon DEF NotOlder, DiskDone
<1>6. StateOf(q, r, w) = "synced"
  BY <1>0, StateAt, Zenon DEF Takes
<1>7. RoundCloses /\ ContentIn(content', r.warm.base) = ContentIn(content, Warm.base)
  BY <1>3, <1>4, Zenon DEF RoundCloses, ContentIn, Takes
<1>8. world[V].power = "OFF"
  BY <1>0, Zenon DEF Takes, AtWork, Sound
<1> QED
  BY <1>0, <1>4, <1>5, <1>6, <1>7, <1>8, SyncFinishes, Zenon DEF Takes

LEMMA SyncHandled ==
  ASSUME NEW p \in Handled, NEW q, NEW r, NEW w, Takes(p, q, r, w), Outcome(q, r, w)
  PROVE  Sync!SyncNext \/ UNCHANGED Sync!syncVars
<1>1. q = "Failed" => Sync!SyncNext
  BY SyncAborts, Zenon DEF Takes
<1> QED
  BY <1>1, SyncPassed, SyncBulkCopied, SyncPodDone, SyncWorked, SyncPromoted, SyncFinished, Zenon
     DEF Outcome

----------------------------------------------------------------------------
(* The recovery points a status names stay as they are, whatever is made   *)
(* for another VM.                                                         *)

Known == BeforeCopy \cup Syncing \cup Synced \cup {"Failed", "Cancelled"}

Placed(p, r, m) ==
  /\ p \in Known
  /\ p \in Synced => r.warm.base \in 1 .. m /\ r.warm.delta = 0

PlacedInv == \A v \in VMs : Placed(PhaseOf(v), ResOf(v), made)

LEMMA PlacedOutcome ==
  ASSUME made \in Nat, made' \in Nat, made <= made',
         NEW p \in Handled, mem.vms[idx] = p, Sound(p, Res, Src, TRUE, made),
         Placed(p, Res, made), NEW q, NEW r, NEW w, Outcome(q, r, w)
  PROVE  Placed(q, r, made')
<1>1. CASE q = "Failed"
  BY <1>1, Zenon DEF Placed, Known, Synced
<1>2. CASE Passed(q, r, w)
  <2>1. r.warm = Res.warm /\ made' = made
    BY <1>2, Zenon DEF Passed, Warm
  <2>2. q \in Known /\ (q \in Synced => p \in Synced)
    <3> USE DEF Handled, Known, BeforeCopy, BeforeStore, Syncing, Synced
    <3>1. CASE q = p
      BY <3>1, Zenon
    <3>2. CASE q = AfterWarm(p) /\ p \notin {"BulkCopy", "FinalSync"}
      BY <3>2, WarmSuccessors, Zenon
    <3> QED
      BY <1>2, <3>1, <3>2, Zenon DEF Passed
  <2> QED
    BY <2>1, <2>2, Zenon DEF Placed
<1>3. CASE BulkCopied(q, r, w) \/ PodDone(q, r, w) \/ Worked(q, r, w) \/ Promoted(q, r, w)
  <2>1. q \in Syncing
    BY <1>3, Zenon DEF BulkCopied, PodDone, Worked, Promoted, InRound, Syncing
  <2> QED
    BY <2>1 DEF Placed, Known, Syncing, Synced
<1>4. CASE Finished(q, r, w)
  <2>1. PICK x, now : Opened(x, now) /\ r.warm = [x EXCEPT !.delta = 0, !.deltaImgs = {}, !.disk = 0]
    BY <1>4, Zenon DEF Finished
  <2>2. Warm \in Rounds /\ Ordered(Warm, made)
    <3>1. p \in Syncing
      BY <1>4 DEF Finished, Syncing
    <3> QED
      BY <3>1, RoundFacts, Zenon
  <2>3. x.base = Warm.base /\ DOMAIN x = DOMAIN Warm
    BY <2>1, <2>2, Zenon DEF Opened, Rounds
  <2>4. r.warm.base = Warm.base /\ r.warm.delta = 0
    BY <2>1, <2>2, <2>3 DEF Rounds, Opened
  <2>5. Warm.base \in 1 .. made
    BY <2>2, Places, Zenon
  <2>6. Warm.base \in 1 .. made'
    BY <2>5
  <2>7. q \in Known
    BY <1>4, Zenon DEF Finished, Known, Synced
  <2> QED
    BY <2>4, <2>6, <2>7, Zenon DEF Placed
<1> QED
  BY <1>1, <1>2, <1>3, <1>4, Zenon DEF Outcome

\* What is made for another VM leaves this VM's copy as it is.
LEMMA SyncOther ==
  ASSUME NEW p, NEW r, NEW w, NEW e, NEW m \in Nat, Sound(p, r, w, e, m), Placed(p, r, m),
         p \notin {"Failed", "Cancelled"},
         NEW c, NEW b, \A i \in 1 .. m : b[i] = c[i]
  PROVE  SameCopy(r, w, c, r, w, b)
<1>1. r.warm.base = 0 \/ r.warm.base \in 1 .. m
  <2>1. p \in BeforeCopy => r.warm.base = 0
    <3>1. p \in BeforeCopy => r.warm = NoWarm
      BY Zenon DEF Sound
    <3> QED
      BY <3>1 DEF NoWarm
  <2>2. p \in Syncing => r.warm.base \in 1 .. m
    BY Places, Zenon DEF Sound, Fields
  <2> QED
    BY <2>1, <2>2, Zenon DEF Placed, Known
<1>2. r.warm.delta = 0 \/ r.warm.delta \in 1 .. m
  <2>1. p \in BeforeCopy => r.warm.delta = 0
    <3>1. p \in BeforeCopy => r.warm = NoWarm
      BY Zenon DEF Sound
    <3> QED
      BY <3>1 DEF NoWarm
  <2>2. p \in Syncing => r.warm.delta = 0 \/ r.warm.delta \in 1 .. m
    BY Places, Zenon DEF Sound, Fields
  <2> QED
    BY <2>1, <2>2, Zenon DEF Placed, Known
<1> QED
  BY <1>1, <1>2, Zenon DEF SameCopy, ContentIn

\* Nothing but the phase may change, and that not to another state.
LEMMA SyncIdles ==
  ASSUME disk'[V] = disk[V], handed'[V] = handed[V], caught' = caught, content' = content,
         ResOf(V)' = ResOf(V), NEW p, p = PhaseOf(V), NEW q, q = PhaseOf(V)',
         world'[V].power = world[V].power, world'[V].kv = world[V].kv,
         q = p \/ (p \in BeforeStore /\ q \in BeforeStore)
  PROVE  UNCHANGED Sync!syncVars
<1>1. SameCopy(ResOf(V), world[V], content, ResOf(V)', world'[V], content')
  BY Zenon DEF SameCopy
<1>2. p \in {"Failed", "Cancelled", "CreateVM"} \/ q \in {"Failed", "Cancelled", "CreateVM"} => q = p
  BY Zenon DEF BeforeStore
<1>3. StateOf(PhaseOf(V)', ResOf(V)', world'[V]) = StateOf(PhaseOf(V), ResOf(V), world[V])
  BY <1>2 DEF StateOf
<1>4. (V \in caught') = (V \in caught)
  OBVIOUS
<1> QED
  BY <1>1, <1>3, <1>4, SyncStutter, Zenon

\* A machine that powers off is in WaitForPowerOff, or given up.
LEMMA SyncDrifts ==
  ASSUME UNCHANGED <<content, disk, handed, caught>>, PhaseOf(V)' = PhaseOf(V), ResOf(V)' = ResOf(V),
         NEW e, Drifts(world[V], world'[V], e),
         Sound(PhaseOf(V), ResOf(V), world[V], e, made), Placed(PhaseOf(V), ResOf(V), made),
         UpToDate(PhaseOf(V), ResOf(V), world[V], content, disk[V], handed[V], due, V \in caught)
  PROVE  Sync!SyncNext \/ UNCHANGED Sync!syncVars
<1>1. world'[V].kv = world[V].kv
  BY Zenon DEF Drifts
<1>2. CASE world'[V].power = world[V].power
  BY <1>1, <1>2, SyncIdles, Zenon
<1>3. CASE PhaseOf(V) \in {"Failed", "Cancelled"}
  BY <1>3, SyncAborts, Zenon
<1>4. CASE world[V].power = "STOPPING" /\ world'[V].power = "OFF" /\ PhaseOf(V) \notin {"Failed", "Cancelled"}
  <2>1. world[V].was # "STOPPING"
    BY Zenon DEF Sound, Worlds, WorldsOf
  <2>2. PhaseOf(V) = "WaitForPowerOff"
    BY <1>4, <2>1, Zenon DEF Sound, Placed, Known, BeforeCopy, Syncing, Synced
  <2>3. ResOf(V).warm.delta = 0 \/ V \in caught
    BY <2>2, Zenon DEF UpToDate
  <2>4. StateOf(PhaseOf(V)', ResOf(V)', world'[V]) = StateOf(PhaseOf(V), ResOf(V), world[V])
    BY <1>1, Zenon DEF StateOf
  <2> QED
    BY <1>4, <2>3, <2>4, SyncStops, Zenon
<1> QED
  BY <1>2, <1>3, <1>4, Zenon DEF Drifts

LEMMA SyncPodEnds ==
  ASSUME made \in 0 .. MaxMade, content \in [1 .. MaxMade -> Contents],
         disk \in [VMs -> Contents], PerVM(handed), world \in [VMs -> Worlds],
         NEW e, Sound(PhaseOf(V), ResOf(V), world[V], e, made), Placed(PhaseOf(V), ResOf(V), made),
         UpToDate(PhaseOf(V), ResOf(V), world[V], content, disk[V], handed[V], due, V \in caught),
         PhaseOf(V)' = PhaseOf(V), ResOf(V)' = ResOf(V), PodEnds(V)
  PROVE  Sync!SyncNext \/ UNCHANGED Sync!syncVars
<1>1. PICK k \in world[V].pods, end \in {"Succeeded", "Failed"} :
        /\ k.phase = "Pending"
        /\ world' = [world EXCEPT ![V].pods = (@ \ {k}) \cup {[k EXCEPT !.phase = end]}]
        /\ handed' = IF end = "Succeeded"
                     THEN [handed EXCEPT ![V][k.name[2]] = content[k.img][k.name[2]]] ELSE handed
        /\ UNCHANGED <<disk, content, caught>>
  BY Zenon DEF PodEnds
<1> DEFINE pods == (world[V].pods \ {k}) \cup {[k EXCEPT !.phase = end]}
           o == [world[V] EXCEPT !.pods = pods]
           d == k.name[2]
           n == IF end = "Succeeded"
                THEN [handed[V] EXCEPT ![d] = content[k.img][d]] ELSE handed[V]
<1>2. world' = [world EXCEPT ![V] = o]
  BY <1>1, Zenon
<1>3. handed'[V] = n
  BY <1>1, VAssumption DEF PerVM
<1>4. pods = {[k EXCEPT !.phase = end]} /\ world[V] \in Worlds /\ k \in Pods
  BY Zenon DEF Sound, Worlds, WorldsOf
<1> HIDE DEF pods
<1>5. /\ o.pods = {[k EXCEPT !.phase = end]} /\ o.power = world[V].power /\ o.kv = world[V].kv
      /\ [k EXCEPT !.phase = end].phase = end /\ [k EXCEPT !.phase = end].name = k.name
  BY <1>4 DEF Worlds, WorldsOf, Pods
<1> HIDE DEF o
<1>6. world'[V] = o
  BY <1>2, VAssumption, Zenon
<1>7. UpToDate(PhaseOf(V), ResOf(V), o, content, disk[V], n, due, V \in caught)
  <2>1. disk[V] \in Contents
    BY VAssumption, Zenon
  <2>2. n = IF end = "Succeeded" THEN [handed[V] EXCEPT ![k.name[2]] = content[k.img][k.name[2]]]
            ELSE handed[V]
    BY Zenon
  <2> HIDE DEF n, d
  <2> DEFINE late == V \in caught
  <2>3. UpToDate(PhaseOf(V), ResOf(V), world[V], content, disk[V], handed[V], due, late)
    OBVIOUS
  <2> HIDE DEF late
  <2>4. UpToDate(PhaseOf(V), ResOf(V), o, content, disk[V], n, due, late)
    <3>1. k.phase = "Pending" /\ o.pods = {[k EXCEPT !.phase = end]}
      BY <1>1, <1>5, Zenon
    <3> QED
      BY <2>1, <2>2, <2>3, <3>1, UpToDatePodEnds, ZenonT(30)
  <2> QED
    BY <2>4, Zenon DEF late
<1>8. CASE PhaseOf(V) \in {"Failed", "Cancelled"}
  BY <1>8, SyncAborts, Zenon
<1>9. CASE end = "Failed"
  <2>1. /\ handed'[V] = handed[V] /\ disk'[V] = disk[V] /\ content' = content
        /\ caught' = caught
    BY <1>1, <1>9
  <2> QED
    BY <1>5, <1>6, <2>1, SyncIdles
<1>10. CASE PhaseOf(V) \notin {"Failed", "Cancelled"} /\ end = "Succeeded"
  <2>1. PhaseOf(V) \in Syncing
    <3>1. PhaseOf(V) \in BeforeCopy \cup Synced => world[V].pods = {}
      BY Zenon DEF Sound, NoDataLeft
    <3> QED
      BY <1>10, <3>1, Zenon DEF Placed, Known
  <2> DEFINE x == ResOf(V).warm
  <2>2. x \in Rounds /\ Ordered(x, made) /\ Accounted(x, world[V])
    BY <2>1, Zenon DEF Sound, Fields
  <2>3. x.delta # 0 /\ d \in Disks
    <3>1. x.pod # NoPod /\ k.name = x.pod
      BY <2>2, PodOf, Zenon
    <3>2. x.delta # 0 /\ x.disk < D /\ d = x.disk + 1 /\ x.disk \in 0 .. D
      BY <2>2, <3>1, Zenon DEF Ordered, Rounds
    <3> HIDE DEF x, d
    <3> QED
      BY <3>2, Numbers, Zenon
  <2>4. Current(x, o.pods, content, disk[V], n)
    BY <1>7, <2>1, Zenon DEF UpToDate
  <2>5. n \in Contents /\ n[d] >= content[x.delta][d] /\ disk[V][d] >= n[d]
    BY <1>5, <1>10, <2>3, <2>4, Zenon DEF Current, NotOlder
  <2>6. \A b \in Disks \ {d} : n[b] = handed[V][b]
    <3>1. handed[V] \in Contents
      BY <2>1, Zenon DEF UpToDate, Current
    <3> HIDE DEF d
    <3> QED
      BY <1>10, <3>1, Zenon DEF Contents
  <2>7. ContentIn(content, x.delta) = content[x.delta]
    BY <2>3, Zenon DEF ContentIn
  <2>8. SameCopy(ResOf(V), world[V], content, ResOf(V)', world'[V], content')
    BY <1>1, <1>5, <1>6, Zenon DEF SameCopy
  <2>9. /\ StateOf(PhaseOf(V), ResOf(V), world[V]) = "syncing"
        /\ StateOf(PhaseOf(V)', ResOf(V)', world'[V]) = "syncing"
    <3>1. StateOf(PhaseOf(V), ResOf(V), world[V]) = "syncing"
      BY <2>1, StateAt, Zenon
    <3> QED
      BY <1>5, <1>6, <3>1 DEF StateOf
  <2>10. disk'[V] = disk[V] /\ caught' = caught
    BY <1>1, Zenon
  <2> HIDE DEF n, d
  <2> QED
    BY <1>3, <2>3, <2>5, <2>6, <2>7, <2>8, <2>9, <2>10, SyncCopies, Zenon
<1> QED
  BY <1>8, <1>9, <1>10, Zenon

----------------------------------------------------------------------------
(* The steps, given what a handler finds and what comes of it.             *)

LEMMA PlacedStep ==
  ASSUME executePhase => Handles, Undisturbed, Answered, IInv, CalmInv, SoundInv, PlacedInv, [WarmNext]_warmAllVars
  PROVE  PlacedInv'
<1>0. made \in 0 .. MaxMade /\ made \in Nat
  BY Numbers, Zenon DEF SoundInv
<1>1. CASE executePhase
  <2>1. /\ idx \in VMs /\ obj.exists /\ PhaseOf(idx) = mem.vms[idx] /\ ResOf(idx) = Res
        /\ made' \in Nat /\ made <= made'
    BY <1>1, Numbers, Zenon DEF Handles
  <2>2. PICK q, r, w : Outcome(q, r, w) /\ StepTo(q, r, w)
    BY <1>1, Zenon DEF Handles
  <2>3. Sound(mem.vms[idx], Res, Src, TRUE, made) /\ Placed(mem.vms[idx], Res, made)
    BY <1>1, <2>1, Zenon DEF Handles, PlacedInv
  <2>4. Placed(q, r, made')
    BY <1>0, <1>1, <2>1, <2>2, <2>3, HandlerPhases, PlacedOutcome, Zenon
  <2>5. ASSUME NEW v \in VMs PROVE Placed(PhaseOf(v)', ResOf(v)', made')
    <3>1. CASE v = idx
      BY <2>2, <2>4, <3>1, Zenon DEF StepTo
    <3>2. CASE v # idx
      <4>1. Placed(PhaseOf(v), ResOf(v), made')
        BY <1>0, <2>1 DEF PlacedInv, Placed
      <4> QED
        BY <2>2, <3>2, <4>1, Zenon DEF StepTo
    <3> QED
      BY <3>1, <3>2
  <2> QED
    BY <2>5 DEF PlacedInv
<1>2. CASE \/ ReconcileOnly \/ PipelineBeginPass \/ PipelineSaveStatus \/ PipelineLoseStatus
           \/ PipelineUser \/ PipelineCrash \/ PipelineDeliver
  <2>1. (\A v \in VMs : Idles(v)) /\ made' = made
    BY <1>2, IdleStep, Zenon
  <2>2. ASSUME NEW v \in VMs PROVE Placed(PhaseOf(v)', ResOf(v)', made')
    <3>1. Placed(PhaseOf(v), ResOf(v), made) /\ Idles(v)
      BY <2>1, Zenon DEF PlacedInv
    <3>2. \/ PhaseOf(v)' = PhaseOf(v)
          \/ PhaseOf(v)' \in {"Pending", "PreHook", "Cancelled"}
      BY <3>1, Zenon DEF Idles
    <3> QED
      BY <2>1, <3>1, <3>2, Zenon DEF Placed, Known, BeforeCopy, BeforeStore, Synced, Idles
  <2> QED
    BY <2>2 DEF PlacedInv
<1>3. CASE UNCHANGED <<vars, resVars, made>>
  BY <1>3 DEF PlacedInv, PhaseOf, ResOf, vars, resVars
<1>4. CASE PipelineCloud
  BY <1>3, <1>4, Zenon DEF PipelineCloud, PowerSettles, KubeVirtVMSeen, ImportEnds, GarbageCollect
<1>5. CASE \E v \in VMs : PodEnds(v) \/ GuestWrites(v)
  <2>1. UNCHANGED allVars => UNCHANGED <<vars, resVars, made>>
    BY Zenon DEF allVars, pipelineVars, vars, resVars
  <2>2. \A v \in VMs : GuestWrites(v) => UNCHANGED allVars
    BY Zenon DEF GuestWrites
  <2>3. \A v \in VMs : PodEnds(v) => UNCHANGED <<vars, resVars, made>>
    BY Zenon DEF PodEnds
  <2> QED
    BY <1>3, <1>5, <2>1, <2>2, <2>3
<1>6. CASE CutoverComes \/ UNCHANGED warmAllVars
  <2>1. UNCHANGED allVars
    BY <1>6 DEF CutoverComes, warmAllVars
  <2> QED
    BY <1>3, <2>1, Zenon DEF allVars, pipelineVars, vars, resVars
<1> QED
  BY <1>1, <1>2, <1>4, <1>5, <1>6 DEF WarmNext, WarmController
=============================================================================
