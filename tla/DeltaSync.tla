------------------------------ MODULE DeltaSync ------------------------------
(***************************************************************************)
(* What a warm migration promises about the data of one VM: an abstract    *)
(* specification of copying the blocks of a running source in rounds.      *)
(*                                                                         *)
(* A block's content is the number of writes it has seen.  A round takes a *)
(* snapshot, copies the blocks that differ from the snapshot before, each  *)
(* in a state not older than the snapshot, and makes the new snapshot the  *)
(* base of the next round.  The source stops between two rounds, one more  *)
(* round follows, and then the target is created.  If it is told to stop   *)
(* in the middle of a round, that round is the last.  Module WarmPipeline, *)
(* where each round is many reconcile passes, pods and images, implements  *)
(* it.                                                                     *)
(***************************************************************************)
EXTENDS Integers

CONSTANT Blocks

VARIABLES
  disk,     \* content of the source
  on,       \* the source runs
  target,   \* content of the target
  base,     \* content of the last finished round's snapshot
  open,     \* a round is open,
  delta,    \* with this snapshot,
  done,     \* and is done with these blocks
  cut,      \* the source was told to stop in the middle of a round
  st        \* "new", "syncing", "synced", "created" or "aborted"

syncVars == <<disk, on, target, base, open, delta, done, cut, st>>

Contents == [Blocks -> Nat]
NotOlder(x, y) == \A b \in Blocks : x[b] >= y[b]

SyncInit ==
  /\ disk \in Contents
  /\ on \in BOOLEAN
  /\ target \in Contents /\ base \in Contents /\ delta \in Contents
  /\ open = FALSE
  /\ done = {}
  /\ cut = FALSE
  /\ st = "new"

\* While the source runs its blocks may be written at any time.
GuestRuns ==
  /\ disk' \in Contents
  /\ NotOlder(disk', disk)
  /\ ~on => disk' = disk

Guest == GuestRuns /\ UNCHANGED <<on, target, base, open, delta, done, cut, st>>

Cutover ==
  /\ open
  /\ cut' = TRUE
  /\ UNCHANGED <<disk, on, target, base, open, delta, done, st>>

\* The source is powered off.
Stop ==
  /\ on /\ (open => cut)
  /\ on' = FALSE
  /\ UNCHANGED <<disk, target, base, open, delta, done, cut, st>>

BulkCopy ==
  /\ st = "new"
  /\ GuestRuns
  /\ base' = disk
  /\ target' \in Contents /\ NotOlder(target', disk) /\ NotOlder(disk', target')
  /\ st' = "syncing"
  /\ UNCHANGED <<on, open, delta, done, cut>>

\* The open round, or a new one, with snapshot s, is done with the blocks D:
\* each is unchanged since the base, or its copy is not older than s.
Progress(s, D) ==
  /\ st = "syncing"
  /\ s = IF open THEN delta ELSE disk
  /\ D \in SUBSET Blocks
  /\ \A b \in D : (open /\ b \in done) \/ base[b] = s[b] \/ target[b] >= s[b]
  /\ GuestRuns
  /\ UNCHANGED <<on, target, cut>>

Work ==
  /\ Progress(delta', done')
  /\ open' = TRUE
  /\ UNCHANGED <<base, st>>

Promote ==
  /\ Progress(base', Blocks)
  /\ open' = FALSE
  /\ delta' \in Contents
  /\ done' = {}
  /\ UNCHANGED st

\* The last round: the source is off.
Finish ==
  /\ ~on
  /\ Progress(IF open THEN delta ELSE disk, Blocks)
  /\ open' = FALSE
  /\ delta' \in Contents
  /\ done' = {}
  /\ st' = "synced"
  /\ UNCHANGED base

Copy(b) ==
  /\ st = "syncing" /\ open
  /\ target' \in Contents
  /\ target'[b] >= delta[b] /\ disk[b] >= target'[b]
  /\ \A c \in Blocks \ {b} : target'[c] = target[c]
  /\ UNCHANGED <<disk, on, base, open, delta, done, cut, st>>

Create ==
  /\ st = "synced"
  /\ st' = "created"
  /\ UNCHANGED <<disk, on, target, base, open, delta, done, cut>>

\* The migration is given up; nothing is promised any more.
Abort == st' = "aborted"

SyncNext ==
  \/ Guest \/ Cutover \/ Stop \/ BulkCopy \/ Work \/ Promote \/ Finish
  \/ \E b \in Blocks : Copy(b)
  \/ Create \/ Abort

SyncSpec == SyncInit /\ [][SyncNext]_syncVars

\* When the target is created, and as long as it is not given up, it has all
\* that was written to the source before the round before the last, and if the
\* source stopped between two rounds all that was ever written to it.
NothingLost ==
  st = "created" => NotOlder(target, base) /\ (~cut => target = disk)
=============================================================================
