---------------------------- MODULE TxnMetadata ----------------------------
(***************************************************************************)
(* The transaction-shaped metadata backend (local/txn_metadata): a store   *)
(* of versioned keys spread over locked shards, and the block metadata     *)
(* plane on top of it.  An operation reads its keys one at a time, each    *)
(* under the lock of the key's store shard, and then commits: it locks the *)
(* shards it touches in ascending order, compares the versions it read,    *)
(* and applies all its writes before it unlocks them.                      *)
(*                                                                         *)
(* A root stands for the writes its tree holds, so the copy of a path adds *)
(* the write to the set.  The version of a shard head is told apart by its *)
(* latest_commit, which every write of the head makes a new one, and the   *)
(* version of a manifest by its live flag.  Metadata nodes have new keys,  *)
(* which no two transactions share, and are left out.                      *)
(***************************************************************************)
EXTENDS Integers, FiniteSets, FiniteSetsExt

CONSTANTS
    Threads,        \* callers
    NoThread,       \* holder of a free lock
    Shards,         \* metadata shards of a device: 0 .. n
    StoreShards,    \* lock shards of the transaction store: 0 .. n
    KeyShard(_),    \* metadata_txn_key_shard: key -> its store shard
    Restorable,     \* commits a restore may ask for
    Budget,         \* bound: operations of each kind
    MaxOps          \* bound: operations in all

Ops == {"create", "write", "checkpoint", "fork", "restore", "delete"}

ASSUME TxnAssumption ==
    /\ NoThread \notin Threads
    /\ Shards \subseteq Nat /\ Shards # {} /\ IsFiniteSet(Shards)
    /\ StoreShards \subseteq Nat /\ IsFiniteSet(StoreShards)
    /\ Restorable \subseteq Nat
    /\ Budget \in [Ops -> Nat] /\ MaxOps \in Nat

VARIABLES
    next,           \* the atomic counters: device, seq, write, checkpoint
    left,           \* operations of each kind that may still begin
    manifests,      \* device -> "absent", "live" or "deleted"
    heads,          \* device and shard -> root and latest_commit
    timeline,       \* the ShardCommit records
    checkpoints,    \* the Checkpoint records
    locks,          \* store shard -> the thread that holds it
    txns,           \* thread -> its operation
    published       \* writes whose transaction committed

xvars == <<next, left, manifests, heads, timeline, checkpoints, locks, txns, published>>

Copies == Budget["fork"] + Budget["restore"]
MaxWrite == Budget["write"]
MaxSeq == MaxWrite + Copies + Budget["delete"]
MaxCheckpoint == Budget["create"] + Budget["checkpoint"] + Copies
MaxDevice == Budget["create"] + Copies

Devices == 1 .. MaxDevice
Seqs == 0 .. MaxSeq
Roots == SUBSET (1 .. MaxWrite)
NoHead == [root |-> {}, latest |-> 0]
NoRoots == [s \in Shards |-> NoHead]

ManifestKey(d) == <<"manifest", d>>
HeadKey(d, s) == <<"head", d, s>>
CommitKey(d, q, s) == <<"commit", d, q, s>>
CheckpointKey(i) == <<"checkpoint", i>>
RecordKey(q) == <<"record", q>>

\* An operation: its kind and place, the device and shards it works on, the
\* shards still to visit, the heads it has read, and the numbers it was given.
Txn ==
    [op: Ops \cup {"none"},
     pc: {"idle", "split", "publish", "check", "head", "scan", "replay", "alloc", "commit"},
     device: Devices, over: SUBSET Shards, todo: SUBSET (Shards \cup StoreShards),
     read: [Shards -> [root: Roots, latest: Seqs]], write: 0 .. MaxWrite,
     seq: Seqs, target: 0 .. MaxDevice, checkpoint: 0 .. MaxCheckpoint,
     commits: SUBSET timeline, points: SUBSET checkpoints]

NoTxn ==
    [op |-> "none", pc |-> "idle", device |-> 1, over |-> {}, todo |-> {},
     read |-> NoRoots, write |-> 0, seq |-> 0, target |-> 0, checkpoint |-> 0,
     commits |-> {}, points |-> {}]

At(t, pc) == txns[t].pc = pc
Put(t, txn) == txns' = [txns EXCEPT ![t] = txn]
Finish(t) == Put(t, NoTxn)
Begin(t, op) ==
    /\ At(t, "idle") /\ left[op] > 0
    /\ MapThenSumSet(LAMBDA o : Budget[o] - left[o], Ops) < MaxOps
    /\ left' = [left EXCEPT ![op] = @ - 1]
\* read: the lock of the key's store shard is taken for the one lookup.
Readable(key) == locks[KeyShard(key)] = NoThread
records == <<manifests, heads, timeline, checkpoints>>

-----------------------------------------------------------------------------
(* Reading: one key at a time.                                             *)

\* create_device takes its ids and commits without a read set.
CreateDevice(t) ==
    /\ Begin(t, "create")
    /\ next' = [next EXCEPT !.device = @ + 1, !.checkpoint = @ + 1]
    /\ Put(t, [NoTxn EXCEPT !.op = "create", !.pc = "commit",
                            !.target = next.device, !.checkpoint = next.checkpoint])
    /\ UNCHANGED <<records, locks, published>>

\* write_device: the manifest is read, then the head of every shard the range
\* covers; the new tree of a shard is built from the root read here.
WriteDevice(t, d, over) ==
    /\ Begin(t, "write")
    /\ Readable(ManifestKey(d)) /\ manifests[d] = "live"
    /\ next' = [next EXCEPT !.write = @ + 1]
    /\ Put(t, [NoTxn EXCEPT !.op = "write", !.pc = "split", !.device = d,
                            !.over = over, !.todo = over, !.write = next.write])
    /\ UNCHANGED <<records, locks, published>>

\* checkpoint, fork_device and delete_device read the manifest and, through
\* get_head, the head of every shard.
ReadWhole(t, op, d) ==
    /\ Begin(t, op)
    /\ Readable(ManifestKey(d)) /\ manifests[d] = "live"
    /\ Put(t, [NoTxn EXCEPT !.op = op, !.pc = "head", !.device = d,
                            !.over = Shards, !.todo = Shards])
    /\ UNCHANGED <<next, records, locks, published>>

\* restore_device reads the manifest and scans the store, shard by shard.
RestoreDevice(t, d, commit) ==
    /\ Begin(t, "restore")
    /\ Readable(ManifestKey(d)) /\ manifests[d] = "live"
    /\ Put(t, [NoTxn EXCEPT !.op = "restore", !.pc = "scan", !.device = d,
                            !.seq = commit, !.todo = StoreShards])
    /\ UNCHANGED <<next, records, locks, published>>

\* read_shard_head of the next shard the operation wants.
ReadNextHead(t, after) ==
    LET txn == txns[t]
        s == Min(txn.todo)
        rest == txn.todo \ {s}
    IN  /\ Readable(HeadKey(txn.device, s))
        /\ Put(t, [txn EXCEPT !.read[s] = heads[txn.device][s], !.todo = rest,
                              !.pc = IF rest = {} THEN after ELSE @])
        /\ UNCHANGED <<next, left, records, locks, published>>

\* split_device_range: the root each chunk of a write is based on.
SplitRange(t) == At(t, "split") /\ ReadNextHead(t, "publish")

\* get_head: the roots of a whole device.
GetHead(t) == At(t, "head") /\ ReadNextHead(t, "alloc")

\* publish_commit_group reads the manifest again, outside the read set ...
PublishBegin(t) ==
    /\ At(t, "publish") /\ Readable(ManifestKey(txns[t].device))
    /\ IF manifests[txns[t].device] = "live"
       THEN Put(t, [txns[t] EXCEPT !.pc = "check", !.todo = txns[t].over])
       ELSE Finish(t)
    /\ UNCHANGED <<next, left, records, locks, published>>

\* Mutant: the root is not compared with the one the tree was built from.
CheckVersionOnly(t) ==
    LET txn == txns[t]
        s == Min(txn.todo)
        rest == txn.todo \ {s}
    IN  /\ txn.pc = "check"
        /\ Readable(HeadKey(txn.device, s))
        /\ Put(t, [txn EXCEPT !.read[s].latest = heads[txn.device][s].latest, !.todo = rest,
                              !.pc = IF rest = {} THEN "alloc" ELSE @])
        /\ UNCHANGED <<next, left, records, locks, published>>

\* ... and the head of each shard into the read set: a root that is not the
\* one the tree was built from is a conflict.
CheckShardHead(t) ==
    LET txn == txns[t]
        s == Min(txn.todo)
        rest == txn.todo \ {s}
        head == heads[txn.device][s]
    IN  /\ txn.pc = "check"
        /\ Readable(HeadKey(txn.device, s))
        /\ IF head.root = txn.read[s].root
           THEN Put(t, [txn EXCEPT !.read[s] = head, !.todo = rest,
                                   !.pc = IF rest = {} THEN "alloc" ELSE @])
           ELSE Finish(t)
        /\ UNCHANGED <<next, left, records, locks, published>>

\* values(): everything one store shard holds, under its lock.
ScanShard(t) ==
    LET txn == txns[t]
        i == Min(txn.todo)
        rest == txn.todo \ {i}
    IN  /\ txn.pc = "scan" /\ locks[i] = NoThread
        /\ Put(t, [txn EXCEPT
               !.commits = @ \cup {c \in timeline : KeyShard(CommitKey(c.device, c.seq, c.shard)) = i},
               !.points = @ \cup {p \in checkpoints : KeyShard(CheckpointKey(p.id)) = i},
               !.todo = rest, !.pc = IF rest = {} THEN "replay" ELSE @])
        /\ UNCHANGED <<next, left, records, locks, published>>

\* The last checkpoints at or before a commit; those of one commit are in the
\* order of the shards that hold them.
ReplayBases(points, d, commit) ==
    LET before == {p \in points : p.device = d /\ p.seq <= commit}
    IN  {p \in before : \A q \in before : q.seq <= p.seq}

\* The root of a shard once the commits after the checkpoint are replayed.
ReplayShard(commits, base, d, s, commit) ==
    LET after == {c \in commits : /\ c.device = d /\ c.shard = s
                                  /\ base.seq < c.seq /\ c.seq <= commit}
    IN  IF after = {} THEN base.roots[s]
        ELSE (CHOOSE c \in after : \A e \in after : e.seq <= c.seq).new

\* replay_device_roots over what the scan returned.
Replay(t) ==
    LET txn == txns[t]
        bases == ReplayBases(txn.points, txn.device, txn.seq)
    IN  /\ txn.pc = "replay"
        /\ \/ bases = {} /\ Finish(t)
           \/ \E b \in bases :
                 Put(t, [txn EXCEPT !.pc = "alloc", !.commits = {}, !.points = {},
                         !.seq = 0, !.read = [s \in Shards |->
                            [root |-> ReplayShard(txn.commits, b, txn.device, s, txn.seq),
                             latest |-> 0]]])
        /\ UNCHANGED <<next, left, records, locks, published>>

-----------------------------------------------------------------------------
(* Committing.                                                             *)

TakesDevice == {"fork", "restore"}
TakesSeq == {"write", "fork", "restore", "delete"}
TakesCheckpoint == {"checkpoint", "fork", "restore"}

\* The numbers an operation needs come from atomic counters, before the commit.
Allocate(t) ==
    LET txn == txns[t]
        taken(ops) == IF txn.op \in ops THEN 1 ELSE 0
    IN  /\ txn.pc = "alloc"
        /\ next' = [next EXCEPT !.seq = @ + taken(TakesSeq),
                                !.device = @ + taken(TakesDevice),
                                !.checkpoint = @ + taken(TakesCheckpoint)]
        /\ Put(t, [txn EXCEPT !.pc = "commit",
               !.seq = IF txn.op \in TakesSeq THEN next.seq ELSE 0,
               !.target = IF txn.op \in TakesDevice THEN next.device ELSE 0,
               !.checkpoint = IF txn.op \in TakesCheckpoint THEN next.checkpoint ELSE 0])
        /\ UNCHANGED <<left, records, locks, published>>

\* The keys a transaction reads or writes when it commits.
TouchedKeys(txn) ==
    LET device(d) == {ManifestKey(d)} \cup {HeadKey(d, s) : s \in Shards}
    IN  CASE txn.op = "write" ->
               UNION {{HeadKey(txn.device, s), CommitKey(txn.device, txn.seq, s)} : s \in txn.over}
                 \cup {RecordKey(txn.seq)}
          [] txn.op = "checkpoint" -> {CheckpointKey(txn.checkpoint)}
          [] txn.op = "delete" -> {ManifestKey(txn.device), RecordKey(txn.seq)}
          [] txn.op = "fork" ->
               device(txn.target) \cup {CheckpointKey(txn.checkpoint), RecordKey(txn.seq)}
          [] OTHER -> device(txn.target) \cup {CheckpointKey(txn.checkpoint)}

Touched(txn) == {KeyShard(k) : k \in TouchedKeys(txn)}
Held(t) == {i \in StoreShards : locks[i] = t}

\* Mutant: the touched shards are locked in the order the keys were listed.
LockUnsorted(t) ==
    \E i \in Touched(txns[t]) \ Held(t) :
        /\ At(t, "commit") /\ locks[i] = NoThread
        /\ locks' = [locks EXCEPT ![i] = t]
        /\ UNCHANGED <<next, left, records, txns, published>>

\* commit locks the shards it touches in ascending order.
LockShard(t) ==
    LET wanted == Touched(txns[t]) \ Held(t)
    IN  /\ At(t, "commit") /\ wanted # {}
        /\ locks[Min(wanted)] = NoThread
        /\ locks' = [locks EXCEPT ![Min(wanted)] = t]
        /\ UNCHANGED <<next, left, records, txns, published>>

\* Mutant: only the first head of the read set is validated.
ValidatedFirst(txn) ==
    CASE txn.op = "write" ->
           heads[txn.device][Min(txn.over)].latest = txn.read[Min(txn.over)].latest
      [] txn.op = "delete" -> manifests[txn.device] = "live"
      [] OTHER -> TRUE

\* The versions in the read set are still those of the store.
Validated(txn) ==
    CASE txn.op = "write" ->
           \A s \in txn.over : heads[txn.device][s].latest = txn.read[s].latest
      [] txn.op = "delete" -> manifests[txn.device] = "live"
      [] OTHER -> TRUE

\* The writes of publish_commit_group: a head and a ShardCommit per shard.
ApplyWrite(txn) ==
    LET new(s) == txn.read[s].root \cup {txn.write}
    IN  /\ txn.op = "write"
        /\ heads' = [heads EXCEPT ![txn.device] = [s \in Shards |->
                        IF s \in txn.over THEN [root |-> new(s), latest |-> txn.seq] ELSE @[s]]]
        /\ timeline' = timeline \cup
             {[device |-> txn.device, seq |-> txn.seq, shard |-> s,
               old |-> txn.read[s].root, new |-> new(s)] : s \in txn.over}
        /\ published' = published \cup {txn.write}
        /\ UNCHANGED <<manifests, checkpoints>>

CheckpointRow(txn, d, q) ==
    [id |-> txn.checkpoint, device |-> d, seq |-> q,
     roots |-> [s \in Shards |-> txn.read[s].root]]

\* A device appears: a live manifest, a head per shard and the checkpoint a
\* replay starts from.
ApplyDevice(txn) ==
    /\ manifests' = [manifests EXCEPT ![txn.target] = "live"]
    /\ heads' = [heads EXCEPT ![txn.target] = [s \in Shards |->
                    [root |-> txn.read[s].root, latest |-> txn.seq]]]
    /\ checkpoints' = checkpoints \cup {CheckpointRow(txn, txn.target, txn.seq)}
    /\ UNCHANGED <<timeline, published>>

\* create_device starts at commit 0, fork_device and restore_device at the
\* commit they were given; a fork also leaves a ForkRecord.
ApplyCreate(txn) == txn.op = "create" /\ ApplyDevice(txn)
ApplyFork(txn) == txn.op = "fork" /\ ApplyDevice(txn)
ApplyRestore(txn) == txn.op = "restore" /\ ApplyDevice(txn)

\* checkpoint is dated with the latest commit of the heads it read.
ApplyCheckpoint(txn) ==
    /\ txn.op = "checkpoint"
    /\ checkpoints' = checkpoints \cup
         {CheckpointRow(txn, txn.device, Max({txn.read[s].latest : s \in Shards}))}
    /\ UNCHANGED <<manifests, heads, timeline, published>>

ApplyDelete(txn) ==
    /\ txn.op = "delete"
    /\ manifests' = [manifests EXCEPT ![txn.device] = "deleted"]
    /\ UNCHANGED <<heads, timeline, checkpoints, published>>

Unlock(t) == locks' = [i \in StoreShards |-> IF locks[i] = t THEN NoThread ELSE locks[i]]

\* With every lock held the read set is validated, and all writes applied or none.
Commit(t) ==
    LET txn == txns[t]
    IN  /\ txn.pc = "commit" /\ Touched(txn) \subseteq Held(t)
        /\ IF Validated(txn)
           THEN \/ ApplyWrite(txn) \/ ApplyCheckpoint(txn) \/ ApplyDelete(txn)
                \/ ApplyCreate(txn) \/ ApplyFork(txn) \/ ApplyRestore(txn)
           ELSE UNCHANGED <<records, published>>
        /\ Unlock(t) /\ Finish(t)
        /\ UNCHANGED <<next, left>>

-----------------------------------------------------------------------------
XInit ==
    /\ next = [device |-> 1, seq |-> 1, write |-> 1, checkpoint |-> 1]
    /\ left = Budget
    /\ manifests = [d \in Devices |-> "absent"]
    /\ heads = [d \in Devices |-> NoRoots]
    /\ timeline = {} /\ checkpoints = {} /\ published = {}
    /\ locks = [i \in StoreShards |-> NoThread]
    /\ txns = [t \in Threads |-> NoTxn]

\* What a thread does once its operation has begun.
Step(t) ==
    \/ SplitRange(t) \/ GetHead(t) \/ PublishBegin(t) \/ CheckShardHead(t)
    \/ ScanShard(t) \/ Replay(t)
    \/ Allocate(t) \/ LockShard(t) \/ Commit(t)

XNext ==
    \E t \in Threads :
        \/ CreateDevice(t)
        \/ \E d \in Devices, over \in SUBSET Shards \ {{}} : WriteDevice(t, d, over)
        \/ \E d \in Devices, op \in {"checkpoint", "fork", "delete"} : ReadWhole(t, op, d)
        \/ \E d \in Devices, commit \in Restorable : RestoreDevice(t, d, commit)
        \/ Step(t)

XSpec == XInit /\ [][XNext]_xvars

\* The lock of a store shard is a std Mutex, held for a bounded time.
XFairSpec == XSpec /\ \A t \in Threads : WF_xvars(Step(t))

-----------------------------------------------------------------------------
(* Properties.                                                             *)

\* Every record holds values of its type, and a lock is held only by a
\* thread that is committing.
XTypeOK ==
    /\ next \in [device: 1 .. MaxDevice + 1, seq: 1 .. MaxSeq + 1,
                 write: 1 .. MaxWrite + 1, checkpoint: 1 .. MaxCheckpoint + 1]
    /\ left \in [Ops -> Nat]
    /\ manifests \in [Devices -> {"absent", "live", "deleted"}]
    /\ heads \in [Devices -> [Shards -> [root: Roots, latest: Seqs]]]
    /\ timeline \subseteq [device: Devices, seq: Seqs, shard: Shards, old: Roots, new: Roots]
    /\ checkpoints \subseteq [id: 1 .. MaxCheckpoint, device: Devices, seq: Seqs,
                              roots: [Shards -> Roots]]
    /\ txns \in [Threads -> Txn]
    /\ published \subseteq 1 .. MaxWrite
    /\ locks \in [StoreShards -> Threads \cup {NoThread}]
    /\ \A i \in StoreShards : locks[i] # NoThread => At(locks[i], "commit")

\* The checkpoint written with the device: the one with the smallest id.
FirstCheckpoint(d) ==
    LET own == {p \in checkpoints : p.device = d}
    IN  CHOOSE p \in own : \A q \in own : p.id <= q.id

\* The state is well typed, and the timeline of a shard reconstructs its history: sorted by commit sequence,
\* the records of a shard form a chain from the root the device started with to
\* the root in its head, although a sequence number is taken before the commit
\* that uses it and commits of different numbers race.  (publish_commit_group
\* takes the number after it has read the heads it validates.)
ShardReplays ==
    /\ XTypeOK
    /\ \A d \in Devices : manifests[d] # "absent" =>
        \A s \in Shards :
            LET through(q) == ReplayShard(timeline, FirstCheckpoint(d), d, s, q)
            IN  /\ through(MaxSeq) = heads[d][s].root
                /\ \A c \in timeline :
                      c.device = d /\ c.shard = s => through(c.seq - 1) = c.old

\* "PITR replay from transaction timeline reconstructs historical shard roots":
\* a restore of the present replays to the present roots, whichever of the last
\* checkpoints it starts from.  (replay_device_roots)
RestoreReplays ==
    \A d \in Devices :
        \A base \in ReplayBases(checkpoints, d, MaxSeq), s \in Shards :
            ReplayShard(timeline, base, d, s, MaxSeq) = heads[d][s].root

\* Volumes change in atomic steps: a write reaches every shard it covers in one
\* step, on top of all that was reported before, or reaches none; a failed or
\* stale transaction changes nothing.
Volume == INSTANCE AtomicVolumes WITH
    Volumes <- Devices, Pieces <- Shards, Writes <- 1 .. MaxWrite,
    status <- manifests, reported <- published,
    contents <- [d \in Devices |-> [s \in Shards |-> heads[d][s].root]]

ImplementsVolumes == Volume!VSpec

\* Every operation returns: the shard locks are taken in one order, so no set
\* of transactions waits in a circle.
TxnsReturn == \A t \in Threads : ~At(t, "idle") ~> At(t, "idle")
=============================================================================
