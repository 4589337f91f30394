---------------------------- MODULE MetadataPlane ----------------------------
(***************************************************************************)
(* The block half of the local metadata plane (local/metadata_plane.rs)    *)
(* together with the tree edits that coordinators run against it           *)
(* (local/coordinator.rs).                                                 *)
(*                                                                         *)
(* Every method of LocalMetadataPlane takes the one `inner` mutex for its  *)
(* whole body, so it is one action here.  A block commit is NOT one        *)
(* method: a coordinator reads shard roots, builds copy-on-write paths and *)
(* publishes them under separate lock acquisitions, so other coordinators  *)
(* and the garbage collector run in between.                               *)
(*                                                                         *)
(* Trees have two levels: a shard root and its Fanout leaves; with         *)
(* Fanout = 0 the shard root is itself the leaf.  Calls that return an     *)
(* error and change nothing are stuttering steps and have no action.       *)
(***************************************************************************)
EXTENDS Integers, FiniteSets

CONSTANTS
    ShardCount,     \* shards of every device
    Fanout,         \* leaves below a shard root; 0 when the root is a leaf
    Writers,        \* concurrent block commits
    Policies,       \* retention policies the garbage collector is called with
    MaxDevice,      \* bound: device ids
    MaxNode,        \* bound: metadata node ids
    MaxCommit,      \* bound: commit sequence numbers
    MaxCheckpoint,  \* bound: checkpoint ids
    MaxEpoch        \* bound: mark epochs

\* The fields of RetentionPolicy.
RetentionPolicy ==
    [retain_deleted_devices: BOOLEAN,
     deleted_device_grace_commits: Nat,
     pitr_grace_commits: Nat]

ASSUME ConstantsAssumption ==
    /\ ShardCount \in Nat \ {0}
    /\ Fanout \in Nat
    /\ Policies \subseteq RetentionPolicy
    /\ MaxDevice \in Nat
    /\ MaxNode \in Nat
    /\ MaxCommit \in Nat
    /\ MaxCheckpoint \in Nat
    /\ MaxEpoch \in Nat

VARIABLES
    next_device_id, next_metadata_node_id, next_commit_seq,
    next_checkpoint_id, next_gc_epoch,
    device_heads,          \* live device -> its shard roots and latest commit
    deleted_device_heads,  \* deleted device -> the same; latest_commit is the delete
    device_specs,          \* devices whose spec is stored
    metadata_nodes,        \* stored node -> its children and its segments
    metadata_last_mark_epoch, \* node -> epoch that last marked it, 0 for none
    checkpoints,           \* set of checkpoint records
    shard_commits,         \* set of shard commit records
    fork_records,          \* set of fork records
    edits                  \* writer -> its commit in progress

counters == <<next_device_id, next_metadata_node_id, next_commit_seq,
              next_checkpoint_id, next_gc_epoch>>
timeline == <<checkpoints, shard_commits, fork_records>>
devices == <<device_heads, deleted_device_heads, device_specs>>
store == <<metadata_nodes, metadata_last_mark_epoch>>
vars == <<counters, timeline, devices, store, edits>>

Shards == 0 .. ShardCount - 1
NodeId == 1 .. MaxNode
Roots == [Shards -> Nat]
Head == [shard_roots: Roots, latest_commit: Nat]
Checkpoint == [id: Nat, owner: Nat, commit_seq: Nat, roots: Roots]
ShardCommit == [commit_seq: Nat, device: Nat, shard: Shards,
                old_root: Nat, new_root: Nat]
ForkRecord == [fork_seq: Nat, source: Nat, target: Nat]
MetadataNode == [children: SUBSET Nat, segments: SUBSET Nat]

\* A commit in progress: its device, the shard roots it has read, and the new
\* roots it has built.  0 stands for "none yet"; device 0 for an idle writer.
Edit == [device: Nat, old: Roots, new: Roots]
NoEdit == [device |-> 0, old |-> [s \in Shards |-> 0], new |-> [s \in Shards |-> 0]]

Live == DOMAIN device_heads
Deleted == DOMAIN deleted_device_heads
Stored == DOMAIN metadata_nodes

\* saturating_sub
Minus(a, b) == IF a > b THEN a - b ELSE 0
\* The function f without the keys in S.
Without(f, S) == [x \in DOMAIN f \ S |-> f[x]]
\* The function f with key k bound to v.
With(f, k, v) == [x \in DOMAIN f \cup {k} |-> IF x = k THEN v ELSE f[x]]

-----------------------------------------------------------------------------
(* Replay: a checkpoint and the shard commits after it.                     *)

CheckpointsOf(cks, d) == {k \in cks : k.owner = d}

\* The last checkpoint of d at or before commit c; the highest id wins a tie.
LatestCheckpoint(cks, d, c) ==
    CHOOSE k \in CheckpointsOf(cks, d) :
        /\ k.commit_seq <= c
        /\ \A j \in CheckpointsOf(cks, d) : j.commit_seq <= c =>
              \/ j.commit_seq < k.commit_seq
              \/ j.commit_seq = k.commit_seq /\ j.id <= k.id

HasCheckpoint(cks, d, c) == \E k \in CheckpointsOf(cks, d) : k.commit_seq <= c

\* Commits of shard s of device d after commit a and up to commit c.
Between(d, s, a, c) ==
    {m \in shard_commits : /\ m.device = d /\ m.shard = s
                           /\ a < m.commit_seq /\ m.commit_seq <= c}

Last(ms) == CHOOSE m \in ms : \A n \in ms : n.commit_seq <= m.commit_seq

\* The root of shard s that replay from checkpoint k reaches at commit c.
ReplayedRoot(k, s, c) ==
    LET ms == Between(k.owner, s, k.commit_seq, c)
    IN  IF ms = {} THEN k.roots[s] ELSE Last(ms).new_root

ReplayedRoots(k, c) == [s \in Shards |-> ReplayedRoot(k, s, c)]

\* Every commit replayed starts from the root replay has reached; otherwise
\* the code reports the timeline as corrupt.
ReplayConnects(k, c) ==
    \A s \in Shards : \A m \in Between(k.owner, s, k.commit_seq, c) :
        m.old_root = ReplayedRoot(k, s, m.commit_seq - 1)

\* replay_device_roots succeeds
Replays(d, c) ==
    /\ HasCheckpoint(checkpoints, d, c)
    /\ ReplayConnects(LatestCheckpoint(checkpoints, d, c), c)

\* replay_device_roots
ReplayDeviceRoots(d, c) == ReplayedRoots(LatestCheckpoint(checkpoints, d, c), c)

-----------------------------------------------------------------------------
(* Restore points.                                                          *)

\* device_timeline_contains_commit
TimelineCommits(d) ==
    {k.commit_seq : k \in CheckpointsOf(checkpoints, d)}
      \cup {m.commit_seq : m \in {n \in shard_commits : n.device = d}}

RestorePoint ==
    [kind: {"commit", "time"}, at: 0 .. MaxCommit]
      \cup [kind: {"checkpoint"}, at: 1 .. MaxCheckpoint]

\* target_commit_for_restore: the commit a restore point names, as a set that
\* is empty when the code answers NotFound.  Logical time is the commit number.
\* A restore by time that lands on the deletion of the device fails.
RestoreTarget(d, point) ==
    LET before == {c \in TimelineCommits(d) : c <= point.at}
        latest == CHOOSE c \in before : \A b \in before : b <= c
        deletion == IF d \in Deleted THEN {deleted_device_heads[d].latest_commit} ELSE {}
    IN  CASE point.kind = "commit" -> TimelineCommits(d) \cap {point.at}
          [] point.kind = "checkpoint" ->
                {k.commit_seq : k \in {j \in CheckpointsOf(checkpoints, d) : j.id = point.at}}
          [] point.kind = "time" ->
                IF before = {} \/ \E c \in deletion : c <= point.at /\ latest <= c
                THEN {} ELSE {latest}

-----------------------------------------------------------------------------
(* Retention.                                                               *)

current_commit_seq == next_commit_seq - 1

\* Mutant: the window floor one commit too high.
RetentionFloorTooHigh(p) == Minus(current_commit_seq + 1, p.pitr_grace_commits - 1)

\* pitr_retention_floor
RetentionFloor(p) == Minus(current_commit_seq, p.pitr_grace_commits - 1)

RetainPitrCommit(p, c) ==
    /\ p.pitr_grace_commits > 0
    /\ Minus(current_commit_seq, c) < p.pitr_grace_commits

RetainDeletedDevice(p, d) ==
    /\ d \in Deleted
    /\ \/ p.retain_deleted_devices
       \/ Minus(current_commit_seq, deleted_device_heads[d].latest_commit)
             < p.deleted_device_grace_commits

OwnerHasRetainedPitr(p, d) ==
    /\ p.pitr_grace_commits > 0
    /\ d \in Live \/ RetainDeletedDevice(p, d)

\* block_pitr_anchor_targets: the devices that need a replay anchor ...
AnchorOwners(p) == {d \in Live \cup Deleted : OwnerHasRetainedPitr(p, d)}

\* ... and the commit the anchor must be at.
AnchorTarget(p, d) ==
    LET latest == IF d \in Live THEN device_heads[d].latest_commit
                                ELSE deleted_device_heads[d].latest_commit
    IN  IF latest < RetentionFloor(p) THEN latest ELSE RetentionFloor(p)

MissingAnchors(p) ==
    {d \in AnchorOwners(p) :
        \A k \in CheckpointsOf(checkpoints, d) : k.commit_seq # AnchorTarget(p, d)}

Unanchored(p) == {d \in MissingAnchors(p) : ~ Replays(d, AnchorTarget(p, d))}

\* ensure_pitr_anchor_checkpoints walks the devices in id order and stops at
\* the first that does not replay; the anchors inserted before it stay.
InsertedAnchors(p) == {d \in MissingAnchors(p) : \A e \in Unanchored(p) : d < e}

Anchor(p, d) ==
    [id |-> next_checkpoint_id + Cardinality({e \in InsertedAnchors(p) : e < d}),
     owner |-> d,
     commit_seq |-> AnchorTarget(p, d),
     roots |-> ReplayDeviceRoots(d, AnchorTarget(p, d))]

EnsurePitrAnchors(p) == checkpoints \cup {Anchor(p, d) : d \in InsertedAnchors(p)}

\* retained_pitr_anchor: the checkpoint replay of the window starts from.
IsRetainedAnchor(p, cks, k) ==
    /\ HasCheckpoint(cks, k.owner, RetentionFloor(p))
    /\ k = LatestCheckpoint(cks, k.owner, RetentionFloor(p))

\* retain_checkpoint_for_pitr of an owner with retained PITR
RetainCheckpoint(p, cks, k) ==
    /\ OwnerHasRetainedPitr(p, k.owner)
    /\ RetainPitrCommit(p, k.commit_seq) \/ IsRetainedAnchor(p, cks, k)

AfterAnchor(p, cks, m) ==
    /\ HasCheckpoint(cks, m.device, RetentionFloor(p))
    /\ m.commit_seq > LatestCheckpoint(cks, m.device, RetentionFloor(p)).commit_seq

RetainShardCommit(p, cks, m) ==
    /\ OwnerHasRetainedPitr(p, m.device)
    /\ AfterAnchor(p, cks, m) \/ RetainPitrCommit(p, m.commit_seq)

RootSet(roots) == {roots[s] : s \in Shards}

\* roots_for_gc
RootsForGc(p, cks) ==
    (UNION {RootSet(device_heads[d].shard_roots) : d \in Live})
      \cup (UNION {RootSet(k.roots) : k \in {j \in cks : RetainCheckpoint(p, cks, j)}})
      \cup {m.new_root : m \in {n \in shard_commits : RetainShardCommit(p, cks, n)}}
      \cup (UNION {RootSet(deleted_device_heads[d].shard_roots) :
                     d \in {e \in Deleted : RetainDeletedDevice(p, e)}})

\* collect_reachable: the nodes of the trees below a set of roots.
Reachable(roots) ==
    roots \cup (UNION {metadata_nodes[n].children : n \in roots \cap Stored})

-----------------------------------------------------------------------------
(* Device operations.                                                       *)

InsertCheckpoint(d, c, roots) ==
    /\ next_checkpoint_id <= MaxCheckpoint
    /\ next_checkpoint_id' = next_checkpoint_id + 1
    /\ checkpoints' = checkpoints \cup
          {[id |-> next_checkpoint_id, owner |-> d, commit_seq |-> c, roots |-> roots]}

AllocCommitSeq ==
    /\ next_commit_seq <= MaxCommit
    /\ next_commit_seq' = next_commit_seq + 1

\* Mutant: node ids without the overflow check.
AllocNodesUnchecked(k) == next_metadata_node_id' = next_metadata_node_id + k

\* alloc_metadata_node_id, k times
AllocNodes(k) ==
    /\ next_metadata_node_id + k <= MaxNode + 1
    /\ next_metadata_node_id' = next_metadata_node_id + k

\* The ids of the leaves create_empty_tree allocates for shard s.
EmptyLeaves(s) ==
    {next_metadata_node_id + ShardCount + s * Fanout + i : i \in 0 .. Fanout - 1}

\* create_device: an empty tree per shard and a baseline checkpoint at commit 0.
CreateDevice ==
    LET d == next_device_id
        first == next_metadata_node_id
        size == ShardCount + ShardCount * Fanout
        roots == [s \in Shards |-> first + s]
    IN  /\ d <= MaxDevice
        /\ next_device_id' = d + 1
        /\ AllocNodes(size)
        /\ metadata_nodes' =
              [n \in Stored \cup first .. first + size - 1 |->
                  IF n \in Stored THEN metadata_nodes[n]
                  ELSE [children |-> IF n - first \in Shards THEN EmptyLeaves(n - first) ELSE {},
                        segments |-> {}]]
        /\ device_heads' = With(device_heads, d, [shard_roots |-> roots, latest_commit |-> 0])
        /\ device_specs' = device_specs \cup {d}
        /\ InsertCheckpoint(d, 0, roots)
        /\ UNCHANGED <<next_commit_seq, next_gc_epoch, deleted_device_heads,
                       metadata_last_mark_epoch, shard_commits, fork_records, edits>>

\* A head, its spec and its baseline checkpoint for a device that starts from
\* existing roots: the common end of fork_device and restore_device.
StartFrom(d, roots) ==
    /\ AllocCommitSeq
    /\ device_heads' = With(device_heads, d,
          [shard_roots |-> roots, latest_commit |-> next_commit_seq])
    /\ device_specs' = device_specs \cup {d}
    /\ InsertCheckpoint(d, next_commit_seq, roots)
    /\ UNCHANGED <<next_metadata_node_id, next_gc_epoch, deleted_device_heads,
                   store, shard_commits, edits>>

\* Mutant: the id of a deleted device is accepted as a target.
ForkDeviceOntoDeleted(source, target) ==
    /\ source \in Live
    /\ target \in 1 .. MaxDevice \ Live
    /\ next_device_id' = IF target < next_device_id THEN next_device_id ELSE target + 1
    /\ StartFrom(target, device_heads[source].shard_roots)
    /\ fork_records' = fork_records \cup
          {[fork_seq |-> next_commit_seq, source |-> source, target |-> target]}

\* fork_device: the caller may name the target id, which must be unused.
ForkDevice(source, target) ==
    /\ source \in Live
    /\ target \in 1 .. MaxDevice \ (Live \cup Deleted)
    /\ next_device_id' = IF target < next_device_id THEN next_device_id ELSE target + 1
    /\ StartFrom(target, device_heads[source].shard_roots)
    /\ fork_records' = fork_records \cup
          {[fork_seq |-> next_commit_seq, source |-> source, target |-> target]}

\* restore_device: replay the source to the restore point into a new device.
RestoreDevice(source, point) ==
    /\ source \in device_specs
    /\ next_device_id <= MaxDevice
    /\ next_device_id' = next_device_id + 1
    /\ \E c \in RestoreTarget(source, point) :
          /\ Replays(source, c)
          /\ RootSet(ReplayDeviceRoots(source, c)) \subseteq Stored
          /\ StartFrom(next_device_id, ReplayDeviceRoots(source, c))
    /\ UNCHANGED fork_records

\* delete_device
DeleteDevice(d) ==
    /\ d \in Live
    /\ AllocCommitSeq
    /\ device_heads' = Without(device_heads, {d})
    /\ deleted_device_heads' = With(deleted_device_heads, d,
          [device_heads[d] EXCEPT !.latest_commit = next_commit_seq])
    /\ UNCHANGED <<next_device_id, next_metadata_node_id, next_checkpoint_id,
                   next_gc_epoch, device_specs, store, timeline, edits>>

\* checkpoint: a user checkpoint at the head.
CheckpointDevice(d) ==
    /\ d \in Live
    /\ InsertCheckpoint(d, device_heads[d].latest_commit, device_heads[d].shard_roots)
    /\ UNCHANGED <<next_device_id, next_metadata_node_id, next_commit_seq, next_gc_epoch,
                   devices, store, shard_commits, fork_records, edits>>

-----------------------------------------------------------------------------
(* Block commits: read shard roots, build copy-on-write paths, publish.     *)

\* split_device_range: writer w reads the root of shard s from the head.
ReadShardRoot(w, d, s) ==
    /\ d \in Live
    /\ edits[w].device \in {0, d}
    /\ edits[w].old[s] = 0
    /\ edits[w].new = NoEdit.new
    /\ edits' = [edits EXCEPT ![w].device = d,
                              ![w].old[s] = device_heads[d].shard_roots[s]]
    /\ UNCHANGED <<counters, timeline, devices, store>>

\* The leaves below the root that writer w has read for shard s.
LeavesRead(w, s) ==
    LET old == edits[w].old[s]
    IN  IF old \in Stored /\ metadata_nodes[old].children # {}
        THEN metadata_nodes[old].children ELSE {old}

\* Some node on the path the writer is about to copy has been deleted.
PathBroken(w, s, leaf) == {edits[w].old[s], leaf} \ Stored # {}

\* try_replace_tree_range_single_path: the new leaf and the new root are
\* inserted under one lock.  `leaf` is the leaf the write falls into and
\* `segments` what the new leaf refers to.
EditShard(w, s, leaf, segments) ==
    LET old == edits[w].old[s]
        n == next_metadata_node_id
        newLeaf == [children |-> {}, segments |-> segments]
        newRoot == [children |-> (metadata_nodes[old].children \ {leaf}) \cup {n},
                    segments |-> {}]
    IN  /\ old # 0 /\ edits[w].new[s] = 0
        /\ leaf \in LeavesRead(w, s)
        /\ ~ PathBroken(w, s, leaf)
        /\ \/ /\ leaf = old
              /\ AllocNodes(1)
              /\ metadata_nodes' = With(metadata_nodes, n, newLeaf)
              /\ edits' = [edits EXCEPT ![w].new[s] = n]
           \/ /\ leaf # old
              /\ AllocNodes(2)
              /\ metadata_nodes' = With(With(metadata_nodes, n, newLeaf), n + 1, newRoot)
              /\ edits' = [edits EXCEPT ![w].new[s] = n + 1]
        /\ UNCHANGED <<next_device_id, next_commit_seq, next_checkpoint_id, next_gc_epoch,
                       timeline, devices, metadata_last_mark_epoch>>

\* The edit meets a node that was swept: NotFound, and the write fails.
EditShardFails(w, s, leaf) ==
    /\ edits[w].old[s] # 0 /\ edits[w].new[s] = 0
    /\ leaf \in LeavesRead(w, s)
    /\ PathBroken(w, s, leaf)
    /\ edits' = [edits EXCEPT ![w] = NoEdit]
    /\ UNCHANGED <<counters, timeline, devices, store>>

EditedShards(w) == {s \in Shards : edits[w].new[s] # 0}

\* The validation of publish_commit_group: the device is live, every old root
\* is still the shard's root, every new root is stored.
CanPublish(w) ==
    /\ edits[w].device \in Live
    /\ \A s \in EditedShards(w) :
          /\ device_heads[edits[w].device].shard_roots[s] = edits[w].old[s]
          /\ edits[w].new[s] \in Stored

\* Every shard the writer has read is edited: commit_block_batch publishes.
ReadyToPublish(w) ==
    /\ edits[w].device # 0
    /\ \A s \in Shards : edits[w].old[s] # 0 => edits[w].new[s] # 0

\* publish_commit_group: all shards of the commit under one sequence number.
PublishCommitGroup(w) ==
    LET d == edits[w].device
        ss == EditedShards(w)
        head == device_heads[d]
    IN  /\ ReadyToPublish(w)
        /\ CanPublish(w)
        /\ AllocCommitSeq
        /\ device_heads' = [device_heads EXCEPT ![d] =
              [shard_roots |-> [s \in Shards |->
                                  IF s \in ss THEN edits[w].new[s] ELSE head.shard_roots[s]],
               latest_commit |-> next_commit_seq]]
        /\ shard_commits' = shard_commits \cup
              {[commit_seq |-> next_commit_seq, device |-> d, shard |-> s,
                old_root |-> edits[w].old[s], new_root |-> edits[w].new[s]] : s \in ss}
        /\ edits' = [edits EXCEPT ![w] = NoEdit]
        /\ UNCHANGED <<next_device_id, next_metadata_node_id, next_checkpoint_id, next_gc_epoch,
                       deleted_device_heads, device_specs, store, checkpoints, fork_records>>

\* The validation fails: an error to the writer, no partial effect.
PublishRejected(w) ==
    /\ ReadyToPublish(w)
    /\ ~ CanPublish(w)
    /\ edits' = [edits EXCEPT ![w] = NoEdit]
    /\ UNCHANGED <<counters, timeline, devices, store>>

-----------------------------------------------------------------------------
(* Tracing garbage collection.                                              *)

\* The anchors a collector call inserts, whether or not it then succeeds.
InsertAnchors(p) ==
    /\ next_checkpoint_id + Cardinality(InsertedAnchors(p)) <= MaxCheckpoint + 1
    /\ next_checkpoint_id' = next_checkpoint_id + Cardinality(InsertedAnchors(p))

\* mark_reachable_for_gc: a device that cannot be anchored ends the call before
\* the epoch is allocated, a missing node after it.
MarkReachable(p) ==
    LET anchored == Unanchored(p) = {}
        reached == Reachable(RootsForGc(p, EnsurePitrAnchors(p)))
    IN  /\ next_gc_epoch <= MaxEpoch
        /\ InsertAnchors(p)
        /\ checkpoints' = EnsurePitrAnchors(p)
        /\ next_gc_epoch' = IF anchored THEN next_gc_epoch + 1 ELSE next_gc_epoch
        /\ metadata_last_mark_epoch' =
              IF anchored /\ reached \subseteq Stored
              THEN [n \in NodeId |-> IF n \in reached THEN next_gc_epoch
                                     ELSE metadata_last_mark_epoch[n]]
              ELSE metadata_last_mark_epoch
        /\ UNCHANGED <<next_device_id, next_metadata_node_id, next_commit_seq,
                       devices, metadata_nodes, shard_commits, fork_records, edits>>

\* Mutant: what is reachable at sweep time is not consulted.
SweptByMarkOnly(e, reached) == {n \in Stored : metadata_last_mark_epoch[n] # e}

\* Mutant: interior nodes are left to a later pass.
SweptLeavesOnly(e, reached) ==
    {n \in Stored : /\ metadata_last_mark_epoch[n] # e /\ n \notin reached
                    /\ metadata_nodes[n].children = {}}

\* The nodes a sweep of epoch e deletes when `reached` is reachable now.
Swept(e, reached) ==
    {n \in Stored : metadata_last_mark_epoch[n] # e /\ n \notin reached}

\* Mutant: deleted devices are forgotten whatever the policy says.
AllDeletedDevices(p) == Deleted

ExpiredDevices(p) == {d \in Deleted : ~ RetainDeletedDevice(p, d)}

\* sweep_unmarked_after_mark: deletes the nodes, then forgets expired devices
\* and the checkpoints and commits outside the retention window.
SweepUnmarked(p, e) ==
    LET cks == EnsurePitrAnchors(p)
        reached == Reachable(RootsForGc(p, cks))
        expired == ExpiredDevices(p)
        swept == Swept(e, reached)
    IN  /\ e \in 1 .. next_gc_epoch - 1
        /\ InsertAnchors(p)
        /\ IF Unanchored(p) = {} /\ reached \subseteq Stored
           THEN /\ metadata_nodes' = Without(metadata_nodes, swept)
                /\ metadata_last_mark_epoch' =
                      [n \in NodeId |-> IF n \in swept THEN 0 ELSE metadata_last_mark_epoch[n]]
                /\ deleted_device_heads' = Without(deleted_device_heads, expired)
                /\ device_specs' = device_specs \ expired
                /\ checkpoints' = {k \in cks : RetainCheckpoint(p, cks, k)}
                /\ shard_commits' = {m \in shard_commits :
                      m.device \in AnchorOwners(p) /\ AfterAnchor(p, cks, m)}
                /\ fork_records' = {f \in fork_records : {f.source, f.target} \cap expired = {}}
           ELSE /\ checkpoints' = cks
                /\ UNCHANGED <<store, deleted_device_heads, device_specs,
                               shard_commits, fork_records>>
        /\ UNCHANGED <<next_device_id, next_metadata_node_id, next_commit_seq,
                       next_gc_epoch, device_heads, edits>>

-----------------------------------------------------------------------------
Init ==
    /\ next_device_id = 1
    /\ next_metadata_node_id = 1
    /\ next_commit_seq = 1
    /\ next_checkpoint_id = 1
    /\ next_gc_epoch = 1
    /\ device_heads = [d \in {} |-> NoEdit]
    /\ deleted_device_heads = [d \in {} |-> NoEdit]
    /\ device_specs = {}
    /\ metadata_nodes = [n \in {} |-> NoEdit]
    /\ metadata_last_mark_epoch = [n \in NodeId |-> 0]
    /\ checkpoints = {}
    /\ shard_commits = {}
    /\ fork_records = {}
    /\ edits = [w \in Writers |-> NoEdit]

DeviceStep ==
    \/ CreateDevice
    \/ \E d \in 1 .. MaxDevice :
          \/ \E t \in 1 .. MaxDevice : ForkDevice(d, t)
          \/ \E point \in RestorePoint : RestoreDevice(d, point)
          \/ DeleteDevice(d)
          \/ CheckpointDevice(d)

WriterStep(w) ==
    \/ \E d \in 1 .. MaxDevice, s \in Shards : ReadShardRoot(w, d, s)
    \/ \E s \in Shards : \E leaf \in LeavesRead(w, s) :
          EditShard(w, s, leaf, {}) \/ EditShardFails(w, s, leaf)
    \/ PublishCommitGroup(w)
    \/ PublishRejected(w)

GcStep ==
    \E p \in Policies :
        \/ MarkReachable(p)
        \/ \E e \in 1 .. MaxEpoch : SweepUnmarked(p, e)

Next == DeviceStep \/ (\E w \in Writers : WriterStep(w)) \/ GcStep

Spec == Init /\ [][Next]_vars

-----------------------------------------------------------------------------
(* Properties.                                                              *)

\* Types of the plane's tables, and ids below their counters.
TypeOK ==
    /\ {next_device_id, next_metadata_node_id, next_commit_seq,
        next_checkpoint_id, next_gc_epoch} \subseteq Nat \ {0}
    /\ Live \subseteq 1 .. MaxDevice /\ device_heads \in [Live -> Head]
    /\ Deleted \subseteq 1 .. MaxDevice /\ deleted_device_heads \in [Deleted -> Head]
    /\ device_specs \subseteq Nat
    /\ Stored \subseteq NodeId /\ metadata_nodes \in [Stored -> MetadataNode]
    /\ metadata_last_mark_epoch \in [NodeId -> Nat]
    /\ checkpoints \subseteq Checkpoint
    /\ \A k \in checkpoints : k.id < next_checkpoint_id
    /\ shard_commits \subseteq ShardCommit
    /\ fork_records \subseteq ForkRecord
    /\ edits \in [Writers -> Edit]

\* The roots that the tables still name.
RecordedRoots ==
    (UNION {RootSet(device_heads[d].shard_roots) : d \in Live})
      \cup (UNION {RootSet(deleted_device_heads[d].shard_roots) : d \in Deleted})
      \cup (UNION {RootSet(k.roots) : k \in checkpoints})
      \cup {m.new_root : m \in shard_commits}

\* Sweeping never removes a node of a tree that a live head, a deleted head, a
\* checkpoint or a shard commit still names, whatever commits were being built,
\* whatever epoch is swept and whichever policies mark and sweep were given
\* (sweep_unmarked_after_mark against publish_commit_group and restore_device).
RecordsIntact == Reachable(RecordedRoots) \subseteq Stored

\* Node ids at or above the counter are unused: by nodes, as children, by writers
\* and by marks.
IdsFresh ==
    /\ \A n \in NodeId : n >= next_metadata_node_id => metadata_last_mark_epoch[n] = 0
    /\ \A n \in Stored : /\ n < next_metadata_node_id
                          /\ \A c \in metadata_nodes[n].children : c < next_metadata_node_id
    /\ \A w \in Writers : \A s \in Shards :
          edits[w].old[s] < next_metadata_node_id /\ edits[w].new[s] < next_metadata_node_id

\* A root that a writer has built and not published belongs to that writer alone:
\* no record names it, no stored node points at it, no mark has reached it, and no
\* writer started from it.
PrivateRoot(w, s) ==
    LET n == edits[w].new[s]
    IN  /\ n \notin RecordedRoots
        /\ \A m \in Stored : n \notin metadata_nodes[m].children
        /\ n \in NodeId => metadata_last_mark_epoch[n] = 0
        /\ \A v \in Writers : \A t \in Shards : n # edits[v].old[t]
        /\ \A v \in Writers : \A t \in Shards : n = edits[v].new[t] => v = w /\ t = s

StagedPrivate ==
    \A w \in Writers : \A s \in Shards : edits[w].new[s] # 0 => PrivateRoot(w, s)

\* A staged root that publish_commit_group could still accept has its whole tree:
\* if the root the writer started from is still recorded and the staged root has
\* not been swept, then neither has any node below it
\* (try_replace_tree_range_single_path against sweep_unmarked_after_mark).
StagedIntact ==
    \A w \in Writers : \A s \in Shards :
        edits[w].new[s] \in Stored /\ edits[w].old[s] \in RecordedRoots
            => Reachable({edits[w].new[s]}) \subseteq Stored

\* The inductive invariant behind RecordsIntact.
IndInv == RecordsIntact /\ IdsFresh /\ StagedPrivate /\ StagedIntact

\* Replaying any checkpoint of a device through its shard commits connects, gives
\* the roots of each later checkpoint, and ends in the roots of its head
\* (replay_device_roots against publishes, anchors, forks and sweeps).
TimelineReplays ==
    \A k \in checkpoints :
        /\ \A j \in CheckpointsOf(checkpoints, k.owner) : k.commit_seq <= j.commit_seq =>
              ReplayConnects(k, j.commit_seq) /\ ReplayedRoots(k, j.commit_seq) = j.roots
        /\ k.owner \in Live =>
              LET head == device_heads[k.owner]
              IN  /\ ReplayConnects(k, head.latest_commit)
                  /\ ReplayedRoots(k, head.latest_commit) = head.shard_roots
        /\ k.owner \in Deleted =>
              ReplayedRoots(k, current_commit_seq) = deleted_device_heads[k.owner].shard_roots

\* A fork owns no history older than the fork, even when its id was used before by
\* a device that has since expired (fork_device with an explicit target).
ForkStartsAtFork ==
    \A f \in fork_records :
        \A c \in TimelineCommits(f.target) : f.fork_seq <= c

\* A point of a device's timeline that can be restored stays restorable to the
\* same roots for ever, except that a sweep may drop what its own retention
\* policy puts outside the window (sweep_unmarked_after_mark).
HistoryStable ==
    [][\A d \in device_specs : \A c \in TimelineCommits(d) : Replays(d, c) =>
          \/ /\ d \in device_specs'
             /\ (c \in TimelineCommits(d))'
             /\ Replays(d, c)'
             /\ ReplayDeviceRoots(d, c)' = ReplayDeviceRoots(d, c)
          \/ \E p \in Policies :
                /\ \E e \in 1 .. MaxEpoch : SweepUnmarked(p, e)
                /\ ~ (OwnerHasRetainedPitr(p, d) /\ RetainPitrCommit(p, c))]_<<timeline, devices>>

\* Docs say: "If no checkpoint exists at the PITR window floor, the metadata
\* custodian creates a deterministic replay-anchor checkpoint before sweeping"
\* (docs/cow-block-storage-design.md:1600).  So the anchors of every owner can
\* always be made (ensure_pitr_anchor_checkpoints).
WindowAnchored == \A p \in Policies : Unanchored(p) = {}

\* Docs say: "Restoring a deleted source is valid only to a retained point before
\* deletion" (docs/cow-block-storage-design.md:1301).  So restore_device never
\* accepts a point of a deleted device at its deletion or later.
DeletedRestoresBeforeDeletion ==
    \A d \in Deleted : \A point \in RestorePoint : \A c \in RestoreTarget(d, point) :
        Replays(d, c) => c < deleted_device_heads[d].latest_commit

=============================================================================
