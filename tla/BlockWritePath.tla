--------------------------- MODULE BlockWritePath ---------------------------
(***************************************************************************)
(* The block write path of the coordinator over the metadata plane and the *)
(* storage nodes: a write reserves, writes and commits a segment, edits a  *)
(* shard's tree, publishes the new root and then marks its segment         *)
(* referenced, each under its own lock.  The tree edit is the one-lock     *)
(* path copy of MetadataPlane when the write replaces one whole leaf, and  *)
(* otherwise persists node by node (replace_tree_range_at).  The metadata  *)
(* custodian releases the segments its sweeps find unreachable and the     *)
(* storage-node custodian frees released and orphaned ones.                *)
(*                                                                         *)
(* A write falls into one shard and packs into one segment, so its segment *)
(* id also stands for its write intent.  Segment 0 is a discard.           *)
(***************************************************************************)
EXTENDS MetadataPlane

CONSTANTS
    MaxSegment,     \* bound on segment ids
    MarkMayFail     \* whether the mark-referenced call can be lost

ASSUME SegmentAssumption == MaxSegment \in Nat /\ MarkMayFail \in BOOLEAN

VARIABLES
    next_segment_id,
    catalog,                  \* segment -> SegmentLifecycleState, or "Absent"
    segment_store,            \* the segments whose bytes a storage node holds
    segment_last_mark_epoch,
    released_segments,        \* reported by a sweep, release not yet sent
    reclaiming,               \* freed in the catalog, bytes about to be deleted
    writes                    \* writer -> its write

segments == <<next_segment_id, catalog, segment_store>>
custodians == <<segment_last_mark_epoch, released_segments, reclaiming>>
wvars == <<vars, segments, custodians, writes>>

SegmentId == 1 .. MaxSegment
SegmentLifecycleState ==
    {"Reserved", "Writing", "DurablePendingMetadata", "Referenced", "Released", "Freed"}

\* A write: the step it has reached, its shard and segment, and during a
\* node-by-node edit the children of the new root, the leaves still to copy and
\* whether any was changed.
Phase == {"idle", "reserve", "begin", "store", "commit", "edit", "leaves", "publish", "mark"}
Write == [phase: Phase, shard: Shards, segment: Nat, children: SUBSET Nat,
          todo: SUBSET Nat, changed: BOOLEAN]
NoWrite == [phase |-> "idle", shard |-> 0, segment |-> 0, children |-> {},
            todo |-> {}, changed |-> FALSE]

At(w, phase) == writes[w].phase = phase
Goto(w, phase) == writes' = [writes EXCEPT ![w].phase = phase]
\* The write returns an error; what it has built stays behind.
Abandon(w) ==
    /\ writes' = [writes EXCEPT ![w] = NoWrite]
    /\ edits' = [edits EXCEPT ![w] = NoEdit]

-----------------------------------------------------------------------------
(* write_segment_profiled: reserve, begin, store and sync, commit.          *)

\* commit_block_batch reads the head, then allocates the segment to write.
BeginWrite(w, d, s) ==
    /\ At(w, "idle")
    /\ next_segment_id <= MaxSegment
    /\ next_segment_id' = next_segment_id + 1
    /\ ReadShardRoot(w, d, s)
    /\ writes' = [writes EXCEPT ![w] =
          [NoWrite EXCEPT !.phase = "reserve", !.shard = s, !.segment = next_segment_id]]
    /\ UNCHANGED <<catalog, segment_store, custodians>>

\* discard_device writes no segment.
BeginDiscard(w, d, s) ==
    /\ At(w, "idle")
    /\ ReadShardRoot(w, d, s)
    /\ writes' = [writes EXCEPT ![w] = [NoWrite EXCEPT !.phase = "edit", !.shard = s]]
    /\ UNCHANGED <<segments, custodians>>

\* One catalog transition of the write's segment, from one of `from`; in any
\* other state the catalog answers Conflict and the write fails.
CatalogStep(w, at, from, to, next) ==
    LET g == writes[w].segment
    IN  /\ At(w, at)
        /\ IF catalog[g] \in from
           THEN /\ catalog' = [catalog EXCEPT ![g] = to]
                /\ Goto(w, next)
                /\ UNCHANGED edits
           ELSE /\ Abandon(w)
                /\ UNCHANGED catalog
        /\ UNCHANGED <<counters, timeline, devices, store, next_segment_id, segment_store,
                       custodians>>

ReserveSegment(w) == CatalogStep(w, "reserve", {"Absent"}, "Reserved", "begin")
\* Mutant: the entry is committed before the bytes are stored.
CommitWithoutStore(w) == CatalogStep(w, "begin", {"Reserved", "Writing"}, "Writing", "commit")
BeginSegmentWrite(w) == CatalogStep(w, "begin", {"Reserved", "Writing"}, "Writing", "store")
CommitSegment(w) ==
    CatalogStep(w, "commit", {"Writing", "DurablePendingMetadata"},
                "DurablePendingMetadata", "edit")

\* write_segment_owned and sync_segment.
StoreSegment(w) ==
    /\ At(w, "store")
    /\ segment_store' = segment_store \cup {writes[w].segment}
    /\ Goto(w, "commit")
    /\ UNCHANGED <<vars, next_segment_id, catalog, custodians>>

\* The storage node answers an error: the segment stays in the state it reached.
SegmentWriteFails(w) ==
    /\ writes[w].phase \in {"reserve", "begin", "store", "commit"}
    /\ Abandon(w)
    /\ UNCHANGED <<counters, timeline, devices, store, segments, custodians>>

-----------------------------------------------------------------------------
(* The tree edit.                                                           *)

\* Mutant: a discard leaves an entry behind.
LeafSegmentsOfAll(w, kept) == kept \cup {writes[w].segment}

\* What a leaf refers to once the write replaced part of it: the segments of
\* the entries outside the written range, and the write's own.
LeafSegments(w, kept) == kept \cup ({writes[w].segment} \ {0})

\* replace_tree_range_with_receipts: a write that replaces every entry of the one
\* leaf it touches copies the path under one lock; an edit of a tree that is a
\* single leaf persists one node.
EditSinglePath(w, leaf, kept) ==
    /\ At(w, "edit")
    /\ leaf \in Stored
    /\ kept \subseteq metadata_nodes[leaf].segments
    /\ \/ kept = {} /\ writes[w].segment # 0
       \/ /\ leaf = edits[w].old[writes[w].shard]
          /\ LeafSegments(w, kept) # metadata_nodes[leaf].segments
    /\ EditShard(w, writes[w].shard, leaf, LeafSegments(w, kept))
    /\ Goto(w, "publish")
    /\ UNCHANGED <<segments, custodians>>

\* A node of the path was swept.
EditSinglePathFails(w, leaf) ==
    /\ At(w, "edit")
    /\ EditShardFails(w, writes[w].shard, leaf)
    /\ writes' = [writes EXCEPT ![w] = NoWrite]
    /\ UNCHANGED <<segments, custodians>>

\* replace_tree_range_at: the root is read once; the leaves it overlaps are
\* copied one by one.
StartNodeByNode(w, touched) ==
    LET old == edits[w].old[writes[w].shard]
    IN  /\ At(w, "edit")
        /\ old \in Stored
        /\ metadata_nodes[old].children # {}
        /\ touched # {} /\ touched \subseteq metadata_nodes[old].children
        /\ writes' = [writes EXCEPT ![w].phase = "leaves",
                                    ![w].children = metadata_nodes[old].children,
                                    ![w].todo = touched]
        /\ UNCHANGED <<vars, segments, custodians>>

\* persist_metadata_node of a new leaf that keeps the entries `kept`.  A discard
\* that finds nothing leaves the leaf as it is.
PersistLeaf(w, leaf, kept) ==
    LET n == next_metadata_node_id
        new == LeafSegments(w, kept)
    IN  /\ At(w, "leaves")
        /\ leaf \in writes[w].todo \cap Stored
        /\ \A l \in writes[w].todo : leaf <= l
        /\ kept \subseteq metadata_nodes[leaf].segments
        /\ IF new # metadata_nodes[leaf].segments
           THEN /\ AllocNodes(1)
                /\ metadata_nodes' = With(metadata_nodes, n, [children |-> {}, segments |-> new])
                /\ writes' = [writes EXCEPT ![w].todo = @ \ {leaf}, ![w].changed = TRUE,
                                            ![w].children = (@ \ {leaf}) \cup {n}]
           ELSE /\ writes' = [writes EXCEPT ![w].todo = @ \ {leaf}]
                /\ UNCHANGED <<next_metadata_node_id, metadata_nodes>>
        /\ UNCHANGED <<next_device_id, next_commit_seq, next_checkpoint_id, next_gc_epoch,
                       timeline, devices, metadata_last_mark_epoch, edits, segments, custodians>>

\* The next leaf to copy was swept.
PersistLeafFails(w) ==
    /\ At(w, "leaves")
    /\ \E leaf \in writes[w].todo \ Stored : \A l \in writes[w].todo : leaf <= l
    /\ Abandon(w)
    /\ UNCHANGED <<counters, timeline, devices, store, segments, custodians>>

\* Nothing changed: the discard returns without publishing.
NothingToPublish(w) ==
    /\ At(w, "leaves") /\ writes[w].todo = {} /\ ~ writes[w].changed
    /\ Abandon(w)
    /\ UNCHANGED <<counters, timeline, devices, store, segments, custodians>>

\* persist_metadata_node of the new root.  It names the leaves persisted
\* before, and nothing looks whether they are still there.
PersistRoot(w) ==
    LET n == next_metadata_node_id
    IN  /\ At(w, "leaves") /\ writes[w].todo = {} /\ writes[w].changed
        /\ AllocNodes(1)
        /\ metadata_nodes' =
              With(metadata_nodes, n, [children |-> writes[w].children, segments |-> {}])
        /\ edits' = [edits EXCEPT ![w].new[writes[w].shard] = n]
        /\ Goto(w, "publish")
        /\ UNCHANGED <<next_device_id, next_commit_seq, next_checkpoint_id, next_gc_epoch,
                       timeline, devices, metadata_last_mark_epoch, segments, custodians>>

-----------------------------------------------------------------------------
(* Publish, then mark the segment referenced.                               *)

Publish(w) ==
    /\ At(w, "publish")
    /\ PublishCommitGroup(w)
    /\ writes' = [writes EXCEPT ![w] =
          IF @.segment = 0 THEN NoWrite
          ELSE [@ EXCEPT !.phase = "mark", !.children = {}]]
    /\ UNCHANGED <<segments, custodians>>

PublishFails(w) ==
    /\ At(w, "publish")
    /\ PublishRejected(w)
    /\ writes' = [writes EXCEPT ![w] = NoWrite]
    /\ UNCHANGED <<segments, custodians>>

\* mark_segment_referenced; the commit is already visible.  A Conflict, or a
\* lost call, is an error to the writer.
MarkReferenced(w) ==
    LET g == writes[w].segment
    IN  /\ At(w, "mark")
        /\ \/ /\ catalog[g] \in {"DurablePendingMetadata", "Referenced"}
              /\ catalog' = [catalog EXCEPT ![g] = "Referenced"]
           \/ /\ MarkMayFail \/ catalog[g] \notin {"DurablePendingMetadata", "Referenced"}
              /\ UNCHANGED catalog
        /\ writes' = [writes EXCEPT ![w] = NoWrite]
        /\ UNCHANGED <<vars, next_segment_id, segment_store, custodians>>

-----------------------------------------------------------------------------
(* Custodians.                                                              *)

\* The segments the stored nodes in S refer to.
SegmentsOf(S) == UNION {metadata_nodes[n].segments : n \in S \cap Stored}

\* mark_reachable_for_gc also stamps the segments it reaches.
MarkPass(p) ==
    LET reached == Reachable(RootsForGc(p, EnsurePitrAnchors(p)))
    IN  /\ MarkReachable(p)
        /\ segment_last_mark_epoch' =
              [g \in SegmentId |->
                  IF /\ Unanchored(p) = {} /\ reached \subseteq Stored
                     /\ g \in SegmentsOf(reached)
                  THEN next_gc_epoch ELSE segment_last_mark_epoch[g]]
        /\ UNCHANGED <<segments, released_segments, reclaiming, writes>>

\* Mutant: a segment is released although another stored node still needs it.
ReleasedBySweptNodes(e, reached) ==
    {g \in SegmentsOf(Stored) : g \in SegmentsOf(Swept(e, reached))}

\* The segments a sweep reports as released.
ReleasedBySweep(e, reached) ==
    {g \in SegmentsOf(Stored) :
        segment_last_mark_epoch[g] # e /\ g \notin SegmentsOf(reached)}

\* sweep_unmarked_after_mark, the first part of sweep_metadata_after_mark.  One
\* collector runs at a time.
SweepPass(p, e) ==
    LET reached == Reachable(RootsForGc(p, EnsurePitrAnchors(p)))
    IN  /\ released_segments = {}
        /\ SweepUnmarked(p, e)
        /\ released_segments' =
              IF Unanchored(p) = {} /\ reached \subseteq Stored
              THEN ReleasedBySweep(e, reached) ELSE {}
        /\ UNCHANGED <<segments, segment_last_mark_epoch, reclaiming, writes>>

\* The rest of sweep_metadata_after_mark: one released segment after another.
\* A segment that is not Referenced is skipped.
ReleaseSegment(g) ==
    /\ g \in released_segments
    /\ released_segments' = released_segments \ {g}
    /\ catalog' = IF catalog[g] = "Referenced" THEN [catalog EXCEPT ![g] = "Released"] ELSE catalog
    /\ UNCHANGED <<vars, next_segment_id, segment_store, segment_last_mark_epoch, reclaiming,
                   writes>>

\* The segments of writes that have returned: the intents a caller may pass to
\* run_storage_node_custodian as expired.
Ended(g) == \A w \in Writers : writes[w].segment # g

\* run_custodian's choice of segments.
Reclaimable(g) ==
    \/ catalog[g] = "Released"
    \/ catalog[g] \in {"Reserved", "Writing", "DurablePendingMetadata"} /\ Ended(g)

\* run_custodian frees the catalog entry first ...
FreeSegment(g) ==
    /\ reclaiming = 0
    /\ Reclaimable(g)
    /\ catalog' = [catalog EXCEPT ![g] = "Freed"]
    /\ reclaiming' = g
    /\ UNCHANGED <<vars, next_segment_id, segment_store, segment_last_mark_epoch,
                   released_segments, writes>>

\* ... and then the bytes.
DeleteSegmentBytes ==
    /\ reclaiming # 0
    /\ segment_store' = segment_store \ {reclaiming}
    /\ reclaiming' = 0
    /\ UNCHANGED <<vars, next_segment_id, catalog, segment_last_mark_epoch, released_segments,
                   writes>>

-----------------------------------------------------------------------------
WInit ==
    /\ Init
    /\ next_segment_id = 1
    /\ catalog = [g \in SegmentId |-> "Absent"]
    /\ segment_store = {}
    /\ segment_last_mark_epoch = [g \in SegmentId |-> 0]
    /\ released_segments = {}
    /\ reclaiming = 0
    /\ writes = [w \in Writers |-> NoWrite]

WriteStep(w) ==
    \/ \E d \in Live : \E s \in Shards : BeginWrite(w, d, s) \/ BeginDiscard(w, d, s)
    \/ ReserveSegment(w) \/ BeginSegmentWrite(w) \/ StoreSegment(w) \/ CommitSegment(w)
    \/ SegmentWriteFails(w)
    \/ /\ At(w, "edit")
       /\ \E leaf \in LeavesRead(w, writes[w].shard) :
             \/ \E kept \in SUBSET SegmentId : EditSinglePath(w, leaf, kept)
             \/ EditSinglePathFails(w, leaf)
    \/ \E touched \in SUBSET LeavesRead(w, writes[w].shard) : StartNodeByNode(w, touched)
    \/ \E leaf \in writes[w].todo : \E kept \in SUBSET SegmentId : PersistLeaf(w, leaf, kept)
    \/ PersistLeafFails(w) \/ NothingToPublish(w) \/ PersistRoot(w)
    \/ Publish(w) \/ PublishFails(w) \/ MarkReferenced(w)

CustodianStep ==
    \/ \E p \in Policies : MarkPass(p) \/ \E e \in 1 .. MaxEpoch : SweepPass(p, e)
    \/ \E g \in SegmentId : ReleaseSegment(g) \/ FreeSegment(g)
    \/ DeleteSegmentBytes

WNext ==
    \/ DeviceStep /\ UNCHANGED <<segments, custodians, writes>>
    \/ \E w \in Writers : WriteStep(w)
    \/ CustodianStep

WSpec == WInit /\ [][WNext]_wvars

-----------------------------------------------------------------------------
(* Properties.                                                              *)

\* The types of the write path's state; leaves name only segments that a write
\* reserved, never the 0 of a discard (replace_tree_range_at with a sparse
\* replacement keeps no entry for it).
WriteTypeOK ==
    /\ TypeOK
    /\ next_segment_id \in 1 .. MaxSegment + 1
    /\ catalog \in [SegmentId -> SegmentLifecycleState \cup {"Absent"}]
    /\ segment_store \cup SegmentsOf(Stored) \subseteq SegmentId
    /\ segment_last_mark_epoch \in [SegmentId -> 0 .. MaxEpoch]
    /\ released_segments \subseteq SegmentId
    /\ reclaiming \in SegmentId \cup {0}
    /\ writes \in [Writers -> Write]

\* Every segment that a tree of a head, a deleted head, a checkpoint or a shard
\* commit refers to is durable in its catalog and its bytes are there, whatever
\* writes, sweeps and custodians interleave (commit_block_batch_with_delta against
\* sweep_metadata_after_mark and run_custodian).
RecordedSegmentsDurable ==
    \A g \in SegmentsOf(Reachable(RecordedRoots)) :
        /\ catalog[g] \in {"DurablePendingMetadata", "Referenced"}
        /\ g \in segment_store

\* Bytes follow the catalog: a committed segment has its bytes until the custodian
\* that frees it deletes them, and no bytes outlive their catalog entry
\* (run_custodian, write_segment_profiled).
BytesFollowCatalog ==
    \A g \in SegmentId :
        /\ catalog[g] \in {"DurablePendingMetadata", "Referenced", "Released"} => g \in segment_store
        /\ catalog[g] \in {"Absent", "Freed"} /\ reclaiming # g => g \notin segment_store

\* No step removes a node of a tree that was recorded before it and is after it,
\* even while node-by-node edits and sweeps overlap (sweep_unmarked_after_mark).
RecordedNodesKept ==
    [][\A r \in RecordedRoots : r \in RecordedRoots' =>
          Reachable({r}) \cap Stored \subseteq Stored']_wvars

\* Docs say: "This lets mark and sweep pause deterministically without deleting
\* nodes created or published after a mark started"
\* (docs/cow-block-storage-design.md:1583).  So every tree a live head names is
\* whole (replace_tree_range_at against sweep_unmarked_after_mark).
LiveTreesWhole ==
    \A d \in Live : Reachable(RootSet(device_heads[d].shard_roots)) \subseteq Stored

\* Docs say: "Missed asynchronous frees are eventually corrected by periodic
\* reconciliation" (docs/cow-block-storage-design.md:1703).  A sweep releases only
\* segments that stored nodes name, so a referenced segment has to stay named by
\* one, or be about to be released, to be freed ever (sweep_metadata_after_mark).
ReferencedTracked ==
    \A g \in SegmentId :
        catalog[g] = "Referenced" => g \in SegmentsOf(Stored) \cup released_segments

\* Docs say: "The storage-node custodian never frees a segment that is reachable
\* from a live device or retained PITR root" (docs/cow-block-storage-design.md:1697).
\* Two orders break it.  A sweep reports the segment of an unfinished node-by-node
\* write as released, and the release is sent after the write has published and
\* marked it (sweep_metadata_after_mark); or the mark-referenced call is lost after
\* the publish and the returned write's intent is passed as expired (run_custodian).
LiveSegmentsKept ==
    \A d \in Live : \A g \in SegmentsOf(Reachable(RootSet(device_heads[d].shard_roots))) :
        catalog[g] # "Freed"

=============================================================================
