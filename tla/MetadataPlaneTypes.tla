------------------------- MODULE MetadataPlaneTypes -------------------------
(***************************************************************************)
(* Types of MetadataPlane and the facts about checkpoints, replay and      *)
(* anchors they rest on; the steps that only record or forget trees keep   *)
(* the invariant of garbage-collection safety; the steps that start a      *)
(* device keep the invariant of the timelines.                             *)
(***************************************************************************)
EXTENDS MetadataPlane, TLAPS

\* What the lemmas need to know of numbers: a non-empty set of them has a least
\* element, and a set of device ids has a size, larger than any proper subset's.
\* Counted proves it from the library wherever a theorem needs it.
Numbered ==
    /\ \A T \in SUBSET Nat : T # {} => \E x \in T : \A y \in T : x <= y
    /\ \A b \in Nat : \A I \in SUBSET (1 .. b) :
          /\ Cardinality(I) \in Nat
          /\ \A J \in SUBSET I : Cardinality(J) \in Nat
          /\ \A J \in SUBSET I : J # I => Cardinality(J) < Cardinality(I)

\* A non-empty bounded set of naturals has a greatest element.
LEMMA Maximum ==
    ASSUME Numbered, NEW T \in SUBSET Nat, T # {}, NEW b \in Nat, \A x \in T : x <= b
    PROVE  \E x \in T : \A y \in T : y <= x
<1> DEFINE D == {b - x : x \in T}
<1>1. D \in SUBSET Nat
  OBVIOUS
<1>5. D # {}
  BY ZenonT(30)
<1>2. PICK m \in D : \A y \in D : m <= y
  BY ZenonT(60), <1>1, <1>5 DEF Numbered
<1>3. PICK x \in T : m = b - x
  BY <1>2
<1>4. ASSUME NEW y \in T PROVE y <= x
  <2>1. b - y \in D
    OBVIOUS
  <2> QED
    BY <2>1, <1>2, <1>3
<1> QED
  BY <1>4

\* The checkpoint replay starts from is one of the device's checkpoints, and none
\* up to the commit replayed to is later.
LEMMA LatestCheckpointIn ==
    ASSUME Numbered, NEW cks \in SUBSET Checkpoint, NEW b \in Nat, \A k \in cks : k.id < b,
           NEW d, NEW c \in Nat, HasCheckpoint(cks, d, c)
    PROVE  /\ LatestCheckpoint(cks, d, c) \in CheckpointsOf(cks, d)
           /\ LatestCheckpoint(cks, d, c).commit_seq <= c
           /\ \A j \in CheckpointsOf(cks, d) : j.commit_seq <= c =>
                 j.commit_seq <= LatestCheckpoint(cks, d, c).commit_seq
<1> DEFINE Early == {k \in CheckpointsOf(cks, d) : k.commit_seq <= c}
           Seqs == {k.commit_seq : k \in Early}
<1>1. Early # {} /\ Early \subseteq Checkpoint
  BY DEF HasCheckpoint, CheckpointsOf
<1>2. Seqs \in SUBSET Nat /\ Seqs # {} /\ \A x \in Seqs : x <= c
  BY <1>1 DEF Checkpoint
<1>3. PICK top \in Seqs : \A y \in Seqs : y <= top
  BY ZenonT(30), <1>2, Maximum
<1> DEFINE Ids == {k.id : k \in {j \in Early : j.commit_seq = top}}
<1>4. Ids \in SUBSET Nat /\ Ids # {} /\ \A x \in Ids : x <= b
  BY <1>1, <1>3 DEF Checkpoint, CheckpointsOf
<1>5. PICK id \in Ids : \A y \in Ids : y <= id
  BY ZenonT(30), <1>4, Maximum
<1>6. PICK k \in Early : k.commit_seq = top /\ k.id = id
  BY <1>5
<1>7. ASSUME NEW j \in CheckpointsOf(cks, d), j.commit_seq <= c
      PROVE  \/ j.commit_seq < k.commit_seq
             \/ j.commit_seq = k.commit_seq /\ j.id <= k.id
  <2>1. j \in Early /\ j.commit_seq \in Seqs /\ j.commit_seq \in Nat /\ top \in Nat
    BY <1>7, <1>1, <1>2 DEF Checkpoint
  <2>2. j.commit_seq <= top
    BY <2>1, <1>3
  <2>3. j.commit_seq = top => j.id \in Ids
    BY <2>1
  <2> QED
    BY <2>1, <2>2, <2>3, <1>5, <1>6
<1>8. \E k1 \in CheckpointsOf(cks, d) :
        /\ k1.commit_seq <= c
        /\ \A j \in CheckpointsOf(cks, d) : j.commit_seq <= c =>
              \/ j.commit_seq < k1.commit_seq
              \/ j.commit_seq = k1.commit_seq /\ j.id <= k1.id
  BY <1>6, <1>7
<1> DEFINE l == LatestCheckpoint(cks, d, c)
<1>9. /\ l \in CheckpointsOf(cks, d)
      /\ l.commit_seq <= c
      /\ \A j \in CheckpointsOf(cks, d) : j.commit_seq <= c =>
            \/ j.commit_seq < l.commit_seq
            \/ j.commit_seq = l.commit_seq /\ j.id <= l.id
  BY <1>8, Zenon DEF LatestCheckpoint
<1> HIDE DEF l
<1>10. \A j \in CheckpointsOf(cks, d) : j.commit_seq \in Nat
  BY DEF CheckpointsOf, Checkpoint
<1>11. \A j \in CheckpointsOf(cks, d) : j.commit_seq <= c => j.commit_seq <= l.commit_seq
  BY <1>9, <1>10
<1> QED
  BY <1>9, <1>11 DEF l

\* The last commit of a non-empty stretch of a shard's history is in it.
LEMMA LastIn ==
    ASSUME Numbered, shard_commits \subseteq ShardCommit,
           NEW d, NEW s, NEW a, NEW c \in Nat, Between(d, s, a, c) # {}
    PROVE  Last(Between(d, s, a, c)) \in shard_commits
<1> DEFINE ms == Between(d, s, a, c)
           Seqs == {m.commit_seq : m \in ms}
<1>1. ms \subseteq shard_commits /\ \A m \in ms : m.commit_seq <= c
  BY DEF Between
<1>2. Seqs \in SUBSET Nat /\ Seqs # {} /\ \A x \in Seqs : x <= c
  BY <1>1 DEF ShardCommit
<1> HIDE DEF ms
<1>3. PICK top \in Seqs : \A y \in Seqs : y <= top
  BY ZenonT(30), <1>2, Maximum
<1>4. \E m \in ms : \A n \in ms : n.commit_seq <= m.commit_seq
  BY <1>3
<1>5. Last(ms) \in ms
  BY <1>4 DEF Last
<1> QED
  BY <1>5, <1>1 DEF ms

\* A replay that succeeds ends in roots that some record names.
LEMMA ReplayRecorded ==
    ASSUME Numbered, TypeOK, NEW d, NEW c \in Nat, Replays(d, c)
    PROVE  /\ ReplayDeviceRoots(d, c) \in Roots
           /\ RootSet(ReplayDeviceRoots(d, c)) \subseteq RecordedRoots
<1> DEFINE k == LatestCheckpoint(checkpoints, d, c)
<1>1. HasCheckpoint(checkpoints, d, c)
  BY DEF Replays
<1>2. k \in checkpoints /\ k \in Checkpoint
  BY <1>1, LatestCheckpointIn DEF TypeOK, CheckpointsOf
<1> HIDE DEF k
<1>3. ASSUME NEW s \in Shards
      PROVE  ReplayedRoot(k, s, c) \in Nat /\ ReplayedRoot(k, s, c) \in RecordedRoots
  <2> DEFINE ms == Between(k.owner, s, k.commit_seq, c)
  <2>1. CASE ms = {}
    <3>1. ReplayedRoot(k, s, c) = k.roots[s]
      BY <2>1 DEF ReplayedRoot
    <3>2. k.roots[s] \in RootSet(k.roots)
      BY DEF RootSet
    <3> QED
      BY <3>1, <3>2, <1>2 DEF Checkpoint, Roots, RecordedRoots
  <2>2. CASE ms # {}
    <3>1. ReplayedRoot(k, s, c) = Last(ms).new_root
      BY <2>2 DEF ReplayedRoot
    <3>2. Last(ms) \in shard_commits
      BY <2>2, LastIn DEF TypeOK
    <3> QED
      BY <3>1, <3>2 DEF TypeOK, ShardCommit, RecordedRoots
  <2> QED
    BY <2>1, <2>2
<1>4. ReplayDeviceRoots(d, c) = [s \in Shards |-> ReplayedRoot(k, s, c)]
  BY DEF ReplayDeviceRoots, ReplayedRoots, k
<1> QED
  BY <1>3, <1>4 DEF Roots, RootSet

\* The commit an anchor is placed at is a number.
LEMMA AnchorTargetType ==
    ASSUME TypeOK, NEW p \in Policies, NEW d \in AnchorOwners(p)
    PROVE  AnchorTarget(p, d) \in Nat
<1>1. RetentionFloor(p) \in Nat
  <2>1. p \in RetentionPolicy /\ p.pitr_grace_commits \in Nat
    BY ConstantsAssumption DEF RetentionPolicy
  <2>2. next_commit_seq \in Nat \ {0}
    BY DEF TypeOK
  <2> QED
    BY <2>1, <2>2 DEF RetentionFloor, Minus, current_commit_seq
<1>2. d \in Live => device_heads[d].latest_commit \in Nat
  BY ZenonT(30) DEF TypeOK, Head
<1>3. d \in Deleted => deleted_device_heads[d].latest_commit \in Nat
  BY ZenonT(30) DEF TypeOK, Head
<1>4. d \in Live \cup Deleted
  BY DEF AnchorOwners
<1> QED
  BY <1>1, <1>2, <1>3, <1>4 DEF AnchorTarget

\* An inserted anchor is a checkpoint with a fresh id whose roots are recorded.
LEMMA AnchorsSound ==
    ASSUME Numbered, TypeOK, NEW p \in Policies
    PROVE  /\ Cardinality(InsertedAnchors(p)) \in Nat
           /\ \A d \in InsertedAnchors(p) :
                 /\ Anchor(p, d) \in Checkpoint
                 /\ Anchor(p, d).id < next_checkpoint_id + Cardinality(InsertedAnchors(p))
                 /\ RootSet(Anchor(p, d).roots) \subseteq RecordedRoots
<1> DEFINE I == InsertedAnchors(p)
<1>1. I \subseteq AnchorOwners(p) /\ I \subseteq 1 .. MaxDevice
  BY ZenonT(30) DEF InsertedAnchors, MissingAnchors, AnchorOwners, TypeOK
<1>2. /\ Cardinality(I) \in Nat
      /\ \A J \in SUBSET I : Cardinality(J) \in Nat
      /\ \A J \in SUBSET I : J # I => Cardinality(J) < Cardinality(I)
  <2> HIDE DEF I
  <2> QED
    BY ZenonT(60), <1>1, ConstantsAssumption DEF Numbered
<1>3. Cardinality(I) \in Nat
  BY <1>2
<1>4. ASSUME NEW d \in I
      PROVE  /\ Anchor(p, d) \in Checkpoint
             /\ Anchor(p, d).id < next_checkpoint_id + Cardinality(I)
             /\ RootSet(Anchor(p, d).roots) \subseteq RecordedRoots
  <2> DEFINE J == {e \in I : e < d}
             t == AnchorTarget(p, d)
  <2>1. t \in Nat
    BY <1>1, AnchorTargetType
  <2>2. d \in Nat /\ d \notin J /\ J \subseteq I
    BY <1>1, ConstantsAssumption
  <2>3. Cardinality(J) \in Nat /\ Cardinality(J) < Cardinality(I)
    BY <2>2, <1>2
  <2>4. Replays(d, t)
    <3>1. d \notin Unanchored(p)
      BY <2>2 DEF InsertedAnchors
    <3> QED
      BY <3>1 DEF InsertedAnchors, Unanchored
  <2>5. /\ ReplayDeviceRoots(d, t) \in Roots
        /\ RootSet(ReplayDeviceRoots(d, t)) \subseteq RecordedRoots
    BY <2>1, <2>4, ReplayRecorded
  <2>6. Anchor(p, d) = [id |-> next_checkpoint_id + Cardinality(J), owner |-> d,
                        commit_seq |-> t, roots |-> ReplayDeviceRoots(d, t)]
    BY DEF Anchor
  <2>7. next_checkpoint_id \in Nat
    BY DEF TypeOK
  <2> HIDE DEF I, J, t
  <2> QED
    BY <2>1, <2>2, <2>3, <2>5, <2>6, <2>7, <1>3 DEF Checkpoint
<1> QED
  BY <1>3, <1>4

-----------------------------------------------------------------------------
(* Type correctness.                                                        *)

\* EnsurePitrAnchors keeps the table of checkpoints well formed.
LEMMA EnsuredType ==
    ASSUME Numbered, TypeOK, NEW p \in Policies, InsertAnchors(p)
    PROVE  /\ EnsurePitrAnchors(p) \subseteq Checkpoint
           /\ \A k \in EnsurePitrAnchors(p) : k.id < next_checkpoint_id'
           /\ next_checkpoint_id' \in Nat \ {0}
<1>1. next_checkpoint_id' = next_checkpoint_id + Cardinality(InsertedAnchors(p))
  BY DEF InsertAnchors
<1>2. /\ checkpoints \subseteq Checkpoint
      /\ \A k \in checkpoints : k.id < next_checkpoint_id /\ k.id \in Nat
      /\ next_checkpoint_id \in Nat \ {0}
  BY DEF TypeOK, Checkpoint
<1> QED
  BY <1>1, <1>2, AnchorsSound DEF EnsurePitrAnchors

\* The empty metadata plane of MetadataInner::new is well typed.
LEMMA InitType == Init => TypeOK
<1> SUFFICES ASSUME Init PROVE TypeOK
  OBVIOUS
<1>1. NoEdit \in Edit
  BY DEF NoEdit, Edit, Roots
<1>2. Live = {} /\ Deleted = {} /\ Stored = {}
  BY ZenonT(60) DEF Init, Live, Deleted, Stored
<1> QED
  BY <1>1, <1>2 DEF Init, TypeOK, NodeId

\* create_device keeps the types: the ids of its empty trees stay within the bound.
LEMMA CreateDeviceType == TypeOK /\ CreateDevice => TypeOK'
<1> SUFFICES ASSUME TypeOK, CreateDevice PROVE TypeOK'
  BY ZenonT(60)
<1> DEFINE first == next_metadata_node_id
           size == ShardCount + ShardCount * Fanout
           roots == [s \in Shards |-> first + s]
           d == next_device_id
<1>1. size \in Nat /\ first \in Nat \ {0} /\ first + size <= MaxNode + 1
  BY ConstantsAssumption DEF TypeOK, CreateDevice, AllocNodes
<1>2. roots \in Roots
  BY <1>1, ConstantsAssumption DEF Roots, Shards
<1>3. /\ metadata_nodes' \in [Stored' -> MetadataNode]
      /\ Stored' \subseteq NodeId
  <2>1. metadata_nodes' =
          [n \in Stored \cup first .. first + size - 1 |->
              IF n \in Stored THEN metadata_nodes[n]
              ELSE [children |-> IF n - first \in Shards THEN EmptyLeaves(n - first) ELSE {},
                    segments |-> {}]]
    BY DEF CreateDevice
  <2>2. ASSUME NEW n \in first .. first + size - 1
        PROVE  [children |-> IF n - first \in Shards THEN EmptyLeaves(n - first) ELSE {},
                segments |-> {}] \in MetadataNode
    <3>1. ASSUME NEW s \in Shards PROVE EmptyLeaves(s) \subseteq Nat
      BY <1>1, ConstantsAssumption DEF EmptyLeaves, Shards
    <3> QED
      BY <3>1 DEF MetadataNode
  <2>3. Stored' = Stored \cup first .. first + size - 1
    BY <2>1 DEF Stored
  <2>4. Stored \subseteq NodeId /\ metadata_nodes \in [Stored -> MetadataNode]
    BY DEF TypeOK
  <2>5. first .. first + size - 1 \subseteq NodeId
    BY <1>1, ConstantsAssumption DEF NodeId
  <2> HIDE DEF first, size
  <2> QED
    BY ZenonT(60), <2>1, <2>2, <2>3, <2>4, <2>5
<1>4. /\ device_heads' \in [Live' -> Head]
      /\ Live' \subseteq 1 .. MaxDevice
  <2>1. device_heads' = With(device_heads, d, [shard_roots |-> roots, latest_commit |-> 0])
    BY DEF CreateDevice
  <2>2. d \in 1 .. MaxDevice
    BY ConstantsAssumption DEF CreateDevice, TypeOK
  <2>3. [shard_roots |-> roots, latest_commit |-> 0] \in Head
    BY <1>2 DEF Head
  <2> HIDE DEF roots, d
  <2> QED
    BY <2>1, <2>2, <2>3 DEF TypeOK, With, Live
<1>5. /\ checkpoints' \subseteq Checkpoint
      /\ \A k \in checkpoints' : k.id < next_checkpoint_id'
      /\ next_checkpoint_id' \in Nat \ {0}
  <2>1. InsertCheckpoint(d, 0, roots) /\ d \in Nat
    BY DEF CreateDevice, TypeOK
  <2> HIDE DEF roots, d
  <2> QED
    BY SMTT(30), <2>1, <1>2 DEF TypeOK, InsertCheckpoint, Checkpoint
<1>6. next_device_id' \in Nat \ {0} /\ device_specs' \subseteq Nat
  <2>1. next_device_id' = next_device_id + 1 /\ device_specs' = device_specs \cup {next_device_id}
    BY DEF CreateDevice
  <2>2. next_device_id \in Nat \ {0} /\ device_specs \subseteq Nat
    BY ZenonT(60) DEF TypeOK
  <2> QED
    BY SMTT(60), <2>1, <2>2
<1>7. next_metadata_node_id' \in Nat \ {0}
  BY <1>1 DEF CreateDevice, AllocNodes
<1> QED
  BY ZenonT(60), <1>3, <1>4, <1>5, <1>6, <1>7 DEF CreateDevice, TypeOK, Deleted

\* fork_device and restore_device install a typed head and checkpoint.
LEMMA StartFromType ==
    ASSUME TypeOK, NEW d \in 1 .. MaxDevice, NEW roots \in Roots, StartFrom(d, roots),
           next_device_id' \in Nat \ {0}, fork_records' \subseteq ForkRecord
    PROVE  TypeOK'
<1>1. [shard_roots |-> roots, latest_commit |-> next_commit_seq] \in Head
  BY DEF Head, TypeOK
<1>2. /\ device_heads' \in [Live' -> Head]
      /\ Live' \subseteq 1 .. MaxDevice
  BY <1>1 DEF StartFrom, With, Live, TypeOK
<1>3. /\ checkpoints' \subseteq Checkpoint
      /\ \A k \in checkpoints' : k.id < next_checkpoint_id'
      /\ next_checkpoint_id' \in Nat \ {0}
  <2>1. InsertCheckpoint(d, next_commit_seq, roots) /\ d \in Nat
    BY ConstantsAssumption DEF StartFrom
  <2> QED
    BY <2>1 DEF InsertCheckpoint, TypeOK, Checkpoint
<1>4. next_commit_seq' \in Nat \ {0} /\ device_specs' \subseteq Nat
  BY ConstantsAssumption DEF StartFrom, AllocCommitSeq, TypeOK
<1> QED
  BY ZenonT(60), <1>2, <1>3, <1>4 DEF StartFrom, store, TypeOK, Deleted, Stored

\* fork_device keeps the types.
LEMMA ForkDeviceType ==
    ASSUME TypeOK, NEW source, NEW target, ForkDevice(source, target)
    PROVE  TypeOK'
<1>1. source \in Live /\ target \in 1 .. MaxDevice /\ target \in Nat
  BY ConstantsAssumption DEF ForkDevice
<1>2. device_heads[source].shard_roots \in Roots /\ source \in Nat
  <2>1. Live \subseteq 1 .. MaxDevice /\ device_heads \in [Live -> Head]
    BY DEF TypeOK
  <2>2. source \in Nat
    BY <1>1, <2>1, ConstantsAssumption
  <2>3. device_heads[source] \in Head
    BY <1>1, <2>1
  <2> QED
    BY <2>2, <2>3 DEF Head
<1>3. next_device_id' \in Nat \ {0}
  <2>1. next_device_id' = IF target < next_device_id THEN next_device_id ELSE target + 1
    BY DEF ForkDevice
  <2> QED
    BY <2>1, <1>1 DEF TypeOK
<1>4. fork_records' \subseteq ForkRecord
  <2>1. [fork_seq |-> next_commit_seq, source |-> source, target |-> target] \in ForkRecord
    BY <1>1, <1>2 DEF ForkRecord, TypeOK
  <2> QED
    BY <2>1 DEF ForkDevice, TypeOK
<1>5. StartFrom(target, device_heads[source].shard_roots)
  BY DEF ForkDevice
<1> QED
  BY <1>1, <1>2, <1>3, <1>4, <1>5, StartFromType

\* The commits a restore point names are numbers.
LEMMA RestoreTargetType ==
    ASSUME Numbered, TypeOK, NEW d, NEW point \in RestorePoint, NEW c \in RestoreTarget(d, point)
    PROVE  c \in Nat
<1>1. TimelineCommits(d) \subseteq Nat
  BY DEF TimelineCommits, CheckpointsOf, TypeOK, Checkpoint, ShardCommit
<1>2. CASE point.kind = "commit"
  BY <1>1, <1>2 DEF RestoreTarget
<1>3. CASE point.kind = "checkpoint"
  BY <1>3 DEF RestoreTarget, CheckpointsOf, TypeOK, Checkpoint
<1>4. CASE point.kind = "time"
  <2> DEFINE before == {b \in TimelineCommits(d) : b <= point.at}
             latest == CHOOSE b \in before : \A a \in before : a <= b
  <2>1. before # {} /\ c = latest
    BY <1>4 DEF RestoreTarget
  <2>2. point.at \in Nat
    BY <1>4, ConstantsAssumption DEF RestorePoint
  <2>3. \E b \in before : \A a \in before : a <= b
    BY ZenonT(30), <1>1, <2>1, <2>2, Maximum
  <2>4. latest \in before
    BY <2>3
  <2> QED
    BY <2>1, <2>4, <1>1
<1> QED
  BY SMTT(30), <1>2, <1>3, <1>4 DEF RestorePoint

\* restore_device keeps the types.
LEMMA RestoreDeviceType ==
    ASSUME Numbered, TypeOK, NEW source, NEW point \in RestorePoint, RestoreDevice(source, point)
    PROVE  TypeOK'
<1>1. PICK c \in RestoreTarget(source, point) :
        /\ Replays(source, c)
        /\ StartFrom(next_device_id, ReplayDeviceRoots(source, c))
  BY DEF RestoreDevice
<1>2. ReplayDeviceRoots(source, c) \in Roots
  BY ZenonT(60), <1>1, ReplayRecorded, RestoreTargetType
<1>3. next_device_id \in 1 .. MaxDevice /\ next_device_id' \in Nat \ {0}
  BY ConstantsAssumption DEF RestoreDevice, TypeOK
<1>4. fork_records' \subseteq ForkRecord
  BY DEF RestoreDevice, TypeOK
<1> QED
  BY <1>1, <1>2, <1>3, <1>4, StartFromType

\* delete_device keeps the types: the head moves from the live to the deleted ones.
LEMMA DeleteDeviceType ==
    ASSUME TypeOK, NEW d, DeleteDevice(d)
    PROVE  TypeOK'
<1>1. d \in Live /\ device_heads[d] \in Head /\ next_commit_seq \in Nat \ {0}
  BY DEF DeleteDevice, TypeOK
<1>2. [device_heads[d] EXCEPT !.latest_commit = next_commit_seq] \in Head
  BY <1>1 DEF Head
<1>3. device_heads' \in [Live' -> Head] /\ Live' \subseteq 1 .. MaxDevice
  BY DEF DeleteDevice, Without, Live, TypeOK
<1>4. deleted_device_heads' \in [Deleted' -> Head] /\ Deleted' \subseteq 1 .. MaxDevice
  BY <1>1, <1>2 DEF DeleteDevice, With, Deleted, TypeOK
<1>5. next_commit_seq' \in Nat \ {0}
  BY <1>1 DEF DeleteDevice, AllocCommitSeq
<1> QED
  BY ZenonT(30), <1>3, <1>4, <1>5 DEF DeleteDevice, store, timeline, TypeOK, Stored

\* checkpoint keeps the types.
LEMMA CheckpointDeviceType ==
    ASSUME TypeOK, NEW d, CheckpointDevice(d)
    PROVE  TypeOK'
<1>1. d \in Live /\ d \in Nat /\ device_heads[d] \in Head
  <2>1. d \in Live /\ device_heads[d] \in Head /\ Live \subseteq 1 .. MaxDevice
    BY ZenonT(60) DEF CheckpointDevice, TypeOK
  <2> QED
    BY <2>1, ConstantsAssumption
<1>2. /\ checkpoints' \subseteq Checkpoint
      /\ \A k \in checkpoints' : k.id < next_checkpoint_id'
      /\ next_checkpoint_id' \in Nat \ {0}
  BY <1>1 DEF CheckpointDevice, InsertCheckpoint, TypeOK, Checkpoint, Head
<1> QED
  BY <1>2 DEF CheckpointDevice, devices, store, TypeOK, Live, Deleted, Stored

\* Reading the root a commit starts from keeps the types.
LEMMA ReadShardRootType ==
    ASSUME TypeOK, NEW w \in Writers, NEW d, NEW s \in Shards, ReadShardRoot(w, d, s)
    PROVE  TypeOK'
<1>1. d \in Live /\ d \in Nat /\ device_heads[d].shard_roots[s] \in Nat
  BY ConstantsAssumption DEF ReadShardRoot, TypeOK, Head, Roots
<1> DEFINE e == [edits[w] EXCEPT !.device = d, !.old[s] = device_heads[d].shard_roots[s]]
<1>2. edits[w] \in Edit
  BY DEF TypeOK
<1>3. e \in Edit
  BY ZenonT(30), <1>1, <1>2 DEF Edit, Roots
<1>4. edits' = [edits EXCEPT ![w] = e]
  BY ZenonT(30) DEF ReadShardRoot
<1> HIDE DEF e
<1>5. edits' \in [Writers -> Edit]
  BY <1>3, <1>4 DEF TypeOK
<1> QED
  BY <1>5 DEF ReadShardRoot, counters, timeline, devices, store, TypeOK, Live, Deleted, Stored

\* A path-copying edit keeps the types, in both of its forms.
LEMMA EditShardType ==
    ASSUME TypeOK, NEW w \in Writers, NEW s \in Shards, NEW leaf,
           NEW segments \in SUBSET Nat, EditShard(w, s, leaf, segments)
    PROVE  TypeOK'
<1> DEFINE n == next_metadata_node_id
           old == edits[w].old[s]
           newLeaf == [children |-> {}, segments |-> segments]
           newRoot == [children |-> (metadata_nodes[old].children \ {leaf}) \cup {n},
                       segments |-> {}]
<1>1. n \in Nat \ {0}
  BY ZenonT(60) DEF TypeOK
<1>2. old \in Stored
  BY ZenonT(60) DEF EditShard, PathBroken
<1>3. newLeaf \in MetadataNode /\ newRoot \in MetadataNode
  <2>1. metadata_nodes[old].children \subseteq Nat
    BY ZenonT(60), <1>2 DEF MetadataNode, TypeOK
  <2> QED
    BY ZenonT(60), <1>1, <2>1 DEF MetadataNode
<1>4. \/ /\ AllocNodes(1)
         /\ metadata_nodes' = With(metadata_nodes, n, newLeaf)
         /\ edits' = [edits EXCEPT ![w].new[s] = n]
      \/ /\ AllocNodes(2)
         /\ metadata_nodes' = With(With(metadata_nodes, n, newLeaf), n + 1, newRoot)
         /\ edits' = [edits EXCEPT ![w].new[s] = n + 1]
  BY DEF EditShard
<1> HIDE DEF newLeaf, newRoot, n
<1>5. /\ metadata_nodes' \in [Stored' -> MetadataNode]
      /\ Stored' \subseteq NodeId
      /\ next_metadata_node_id' \in Nat \ {0}
  <2>1. metadata_nodes \in [Stored -> MetadataNode] /\ Stored \subseteq NodeId
    BY DEF TypeOK
  <2>2. AllocNodes(1) => n \in NodeId
    BY <1>1, ConstantsAssumption DEF AllocNodes, NodeId, n
  <2>3. AllocNodes(2) => n \in NodeId /\ n + 1 \in NodeId
    BY <1>1, ConstantsAssumption DEF AllocNodes, NodeId, n
  <2>4. AllocNodes(1) \/ AllocNodes(2) => next_metadata_node_id' \in Nat \ {0}
    BY <1>1 DEF AllocNodes, n
  <2> QED
    BY ZenonT(30), <1>3, <1>4, <2>1, <2>2, <2>3, <2>4 DEF With, Stored
<1>6. edits' \in [Writers -> Edit]
  <2>1. edits[w] \in Edit /\ edits \in [Writers -> Edit]
    BY DEF TypeOK
  <2>2. \A m \in Nat : [edits[w] EXCEPT !.new[s] = m] \in Edit
    BY ZenonT(60), <2>1 DEF Edit, Roots
  <2>3. \A m \in Nat : [edits EXCEPT ![w].new[s] = m] \in [Writers -> Edit]
    BY <2>1, <2>2
  <2>4. n \in Nat /\ n + 1 \in Nat
    BY <1>1
  <2>5. edits' = [edits EXCEPT ![w].new[s] = n] \/ edits' = [edits EXCEPT ![w].new[s] = n + 1]
    BY <1>4
  <2> QED
    BY ZenonT(30), <2>3, <2>4, <2>5
<1> QED
  BY <1>5, <1>6 DEF EditShard, timeline, devices, TypeOK, Live, Deleted

\* Ending a commit, with or without an error, leaves the writer idle.
LEMMA NoEditType ==
    ASSUME TypeOK, NEW w \in Writers
    PROVE  [edits EXCEPT ![w] = NoEdit] \in [Writers -> Edit]
<1>1. NoEdit \in Edit
  BY ZenonT(60) DEF NoEdit, Edit, Roots
<1> QED
  BY <1>1 DEF TypeOK

\* publish_commit_group keeps the types.
LEMMA PublishType ==
    ASSUME TypeOK, NEW w \in Writers, PublishCommitGroup(w)
    PROVE  TypeOK'
<1> DEFINE d == edits[w].device
           ss == EditedShards(w)
           roots == [s \in Shards |-> IF s \in ss THEN edits[w].new[s]
                                      ELSE device_heads[d].shard_roots[s]]
           commits == {[commit_seq |-> next_commit_seq, device |-> d, shard |-> s,
                        old_root |-> edits[w].old[s], new_root |-> edits[w].new[s]] : s \in ss}
           head == [shard_roots |-> roots, latest_commit |-> next_commit_seq]
<1>0. /\ d \in Live
      /\ next_commit_seq' = next_commit_seq + 1
      /\ device_heads' = [device_heads EXCEPT ![d] = head]
      /\ shard_commits' = shard_commits \cup commits
      /\ edits' = [edits EXCEPT ![w] = NoEdit]
      /\ UNCHANGED <<next_device_id, next_metadata_node_id, next_checkpoint_id, next_gc_epoch,
                     deleted_device_heads, device_specs, metadata_nodes,
                     metadata_last_mark_epoch, checkpoints, fork_records>>
  BY ZenonT(60) DEF PublishCommitGroup, CanPublish, AllocCommitSeq, store
<1>1. edits[w] \in Edit /\ next_commit_seq \in Nat \ {0}
  BY ZenonT(30) DEF TypeOK
<1>2. roots \in Roots
  <2>1. device_heads[d] \in Head
    BY ZenonT(30), <1>0 DEF TypeOK
  <2> HIDE DEF d, ss
  <2> QED
    BY SMTT(60), <1>1, <2>1 DEF Head, Roots, Edit
<1>3. head \in Head
  <2> HIDE DEF roots
  <2> QED
    BY ZenonT(60), <1>1, <1>2 DEF Head
<1>4. device_heads' \in [Live' -> Head] /\ Live' = Live
  <2>1. device_heads \in [Live -> Head]
    BY ZenonT(30) DEF TypeOK
  <2> HIDE DEF head, d
  <2> QED
    BY SMTT(60), <1>0, <1>3, <2>1 DEF Live
<1>5. shard_commits' \subseteq ShardCommit
  <2>1. ss \subseteq Shards
    BY ZenonT(60) DEF EditedShards
  <2>2. ASSUME NEW s \in ss
        PROVE  [commit_seq |-> next_commit_seq, device |-> d, shard |-> s,
                old_root |-> edits[w].old[s], new_root |-> edits[w].new[s]] \in ShardCommit
    BY SMTT(60), <1>1, <2>1 DEF ShardCommit, Edit, Roots
  <2>3. commits \subseteq ShardCommit
    BY ZenonT(30), <2>2
  <2>4. shard_commits \subseteq ShardCommit
    BY ZenonT(30) DEF TypeOK
  <2> HIDE DEF commits
  <2> QED
    BY SMTT(60), <1>0, <2>3, <2>4
<1>6. edits' \in [Writers -> Edit]
  BY ZenonT(30), <1>0, NoEditType
<1> HIDE DEF head, commits, d
<1>7. next_commit_seq' \in Nat \ {0}
  BY SMTT(60), <1>0, <1>1
<1> QED
  BY SMTT(60), <1>0, <1>4, <1>5, <1>6, <1>7 DEF TypeOK, Deleted, Stored

\* mark_reachable_for_gc keeps the types, the anchors it inserts included.
LEMMA MarkReachableType ==
    ASSUME Numbered, TypeOK, NEW p \in Policies, MarkReachable(p)
    PROVE  TypeOK'
<1>1. /\ checkpoints' \subseteq Checkpoint
      /\ \A k \in checkpoints' : k.id < next_checkpoint_id'
      /\ next_checkpoint_id' \in Nat \ {0}
  BY EnsuredType DEF MarkReachable
<1>2. next_gc_epoch \in Nat \ {0} /\ next_gc_epoch' \in Nat \ {0}
  <2>1. next_gc_epoch \in Nat \ {0}
    BY DEF TypeOK
  <2>2. next_gc_epoch' = next_gc_epoch + 1 \/ next_gc_epoch' = next_gc_epoch
    BY DEF MarkReachable
  <2> QED
    BY <2>1, <2>2
<1>3. metadata_last_mark_epoch' \in [NodeId -> Nat]
  <2> DEFINE reached == Reachable(RootsForGc(p, EnsurePitrAnchors(p)))
  <2>1. \/ metadata_last_mark_epoch' =
              [n \in NodeId |-> IF n \in reached THEN next_gc_epoch
                                ELSE metadata_last_mark_epoch[n]]
        \/ metadata_last_mark_epoch' = metadata_last_mark_epoch
    BY DEF MarkReachable
  <2>2. metadata_last_mark_epoch \in [NodeId -> Nat]
    BY SMTT(60) DEF TypeOK
  <2> HIDE DEF reached
  <2> QED
    BY ZenonT(60), <2>1, <2>2, <1>2
<1> QED
  BY <1>1, <1>2, <1>3 DEF MarkReachable, devices, TypeOK, Live, Deleted, Stored

\* sweep_unmarked_after_mark keeps the types, whether or not it succeeds.
LEMMA SweepUnmarkedType ==
    ASSUME Numbered, TypeOK, NEW p \in Policies, NEW e, SweepUnmarked(p, e)
    PROVE  TypeOK'
<1> DEFINE cks == EnsurePitrAnchors(p)
           swept == Swept(e, Reachable(RootsForGc(p, cks)))
<1>1. /\ cks \subseteq Checkpoint
      /\ \A k \in cks : k.id < next_checkpoint_id'
      /\ next_checkpoint_id' \in Nat \ {0}
  BY ZenonT(60), EnsuredType DEF SweepUnmarked
<1>2. /\ UNCHANGED <<next_device_id, next_metadata_node_id, next_commit_seq,
                     next_gc_epoch, device_heads, edits>>
  BY ZenonT(60) DEF SweepUnmarked
<1>3. CASE /\ metadata_nodes' = Without(metadata_nodes, swept)
           /\ metadata_last_mark_epoch' =
                 [n \in NodeId |-> IF n \in swept THEN 0 ELSE metadata_last_mark_epoch[n]]
           /\ deleted_device_heads' = Without(deleted_device_heads, ExpiredDevices(p))
           /\ device_specs' = device_specs \ ExpiredDevices(p)
           /\ checkpoints' = {k \in cks : RetainCheckpoint(p, cks, k)}
           /\ shard_commits' \subseteq shard_commits
           /\ fork_records' \subseteq fork_records
  <2> HIDE DEF cks, swept
  <2>1. metadata_nodes' \in [Stored' -> MetadataNode] /\ Stored' \subseteq NodeId
    BY SMTT(60), <1>3 DEF Without, Stored, TypeOK
  <2>2. metadata_last_mark_epoch' \in [NodeId -> Nat]
    BY ZenonT(60), <1>3 DEF TypeOK
  <2>3. deleted_device_heads' \in [Deleted' -> Head] /\ Deleted' \subseteq 1 .. MaxDevice
    BY ZenonT(60), <1>3 DEF Without, Deleted, TypeOK
  <2> QED
    BY ZenonT(60), <2>1, <2>2, <2>3, <1>1, <1>2, <1>3 DEF TypeOK, Live
<1>4. CASE /\ checkpoints' = cks
           /\ UNCHANGED <<store, deleted_device_heads, device_specs,
                          shard_commits, fork_records>>
  BY ZenonT(60), <1>1, <1>2, <1>4 DEF TypeOK, store, Live, Deleted, Stored
<1> QED
  BY ZenonT(60), <1>3, <1>4 DEF SweepUnmarked

\* Every step keeps the types.
LEMMA TypeStep == Numbered /\ TypeOK /\ [Next]_vars => TypeOK'
<1> SUFFICES ASSUME Numbered, TypeOK, [Next]_vars PROVE TypeOK'
  OBVIOUS
<1>1. CASE DeviceStep
  BY ZenonT(60), <1>1, CreateDeviceType, ForkDeviceType, RestoreDeviceType, DeleteDeviceType,
     CheckpointDeviceType DEF DeviceStep
<1>2. ASSUME NEW w \in Writers, WriterStep(w) PROVE TypeOK'
  <2>1. ASSUME NEW s \in Shards, NEW leaf, EditShardFails(w, s, leaf) PROVE TypeOK'
    BY ZenonT(60), <2>1, NoEditType DEF EditShardFails, counters, timeline, devices, store,
                            TypeOK, Live, Deleted, Stored
  <2>2. ASSUME PublishRejected(w) PROVE TypeOK'
    BY ZenonT(60), <2>2, NoEditType DEF PublishRejected, counters, timeline, devices, store,
                            TypeOK, Live, Deleted, Stored
  <2>3. {} \in SUBSET Nat
    OBVIOUS
  <2> QED
    BY ZenonT(60), <1>2, <2>1, <2>2, <2>3, ReadShardRootType, EditShardType, PublishType
       DEF WriterStep
<1>3. CASE GcStep
  BY ZenonT(60), <1>3, MarkReachableType, SweepUnmarkedType DEF GcStep
<1>4. CASE UNCHANGED vars
  BY <1>4 DEF vars, counters, timeline, devices, store, TypeOK, Live, Deleted, Stored
<1> QED
  BY ZenonT(60), <1>1, <1>2, <1>3, <1>4 DEF Next

\* The roots a collector starts from, its new anchors included, are recorded.
LEMMA GcRootsRecorded ==
    ASSUME Numbered, TypeOK, NEW p \in Policies
    PROVE  /\ \A k \in EnsurePitrAnchors(p) : RootSet(k.roots) \subseteq RecordedRoots
           /\ RootsForGc(p, EnsurePitrAnchors(p)) \subseteq RecordedRoots
<1>1. ASSUME NEW k \in EnsurePitrAnchors(p) PROVE RootSet(k.roots) \subseteq RecordedRoots
  <2>1. CASE k \in checkpoints
    BY <2>1 DEF RecordedRoots
  <2>2. CASE k \in {Anchor(p, d) : d \in InsertedAnchors(p)}
    BY ZenonT(60), <2>2, AnchorsSound
  <2> QED
    BY <2>1, <2>2 DEF EnsurePitrAnchors
<1>2. RootsForGc(p, EnsurePitrAnchors(p)) \subseteq RecordedRoots
  <2> DEFINE cks == EnsurePitrAnchors(p)
  <2>1. UNION {RootSet(k.roots) : k \in {j \in cks : RetainCheckpoint(p, cks, j)}}
          \subseteq RecordedRoots
    BY <1>1
  <2>2. /\ UNION {RootSet(device_heads[d].shard_roots) : d \in Live} \subseteq RecordedRoots
        /\ {m.new_root : m \in {n \in shard_commits : RetainShardCommit(p, cks, n)}}
              \subseteq RecordedRoots
        /\ UNION {RootSet(deleted_device_heads[d].shard_roots) :
                     d \in {e \in Deleted : RetainDeletedDevice(p, e)}} \subseteq RecordedRoots
    BY ZenonT(60) DEF RecordedRoots
  <2> HIDE DEF cks
  <2> QED
    BY <2>1, <2>2 DEF RootsForGc, cks
<1> QED
  BY <1>1, <1>2

\* A staged root cannot be reached from any set of recorded roots.
LEMMA StagedUnreachable ==
    ASSUME TypeOK, StagedPrivate, NEW w \in Writers, NEW s \in Shards, edits[w].new[s] # 0,
           NEW R \in SUBSET RecordedRoots
    PROVE  edits[w].new[s] \notin Reachable(R)
  BY DEF StagedPrivate, PrivateRoot, Reachable

\* A step that keeps the nodes and the commits in progress, records no new root and
\* marks only what recorded roots reach keeps the invariant.
LEMMA RecordsOnlyStep ==
    ASSUME TypeOK, IndInv,
           UNCHANGED <<metadata_nodes, next_metadata_node_id, edits>>,
           RecordedRoots' \subseteq RecordedRoots,
           \A n \in NodeId : \/ metadata_last_mark_epoch'[n] = metadata_last_mark_epoch[n]
                             \/ n \in Reachable(RecordedRoots)
    PROVE  IndInv'
<1>1. Stored' = Stored /\ \A R : Reachable(R)' = Reachable(R)
  BY DEF Stored, Reachable
<1>2. RecordsIntact'
  <2>1. Reachable(RecordedRoots') \subseteq Reachable(RecordedRoots)
    BY DEF Reachable
  <2>2. (Reachable(RecordedRoots))' = Reachable(RecordedRoots')
    BY DEF Reachable, Stored
  <2> QED
    BY <1>1, <2>1, <2>2 DEF IndInv, RecordsIntact
<1>3. IdsFresh'
  <2>1. \A n \in NodeId : n \in Reachable(RecordedRoots) => ~ (n >= next_metadata_node_id)
    BY DEF IndInv, IdsFresh, RecordsIntact, TypeOK, NodeId
  <2>2. \A n \in NodeId : n >= next_metadata_node_id => metadata_last_mark_epoch'[n] = 0
    BY <2>1 DEF IndInv, IdsFresh
  <2> QED
    BY ZenonT(60), <1>1, <2>2 DEF IndInv, IdsFresh
<1>4. StagedPrivate'
  <2> SUFFICES ASSUME NEW w \in Writers, NEW s \in Shards, edits[w].new[s] # 0
               PROVE  PrivateRoot(w, s)'
    BY DEF StagedPrivate
  <2>1. PrivateRoot(w, s)
    BY DEF IndInv, StagedPrivate
  <2>2. edits[w].new[s] \notin Reachable(RecordedRoots)
    BY ZenonT(60), StagedUnreachable DEF IndInv
  <2> QED
    BY ZenonT(60), <1>1, <2>1, <2>2 DEF PrivateRoot
<1>5. StagedIntact'
  BY <1>1 DEF IndInv, StagedIntact, Reachable
<1> QED
  BY ZenonT(60), <1>2, <1>3, <1>4, <1>5 DEF IndInv

\* fork_device and restore_device start a device from recorded roots.
LEMMA StartFromSafe ==
    ASSUME TypeOK, IndInv, NEW d, NEW roots \in Roots, StartFrom(d, roots),
           RootSet(roots) \subseteq RecordedRoots
    PROVE  IndInv'
<1>1. ASSUME NEW e \in Live'
      PROVE  RootSet((device_heads[e].shard_roots)') \subseteq RecordedRoots
  <2>1. device_heads' = With(device_heads, d,
           [shard_roots |-> roots, latest_commit |-> next_commit_seq])
    BY DEF StartFrom
  <2>2. CASE e = d
    BY ZenonT(60), <2>1, <2>2 DEF With, Live
  <2>3. CASE e # d
    BY ZenonT(60), <2>1, <2>3 DEF With, Live, RecordedRoots
  <2> QED
    BY <2>2, <2>3
<1>2. ASSUME NEW k \in checkpoints' PROVE RootSet(k.roots) \subseteq RecordedRoots
  BY DEF StartFrom, InsertCheckpoint, RecordedRoots
<1>3. RecordedRoots' \subseteq RecordedRoots
  <2>1. \A R : RootSet(R)' = RootSet(R)
    BY DEF RootSet
  <2>2. /\ deleted_device_heads' = deleted_device_heads
        /\ shard_commits' = shard_commits
        /\ Deleted' = Deleted
    BY DEF StartFrom, Deleted
  <2> SUFFICES ASSUME NEW r \in RecordedRoots' PROVE r \in RecordedRoots
    OBVIOUS
  <2>3. CASE \E e \in Live' : r \in RootSet((device_heads[e].shard_roots)')
    BY <2>3, <1>1
  <2>4. CASE \E k \in checkpoints' : r \in RootSet(k.roots)
    BY ZenonT(60), <2>4, <1>2
  <2>5. CASE \/ \E e \in Deleted : r \in RootSet(deleted_device_heads[e].shard_roots)
             \/ \E m \in shard_commits : r = m.new_root
    BY <2>5 DEF RecordedRoots
  <2> QED
    BY <2>2, <2>3, <2>4, <2>5 DEF RecordedRoots
<1> QED
  BY <1>3, RecordsOnlyStep DEF StartFrom, store

\* A fork records only roots its source already records.
LEMMA ForkDeviceSafe ==
    ASSUME TypeOK, IndInv, NEW source, NEW target, ForkDevice(source, target)
    PROVE  IndInv'
<1>1. source \in Live /\ StartFrom(target, device_heads[source].shard_roots)
  BY ZenonT(60) DEF ForkDevice
<1>2. device_heads[source].shard_roots \in Roots
  BY <1>1 DEF TypeOK, Head
<1>3. RootSet(device_heads[source].shard_roots) \subseteq RecordedRoots
  BY <1>1 DEF RecordedRoots
<1> QED
  BY <1>1, <1>2, <1>3, StartFromSafe

\* A restore records only roots that replaying recorded commits produces.
LEMMA RestoreDeviceSafe ==
    ASSUME Numbered, TypeOK, IndInv, NEW source, NEW point \in RestorePoint, RestoreDevice(source, point)
    PROVE  IndInv'
<1>1. PICK c \in RestoreTarget(source, point) :
        /\ Replays(source, c)
        /\ StartFrom(next_device_id, ReplayDeviceRoots(source, c))
  BY DEF RestoreDevice
<1>2. /\ ReplayDeviceRoots(source, c) \in Roots
      /\ RootSet(ReplayDeviceRoots(source, c)) \subseteq RecordedRoots
  BY <1>1, ReplayRecorded, RestoreTargetType
<1> QED
  BY ZenonT(60), <1>1, <1>2, StartFromSafe

\* A delete moves the roots of a head among the records.
LEMMA DeleteDeviceSafe ==
    ASSUME TypeOK, IndInv, NEW d, DeleteDevice(d)
    PROVE  IndInv'
<1>1. d \in Live /\ device_heads[d] \in Head
  BY DEF DeleteDevice, TypeOK
<1>2. /\ device_heads' = Without(device_heads, {d})
      /\ deleted_device_heads' = With(deleted_device_heads, d,
            [device_heads[d] EXCEPT !.latest_commit = next_commit_seq])
      /\ UNCHANGED <<checkpoints, shard_commits>>
  BY DEF DeleteDevice, timeline
<1>3. ASSUME NEW e \in Live'
      PROVE  RootSet((device_heads[e].shard_roots)') \subseteq RecordedRoots
  BY <1>2 DEF Without, Live, RecordedRoots
<1>4. ASSUME NEW e \in Deleted'
      PROVE  RootSet((deleted_device_heads[e].shard_roots)') \subseteq RecordedRoots
  <2>1. CASE e = d
    <3>1. (deleted_device_heads[e].shard_roots)' = device_heads[d].shard_roots
      BY <1>1, <1>2, <2>1 DEF With, Deleted, Head
    <3> QED
      BY <3>1, <1>1 DEF RecordedRoots
  <2>2. CASE e # d
    BY <1>2, <2>2 DEF With, Deleted, RecordedRoots
  <2> QED
    BY <2>1, <2>2
<1>5. RecordedRoots' \subseteq RecordedRoots
  <2> SUFFICES ASSUME NEW r \in RecordedRoots' PROVE r \in RecordedRoots
    OBVIOUS
  <2>1. CASE \E e \in Live' : r \in RootSet((device_heads[e].shard_roots)')
    BY <2>1, <1>3
  <2>2. CASE \E e \in Deleted' : r \in RootSet((deleted_device_heads[e].shard_roots)')
    BY <2>2, <1>4
  <2>3. CASE \/ \E k \in checkpoints : r \in RootSet(k.roots)
             \/ \E m \in shard_commits : r = m.new_root
    BY <2>3 DEF RecordedRoots
  <2> QED
    BY ZenonT(60), <2>1, <2>2, <2>3, <1>2 DEF RecordedRoots
<1> QED
  BY <1>5, RecordsOnlyStep DEF DeleteDevice, store

\* A checkpoint records the roots of a head once more.
LEMMA CheckpointDeviceSafe ==
    ASSUME TypeOK, IndInv, NEW d, CheckpointDevice(d)
    PROVE  IndInv'
<1>1. /\ d \in Live
      /\ UNCHANGED <<device_heads, deleted_device_heads, shard_commits>>
  BY DEF CheckpointDevice, devices
<1>2. ASSUME NEW k \in checkpoints' PROVE RootSet(k.roots) \subseteq RecordedRoots
  BY <1>1 DEF CheckpointDevice, InsertCheckpoint, RecordedRoots
<1>3. RecordedRoots' \subseteq RecordedRoots
  BY <1>1, <1>2 DEF RecordedRoots, Live, Deleted
<1> QED
  BY <1>3, RecordsOnlyStep DEF CheckpointDevice, store

\* A mark reaches no staged root, so staged roots stay unmarked.
LEMMA MarkReachableSafe ==
    ASSUME Numbered, TypeOK, IndInv, NEW p \in Policies, MarkReachable(p)
    PROVE  IndInv'
<1> DEFINE cks == EnsurePitrAnchors(p)
           reached == Reachable(RootsForGc(p, cks))
<1>1. /\ \A k \in cks : RootSet(k.roots) \subseteq RecordedRoots
      /\ RootsForGc(p, cks) \subseteq RecordedRoots
  BY GcRootsRecorded
<1>2. /\ checkpoints' = cks
      /\ UNCHANGED <<device_heads, deleted_device_heads, shard_commits>>
      /\ UNCHANGED <<metadata_nodes, next_metadata_node_id, edits>>
  BY DEF MarkReachable, devices
<1>3. \A n \in NodeId : \/ metadata_last_mark_epoch'[n] = metadata_last_mark_epoch[n]
                        \/ n \in reached
  <2>1. \/ metadata_last_mark_epoch' =
              [n \in NodeId |-> IF n \in reached THEN next_gc_epoch
                                ELSE metadata_last_mark_epoch[n]]
        \/ metadata_last_mark_epoch' = metadata_last_mark_epoch
    BY DEF MarkReachable
  <2> HIDE DEF reached
  <2> QED
    BY <2>1
<1>4. reached \subseteq Reachable(RecordedRoots)
  BY <1>1 DEF Reachable
<1>5. RecordedRoots' \subseteq RecordedRoots
  <2> HIDE DEF cks
  <2> QED
    BY <1>1, <1>2 DEF RecordedRoots, Live, Deleted
<1> HIDE DEF reached
<1> QED
  BY ZenonT(60), <1>2, <1>3, <1>4, <1>5, RecordsOnlyStep

\* After a sweep, every root still recorded is one the sweep traced from.
LEMMA SurvivorsTraced ==
    ASSUME TypeOK, NEW p \in Policies, NEW e, SweepUnmarked(p, e),
           Unanchored(p) = {},
           Reachable(RootsForGc(p, EnsurePitrAnchors(p))) \subseteq Stored
    PROVE  RecordedRoots' \subseteq RootsForGc(p, EnsurePitrAnchors(p))
<1> DEFINE cks == EnsurePitrAnchors(p)
           traced == RootsForGc(p, cks)
<1>1. /\ device_heads' = device_heads
      /\ deleted_device_heads' = Without(deleted_device_heads, ExpiredDevices(p))
      /\ checkpoints' = {k \in cks : RetainCheckpoint(p, cks, k)}
      /\ shard_commits' = {m \in shard_commits :
            m.device \in AnchorOwners(p) /\ AfterAnchor(p, cks, m)}
  BY ZenonT(60) DEF SweepUnmarked
<1> HIDE DEF cks
<1>2. ASSUME NEW d \in Live'
      PROVE  RootSet(device_heads'[d].shard_roots) \subseteq traced
  BY <1>1 DEF RootsForGc, Live
<1>3. ASSUME NEW d \in Deleted'
      PROVE  RootSet(deleted_device_heads'[d].shard_roots) \subseteq traced
  <2>1. d \in Deleted /\ RetainDeletedDevice(p, d)
    BY <1>1 DEF Without, Deleted, ExpiredDevices
  <2>2. deleted_device_heads'[d] = deleted_device_heads[d]
    BY SMTT(30), <1>1 DEF Without, Deleted
  <2> QED
    BY <2>1, <2>2 DEF RootsForGc
<1>4. ASSUME NEW k \in checkpoints' PROVE RootSet(k.roots) \subseteq traced
  <2>1. k \in cks /\ RetainCheckpoint(p, cks, k)
    BY ZenonT(60), <1>1
  <2> QED
    BY ZenonT(60), <2>1 DEF RootsForGc
<1>5. ASSUME NEW m \in shard_commits' PROVE m.new_root \in traced
  <2>1. m \in shard_commits /\ RetainShardCommit(p, cks, m)
    BY ZenonT(60), <1>1 DEF RetainShardCommit, AnchorOwners
  <2> QED
    BY ZenonT(60), <2>1 DEF RootsForGc
<1> HIDE DEF traced
<1>6. RecordedRoots' \subseteq traced
  BY ZenonT(60), <1>2, <1>3, <1>4, <1>5 DEF RecordedRoots
<1> QED
  BY SMTT(30), <1>6 DEF traced, cks

\* A sweep removes every staged root and no node of a surviving record.
LEMMA SweepUnmarkedSafe ==
    ASSUME Numbered, TypeOK, IndInv, NEW p \in Policies, NEW e, SweepUnmarked(p, e)
    PROVE  IndInv'
<1> DEFINE cks == EnsurePitrAnchors(p)
           traced == RootsForGc(p, cks)
           reached == Reachable(traced)
           swept == Swept(e, reached)
<1>1. /\ \A k \in cks : RootSet(k.roots) \subseteq RecordedRoots
      /\ traced \subseteq RecordedRoots
  BY GcRootsRecorded
<1>2. CASE Unanchored(p) = {} /\ reached \subseteq Stored
  <2>1. /\ metadata_nodes' = Without(metadata_nodes, swept)
        /\ metadata_last_mark_epoch' =
              [n \in NodeId |-> IF n \in swept THEN 0 ELSE metadata_last_mark_epoch[n]]
        /\ UNCHANGED <<next_metadata_node_id, edits>>
        /\ e \in Nat \ {0}
    <3>1. next_gc_epoch \in Nat /\ e \in 1 .. next_gc_epoch - 1
      BY ZenonT(60) DEF SweepUnmarked, TypeOK
    <3>2. e \in Nat \ {0}
      BY <3>1
    <3> QED
      BY ZenonT(60), <1>2, <3>2 DEF SweepUnmarked
  <2>2. RecordedRoots' \subseteq traced
    BY ZenonT(60), <1>2, SurvivorsTraced
  <2>3. reached \cap swept = {}
    BY ZenonT(60) DEF Swept
  <2>4. ASSUME NEW w \in Writers, NEW s \in Shards, edits[w].new[s] # 0,
               edits[w].new[s] \in Stored
        PROVE  edits[w].new[s] \in swept
    <3>1. edits[w].new[s] \notin reached
      BY ZenonT(60), <1>1, <2>4, StagedUnreachable DEF IndInv
    <3>2. metadata_last_mark_epoch[edits[w].new[s]] = 0
      BY <2>4 DEF IndInv, StagedPrivate, PrivateRoot, TypeOK
    <3> QED
      BY ZenonT(60), <2>1, <2>4, <3>1, <3>2 DEF Swept
  <2> HIDE DEF swept, cks
  <2>5. /\ Stored' = Stored \ swept
        /\ \A n \in Stored' : metadata_nodes'[n] = metadata_nodes[n]
    BY <2>1 DEF Without, Stored
  <2>6. RecordsIntact'
    <3>1. (Reachable(RecordedRoots))' \subseteq reached
      BY ZenonT(60), <2>2, <2>5 DEF Reachable
    <3> QED
      BY ZenonT(60), <1>2, <2>3, <2>5, <3>1 DEF RecordsIntact
  <2>7. IdsFresh'
    BY ZenonT(60), <2>1, <2>5 DEF IndInv, IdsFresh
  <2>8. StagedPrivate'
    <3> SUFFICES ASSUME NEW w \in Writers, NEW s \in Shards, edits[w].new[s] # 0
                 PROVE  PrivateRoot(w, s)'
      BY ZenonT(60), <2>1 DEF StagedPrivate
    <3>1. PrivateRoot(w, s)
      BY SMTT(30) DEF IndInv, StagedPrivate
    <3>2. edits[w].new[s] \notin RecordedRoots'
      <4>1. edits[w].new[s] \notin RecordedRoots
        BY ZenonT(60), <3>1 DEF PrivateRoot
      <4> QED
        BY ZenonT(60), <1>1, <2>2, <4>1
    <3>3. edits[w].new[s] \in NodeId => metadata_last_mark_epoch'[edits[w].new[s]] = 0
      BY SMTT(30), <2>1, <3>1 DEF PrivateRoot
    <3>4. \A m \in Stored' : edits[w].new[s] \notin metadata_nodes'[m].children
      BY ZenonT(60), <2>5, <3>1 DEF PrivateRoot
    <3>5. /\ \A v \in Writers : \A t \in Shards : edits[w].new[s] # edits[v].old[t]
          /\ \A v \in Writers : \A t \in Shards :
                edits[w].new[s] = edits[v].new[t] => v = w /\ t = s
      BY ZenonT(60), <3>1 DEF PrivateRoot
    <3> QED
      BY ZenonT(60), <2>1, <3>2, <3>3, <3>4, <3>5 DEF PrivateRoot
  <2>9. StagedIntact'
    <3>1. ASSUME NEW w \in Writers, NEW s \in Shards PROVE edits[w].new[s] \notin Stored'
      <4>1. 0 \notin Stored
        BY DEF TypeOK, NodeId
      <4> QED
        BY ZenonT(60), <2>4, <2>5, <4>1
    <3> QED
      BY ZenonT(60), <2>1, <3>1 DEF StagedIntact
  <2> QED
    BY ZenonT(60), <2>6, <2>7, <2>8, <2>9 DEF IndInv
<1>3. CASE ~ (Unanchored(p) = {} /\ reached \subseteq Stored)
  <2>1. /\ checkpoints' = cks
        /\ UNCHANGED <<store, device_heads, deleted_device_heads, shard_commits>>
        /\ UNCHANGED <<next_metadata_node_id, edits>>
    BY ZenonT(60), <1>3 DEF SweepUnmarked
  <2> HIDE DEF cks
  <2>2. RecordedRoots' \subseteq RecordedRoots
    BY <1>1, <2>1 DEF RecordedRoots, Live, Deleted
  <2> QED
    BY SMTT(30), <2>1, <2>2, RecordsOnlyStep DEF store
<1> QED
  BY <1>2, <1>3

-----------------------------------------------------------------------------
(* Replay over a given set of commits, so that the lemmas apply before and  *)
(* after a step.                                                            *)

Stretch(ms, d, s, a, c) ==
    {m \in ms : m.device = d /\ m.shard = s /\ a < m.commit_seq /\ m.commit_seq <= c}

RootAt(ms, k, s, c) ==
    IF Stretch(ms, k.owner, s, k.commit_seq, c) = {} THEN k.roots[s]
    ELSE Last(Stretch(ms, k.owner, s, k.commit_seq, c)).new_root

Connects(ms, k, c) ==
    \A s \in Shards : \A m \in Stretch(ms, k.owner, s, k.commit_seq, c) :
        m.old_root = RootAt(ms, k, s, m.commit_seq - 1)

\* Replay of the commits ms from checkpoint k connects up to commit c and ends in
\* the given roots.
Leads(ms, k, c, roots) ==
    Connects(ms, k, c) /\ \A s \in Shards : RootAt(ms, k, s, c) = roots[s]

\* The last commit of a stretch depends only on the commits that no other exceeds.
LEMMA LastOf ==
    ASSUME NEW A, NEW B,
           \A m : (m \in A /\ \A n \in A : n.commit_seq <= m.commit_seq)
                    <=> (m \in B /\ \A n \in B : n.commit_seq <= m.commit_seq)
    PROVE  Last(A) = Last(B)
  BY Zenon DEF Last

\* Replay from a checkpoint and from a later one that lies on its way reach the
\* same root.
LEMMA Compose ==
    ASSUME NEW ms \in SUBSET ShardCommit, NEW k \in Checkpoint, NEW l \in Checkpoint,
           k.owner = l.owner, k.commit_seq <= l.commit_seq, NEW s \in Shards,
           RootAt(ms, k, s, l.commit_seq) = l.roots[s],
           NEW c \in Nat, l.commit_seq <= c
    PROVE  RootAt(ms, k, s, c) = RootAt(ms, l, s, c)
<1> DEFINE A == Stretch(ms, l.owner, s, l.commit_seq, c)
           B == Stretch(ms, k.owner, s, k.commit_seq, c)
           C == Stretch(ms, k.owner, s, k.commit_seq, l.commit_seq)
<1>1. k.commit_seq \in Nat /\ l.commit_seq \in Nat /\ \A m \in ms : m.commit_seq \in Nat
  BY DEF Checkpoint, ShardCommit
<1>2. CASE A = {}
  <2>1. B = C
    BY <1>1, <1>2 DEF Stretch
  <2> QED
    BY <2>1, <1>2 DEF RootAt
<1>3. CASE A # {}
  <2>1. A \subseteq B
    BY <1>1 DEF Stretch
  <2>2. \A m \in B \ A : \A n \in A : m.commit_seq < n.commit_seq
    BY <1>1 DEF Stretch
  <2>3. \A m \in B : m.commit_seq \in Nat
    BY <1>1 DEF Stretch
  <2> HIDE DEF A, B
  <2>4. ASSUME NEW m
        PROVE  (m \in A /\ \A n \in A : n.commit_seq <= m.commit_seq)
                 <=> (m \in B /\ \A n \in B : n.commit_seq <= m.commit_seq)
    BY <2>1, <2>2, <2>3, <1>3
  <2>5. Last(A) = Last(B)
    BY <2>4, LastOf
  <2> QED
    BY <2>1, <2>5, <1>3 DEF RootAt, A, B
<1> QED
  BY <1>2, <1>3

\* ... and meet the same commits: one connects when the other does.
LEMMA ComposeLeads ==
    ASSUME NEW ms \in SUBSET ShardCommit, NEW k \in Checkpoint, NEW l \in Checkpoint,
           k.owner = l.owner, k.commit_seq <= l.commit_seq,
           Leads(ms, k, l.commit_seq, l.roots), NEW c \in Nat, l.commit_seq <= c
    PROVE  /\ Connects(ms, k, c) <=> Connects(ms, l, c)
           /\ \A s \in Shards : RootAt(ms, k, s, c) = RootAt(ms, l, s, c)
<1>1. k.commit_seq \in Nat /\ l.commit_seq \in Nat /\ \A m \in ms : m.commit_seq \in Nat
  BY DEF Checkpoint, ShardCommit
<1>2. ASSUME NEW s \in Shards, NEW b \in Nat, l.commit_seq <= b
      PROVE  RootAt(ms, k, s, b) = RootAt(ms, l, s, b)
  BY <1>2, Compose DEF Leads
<1>3. ASSUME NEW s \in Shards, NEW m \in Stretch(ms, l.owner, s, l.commit_seq, c)
      PROVE  /\ m \in Stretch(ms, k.owner, s, k.commit_seq, c)
             /\ RootAt(ms, k, s, m.commit_seq - 1) = RootAt(ms, l, s, m.commit_seq - 1)
  <2>1. m \in ms /\ m.commit_seq \in Nat /\ l.commit_seq < m.commit_seq
    BY ZenonT(60), <1>1 DEF Stretch
  <2>2. m.commit_seq - 1 \in Nat /\ l.commit_seq <= m.commit_seq - 1
    BY <2>1, <1>1
  <2> QED
    BY <2>1, <2>2, <1>1, <1>2 DEF Stretch
<1>4. ASSUME Connects(ms, k, c) PROVE Connects(ms, l, c)
  BY ZenonT(60), <1>3, <1>4 DEF Connects
<1>5. ASSUME Connects(ms, l, c) PROVE Connects(ms, k, c)
  <2> SUFFICES ASSUME NEW s \in Shards, NEW m \in Stretch(ms, k.owner, s, k.commit_seq, c)
               PROVE  m.old_root = RootAt(ms, k, s, m.commit_seq - 1)
    BY DEF Connects
  <2>1. CASE m.commit_seq <= l.commit_seq
    <3>1. m \in Stretch(ms, k.owner, s, k.commit_seq, l.commit_seq)
      BY <2>1 DEF Stretch
    <3> QED
      BY <3>1 DEF Leads, Connects
  <2>2. CASE l.commit_seq < m.commit_seq
    <3>1. m \in Stretch(ms, l.owner, s, l.commit_seq, c)
      BY <2>2 DEF Stretch
    <3> QED
      BY <3>1, <1>3, <1>5 DEF Connects
  <2> QED
    BY <2>1, <2>2, <1>1 DEF Stretch
<1> QED
  BY <1>2, <1>4, <1>5


\* Replay reads only the commits of the device between the checkpoint and the
\* commit replayed to.
LEMMA SameCommits ==
    ASSUME NEW ms \in SUBSET ShardCommit, NEW ns \in SUBSET ShardCommit,
           NEW k \in Checkpoint, NEW c \in Nat,
           \A m \in ShardCommit :
               m.device = k.owner /\ k.commit_seq < m.commit_seq /\ m.commit_seq <= c
                 => (m \in ms <=> m \in ns)
    PROVE  /\ \A s \in Shards : RootAt(ms, k, s, c) = RootAt(ns, k, s, c)
           /\ Connects(ms, k, c) <=> Connects(ns, k, c)
           /\ \A roots : Leads(ms, k, c, roots) <=> Leads(ns, k, c, roots)
<1>1. \A m \in ms \cup ns : m.commit_seq \in Nat /\ m \in ShardCommit
  BY DEF ShardCommit
<1>2. k.commit_seq \in Nat
  BY DEF Checkpoint
<1>3. ASSUME NEW s \in Shards, NEW b \in Nat, b <= c
      PROVE  /\ Stretch(ms, k.owner, s, k.commit_seq, b) = Stretch(ns, k.owner, s, k.commit_seq, b)
             /\ RootAt(ms, k, s, b) = RootAt(ns, k, s, b)
  <2>1. ASSUME NEW m PROVE m \in Stretch(ms, k.owner, s, k.commit_seq, b)
                              <=> m \in Stretch(ns, k.owner, s, k.commit_seq, b)
    BY <1>1, <1>3 DEF Stretch
  <2>2. Stretch(ms, k.owner, s, k.commit_seq, b) = Stretch(ns, k.owner, s, k.commit_seq, b)
    BY ZenonT(60), <2>1
  <2> QED
    BY <2>2 DEF RootAt
<1>4. \A s \in Shards : RootAt(ms, k, s, c) = RootAt(ns, k, s, c)
  BY <1>3
<1>5. Connects(ms, k, c) <=> Connects(ns, k, c)
  <2>1. ASSUME NEW s \in Shards, NEW m \in Stretch(ms, k.owner, s, k.commit_seq, c)
        PROVE  RootAt(ms, k, s, m.commit_seq - 1) = RootAt(ns, k, s, m.commit_seq - 1)
    <3>1. m.commit_seq \in Nat /\ k.commit_seq < m.commit_seq /\ m.commit_seq <= c
      BY ZenonT(60), <1>1 DEF Stretch
    <3>2. m.commit_seq - 1 \in Nat /\ m.commit_seq - 1 <= c
      BY <3>1, <1>2
    <3> QED
      BY <3>2, <1>3
  <2>2. \A s \in Shards : Stretch(ms, k.owner, s, k.commit_seq, c)
                            = Stretch(ns, k.owner, s, k.commit_seq, c)
    BY <1>3
  <2> QED
    BY <2>1, <2>2, Zenon DEF Connects
<1> QED
  BY ZenonT(60), <1>4, <1>5 DEF Leads

\* Replay past the last commit of the device stays where it is.
LEMMA NoLaterCommit ==
    ASSUME NEW ms \in SUBSET ShardCommit, NEW k \in Checkpoint, NEW b \in Nat, NEW c \in Nat,
           b <= c, \A m \in ms : m.device = k.owner => m.commit_seq <= b \/ c < m.commit_seq
    PROVE  \A roots : Leads(ms, k, b, roots) <=> Leads(ms, k, c, roots)
<1>1. \A m \in ms : m.commit_seq \in Nat
  BY DEF ShardCommit
<1>2. \A s \in Shards : Stretch(ms, k.owner, s, k.commit_seq, b)
                          = Stretch(ms, k.owner, s, k.commit_seq, c)
  BY <1>1 DEF Stretch
<1>3. \A s \in Shards : RootAt(ms, k, s, b) = RootAt(ms, k, s, c)
  BY <1>2 DEF RootAt
<1>4. Connects(ms, k, b) <=> Connects(ms, k, c)
  BY <1>2, Zenon DEF Connects
<1> QED
  BY <1>3, <1>4 DEF Leads

\* Replay from a checkpoint to its own commit ends in its roots.
LEMMA LeadsToItself ==
    ASSUME NEW ms \in SUBSET ShardCommit, NEW k \in Checkpoint
    PROVE  Leads(ms, k, k.commit_seq, k.roots)
<1>1. \A s \in Shards : Stretch(ms, k.owner, s, k.commit_seq, k.commit_seq) = {}
  BY DEF Stretch, Checkpoint, ShardCommit
<1> QED
  BY <1>1 DEF Leads, Connects, RootAt

-----------------------------------------------------------------------------
(* The inductive invariant.                                                 *)

\* A device is live or deleted, not both; its records are of commits that have
\* happened, none after its head; and every record belongs to a device whose spec
\* is stored.
OwnsItsPast(d, c) ==
    /\ d \in Live \cup Deleted
    /\ c < next_commit_seq
    /\ d \in Live => c <= device_heads[d].latest_commit

OwnersKnown ==
    /\ Live \cap Deleted = {}
    /\ device_specs = Live \cup Deleted
    /\ \A d \in Live \cup Deleted : d < next_device_id
    /\ \A d \in Live : device_heads[d].latest_commit < next_commit_seq
    /\ \A d \in Deleted : deleted_device_heads[d].latest_commit < next_commit_seq
    /\ \A k \in checkpoints : OwnsItsPast(k.owner, k.commit_seq)
    /\ \A m \in shard_commits : OwnsItsPast(m.device, m.commit_seq)
    /\ \A f \in fork_records : OwnsItsPast(f.target, f.fork_seq)

\* Replay of the commits ms from each checkpoint of cks leads to each later
\* checkpoint of the device and to its head, live or deleted.
Chained(ms, cks, heads, dead, now) ==
    /\ \A k \in cks : \A j \in cks :
          k.owner = j.owner /\ k.commit_seq <= j.commit_seq
            => Leads(ms, k, j.commit_seq, j.roots)
    /\ \A k \in cks : k.owner \in DOMAIN heads =>
          Leads(ms, k, heads[k.owner].latest_commit, heads[k.owner].shard_roots)
    /\ \A k \in cks : k.owner \in DOMAIN dead =>
          Leads(ms, k, now, dead[k.owner].shard_roots)

AllChained == Chained(shard_commits, checkpoints, device_heads, deleted_device_heads,
                      current_commit_seq)

TimelineInv == TypeOK /\ OwnersKnown /\ AllChained /\ ForkStartsAtFork

\* The current commit is the one before the next.
LEMMA Predecessors ==
    ASSUME NEW a \in Nat \ {0}, NEW b \in Nat \ {0}, a <= b
    PROVE  a - 1 \in Nat /\ b - 1 \in Nat /\ a - 1 <= b - 1
  OBVIOUS

-----------------------------------------------------------------------------
(* Steps that start a device.                                               *)

\* A device that starts with one checkpoint at its head, and no commits, has a
\* history of its own.
LEMMA NewDevice ==
    ASSUME TimelineInv, TypeOK', NEW d \in 1 .. MaxDevice, d \notin Live \cup Deleted,
           NEW c \in Nat, NEW roots \in Roots,
           next_commit_seq <= next_commit_seq', c < next_commit_seq',
           next_device_id <= next_device_id', d < next_device_id',
           device_heads' = With(device_heads, d, [shard_roots |-> roots, latest_commit |-> c]),
           device_specs' = device_specs \cup {d},
           InsertCheckpoint(d, c, roots),
           UNCHANGED <<deleted_device_heads, shard_commits>>,
           \A f \in fork_records' :
               f \in fork_records \/ (f.target = d /\ f.fork_seq <= c)
    PROVE  TimelineInv'
<1> DEFINE h == [shard_roots |-> roots, latest_commit |-> c]
           k0 == [id |-> next_checkpoint_id, owner |-> d, commit_seq |-> c, roots |-> roots]
<1>1. /\ Live' = Live \cup {d} /\ Deleted' = Deleted
      /\ device_heads'[d] = h
      /\ \A e \in Live : device_heads'[e] = device_heads[e]
  BY ZenonT(60) DEF TimelineInv, With, Live, Deleted
<1>2. checkpoints' = checkpoints \cup {k0}
  BY ZenonT(60) DEF InsertCheckpoint
<1>3. /\ next_commit_seq \in Nat \ {0} /\ next_commit_seq' \in Nat \ {0}
      /\ next_device_id \in Nat /\ next_device_id' \in Nat
      /\ next_checkpoint_id \in Nat
      /\ checkpoints \subseteq Checkpoint /\ shard_commits \subseteq ShardCommit
      /\ fork_records \subseteq ForkRecord /\ fork_records' \subseteq ForkRecord
      /\ device_heads \in [Live -> Head] /\ deleted_device_heads \in [Deleted -> Head]
      /\ Live \subseteq Nat /\ Deleted \subseteq Nat /\ d \in Nat
  BY ConstantsAssumption DEF TimelineInv, TypeOK
<1>4. h \in Head /\ k0 \in Checkpoint /\ h.latest_commit = c /\ h.shard_roots = roots
      /\ k0.owner = d /\ k0.commit_seq = c /\ k0.roots = roots
  BY ZenonT(60), <1>3 DEF Head, Checkpoint
<1> HIDE DEF h, k0
<1>5. /\ \A k \in checkpoints : OwnsItsPast(k.owner, k.commit_seq) /\ k.owner # d
      /\ \A m \in shard_commits : OwnsItsPast(m.device, m.commit_seq) /\ m.device # d
      /\ \A f \in fork_records : OwnsItsPast(f.target, f.fork_seq) /\ f.target # d
  BY DEF TimelineInv, OwnersKnown, OwnsItsPast
<1>6. ASSUME NEW e, NEW b \in Nat, OwnsItsPast(e, b), e # d
      PROVE  OwnsItsPast(e, b)'
  <2>1. e \in Live \cup Deleted /\ b < next_commit_seq
        /\ (e \in Live => b <= device_heads[e].latest_commit)
    BY <1>6 DEF OwnsItsPast
  <2>2. e \in Live' \cup Deleted'
    BY ZenonT(60), <2>1, <1>1
  <2>3. b < next_commit_seq'
    BY <2>1, <1>3
  <2>4. e \in Live' => b <= device_heads'[e].latest_commit
    BY ZenonT(60), <2>1, <1>1, <1>6
  <2> QED
    BY <2>2, <2>3, <2>4 DEF OwnsItsPast
<1>7. OwnersKnown'
  <2>1. /\ Live' \cap Deleted' = {}
        /\ device_specs' = Live' \cup Deleted'
        /\ \A e \in Live' \cup Deleted' : e < next_device_id'
    <3>1. /\ Live \cap Deleted = {}
          /\ device_specs = Live \cup Deleted
          /\ \A e \in Live \cup Deleted : e < next_device_id /\ e \in Nat
      BY ZenonT(60), <1>3 DEF TimelineInv, OwnersKnown
    <3>2. next_device_id \in Nat /\ next_device_id' \in Nat
      BY ZenonT(60), <1>3
    <3>3. Live' \cap Deleted' = {} /\ device_specs' = Live' \cup Deleted'
      BY ZenonT(60), <3>1, <1>1
    <3>4. \A e \in Live \cup Deleted : e < next_device_id'
      BY <3>1, <3>2
    <3> QED
      BY ZenonT(60), <3>3, <3>4, <1>1
  <2>2. ASSUME NEW e \in Live' PROVE device_heads'[e].latest_commit < next_commit_seq'
    <3>1. e \in Live => /\ device_heads[e].latest_commit \in Nat
                        /\ device_heads[e].latest_commit < next_commit_seq
      BY ZenonT(60), <1>3 DEF TimelineInv, OwnersKnown, Head
    <3> QED
      BY <3>1, <1>1, <1>3, <1>4
  <2>3. \A e \in Deleted' : deleted_device_heads'[e].latest_commit < next_commit_seq'
    BY SMTT(60), <1>1, <1>3 DEF TimelineInv, OwnersKnown, Head
  <2>4. \A k \in checkpoints' : OwnsItsPast(k.owner, k.commit_seq)'
    <3>1. OwnsItsPast(d, c)'
      BY <1>1, <1>4 DEF OwnsItsPast
    <3>2. ASSUME NEW k \in checkpoints PROVE OwnsItsPast(k.owner, k.commit_seq)'
      <4>1. k.commit_seq \in Nat
        BY ZenonT(60), <1>3 DEF Checkpoint
      <4> QED
        BY ZenonT(60), <4>1, <1>5, <1>6
    <3> QED
      BY ZenonT(60), <3>1, <3>2, <1>2, <1>4
  <2>5. \A m \in shard_commits' : OwnsItsPast(m.device, m.commit_seq)'
    BY ZenonT(60), <1>3, <1>5, <1>6 DEF ShardCommit
  <2>6. ASSUME NEW f \in fork_records' PROVE OwnsItsPast(f.target, f.fork_seq)'
    <3>1. f.fork_seq \in Nat /\ f.target \in Nat
      BY <1>3 DEF ForkRecord
    <3>2. CASE f \in fork_records
      BY ZenonT(60), <3>1, <3>2, <1>5, <1>6
    <3>3. CASE f.target = d /\ f.fork_seq <= c
      <4>1. d \in Live' /\ device_heads'[d].latest_commit = c
        BY ZenonT(60), <1>1, <1>4
      <4>2. f.fork_seq < next_commit_seq'
        BY SMTT(60), <3>1, <3>3, <1>3
      <4> QED
        BY ZenonT(60), <4>1, <4>2, <3>3 DEF OwnsItsPast
    <3> QED
      BY ZenonT(60), <3>2, <3>3
  <2> QED
    BY ZenonT(60), <2>1, <2>2, <2>3, <2>4, <2>5, <2>6 DEF OwnersKnown
<1>8. AllChained'
  <2> DEFINE ms == shard_commits
  <2>1. ASSUME NEW k \in checkpoints', NEW j \in checkpoints',
               k.owner = j.owner, k.commit_seq <= j.commit_seq
        PROVE  Leads(ms, k, j.commit_seq, j.roots)
    BY ZenonT(60), <2>1, <1>2, <1>3, <1>4, <1>5, LeadsToItself DEF TimelineInv, AllChained, Chained
  <2>2. ASSUME NEW k \in checkpoints', k.owner \in Live'
        PROVE  Leads(ms, k, device_heads'[k.owner].latest_commit,
                     device_heads'[k.owner].shard_roots)
    <3>1. CASE k = k0
      BY ZenonT(60), <3>1, <1>1, <1>3, <1>4, LeadsToItself
    <3>2. CASE k \in checkpoints
      <4>1. k.owner \in Live /\ device_heads'[k.owner] = device_heads[k.owner]
        BY ZenonT(60), <3>2, <2>2, <1>1, <1>5
      <4> QED
        BY ZenonT(60), <3>2, <4>1 DEF TimelineInv, AllChained, Chained, Live
    <3> QED
      BY <3>1, <3>2, <1>2
  <2>3. ASSUME NEW k \in checkpoints', k.owner \in Deleted'
        PROVE  Leads(ms, k, current_commit_seq', deleted_device_heads'[k.owner].shard_roots)
    <3>1. k \in checkpoints /\ k \in Checkpoint /\ k.owner \in Deleted
      BY ZenonT(60), <2>3, <1>1, <1>2, <1>3, <1>4
    <3>2. Leads(ms, k, current_commit_seq, deleted_device_heads[k.owner].shard_roots)
      BY <3>1 DEF TimelineInv, AllChained, Chained, Deleted
    <3>3. /\ current_commit_seq \in Nat /\ current_commit_seq' \in Nat
          /\ current_commit_seq <= current_commit_seq'
          /\ \A m \in ms : m.commit_seq <= current_commit_seq
      <4>1. \A m \in ms : m.commit_seq \in Nat /\ m.commit_seq < next_commit_seq
        BY ZenonT(60), <1>3, <1>5 DEF OwnsItsPast, ShardCommit
      <4>2. next_commit_seq \in Nat \ {0} /\ next_commit_seq' \in Nat \ {0}
        BY <1>3
      <4>3. /\ current_commit_seq \in Nat /\ current_commit_seq' \in Nat
            /\ current_commit_seq <= current_commit_seq'
        BY <4>2, Predecessors, Zenon DEF current_commit_seq
      <4>4. \A m \in ms : m.commit_seq <= current_commit_seq
        BY SMTT(60), <4>1, <4>2 DEF current_commit_seq
      <4> QED
        BY ZenonT(60), <4>3, <4>4
    <3> QED
      BY ZenonT(60), <3>1, <3>2, <3>3, <1>3, NoLaterCommit
  <2> QED
    BY ZenonT(60), <2>1, <2>2, <2>3 DEF AllChained, Chained, Live, Deleted
<1>9. ForkStartsAtFork'
  <2> SUFFICES ASSUME NEW f \in fork_records', NEW b \in TimelineCommits(f.target)'
               PROVE  f.fork_seq <= b
    BY DEF ForkStartsAtFork
  <2>1. CASE f.target = d /\ f \notin fork_records
    <3>1. b = c
      BY ZenonT(60), <2>1, <1>2, <1>4, <1>5 DEF TimelineCommits, CheckpointsOf
    <3> QED
      BY ZenonT(60), <3>1, <2>1
  <2>2. CASE f \in fork_records
    <3>1. f.target # d
      BY ZenonT(60), <2>2, <1>5
    <3>2. b \in TimelineCommits(f.target)
      BY ZenonT(60), <3>1, <1>2, <1>4 DEF TimelineCommits, CheckpointsOf
    <3> QED
      BY ZenonT(60), <3>2, <2>2 DEF TimelineInv, ForkStartsAtFork
  <2> QED
    BY <2>1, <2>2
<1> QED
  BY ZenonT(60), <1>7, <1>8, <1>9 DEF TimelineInv

\* create_device starts a device at commit 0.
LEMMA CreateDeviceTimeline ==
    ASSUME TimelineInv, CreateDevice
    PROVE  TimelineInv'
<1> DEFINE d == next_device_id
           roots == [s \in Shards |-> next_metadata_node_id + s]
<1>1. TypeOK'
  BY ZenonT(60), CreateDeviceType DEF TimelineInv
<1>2. d \in 1 .. MaxDevice /\ d \notin Live \cup Deleted
  <2>1. next_device_id \in Nat \ {0} /\ next_device_id <= MaxDevice
    BY DEF TimelineInv, TypeOK, CreateDevice
  <2>2. \A e \in Live \cup Deleted : e < next_device_id
    BY DEF TimelineInv, OwnersKnown
  <2> QED
    BY SMTT(60), <2>1, <2>2, ConstantsAssumption
<1>3. roots \in Roots
  BY SMTT(60) DEF TimelineInv, TypeOK, Roots, Shards
<1>4. /\ device_heads' = With(device_heads, d, [shard_roots |-> roots, latest_commit |-> 0])
      /\ device_specs' = device_specs \cup {d}
      /\ InsertCheckpoint(d, 0, roots)
      /\ next_device_id' = d + 1 /\ next_commit_seq' = next_commit_seq
      /\ UNCHANGED <<deleted_device_heads, shard_commits>>
      /\ fork_records' = fork_records
  BY ZenonT(60) DEF CreateDevice
<1>5. next_commit_seq \in Nat \ {0} /\ next_device_id \in Nat
  BY ZenonT(60) DEF TimelineInv, TypeOK
<1> HIDE DEF roots
<1> QED
  BY <1>1, <1>2, <1>3, <1>4, <1>5, NewDevice

\* The common end of fork_device and restore_device starts a device at the commit
\* it allocates.
LEMMA StartFromTimeline ==
    ASSUME TimelineInv, TypeOK', NEW d \in 1 .. MaxDevice, d \notin Live \cup Deleted,
           NEW roots \in Roots, StartFrom(d, roots),
           next_device_id <= next_device_id', d < next_device_id',
           \A f \in fork_records' :
               f \in fork_records \/ (f.target = d /\ f.fork_seq <= next_commit_seq)
    PROVE  TimelineInv'
<1>1. PICK c \in Nat : c = next_commit_seq
  BY DEF TimelineInv, TypeOK
<1>2. /\ device_heads' = With(device_heads, d, [shard_roots |-> roots, latest_commit |-> c])
      /\ device_specs' = device_specs \cup {d}
      /\ InsertCheckpoint(d, c, roots)
      /\ next_commit_seq' = c + 1
      /\ UNCHANGED <<deleted_device_heads, shard_commits>>
  BY <1>1, Zenon DEF StartFrom, AllocCommitSeq
<1>3. next_commit_seq <= next_commit_seq' /\ c < next_commit_seq'
  BY <1>1, <1>2
<1>4. \A f \in fork_records' : f \in fork_records \/ (f.target = d /\ f.fork_seq <= c)
  BY SMTT(60), <1>1
<1> QED
  BY ZenonT(60), <1>2, <1>3, <1>4, NewDevice

\* fork_device starts the target at the fork, and its record names that commit.
LEMMA ForkDeviceTimeline ==
    ASSUME TimelineInv, NEW source, NEW target, ForkDevice(source, target)
    PROVE  TimelineInv'
<1>1. TypeOK'
  BY ForkDeviceType DEF TimelineInv
<1>2. target \in 1 .. MaxDevice /\ target \notin Live \cup Deleted /\ source \in Live
  BY DEF ForkDevice
<1>3. device_heads[source].shard_roots \in Roots
  <2>1. device_heads \in [Live -> Head]
    BY DEF TimelineInv, TypeOK
  <2> QED
    BY ZenonT(60), <2>1, <1>2 DEF Head
<1>4. PICK roots \in Roots : roots = device_heads[source].shard_roots
  BY <1>3
<1>5. StartFrom(target, roots)
  BY <1>4, Zenon DEF ForkDevice
<1>6. next_device_id <= next_device_id' /\ target < next_device_id'
  <2>1. next_device_id' = IF target < next_device_id THEN next_device_id ELSE target + 1
    BY DEF ForkDevice
  <2>2. target \in Nat /\ next_device_id \in Nat
    BY SMTT(60), <1>2, ConstantsAssumption DEF TimelineInv, TypeOK
  <2> QED
    BY SMTT(60), <2>1, <2>2
<1>7. ASSUME NEW f \in fork_records'
      PROVE  f \in fork_records \/ (f.target = target /\ f.fork_seq <= next_commit_seq)
  <2>1. fork_records' = fork_records \cup
          {[fork_seq |-> next_commit_seq, source |-> source, target |-> target]}
    BY ZenonT(60) DEF ForkDevice
  <2>2. next_commit_seq \in Nat
    BY DEF TimelineInv, TypeOK
  <2> QED
    BY SMTT(60), <2>1, <2>2
<1> QED
  BY ZenonT(60), <1>1, <1>2, <1>5, <1>6, <1>7, StartFromTimeline

\* restore_device starts a device of its own.
LEMMA RestoreDeviceTimeline ==
    ASSUME Numbered, TimelineInv, NEW source, NEW point \in RestorePoint, RestoreDevice(source, point)
    PROVE  TimelineInv'
<1>1. TypeOK /\ TypeOK'
  BY SMTT(60), RestoreDeviceType DEF TimelineInv
<1>2. PICK c \in RestoreTarget(source, point) :
        /\ Replays(source, c)
        /\ StartFrom(next_device_id, ReplayDeviceRoots(source, c))
  BY DEF RestoreDevice
<1>3. ReplayDeviceRoots(source, c) \in Roots
  BY ZenonT(60), <1>1, <1>2, ReplayRecorded, RestoreTargetType
<1>4. PICK roots \in Roots : roots = ReplayDeviceRoots(source, c)
  BY ZenonT(60), <1>3
<1>5. PICK d \in Nat \ {0} : d = next_device_id
  BY ZenonT(60), <1>1 DEF TypeOK
<1>6. d <= MaxDevice /\ next_device_id' = d + 1 /\ fork_records' = fork_records
  BY <1>5 DEF RestoreDevice
<1>7. d \in 1 .. MaxDevice /\ d \notin Live \cup Deleted
  <2>1. \A e \in Live \cup Deleted : e < d
    BY <1>5 DEF TimelineInv, OwnersKnown
  <2> QED
    BY SMTT(60), <2>1, <1>6, ConstantsAssumption
<1>8. StartFrom(d, roots)
  BY ZenonT(60), <1>2, <1>4, <1>5
<1> QED
  BY SMTT(60), <1>1, <1>5, <1>6, <1>7, <1>8, StartFromTimeline

=============================================================================
