------------------------- MODULE MetadataPlaneSteps -------------------------
(***************************************************************************)
(* The steps of a commit, and the creation, deletion and checkpointing of a*)
(* device, keep the two invariants of MetadataPlane: the trees that records*)
(* and staged commits name stay whole, and every timeline stays connected. *)
(***************************************************************************)
EXTENDS MetadataPlaneTypes

-----------------------------------------------------------------------------
(* Trees.                                                                   *)

\* Ending a commit without publishing it keeps the invariant.
LEMMA AbandonSafe ==
    ASSUME TypeOK, IndInv, NEW w \in Writers, edits' = [edits EXCEPT ![w] = NoEdit],
           UNCHANGED <<counters, timeline, devices, store>>
    PROVE  IndInv'
<1>1. /\ UNCHANGED <<metadata_nodes, metadata_last_mark_epoch, next_metadata_node_id>>
      /\ RecordedRoots' = RecordedRoots
      /\ Stored' = Stored
      /\ \A R : Reachable(R)' = Reachable(R)
  BY DEF counters, timeline, devices, store, RecordedRoots, Live, Deleted, Stored, Reachable
<1>2. \A v \in Writers : \A t \in Shards :
        \/ edits'[v].new[t] = 0 /\ edits'[v].old[t] = 0
        \/ edits'[v].new[t] = edits[v].new[t] /\ edits'[v].old[t] = edits[v].old[t]
  BY DEF NoEdit, TypeOK
<1>3. RecordsIntact'
  BY ZenonT(60), <1>1 DEF IndInv, RecordsIntact, Reachable
<1>4. IdsFresh'
  BY SMTT(30), <1>1, <1>2 DEF IndInv, IdsFresh, TypeOK
<1>5. StagedPrivate'
  BY <1>1, <1>2 DEF IndInv, StagedPrivate, PrivateRoot
<1>6. StagedIntact'
  <2>1. 0 \notin Stored
    BY DEF TypeOK, NodeId
  <2> QED
    BY <1>1, <1>2, <2>1 DEF IndInv, StagedIntact
<1> QED
  BY ZenonT(60), <1>3, <1>4, <1>5, <1>6 DEF IndInv

\* A writer starts from a recorded root, which no writer has staged.
LEMMA ReadShardRootSafe ==
    ASSUME TypeOK, IndInv, NEW w \in Writers, NEW d, NEW s \in Shards, ReadShardRoot(w, d, s)
    PROVE  IndInv'
<1> DEFINE r == device_heads[d].shard_roots[s]
<1>1. /\ UNCHANGED <<metadata_nodes, metadata_last_mark_epoch, next_metadata_node_id>>
      /\ RecordedRoots' = RecordedRoots
      /\ Stored' = Stored
      /\ \A R : Reachable(R)' = Reachable(R)
  BY SMTT(30) DEF ReadShardRoot, counters, timeline, devices, store, RecordedRoots, Live, Deleted,
         Stored, Reachable
<1>2. r \in RecordedRoots
  BY DEF ReadShardRoot, RecordedRoots, RootSet
<1>3. r \in Stored /\ r < next_metadata_node_id
  BY ZenonT(60), <1>2 DEF IndInv, RecordsIntact, IdsFresh, Reachable
<1>4. \A v \in Writers : \A t \in Shards :
        /\ edits'[v].new[t] = edits[v].new[t]
        /\ edits'[v].old[t] = IF v = w /\ t = s THEN r ELSE edits[v].old[t]
  BY DEF ReadShardRoot, TypeOK, Edit, Roots
<1>5. \A t \in Shards : edits[w].new[t] = 0
  BY DEF ReadShardRoot, NoEdit
<1> HIDE DEF r
<1>6. RecordsIntact'
  BY ZenonT(60), <1>1 DEF IndInv, RecordsIntact, Reachable
<1>7. IdsFresh'
  BY SMTT(30), <1>1, <1>3, <1>4 DEF IndInv, IdsFresh
<1>8. StagedPrivate'
  <2> SUFFICES ASSUME NEW v \in Writers, NEW t \in Shards, edits[v].new[t] # 0
               PROVE  PrivateRoot(v, t)'
    BY <1>4 DEF StagedPrivate
  <2>1. PrivateRoot(v, t)
    BY ZenonT(60) DEF IndInv, StagedPrivate
  <2>2. edits[v].new[t] # r
    BY ZenonT(60), <1>2, <2>1 DEF PrivateRoot
  <2> QED
    BY <1>1, <1>4, <2>1, <2>2 DEF PrivateRoot
<1>9. StagedIntact'
  <2>1. 0 \notin Stored
    BY DEF TypeOK, NodeId
  <2> QED
    BY <1>1, <1>4, <1>5, <2>1 DEF IndInv, StagedIntact
<1> QED
  BY ZenonT(60), <1>6, <1>7, <1>8, <1>9 DEF IndInv

\* An edit stages a fresh root over nodes of the tree it started from.
LEMMA EditShardSafe ==
    ASSUME TypeOK, IndInv, NEW w \in Writers, NEW s \in Shards, NEW leaf,
           NEW segments \in SUBSET Nat, EditShard(w, s, leaf, segments)
    PROVE  IndInv'
<1> DEFINE n == next_metadata_node_id
           old == edits[w].old[s]
<1>1. /\ RecordedRoots' = RecordedRoots
      /\ UNCHANGED metadata_last_mark_epoch
  BY SMTT(30) DEF EditShard, timeline, devices, RecordedRoots, Live, Deleted
<1>2. /\ n \in Nat \ {0} /\ n \notin Stored /\ n + 1 \notin Stored
      /\ old \in Stored
      /\ edits[w].new[s] = 0
  BY SMTT(30) DEF EditShard, PathBroken, TypeOK, IndInv, IdsFresh, NodeId
\* The root the edit leaves in the store, whichever of its two forms it took.
<1>3. PICK root \in {n, n + 1} :
        /\ root < next_metadata_node_id' /\ n < next_metadata_node_id'
        /\ next_metadata_node_id' \in Nat
        /\ edits' = [edits EXCEPT ![w].new[s] = root]
        /\ Stored' = Stored \cup {n, root}
        /\ \A m \in Stored : metadata_nodes'[m] = metadata_nodes[m]
        /\ root # n => metadata_nodes'[n].children = {}
        /\ metadata_nodes'[root].children \subseteq metadata_nodes[old].children \cup ({n} \ {root})
  <2>1. CASE leaf = old
    <3>1. /\ AllocNodes(1)
          /\ metadata_nodes' = With(metadata_nodes, n, [children |-> {}, segments |-> segments])
          /\ edits' = [edits EXCEPT ![w].new[s] = n]
      BY ZenonT(60), <2>1 DEF EditShard
    <3>2. next_metadata_node_id' = n + 1
      BY ZenonT(60), <3>1 DEF AllocNodes
    <3>3. /\ Stored' = Stored \cup {n}
          /\ \A m \in Stored : metadata_nodes'[m] = metadata_nodes[m]
          /\ metadata_nodes'[n].children = {}
      BY ZenonT(60), <3>1, <1>2 DEF With, Stored
    <3>4. n < n + 1 /\ n + 1 \in Nat
      BY <1>2
    <3> WITNESS n \in {n, n + 1}
    <3> QED
      BY ZenonT(30), <3>1, <3>2, <3>3, <3>4
  <2>2. CASE leaf # old
    <3> DEFINE newLeaf == [children |-> {}, segments |-> segments]
               newRoot == [children |-> (metadata_nodes[old].children \ {leaf}) \cup {n},
                           segments |-> {}]
    <3>1. /\ AllocNodes(2)
          /\ metadata_nodes' = With(With(metadata_nodes, n, newLeaf), n + 1, newRoot)
          /\ edits' = [edits EXCEPT ![w].new[s] = n + 1]
      BY ZenonT(60), <2>2 DEF EditShard
    <3>2. next_metadata_node_id' = n + 2
      BY ZenonT(60), <3>1 DEF AllocNodes
    <3>3. newLeaf.children = {} /\ newRoot.children \subseteq metadata_nodes[old].children \cup {n}
      BY ZenonT(60)
    <3> HIDE DEF newLeaf, newRoot
    <3>4. /\ Stored' = Stored \cup {n, n + 1}
          /\ \A m \in Stored : metadata_nodes'[m] = metadata_nodes[m]
          /\ metadata_nodes'[n] = newLeaf
          /\ metadata_nodes'[n + 1] = newRoot
      BY <3>1, <1>2 DEF With, Stored
    <3>5. n + 1 # n
      BY <1>2
    <3> QED
      BY SMTT(30), <3>1, <3>2, <3>3, <3>4, <3>5, <1>2
  <2> QED
    BY <2>1, <2>2
<1>4. \A v \in Writers : \A t \in Shards :
        /\ edits'[v].old[t] = edits[v].old[t]
        /\ edits'[v].new[t] = IF v = w /\ t = s THEN root ELSE edits[v].new[t]
  BY <1>3 DEF TypeOK, Edit, Roots
<1>5. root \notin Stored /\ root \in Nat \ {0} /\ root >= n
  BY SMTT(30), <1>2, <1>3
<1>6. \A m \in Stored : \A c \in metadata_nodes[m].children : c \in Nat /\ c < n
  BY DEF IndInv, IdsFresh, TypeOK, MetadataNode
<1>7. RecordedRoots \subseteq Stored
  BY ZenonT(60) DEF IndInv, RecordsIntact, Reachable
<1> HIDE DEF n, old
<1>8. RecordsIntact'
  <2>1. (Reachable(RecordedRoots))' = Reachable(RecordedRoots)
    BY <1>1, <1>3, <1>7 DEF Reachable
  <2> QED
    BY ZenonT(60), <2>1, <1>3 DEF IndInv, RecordsIntact
<1>9. IdsFresh'
  <2>1. \A m \in Stored : m \in Nat /\ m < n
    BY DEF IndInv, IdsFresh, TypeOK, NodeId, n
  <2>2. \A v \in Writers : \A t \in Shards :
          /\ edits[v].old[t] \in Nat /\ edits[v].old[t] < n
          /\ edits[v].new[t] \in Nat /\ edits[v].new[t] < n
    BY DEF IndInv, IdsFresh, TypeOK, Edit, Roots, n
  <2>3. \A m \in NodeId : m >= next_metadata_node_id' => metadata_last_mark_epoch'[m] = 0
    BY <1>1, <1>2, <1>3 DEF IndInv, IdsFresh, NodeId, n
  <2>4. \A m \in Stored' : m < next_metadata_node_id'
    BY <1>2, <1>3, <2>1
  <2>5. \A m \in Stored' : \A c \in metadata_nodes'[m].children : c < next_metadata_node_id'
    <3> SUFFICES ASSUME NEW m \in Stored', NEW c \in metadata_nodes'[m].children
                 PROVE  c < next_metadata_node_id'
      OBVIOUS
    <3>1. CASE c = n
      BY ZenonT(60), <3>1, <1>3
    <3>2. CASE c # n
      <4>1. PICK k \in Stored : c \in metadata_nodes[k].children
        BY ZenonT(60), <3>2, <1>2, <1>3
      <4> QED
        BY <4>1, <1>2, <1>3, <1>6
    <3> QED
      BY ZenonT(60), <3>1, <3>2
  <2>6. \A v \in Writers : \A t \in Shards :
          edits'[v].old[t] < next_metadata_node_id' /\ edits'[v].new[t] < next_metadata_node_id'
    BY <1>2, <1>3, <1>4, <2>2
  <2> QED
    BY ZenonT(60), <2>3, <2>4, <2>5, <2>6 DEF IdsFresh
<1> QED
  <2> SUFFICES StagedPrivate' /\ StagedIntact'
    BY ZenonT(60), <1>8, <1>9 DEF IndInv
  <2>1. \A v \in Writers : \A t \in Shards :
          /\ edits[v].old[t] \in Nat /\ edits[v].old[t] < n
          /\ edits[v].new[t] \in Nat /\ edits[v].new[t] < n
    BY DEF IndInv, IdsFresh, TypeOK, Edit, Roots, n
  <2>2. StagedPrivate'
    <3> SUFFICES ASSUME NEW v \in Writers, NEW t \in Shards, edits'[v].new[t] # 0
                 PROVE  PrivateRoot(v, t)'
      BY DEF StagedPrivate
    <3>1. CASE v = w /\ t = s
      <4>1. edits'[v].new[t] = root
        BY ZenonT(60), <1>4, <3>1
      <4>2. root \notin RecordedRoots'
        BY ZenonT(60), <1>1, <1>5, <1>7
      <4>3. \A m \in Stored' : root \notin metadata_nodes'[m].children
        BY SMTT(30), <1>2, <1>3, <1>5, <1>6
      <4>4. root \in NodeId => metadata_last_mark_epoch'[root] = 0
        BY ZenonT(60), <1>1, <1>2, <1>5 DEF IndInv, IdsFresh, n
      <4>5. \A u \in Writers : \A x \in Shards : root # edits'[u].old[x]
        BY SMTT(30), <1>2, <1>4, <1>5, <2>1
      <4>6. \A u \in Writers : \A x \in Shards : root = edits'[u].new[x] => u = w /\ x = s
        BY SMTT(30), <1>2, <1>4, <1>5, <2>1
      <4> QED
        BY ZenonT(60), <3>1, <4>1, <4>2, <4>3, <4>4, <4>5, <4>6 DEF PrivateRoot
    <3>2. CASE ~ (v = w /\ t = s)
      <4>1. edits'[v].new[t] = edits[v].new[t] /\ edits[v].new[t] # 0
        BY ZenonT(60), <1>4, <3>2
      <4>2. PrivateRoot(v, t)
        BY ZenonT(60), <4>1 DEF IndInv, StagedPrivate
      <4>3. edits[v].new[t] # n /\ edits[v].new[t] # root
        BY <1>2, <1>5, <2>1
      <4>4. \A m \in Stored' : edits[v].new[t] \notin metadata_nodes'[m].children
        BY ZenonT(60), <1>2, <1>3, <4>2, <4>3 DEF PrivateRoot
      <4> QED
        BY SMTT(30), <1>1, <1>4, <4>1, <4>2, <4>3, <4>4 DEF PrivateRoot
    <3> QED
      BY ZenonT(60), <3>1, <3>2
  <2>3. StagedIntact'
    <3> SUFFICES ASSUME NEW v \in Writers, NEW t \in Shards,
                        edits'[v].new[t] \in Stored', edits'[v].old[t] \in RecordedRoots'
                 PROVE  (Reachable({edits[v].new[t]}))' \subseteq Stored'
      BY ZenonT(60) DEF StagedIntact
    <3>1. CASE v = w /\ t = s
      <4>1. edits'[v].new[t] = root /\ old \in RecordedRoots
        BY ZenonT(60), <1>1, <1>4, <3>1 DEF old
      <4>2. metadata_nodes[old].children \subseteq Stored
        BY ZenonT(60), <1>2, <4>1 DEF IndInv, RecordsIntact, Reachable
      <4> QED
        BY <1>3, <4>1, <4>2 DEF Reachable
    <3>2. CASE ~ (v = w /\ t = s)
      <4>1. edits'[v].new[t] = edits[v].new[t] /\ edits'[v].old[t] = edits[v].old[t]
        BY ZenonT(60), <1>4, <3>2
      <4>2. edits[v].new[t] \in Stored
        BY SMTT(30), <1>2, <1>3, <1>5, <2>1, <4>1
      <4>3. Reachable({edits[v].new[t]}) \subseteq Stored
        BY ZenonT(60), <1>1, <4>1, <4>2 DEF IndInv, StagedIntact
      <4> QED
        BY <1>3, <4>1, <4>2, <4>3 DEF Reachable
    <3> QED
      BY ZenonT(60), <3>1, <3>2
  <2> QED
    BY <2>2, <2>3

\* A publish records staged roots whose old roots are the head's: their trees are whole.
LEMMA PublishSafe ==
    ASSUME TypeOK, IndInv, NEW w \in Writers, PublishCommitGroup(w)
    PROVE  IndInv'
<1> DEFINE d == edits[w].device
           added == {edits[w].new[s] : s \in EditedShards(w)}
<1>1. /\ UNCHANGED <<metadata_nodes, metadata_last_mark_epoch, next_metadata_node_id>>
      /\ Stored' = Stored
      /\ \A R : Reachable(R)' = Reachable(R)
  BY SMTT(60) DEF PublishCommitGroup, store, Stored, Reachable
<1>2. \A v \in Writers : \A t \in Shards :
        \/ edits'[v].new[t] = 0 /\ edits'[v].old[t] = 0
        \/ v # w /\ edits'[v].new[t] = edits[v].new[t] /\ edits'[v].old[t] = edits[v].old[t]
  BY DEF PublishCommitGroup, NoEdit, TypeOK
\* The records gain the roots this writer built, and nothing else.
<1>3. RecordedRoots' \subseteq RecordedRoots \cup added
  <2>1. /\ d \in Live
        /\ Live' = Live /\ Deleted' = Deleted
        /\ UNCHANGED <<deleted_device_heads, checkpoints>>
        /\ \A e \in Live \ {d} : device_heads'[e] = device_heads[e]
        /\ device_heads'[d].shard_roots = [s \in Shards |->
               IF s \in EditedShards(w) THEN edits[w].new[s] ELSE device_heads[d].shard_roots[s]]
    BY ZenonT(60) DEF PublishCommitGroup, CanPublish, Live, Deleted, TypeOK
  <2>2. \A m \in shard_commits' : m \in shard_commits \/ m.new_root \in added
    BY DEF PublishCommitGroup
  <2>3. \A e \in Live : RootSet(device_heads'[e].shard_roots) \subseteq RecordedRoots \cup added
    <3>1. \A e \in Live \ {d} : RootSet(device_heads'[e].shard_roots) \subseteq RecordedRoots
      BY ZenonT(60), <2>1 DEF RecordedRoots
    <3>2. RootSet(device_heads'[d].shard_roots) \subseteq RootSet(device_heads[d].shard_roots) \cup added
      BY <2>1 DEF RootSet
    <3>3. RootSet(device_heads[d].shard_roots) \subseteq RecordedRoots
      BY ZenonT(60), <2>1 DEF RecordedRoots
    <3> QED
      BY ZenonT(60), <3>1, <3>2, <3>3
  <2>4. /\ {m.new_root : m \in shard_commits} \subseteq RecordedRoots
        /\ UNION {RootSet(deleted_device_heads[e].shard_roots) : e \in Deleted} \subseteq RecordedRoots
        /\ UNION {RootSet(k.roots) : k \in checkpoints} \subseteq RecordedRoots
    BY ZenonT(60) DEF RecordedRoots
  <2>5. {m.new_root : m \in shard_commits'} \subseteq RecordedRoots \cup added
    BY ZenonT(60), <2>2, <2>4
  <2>6. RecordedRoots' = (UNION {RootSet(device_heads'[e].shard_roots) : e \in Live})
                           \cup (UNION {RootSet(deleted_device_heads[e].shard_roots) : e \in Deleted})
                           \cup (UNION {RootSet(k.roots) : k \in checkpoints})
                           \cup {m.new_root : m \in shard_commits'}
    BY SMTT(60), <2>1 DEF RecordedRoots, RootSet
  <2> HIDE DEF added
  <2> QED
    BY ZenonT(60), <2>3, <2>4, <2>5, <2>6
<1>4. \A s \in EditedShards(w) :
        /\ s \in Shards /\ edits[w].new[s] # 0 /\ PrivateRoot(w, s)
        /\ edits[w].new[s] \in Stored
        /\ edits[w].old[s] \in RecordedRoots
  <2> TAKE s \in EditedShards(w)
  <2>1. s \in Shards /\ edits[w].new[s] # 0
    BY DEF EditedShards
  <2>2. PrivateRoot(w, s)
    BY ZenonT(60), <2>1 DEF IndInv, StagedPrivate
  <2>3. /\ edits[w].device \in Live /\ edits[w].new[s] \in Stored
        /\ device_heads[edits[w].device].shard_roots[s] = edits[w].old[s]
    BY ZenonT(60) DEF PublishCommitGroup, CanPublish
  <2>4. edits[w].old[s] \in RecordedRoots
    BY SMTT(30), <2>1, <2>3 DEF RecordedRoots, RootSet
  <2> QED
    BY ZenonT(60), <2>1, <2>2, <2>3, <2>4
<1>5. Reachable(RecordedRoots \cup added) \subseteq Stored
  <2>1. \A s \in EditedShards(w) : Reachable({edits[w].new[s]}) \subseteq Stored
    BY ZenonT(60), <1>4 DEF IndInv, StagedIntact
  <2> QED
    BY <2>1 DEF IndInv, RecordsIntact, Reachable
<1>6. RecordsIntact'
  BY SMTT(30), <1>1, <1>3, <1>5 DEF RecordsIntact, Reachable
<1>7. IdsFresh'
  <2>1. next_metadata_node_id \in Nat \ {0}
    BY ZenonT(60) DEF TypeOK
  <2> QED
    BY <1>1, <1>2, <2>1 DEF IndInv, IdsFresh
<1>8. StagedPrivate'
  <2> SUFFICES ASSUME NEW v \in Writers, NEW t \in Shards, edits'[v].new[t] # 0
               PROVE  PrivateRoot(v, t)'
    BY ZenonT(60) DEF StagedPrivate
  <2>1. v # w /\ edits'[v].new[t] = edits[v].new[t]
    BY ZenonT(60), <1>2
  <2>2. PrivateRoot(v, t)
    BY ZenonT(60), <2>1 DEF IndInv, StagedPrivate
  <2>3. edits[v].new[t] \notin added
    BY SMTT(60), <1>4, <2>1 DEF PrivateRoot
  <2>4. edits'[v].new[t] \notin RecordedRoots'
    BY ZenonT(60), <1>3, <2>1, <2>2, <2>3 DEF PrivateRoot
  <2> QED
    BY <1>1, <1>2, <2>1, <2>2, <2>4 DEF PrivateRoot
<1>9. StagedIntact'
  <2> SUFFICES ASSUME NEW v \in Writers, NEW t \in Shards,
                      edits'[v].new[t] \in Stored, edits'[v].old[t] \in RecordedRoots'
               PROVE  (Reachable({edits[v].new[t]}))' \subseteq Stored
    BY ZenonT(60), <1>1 DEF StagedIntact
  <2>1. 0 \notin Stored
    BY DEF TypeOK, NodeId
  <2>2. edits'[v].new[t] = edits[v].new[t] /\ edits'[v].old[t] = edits[v].old[t]
    BY ZenonT(60), <1>2, <2>1
  <2>3. edits[v].old[t] \notin added
    BY SMTT(30), <1>4 DEF PrivateRoot
  <2>4. Reachable({edits[v].new[t]}) \subseteq Stored
    BY ZenonT(60), <1>3, <2>2, <2>3 DEF IndInv, StagedIntact
  <2> QED
    BY ZenonT(60), <1>1, <2>2, <2>4 DEF Reachable
<1> QED
  BY ZenonT(60), <1>6, <1>7, <1>8, <1>9 DEF IndInv

\* The leaves create_empty_tree allocates lie above the roots and below the end
\* of the ids it takes.
LEMMA EmptyLeavesFresh ==
    ASSUME TypeOK, NEW s \in Shards
    PROVE  EmptyLeaves(s) \subseteq next_metadata_node_id + ShardCount ..
             next_metadata_node_id + (ShardCount + ShardCount * Fanout) - 1
<1>1. s \in Nat /\ s + 1 <= ShardCount /\ ShardCount \in Nat /\ Fanout \in Nat
  BY ConstantsAssumption DEF Shards
<1>2. s * Fanout \in Nat /\ ShardCount * Fanout \in Nat
  BY <1>1
<1>3. s * Fanout + Fanout <= ShardCount * Fanout
  <2>1. (s + 1) * Fanout <= ShardCount * Fanout
    BY <1>1
  <2>2. (s + 1) * Fanout = s * Fanout + Fanout
    BY <1>1
  <2> QED
    BY ZenonT(60), <2>1, <2>2
<1>4. next_metadata_node_id \in Nat
  BY DEF TypeOK
<1> DEFINE p == s * Fanout
           q == ShardCount * Fanout
<1>5. p \in Nat /\ q \in Nat /\ p + Fanout <= q
  BY <1>2, <1>3
<1>6. EmptyLeaves(s) = {next_metadata_node_id + ShardCount + p + i : i \in 0 .. Fanout - 1}
  BY DEF EmptyLeaves
<1> HIDE DEF p
<1>7. EmptyLeaves(s) \subseteq next_metadata_node_id + ShardCount ..
                                 next_metadata_node_id + (ShardCount + q) - 1
  <2> HIDE DEF q
  <2> QED
    BY <1>1, <1>4, <1>5, <1>6
<1> QED
  BY <1>7

\* create_device adds whole trees whose ids nobody knew.
LEMMA CreateDeviceSafe ==
    ASSUME TypeOK, IndInv, CreateDevice
    PROVE  IndInv'
<1> DEFINE first == next_metadata_node_id
           size == ShardCount + ShardCount * Fanout
           fresh == first .. first + size - 1
           roots == [s \in Shards |-> first + s]
<1>1. /\ first \in Nat \ {0} /\ size \in Nat /\ size >= ShardCount /\ ShardCount \in Nat \ {0}
      /\ next_metadata_node_id' = first + size
      /\ UNCHANGED <<metadata_last_mark_epoch, edits>>
  <2>1. ShardCount * Fanout \in Nat
    BY ConstantsAssumption
  <2> QED
    BY <2>1, ConstantsAssumption DEF TypeOK, CreateDevice, AllocNodes
<1>2. /\ Stored' = Stored \cup fresh
      /\ \A n \in Stored : metadata_nodes'[n] = metadata_nodes[n]
      /\ \A n \in fresh \ Stored : metadata_nodes'[n].children =
             IF n - first \in Shards THEN EmptyLeaves(n - first) ELSE {}
  <2>1. metadata_nodes' =
          [n \in Stored \cup fresh |->
              IF n \in Stored THEN metadata_nodes[n]
              ELSE [children |-> IF n - first \in Shards THEN EmptyLeaves(n - first) ELSE {},
                    segments |-> {}]]
    BY ZenonT(60) DEF CreateDevice
  <2> HIDE DEF fresh
  <2> QED
    BY ZenonT(60), <2>1 DEF Stored
<1>3. /\ \A n \in Stored : n \in Nat /\ n < first
      /\ \A n \in Stored : \A c \in metadata_nodes[n].children : c \in Nat /\ c < first
      /\ \A w \in Writers : \A t \in Shards :
             /\ edits[w].old[t] \in Nat /\ edits[w].old[t] < first
             /\ edits[w].new[t] \in Nat /\ edits[w].new[t] < first
  <2>1. /\ Stored \subseteq NodeId
        /\ \A n \in Stored : metadata_nodes[n] \in MetadataNode
        /\ \A w \in Writers : edits[w] \in Edit
    BY ZenonT(60) DEF TypeOK
  <2>2. NodeId \subseteq Nat
    BY ConstantsAssumption DEF NodeId
  <2>3. \A n \in Stored : metadata_nodes[n].children \subseteq Nat
    BY <2>1 DEF MetadataNode
  <2>4. \A w \in Writers : \A t \in Shards : edits[w].old[t] \in Nat /\ edits[w].new[t] \in Nat
    BY <2>1 DEF Edit, Roots
  <2>5. IdsFresh
    BY DEF IndInv
  <2> QED
    BY ZenonT(60), <2>1, <2>2, <2>3, <2>4, <2>5 DEF IdsFresh
<1>4. \A s \in Shards : EmptyLeaves(s) \subseteq fresh
  <2> SUFFICES ASSUME NEW s \in Shards PROVE EmptyLeaves(s) \subseteq fresh
    OBVIOUS
  <2>1. EmptyLeaves(s) \subseteq first + ShardCount .. first + size - 1
    BY EmptyLeavesFresh
  <2> HIDE DEF size
  <2> QED
    BY <1>1, <2>1
<1>5. \A n \in fresh : n \in Nat /\ n >= first /\ n < first + size
  <2> HIDE DEF size
  <2> QED
    BY <1>1
<1>6. RootSet(roots) \subseteq fresh
  <2>1. \A s \in Shards : s \in Nat /\ s < ShardCount
    BY <1>1 DEF Shards
  <2> HIDE DEF size
  <2> QED
    BY <1>1, <2>1 DEF RootSet
<1>7. \A n \in fresh : metadata_nodes'[n].children \subseteq fresh
  <2>1. fresh \cap Stored = {}
    <3> HIDE DEF fresh, size
    <3> QED
      BY <1>1, <1>3, <1>5
  <2> HIDE DEF fresh
  <2> QED
    BY ZenonT(60), <1>2, <1>4, <2>1
<1>8. RecordedRoots' \subseteq RecordedRoots \cup fresh
  <2> DEFINE d == next_device_id
             head == [shard_roots |-> roots, latest_commit |-> 0]
             ck == [id |-> next_checkpoint_id, owner |-> d, commit_seq |-> 0, roots |-> roots]
  <2>1. /\ device_heads' = With(device_heads, d, head)
        /\ checkpoints' = checkpoints \cup {ck}
        /\ UNCHANGED <<deleted_device_heads, shard_commits>>
    BY DEF CreateDevice, InsertCheckpoint
  <2>2. head.shard_roots = roots /\ ck.roots = roots
    OBVIOUS
  <2> HIDE DEF head, ck, roots, fresh
  <2>3. /\ Live' = Live \cup {d} /\ Deleted' = Deleted
        /\ device_heads'[d] = head
        /\ \A e \in Live \ {d} : device_heads'[e] = device_heads[e]
    BY ZenonT(60), <2>1 DEF With, Live, Deleted
  <2>4. \A e \in Live' : RootSet(device_heads'[e].shard_roots) \subseteq RecordedRoots \cup fresh
    BY ZenonT(60), <1>6, <2>2, <2>3 DEF RecordedRoots
  <2>5. \A k \in checkpoints' : RootSet(k.roots) \subseteq RecordedRoots \cup fresh
    BY ZenonT(60), <1>6, <2>1, <2>2 DEF RecordedRoots
  <2>6. /\ {m.new_root : m \in shard_commits} \subseteq RecordedRoots
        /\ UNION {RootSet(deleted_device_heads[e].shard_roots) : e \in Deleted} \subseteq RecordedRoots
    BY ZenonT(60) DEF RecordedRoots
  <2>7. RecordedRoots' = (UNION {RootSet(device_heads'[e].shard_roots) : e \in Live'})
                           \cup (UNION {RootSet(deleted_device_heads[e].shard_roots) : e \in Deleted})
                           \cup (UNION {RootSet(k.roots) : k \in checkpoints'})
                           \cup {m.new_root : m \in shard_commits}
    BY SMTT(30), <2>1, <2>3 DEF RecordedRoots, RootSet
  <2> QED
    BY ZenonT(60), <2>4, <2>5, <2>6, <2>7
<1>9. RecordedRoots \subseteq Stored
  BY DEF IndInv, RecordsIntact, Reachable
<1> HIDE DEF fresh, roots
<1>10. RecordsIntact'
  <2>1. \A n \in RecordedRoots : metadata_nodes'[n].children \subseteq Stored
    BY ZenonT(60), <1>2, <1>9 DEF IndInv, RecordsIntact, Reachable
  <2>2. \A n \in RecordedRoots' : n \in Stored' /\ metadata_nodes'[n].children \subseteq Stored'
    BY ZenonT(60), <1>2, <1>7, <1>8, <1>9, <2>1
  <2> QED
    BY ZenonT(60), <2>2 DEF RecordsIntact, Reachable
<1>11. IdsFresh'
  <2>1. \A n \in NodeId : n >= first + size => metadata_last_mark_epoch[n] = 0
    <3> HIDE DEF size
    <3> QED
      BY <1>1 DEF IndInv, IdsFresh, NodeId
  <2>2. \A n \in Nat : n < first => n < first + size
    <3> HIDE DEF size
    <3> QED
      BY <1>1
  <2>3. \A n \in Stored' : /\ n < first + size
                            /\ \A c \in metadata_nodes'[n].children : c < first + size
    BY ZenonT(60), <1>2, <1>3, <1>5, <1>7, <2>2
  <2> HIDE DEF size
  <2> QED
    BY ZenonT(60), <1>1, <1>3, <2>1, <2>2, <2>3 DEF IdsFresh
<1>12. StagedPrivate'
  <2> SUFFICES ASSUME NEW w \in Writers, NEW s \in Shards, edits[w].new[s] # 0
               PROVE  PrivateRoot(w, s)'
    BY <1>1 DEF StagedPrivate
  <2>1. PrivateRoot(w, s)
    BY ZenonT(60) DEF IndInv, StagedPrivate
  <2>2. edits[w].new[s] \notin fresh
    BY SMTT(30), <1>1, <1>3, <1>5
  <2>3. \A m \in Stored' : edits[w].new[s] \notin metadata_nodes'[m].children
    BY ZenonT(60), <1>2, <1>7, <2>1, <2>2 DEF PrivateRoot
  <2>4. edits[w].new[s] \notin RecordedRoots'
    BY ZenonT(60), <1>8, <2>1, <2>2 DEF PrivateRoot
  <2> QED
    BY ZenonT(60), <1>1, <2>1, <2>3, <2>4 DEF PrivateRoot
<1>13. StagedIntact'
  <2> SUFFICES ASSUME NEW w \in Writers, NEW s \in Shards,
                      edits[w].new[s] \in Stored', edits[w].old[s] \in RecordedRoots'
               PROVE  (Reachable({edits[w].new[s]}))' \subseteq Stored'
    BY ZenonT(60), <1>1 DEF StagedIntact
  <2>1. edits[w].new[s] \in Stored /\ edits[w].old[s] \in RecordedRoots
    BY SMTT(30), <1>1, <1>2, <1>3, <1>5, <1>8
  <2>2. Reachable({edits[w].new[s]}) \subseteq Stored
    BY ZenonT(60), <2>1 DEF IndInv, StagedIntact
  <2> QED
    BY SMTT(30), <1>1, <1>2, <2>1, <2>2 DEF Reachable
<1> QED
  BY ZenonT(60), <1>10, <1>11, <1>12, <1>13 DEF IndInv

-----------------------------------------------------------------------------
(* Steps on a device.                                                       *)

\* A commit of another device does not move the replay of a deleted one.
LEMMA NowMoves ==
    ASSUME NEW ms \in SUBSET ShardCommit, NEW k \in Checkpoint, NEW roots,
           NEW a \in Nat \ {0}, NEW b \in Nat \ {0}, a <= b,
           \A m \in ms : m.commit_seq < a,
           Leads(ms, k, a - 1, roots)
    PROVE  Leads(ms, k, b - 1, roots)
<1>1. \A m \in ms : m.commit_seq \in Nat
  BY DEF ShardCommit
<1>2. \A m \in ms : m.commit_seq <= a - 1
  BY <1>1
<1>3. a - 1 \in Nat /\ b - 1 \in Nat /\ a - 1 <= b - 1
  BY Predecessors
<1> QED
  BY ZenonT(60), <1>2, <1>3, NoLaterCommit

\* delete_device: the deleted device keeps its history and its last roots.
LEMMA DeleteDeviceTimeline ==
    ASSUME TimelineInv, NEW d, DeleteDevice(d)
    PROVE  TimelineInv'
<1>1. TypeOK'
  BY ZenonT(60), DeleteDeviceType DEF TimelineInv
<1>2. PICK n \in Nat \ {0} : n = next_commit_seq
  BY DEF TimelineInv, TypeOK
<1>3. /\ d \in Live
      /\ next_commit_seq' = n + 1
      /\ device_heads' = Without(device_heads, {d})
      /\ deleted_device_heads' = With(deleted_device_heads, d,
            [device_heads[d] EXCEPT !.latest_commit = n])
      /\ next_device_id' = next_device_id /\ device_specs' = device_specs
      /\ checkpoints' = checkpoints /\ shard_commits' = shard_commits
      /\ fork_records' = fork_records
  BY <1>2, Zenon DEF DeleteDevice, AllocCommitSeq, timeline
<1>4. /\ checkpoints \subseteq Checkpoint /\ shard_commits \subseteq ShardCommit
      /\ fork_records \subseteq ForkRecord
      /\ device_heads \in [Live -> Head] /\ deleted_device_heads \in [Deleted -> Head]
  BY ZenonT(60) DEF TimelineInv, TypeOK
<1>5. /\ Live' = Live \ {d} /\ Deleted' = Deleted \cup {d}
      /\ \A e \in Live' : device_heads'[e] = device_heads[e]
      /\ \A e \in Deleted \ {d} : deleted_device_heads'[e] = deleted_device_heads[e]
      /\ deleted_device_heads'[d].shard_roots = device_heads[d].shard_roots
      /\ deleted_device_heads'[d].latest_commit = n
  <2>1. device_heads[d] \in Head
    BY <1>3, <1>4
  <2> DEFINE h == [device_heads[d] EXCEPT !.latest_commit = n]
  <2>2. h.shard_roots = device_heads[d].shard_roots /\ h.latest_commit = n
    BY <2>1 DEF Head
  <2> HIDE DEF h
  <2>3. Live' = Live \ {d} /\ \A e \in Live' : device_heads'[e] = device_heads[e]
    BY <1>3 DEF Without, Live
  <2>4. /\ Deleted' = Deleted \cup {d} /\ deleted_device_heads'[d] = h
        /\ \A e \in Deleted \ {d} : deleted_device_heads'[e] = deleted_device_heads[e]
    BY <1>3 DEF With, Deleted, h
  <2> QED
    BY <2>2, <2>3, <2>4
<1>6. OwnersKnown
  BY DEF TimelineInv
<1>7. ASSUME NEW e, NEW b \in Nat, OwnsItsPast(e, b) PROVE OwnsItsPast(e, b)'
  <2>1. e \in Live \cup Deleted /\ b < n /\ (e \in Live => b <= device_heads[e].latest_commit)
    BY ZenonT(60), <1>7, <1>2 DEF OwnsItsPast
  <2>2. e \in Live' \cup Deleted'
    BY ZenonT(60), <2>1, <1>5
  <2>3. b < next_commit_seq'
    BY <2>1, <1>3
  <2>4. e \in Live' => b <= device_heads'[e].latest_commit
    BY ZenonT(60), <2>1, <1>5
  <2> QED
    BY ZenonT(60), <2>2, <2>3, <2>4 DEF OwnsItsPast
<1>8. OwnersKnown'
  <2>1. /\ Live' \cap Deleted' = {}
        /\ device_specs' = Live' \cup Deleted'
        /\ \A e \in Live' \cup Deleted' : e < next_device_id'
    BY ZenonT(60), <1>3, <1>5, <1>6 DEF OwnersKnown
  <2>2. ASSUME NEW e \in Live' PROVE device_heads'[e].latest_commit < next_commit_seq'
    <3>1. /\ device_heads[e].latest_commit \in Nat /\ device_heads[e].latest_commit < n
      BY ZenonT(60), <1>2, <1>4, <1>5, <1>6 DEF OwnersKnown, Head
    <3>2. next_commit_seq' = n + 1 /\ device_heads'[e] = device_heads[e]
      BY ZenonT(60), <1>3, <1>5
    <3> QED
      BY SMTT(60), <3>1, <3>2
  <2>3. ASSUME NEW e \in Deleted' PROVE deleted_device_heads'[e].latest_commit < next_commit_seq'
    <3>1. e \in Deleted => /\ deleted_device_heads[e].latest_commit \in Nat
                           /\ deleted_device_heads[e].latest_commit < n
      BY ZenonT(60), <1>2, <1>4, <1>6 DEF OwnersKnown, Head
    <3> QED
      BY <3>1, <1>3, <1>5
  <2>4. ASSUME NEW k \in checkpoints' PROVE OwnsItsPast(k.owner, k.commit_seq)'
    <3>1. k.commit_seq \in Nat /\ OwnsItsPast(k.owner, k.commit_seq)
      BY ZenonT(60), <1>3, <1>4, <1>6 DEF OwnersKnown, Checkpoint
    <3> QED
      BY ZenonT(60), <3>1, <1>7
  <2>5. ASSUME NEW m \in shard_commits' PROVE OwnsItsPast(m.device, m.commit_seq)'
    <3>1. m.commit_seq \in Nat /\ OwnsItsPast(m.device, m.commit_seq)
      BY ZenonT(60), <1>3, <1>4, <1>6 DEF OwnersKnown, ShardCommit
    <3> QED
      BY ZenonT(60), <3>1, <1>7
  <2>6. ASSUME NEW f \in fork_records' PROVE OwnsItsPast(f.target, f.fork_seq)'
    <3>1. f.fork_seq \in Nat /\ OwnsItsPast(f.target, f.fork_seq)
      BY ZenonT(60), <1>3, <1>4, <1>6 DEF OwnersKnown, ForkRecord
    <3> QED
      BY ZenonT(60), <3>1, <1>7
  <2> QED
    BY ZenonT(60), <2>1, <2>2, <2>3, <2>4, <2>5, <2>6 DEF OwnersKnown
<1>9. AllChained'
  <2> DEFINE ms == shard_commits
  <2>0. /\ \A m \in ms : m.commit_seq \in Nat /\ m.commit_seq < n
        /\ \A m \in ms : m.device = d => m.commit_seq <= device_heads[d].latest_commit
        /\ device_heads[d].latest_commit \in Nat /\ device_heads[d].latest_commit < n
    BY ZenonT(60), <1>2, <1>3, <1>4, <1>6 DEF OwnersKnown, OwnsItsPast, ShardCommit, Head
  <2>1. current_commit_seq = n - 1 /\ current_commit_seq' = n + 1 - 1
    BY <1>2, <1>3 DEF current_commit_seq
  <2>2. ASSUME NEW k \in checkpoints', k.owner \in Live'
        PROVE  Leads(ms, k, device_heads'[k.owner].latest_commit,
                     device_heads'[k.owner].shard_roots)
    BY ZenonT(60), <2>2, <1>3, <1>5 DEF TimelineInv, AllChained, Chained, Live
  <2>3. ASSUME NEW k \in checkpoints', k.owner \in Deleted'
        PROVE  Leads(ms, k, current_commit_seq', deleted_device_heads'[k.owner].shard_roots)
    <3>1. k \in checkpoints /\ k \in Checkpoint
      BY ZenonT(60), <1>3, <1>4
    <3>2. CASE k.owner = d
      <4>1. Leads(ms, k, device_heads[d].latest_commit, device_heads[d].shard_roots)
        BY ZenonT(60), <3>1, <3>2, <1>3 DEF TimelineInv, AllChained, Chained, Live
      <4>2. device_heads[d].latest_commit <= n /\ n = n + 1 - 1
        BY SMTT(60), <2>0
      <4>3. Leads(ms, k, n, device_heads[d].shard_roots)
        BY ZenonT(60), <4>1, <4>2, <3>1, <3>2, <2>0, <1>4, NoLaterCommit
      <4> QED
        BY ZenonT(60), <4>2, <4>3, <2>1, <3>2, <1>5
    <3>3. CASE k.owner # d
      <4>1. k.owner \in Deleted
        BY ZenonT(60), <3>3, <2>3, <1>5
      <4>2. Leads(ms, k, n - 1, deleted_device_heads[k.owner].shard_roots)
        BY ZenonT(60), <3>1, <4>1, <2>1 DEF TimelineInv, AllChained, Chained, Deleted
      <4>3. n + 1 \in Nat \ {0} /\ n <= n + 1
        BY SMTT(60)
      <4>4. Leads(ms, k, n + 1 - 1, deleted_device_heads[k.owner].shard_roots)
        BY SMTT(60), <4>2, <4>3, <3>1, <2>0, <1>4, NowMoves
      <4> QED
        BY ZenonT(60), <4>1, <4>4, <2>1, <3>3, <1>5
    <3> QED
      BY ZenonT(60), <3>2, <3>3
  <2> QED
    BY ZenonT(60), <2>2, <2>3, <1>3 DEF TimelineInv, AllChained, Chained, Live, Deleted
<1>10. ForkStartsAtFork'
  BY ZenonT(60), <1>3 DEF TimelineInv, ForkStartsAtFork, TimelineCommits, CheckpointsOf
<1> QED
  BY ZenonT(60), <1>1, <1>8, <1>9, <1>10 DEF TimelineInv

\* checkpoint: a checkpoint at the head lies on the way to it.
LEMMA CheckpointDeviceTimeline ==
    ASSUME TimelineInv, NEW d, CheckpointDevice(d)
    PROVE  TimelineInv'
<1> DEFINE h == device_heads[d]
           k0 == [id |-> next_checkpoint_id, owner |-> d, commit_seq |-> h.latest_commit,
                  roots |-> h.shard_roots]
<1>1. TypeOK'
  BY ZenonT(60), CheckpointDeviceType DEF TimelineInv
<1>2. /\ d \in Live /\ checkpoints' = checkpoints \cup {k0}
      /\ next_commit_seq' = next_commit_seq /\ next_device_id' = next_device_id
      /\ device_heads' = device_heads /\ deleted_device_heads' = deleted_device_heads
      /\ device_specs' = device_specs
      /\ shard_commits' = shard_commits /\ fork_records' = fork_records
  BY ZenonT(60) DEF CheckpointDevice, InsertCheckpoint, devices
<1>3. /\ checkpoints \subseteq Checkpoint /\ shard_commits \subseteq ShardCommit
      /\ fork_records \subseteq ForkRecord
      /\ device_heads \in [Live -> Head] /\ next_checkpoint_id \in Nat /\ d \in Nat
      /\ next_commit_seq \in Nat
  BY <1>2, ConstantsAssumption DEF TimelineInv, TypeOK
<1>4. h \in Head /\ h.latest_commit \in Nat /\ h.latest_commit < next_commit_seq
  BY ZenonT(60), <1>2, <1>3 DEF Head, TimelineInv, OwnersKnown
<1>5. /\ k0 \in Checkpoint /\ k0.owner = d /\ k0.commit_seq = h.latest_commit
      /\ k0.roots = h.shard_roots
  BY ZenonT(60), <1>3, <1>4 DEF Checkpoint, Head
<1> HIDE DEF k0, h
<1>6. \A e, b : OwnsItsPast(e, b)' <=> OwnsItsPast(e, b)
  BY ZenonT(60), <1>2 DEF OwnsItsPast, Live, Deleted
<1>7. OwnersKnown'
  <2>1. OwnsItsPast(k0.owner, k0.commit_seq)
    BY SMTT(60), <1>2, <1>4, <1>5 DEF OwnsItsPast, h
  <2>2. \A k \in checkpoints' : OwnsItsPast(k.owner, k.commit_seq)'
    BY ZenonT(60), <2>1, <1>2, <1>6 DEF TimelineInv, OwnersKnown
  <2>3. \A m \in shard_commits' : OwnsItsPast(m.device, m.commit_seq)'
    BY ZenonT(60), <1>2, <1>6 DEF TimelineInv, OwnersKnown
  <2>4. \A f \in fork_records' : OwnsItsPast(f.target, f.fork_seq)'
    BY ZenonT(60), <1>2, <1>6 DEF TimelineInv, OwnersKnown
  <2> QED
    BY ZenonT(60), <2>2, <2>3, <2>4, <1>2 DEF TimelineInv, OwnersKnown, Live, Deleted
<1>8. AllChained'
  <2> DEFINE ms == shard_commits
  <2>1. Chained(ms, checkpoints, device_heads, deleted_device_heads, current_commit_seq)
    BY ZenonT(60) DEF TimelineInv, AllChained
  <2>2. \A k \in checkpoints : k.owner = d => /\ k.commit_seq <= h.latest_commit
                                              /\ Leads(ms, k, h.latest_commit, h.shard_roots)
    BY ZenonT(60), <2>1, <1>2 DEF Chained, TimelineInv, OwnersKnown, OwnsItsPast, Live, h
  <2>3. d \notin Deleted
    BY ZenonT(60), <1>2 DEF TimelineInv, OwnersKnown
  <2>4. Leads(ms, k0, h.latest_commit, h.shard_roots)
    BY ZenonT(60), <1>3, <1>5, LeadsToItself
  <2>5. ASSUME NEW k \in checkpoints, k.owner = d, h.latest_commit <= k.commit_seq
        PROVE  Leads(ms, k0, k.commit_seq, k.roots)
    <3>1. k.commit_seq = h.latest_commit /\ k \in Checkpoint
      BY SMTT(60), <2>2, <2>5, <1>3, <1>4 DEF Checkpoint
    <3>2. Leads(ms, k, k.commit_seq, k.roots) /\ Leads(ms, k, k.commit_seq, h.shard_roots)
      BY ZenonT(60), <3>1, <2>2, <2>5, <1>3, LeadsToItself
    <3>3. \A s \in Shards : k.roots[s] = h.shard_roots[s]
      BY ZenonT(60), <3>2 DEF Leads
    <3> QED
      BY SMTT(60), <3>1, <3>3, <2>4 DEF Leads
  <2>6. \A k \in checkpoints' : \A j \in checkpoints' :
          k.owner = j.owner /\ k.commit_seq <= j.commit_seq
            => Leads(ms, k, j.commit_seq, j.roots)
    BY ZenonT(60), <2>1, <2>2, <2>4, <2>5, <1>2, <1>5 DEF Chained
  <2>7. \A k \in checkpoints' : k.owner \in Live =>
          Leads(ms, k, device_heads[k.owner].latest_commit, device_heads[k.owner].shard_roots)
    BY ZenonT(60), <2>1, <2>4, <1>2, <1>5 DEF Chained, Live, h
  <2>8. \A k \in checkpoints' : k.owner \in Deleted =>
          Leads(ms, k, current_commit_seq, deleted_device_heads[k.owner].shard_roots)
    BY ZenonT(60), <2>1, <2>3, <1>2, <1>5 DEF Chained, Deleted
  <2>9. current_commit_seq' = current_commit_seq
    BY <1>2 DEF current_commit_seq
  <2> QED
    BY ZenonT(60), <2>6, <2>7, <2>8, <2>9, <1>2 DEF AllChained, Chained, Live, Deleted
<1>9. ForkStartsAtFork'
  <2> SUFFICES ASSUME NEW f \in fork_records, NEW b \in TimelineCommits(f.target)'
               PROVE  f.fork_seq <= b
    BY ZenonT(60), <1>2 DEF ForkStartsAtFork
  <2>1. CASE b \in TimelineCommits(f.target)
    BY ZenonT(60), <2>1 DEF TimelineInv, ForkStartsAtFork
  <2>2. CASE b \notin TimelineCommits(f.target)
    <3>1. f.target = d /\ b = h.latest_commit
      BY ZenonT(60), <2>2, <1>2, <1>5 DEF TimelineCommits, CheckpointsOf
    <3> QED
      BY ZenonT(60), <3>1, <1>2 DEF TimelineInv, OwnersKnown, OwnsItsPast, h
  <2> QED
    BY ZenonT(60), <2>1, <2>2
<1> QED
  BY ZenonT(60), <1>1, <1>7, <1>8, <1>9 DEF TimelineInv

\* Commits that start from the roots replay has reached lead on to their new roots.
LEMMA PublishLeads ==
    ASSUME NEW ms \in SUBSET ShardCommit, NEW ns \in SUBSET ShardCommit, NEW k \in Checkpoint,
           NEW n \in Nat, NEW last \in Nat, last < n, k.commit_seq <= last,
           \A m \in ms : m.device = k.owner => m.commit_seq <= last,
           NEW old, NEW new, Leads(ms, k, last, old),
           \A m \in ns : /\ m.device = k.owner /\ m.commit_seq = n
                         /\ m.old_root = old[m.shard] /\ m.new_root = new[m.shard],
           \A s \in Shards : (\E m \in ns : m.shard = s) \/ new[s] = old[s]
    PROVE  Leads(ms \cup ns, k, n, new)
<1> DEFINE all == ms \cup ns
<1>1. /\ k.commit_seq \in Nat /\ all \in SUBSET ShardCommit
      /\ \A m \in all : m.commit_seq \in Nat /\ m.shard \in Shards
  BY ZenonT(60) DEF Checkpoint, ShardCommit
<1>2. ASSUME NEW s \in Shards, NEW b \in Nat, b < n
      PROVE  RootAt(all, k, s, b) = RootAt(ms, k, s, b)
  <2>1. \A m \in ShardCommit :
            m.device = k.owner /\ k.commit_seq < m.commit_seq /\ m.commit_seq <= b
              => (m \in all <=> m \in ms)
    <3>1. \A m \in ns : ~ (m.commit_seq <= b)
      BY <1>2
    <3> QED
      BY ZenonT(60), <3>1
  <2>2. all \in SUBSET ShardCommit
    BY ZenonT(60), <1>1
  <2> HIDE DEF all
  <2> QED
    BY <2>1, <2>2, SameCommits
<1>3. n - 1 \in Nat /\ last <= n - 1
  BY SMTT(60)
<1>4. Leads(ms, k, n - 1, old)
  BY ZenonT(60), <1>3, NoLaterCommit
<1>5. \A s \in Shards : RootAt(all, k, s, n - 1) = old[s]
  BY SMTT(60), <1>2, <1>3, <1>4 DEF Leads
<1>6. ASSUME NEW s \in Shards, NEW m \in Stretch(all, k.owner, s, k.commit_seq, n)
      PROVE  m.old_root = RootAt(all, k, s, m.commit_seq - 1)
  <2>1. m \in all /\ m.device = k.owner /\ m.shard = s /\ k.commit_seq < m.commit_seq
        /\ m.commit_seq \in Nat
    BY ZenonT(60), <1>1 DEF Stretch
  <2>2. CASE m \in ns
    BY ZenonT(60), <2>1, <2>2, <1>5
  <2>3. CASE m \in ms
    <3>1. m.commit_seq <= last /\ m.commit_seq - 1 \in Nat /\ m.commit_seq - 1 < n
      BY SMTT(60), <2>1, <2>3, <1>1
    <3>2. m \in Stretch(ms, k.owner, s, k.commit_seq, last)
      BY ZenonT(60), <2>1, <2>3, <3>1 DEF Stretch
    <3>3. m.old_root = RootAt(ms, k, s, m.commit_seq - 1)
      BY ZenonT(60), <3>2 DEF Leads, Connects
    <3> QED
      BY ZenonT(60), <3>1, <3>3, <1>2
  <2> QED
    BY ZenonT(60), <2>1, <2>2, <2>3
<1>7. ASSUME NEW s \in Shards PROVE RootAt(all, k, s, n) = new[s]
  <2> DEFINE S == Stretch(all, k.owner, s, k.commit_seq, n)
             T == Stretch(all, k.owner, s, k.commit_seq, n - 1)
  <2>1. CASE \E m \in ns : m.shard = s
    <3>1. PICK m0 \in ns : m0.shard = s
      BY ZenonT(60), <2>1
    <3>2. m0 \in S /\ m0.commit_seq = n
      BY SMTT(60), <3>1, <1>1 DEF Stretch
    <3>3. \A m \in S : m.commit_seq <= n /\ m.commit_seq \in Nat /\ m \in all /\ m.shard = s
                       /\ m.device = k.owner
      BY ZenonT(60), <1>1 DEF Stretch
    <3> HIDE DEF S
    <3>4. Last(S) \in S /\ \A m \in S : m.commit_seq <= Last(S).commit_seq
      BY ZenonT(60), <3>2, <3>3 DEF Last
    <3>5. Last(S).commit_seq = n
      BY SMTT(60), <3>2, <3>3, <3>4
    <3>6. Last(S) \in ns
      BY SMTT(60), <3>3, <3>4, <3>5
    <3>7. Last(S).new_root = new[s]
      BY ZenonT(60), <3>3, <3>4, <3>6
    <3> QED
      BY ZenonT(60), <3>2, <3>7 DEF RootAt, S
  <2>2. CASE ~ \E m \in ns : m.shard = s
    <3>1. S = T
      BY <2>2, <1>1, <1>3 DEF Stretch
    <3>2. RootAt(all, k, s, n) = RootAt(all, k, s, n - 1)
      BY ZenonT(60), <3>1 DEF RootAt
    <3> QED
      BY ZenonT(60), <3>2, <2>2, <1>5
  <2> QED
    BY ZenonT(60), <2>1, <2>2
<1> QED
  BY ZenonT(60), <1>6, <1>7 DEF Leads, Connects

\* publish_commit_group: the new roots follow on the roots the head had.
LEMMA PublishTimeline ==
    ASSUME TimelineInv, NEW w \in Writers, PublishCommitGroup(w)
    PROVE  TimelineInv'
<1> DEFINE ed == edits[w]
           ss == EditedShards(w)
<1>1. TypeOK'
  BY ZenonT(60), PublishType DEF TimelineInv
<1>2. PICK n \in Nat \ {0} : n = next_commit_seq
  BY ZenonT(60) DEF TimelineInv, TypeOK
<1>3. PICK d : d = edits[w].device
  BY ZenonT(60)
<1>4. /\ d \in Live
      /\ \A s \in ss : device_heads[d].shard_roots[s] = ed.old[s]
      /\ next_commit_seq' = n + 1
      /\ device_heads' = [device_heads EXCEPT ![d] =
            [shard_roots |-> [s \in Shards |-> IF s \in ss THEN ed.new[s]
                                               ELSE device_heads[d].shard_roots[s]],
             latest_commit |-> n]]
      /\ shard_commits' = shard_commits \cup
            {[commit_seq |-> n, device |-> d, shard |-> s,
              old_root |-> ed.old[s], new_root |-> ed.new[s]] : s \in ss}
      /\ next_device_id' = next_device_id /\ device_specs' = device_specs
      /\ deleted_device_heads' = deleted_device_heads
      /\ checkpoints' = checkpoints /\ fork_records' = fork_records
  BY <1>2, <1>3, ZenonT(60) DEF PublishCommitGroup, CanPublish, AllocCommitSeq
<1>5. PICK ns : ns = {[commit_seq |-> n, device |-> d, shard |-> s,
                       old_root |-> ed.old[s], new_root |-> ed.new[s]] : s \in ss}
  BY ZenonT(60)
<1>6. PICK new : new = [s \in Shards |-> IF s \in ss THEN ed.new[s]
                                          ELSE device_heads[d].shard_roots[s]]
  BY ZenonT(60)
<1>7. PICK old : old = device_heads[d].shard_roots
  BY SMTT(60)
<1>8. /\ checkpoints \subseteq Checkpoint /\ shard_commits \subseteq ShardCommit
      /\ fork_records \subseteq ForkRecord
      /\ device_heads \in [Live -> Head] /\ deleted_device_heads \in [Deleted -> Head]
      /\ next_device_id \in Nat /\ shard_commits' \subseteq ShardCommit
  BY ZenonT(60), <1>1 DEF TimelineInv, TypeOK
<1>9. ss \subseteq Shards
  BY ZenonT(60) DEF EditedShards
<1>10. /\ \A m \in ns : /\ m.device = d /\ m.commit_seq = n
                        /\ m.old_root = old[m.shard] /\ m.new_root = new[m.shard]
       /\ \A s \in Shards : (\E m \in ns : m.shard = s) \/ new[s] = old[s]
  <2>1. \A s \in ss : old[s] = ed.old[s] /\ new[s] = ed.new[s] /\ s \in Shards
    BY ZenonT(60), <1>4, <1>6, <1>7, <1>9
  <2>2. \A s \in Shards \ ss : new[s] = old[s]
    BY ZenonT(60), <1>6, <1>7
  <2> HIDE DEF ed, ss
  <2>3. ASSUME NEW m \in ns
        PROVE  /\ m.device = d /\ m.commit_seq = n
               /\ m.old_root = old[m.shard] /\ m.new_root = new[m.shard]
    <3>1. PICK s \in ss : m = [commit_seq |-> n, device |-> d, shard |-> s,
                               old_root |-> ed.old[s], new_root |-> ed.new[s]]
      BY ZenonT(60), <1>5
    <3> QED
      BY ZenonT(60), <3>1, <2>1
  <2>4. ASSUME NEW s \in ss PROVE \E m \in ns : m.shard = s
    <3> DEFINE m0 == [commit_seq |-> n, device |-> d, shard |-> s,
                      old_root |-> ed.old[s], new_root |-> ed.new[s]]
    <3>1. m0 \in ns
      BY ZenonT(60), <1>5
    <3>2. m0.shard = s
      BY ZenonT(60)
    <3> QED
      BY ZenonT(60), <3>1, <3>2
  <2> QED
    BY ZenonT(60), <2>2, <2>3, <2>4
<1> HIDE DEF ed, ss
<1>11. /\ Live' = Live /\ Deleted' = Deleted
       /\ device_heads'[d].shard_roots = new /\ device_heads'[d].latest_commit = n
       /\ \A e \in Live \ {d} : device_heads'[e] = device_heads[e]
       /\ shard_commits' = shard_commits \cup ns
  <2>1. shard_commits' = shard_commits \cup ns
    BY ZenonT(60), <1>4, <1>5
  <2>2. device_heads' = [device_heads EXCEPT ![d] = [shard_roots |-> new, latest_commit |-> n]]
    BY ZenonT(60), <1>4, <1>6
  <2>3. Deleted' = Deleted
    BY ZenonT(60), <1>4 DEF Deleted
  <2> QED
    BY SMTT(60), <2>1, <2>2, <2>3, <1>4, <1>8 DEF Live
<1>12. /\ next_commit_seq' = n + 1 /\ next_device_id' = next_device_id
       /\ device_specs' = device_specs /\ deleted_device_heads' = deleted_device_heads
       /\ checkpoints' = checkpoints /\ fork_records' = fork_records
       /\ d \in Live
  BY ZenonT(60), <1>4
<1>13. /\ OwnersKnown
       /\ Chained(shard_commits, checkpoints, device_heads, deleted_device_heads, n - 1)
       /\ ForkStartsAtFork
  BY ZenonT(60), <1>2 DEF TimelineInv, AllChained, current_commit_seq
<1>14. ASSUME NEW e, NEW b \in Nat, OwnsItsPast(e, b) PROVE OwnsItsPast(e, b)'
  <2>1. e \in Live \cup Deleted /\ b < n /\ (e \in Live => b <= device_heads[e].latest_commit)
    BY ZenonT(60), <1>14, <1>2 DEF OwnsItsPast
  <2>2. e \in Live' \cup Deleted'
    BY ZenonT(60), <2>1, <1>11
  <2>3. b < next_commit_seq' /\ b <= n
    BY SMTT(60), <2>1, <1>12
  <2>4. e \in Live' => b <= device_heads'[e].latest_commit
    BY ZenonT(60), <2>1, <2>3, <1>11
  <2> QED
    BY ZenonT(60), <2>2, <2>3, <2>4 DEF OwnsItsPast
<1>15. \A e \in Live : device_heads[e].latest_commit \in Nat /\ device_heads[e].latest_commit < n
  BY ZenonT(60), <1>2, <1>8, <1>13 DEF OwnersKnown, Head
<1>16. OwnersKnown'
  <2>1. /\ Live' \cap Deleted' = {}
        /\ device_specs' = Live' \cup Deleted'
        /\ \A e \in Live' \cup Deleted' : e < next_device_id'
    BY ZenonT(60), <1>11, <1>12, <1>13 DEF OwnersKnown
  <2>2. ASSUME NEW e \in Live' PROVE device_heads'[e].latest_commit < next_commit_seq'
    <3>1. e \in Live /\ next_commit_seq' = n + 1
      BY ZenonT(60), <1>11, <1>12
    <3>2. CASE e = d
      BY SMTT(60), <3>1, <3>2, <1>11
    <3>3. CASE e # d
      <4>1. device_heads'[e] = device_heads[e]
        BY ZenonT(60), <3>1, <3>3, <1>11
      <4> QED
        BY SMTT(60), <3>1, <4>1, <1>15
    <3> QED
      BY ZenonT(60), <3>2, <3>3
  <2>3. ASSUME NEW e \in Deleted' PROVE deleted_device_heads'[e].latest_commit < next_commit_seq'
    <3>1. /\ deleted_device_heads[e].latest_commit \in Nat
          /\ deleted_device_heads[e].latest_commit < n
      BY ZenonT(60), <1>2, <1>8, <1>11, <1>13 DEF OwnersKnown, Head
    <3> QED
      BY SMTT(60), <3>1, <1>12
  <2>4. ASSUME NEW k \in checkpoints' PROVE OwnsItsPast(k.owner, k.commit_seq)'
    <3>1. k.commit_seq \in Nat /\ OwnsItsPast(k.owner, k.commit_seq)
      BY ZenonT(60), <1>8, <1>12, <1>13 DEF OwnersKnown, Checkpoint
    <3> QED
      BY ZenonT(60), <3>1, <1>14
  <2>5. ASSUME NEW m \in shard_commits' PROVE OwnsItsPast(m.device, m.commit_seq)'
    <3>1. CASE m \in shard_commits
      <4>1. m.commit_seq \in Nat /\ OwnsItsPast(m.device, m.commit_seq)
        BY ZenonT(60), <3>1, <1>8, <1>13 DEF OwnersKnown, ShardCommit
      <4> QED
        BY ZenonT(60), <4>1, <1>14
    <3>2. CASE m \in ns
      <4>1. m.device = d /\ m.commit_seq = n
        BY ZenonT(60), <3>2, <1>10
      <4>2. n < next_commit_seq' /\ d \in Live' /\ n <= device_heads'[d].latest_commit
        BY SMTT(60), <1>11, <1>12
      <4> QED
        BY ZenonT(60), <4>1, <4>2 DEF OwnsItsPast
    <3> QED
      BY ZenonT(60), <3>1, <3>2, <1>11
  <2>6. ASSUME NEW f \in fork_records' PROVE OwnsItsPast(f.target, f.fork_seq)'
    <3>1. f.fork_seq \in Nat /\ OwnsItsPast(f.target, f.fork_seq)
      BY ZenonT(60), <1>8, <1>12, <1>13 DEF OwnersKnown, ForkRecord
    <3> QED
      BY ZenonT(60), <3>1, <1>14
  <2> QED
    BY ZenonT(60), <2>1, <2>2, <2>3, <2>4, <2>5, <2>6 DEF OwnersKnown
<1>17. /\ ns \subseteq ShardCommit
       /\ \A m \in shard_commits : m.commit_seq \in Nat /\ m.commit_seq < n
       /\ \A m \in shard_commits : m.device = d => m.commit_seq <= device_heads[d].latest_commit
       /\ \A k \in checkpoints : k.commit_seq \in Nat /\ k.commit_seq < n
       /\ \A k \in checkpoints : k.owner = d => k.commit_seq <= device_heads[d].latest_commit
  <2>1. ns \subseteq ShardCommit
    BY ZenonT(60), <1>8, <1>11
  <2>2. \A m \in shard_commits : m.commit_seq \in Nat /\ OwnsItsPast(m.device, m.commit_seq)
    BY ZenonT(60), <1>8, <1>13 DEF OwnersKnown, ShardCommit
  <2>3. \A k \in checkpoints : k.commit_seq \in Nat /\ OwnsItsPast(k.owner, k.commit_seq)
    BY ZenonT(60), <1>8, <1>13 DEF OwnersKnown, Checkpoint
  <2> QED
    BY ZenonT(60), <2>1, <2>2, <2>3, <1>2, <1>12 DEF OwnsItsPast
<1>18. ASSUME NEW k \in checkpoints, NEW b \in Nat, b < n, NEW roots,
              Leads(shard_commits, k, b, roots)
       PROVE  Leads(shard_commits \cup ns, k, b, roots)
  <2>1. \A m \in ShardCommit :
            m.commit_seq <= b => (m \in shard_commits <=> m \in shard_commits \cup ns)
    BY SMTT(60), <1>18, <1>10
  <2>2. k \in Checkpoint /\ shard_commits \cup ns \in SUBSET ShardCommit
    BY ZenonT(60), <1>8, <1>17
  <2> QED
    BY ZenonT(60), <2>1, <2>2, <1>8, <1>18, SameCommits
<1>19. AllChained'
  <2> DEFINE ms == shard_commits
             all == shard_commits \cup ns
  <2>1. ASSUME NEW k \in checkpoints, NEW j \in checkpoints,
               k.owner = j.owner, k.commit_seq <= j.commit_seq
        PROVE  Leads(all, k, j.commit_seq, j.roots)
    <3>1. Leads(ms, k, j.commit_seq, j.roots)
      BY ZenonT(60), <2>1, <1>13 DEF Chained
    <3> QED
      BY ZenonT(60), <3>1, <1>17, <1>18
  <2>2. ASSUME NEW k \in checkpoints, k.owner \in Live, k.owner # d
        PROVE  Leads(all, k, device_heads'[k.owner].latest_commit,
                     device_heads'[k.owner].shard_roots)
    <3>1. Leads(ms, k, device_heads[k.owner].latest_commit, device_heads[k.owner].shard_roots)
      BY ZenonT(60), <2>2, <1>13 DEF Chained, Live
    <3>2. device_heads'[k.owner] = device_heads[k.owner]
      BY ZenonT(60), <2>2, <1>11
    <3> QED
      BY ZenonT(60), <3>1, <3>2, <2>2, <1>15, <1>18
  <2>3. ASSUME NEW k \in checkpoints, k.owner = d
        PROVE  Leads(all, k, n, new)
    <3>1. Leads(ms, k, device_heads[d].latest_commit, old)
      BY ZenonT(60), <2>3, <1>7, <1>12, <1>13 DEF Chained, Live
    <3>2. device_heads[d].latest_commit \in Nat /\ device_heads[d].latest_commit < n
      BY ZenonT(60), <1>12, <1>15
    <3>3. k \in Checkpoint /\ k.commit_seq <= device_heads[d].latest_commit
      BY ZenonT(60), <2>3, <1>8, <1>17
    <3>4. \A m \in ms : m.device = k.owner => m.commit_seq <= device_heads[d].latest_commit
      BY ZenonT(60), <2>3, <1>17
    <3>5. \A m \in ns : /\ m.device = k.owner /\ m.commit_seq = n
                        /\ m.old_root = old[m.shard] /\ m.new_root = new[m.shard]
      BY ZenonT(60), <2>3, <1>10
    <3>6. ms \in SUBSET ShardCommit /\ ns \in SUBSET ShardCommit /\ n \in Nat
      BY ZenonT(60), <1>8, <1>17
    <3>7. \A s \in Shards : (\E m \in ns : m.shard = s) \/ new[s] = old[s]
      BY ZenonT(60), <1>10
    <3>8. PICK last \in Nat : last = device_heads[d].latest_commit
      BY ZenonT(60), <3>2
    <3> HIDE DEF ms
    <3>9. Leads(ms \cup ns, k, n, new)
      BY ZenonT(60), <3>1, <3>2, <3>3, <3>4, <3>5, <3>6, <3>7, <3>8, PublishLeads
    <3> QED
      BY ZenonT(60), <3>9 DEF ms
  <2>4. ASSUME NEW k \in checkpoints, k.owner \in Deleted
        PROVE  Leads(all, k, n + 1 - 1, deleted_device_heads[k.owner].shard_roots)
    <3>1. Leads(ms, k, n - 1, deleted_device_heads[k.owner].shard_roots)
      BY ZenonT(60), <2>4, <1>13 DEF Chained, Deleted
    <3>2. n + 1 \in Nat \ {0} /\ n <= n + 1 /\ n + 1 - 1 \in Nat
      BY SMTT(60)
    <3>3. k \in Checkpoint /\ ms \in SUBSET ShardCommit /\ all \in SUBSET ShardCommit
      BY SMTT(60), <1>8, <1>17
    <3>4. Leads(ms, k, n + 1 - 1, deleted_device_heads[k.owner].shard_roots)
      <4>1. PICK b \in Nat \ {0} : b = n + 1
        BY ZenonT(60), <3>2
      <4>2. n <= b /\ \A m \in ms : m.commit_seq < n
        BY ZenonT(60), <3>2, <4>1, <1>17
      <4> HIDE DEF ms
      <4>3. Leads(ms, k, b - 1, deleted_device_heads[k.owner].shard_roots)
        BY ZenonT(60), <3>1, <3>3, <4>2, NowMoves
      <4> QED
        BY <4>1, <4>3
    <3>5. k.owner # d
      BY ZenonT(60), <2>4, <1>12, <1>13 DEF OwnersKnown
    <3>6. \A m \in ShardCommit : m.device = k.owner => (m \in ms <=> m \in all)
      BY ZenonT(60), <3>5, <1>10
    <3> QED
      BY ZenonT(60), <3>2, <3>3, <3>4, <3>6, SameCommits
  <2>5. current_commit_seq' = n + 1 - 1
    BY SMTT(60), <1>12 DEF current_commit_seq
  <2>6. \A k \in checkpoints : k.owner \in Live' =>
          Leads(all, k, device_heads'[k.owner].latest_commit, device_heads'[k.owner].shard_roots)
    BY ZenonT(60), <2>2, <2>3, <1>11
  <2>7. \A k \in checkpoints : k.owner \in Deleted' =>
          Leads(all, k, current_commit_seq', deleted_device_heads'[k.owner].shard_roots)
    BY ZenonT(60), <2>4, <2>5, <1>11, <1>12
  <2>8. shard_commits' = all /\ checkpoints' = checkpoints
    BY ZenonT(60), <1>11, <1>12
  <2> HIDE DEF all
  <2> QED
    BY ZenonT(60), <2>1, <2>6, <2>7, <2>8 DEF AllChained, Chained, Live, Deleted
<1>20. ForkStartsAtFork'
  <2> SUFFICES ASSUME NEW f \in fork_records, NEW b \in TimelineCommits(f.target)'
               PROVE  f.fork_seq <= b
    BY ZenonT(60), <1>12 DEF ForkStartsAtFork
  <2>1. CASE b \in TimelineCommits(f.target)
    BY ZenonT(60), <2>1, <1>13 DEF ForkStartsAtFork
  <2>2. CASE b \notin TimelineCommits(f.target)
    <3>1. b = n
      BY ZenonT(60), <2>2, <1>10, <1>11, <1>12 DEF TimelineCommits, CheckpointsOf
    <3>2. f.fork_seq \in Nat /\ f.fork_seq < n
      BY ZenonT(60), <1>2, <1>8, <1>13 DEF OwnersKnown, OwnsItsPast, ForkRecord
    <3> QED
      BY SMTT(60), <3>1, <3>2
  <2> QED
    BY ZenonT(60), <2>1, <2>2
<1> QED
  BY ZenonT(60), <1>1, <1>16, <1>19, <1>20 DEF TimelineInv

=============================================================================
