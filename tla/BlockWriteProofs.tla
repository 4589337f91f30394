-------------------------- MODULE BlockWriteProofs --------------------------
(***************************************************************************)
(* What BlockWritePath keeps for any number of writers, devices, nodes and *)
(* segments and every set of retention policies: its types, the agreement  *)
(* of catalog and stored bytes, and that no step of any interleaving takes *)
(* a node from a recorded tree.                                            *)
(***************************************************************************)
EXTENDS BlockWritePath, MetadataPlaneTypes

\* The types of the segments' half of the state; writes own segments that were
\* given out.
SegmentTypes ==
    /\ next_segment_id \in 1 .. MaxSegment + 1
    /\ catalog \in [SegmentId -> SegmentLifecycleState \cup {"Absent"}]
    /\ segment_store \subseteq SegmentId
    /\ reclaiming \in SegmentId \cup {0}
    /\ writes \in [Writers -> Write]
    /\ \A w \in Writers : writes[w].segment < next_segment_id

\* A segment belongs to one write, and until its write has committed it the
\* catalog and the store are where the write left them: the custodian frees no
\* segment of a running write.
WriteOwnsSegment ==
    /\ \A v, w \in Writers : v # w /\ writes[v].segment # 0 =>
          writes[v].segment # writes[w].segment
    /\ \A w \in Writers :
          /\ writes[w].phase \in {"reserve", "begin", "store", "commit", "mark"} =>
                writes[w].segment # 0
          /\ At(w, "reserve") => catalog[writes[w].segment] = "Absent"
          /\ At(w, "begin") => catalog[writes[w].segment] = "Reserved"
          /\ At(w, "store") => catalog[writes[w].segment] = "Writing"
          /\ At(w, "commit") => /\ catalog[writes[w].segment] = "Writing"
                                /\ writes[w].segment \in segment_store

\* Numbers not given out yet are unused, and only freed entries are reclaimed.
CatalogBehind ==
    /\ \A g \in SegmentId : g >= next_segment_id => catalog[g] = "Absent"
    /\ reclaiming # 0 => catalog[reclaiming] = "Freed"

SegmentInv == SegmentTypes /\ WriteOwnsSegment /\ CatalogBehind /\ BytesFollowCatalog

\* The rest of the types.
PlaneTypes ==
    /\ TypeOK
    /\ \A n \in Stored : metadata_nodes[n].segments \subseteq SegmentId
    /\ segment_last_mark_epoch \in [SegmentId -> 0 .. MaxEpoch]
    /\ released_segments \subseteq SegmentId

\* The inductive invariant.
WriteInv == SegmentInv /\ PlaneTypes

-----------------------------------------------------------------------------
(* The segments' half.                                                       *)

\* A running write's segment is a number the catalog knows.
LEMMA OwnSegment ==
    ASSUME SegmentInv, NEW w \in Writers
    PROVE  /\ writes[w] \in Write /\ writes[w].segment \in Nat
           /\ writes[w].segment # 0 => writes[w].segment \in SegmentId
<1>1. writes[w] \in Write /\ writes[w].segment \in Nat /\ writes[w].segment < next_segment_id
  BY DEF SegmentInv, SegmentTypes, Write
<1>2. next_segment_id \in 1 .. MaxSegment + 1 /\ MaxSegment \in Nat
  BY ZenonT(60), SegmentAssumption DEF SegmentInv, SegmentTypes
<1> QED
  BY <1>1, <1>2 DEF SegmentId

LEMMA NoWriteType == NoWrite \in Write /\ NoWrite.segment = 0 /\ NoWrite.phase = "idle"
<1>1. 0 \in Shards
  BY ConstantsAssumption DEF Shards
<1> QED
  BY ZenonT(60), <1>1 DEF NoWrite, Write, Phase

\* Steps that leave catalog and store alone.
LEMMA SegmentsKept ==
    ASSUME SegmentInv, UNCHANGED <<segments, reclaiming, writes>>
    PROVE  SegmentInv'
  BY ZenonT(60) DEF segments, SegmentInv, SegmentTypes, WriteOwnsSegment, At, CatalogBehind,
         BytesFollowCatalog

\* A step of a write that is past its segment, or gives up.
LEMMA QuietWriteStep ==
    ASSUME SegmentInv, NEW w \in Writers, NEW r \in Write,
           UNCHANGED <<segments, reclaiming>>,
           writes' = [writes EXCEPT ![w] = r],
           r.segment \in {0, writes[w].segment},
           r.phase \notin {"reserve", "begin", "store", "commit"},
           r.phase = "mark" => r.segment # 0
    PROVE  SegmentInv'
<1>1. UNCHANGED <<next_segment_id, catalog, segment_store, reclaiming>>
  BY DEF segments
<1>2. writes \in [Writers -> Write] /\ writes' \in [Writers -> Write]
  BY DEF SegmentInv, SegmentTypes
<1>3. writes'[w] = r /\ \A v \in Writers : v # w => writes'[v] = writes[v]
  BY ZenonT(60), <1>2
<1>4. SegmentTypes'
  <2>1. next_segment_id \in 1 .. MaxSegment + 1
    BY ZenonT(60) DEF SegmentInv, SegmentTypes
  <2>2. \A v \in Writers : writes'[v].segment < next_segment_id
    BY SMTT(60), <1>3, <2>1, SegmentAssumption DEF SegmentInv, SegmentTypes
  <2> QED
    BY ZenonT(60), <1>1, <1>2, <2>2 DEF SegmentInv, SegmentTypes
<1>5. WriteOwnsSegment'
  BY <1>1, <1>3 DEF SegmentInv, WriteOwnsSegment, At
<1> QED
  BY ZenonT(60), <1>1, <1>4, <1>5 DEF SegmentInv, CatalogBehind, BytesFollowCatalog

\* A write whose segment is moved on in the catalog; no other write has it.
LEMMA CatalogMoved ==
    ASSUME SegmentInv, NEW g \in SegmentId, NEW c \in SegmentLifecycleState,
           c # "Freed",
           UNCHANGED <<next_segment_id, segment_store, reclaiming>>,
           catalog' = [catalog EXCEPT ![g] = c],
           writes' \in [Writers -> Write],
           \A v \in Writers : writes'[v].segment \in {0, writes[v].segment},
           \A v \in Writers : writes[v].segment # g => writes'[v] = writes[v],
           \A v \in Writers : writes[v].segment = g =>
              /\ writes'[v].phase \notin {"reserve"}
              /\ writes'[v].phase = "begin" => c = "Reserved"
              /\ writes'[v].phase \in {"store", "commit"} => c = "Writing"
              /\ writes'[v].phase = "commit" => g \in segment_store
              /\ writes'[v].phase \in {"begin", "store", "commit", "mark"} =>
                    writes'[v].segment = g,
           g < next_segment_id,
           catalog[g] # "Freed",
           c \in {"DurablePendingMetadata", "Referenced", "Released"} => g \in segment_store
    PROVE  SegmentInv'
<1>1. catalog \in [SegmentId -> SegmentLifecycleState \cup {"Absent"}]
  BY ZenonT(60) DEF SegmentInv, SegmentTypes
<1>2. catalog'[g] = c /\ \A h \in SegmentId : h # g => catalog'[h] = catalog[h]
  BY ZenonT(60), <1>1
<1>3. g # 0
  BY SegmentAssumption DEF SegmentId
<1>4. SegmentTypes'
  <2>1. next_segment_id \in 1 .. MaxSegment + 1
    BY ZenonT(60) DEF SegmentInv, SegmentTypes
  <2>2. \A v \in Writers : writes'[v].segment < next_segment_id
    BY <2>1, SegmentAssumption DEF SegmentInv, SegmentTypes
  <2>3. catalog' \in [SegmentId -> SegmentLifecycleState \cup {"Absent"}]
    BY ZenonT(60), <1>1
  <2> QED
    BY ZenonT(60), <2>2, <2>3 DEF SegmentInv, SegmentTypes
<1>5. WriteOwnsSegment'
  <2>1. ASSUME NEW v \in Writers, NEW w \in Writers, v # w, writes'[v].segment # 0
        PROVE  writes'[v].segment # writes'[w].segment
    BY <2>1 DEF SegmentInv, WriteOwnsSegment
  <2>2. ASSUME NEW v \in Writers
        PROVE /\ writes'[v].phase \in {"reserve", "begin", "store", "commit", "mark"} =>
                    writes'[v].segment # 0
              /\ writes'[v].phase = "reserve" => catalog'[writes'[v].segment] = "Absent"
              /\ writes'[v].phase = "begin" => catalog'[writes'[v].segment] = "Reserved"
              /\ writes'[v].phase = "store" => catalog'[writes'[v].segment] = "Writing"
              /\ writes'[v].phase = "commit" => /\ catalog'[writes'[v].segment] = "Writing"
                                                /\ writes'[v].segment \in segment_store'
    <3>1. CASE writes[v].segment = g
      BY ZenonT(60), <1>2, <1>3, <3>1
    <3>2. CASE writes[v].segment # g
      <4>1. writes[v].segment # 0 =>
              catalog'[writes[v].segment] = catalog[writes[v].segment]
        BY ZenonT(60), <1>2, <3>2, OwnSegment
      <4> QED
        BY SMTT(60), <3>2, <4>1 DEF SegmentInv, WriteOwnsSegment, At
    <3> QED
      BY ZenonT(60), <3>1, <3>2
  <2> QED
    BY ZenonT(60), <2>1, <2>2 DEF WriteOwnsSegment, At
<1>6. CatalogBehind'
  <2>1. next_segment_id \in Nat /\ g \in Nat
    BY SegmentAssumption DEF SegmentInv, SegmentTypes, SegmentId
  <2> QED
    BY <1>2, <2>1 DEF SegmentInv, CatalogBehind, SegmentTypes
<1>7. BytesFollowCatalog'
  BY ZenonT(60), <1>2 DEF SegmentInv, BytesFollowCatalog, SegmentLifecycleState
<1> QED
  BY ZenonT(60), <1>4, <1>5, <1>6, <1>7 DEF SegmentInv

\* commit_block_batch allocates a number that no write and no entry has.
LEMMA BeginWriteSegments ==
    ASSUME SegmentInv, NEW w \in Writers, NEW d, NEW s \in Shards, BeginWrite(w, d, s)
    PROVE  SegmentInv'
<1> DEFINE g == next_segment_id
           r == [NoWrite EXCEPT !.phase = "reserve", !.shard = s, !.segment = g]
<1>1. /\ g <= MaxSegment /\ next_segment_id' = g + 1
      /\ writes' = [writes EXCEPT ![w] = r]
      /\ UNCHANGED <<catalog, segment_store, reclaiming>>
  BY ZenonT(60) DEF BeginWrite, custodians
<1>2. g \in 1 .. MaxSegment + 1 /\ MaxSegment \in Nat
  BY ZenonT(60), SegmentAssumption DEF SegmentInv, SegmentTypes
<1>3. g \in SegmentId /\ g # 0 /\ next_segment_id' \in 1 .. MaxSegment + 1
  BY <1>1, <1>2 DEF SegmentId
<1>4. r \in Write /\ r.phase = "reserve" /\ r.segment = g
  <2>1. g \in Nat
    BY <1>2
  <2>2. NoWrite \in Write
    BY ZenonT(60), NoWriteType
  <2> HIDE DEF g
  <2> QED
    BY ZenonT(60), <2>1, <2>2 DEF Write, Phase
<1>5. catalog[g] = "Absent"
  BY <1>2, <1>3 DEF SegmentInv, CatalogBehind
<1> HIDE DEF r
<1>6. writes \in [Writers -> Write] /\ writes' \in [Writers -> Write]
  BY ZenonT(60), <1>1, <1>4 DEF SegmentInv, SegmentTypes
<1>7. writes'[w] = r /\ \A v \in Writers : v # w => writes'[v] = writes[v]
  BY ZenonT(60), <1>1, <1>6
<1>8. \A v \in Writers : writes[v].segment \in Nat /\ writes[v].segment < g
  BY ZenonT(60), OwnSegment DEF SegmentInv, SegmentTypes
<1>9. SegmentTypes'
  <2>1. \A v \in Writers : writes'[v].segment < next_segment_id'
    BY SMTT(60), <1>1, <1>2, <1>4, <1>7, <1>8
  <2> QED
    BY ZenonT(60), <1>1, <1>3, <1>6, <2>1 DEF SegmentInv, SegmentTypes
<1>10. WriteOwnsSegment'
  <2>1. ASSUME NEW u \in Writers, NEW v \in Writers, u # v, writes'[u].segment # 0
        PROVE  writes'[u].segment # writes'[v].segment
    BY SMTT(60), <1>2, <1>4, <1>7, <1>8, <2>1 DEF SegmentInv, WriteOwnsSegment
  <2>2. ASSUME NEW v \in Writers
        PROVE /\ writes'[v].phase \in {"reserve", "begin", "store", "commit", "mark"} =>
                    writes'[v].segment # 0
              /\ writes'[v].phase = "reserve" => catalog'[writes'[v].segment] = "Absent"
              /\ writes'[v].phase = "begin" => catalog'[writes'[v].segment] = "Reserved"
              /\ writes'[v].phase = "store" => catalog'[writes'[v].segment] = "Writing"
              /\ writes'[v].phase = "commit" => /\ catalog'[writes'[v].segment] = "Writing"
                                                /\ writes'[v].segment \in segment_store'
    BY SMTT(60), <1>1, <1>3, <1>4, <1>5, <1>7 DEF SegmentInv, WriteOwnsSegment, At
  <2> QED
    BY ZenonT(60), <2>1, <2>2 DEF WriteOwnsSegment, At
<1>11. CatalogBehind'
  <2>1. \A h \in SegmentId : h >= next_segment_id' => h >= g
    BY <1>1, <1>2 DEF SegmentId
  <2> QED
    BY ZenonT(60), <1>1, <2>1 DEF SegmentInv, CatalogBehind
<1> QED
  BY ZenonT(60), <1>1, <1>9, <1>10, <1>11 DEF SegmentInv, BytesFollowCatalog

\* A write that gives up leaves its segment to the custodian.
LEMMA AbandonSegments ==
    ASSUME SegmentInv, NEW w \in Writers, UNCHANGED <<segments, reclaiming>>,
           writes' = [writes EXCEPT ![w] = NoWrite]
    PROVE  SegmentInv'
  BY ZenonT(60), NoWriteType, QuietWriteStep

\* The segment of a write between two phases, and the write after a step.
LEMMA GotoPhase ==
    ASSUME SegmentInv, NEW w \in Writers, NEW phase \in Phase, Goto(w, phase)
    PROVE  /\ writes' \in [Writers -> Write]
           /\ writes'[w].phase = phase /\ writes'[w].segment = writes[w].segment
           /\ \A v \in Writers : v # w => writes'[v] = writes[v]
           /\ writes' = [writes EXCEPT ![w] = [writes[w] EXCEPT !.phase = phase]]
           /\ [writes[w] EXCEPT !.phase = phase] \in Write
<1>1. writes \in [Writers -> Write] /\ writes[w] \in Write
  BY ZenonT(60) DEF SegmentInv, SegmentTypes
<1>2. writes' = [writes EXCEPT ![w] = [writes[w] EXCEPT !.phase = phase]]
  BY ZenonT(60), <1>1 DEF Goto
<1>3. [writes[w] EXCEPT !.phase = phase] \in Write
  BY ZenonT(60), <1>1 DEF Write
<1> QED
  BY ZenonT(60), <1>1, <1>2, <1>3 DEF Write

\* Reserve, begin and commit of the write's own segment.
LEMMA CatalogStepSegments ==
    ASSUME SegmentInv, NEW w \in Writers,
           ReserveSegment(w) \/ BeginSegmentWrite(w) \/ CommitSegment(w)
    PROVE  SegmentInv'
<1> DEFINE g == writes[w].segment
<1>0. writes[w].phase \in {"reserve", "begin", "commit"}
  BY ZenonT(60) DEF ReserveSegment, BeginSegmentWrite, CommitSegment, CatalogStep, At
<1>1. g \in SegmentId /\ g # 0 /\ g < next_segment_id
  BY ZenonT(60), <1>0, OwnSegment DEF SegmentInv, SegmentTypes, WriteOwnsSegment
<1>2. UNCHANGED <<next_segment_id, segment_store, reclaiming>>
  BY DEF ReserveSegment, BeginSegmentWrite, CommitSegment, CatalogStep, custodians
<1>3. CASE writes' = [writes EXCEPT ![w] = NoWrite] /\ UNCHANGED catalog
  BY ZenonT(60), <1>2, <1>3, AbandonSegments DEF segments
<1>4. ASSUME NEW c \in SegmentLifecycleState, NEW phase \in Phase, c # "Freed",
             catalog' = [catalog EXCEPT ![g] = c], Goto(w, phase),
             phase # "reserve", phase # "mark",
             phase = "begin" => c = "Reserved",
             phase \in {"store", "commit"} => c = "Writing",
             phase # "commit",
             catalog[g] # "Freed",
             c \in {"DurablePendingMetadata", "Referenced", "Released"} => g \in segment_store
      PROVE  SegmentInv'
  <2>1. /\ writes' \in [Writers -> Write]
        /\ writes'[w].phase = phase /\ writes'[w].segment = writes[w].segment
        /\ \A v \in Writers : v # w => writes'[v] = writes[v]
    BY ZenonT(60), <1>4, GotoPhase
  <2>2. \A v \in Writers : writes[v].segment = g => v = w
    BY ZenonT(60), <1>1 DEF SegmentInv, WriteOwnsSegment
  <2> HIDE DEF g
  <2>3. \A v \in Writers : writes'[v].segment \in {0, writes[v].segment}
    BY ZenonT(60), <2>1
  <2>4. \A v \in Writers : writes[v].segment # g => writes'[v] = writes[v]
    BY ZenonT(60), <2>1 DEF g
  <2>5. \A v \in Writers : writes[v].segment = g =>
           /\ writes'[v].phase = phase
           /\ writes'[v].segment = g
    BY ZenonT(60), <2>1, <2>2
  <2>6. \A v \in Writers : writes[v].segment = g =>
              /\ writes'[v].phase \notin {"reserve"}
              /\ writes'[v].phase = "begin" => c = "Reserved"
              /\ writes'[v].phase \in {"store", "commit"} => c = "Writing"
              /\ writes'[v].phase = "commit" => g \in segment_store
              /\ writes'[v].phase \in {"begin", "store", "commit", "mark"} =>
                    writes'[v].segment = g
    BY ZenonT(60), <1>4, <2>5
  <2> QED
    BY ZenonT(60), <1>1, <1>2, <1>4, <2>1, <2>3, <2>4, <2>6, CatalogMoved
<1>5. CASE ReserveSegment(w)
  <2>1. catalog[g] = "Absent"
    BY ZenonT(60), <1>5 DEF ReserveSegment, CatalogStep, SegmentInv, WriteOwnsSegment
  <2>2. catalog' = [catalog EXCEPT ![g] = "Reserved"] /\ Goto(w, "begin")
    BY ZenonT(60), <1>5, <2>1 DEF ReserveSegment, CatalogStep
  <2> HIDE DEF g
  <2> QED
    BY ZenonT(60), <1>4, <2>1, <2>2 DEF Phase, SegmentLifecycleState
<1>6. CASE BeginSegmentWrite(w)
  <2>1. catalog[g] = "Reserved"
    BY ZenonT(60), <1>6 DEF BeginSegmentWrite, CatalogStep, SegmentInv, WriteOwnsSegment
  <2>2. catalog' = [catalog EXCEPT ![g] = "Writing"] /\ Goto(w, "store")
    BY ZenonT(60), <1>6, <2>1 DEF BeginSegmentWrite, CatalogStep
  <2> HIDE DEF g
  <2> QED
    BY ZenonT(60), <1>4, <2>1, <2>2 DEF Phase, SegmentLifecycleState
<1>7. CASE CommitSegment(w)
  <2>1. catalog[g] = "Writing" /\ g \in segment_store
    BY ZenonT(60), <1>7 DEF CommitSegment, CatalogStep, SegmentInv, WriteOwnsSegment
  <2>2. catalog' = [catalog EXCEPT ![g] = "DurablePendingMetadata"] /\ Goto(w, "edit")
    BY ZenonT(60), <1>7, <2>1 DEF CommitSegment, CatalogStep
  <2> HIDE DEF g
  <2> QED
    BY ZenonT(60), <1>4, <2>1, <2>2 DEF Phase, SegmentLifecycleState
<1> QED
  BY ZenonT(60), <1>5, <1>6, <1>7

\* The bytes arrive while the entry says Writing.
LEMMA StoreSegmentBytes ==
    ASSUME SegmentInv, NEW w \in Writers, StoreSegment(w)
    PROVE  SegmentInv'
<1> DEFINE g == writes[w].segment
<1>1. /\ At(w, "store") /\ Goto(w, "commit")
      /\ segment_store' = segment_store \cup {g}
      /\ UNCHANGED <<next_segment_id, catalog, reclaiming>>
  BY ZenonT(60) DEF StoreSegment, custodians
<1>2. g \in SegmentId /\ g # 0 /\ catalog[g] = "Writing"
  BY ZenonT(60), <1>1, OwnSegment DEF SegmentInv, WriteOwnsSegment, At
<1>3. /\ writes' \in [Writers -> Write]
      /\ writes'[w].phase = "commit" /\ writes'[w].segment = writes[w].segment
      /\ \A v \in Writers : v # w => writes'[v] = writes[v]
  BY ZenonT(60), <1>1, GotoPhase DEF Phase
<1>4. SegmentTypes'
  BY ZenonT(60), <1>1, <1>2, <1>3 DEF SegmentInv, SegmentTypes
<1>5. WriteOwnsSegment'
  BY SMTT(60), <1>1, <1>2, <1>3 DEF SegmentInv, WriteOwnsSegment, At
<1>6. BytesFollowCatalog'
  BY ZenonT(60), <1>1, <1>2 DEF SegmentInv, BytesFollowCatalog
<1> QED
  BY ZenonT(60), <1>1, <1>4, <1>5, <1>6 DEF SegmentInv, CatalogBehind

\* mark_segment_referenced moves a committed entry only.
LEMMA MarkReferencedSegments ==
    ASSUME SegmentInv, NEW w \in Writers, MarkReferenced(w)
    PROVE  SegmentInv'
<1> DEFINE g == writes[w].segment
<1>1. /\ At(w, "mark") /\ writes' = [writes EXCEPT ![w] = NoWrite]
      /\ UNCHANGED <<next_segment_id, segment_store, reclaiming>>
  BY ZenonT(60) DEF MarkReferenced, custodians
<1>2. g \in SegmentId /\ g # 0 /\ g < next_segment_id
  BY ZenonT(60), <1>1, OwnSegment DEF SegmentInv, SegmentTypes, WriteOwnsSegment, At
<1>3. CASE UNCHANGED catalog
  BY ZenonT(60), <1>1, <1>3, AbandonSegments DEF segments
<1>4. CASE /\ catalog[g] \in {"DurablePendingMetadata", "Referenced"}
           /\ catalog' = [catalog EXCEPT ![g] = "Referenced"]
  <2>1. g \in segment_store
    BY ZenonT(60), <1>2, <1>4 DEF SegmentInv, BytesFollowCatalog
  <2>2. writes \in [Writers -> Write] /\ writes' \in [Writers -> Write]
    BY ZenonT(60), <1>1, NoWriteType DEF SegmentInv, SegmentTypes
  <2>3. writes'[w] = NoWrite /\ \A v \in Writers : v # w => writes'[v] = writes[v]
    BY ZenonT(60), <1>1, <2>2
  <2>4. \A v \in Writers : writes[v].segment = g => v = w
    BY ZenonT(60), <1>2 DEF SegmentInv, WriteOwnsSegment
  <2> HIDE DEF g
  <2>5. \A v \in Writers : writes'[v].segment \in {0, writes[v].segment}
    BY ZenonT(60), <2>3, NoWriteType
  <2>6. \A v \in Writers : writes[v].segment # g => writes'[v] = writes[v]
    BY ZenonT(60), <2>3 DEF g
  <2>7. \A v \in Writers : writes[v].segment = g => writes'[v].phase = "idle"
    BY ZenonT(60), <2>3, <2>4, NoWriteType
  <2>8. "Referenced" \in SegmentLifecycleState
    BY DEF SegmentLifecycleState
  <2> QED
    BY ZenonT(60), <1>1, <1>2, <1>4, <2>1, <2>2, <2>5, <2>6, <2>7, <2>8, CatalogMoved
<1> QED
  BY ZenonT(60), <1>3, <1>4 DEF MarkReferenced

\* sweep_metadata_after_mark releases referenced entries only, and no write that
\* still has a phase before its commit owns one.
LEMMA ReleaseSegments ==
    ASSUME SegmentInv, NEW g \in SegmentId, ReleaseSegment(g)
    PROVE  SegmentInv'
<1>1. UNCHANGED <<next_segment_id, segment_store, reclaiming, writes>>
  BY ZenonT(60) DEF ReleaseSegment
<1>2. CASE catalog[g] # "Referenced"
  BY ZenonT(60), <1>1, <1>2, SegmentsKept DEF ReleaseSegment, segments
<1>3. CASE catalog[g] = "Referenced"
  <2>1. catalog' = [catalog EXCEPT ![g] = "Released"]
    BY ZenonT(60), <1>3 DEF ReleaseSegment
  <2>2. g \in segment_store /\ g < next_segment_id
    <3>1. next_segment_id \in Nat /\ g \in Nat
      BY SegmentAssumption DEF SegmentInv, SegmentTypes, SegmentId
    <3> QED
      BY <1>3, <3>1 DEF SegmentInv, BytesFollowCatalog, CatalogBehind
  <2>3. writes' \in [Writers -> Write]
    BY ZenonT(60), <1>1 DEF SegmentInv, SegmentTypes
  <2>4. \A v \in Writers : writes[v].segment = g =>
           writes[v].phase \notin {"reserve", "begin", "store", "commit"}
    BY ZenonT(60), <1>3 DEF SegmentInv, WriteOwnsSegment, At
  <2>5. "Released" \in SegmentLifecycleState
    BY DEF SegmentLifecycleState
  <2> QED
    BY ZenonT(60), <1>1, <1>3, <2>1, <2>2, <2>3, <2>4, <2>5, CatalogMoved
<1> QED
  BY ZenonT(60), <1>2, <1>3

\* run_custodian frees no entry of a write that is still storing its segment.
LEMMA FreeSegments ==
    ASSUME SegmentInv, NEW g \in SegmentId, FreeSegment(g)
    PROVE  SegmentInv'
<1>1. /\ reclaiming = 0 /\ Reclaimable(g)
      /\ catalog' = [catalog EXCEPT ![g] = "Freed"] /\ reclaiming' = g
      /\ UNCHANGED <<next_segment_id, segment_store, writes>>
  BY ZenonT(60) DEF FreeSegment
<1>2. catalog \in [SegmentId -> SegmentLifecycleState \cup {"Absent"}]
  BY ZenonT(60) DEF SegmentInv, SegmentTypes
<1>3. catalog'[g] = "Freed" /\ \A h \in SegmentId : h # g => catalog'[h] = catalog[h]
  BY ZenonT(60), <1>1, <1>2
<1>4. \A w \in Writers : writes[w].phase \in {"reserve", "begin", "store", "commit"} =>
         writes[w].segment # g
  BY ZenonT(60), <1>1 DEF SegmentInv, WriteOwnsSegment, At, Reclaimable, Ended
<1>5. SegmentTypes'
  BY ZenonT(60), <1>1, <1>2 DEF SegmentInv, SegmentTypes, SegmentLifecycleState
<1>6. WriteOwnsSegment'
  BY ZenonT(60), <1>1, <1>3, <1>4, OwnSegment DEF SegmentInv, WriteOwnsSegment, At
<1>7. CatalogBehind'
  BY ZenonT(60), <1>1, <1>3 DEF SegmentInv, CatalogBehind, Reclaimable
<1>8. BytesFollowCatalog'
  <2>1. 0 \notin SegmentId
    BY SegmentAssumption DEF SegmentId
  <2> QED
    BY ZenonT(60), <1>1, <1>3, <2>1 DEF SegmentInv, BytesFollowCatalog
<1> QED
  BY ZenonT(60), <1>5, <1>6, <1>7, <1>8 DEF SegmentInv

\* The bytes go after the entry.
LEMMA DeleteBytes ==
    ASSUME SegmentInv, DeleteSegmentBytes
    PROVE  SegmentInv'
<1>1. /\ reclaiming # 0 /\ reclaiming' = 0
      /\ segment_store' = segment_store \ {reclaiming}
      /\ UNCHANGED <<next_segment_id, catalog, writes>>
  BY ZenonT(60) DEF DeleteSegmentBytes
<1>2. catalog[reclaiming] = "Freed"
  BY ZenonT(60), <1>1 DEF SegmentInv, CatalogBehind
<1>3. SegmentTypes'
  BY ZenonT(60), <1>1 DEF SegmentInv, SegmentTypes
<1>4. WriteOwnsSegment'
  BY ZenonT(60), <1>1, <1>2 DEF SegmentInv, WriteOwnsSegment, At
<1>5. BytesFollowCatalog'
  BY ZenonT(60), <1>1, <1>2 DEF SegmentInv, BytesFollowCatalog
<1> QED
  BY ZenonT(60), <1>1, <1>3, <1>4, <1>5 DEF SegmentInv, CatalogBehind

-----------------------------------------------------------------------------
(* The plane's half.                                                         *)

\* An edit that ends changes nothing of the plane but the writer's own record.
LEMMA NoEditPlane ==
    ASSUME PlaneTypes, NEW w \in Writers, edits' = [edits EXCEPT ![w] = NoEdit],
           UNCHANGED <<counters, timeline, devices, store, segment_last_mark_epoch,
                       released_segments>>
    PROVE  PlaneTypes'
<1>1. TypeOK /\ edits' \in [Writers -> Edit]
  BY ZenonT(60), NoEditType DEF PlaneTypes
<1>2. TypeOK'
  BY ZenonT(60), <1>1 DEF counters, timeline, devices, store, TypeOK, Live, Deleted, Stored
<1> QED
  BY ZenonT(60), <1>2 DEF PlaneTypes, Stored, store

\* A step of the segments' half alone.
LEMMA PlaneKept ==
    ASSUME PlaneTypes, UNCHANGED <<vars, segment_last_mark_epoch, released_segments>>
    PROVE  PlaneTypes'
<1>1. UNCHANGED vars /\ UNCHANGED <<segment_last_mark_epoch, released_segments>>
  BY ZenonT(60)
<1>2. TypeOK'
  BY ZenonT(60), <1>1 DEF PlaneTypes, vars, counters, timeline, devices, store, TypeOK, Live,
     Deleted, Stored
<1> QED
  BY ZenonT(60), <1>1, <1>2 DEF PlaneTypes, vars, store, Stored

\* A new node with children and segments of their types keeps the types.
LEMMA NewNodeType ==
    ASSUME TypeOK, NEW node \in MetadataNode, AllocNodes(1),
           metadata_nodes' = With(metadata_nodes, next_metadata_node_id, node),
           edits' \in [Writers -> Edit],
           UNCHANGED <<next_device_id, next_commit_seq, next_checkpoint_id, next_gc_epoch,
                       timeline, devices, metadata_last_mark_epoch>>
    PROVE  TypeOK'
<1> DEFINE n == next_metadata_node_id
<1>1. n \in Nat \ {0} /\ n \in NodeId /\ next_metadata_node_id' \in Nat \ {0}
  BY SMTT(60), ConstantsAssumption DEF AllocNodes, TypeOK, NodeId
<1>2. Stored' \subseteq NodeId /\ metadata_nodes' \in [Stored' -> MetadataNode]
  <2>1. Stored \subseteq NodeId /\ metadata_nodes \in [Stored -> MetadataNode]
    BY DEF TypeOK
  <2> HIDE DEF n
  <2> QED
    BY ZenonT(60), <1>1, <2>1 DEF With, Stored, n
<1> QED
  BY ZenonT(60), <1>1, <1>2 DEF timeline, devices, TypeOK, Live, Deleted

\* The segments of a leaf after a write are numbers of segments.
LEMMA LeafSegmentsType ==
    ASSUME SegmentInv, NEW w \in Writers, NEW kept \in SUBSET SegmentId
    PROVE  LeafSegments(w, kept) \in SUBSET SegmentId /\ LeafSegments(w, kept) \in SUBSET Nat
<1>1. {writes[w].segment} \ {0} \subseteq SegmentId
  BY ZenonT(60), OwnSegment
<1>2. SegmentId \subseteq Nat
  BY SegmentAssumption DEF SegmentId
<1>3. LeafSegments(w, kept) \subseteq SegmentId
  BY ZenonT(60), <1>1 DEF LeafSegments
<1> QED
  BY ZenonT(60), <1>2, <1>3

\* The devices' operations create nodes without segments, or none.
LEMMA DeviceStepPlane ==
    ASSUME Numbered, PlaneTypes, DeviceStep, UNCHANGED <<segment_last_mark_epoch, released_segments>>
    PROVE  PlaneTypes'
<1>1. TypeOK /\ TypeOK'
  BY ZenonT(60), CreateDeviceType, ForkDeviceType, RestoreDeviceType, DeleteDeviceType,
     CheckpointDeviceType DEF DeviceStep, PlaneTypes
<1>2. \A n \in Stored' : metadata_nodes'[n].segments \subseteq SegmentId
  <2>1. CASE CreateDevice
    <3>1. PICK new : metadata_nodes' =
              [n \in Stored \cup new |->
                  IF n \in Stored THEN metadata_nodes[n]
                  ELSE [children |-> IF n - next_metadata_node_id \in Shards
                                     THEN EmptyLeaves(n - next_metadata_node_id) ELSE {},
                        segments |-> {}]]
      BY ZenonT(60), <2>1 DEF CreateDevice
    <3> QED
      BY ZenonT(60), <3>1 DEF Stored, PlaneTypes
  <2>2. CASE UNCHANGED metadata_nodes
    BY ZenonT(60), <2>2 DEF PlaneTypes, Stored
  <2>3. CASE \E d \in 1 .. MaxDevice :
                \/ \E t \in 1 .. MaxDevice : ForkDevice(d, t)
                \/ \E point \in RestorePoint : RestoreDevice(d, point)
    <3>1. \E d, roots : StartFrom(d, roots)
      BY ZenonT(60), <2>3 DEF ForkDevice, RestoreDevice
    <3> QED
      BY ZenonT(60), <2>2, <3>1 DEF StartFrom, store
  <2>4. CASE \E d \in 1 .. MaxDevice : DeleteDevice(d) \/ CheckpointDevice(d)
    BY ZenonT(60), <2>2, <2>4 DEF DeleteDevice, CheckpointDevice, store
  <2> QED
    BY ZenonT(60), <2>1, <2>3, <2>4 DEF DeviceStep
<1> QED
  BY ZenonT(60), <1>1, <1>2 DEF PlaneTypes

\* Adding a node whose segments are given out.
LEMMA WithSegments ==
    ASSUME NEW f, NEW k, NEW v, v.segments \subseteq SegmentId,
           \A n \in DOMAIN f : f[n].segments \subseteq SegmentId
    PROVE  \A n \in DOMAIN With(f, k, v) : With(f, k, v)[n].segments \subseteq SegmentId
  BY ZenonT(60) DEF With

\* A path copied under one lock.
LEMMA EditSinglePathPlane ==
    ASSUME WriteInv, NEW w \in Writers, NEW leaf, NEW kept \in SUBSET SegmentId,
           EditSinglePath(w, leaf, kept)
    PROVE  PlaneTypes'
<1> DEFINE new == LeafSegments(w, kept)
           s == writes[w].shard
<1>1. new \in SUBSET SegmentId /\ new \in SUBSET Nat
  BY ZenonT(60), LeafSegmentsType DEF WriteInv
<1>2. s \in Shards
  BY ZenonT(60), OwnSegment DEF WriteInv, Write
<1>3. EditShard(w, s, leaf, new) /\ UNCHANGED <<segment_last_mark_epoch, released_segments>>
  BY ZenonT(60) DEF EditSinglePath, custodians
<1> HIDE DEF new, s
<1>4. TypeOK'
  BY ZenonT(60), <1>1, <1>2, <1>3, EditShardType DEF WriteInv, PlaneTypes
<1>5. \A n \in Stored' : metadata_nodes'[n].segments \subseteq SegmentId
  <2>1. \E a, b, children :
           \/ metadata_nodes' = With(metadata_nodes, a, [children |-> {}, segments |-> new])
           \/ metadata_nodes' = With(With(metadata_nodes, a, [children |-> {}, segments |-> new]),
                                     b, [children |-> children, segments |-> {}])
    BY ZenonT(60), <1>3 DEF EditShard
  <2>2. PICK a, b, children :
           \/ metadata_nodes' = With(metadata_nodes, a, [children |-> {}, segments |-> new])
           \/ metadata_nodes' = With(With(metadata_nodes, a, [children |-> {}, segments |-> new]),
                                     b, [children |-> children, segments |-> {}])
    BY ZenonT(60), <2>1
  <2> DEFINE one == With(metadata_nodes, a, [children |-> {}, segments |-> new])
  <2>3. \A n \in DOMAIN one : one[n].segments \subseteq SegmentId
    BY ZenonT(60), <1>1, WithSegments DEF Stored, WriteInv, PlaneTypes
  <2> HIDE DEF one
  <2>4. CASE metadata_nodes' = one
    BY <2>3, <2>4 DEF Stored
  <2>5. CASE metadata_nodes' = With(one, b, [children |-> children, segments |-> {}])
    <3>1. \A n \in DOMAIN With(one, b, [children |-> children, segments |-> {}]) :
            With(one, b, [children |-> children, segments |-> {}])[n].segments \subseteq SegmentId
      BY ZenonT(60), <2>3, WithSegments
    <3> QED
      BY ZenonT(60), <2>5, <3>1 DEF Stored
  <2> QED
    BY ZenonT(60), <2>2, <2>4, <2>5 DEF one
<1> QED
  BY ZenonT(60), <1>3, <1>4, <1>5 DEF WriteInv, PlaneTypes

\* A leaf persisted on its own.
LEMMA PersistLeafPlane ==
    ASSUME WriteInv, NEW w \in Writers, NEW leaf, NEW kept \in SUBSET SegmentId,
           PersistLeaf(w, leaf, kept)
    PROVE  PlaneTypes'
<1> DEFINE new == LeafSegments(w, kept)
           node == [children |-> {}, segments |-> new]
<1>1. new \in SUBSET SegmentId /\ new \in SUBSET Nat
  BY ZenonT(60), LeafSegmentsType DEF WriteInv
<1>2. TypeOK /\ edits \in [Writers -> Edit]
  BY ZenonT(60) DEF WriteInv, PlaneTypes, TypeOK
<1>3. /\ UNCHANGED <<segment_last_mark_epoch, released_segments, edits>>
      /\ UNCHANGED <<next_device_id, next_commit_seq, next_checkpoint_id, next_gc_epoch,
                     timeline, devices, metadata_last_mark_epoch>>
  BY ZenonT(60) DEF PersistLeaf, custodians
<1>4. CASE AllocNodes(1) /\ metadata_nodes' = With(metadata_nodes, next_metadata_node_id, node)
  <2>1. node \in MetadataNode
    BY ZenonT(60), <1>1 DEF MetadataNode
  <2> HIDE DEF new
  <2>2. TypeOK'
    BY ZenonT(60), <1>2, <1>3, <1>4, <2>1, NewNodeType
  <2>3. \A n \in Stored' : metadata_nodes'[n].segments \subseteq SegmentId
    BY ZenonT(60), <1>1, <1>4 DEF With, Stored, WriteInv, PlaneTypes
  <2> QED
    BY ZenonT(60), <1>3, <2>2, <2>3 DEF WriteInv, PlaneTypes
<1>5. CASE UNCHANGED <<next_metadata_node_id, metadata_nodes>>
  <2>1. UNCHANGED <<vars, segment_last_mark_epoch, released_segments>>
    BY ZenonT(60), <1>3, <1>5 DEF vars, counters, store
  <2> QED
    BY ZenonT(60), <2>1, PlaneKept DEF WriteInv
<1> QED
  BY ZenonT(60), <1>4, <1>5 DEF PersistLeaf

\* The root persisted after its leaves.
LEMMA PersistRootPlane ==
    ASSUME WriteInv, NEW w \in Writers, PersistRoot(w)
    PROVE  PlaneTypes'
<1> DEFINE n == next_metadata_node_id
           s == writes[w].shard
           node == [children |-> writes[w].children, segments |-> {}]
<1>1. writes[w] \in Write /\ s \in Shards /\ node \in MetadataNode
  BY ZenonT(60), OwnSegment DEF WriteInv, Write, MetadataNode
<1>2. /\ AllocNodes(1)
      /\ metadata_nodes' = With(metadata_nodes, n, node)
      /\ edits' = [edits EXCEPT ![w].new[s] = n]
      /\ UNCHANGED <<segment_last_mark_epoch, released_segments>>
      /\ UNCHANGED <<next_device_id, next_commit_seq, next_checkpoint_id, next_gc_epoch,
                     timeline, devices, metadata_last_mark_epoch>>
  BY ZenonT(60) DEF PersistRoot, custodians
<1>3. TypeOK /\ n \in Nat /\ edits \in [Writers -> Edit] /\ edits[w] \in Edit
  BY ZenonT(60) DEF WriteInv, PlaneTypes, TypeOK
<1>4. edits' \in [Writers -> Edit]
  <2>1. [edits[w] EXCEPT !.new[s] = n] \in Edit
    BY ZenonT(60), <1>1, <1>3 DEF Edit, Roots
  <2>2. edits' = [edits EXCEPT ![w] = [edits[w] EXCEPT !.new[s] = n]]
    BY <1>2, <1>3
  <2> QED
    BY ZenonT(60), <1>3, <2>1, <2>2
<1>5. TypeOK'
  BY ZenonT(60), <1>1, <1>2, <1>3, <1>4, NewNodeType
<1>6. \A m \in Stored' : metadata_nodes'[m].segments \subseteq SegmentId
  BY SMTT(60), <1>2 DEF With, Stored, WriteInv, PlaneTypes
<1> QED
  BY ZenonT(60), <1>2, <1>5, <1>6 DEF WriteInv, PlaneTypes

\* Marks and sweeps.
LEMMA MarkPassPlane ==
    ASSUME Numbered, WriteInv, NEW p \in Policies, MarkPass(p)
    PROVE  PlaneTypes'
<1>1. TypeOK' /\ UNCHANGED <<metadata_nodes, released_segments>>
  BY ZenonT(60), MarkReachableType DEF MarkPass, MarkReachable, WriteInv, PlaneTypes
<1>2. next_gc_epoch \in 0 .. MaxEpoch
  <2>1. next_gc_epoch \in Nat
    BY ZenonT(60) DEF WriteInv, PlaneTypes, TypeOK
  <2>2. next_gc_epoch <= MaxEpoch
    BY ZenonT(60) DEF MarkPass, MarkReachable
  <2> QED
    BY <2>1, <2>2, ConstantsAssumption
<1>3. \A g \in SegmentId : segment_last_mark_epoch[g] \in 0 .. MaxEpoch
  BY DEF WriteInv, PlaneTypes
<1>4. PICK stamped : segment_last_mark_epoch' =
         [g \in SegmentId |-> IF g \in stamped THEN next_gc_epoch ELSE segment_last_mark_epoch[g]]
  <2> DEFINE reached == Reachable(RootsForGc(p, EnsurePitrAnchors(p)))
             given(g) == /\ Unanchored(p) = {} /\ reached \subseteq Stored
                         /\ g \in SegmentsOf(reached)
             all == {g \in SegmentId : given(g)}
  <2>1. segment_last_mark_epoch' =
           [g \in SegmentId |-> IF given(g) THEN next_gc_epoch ELSE segment_last_mark_epoch[g]]
    BY ZenonT(60) DEF MarkPass
  <2> HIDE DEF given
  <2>2. segment_last_mark_epoch' =
           [g \in SegmentId |-> IF g \in all THEN next_gc_epoch ELSE segment_last_mark_epoch[g]]
    BY ZenonT(60), <2>1
  <2> QED
    BY ZenonT(60), <2>2
<1>5. segment_last_mark_epoch' \in [SegmentId -> 0 .. MaxEpoch]
  BY ZenonT(60), <1>2, <1>3, <1>4
<1> QED
  BY SMTT(60), <1>1, <1>5 DEF WriteInv, PlaneTypes, Stored

LEMMA SweepPassPlane ==
    ASSUME Numbered, WriteInv, NEW p \in Policies, NEW e, SweepPass(p, e)
    PROVE  PlaneTypes'
<1>1. TypeOK' /\ SweepUnmarked(p, e) /\ UNCHANGED segment_last_mark_epoch
  BY ZenonT(60), SweepUnmarkedType DEF SweepPass, WriteInv, PlaneTypes
<1>2. \A n \in Stored' : metadata_nodes'[n].segments \subseteq SegmentId
  <2>1. PICK swept : metadata_nodes' = Without(metadata_nodes, swept) \/ UNCHANGED metadata_nodes
    BY ZenonT(30), <1>1 DEF SweepUnmarked, store
  <2> QED
    BY ZenonT(60), <2>1 DEF Without, Stored, WriteInv, PlaneTypes
<1>3. released_segments' \subseteq SegmentId
  <2>1. SegmentsOf(Stored) \subseteq SegmentId
    BY DEF SegmentsOf, WriteInv, PlaneTypes
  <2> DEFINE reached == Reachable(RootsForGc(p, EnsurePitrAnchors(p)))
  <2>2. released_segments' = ReleasedBySweep(e, reached) \/ released_segments' = {}
    BY ZenonT(30) DEF SweepPass
  <2> QED
    BY ZenonT(60), <2>1, <2>2 DEF ReleasedBySweep
<1> QED
  BY ZenonT(60), <1>1, <1>2, <1>3 DEF WriteInv, PlaneTypes

-----------------------------------------------------------------------------
(* Steps.                                                                    *)

\* The steps of a write.
LEMMA WriteStepInv ==
    ASSUME WriteInv, NEW w \in Writers, WriteStep(w)
    PROVE  WriteInv'
<1>1. SegmentInv /\ PlaneTypes /\ TypeOK
  BY ZenonT(60) DEF WriteInv, PlaneTypes
<1>2. writes[w] \in Write /\ writes \in [Writers -> Write]
  BY ZenonT(60), <1>1, OwnSegment DEF SegmentInv, SegmentTypes
<1>3. ASSUME NEW d, NEW s \in Shards, BeginWrite(w, d, s) PROVE WriteInv'
  <2>1. TypeOK'
    BY ZenonT(60), <1>1, <1>3, ReadShardRootType DEF BeginWrite
  <2>2. UNCHANGED <<metadata_nodes, segment_last_mark_epoch, released_segments>>
    BY ZenonT(60), <1>3 DEF BeginWrite, ReadShardRoot, store, custodians
  <2> QED
    BY ZenonT(60), <1>1, <1>3, <2>1, <2>2, BeginWriteSegments DEF WriteInv, PlaneTypes, Stored
<1>4. ASSUME NEW d, NEW s \in Shards, BeginDiscard(w, d, s) PROVE WriteInv'
  <2>1. TypeOK'
    BY ZenonT(60), <1>1, <1>4, ReadShardRootType DEF BeginDiscard
  <2>2. UNCHANGED <<metadata_nodes, segment_last_mark_epoch, released_segments>>
    BY ZenonT(60), <1>4 DEF BeginDiscard, ReadShardRoot, store, custodians
  <2> DEFINE r == [NoWrite EXCEPT !.phase = "edit", !.shard = s]
  <2>3. r \in Write /\ r.segment = 0 /\ r.phase = "edit"
    <3>1. NoWrite \in Write /\ NoWrite.segment = 0
      BY ZenonT(60), NoWriteType
    <3> QED
      BY ZenonT(60), <3>1 DEF Write, Phase
  <2>4. writes' = [writes EXCEPT ![w] = r] /\ UNCHANGED <<segments, reclaiming>>
    BY ZenonT(60), <1>4 DEF BeginDiscard, custodians
  <2> HIDE DEF r
  <2>5. SegmentInv'
    BY ZenonT(60), <1>1, <2>3, <2>4, QuietWriteStep
  <2> QED
    BY ZenonT(60), <1>1, <2>1, <2>2, <2>5 DEF WriteInv, PlaneTypes, Stored
<1>5. CASE ReserveSegment(w) \/ BeginSegmentWrite(w) \/ CommitSegment(w)
  <2>1. UNCHANGED <<counters, timeline, devices, store, segment_last_mark_epoch,
                    released_segments>>
    BY ZenonT(60), <1>5 DEF ReserveSegment, BeginSegmentWrite, CommitSegment, CatalogStep,
       custodians
  <2>2. \/ edits' = [edits EXCEPT ![w] = NoEdit]
        \/ UNCHANGED edits
    BY ZenonT(60), <1>5 DEF ReserveSegment, BeginSegmentWrite, CommitSegment, CatalogStep, Abandon
  <2>3. PlaneTypes'
    <3>1. CASE UNCHANGED edits
      <4>1. UNCHANGED <<vars, segment_last_mark_epoch, released_segments>>
        BY ZenonT(60), <2>1, <3>1 DEF vars
      <4> QED
        BY ZenonT(60), <1>1, <4>1, PlaneKept
    <3>2. CASE edits' = [edits EXCEPT ![w] = NoEdit]
      BY ZenonT(60), <1>1, <2>1, <3>2, NoEditPlane
    <3> QED
      BY ZenonT(60), <2>2, <3>1, <3>2
  <2> QED
    BY ZenonT(60), <1>1, <1>5, <2>3, CatalogStepSegments DEF WriteInv
<1>6. CASE StoreSegment(w)
  <2>1. UNCHANGED <<vars, segment_last_mark_epoch, released_segments>>
    BY ZenonT(60), <1>6 DEF StoreSegment, custodians
  <2> QED
    BY ZenonT(60), <1>1, <1>6, <2>1, PlaneKept, StoreSegmentBytes DEF WriteInv
<1>7. CASE MarkReferenced(w)
  <2>1. UNCHANGED <<vars, segment_last_mark_epoch, released_segments>>
    BY ZenonT(60), <1>7 DEF MarkReferenced, custodians
  <2> QED
    BY <1>1, <1>7, <2>1, PlaneKept, MarkReferencedSegments DEF WriteInv
<1>8. ASSUME UNCHANGED <<counters, timeline, devices, store, segments, custodians>>,
             edits' = [edits EXCEPT ![w] = NoEdit],
             writes' = [writes EXCEPT ![w] = NoWrite]
      PROVE  WriteInv'
  <2>1. UNCHANGED <<segments, reclaiming>> /\ UNCHANGED <<segment_last_mark_epoch, released_segments>>
    BY ZenonT(60), <1>8 DEF custodians
  <2> QED
    BY ZenonT(60), <1>1, <1>8, <2>1, NoEditPlane, AbandonSegments DEF WriteInv
<1>9. CASE SegmentWriteFails(w) \/ PersistLeafFails(w) \/ NothingToPublish(w)
  BY ZenonT(60), <1>8, <1>9 DEF SegmentWriteFails, PersistLeafFails, NothingToPublish, Abandon
<1>10. ASSUME NEW leaf, EditSinglePathFails(w, leaf) PROVE WriteInv'
  BY ZenonT(60), <1>8, <1>10 DEF EditSinglePathFails, EditShardFails
<1>11. CASE PublishFails(w)
  BY ZenonT(60), <1>8, <1>11 DEF PublishFails, PublishRejected
<1>12. ASSUME NEW leaf, NEW kept \in SUBSET SegmentId, EditSinglePath(w, leaf, kept)
       PROVE  WriteInv'
  <2>1. UNCHANGED <<segments, reclaiming>> /\ Goto(w, "publish")
    BY ZenonT(60), <1>12 DEF EditSinglePath, custodians
  <2> DEFINE r == [writes[w] EXCEPT !.phase = "publish"]
  <2>3. writes' = [writes EXCEPT ![w] = r] /\ r \in Write
    BY ZenonT(60), <1>1, <2>1, GotoPhase DEF Phase
  <2>4. r.segment = writes[w].segment /\ r.phase = "publish"
    BY ZenonT(60), <1>2 DEF Write
  <2> HIDE DEF r
  <2>2. SegmentInv'
    BY ZenonT(60), <1>1, <2>1, <2>3, <2>4, QuietWriteStep
  <2> QED
    BY ZenonT(60), <1>12, <2>2, EditSinglePathPlane DEF WriteInv
<1>13. ASSUME NEW touched, StartNodeByNode(w, touched) PROVE WriteInv'
  <2> DEFINE old == edits[w].old[writes[w].shard]
             r == [writes[w] EXCEPT !.phase = "leaves",
                                    !.children = metadata_nodes[old].children,
                                    !.todo = touched]
  <2>1. /\ old \in Stored /\ touched \subseteq metadata_nodes[old].children
        /\ writes' = [writes EXCEPT ![w].phase = "leaves",
                                    ![w].children = metadata_nodes[old].children,
                                    ![w].todo = touched]
        /\ UNCHANGED <<vars, segments, custodians>>
    BY ZenonT(60), <1>13 DEF StartNodeByNode
  <2>2. metadata_nodes[old].children \subseteq Nat
    BY ZenonT(60), <1>1, <2>1 DEF TypeOK, MetadataNode
  <2> HIDE DEF old
  <2>3. writes' = [writes EXCEPT ![w] = r]
    BY ZenonT(60), <1>2, <2>1
  <2>4. r \in Write /\ r.segment = writes[w].segment /\ r.phase = "leaves"
    BY ZenonT(60), <1>2, <2>1, <2>2 DEF Write, Phase
  <2> HIDE DEF r
  <2>5. UNCHANGED <<segments, reclaiming>>
        /\ UNCHANGED <<vars, segment_last_mark_epoch, released_segments>>
    BY <2>1 DEF custodians
  <2> QED
    BY ZenonT(60), <1>1, <2>3, <2>4, <2>5, QuietWriteStep, PlaneKept DEF WriteInv
<1>14. ASSUME NEW leaf, NEW kept \in SUBSET SegmentId, PersistLeaf(w, leaf, kept)
       PROVE  WriteInv'
  <2> DEFINE n == next_metadata_node_id
             r == [writes[w] EXCEPT !.todo = @ \ {leaf}, !.changed = TRUE,
                                    !.children = (@ \ {leaf}) \cup {n}]
             q == [writes[w] EXCEPT !.todo = @ \ {leaf}]
  <2>1. /\ At(w, "leaves")
        /\ \/ writes' = [writes EXCEPT ![w].todo = @ \ {leaf}, ![w].changed = TRUE,
                                       ![w].children = (@ \ {leaf}) \cup {n}]
           \/ writes' = [writes EXCEPT ![w].todo = @ \ {leaf}]
    BY ZenonT(60), <1>14 DEF PersistLeaf
  <2>2. writes' = [writes EXCEPT ![w] = r] \/ writes' = [writes EXCEPT ![w] = q]
    BY ZenonT(60), <1>2, <2>1
  <2>3. n \in Nat
    BY ZenonT(60), <1>1 DEF TypeOK
  <2> HIDE DEF n
  <2>4. r \in Write /\ r.segment = writes[w].segment /\ r.phase = "leaves"
    BY ZenonT(60), <1>2, <2>1, <2>3 DEF Write, Phase, At
  <2>5. q \in Write /\ q.segment = writes[w].segment /\ q.phase = "leaves"
    BY ZenonT(60), <1>2, <2>1 DEF Write, Phase, At
  <2> HIDE DEF r, q
  <2>6. UNCHANGED <<segments, reclaiming>>
    BY ZenonT(60), <1>14 DEF PersistLeaf, custodians
  <2>7. SegmentInv'
    BY ZenonT(60), <1>1, <2>2, <2>4, <2>5, <2>6, QuietWriteStep
  <2> QED
    BY ZenonT(60), <1>14, <2>7, PersistLeafPlane DEF WriteInv
<1>15. CASE PersistRoot(w)
  <2>1. UNCHANGED <<segments, reclaiming>> /\ Goto(w, "publish")
    BY ZenonT(60), <1>15 DEF PersistRoot, custodians
  <2> DEFINE r == [writes[w] EXCEPT !.phase = "publish"]
  <2>3. writes' = [writes EXCEPT ![w] = r] /\ r \in Write
    BY ZenonT(60), <1>1, <2>1, GotoPhase DEF Phase
  <2>4. r.segment = writes[w].segment /\ r.phase = "publish"
    BY ZenonT(60), <1>2 DEF Write
  <2> HIDE DEF r
  <2>2. SegmentInv'
    BY ZenonT(60), <1>1, <2>1, <2>3, <2>4, QuietWriteStep
  <2> QED
    BY ZenonT(60), <1>15, <2>2, PersistRootPlane DEF WriteInv
<1>16. CASE Publish(w)
  <2> DEFINE r == IF writes[w].segment = 0 THEN NoWrite
                  ELSE [writes[w] EXCEPT !.phase = "mark", !.children = {}]
  <2>1. /\ writes' = [writes EXCEPT ![w] = IF @.segment = 0 THEN NoWrite
                                          ELSE [@ EXCEPT !.phase = "mark", !.children = {}]]
        /\ PublishCommitGroup(w)
        /\ UNCHANGED <<segments, custodians>>
    BY ZenonT(60), <1>16 DEF Publish
  <2>2. writes' = [writes EXCEPT ![w] = r]
    BY ZenonT(60), <1>2, <2>1
  <2>3. /\ r \in Write /\ r.segment \in {0, writes[w].segment}
        /\ r.phase \in {"idle", "mark"} /\ (r.phase = "mark" => r.segment # 0)
    BY ZenonT(60), <1>2, NoWriteType DEF Write, Phase
  <2> HIDE DEF r
  <2>4. UNCHANGED <<segments, reclaiming>>
        /\ UNCHANGED <<metadata_nodes, segment_last_mark_epoch, released_segments>>
    BY ZenonT(60), <2>1 DEF PublishCommitGroup, store, custodians
  <2>5. TypeOK'
    BY ZenonT(60), <1>1, <2>1, PublishType
  <2>6. SegmentInv'
    BY ZenonT(60), <1>1, <2>2, <2>3, <2>4, QuietWriteStep
  <2> QED
    BY ZenonT(60), <1>1, <2>4, <2>5, <2>6 DEF WriteInv, PlaneTypes, Stored
<1> QED
  BY ZenonT(60), <1>3, <1>4, <1>5, <1>6, <1>7, <1>9, <1>10, <1>11, <1>12, <1>13, <1>14, <1>15, <1>16
     DEF WriteStep

\* The steps of the two custodians.
LEMMA CustodianStepInv ==
    ASSUME Numbered, WriteInv, CustodianStep
    PROVE  WriteInv'
<1>1. SegmentInv /\ PlaneTypes
  BY ZenonT(60) DEF WriteInv
<1>2. ASSUME NEW p \in Policies, MarkPass(p) PROVE WriteInv'
  <2>1. UNCHANGED <<segments, reclaiming, writes>>
    BY ZenonT(60), <1>2 DEF MarkPass
  <2> QED
    BY ZenonT(60), <1>1, <1>2, <2>1, MarkPassPlane, SegmentsKept DEF WriteInv
<1>3. ASSUME NEW p \in Policies, NEW e, SweepPass(p, e) PROVE WriteInv'
  <2>1. UNCHANGED <<segments, reclaiming, writes>>
    BY ZenonT(60), <1>3 DEF SweepPass
  <2> QED
    BY ZenonT(60), <1>1, <1>3, <2>1, SweepPassPlane, SegmentsKept DEF WriteInv
<1>4. ASSUME NEW g \in SegmentId, ReleaseSegment(g) PROVE WriteInv'
  <2>1. UNCHANGED <<vars, segment_last_mark_epoch>>
        /\ released_segments' \subseteq released_segments
    BY ZenonT(60), <1>4 DEF ReleaseSegment
  <2>2. TypeOK'
    BY ZenonT(60), <1>1, <2>1 DEF PlaneTypes, vars, counters, timeline, devices, store, TypeOK,
       Live,
                      Deleted, Stored
  <2>3. PlaneTypes'
    BY ZenonT(60), <1>1, <2>1, <2>2 DEF PlaneTypes, vars, store, Stored
  <2> QED
    BY ZenonT(60), <1>1, <1>4, <2>3, ReleaseSegments DEF WriteInv
<1>5. ASSUME NEW g \in SegmentId, FreeSegment(g) PROVE WriteInv'
  <2>1. UNCHANGED <<vars, segment_last_mark_epoch, released_segments>>
    BY ZenonT(60), <1>5 DEF FreeSegment
  <2> QED
    BY ZenonT(60), <1>1, <1>5, <2>1, FreeSegments, PlaneKept DEF WriteInv
<1>6. CASE DeleteSegmentBytes
  <2>1. UNCHANGED <<vars, segment_last_mark_epoch, released_segments>>
    BY ZenonT(60), <1>6 DEF DeleteSegmentBytes
  <2> QED
    BY ZenonT(60), <1>1, <1>6, <2>1, DeleteBytes, PlaneKept DEF WriteInv
<1> QED
  BY ZenonT(60), <1>2, <1>3, <1>4, <1>5, <1>6 DEF CustodianStep

\* Nothing is stored and no write runs at first.
LEMMA WriteInit == WInit => WriteInv
<1> SUFFICES ASSUME WInit PROVE WriteInv
  BY ZenonT(60)
<1>1. MaxSegment \in Nat /\ MaxEpoch \in Nat
  BY ZenonT(60), SegmentAssumption, ConstantsAssumption
<1>2. SegmentTypes
  BY <1>1, NoWriteType DEF WInit, SegmentTypes
<1>3. WriteOwnsSegment
  BY ZenonT(60), NoWriteType DEF WInit, WriteOwnsSegment, At
<1>4. CatalogBehind /\ BytesFollowCatalog
  BY ZenonT(60), <1>1 DEF WInit, CatalogBehind, BytesFollowCatalog, SegmentId
<1>5. TypeOK /\ Stored = {}
  BY InitType DEF WInit, Init, Stored
<1> QED
  BY <1>1, <1>2, <1>3, <1>4, <1>5 DEF WInit, WriteInv, SegmentInv, PlaneTypes

LEMMA WriteNext == Numbered /\ WriteInv /\ [WNext]_wvars => WriteInv'
<1> SUFFICES ASSUME Numbered, WriteInv, [WNext]_wvars PROVE WriteInv'
  BY ZenonT(60)
<1>1. SegmentInv /\ PlaneTypes
  BY DEF WriteInv
<1>2. CASE DeviceStep /\ UNCHANGED <<segments, custodians, writes>>
  <2>1. UNCHANGED <<segments, reclaiming, writes>>
        /\ UNCHANGED <<segment_last_mark_epoch, released_segments>>
    BY ZenonT(60), <1>2 DEF custodians
  <2> QED
    BY ZenonT(60), <1>1, <1>2, <2>1, SegmentsKept, DeviceStepPlane DEF WriteInv
<1>3. CASE \E w \in Writers : WriteStep(w)
  BY ZenonT(60), <1>3, WriteStepInv
<1>4. CASE CustodianStep
  BY ZenonT(60), <1>4, CustodianStepInv
<1>5. CASE UNCHANGED wvars
  <2>1. UNCHANGED <<segments, reclaiming, writes>>
        /\ UNCHANGED <<vars, segment_last_mark_epoch, released_segments>>
    BY ZenonT(60), <1>5 DEF wvars, custodians
  <2> QED
    BY ZenonT(60), <1>1, <2>1, SegmentsKept, PlaneKept DEF WriteInv
<1> QED
  BY ZenonT(60), <1>2, <1>3, <1>4, <1>5 DEF WNext

-----------------------------------------------------------------------------
(* Nodes of recorded trees.                                                  *)

\* A sweep deletes no node of a tree that is recorded after it.
LEMMA SweepKeeps ==
    ASSUME TypeOK, NEW p \in Policies, NEW e, SweepUnmarked(p, e),
           NEW r \in RecordedRoots, r \in RecordedRoots'
    PROVE  Reachable({r}) \cap Stored \subseteq Stored'
<1> DEFINE reached == Reachable(RootsForGc(p, EnsurePitrAnchors(p)))
<1>1. CASE Unanchored(p) = {} /\ reached \subseteq Stored
  <2>1. r \in RootsForGc(p, EnsurePitrAnchors(p))
    BY ZenonT(60), <1>1, SurvivorsTraced
  <2>2. Reachable({r}) \subseteq reached
    BY <2>1 DEF Reachable
  <2>3. metadata_nodes' = Without(metadata_nodes, Swept(e, reached))
    BY ZenonT(30), <1>1 DEF SweepUnmarked
  <2>4. Swept(e, reached) \cap reached = {}
    BY ZenonT(60) DEF Swept
  <2> HIDE DEF reached
  <2>5. Stored' = Stored \ Swept(e, reached)
    BY ZenonT(60), <2>3 DEF Without, Stored
  <2> QED
    BY ZenonT(60), <2>2, <2>4, <2>5
<1>2. CASE ~ (Unanchored(p) = {} /\ reached \subseteq Stored)
  <2>1. metadata_nodes' = metadata_nodes
    BY ZenonT(30), <1>2 DEF SweepUnmarked, store
  <2> QED
    BY ZenonT(60), <2>1 DEF Stored
<1> QED
  BY ZenonT(60), <1>1, <1>2

\* Every other step only adds nodes.
LEMMA OthersAdd ==
    ASSUME WNext, ~ \E p \in Policies : \E e \in 1 .. MaxEpoch : SweepPass(p, e)
    PROVE  Stored \subseteq Stored'
<1>1. CASE UNCHANGED metadata_nodes
  BY ZenonT(60), <1>1 DEF Stored
<1>2. CASE DeviceStep
  <2>1. CASE CreateDevice
    BY ZenonT(60), <2>1 DEF CreateDevice, Stored
  <2>2. CASE \E d \in 1 .. MaxDevice :
                \/ \E t \in 1 .. MaxDevice : ForkDevice(d, t)
                \/ \E point \in RestorePoint : RestoreDevice(d, point)
    <3>1. \E d, roots : StartFrom(d, roots)
      BY ZenonT(60), <2>2 DEF ForkDevice, RestoreDevice
    <3> QED
      BY ZenonT(60), <1>1, <3>1 DEF StartFrom, store
  <2>3. CASE \E d \in 1 .. MaxDevice : DeleteDevice(d) \/ CheckpointDevice(d)
    BY ZenonT(60), <1>1, <2>3 DEF DeleteDevice, CheckpointDevice, store
  <2> QED
    BY ZenonT(60), <1>2, <2>1, <2>2, <2>3 DEF DeviceStep
<1>3. ASSUME NEW w \in Writers, WriteStep(w) PROVE Stored \subseteq Stored'
  <2>1. ASSUME NEW leaf, NEW kept, EditSinglePath(w, leaf, kept) PROVE Stored \subseteq Stored'
    <3> DEFINE n == next_metadata_node_id
               one == With(metadata_nodes, n, [children |-> {}, segments |-> LeafSegments(w, kept)])
    <3>1. EditShard(w, writes[w].shard, leaf, LeafSegments(w, kept))
      BY ZenonT(60), <2>1 DEF EditSinglePath
    <3>2. metadata_nodes' = one \/ \E root : metadata_nodes' = With(one, n + 1, root)
      BY ZenonT(60), <3>1 DEF EditShard
    <3>3. Stored \subseteq DOMAIN one
      BY ZenonT(60) DEF With, Stored
    <3> HIDE DEF one
    <3> QED
      BY ZenonT(60), <3>2, <3>3 DEF With, Stored
  <2>2. ASSUME NEW leaf, NEW kept, PersistLeaf(w, leaf, kept) PROVE Stored \subseteq Stored'
    <3>1. (\E a, x : metadata_nodes' = With(metadata_nodes, a, x)) \/ UNCHANGED metadata_nodes
      BY ZenonT(60), <2>2 DEF PersistLeaf
    <3> QED
      BY ZenonT(60), <1>1, <3>1 DEF With, Stored
  <2>3. CASE PersistRoot(w)
    <3>1. \E a, x : metadata_nodes' = With(metadata_nodes, a, x)
      BY ZenonT(60), <2>3 DEF PersistRoot
    <3> QED
      BY ZenonT(60), <3>1 DEF With, Stored
  <2>4. CASE \/ \E d \in Live : \E s \in Shards : BeginWrite(w, d, s) \/ BeginDiscard(w, d, s)
             \/ ReserveSegment(w) \/ BeginSegmentWrite(w) \/ StoreSegment(w) \/ CommitSegment(w)
             \/ SegmentWriteFails(w) \/ PersistLeafFails(w) \/ NothingToPublish(w)
    <3>1. UNCHANGED metadata_nodes
      BY ZenonT(60), <2>4 DEF BeginWrite, BeginDiscard, ReadShardRoot, ReserveSegment,
         BeginSegmentWrite,
                  CommitSegment, CatalogStep, StoreSegment, SegmentWriteFails, PersistLeafFails,
                  NothingToPublish, store, vars
    <3> QED
      BY ZenonT(60), <1>1, <3>1
  <2>5. CASE \/ \E leaf : EditSinglePathFails(w, leaf)
             \/ \E touched : StartNodeByNode(w, touched)
             \/ Publish(w) \/ PublishFails(w) \/ MarkReferenced(w)
    <3>1. UNCHANGED metadata_nodes
      BY ZenonT(60), <2>5 DEF EditSinglePathFails, EditShardFails, StartNodeByNode, Publish,
                  PublishCommitGroup, PublishFails, PublishRejected, MarkReferenced, store, vars
    <3> QED
      BY <1>1, <3>1
  <2> QED
    BY ZenonT(60), <1>3, <2>1, <2>2, <2>3, <2>4, <2>5 DEF WriteStep
<1>4. CASE CustodianStep
  <2>1. ASSUME NEW p \in Policies, MarkPass(p) PROVE UNCHANGED metadata_nodes
    BY ZenonT(60), <2>1 DEF MarkPass, MarkReachable
  <2>2. ASSUME NEW g, ReleaseSegment(g) \/ FreeSegment(g) PROVE UNCHANGED metadata_nodes
    BY ZenonT(60), <2>2 DEF ReleaseSegment, FreeSegment, vars, store
  <2>3. CASE DeleteSegmentBytes
    BY ZenonT(60), <1>1, <2>3 DEF DeleteSegmentBytes, vars, store
  <2> QED
    BY ZenonT(60), <1>1, <1>4, <2>1, <2>2, <2>3 DEF CustodianStep
<1> QED
  BY ZenonT(60), <1>2, <1>3, <1>4 DEF WNext

-----------------------------------------------------------------------------
(* Theorems.                                                                 *)

-----------------------------------------------------------------------------
LOCAL FST == INSTANCE FiniteSetTheorems

\* What the lemmas assume of numbers holds.
LEMMA Counted == Numbered
<1>1. ASSUME NEW T \in SUBSET Nat, T # {}
      PROVE  \E x \in T : \A y \in T : x <= y
  <2>1. PICK x \in T : \A y \in T : ~ (<<y, x>> \in FST!OpToRel(<, Nat))
    BY ZenonT(60), <1>1, FST!WFMin, FST!NatLessThanWellFounded
  <2>2. \A y \in T : ~ (y < x)
    BY ZenonT(60), <2>1 DEF FST!OpToRel
  <2> QED
    BY <2>2
<1>2. ASSUME NEW b \in Nat, NEW I \in SUBSET (1 .. b)
      PROVE  /\ Cardinality(I) \in Nat
             /\ \A J \in SUBSET I : Cardinality(J) \in Nat
             /\ \A J \in SUBSET I : J # I => Cardinality(J) < Cardinality(I)
  <2>1. \A S : Cardinality(S) = FST!Cardinality(S) /\ (IsFiniteSet(S) <=> FST!IsFiniteSet(S))
    BY ZenonT(60) DEF Cardinality, FST!Cardinality, IsFiniteSet, FST!IsFiniteSet
  <2>2. FST!IsFiniteSet(1 .. b)
    BY FST!FS_Interval
  <2>3. FST!IsFiniteSet(I)
    BY ZenonT(60), <2>2, FST!FS_Subset
  <2>4. FST!Cardinality(I) \in Nat
    BY ZenonT(60), <2>3, FST!FS_CardinalityType
  <2>5. ASSUME NEW J \in SUBSET I
        PROVE  /\ FST!Cardinality(J) \in Nat
               /\ J # I => FST!Cardinality(J) < FST!Cardinality(I)
    <3>1. FST!IsFiniteSet(J) /\ FST!Cardinality(J) <= FST!Cardinality(I)
      BY ZenonT(60), <2>3, FST!FS_Subset
    <3>2. FST!Cardinality(I) = FST!Cardinality(J) => I = J
      BY ZenonT(60), <2>3, FST!FS_Subset
    <3>3. FST!Cardinality(J) \in Nat
      BY ZenonT(60), <3>1, FST!FS_CardinalityType
    <3> QED
      BY <3>1, <3>2, <3>3, <2>4
  <2> QED
    BY ZenonT(60), <2>1, <2>4, <2>5
<1> QED
  BY ZenonT(60), <1>1, <1>2 DEF Numbered

\* The inductive invariant of the writers, the catalog, the nodes' segments and the
\* sweeper holds in every reachable state.
THEOREM WriteInvCorrect == WSpec => []WriteInv
<1>1. WriteInv /\ [WNext]_wvars => WriteInv'
  BY ZenonT(60), WriteNext, Counted
<1> QED
  BY <1>1, WriteInit, PTL DEF WSpec

\* The write path's state keeps its types, and no leaf names a segment that no
\* write reserved.
THEOREM WriteTypesCorrect == WSpec => []WriteTypeOK
<1>1. WriteInv => WriteTypeOK
  BY DEF WriteInv, SegmentInv, SegmentTypes, PlaneTypes, WriteTypeOK, SegmentsOf
<1> QED
  BY <1>1, WriteInvCorrect, PTL

\* For any number of writers and segments a committed segment has its bytes until
\* run_custodian has freed it, and no bytes outlive their catalog entry.
THEOREM BytesCorrect == WSpec => []BytesFollowCatalog
<1>1. WriteInv => BytesFollowCatalog
  BY ZenonT(60) DEF WriteInv, SegmentInv
<1> QED
  BY <1>1, WriteInvCorrect, PTL

\* No step of any interleaving of writes, custodians and device operations removes
\* a node of a tree that is recorded before and after it: sweep_unmarked_after_mark
\* traces every root that its own retention leaves recorded.
THEOREM NodesKept == WSpec => RecordedNodesKept
<1>1. ASSUME WriteInv, [WNext]_wvars
      PROVE  [\A r \in RecordedRoots : r \in RecordedRoots' =>
                 Reachable({r}) \cap Stored \subseteq Stored']_wvars
  <2>1. CASE UNCHANGED wvars
    BY ZenonT(60), <2>1
  <2>2. ASSUME NEW p \in Policies, NEW e \in 1 .. MaxEpoch, SweepPass(p, e),
               NEW r \in RecordedRoots, r \in RecordedRoots'
        PROVE  Reachable({r}) \cap Stored \subseteq Stored'
    <3>1. SweepUnmarked(p, e)
      BY ZenonT(60), <2>2 DEF SweepPass
    <3> QED
      BY ZenonT(60), <1>1, <2>2, <3>1, SweepKeeps DEF WriteInv, PlaneTypes
  <2>3. CASE WNext /\ ~ \E p \in Policies : \E e \in 1 .. MaxEpoch : SweepPass(p, e)
    <3>1. Stored \subseteq Stored'
      BY ZenonT(60), <2>3, OthersAdd
    <3> QED
      BY ZenonT(60), <3>1
  <2> QED
    BY ZenonT(60), <1>1, <2>1, <2>2, <2>3
<1> QED
  BY <1>1, WriteInvCorrect, PTL DEF WSpec, RecordedNodesKept
=============================================================================
