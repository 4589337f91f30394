------------------------ MODULE MetadataPlaneProofs -------------------------
(***************************************************************************)
(* What MetadataPlane keeps for every number of devices, shards, leaves and*)
(* writers and for every set of retention policies: its types, the trees   *)
(* that records and staged commits name, and the timeline of every device; *)
(* what can be restored stays restorable.                                  *)
(***************************************************************************)
EXTENDS MetadataPlaneSteps

-----------------------------------------------------------------------------
(* Anchors.                                                                 *)

\* Replay as the code does it is replay over the stored commits.
LEMMA ReplayStored ==
    ASSUME NEW k, NEW c
    PROVE  /\ ReplayConnects(k, c) <=> Connects(shard_commits, k, c)
           /\ \A s \in Shards : ReplayedRoot(k, s, c) = RootAt(shard_commits, k, s, c)
<1>1. \A d, s, a, b : Between(d, s, a, b) = Stretch(shard_commits, d, s, a, b)
  BY Zenon DEF Between, Stretch
<1>2. \A s, b : ReplayedRoot(k, s, b) = RootAt(shard_commits, k, s, b)
  BY <1>1, Zenon DEF ReplayedRoot, RootAt
<1>3. ReplayConnects(k, c) <=> Connects(shard_commits, k, c)
  BY <1>1, <1>2, Zenon DEF ReplayConnects, Connects
<1> QED
  BY <1>2, <1>3

\* From a checkpoint and from a later one on its way, replay leads to the same.
LEMMA LeadsOn ==
    ASSUME NEW ms \in SUBSET ShardCommit, NEW k \in Checkpoint, NEW l \in Checkpoint,
           k.owner = l.owner, k.commit_seq <= l.commit_seq,
           Leads(ms, k, l.commit_seq, l.roots), NEW c \in Nat, l.commit_seq <= c, NEW roots
    PROVE  Leads(ms, k, c, roots) <=> Leads(ms, l, c, roots)
<1>1. /\ Connects(ms, k, c) <=> Connects(ms, l, c)
      /\ \A s \in Shards : RootAt(ms, k, s, c) = RootAt(ms, l, s, c)
  BY ComposeLeads
<1> QED
  BY ZenonT(60), <1>1 DEF Leads

\* A replay that succeeds starts from a checkpoint that leads to its roots, and no
\* other checkpoint of the device up to that commit is later.
LEMMA ReplayStart ==
    ASSUME Numbered, TypeOK, NEW d, NEW c \in Nat, Replays(d, c)
    PROVE  \E l \in checkpoints :
              /\ l.owner = d /\ l.commit_seq <= c
              /\ Leads(shard_commits, l, c, ReplayDeviceRoots(d, c))
              /\ \A j \in checkpoints : j.owner = d /\ j.commit_seq <= c
                    => j.commit_seq <= l.commit_seq
<1> DEFINE l == LatestCheckpoint(checkpoints, d, c)
<1>1. HasCheckpoint(checkpoints, d, c) /\ ReplayConnects(l, c)
  BY ZenonT(60) DEF Replays
<1>2. /\ checkpoints \in SUBSET Checkpoint /\ next_checkpoint_id \in Nat
      /\ \A k \in checkpoints : k.id < next_checkpoint_id
  BY ZenonT(60) DEF TypeOK
<1>3. /\ l \in CheckpointsOf(checkpoints, d)
      /\ l.commit_seq <= c
      /\ \A j \in CheckpointsOf(checkpoints, d) : j.commit_seq <= c
            => j.commit_seq <= l.commit_seq
  BY ZenonT(60), <1>1, <1>2, LatestCheckpointIn
<1>4. ReplayDeviceRoots(d, c) = [s \in Shards |-> ReplayedRoot(l, s, c)]
  BY ZenonT(60) DEF ReplayDeviceRoots, ReplayedRoots
<1> HIDE DEF l
<1>5. Leads(shard_commits, l, c, ReplayDeviceRoots(d, c))
  BY ZenonT(60), <1>1, <1>4, ReplayStored DEF Leads
<1> QED
  BY ZenonT(60), <1>3, <1>5 DEF CheckpointsOf

\* An inserted anchor lies on the way of its device's history: the checkpoint it
\* was replayed from leads to it, and it is not before a fork that made the device.
LEMMA AnchorFacts ==
    ASSUME Numbered, TimelineInv, NEW p \in Policies, NEW d \in InsertedAnchors(p)
    PROVE  /\ Anchor(p, d) \in Checkpoint /\ Anchor(p, d).owner = d
           /\ OwnsItsPast(d, Anchor(p, d).commit_seq)
           /\ \E l \in checkpoints :
                 /\ l.owner = d /\ l.commit_seq <= Anchor(p, d).commit_seq
                 /\ Leads(shard_commits, l, Anchor(p, d).commit_seq, Anchor(p, d).roots)
                 /\ \A j \in checkpoints : j.owner = d /\ j.commit_seq <= Anchor(p, d).commit_seq
                       => j.commit_seq <= l.commit_seq
<1>1. TypeOK /\ OwnersKnown
  BY ZenonT(60) DEF TimelineInv
<1>2. d \in AnchorOwners(p) /\ d \in MissingAnchors(p) /\ d \in Live \cup Deleted
  BY DEF InsertedAnchors, MissingAnchors, AnchorOwners
<1>3. PICK t \in Nat : t = AnchorTarget(p, d)
  BY ZenonT(60), <1>1, <1>2, AnchorTargetType
<1>4. Replays(d, t)
  <2>1. d \in Nat
    BY SMTT(60), <1>1, <1>2, ConstantsAssumption DEF TypeOK
  <2>2. d \notin Unanchored(p)
    BY SMTT(60), <2>1 DEF InsertedAnchors
  <2> QED
    BY ZenonT(60), <2>2, <1>2, <1>3 DEF Unanchored
<1>5. /\ Anchor(p, d) \in Checkpoint /\ Anchor(p, d).owner = d
      /\ Anchor(p, d).commit_seq = t /\ Anchor(p, d).roots = ReplayDeviceRoots(d, t)
  <2>1. Anchor(p, d) \in Checkpoint
    BY ZenonT(60), <1>1, AnchorsSound
  <2> QED
    BY ZenonT(60), <2>1, <1>3 DEF Anchor
<1>6. OwnsItsPast(d, t)
  <2>1. PICK floor \in Nat : floor = RetentionFloor(p)
    <3>1. p \in RetentionPolicy /\ p.pitr_grace_commits \in Nat
      BY ZenonT(60), ConstantsAssumption DEF RetentionPolicy
    <3>2. next_commit_seq \in Nat \ {0}
      BY ZenonT(60), <1>1 DEF TypeOK
    <3> QED
      BY <3>1, <3>2 DEF RetentionFloor, Minus, current_commit_seq
  <2>2. CASE d \in Live
    <3>1. device_heads[d].latest_commit \in Nat
      BY ZenonT(60), <2>2, <1>1 DEF TypeOK, Head
    <3>2. t <= device_heads[d].latest_commit
      BY SMTT(60), <2>1, <2>2, <3>1, <1>3 DEF AnchorTarget
    <3>3. device_heads[d].latest_commit < next_commit_seq /\ next_commit_seq \in Nat
      BY ZenonT(60), <2>2, <1>1 DEF OwnersKnown, TypeOK
    <3> QED
      BY SMTT(60), <3>1, <3>2, <3>3, <2>2 DEF OwnsItsPast
  <2>3. CASE d \notin Live
    <3>1. d \in Deleted /\ deleted_device_heads[d].latest_commit \in Nat
      BY ZenonT(60), <2>3, <1>1, <1>2 DEF TypeOK, Head
    <3>2. t <= deleted_device_heads[d].latest_commit
      BY <2>1, <2>3, <3>1, <1>3 DEF AnchorTarget
    <3>3. deleted_device_heads[d].latest_commit < next_commit_seq /\ next_commit_seq \in Nat
      BY ZenonT(60), <3>1, <1>1 DEF OwnersKnown, TypeOK
    <3> QED
      BY SMTT(60), <3>1, <3>2, <3>3, <2>3 DEF OwnsItsPast
  <2> QED
    BY ZenonT(60), <2>2, <2>3
<1>7. \E l \in checkpoints :
        /\ l.owner = d /\ l.commit_seq <= t
        /\ Leads(shard_commits, l, t, ReplayDeviceRoots(d, t))
        /\ \A j \in checkpoints : j.owner = d /\ j.commit_seq <= t
              => j.commit_seq <= l.commit_seq
  BY SMTT(60), <1>1, <1>4, ReplayStart
<1> QED
  BY ZenonT(60), <1>5, <1>6, <1>7

\* ensure_pitr_anchor_checkpoints keeps the history connected.
LEMMA AnchorsChained ==
    ASSUME Numbered, TimelineInv, NEW p \in Policies, NEW cks, cks = EnsurePitrAnchors(p)
    PROVE  /\ cks \subseteq Checkpoint /\ checkpoints \subseteq cks
           /\ Chained(shard_commits, cks, device_heads, deleted_device_heads, current_commit_seq)
           /\ \A k \in cks : OwnsItsPast(k.owner, k.commit_seq)
           /\ \A f \in fork_records : \A k \in cks :
                 k.owner = f.target => f.fork_seq <= k.commit_seq
<1> DEFINE ms == shard_commits
           Source(a, l) ==
              /\ l.owner = a.owner /\ l.commit_seq <= a.commit_seq
              /\ Leads(ms, l, a.commit_seq, a.roots)
              /\ \A j \in checkpoints : j.owner = a.owner /\ j.commit_seq <= a.commit_seq
                    => j.commit_seq <= l.commit_seq
<1>1. /\ checkpoints \subseteq Checkpoint /\ ms \in SUBSET ShardCommit
      /\ fork_records \subseteq ForkRecord
      /\ device_heads \in [Live -> Head] /\ next_commit_seq \in Nat \ {0}
  BY ZenonT(60) DEF TimelineInv, TypeOK
<1>2. ASSUME NEW a \in cks \ checkpoints
      PROVE  /\ a \in Checkpoint /\ OwnsItsPast(a.owner, a.commit_seq)
             /\ \E l \in checkpoints : Source(a, l)
             /\ a.owner \in InsertedAnchors(p) /\ a = Anchor(p, a.owner)
  <2>1. PICK d \in InsertedAnchors(p) : a = Anchor(p, d)
    BY ZenonT(60) DEF EnsurePitrAnchors
  <2>2. /\ a \in Checkpoint /\ a.owner = d /\ OwnsItsPast(d, a.commit_seq)
        /\ \E l \in checkpoints :
              /\ l.owner = d /\ l.commit_seq <= a.commit_seq
              /\ Leads(ms, l, a.commit_seq, a.roots)
              /\ \A j \in checkpoints : j.owner = d /\ j.commit_seq <= a.commit_seq
                    => j.commit_seq <= l.commit_seq
    BY ZenonT(60), <2>1, AnchorFacts
  <2> QED
    BY ZenonT(60), <2>1, <2>2
<1>3. /\ Chained(ms, checkpoints, device_heads, deleted_device_heads, current_commit_seq)
      /\ OwnersKnown
  BY SMTT(60) DEF TimelineInv, AllChained
<1>4. cks \subseteq Checkpoint /\ checkpoints \subseteq cks
  BY ZenonT(60), <1>1, <1>2 DEF EnsurePitrAnchors
<1>5. \A k \in cks : OwnsItsPast(k.owner, k.commit_seq)
  BY ZenonT(60), <1>2, <1>3 DEF OwnersKnown
<1>6. \A k \in cks : k.commit_seq \in Nat
  BY ZenonT(60), <1>4 DEF Checkpoint
<1> HIDE DEF ms, Source
<1>7. ASSUME NEW a \in cks \ checkpoints, NEW c \in Nat, a.commit_seq <= c, NEW roots,
             \A l \in checkpoints : l.owner = a.owner /\ l.commit_seq <= c => Leads(ms, l, c, roots)
      PROVE  Leads(ms, a, c, roots)
  <2>1. PICK l \in checkpoints : Source(a, l)
    BY ZenonT(60), <1>2
  <2>2. /\ l.owner = a.owner /\ l.commit_seq <= a.commit_seq
        /\ Leads(ms, l, a.commit_seq, a.roots)
    BY ZenonT(60), <2>1 DEF Source
  <2>3. l \in Checkpoint /\ a \in Checkpoint /\ l \in cks
    BY ZenonT(60), <1>1, <1>2, <1>4
  <2>4. Leads(ms, l, c, roots)
    BY SMTT(60), <2>2, <2>3, <1>6, <1>7
  <2> QED
    BY ZenonT(60), <2>2, <2>3, <2>4, <1>1, <1>7, LeadsOn
<1>8. ASSUME NEW k \in cks, NEW j \in cks, k.owner = j.owner, k.commit_seq <= j.commit_seq
      PROVE  Leads(ms, k, j.commit_seq, j.roots)
  <2>1. CASE k \in checkpoints /\ j \in checkpoints
    BY ZenonT(60), <2>1, <1>3, <1>8 DEF Chained
  <2>2. CASE k \in checkpoints /\ j \notin checkpoints
    <3>1. PICK l \in checkpoints : Source(j, l)
      BY ZenonT(60), <2>2, <1>2
    <3>2. /\ l.owner = j.owner /\ l.commit_seq <= j.commit_seq
          /\ Leads(ms, l, j.commit_seq, j.roots)
          /\ k.commit_seq <= l.commit_seq
      BY ZenonT(60), <3>1, <2>2, <1>8 DEF Source
    <3>3. Leads(ms, k, l.commit_seq, l.roots)
      BY ZenonT(60), <3>2, <2>2, <1>3, <1>8 DEF Chained
    <3>4. k \in Checkpoint /\ l \in Checkpoint /\ j.commit_seq \in Nat /\ k.owner = l.owner
      BY ZenonT(60), <3>2, <2>2, <1>1, <1>6, <1>8
    <3> QED
      BY ZenonT(60), <3>2, <3>3, <3>4, <1>1, LeadsOn
  <2>3. CASE k \notin checkpoints /\ j \in checkpoints
    <3>1. \A l \in checkpoints : l.owner = k.owner /\ l.commit_seq <= j.commit_seq
             => Leads(ms, l, j.commit_seq, j.roots)
      BY ZenonT(60), <2>3, <1>3, <1>8 DEF Chained
    <3> QED
      BY ZenonT(60), <3>1, <2>3, <1>6, <1>7, <1>8
  <2>4. CASE k \notin checkpoints /\ j \notin checkpoints
    <3>1. k = j
      BY SMTT(60), <2>4, <1>2, <1>8
    <3> QED
      BY ZenonT(60), <3>1, <1>1, <1>4, LeadsToItself
  <2> QED
    BY ZenonT(60), <2>1, <2>2, <2>3, <2>4
<1>9. ASSUME NEW k \in cks, k.owner \in Live
      PROVE  Leads(ms, k, device_heads[k.owner].latest_commit, device_heads[k.owner].shard_roots)
  <2>1. CASE k \in checkpoints
    BY ZenonT(60), <2>1, <1>3, <1>9 DEF Chained, Live
  <2>2. CASE k \notin checkpoints
    <3>1. \A l \in checkpoints : l.owner = k.owner
             => Leads(ms, l, device_heads[k.owner].latest_commit, device_heads[k.owner].shard_roots)
      BY ZenonT(60), <1>3, <1>9 DEF Chained, Live
    <3>2. k.commit_seq <= device_heads[k.owner].latest_commit
      BY ZenonT(60), <1>5, <1>9 DEF OwnsItsPast
    <3>3. device_heads[k.owner].latest_commit \in Nat
      BY ZenonT(60), <1>1, <1>9 DEF Head
    <3> QED
      BY ZenonT(60), <3>1, <3>2, <3>3, <2>2, <1>7
  <2> QED
    BY ZenonT(60), <2>1, <2>2
<1>10. ASSUME NEW k \in cks, k.owner \in Deleted
       PROVE  Leads(ms, k, current_commit_seq, deleted_device_heads[k.owner].shard_roots)
  <2>1. CASE k \in checkpoints
    BY ZenonT(60), <2>1, <1>3, <1>10 DEF Chained, Deleted
  <2>2. CASE k \notin checkpoints
    <3>1. \A l \in checkpoints : l.owner = k.owner
             => Leads(ms, l, current_commit_seq, deleted_device_heads[k.owner].shard_roots)
      BY ZenonT(60), <1>3, <1>10 DEF Chained, Deleted
    <3>2. k.commit_seq < next_commit_seq /\ k.commit_seq \in Nat
      BY ZenonT(60), <1>5, <1>6 DEF OwnsItsPast
    <3>3. current_commit_seq \in Nat /\ k.commit_seq <= current_commit_seq
      BY <3>2, <1>1 DEF current_commit_seq
    <3> QED
      BY ZenonT(60), <3>1, <3>3, <2>2, <1>7
  <2> QED
    BY ZenonT(60), <2>1, <2>2
<1>11. ASSUME NEW f \in fork_records, NEW k \in cks, k.owner = f.target
       PROVE  f.fork_seq <= k.commit_seq
  <2>1. \A l \in checkpoints : l.owner = f.target => f.fork_seq <= l.commit_seq
    BY SMTT(60) DEF TimelineInv, ForkStartsAtFork, TimelineCommits, CheckpointsOf
  <2>2. CASE k \in checkpoints
    BY ZenonT(60), <2>1, <2>2, <1>11
  <2>3. CASE k \notin checkpoints
    <3>1. PICK l \in checkpoints : Source(k, l)
      BY ZenonT(60), <2>3, <1>2
    <3>2. l.owner = f.target /\ l.commit_seq <= k.commit_seq
      BY ZenonT(60), <3>1, <1>11 DEF Source
    <3>3. f.fork_seq \in Nat /\ l.commit_seq \in Nat /\ k.commit_seq \in Nat
      BY ZenonT(60), <1>1, <1>4, <1>6 DEF ForkRecord
    <3> QED
      BY SMTT(60), <3>2, <3>3, <2>1
  <2> QED
    BY ZenonT(60), <2>2, <2>3
<1>12. Chained(ms, cks, device_heads, deleted_device_heads, current_commit_seq)
  BY ZenonT(60), <1>8, <1>9, <1>10 DEF Chained, Live, Deleted
<1> QED
  BY ZenonT(60), <1>4, <1>5, <1>11, <1>12 DEF ms

\* Steps that leave the history and the devices alone.
LEMMA QuietTimeline ==
    ASSUME TimelineInv, TypeOK',
           UNCHANGED <<next_commit_seq, next_device_id, device_heads, deleted_device_heads,
                       device_specs, checkpoints, shard_commits, fork_records>>
    PROVE  TimelineInv'
<1>1. \A e, b : OwnsItsPast(e, b)' <=> OwnsItsPast(e, b)
  BY ZenonT(60) DEF OwnsItsPast, Live, Deleted
<1>2. OwnersKnown'
  BY ZenonT(60), <1>1 DEF TimelineInv, OwnersKnown, Live, Deleted
<1>3. AllChained'
  BY ZenonT(60) DEF TimelineInv, AllChained, current_commit_seq
<1>4. ForkStartsAtFork'
  BY ZenonT(60) DEF TimelineInv, ForkStartsAtFork, TimelineCommits, CheckpointsOf
<1> QED
  BY ZenonT(60), <1>2, <1>3, <1>4 DEF TimelineInv

\* A collector call that only inserts anchors.
LEMMA AnchorsTimeline ==
    ASSUME Numbered, TimelineInv, TypeOK', NEW p \in Policies, checkpoints' = EnsurePitrAnchors(p),
           UNCHANGED <<next_commit_seq, next_device_id, device_heads, deleted_device_heads,
                       device_specs, shard_commits, fork_records>>
    PROVE  TimelineInv'
<1>1. PICK cks : cks = EnsurePitrAnchors(p)
  BY ZenonT(60)
<1>2. /\ Chained(shard_commits, cks, device_heads, deleted_device_heads, current_commit_seq)
      /\ \A k \in cks : OwnsItsPast(k.owner, k.commit_seq)
      /\ \A f \in fork_records : \A k \in cks :
            k.owner = f.target => f.fork_seq <= k.commit_seq
  BY ZenonT(60), <1>1, AnchorsChained
<1>3. \A e, b : OwnsItsPast(e, b)' <=> OwnsItsPast(e, b)
  BY ZenonT(60) DEF OwnsItsPast, Live, Deleted
<1>4. checkpoints' = cks /\ current_commit_seq' = current_commit_seq
  BY ZenonT(60), <1>1 DEF current_commit_seq
<1>5. OwnersKnown'
  <2>1. \A k \in checkpoints' : OwnsItsPast(k.owner, k.commit_seq)'
    BY ZenonT(60), <1>2, <1>3, <1>4
  <2> QED
    BY ZenonT(60), <2>1, <1>3 DEF TimelineInv, OwnersKnown, Live, Deleted
<1>6. AllChained'
  BY ZenonT(60), <1>2, <1>4 DEF AllChained
<1>7. ForkStartsAtFork'
  <2>1. \A f \in fork_records : \A m \in shard_commits :
           m.device = f.target => f.fork_seq <= m.commit_seq
    BY DEF TimelineInv, ForkStartsAtFork, TimelineCommits
  <2> QED
    BY ZenonT(60), <2>1, <1>2, <1>4 DEF ForkStartsAtFork, TimelineCommits, CheckpointsOf
<1> QED
  BY ZenonT(60), <1>5, <1>6, <1>7 DEF TimelineInv

\* The window starts at the retention floor.
LEMMA WindowFloor ==
    ASSUME TypeOK, NEW p \in Policies, p.pitr_grace_commits > 0
    PROVE  /\ RetentionFloor(p) \in Nat
           /\ \A c \in Nat : RetainPitrCommit(p, c) <=> RetentionFloor(p) <= c
<1>1. PICK g \in Nat \ {0} : g = p.pitr_grace_commits
  <2>1. p.pitr_grace_commits \in Nat
    BY ZenonT(60), ConstantsAssumption DEF RetentionPolicy
  <2> QED
    BY <2>1
<1>2. PICK n \in Nat : n = current_commit_seq
  BY DEF TypeOK, current_commit_seq
<1>3. RetentionFloor(p) = IF n > g - 1 THEN n - (g - 1) ELSE 0
  BY <1>1, <1>2, Zenon DEF RetentionFloor, Minus
<1>4. \A c \in Nat : RetainPitrCommit(p, c) <=> (IF n > c THEN n - c ELSE 0) < g
  BY ZenonT(60), <1>1, <1>2 DEF RetainPitrCommit, Minus
<1>5. RetentionFloor(p) \in Nat
  BY <1>3
<1>6. ASSUME NEW c \in Nat
      PROVE  (IF n > c THEN n - c ELSE 0) < g <=> RetentionFloor(p) <= c
  BY SMTT(60), <1>3
<1> QED
  BY ZenonT(60), <1>4, <1>5, <1>6

-----------------------------------------------------------------------------
(* Sweeps.                                                                  *)

\* Once the anchors are in, the latest checkpoint at or before the floor exists for
\* every device with a retained window, is kept, and no kept one is earlier.
LEMMA SweepWindow ==
    ASSUME Numbered, TimelineInv, NEW p \in Policies, Unanchored(p) = {}, InsertAnchors(p),
           NEW cks, cks = EnsurePitrAnchors(p), NEW d \in AnchorOwners(p),
           NEW a, a = LatestCheckpoint(cks, d, RetentionFloor(p))
    PROVE  /\ HasCheckpoint(cks, d, RetentionFloor(p))
           /\ a \in cks /\ a.owner = d /\ a.commit_seq <= RetentionFloor(p)
           /\ \A j \in cks : j.owner = d /\ j.commit_seq <= RetentionFloor(p)
                 => j.commit_seq <= a.commit_seq
           /\ RetainCheckpoint(p, cks, a)
           /\ \A k \in cks : k.owner = d /\ RetainCheckpoint(p, cks, k)
                 => a.commit_seq <= k.commit_seq
<1>1. TypeOK
  BY ZenonT(60) DEF TimelineInv
<1>2. d \in Live \cup Deleted /\ OwnerHasRetainedPitr(p, d) /\ p.pitr_grace_commits > 0
  BY ZenonT(60) DEF AnchorOwners, OwnerHasRetainedPitr
<1>3. PICK floor \in Nat : floor = RetentionFloor(p)
  BY ZenonT(60), <1>1, <1>2, WindowFloor
<1>4. PICK t \in Nat : t = AnchorTarget(p, d)
  BY <1>1, AnchorTargetType
<1>5. t <= floor
  <2>1. d \in Live => device_heads[d].latest_commit \in Nat
    BY ZenonT(60), <1>1 DEF TypeOK, Head
  <2>2. d \in Deleted => deleted_device_heads[d].latest_commit \in Nat
    BY ZenonT(60), <1>1 DEF TypeOK, Head
  <2> QED
    BY <2>1, <2>2, <1>2, <1>3, <1>4 DEF AnchorTarget
<1>6. \E k \in cks : k.owner = d /\ k.commit_seq = t
  <2>1. CASE d \in MissingAnchors(p)
    <3>1. d \in InsertedAnchors(p)
      BY ZenonT(60), <2>1 DEF InsertedAnchors
    <3>2. Anchor(p, d) \in cks /\ Anchor(p, d).owner = d /\ Anchor(p, d).commit_seq = t
      BY ZenonT(60), <3>1, <1>4 DEF EnsurePitrAnchors, Anchor
    <3> QED
      BY ZenonT(60), <3>2
  <2>2. CASE d \notin MissingAnchors(p)
    BY <2>2, <1>4 DEF MissingAnchors, CheckpointsOf, EnsurePitrAnchors
  <2> QED
    BY ZenonT(60), <2>1, <2>2
<1>7. HasCheckpoint(cks, d, floor)
  BY <1>5, <1>6 DEF HasCheckpoint, CheckpointsOf
<1>8. PICK b \in Nat : /\ cks \in SUBSET Checkpoint
                       /\ \A k \in cks : k.id < b
  BY <1>1, EnsuredType
<1>9. /\ a \in CheckpointsOf(cks, d)
      /\ a.commit_seq <= floor
      /\ \A j \in CheckpointsOf(cks, d) : j.commit_seq <= floor => j.commit_seq <= a.commit_seq
  BY <1>3, <1>7, <1>8, LatestCheckpointIn
<1>10. a \in cks /\ a.owner = d /\ a \in Checkpoint
  BY <1>8, <1>9 DEF CheckpointsOf
<1>11. RetainCheckpoint(p, cks, a)
  BY <1>2, <1>3, <1>7, <1>10 DEF RetainCheckpoint, IsRetainedAnchor
<1>12. ASSUME NEW k \in cks, k.owner = d, RetainCheckpoint(p, cks, k)
       PROVE  a.commit_seq <= k.commit_seq
  <2>1. k.commit_seq \in Nat /\ a.commit_seq \in Nat
    BY ZenonT(60), <1>8, <1>10 DEF Checkpoint
  <2>2. CASE RetainPitrCommit(p, k.commit_seq)
    <3>1. floor <= k.commit_seq
      BY ZenonT(60), <2>1, <2>2, <1>1, <1>2, <1>3, WindowFloor
    <3> QED
      BY <3>1, <2>1, <1>9
  <2>3. CASE IsRetainedAnchor(p, cks, k)
    <3>1. k = a
      BY ZenonT(60), <2>3, <1>12 DEF IsRetainedAnchor
    <3> QED
      BY <3>1, <2>1
  <2> QED
    BY ZenonT(60), <2>2, <2>3, <1>12 DEF RetainCheckpoint
<1> QED
  BY ZenonT(60), <1>3, <1>7, <1>9, <1>10, <1>11, <1>12 DEF CheckpointsOf

\* A sweep that does not fail, on the history and the devices.
SweptTimeline(p, cks) ==
    /\ Unanchored(p) = {} /\ InsertAnchors(p)
    /\ deleted_device_heads' = Without(deleted_device_heads, ExpiredDevices(p))
    /\ device_specs' = device_specs \ ExpiredDevices(p)
    /\ checkpoints' = {k \in cks : RetainCheckpoint(p, cks, k)}
    /\ shard_commits' = {m \in shard_commits :
          m.device \in AnchorOwners(p) /\ AfterAnchor(p, cks, m)}
    /\ fork_records' = {f \in fork_records : {f.source, f.target} \cap ExpiredDevices(p) = {}}
    /\ UNCHANGED <<next_commit_seq, next_device_id, device_heads>>

\* The commits after a kept checkpoint are kept.
LEMMA SweepKeepsCommits ==
    ASSUME Numbered, TimelineInv, NEW p \in Policies, NEW cks, cks = EnsurePitrAnchors(p),
           SweptTimeline(p, cks), NEW k \in checkpoints'
    PROVE  /\ k \in cks /\ k \in Checkpoint /\ k.owner \in AnchorOwners(p)
           /\ \A m \in ShardCommit : m.device = k.owner /\ k.commit_seq < m.commit_seq
                 => (m \in shard_commits' <=> m \in shard_commits)
<1>1. k \in cks /\ RetainCheckpoint(p, cks, k)
  BY ZenonT(60) DEF SweptTimeline
<1>2. cks \subseteq Checkpoint /\ OwnsItsPast(k.owner, k.commit_seq)
  BY ZenonT(60), <1>1, AnchorsChained
<1>3. k.owner \in AnchorOwners(p)
  BY ZenonT(60), <1>1, <1>2 DEF RetainCheckpoint, AnchorOwners, OwnsItsPast
<1>4. PICK a : a = LatestCheckpoint(cks, k.owner, RetentionFloor(p))
  BY ZenonT(60)
<1>5. Unanchored(p) = {} /\ InsertAnchors(p)
  BY ZenonT(60) DEF SweptTimeline
<1>6. /\ HasCheckpoint(cks, k.owner, RetentionFloor(p))
      /\ a \in cks /\ a.commit_seq <= k.commit_seq
  BY ZenonT(60), <1>1, <1>3, <1>4, <1>5, SweepWindow
<1>7. ASSUME NEW m \in ShardCommit, m.device = k.owner, k.commit_seq < m.commit_seq
      PROVE  m \in shard_commits' <=> m \in shard_commits
  <2>1. m.commit_seq \in Nat /\ a.commit_seq \in Nat /\ k.commit_seq \in Nat
    BY ZenonT(60), <1>1, <1>2, <1>6 DEF ShardCommit, Checkpoint
  <2>2. m.commit_seq > a.commit_seq
    BY <2>1, <1>6, <1>7
  <2>3. m.device \in AnchorOwners(p) /\ AfterAnchor(p, cks, m)
    BY ZenonT(60), <2>2, <1>3, <1>4, <1>6, <1>7 DEF AfterAnchor
  <2> QED
    BY ZenonT(60), <2>3 DEF SweptTimeline
<1> QED
  BY ZenonT(60), <1>1, <1>2, <1>3, <1>7

\* sweep_unmarked_after_mark: what it drops is not needed by what it keeps.
LEMMA SweptTimelineKept ==
    ASSUME Numbered, TimelineInv, TypeOK', NEW p \in Policies, NEW cks, cks = EnsurePitrAnchors(p),
           SweptTimeline(p, cks)
    PROVE  TimelineInv'
<1> DEFINE expired == ExpiredDevices(p)
<1>1. /\ cks \subseteq Checkpoint
      /\ Chained(shard_commits, cks, device_heads, deleted_device_heads, current_commit_seq)
      /\ \A k \in cks : OwnsItsPast(k.owner, k.commit_seq)
      /\ \A f \in fork_records : \A k \in cks :
            k.owner = f.target => f.fork_seq <= k.commit_seq
  BY ZenonT(60), AnchorsChained
<1>2. OwnersKnown /\ ForkStartsAtFork /\ TypeOK
  BY ZenonT(60) DEF TimelineInv
<1>3. /\ shard_commits \in SUBSET ShardCommit /\ shard_commits' \in SUBSET ShardCommit
      /\ device_heads \in [Live -> Head] /\ next_commit_seq \in Nat \ {0}
  BY ZenonT(60), <1>2 DEF TypeOK
<1>4. /\ deleted_device_heads' = Without(deleted_device_heads, expired)
      /\ device_specs' = device_specs \ expired
      /\ checkpoints' \subseteq cks /\ shard_commits' \subseteq shard_commits
      /\ fork_records' \subseteq fork_records
      /\ \A f \in fork_records' : f.target \notin expired
      /\ \A m \in shard_commits' : m.device \in AnchorOwners(p)
      /\ next_commit_seq' = next_commit_seq /\ next_device_id' = next_device_id
      /\ device_heads' = device_heads
  BY DEF SweptTimeline
<1>5. expired \subseteq Deleted /\ AnchorOwners(p) \cap expired = {}
  BY ZenonT(60), <1>2 DEF ExpiredDevices, AnchorOwners, OwnerHasRetainedPitr, OwnersKnown
<1>6. /\ Live' = Live /\ Deleted' = Deleted \ expired
      /\ \A e \in Deleted' : deleted_device_heads'[e] = deleted_device_heads[e]
  <2> HIDE DEF expired
  <2> QED
    BY ZenonT(60), <1>4 DEF Live, Deleted, Without
<1> HIDE DEF expired
<1>7. ASSUME NEW e, NEW b, OwnsItsPast(e, b), e \notin expired PROVE OwnsItsPast(e, b)'
  BY ZenonT(60), <1>4, <1>6, <1>7 DEF OwnsItsPast
<1>8. OwnersKnown'
  <2>1. /\ Live' \cap Deleted' = {}
        /\ device_specs' = Live' \cup Deleted'
        /\ \A e \in Live' \cup Deleted' : e < next_device_id'
    BY ZenonT(60), <1>2, <1>4, <1>5, <1>6 DEF OwnersKnown
  <2>2. /\ \A e \in Live' : device_heads'[e].latest_commit < next_commit_seq'
        /\ \A e \in Deleted' : deleted_device_heads'[e].latest_commit < next_commit_seq'
    BY ZenonT(60), <1>2, <1>4, <1>6 DEF OwnersKnown
  <2>3. ASSUME NEW k \in checkpoints' PROVE OwnsItsPast(k.owner, k.commit_seq)'
    <3>1. k.owner \in AnchorOwners(p)
      BY ZenonT(60), SweepKeepsCommits
    <3> QED
      BY ZenonT(60), <3>1, <1>1, <1>4, <1>5, <1>7
  <2>4. ASSUME NEW m \in shard_commits' PROVE OwnsItsPast(m.device, m.commit_seq)'
    <3>1. m.device \in AnchorOwners(p) /\ OwnsItsPast(m.device, m.commit_seq)
      BY ZenonT(60), <1>2, <1>4 DEF OwnersKnown
    <3> QED
      BY ZenonT(60), <3>1, <1>5, <1>7
  <2>5. ASSUME NEW f \in fork_records' PROVE OwnsItsPast(f.target, f.fork_seq)'
    <3>1. f.target \notin expired /\ OwnsItsPast(f.target, f.fork_seq)
      BY ZenonT(60), <1>2, <1>4 DEF OwnersKnown
    <3> QED
      BY ZenonT(60), <3>1, <1>7
  <2> QED
    BY ZenonT(60), <2>1, <2>2, <2>3, <2>4, <2>5 DEF OwnersKnown
<1>9. ASSUME NEW k \in checkpoints', NEW c \in Nat, NEW roots
      PROVE  Leads(shard_commits, k, c, roots) <=> Leads(shard_commits', k, c, roots)
  <2>1. /\ k \in Checkpoint
        /\ \A m \in ShardCommit : m.device = k.owner /\ k.commit_seq < m.commit_seq
              => (m \in shard_commits' <=> m \in shard_commits)
    BY ZenonT(60), SweepKeepsCommits
  <2> QED
    BY ZenonT(60), <2>1, <1>3, SameCommits
<1>10. AllChained'
  <2> DEFINE ns == shard_commits'
  <2>0. current_commit_seq' = current_commit_seq /\ current_commit_seq \in Nat
    BY <1>3, <1>4 DEF current_commit_seq
  <2>1. ASSUME NEW k \in checkpoints', NEW j \in checkpoints',
               k.owner = j.owner, k.commit_seq <= j.commit_seq
        PROVE  Leads(ns, k, j.commit_seq, j.roots)
    <3>1. Leads(shard_commits, k, j.commit_seq, j.roots) /\ j.commit_seq \in Nat
      BY ZenonT(60), <2>1, <1>1, <1>4 DEF Chained, Checkpoint
    <3> QED
      BY ZenonT(60), <3>1, <1>9
  <2>2. ASSUME NEW k \in checkpoints', k.owner \in Live'
        PROVE  Leads(ns, k, device_heads'[k.owner].latest_commit,
                     device_heads'[k.owner].shard_roots)
    <3>1. Leads(shard_commits, k, device_heads[k.owner].latest_commit,
                device_heads[k.owner].shard_roots)
      BY ZenonT(60), <2>2, <1>1, <1>4, <1>6 DEF Chained, Live
    <3>2. device_heads[k.owner].latest_commit \in Nat
      BY ZenonT(60), <2>2, <1>3, <1>6 DEF Head
    <3> QED
      BY ZenonT(60), <3>1, <3>2, <1>4, <1>9
  <2>3. ASSUME NEW k \in checkpoints', k.owner \in Deleted'
        PROVE  Leads(ns, k, current_commit_seq', deleted_device_heads'[k.owner].shard_roots)
    <3>1. Leads(shard_commits, k, current_commit_seq, deleted_device_heads[k.owner].shard_roots)
      BY ZenonT(60), <2>3, <1>1, <1>4, <1>6 DEF Chained, Deleted
    <3> QED
      BY ZenonT(60), <3>1, <2>0, <2>3, <1>6, <1>9
  <2> HIDE DEF ns
  <2> QED
    BY ZenonT(60), <2>1, <2>2, <2>3 DEF AllChained, Chained, Live, Deleted, ns
<1>11. ForkStartsAtFork'
  <2>1. \A f \in fork_records : \A m \in shard_commits :
           m.device = f.target => f.fork_seq <= m.commit_seq
    BY ZenonT(60), <1>2 DEF ForkStartsAtFork, TimelineCommits
  <2> QED
    BY ZenonT(60), <2>1, <1>1, <1>4 DEF ForkStartsAtFork, TimelineCommits, CheckpointsOf
<1> QED
  BY ZenonT(60), <1>8, <1>10, <1>11 DEF TimelineInv

\* A sweep either drops what its policy puts outside the window, or only inserts
\* anchors.
LEMMA SweepCases ==
    ASSUME NEW p, NEW e, SweepUnmarked(p, e)
    PROVE  \/ SweptTimeline(p, EnsurePitrAnchors(p))
           \/ /\ checkpoints' = EnsurePitrAnchors(p)
              /\ UNCHANGED <<next_commit_seq, next_device_id, device_heads, deleted_device_heads,
                             device_specs, shard_commits, fork_records>>
  BY ZenonT(60) DEF SweepUnmarked, SweptTimeline

-----------------------------------------------------------------------------
(* The results.                                                             *)

\* The empty metadata plane has no history.
LEMMA TimelineInit == Init => TimelineInv
<1> SUFFICES ASSUME Init PROVE TimelineInv
  OBVIOUS
<1>1. TypeOK
  BY ZenonT(60), InitType
<1>2. Live = {} /\ Deleted = {} /\ checkpoints = {} /\ shard_commits = {} /\ fork_records = {}
      /\ device_specs = {}
  BY ZenonT(60) DEF Init, Live, Deleted
<1>3. OwnersKnown /\ AllChained /\ ForkStartsAtFork
  BY <1>2 DEF OwnersKnown, AllChained, Chained, ForkStartsAtFork
<1> QED
  BY ZenonT(60), <1>1, <1>3 DEF TimelineInv

\* Every step keeps the history connected.
LEMMA TimelineStep == Numbered /\ TimelineInv /\ [Next]_vars => TimelineInv'
<1> SUFFICES ASSUME Numbered, TimelineInv, [Next]_vars PROVE TimelineInv'
  OBVIOUS
<1>1. TypeOK'
  BY ZenonT(60), TypeStep DEF TimelineInv
<1>2. CASE DeviceStep
  BY ZenonT(60), <1>2, CreateDeviceTimeline, ForkDeviceTimeline, RestoreDeviceTimeline,
     DeleteDeviceTimeline, CheckpointDeviceTimeline DEF DeviceStep
<1>3. ASSUME NEW w \in Writers, WriterStep(w) PROVE TimelineInv'
  <2>1. CASE PublishCommitGroup(w)
    BY ZenonT(60), <2>1, PublishTimeline
  <2>2. CASE ~ PublishCommitGroup(w)
    <3>1. UNCHANGED <<next_commit_seq, next_device_id, device_heads, deleted_device_heads,
                      device_specs, checkpoints, shard_commits, fork_records>>
      BY <1>3, <2>2, ZenonT(60) DEF WriterStep, ReadShardRoot, EditShard, EditShardFails,
         PublishRejected, counters, timeline, devices
    <3> QED
      BY ZenonT(60), <3>1, <1>1, QuietTimeline
  <2> QED
    BY ZenonT(60), <2>1, <2>2
<1>4. ASSUME NEW p \in Policies, MarkReachable(p) PROVE TimelineInv'
  BY ZenonT(60), <1>1, <1>4, AnchorsTimeline DEF MarkReachable, devices
<1>5. ASSUME NEW p \in Policies, NEW e, SweepUnmarked(p, e) PROVE TimelineInv'
  BY ZenonT(60), <1>1, <1>5, SweepCases, SweptTimelineKept, AnchorsTimeline
<1>6. CASE UNCHANGED vars
  BY ZenonT(60), <1>1, <1>6, QuietTimeline DEF vars, counters, timeline, devices
<1> QED
  BY ZenonT(60), <1>2, <1>3, <1>4, <1>5, <1>6 DEF Next, GcStep

\* The replay of the next state, over its checkpoints and its commits.
LEMMA ReplayStoredNext ==
    ASSUME NEW d, NEW c, NEW l, l = LatestCheckpoint(checkpoints', d, c)
    PROVE  /\ Replays(d, c)' <=> HasCheckpoint(checkpoints', d, c) /\ Connects(shard_commits', l, c)
           /\ ReplayDeviceRoots(d, c)' = [s \in Shards |-> RootAt(shard_commits', l, s, c)]
<1>1. \A e, s, a, b : Between(e, s, a, b)' = Stretch(shard_commits', e, s, a, b)
  BY Zenon DEF Between, Stretch
<1>2. \A k, s, b : ReplayedRoot(k, s, b)' = RootAt(shard_commits', k, s, b)
  BY <1>1, Zenon DEF ReplayedRoot, RootAt
<1>3. \A k : ReplayConnects(k, c)' <=> Connects(shard_commits', k, c)
  BY <1>1, <1>2, Zenon DEF ReplayConnects, Connects
<1>4. \A k : ReplayedRoots(k, c)' = [s \in Shards |-> RootAt(shard_commits', k, s, c)]
  BY <1>2, Zenon DEF ReplayedRoots
<1>5. Replays(d, c)' <=> HasCheckpoint(checkpoints', d, c) /\ ReplayConnects(l, c)'
  BY Zenon DEF Replays
<1>6. ReplayDeviceRoots(d, c)' = ReplayedRoots(l, c)'
  BY Zenon DEF ReplayDeviceRoots
<1> QED
  BY ZenonT(60), <1>3, <1>4, <1>5, <1>6

\* When some checkpoint of the device leads to the roots, replay of the next state
\* does, from whichever checkpoint it starts.
LEMMA RestorableNext ==
    ASSUME Numbered, TimelineInv', NEW d, NEW c \in Nat, NEW roots \in Roots, NEW k \in checkpoints',
           k.owner = d, k.commit_seq <= c, Leads(shard_commits', k, c, roots)
    PROVE  Replays(d, c)' /\ ReplayDeviceRoots(d, c)' = roots
<1>1. /\ checkpoints' \in SUBSET Checkpoint /\ shard_commits' \in SUBSET ShardCommit
      /\ next_checkpoint_id' \in Nat /\ \A j \in checkpoints' : j.id < next_checkpoint_id'
  BY ZenonT(60) DEF TimelineInv, TypeOK
<1>2. \A j, i \in checkpoints' : j.owner = i.owner /\ j.commit_seq <= i.commit_seq
         => Leads(shard_commits', j, i.commit_seq, i.roots)
  BY DEF TimelineInv, AllChained, Chained
<1>3. HasCheckpoint(checkpoints', d, c)
  BY DEF HasCheckpoint, CheckpointsOf
<1>4. PICK l : l = LatestCheckpoint(checkpoints', d, c)
  BY ZenonT(60)
<1>5. /\ l \in CheckpointsOf(checkpoints', d) /\ l.commit_seq <= c
      /\ \A j \in CheckpointsOf(checkpoints', d) : j.commit_seq <= c
            => j.commit_seq <= l.commit_seq
  BY ZenonT(60), <1>1, <1>3, <1>4, LatestCheckpointIn
<1>6. l \in checkpoints' /\ l.owner = d /\ k.commit_seq <= l.commit_seq
  BY ZenonT(60), <1>5 DEF CheckpointsOf
<1>7. Leads(shard_commits', k, l.commit_seq, l.roots)
  BY ZenonT(60), <1>2, <1>6
<1>8. Leads(shard_commits', l, c, roots)
  BY ZenonT(60), <1>1, <1>5, <1>6, <1>7, LeadsOn
<1>9. Replays(d, c)'
  BY ZenonT(60), <1>3, <1>4, <1>8, ReplayStoredNext DEF Leads
<1>10. ReplayDeviceRoots(d, c)' = [s \in Shards |-> RootAt(shard_commits', l, s, c)]
  BY <1>4, ReplayStoredNext
<1> QED
  BY ZenonT(60), <1>8, <1>9, <1>10 DEF Leads, Roots

\* The history only grows: what is stored stays, and what is new is later.
Grows ==
    /\ device_specs \subseteq device_specs'
    /\ checkpoints \subseteq checkpoints'
    /\ shard_commits \subseteq shard_commits'
    /\ \A m \in shard_commits' \ shard_commits : m.commit_seq = next_commit_seq

\* Every step but a sweep that drops history only lets it grow.
LEMMA StepsGrow ==
    ASSUME TimelineInv, [Next]_vars
    PROVE  \/ Grows
           \/ \E p \in Policies, e \in 1 .. MaxEpoch :
                 SweepUnmarked(p, e) /\ SweptTimeline(p, EnsurePitrAnchors(p))
<1>1. ASSUME CreateDevice PROVE Grows
  BY ZenonT(60), <1>1 DEF CreateDevice, InsertCheckpoint, Grows
<1>2. ASSUME NEW d, NEW t, ForkDevice(d, t) PROVE Grows
  BY ZenonT(60), <1>2 DEF ForkDevice, StartFrom, InsertCheckpoint, Grows
<1>3. ASSUME NEW d, NEW point, RestoreDevice(d, point) PROVE Grows
  BY ZenonT(60), <1>3 DEF RestoreDevice, StartFrom, InsertCheckpoint, Grows
<1>4. ASSUME NEW d, DeleteDevice(d) PROVE Grows
  BY ZenonT(60), <1>4 DEF DeleteDevice, timeline, Grows
<1>5. ASSUME NEW d, CheckpointDevice(d) PROVE Grows
  BY <1>5 DEF CheckpointDevice, InsertCheckpoint, devices, Grows
<1>6. ASSUME NEW w \in Writers, WriterStep(w) PROVE Grows
  <2>1. CASE PublishCommitGroup(w)
    <3>1. /\ device_specs' = device_specs /\ checkpoints' = checkpoints
          /\ shard_commits' = shard_commits \cup
                {[commit_seq |-> next_commit_seq, device |-> edits[w].device, shard |-> s,
                  old_root |-> edits[w].old[s], new_root |-> edits[w].new[s]]
                 : s \in EditedShards(w)}
      BY <2>1, Zenon DEF PublishCommitGroup
    <3> QED
      BY <3>1 DEF Grows
  <2>2. CASE ~ PublishCommitGroup(w)
    <3>1. UNCHANGED <<device_specs, checkpoints, shard_commits>>
      BY <1>6, <2>2, ZenonT(60) DEF WriterStep, ReadShardRoot, EditShard, EditShardFails,
         PublishRejected, counters, timeline, devices
    <3> QED
      BY <3>1 DEF Grows
  <2> QED
    BY ZenonT(60), <2>1, <2>2
<1>7. ASSUME NEW p \in Policies, MarkReachable(p) PROVE Grows
  BY ZenonT(60), <1>7 DEF MarkReachable, devices, EnsurePitrAnchors, Grows
<1>8. ASSUME NEW p \in Policies, NEW e \in 1 .. MaxEpoch, SweepUnmarked(p, e)
      PROVE  Grows \/ SweptTimeline(p, EnsurePitrAnchors(p))
  <2>1. CASE checkpoints' = EnsurePitrAnchors(p) /\ UNCHANGED <<device_specs, shard_commits>>
    BY ZenonT(60), <2>1 DEF EnsurePitrAnchors, Grows
  <2> QED
    BY ZenonT(60), <2>1, <1>8, SweepCases
<1>9. CASE UNCHANGED vars
  BY <1>9 DEF vars, timeline, devices, Grows
<1> QED
  BY ZenonT(60), <1>1, <1>2, <1>3, <1>4, <1>5, <1>6, <1>7, <1>8, <1>9 DEF Next, DeviceStep, GcStep

\* A sweep keeps the points its policy puts inside the window.
LEMMA SweepKeepsWindow ==
    ASSUME Numbered, TimelineInv, TimelineInv', NEW p \in Policies, NEW cks, cks = EnsurePitrAnchors(p),
           SweptTimeline(p, cks), NEW d \in device_specs, NEW c \in TimelineCommits(d),
           c \in Nat, OwnerHasRetainedPitr(p, d), RetainPitrCommit(p, c),
           NEW roots \in Roots, NEW l \in checkpoints, l.owner = d, l.commit_seq <= c,
           Leads(shard_commits, l, c, roots)
    PROVE  /\ d \in device_specs' /\ (c \in TimelineCommits(d))'
           /\ Replays(d, c)' /\ ReplayDeviceRoots(d, c)' = roots
<1>1. TypeOK /\ OwnersKnown
  BY DEF TimelineInv
<1>2. d \in AnchorOwners(p) /\ p.pitr_grace_commits > 0
  BY ZenonT(60), <1>1 DEF AnchorOwners, OwnersKnown, OwnerHasRetainedPitr
<1>3. PICK floor \in Nat : floor = RetentionFloor(p)
  BY ZenonT(60), <1>1, <1>2, WindowFloor
<1>4. floor <= c
  BY ZenonT(60), <1>1, <1>2, <1>3, WindowFloor
<1>5. PICK a : a = LatestCheckpoint(cks, d, floor)
  BY ZenonT(60)
<1>6. Unanchored(p) = {} /\ InsertAnchors(p)
  BY ZenonT(60) DEF SweptTimeline
<1>7. /\ HasCheckpoint(cks, d, floor) /\ a \in cks /\ a.owner = d /\ a.commit_seq <= floor
      /\ RetainCheckpoint(p, cks, a)
  <2>1. a = LatestCheckpoint(cks, d, RetentionFloor(p))
    BY ZenonT(60), <1>3, <1>5
  <2>2. /\ HasCheckpoint(cks, d, RetentionFloor(p)) /\ a \in cks /\ a.owner = d
        /\ a.commit_seq <= RetentionFloor(p) /\ RetainCheckpoint(p, cks, a)
    BY <2>1, <1>2, <1>6, SweepWindow
  <2> QED
    BY ZenonT(60), <2>2, <1>3
<1>8. /\ cks \subseteq Checkpoint /\ checkpoints \subseteq cks
      /\ Chained(shard_commits, cks, device_heads, deleted_device_heads, current_commit_seq)
  BY ZenonT(60), AnchorsChained
<1>9. /\ a \in Checkpoint /\ l \in Checkpoint /\ a.commit_seq \in Nat /\ l.commit_seq \in Nat
      /\ a.commit_seq <= c /\ shard_commits \in SUBSET ShardCommit
      /\ shard_commits' \in SUBSET ShardCommit
  <2>1. a \in Checkpoint /\ l \in Checkpoint
    BY ZenonT(60), <1>7, <1>8
  <2>2. shard_commits \in SUBSET ShardCommit /\ shard_commits' \in SUBSET ShardCommit
    BY ZenonT(60) DEF TimelineInv, TypeOK
  <2> QED
    BY <2>1, <2>2, <1>4, <1>7 DEF Checkpoint
<1>10. a \in checkpoints'
  BY ZenonT(60), <1>7 DEF SweptTimeline
<1>11. Leads(shard_commits, a, c, roots)
  <2>1. CASE l.commit_seq <= a.commit_seq
    <3>1. Leads(shard_commits, l, a.commit_seq, a.roots)
      BY ZenonT(60), <2>1, <1>7, <1>8 DEF Chained
    <3> QED
      BY ZenonT(60), <3>1, <2>1, <1>7, <1>9, LeadsOn
  <2>2. CASE a.commit_seq <= l.commit_seq
    <3>1. Leads(shard_commits, a, l.commit_seq, l.roots)
      BY ZenonT(60), <2>2, <1>7, <1>8 DEF Chained
    <3> QED
      BY ZenonT(60), <3>1, <2>2, <1>7, <1>9, LeadsOn
  <2> QED
    BY <2>1, <2>2, <1>9
<1>12. Leads(shard_commits', a, c, roots)
  <2>1. \A m \in ShardCommit : m.device = a.owner /\ a.commit_seq < m.commit_seq
           => (m \in shard_commits' <=> m \in shard_commits)
    BY <1>10, SweepKeepsCommits
  <2> QED
    BY ZenonT(60), <2>1, <1>9, <1>11, SameCommits
<1>13. Replays(d, c)' /\ ReplayDeviceRoots(d, c)' = roots
  BY <1>7, <1>9, <1>10, <1>12, RestorableNext
<1>14. d \in device_specs'
  <2>1. d \notin ExpiredDevices(p)
    BY <1>1 DEF ExpiredDevices, OwnerHasRetainedPitr, OwnersKnown
  <2> QED
    BY <2>1 DEF SweptTimeline
<1>15. (c \in TimelineCommits(d))'
  <2>1. TimelineCommits(d)' = {k.commit_seq : k \in {j \in checkpoints' : j.owner = d}}
                                \cup {m.commit_seq : m \in {n \in shard_commits' : n.device = d}}
    BY ZenonT(60) DEF TimelineCommits, CheckpointsOf
  <2>2. CASE \E k \in checkpoints : k.owner = d /\ k.commit_seq = c
    <3>1. PICK k \in checkpoints : k.owner = d /\ k.commit_seq = c
      BY ZenonT(60), <2>2
    <3>2. k \in cks /\ RetainCheckpoint(p, cks, k)
      BY ZenonT(60), <3>1, <1>8 DEF RetainCheckpoint
    <3>3. k \in checkpoints'
      BY ZenonT(60), <3>2 DEF SweptTimeline
    <3> QED
      BY ZenonT(60), <3>1, <3>3, <2>1
  <2>3. CASE \E m \in shard_commits : m.device = d /\ m.commit_seq = c
    <3>1. PICK m \in shard_commits : m.device = d /\ m.commit_seq = c
      BY ZenonT(60), <2>3
    <3>2. CASE a.commit_seq = c
      BY ZenonT(60), <3>2, <2>1, <1>7, <1>10
    <3>3. CASE a.commit_seq # c
      <4>1. m.commit_seq > a.commit_seq
        <5>1. a.commit_seq < c
          BY <3>3, <1>9
        <5> QED
          BY ZenonT(60), <5>1, <3>1, <1>9
      <4>2. AfterAnchor(p, cks, m)
        BY ZenonT(60), <4>1, <3>1, <1>3, <1>5, <1>7 DEF AfterAnchor
      <4>3. m \in shard_commits'
        BY ZenonT(60), <4>2, <3>1, <1>2 DEF SweptTimeline
      <4> QED
        BY ZenonT(60), <4>3, <3>1, <2>1
    <3> QED
      BY ZenonT(60), <3>2, <3>3
  <2> QED
    BY <2>2, <2>3 DEF TimelineCommits, CheckpointsOf
<1> QED
  BY ZenonT(60), <1>13, <1>14, <1>15

\* A step that lets the history grow keeps every point.
LEMMA GrowthKeeps ==
    ASSUME Numbered, TimelineInv, TimelineInv', Grows, NEW d \in device_specs,
           NEW c \in TimelineCommits(d), c \in Nat, c < next_commit_seq,
           NEW roots \in Roots, NEW l \in checkpoints, l.owner = d, l.commit_seq <= c,
           Leads(shard_commits, l, c, roots)
    PROVE  /\ d \in device_specs' /\ (c \in TimelineCommits(d))'
           /\ Replays(d, c)' /\ ReplayDeviceRoots(d, c)' = roots
<1>1. /\ l \in Checkpoint /\ shard_commits \in SUBSET ShardCommit
      /\ shard_commits' \in SUBSET ShardCommit /\ next_commit_seq \in Nat
  BY ZenonT(60) DEF TimelineInv, TypeOK
<1>2. l \in checkpoints' /\ d \in device_specs'
  BY ZenonT(60) DEF Grows
<1>3. \A m \in ShardCommit : m.commit_seq <= c => (m \in shard_commits <=> m \in shard_commits')
  BY <1>1 DEF Grows, ShardCommit
<1>4. Leads(shard_commits', l, c, roots)
  BY ZenonT(60), <1>1, <1>3, SameCommits
<1>5. Replays(d, c)' /\ ReplayDeviceRoots(d, c)' = roots
  BY ZenonT(60), <1>2, <1>4, RestorableNext
<1>6. (c \in TimelineCommits(d))'
  BY DEF Grows, TimelineCommits, CheckpointsOf
<1> QED
  BY ZenonT(60), <1>2, <1>5, <1>6

-----------------------------------------------------------------------------
LOCAL FST == INSTANCE FiniteSetTheorems

\* What the lemmas assume of numbers holds.
LEMMA Counted == Numbered
<1>1. ASSUME NEW T \in SUBSET Nat, T # {}
      PROVE  \E x \in T : \A y \in T : x <= y
  <2>1. PICK x \in T : \A y \in T : ~ (<<y, x>> \in FST!OpToRel(<, Nat))
    BY ZenonT(60), <1>1, FST!WFMin, FST!NatLessThanWellFounded
  <2>2. \A y \in T : ~ (y < x)
    BY ZenonT(60), <2>1 DEF FST!OpToRel
  <2> QED
    BY <2>2
<1>2. ASSUME NEW b \in Nat, NEW I \in SUBSET (1 .. b)
      PROVE  /\ Cardinality(I) \in Nat
             /\ \A J \in SUBSET I : Cardinality(J) \in Nat
             /\ \A J \in SUBSET I : J # I => Cardinality(J) < Cardinality(I)
  <2>1. \A S : Cardinality(S) = FST!Cardinality(S) /\ (IsFiniteSet(S) <=> FST!IsFiniteSet(S))
    BY ZenonT(60) DEF Cardinality, FST!Cardinality, IsFiniteSet, FST!IsFiniteSet
  <2>2. FST!IsFiniteSet(1 .. b)
    BY FST!FS_Interval
  <2>3. FST!IsFiniteSet(I)
    BY ZenonT(60), <2>2, FST!FS_Subset
  <2>4. FST!Cardinality(I) \in Nat
    BY ZenonT(60), <2>3, FST!FS_CardinalityType
  <2>5. ASSUME NEW J \in SUBSET I
        PROVE  /\ FST!Cardinality(J) \in Nat
               /\ J # I => FST!Cardinality(J) < FST!Cardinality(I)
    <3>1. FST!IsFiniteSet(J) /\ FST!Cardinality(J) <= FST!Cardinality(I)
      BY ZenonT(60), <2>3, FST!FS_Subset
    <3>2. FST!Cardinality(I) = FST!Cardinality(J) => I = J
      BY ZenonT(60), <2>3, FST!FS_Subset
    <3>3. FST!Cardinality(J) \in Nat
      BY ZenonT(60), <3>1, FST!FS_CardinalityType
    <3> QED
      BY <3>1, <3>2, <3>3, <2>4
  <2> QED
    BY ZenonT(60), <2>1, <2>4, <2>5
<1> QED
  BY ZenonT(60), <1>1, <1>2 DEF Numbered

\* Every table of the plane and every commit in progress keeps its type.
THEOREM TypeCorrect == Spec => []TypeOK
<1>1. TypeOK /\ [Next]_vars => TypeOK'
  BY ZenonT(60), TypeStep, Counted
<1> QED
  BY <1>1, InitType, PTL DEF Spec

\* The inductive invariant holds in every state.
THEOREM IndInvCorrect == Spec => []IndInv
<1>1. Init => IndInv
  <2> SUFFICES ASSUME Init PROVE IndInv
    BY ZenonT(60)
  <2>1. RecordedRoots = {} /\ Stored = {}
    BY ZenonT(60) DEF Init, RecordedRoots, Live, Deleted, Stored
  <2>2. \A w \in Writers : \A s \in Shards : edits[w].old[s] = 0 /\ edits[w].new[s] = 0
    BY ZenonT(60) DEF Init, NoEdit
  <2>3. next_metadata_node_id = 1 /\ \A n \in NodeId : metadata_last_mark_epoch[n] = 0
    BY ZenonT(60) DEF Init
  <2> QED
    BY <2>1, <2>2, <2>3 DEF IndInv, RecordsIntact, IdsFresh, StagedPrivate, StagedIntact, Reachable
<1>2. TypeOK /\ IndInv /\ [Next]_vars => IndInv'
  <2> SUFFICES ASSUME TypeOK, IndInv, [Next]_vars PROVE IndInv'
    BY ZenonT(60)
  <2>1. CASE DeviceStep
    BY ZenonT(60), <2>1, Counted, CreateDeviceSafe, ForkDeviceSafe, RestoreDeviceSafe,
       DeleteDeviceSafe,
       CheckpointDeviceSafe DEF DeviceStep
  <2>2. ASSUME NEW w \in Writers, WriterStep(w) PROVE IndInv'
    <3>1. ASSUME NEW s \in Shards, NEW leaf, EditShardFails(w, s, leaf) PROVE IndInv'
      BY ZenonT(30), <3>1, AbandonSafe DEF EditShardFails
    <3>2. ASSUME PublishRejected(w) PROVE IndInv'
      BY ZenonT(30), <3>2, AbandonSafe DEF PublishRejected
    <3>3. {} \in SUBSET Nat
      BY ZenonT(60)
    <3> QED
      BY ZenonT(60), <2>2, <3>1, <3>2, <3>3, ReadShardRootSafe, EditShardSafe, PublishSafe
         DEF WriterStep
  <2>3. CASE GcStep
    BY ZenonT(60), <2>3, Counted, MarkReachableSafe, SweepUnmarkedSafe DEF GcStep
  <2>4. CASE UNCHANGED vars
    <3>1. /\ UNCHANGED <<metadata_nodes, next_metadata_node_id, edits, metadata_last_mark_epoch>>
          /\ RecordedRoots' = RecordedRoots
      BY <2>4 DEF vars, counters, timeline, devices, store, RecordedRoots, Live, Deleted
    <3> QED
      BY ZenonT(60), <3>1, RecordsOnlyStep
  <2> QED
    BY ZenonT(60), <2>1, <2>2, <2>3, <2>4 DEF Next
<1> QED
  BY <1>1, <1>2, TypeCorrect, PTL DEF Spec

\* Every tree that a head, a deleted head, a checkpoint or a shard commit names is
\* complete in every state, for any number of shards, writers, devices and nodes
\* and any policies: no sweep removes a node they reach, and no publish records a
\* tree with a hole (sweep_unmarked_after_mark, publish_commit_group).
THEOREM GcSafety == Spec => []RecordsIntact
<1>1. IndInv => RecordsIntact
  BY ZenonT(60) DEF IndInv
<1> QED
  BY <1>1, IndInvCorrect, PTL

\* A staged root that publish_commit_group could still accept keeps its whole tree
\* however sweeps interleave with the commit being built.
THEOREM StagedSafety == Spec => []StagedIntact
<1>1. IndInv => StagedIntact
  BY ZenonT(60) DEF IndInv
<1> QED
  BY <1>1, IndInvCorrect, PTL

-----------------------------------------------------------------------------
(* Timelines.                                                               *)

\* The inductive invariant: every record has an owner, and replay of every
\* checkpoint leads to every later one and to the head.
THEOREM TimelineInvCorrect == Spec => []TimelineInv
<1>1. TimelineInv /\ [Next]_vars => TimelineInv'
  BY ZenonT(60), TimelineStep, Counted
<1> QED
  BY <1>1, TimelineInit, PTL DEF Spec

\* Replaying any checkpoint of any device through its shard commits connects, gives
\* the roots of each later checkpoint, and ends in the roots of its head: no
\* publish, anchor, fork, restore, delete or sweep makes replay_device_roots report
\* a corrupt timeline.
THEOREM TimelineReplaysCorrect == Spec => []TimelineReplays
<1>1. TimelineInv => TimelineReplays
  <2> SUFFICES ASSUME TimelineInv, NEW k \in checkpoints
               PROVE  /\ \A j \in CheckpointsOf(checkpoints, k.owner) :
                            k.commit_seq <= j.commit_seq =>
                              /\ ReplayConnects(k, j.commit_seq)
                              /\ ReplayedRoots(k, j.commit_seq) = j.roots
                      /\ k.owner \in Live =>
                            LET head == device_heads[k.owner]
                            IN  /\ ReplayConnects(k, head.latest_commit)
                                /\ ReplayedRoots(k, head.latest_commit) = head.shard_roots
                      /\ k.owner \in Deleted =>
                            ReplayedRoots(k, current_commit_seq)
                              = deleted_device_heads[k.owner].shard_roots
    BY Zenon DEF TimelineReplays
  <2>1. Chained(shard_commits, checkpoints, device_heads, deleted_device_heads,
                current_commit_seq)
    BY ZenonT(60) DEF TimelineInv, AllChained
  <2>2. /\ checkpoints \subseteq Checkpoint
        /\ device_heads \in [Live -> Head] /\ deleted_device_heads \in [Deleted -> Head]
    BY ZenonT(60) DEF TimelineInv, TypeOK
  <2>3. ASSUME NEW c, NEW roots \in Roots, Leads(shard_commits, k, c, roots)
        PROVE  ReplayConnects(k, c) /\ ReplayedRoots(k, c) = roots
    <3>1. ReplayConnects(k, c) /\ \A s \in Shards : ReplayedRoot(k, s, c) = roots[s]
      BY ZenonT(60), <2>3, ReplayStored DEF Leads
    <3>2. ReplayedRoots(k, c) = [s \in Shards |-> ReplayedRoot(k, s, c)]
      BY ZenonT(60) DEF ReplayedRoots
    <3> QED
      BY ZenonT(60), <3>1, <3>2 DEF Roots
  <2>4. ASSUME NEW j \in CheckpointsOf(checkpoints, k.owner), k.commit_seq <= j.commit_seq
        PROVE  ReplayConnects(k, j.commit_seq) /\ ReplayedRoots(k, j.commit_seq) = j.roots
    <3>1. Leads(shard_commits, k, j.commit_seq, j.roots) /\ j.roots \in Roots
      BY ZenonT(60), <2>1, <2>2, <2>4 DEF Chained, CheckpointsOf, Checkpoint
    <3> QED
      BY ZenonT(60), <3>1, <2>3
  <2>5. ASSUME k.owner \in Live
        PROVE  /\ ReplayConnects(k, device_heads[k.owner].latest_commit)
               /\ ReplayedRoots(k, device_heads[k.owner].latest_commit)
                    = device_heads[k.owner].shard_roots
    <3>1. Leads(shard_commits, k, device_heads[k.owner].latest_commit,
                device_heads[k.owner].shard_roots)
      BY ZenonT(60), <2>1, <2>5 DEF Chained, Live
    <3>2. device_heads[k.owner].shard_roots \in Roots
      BY ZenonT(60), <2>2, <2>5 DEF Head
    <3> QED
      BY ZenonT(60), <3>1, <3>2, <2>3
  <2>6. ASSUME k.owner \in Deleted
        PROVE  ReplayedRoots(k, current_commit_seq) = deleted_device_heads[k.owner].shard_roots
    <3>1. Leads(shard_commits, k, current_commit_seq, deleted_device_heads[k.owner].shard_roots)
      BY ZenonT(60), <2>1, <2>6 DEF Chained, Deleted
    <3>2. deleted_device_heads[k.owner].shard_roots \in Roots
      BY ZenonT(60), <2>2, <2>6 DEF Head
    <3> QED
      BY ZenonT(60), <3>1, <3>2, <2>3
  <2> QED
    BY ZenonT(60), <2>4, <2>5, <2>6
<1> QED
  BY <1>1, TimelineInvCorrect, PTL

\* A fork owns no history older than the fork, even when its id was used before by
\* a device that has expired.
THEOREM ForkCorrect == Spec => []ForkStartsAtFork
<1>1. TimelineInv => ForkStartsAtFork
  BY ZenonT(60) DEF TimelineInv
<1> QED
  BY <1>1, TimelineInvCorrect, PTL

-----------------------------------------------------------------------------
(* What can be restored stays restorable.                                   *)

\* A point of a device's timeline that can be restored stays restorable to the
\* same roots for ever, except that a sweep may drop what its own retention policy
\* puts outside the window (sweep_unmarked_after_mark).
THEOREM HistoryCorrect == Spec => HistoryStable
<1>1. ASSUME TimelineInv, TimelineInv', [Next]_vars, NEW d \in device_specs,
             NEW c \in TimelineCommits(d), Replays(d, c)
      PROVE  \/ /\ d \in device_specs'
                /\ (c \in TimelineCommits(d))'
                /\ Replays(d, c)'
                /\ ReplayDeviceRoots(d, c)' = ReplayDeviceRoots(d, c)
             \/ \E p \in Policies :
                   /\ \E e \in 1 .. MaxEpoch : SweepUnmarked(p, e)
                   /\ ~ (OwnerHasRetainedPitr(p, d) /\ RetainPitrCommit(p, c))
  <2>1. c \in Nat /\ c < next_commit_seq /\ TypeOK
    <3>1. TypeOK /\ OwnersKnown
      BY ZenonT(60), <1>1 DEF TimelineInv
    <3>2. \A k \in checkpoints : k.commit_seq \in Nat /\ k.commit_seq < next_commit_seq
      BY ZenonT(60), <3>1 DEF TypeOK, OwnersKnown, OwnsItsPast, Checkpoint
    <3>3. \A m \in shard_commits : m.commit_seq \in Nat /\ m.commit_seq < next_commit_seq
      BY ZenonT(60), <3>1 DEF TypeOK, OwnersKnown, OwnsItsPast, ShardCommit
    <3>4. \/ \E k \in checkpoints : c = k.commit_seq
          \/ \E m \in shard_commits : c = m.commit_seq
      BY ZenonT(60) DEF TimelineCommits, CheckpointsOf
    <3> QED
      BY ZenonT(60), <3>1, <3>2, <3>3, <3>4
  <2>2. PICK l \in checkpoints : /\ l.owner = d /\ l.commit_seq <= c
                                 /\ Leads(shard_commits, l, c, ReplayDeviceRoots(d, c))
    BY ZenonT(60), <2>1, <1>1, Counted, ReplayStart
  <2>3. PICK roots \in Roots : roots = ReplayDeviceRoots(d, c)
    BY ZenonT(60), <2>1, <1>1, Counted, ReplayRecorded
  <2>4. Leads(shard_commits, l, c, roots)
    BY ZenonT(60), <2>2, <2>3
  <2>5. CASE Grows
    BY ZenonT(60), <2>1, <2>2, <2>3, <2>4, <2>5, <1>1, Counted, GrowthKeeps
  <2>6. ASSUME NEW p \in Policies, NEW e \in 1 .. MaxEpoch, SweepUnmarked(p, e),
               SweptTimeline(p, EnsurePitrAnchors(p)),
               OwnerHasRetainedPitr(p, d), RetainPitrCommit(p, c)
        PROVE  /\ d \in device_specs' /\ (c \in TimelineCommits(d))'
               /\ Replays(d, c)' /\ ReplayDeviceRoots(d, c)' = roots
    BY ZenonT(60), <2>1, <2>2, <2>4, <2>6, <1>1, Counted, SweepKeepsWindow
  <2> QED
    BY ZenonT(60), <2>3, <2>5, <2>6, <1>1, StepsGrow
<1>2. TimelineInv /\ TimelineInv' /\ [Next]_vars =>
        [\A d \in device_specs : \A c \in TimelineCommits(d) : Replays(d, c) =>
          \/ /\ d \in device_specs'
             /\ (c \in TimelineCommits(d))'
             /\ Replays(d, c)'
             /\ ReplayDeviceRoots(d, c)' = ReplayDeviceRoots(d, c)
          \/ \E p \in Policies :
                /\ \E e \in 1 .. MaxEpoch : SweepUnmarked(p, e)
                /\ ~ (OwnerHasRetainedPitr(p, d) /\ RetainPitrCommit(p, c))]_<<timeline, devices>>
  BY ZenonT(60), <1>1
<1> QED
  BY <1>2, TimelineInvCorrect, PTL DEF Spec, HistoryStable

=============================================================================
