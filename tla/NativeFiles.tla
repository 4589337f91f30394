---------------------------- MODULE NativeFiles ----------------------------
(***************************************************************************)
(* Native keyspaces and the bytes of their files: batches of writes, write *)
(* grants, append streams and their publishes on the way in; read plans,   *)
(* snapshots, checkpoints, point-in-time restore and the replay of file    *)
(* deltas and append records on the way out.                               *)
(*                                                                         *)
(* Sources: local/coordinator.rs (batches, grants, publishes, reads,       *)
(* replay) and local/metadata_plane.rs (catalog, commits, streams,         *)
(* restore).  Catalog shards and trees are immutable once stored, so a     *)
(* shard or root id is the value it names; a commit makes a new one.       *)
(* Writer epochs are in AppendPublish, durability is in AppendIngest.      *)
(***************************************************************************)
EXTENDS FileExtents, Functions

CONSTANTS
    Threads,        \* threads of callers
    Shards,         \* config.keyspace_shards
    Batches,        \* the batches callers send: sequences of [at, len]
    Grants,         \* the ranges callers ask grants for: [at, len]
    Appends,        \* the appends callers make: [len, flushed]
    PublishTo,      \* the offsets publishes go up to
    Undisturbed,    \* no file is created in a keyspace, and no checkpoint taken
                    \* of it, while a publish of one of its files is planned
    MaxKeyspaces, MaxFiles, MaxStreams, MaxAppends, MaxCommits, MaxCalls, MaxCheckpoints,
    MaxInputs       \* bound: keyspaces, checkpoints, files, calls and appends together

ASSUME NativeAssumption ==
    /\ Shards \in Nat \ {0}
    /\ Undisturbed \in BOOLEAN
    /\ {MaxKeyspaces, MaxFiles, MaxStreams, MaxAppends, MaxCommits, MaxCalls, MaxCheckpoints,
        MaxInputs} \subseteq Nat
    \* the holder of a grant writes whole blocks
    /\ \A r \in Grants : r.at % BlockSize = 0 /\ r.len % BlockSize = 0

VARIABLES
    store,          \* the coordinator in use: either, until a publish tells
    heads,          \* keyspace_heads: keyspace -> [shards, count, latest]
    commits,        \* keyspace_commits by commit sequence
    checkpoints,    \* checkpoints in the order of their ids
    files,          \* number of file ids given out
    seq,            \* next_commit_seq
    segments,       \* the stored segments by id
    logs,           \* the append log of every stream
    streams,        \* append_streams by id
    in_flight,      \* append_publish_in_flight: the plans that are marked
    batch,          \* the plans of the publish batch and whether it is being applied
    threads,        \* what every thread is doing
    calls,          \* calls that have written bytes, to tell their bytes apart
    journal,        \* file deltas and append records handed to the journal
    past            \* reference: keyspace -> commit -> file -> its bytes

kept == <<heads, commits, checkpoints, files, seq>>
appended == <<streams, logs, in_flight, batch>>
nvars == <<store, kept, segments, appended, threads, calls, journal, past>>

Idle == [pc |-> "idle"]
At(t, pc) == threads[t].pc = pc
Return(t) == threads' = [threads EXCEPT ![t] = Idle]

Keyspaces == DOMAIN heads

Room ==
    Len(checkpoints) + files + calls
    + FoldLeft(LAMBDA n, s : n + s.appends, 0, streams) < MaxInputs

ShardOf(f) == (f % Shards) + 1

\* keyspace_file_in_shards_locked, file_head_locked
FileIn(shards, f) == shards[ShardOf(f)][f]
FilesIn(shards) == UNION {DOMAIN shards[i] : i \in DOMAIN shards}
FilesOf(k) == FilesIn(heads[k].shards)
FileHead(k, f) == FileIn(heads[k].shards, f)
FileRefs == {<<k, f>> \in Keyspaces \X (1..files) : f \in FilesOf(k)}

\* append_publish_in_flight_for_file
Marked(k, f) == \E p \in in_flight : p.k = k /\ p.f = f

-----------------------------------------------------------------------------
(* The reference: what the callers were promised, kept per commit.         *)

Grow(bytes, at, new) ==
    [i \in 1..(IF new = <<>> THEN Len(bytes) ELSE Most(Len(bytes), at + Len(new))) |->
        IF i > at /\ i <= at + Len(new) THEN new[i - at]
        ELSE IF i <= Len(bytes) THEN bytes[i] ELSE Zero]
Written(bytes, ws) == FoldLeft(LAMBDA acc, w : Grow(acc, w.at, w.bytes), bytes, ws)

Latest(points, c) == CHOOSE d \in points : d <= c /\ \A e \in points : e <= c => e <= d
PastAt(k, c) == past[k][Latest(DOMAIN past[k], c)]
Known(k, f, c) == LET then == PastAt(k, c) IN IF f \in DOMAIN then THEN then[f] ELSE <<>>

\* The commit c of the keyspace gives f these bytes, in the commits after c too.
Remember(k, f, c, bytes) ==
    past' = [past EXCEPT ![k] =
        [d \in DOMAIN @ \cup {c} |->
            LET then == PastAt(k, d) IN IF d < c THEN then ELSE (f :> bytes) @@ then]]

-----------------------------------------------------------------------------
(* Catalog: keyspaces, files, commits.                                      *)

NewHead(k, shards, count, latest) ==
    heads' = (k :> [shards |-> shards, count |-> count, latest |-> latest]) @@ heads

NewCheckpoint(k, c, head) ==
    checkpoints' = Append(checkpoints, [owner |-> k, seq |-> c, shards |-> head.shards,
                                        count |-> head.count])

CreateKeyspace ==
    LET k == Cardinality(Keyspaces) + 1
        empty == [shards |-> [i \in 1..Shards |-> <<>>], count |-> 0]
    IN /\ k <= MaxKeyspaces /\ Room
       /\ NewHead(k, empty.shards, empty.count, 0)
       /\ NewCheckpoint(k, 0, empty)
       /\ past' = (k :> (0 :> <<>>)) @@ past
       /\ UNCHANGED <<store, commits, files, seq, segments, appended, threads, calls, journal>>

\* update_keyspace_file_locked: the shard that holds f is replaced.
WithFile(shards, f, head) == [shards EXCEPT ![ShardOf(f)] = (f :> head) @@ @]
CountWith(shards, count, f) == IF f \in DOMAIN shards[ShardOf(f)] THEN count ELSE count + 1

CommitRecord(k, f, c, old, new, oldCount, newCount) ==
    (c :> [k |-> k, f |-> f, shard |-> ShardOf(f), old |-> old[ShardOf(f)],
           new |-> new[ShardOf(f)], oldCount |-> oldCount, newCount |-> newCount])

\* The commit of one file under the current catalog.
Publish(k, f, head) ==
    LET now == heads[k]
        shards == WithFile(now.shards, f, head)
        count == CountWith(now.shards, now.count, f)
    IN /\ seq < MaxCommits
       /\ seq' = seq + 1
       /\ NewHead(k, shards, count, seq)
       /\ commits' = CommitRecord(k, f, seq, now.shards, shards, now.count, count) @@ commits

CreateFile(k) ==
    LET f == files + 1
    IN /\ f <= MaxFiles /\ Room
       /\ Undisturbed => ~\E p \in in_flight : p.k = k
       /\ files' = f
       /\ Publish(k, f, [version |-> 0, root |-> EmptyTree, size |-> 0, latest |-> seq])
       /\ Remember(k, f, seq, <<>>)
       /\ UNCHANGED <<store, checkpoints, segments, appended, threads, calls, journal>>

NextVersion(head, root, size) ==
    [version |-> head.version + 1, root |-> root, size |-> size, latest |-> seq]

-----------------------------------------------------------------------------
(* Batches.  commit_file_batch takes the head once for the version it      *)
(* fences with, and again for every read of the bytes it must keep.        *)

Tagged(b) ==
    [i \in DOMAIN b |-> [at |-> b[i].at,
                         bytes |-> [j \in 1..b[i].len |-> <<calls + 1, i, j>>]]]

BeginBatch(t, k, f, b) ==
    LET head == FileHead(k, f)
        ws == Tagged(b)
        c == Collapse(ws, head.size)
    IN /\ At(t, "idle")
       /\ calls < MaxCalls /\ Room
       /\ c.ok /\ c.ws # <<>>
       /\ calls' = calls + 1
       /\ threads' = [threads EXCEPT ![t] =
              [pc |-> "write", grant |-> FALSE,
               k |-> k, f |-> f, base |-> head.version, old |-> head.size,
               size |-> c.size, ws |-> ws, groups |-> Groups(c.ws), edits |-> <<>>]]
       /\ UNCHANGED <<store, kept, segments, appended, journal, past>>

\* The bytes of the group the file has already: read, unless the batch covers them.
PreservedBytes(w, g) ==
    LET first == g.first * BlockSize
        n == (g.end - g.first) * BlockSize
        end == Least(w.old, first + n)
    IN IF first >= w.old \/ Covers(g.ws, first, end) THEN Zeroes(n)
       ELSE ReadBytes(FileHead(w.k, w.f).root, first, end, segments, logs)
            \o Zeroes(first + n - end)

WriteGroup(t) ==
    LET w == threads[t]
        g == w.groups[1]
    IN /\ At(t, "write") /\ w.groups # <<>>
       /\ IF g.end > FileBlocks THEN Return(t) /\ UNCHANGED segments
          ELSE /\ segments' = Append(segments,
                                     Overlay(PreservedBytes(w, g), g.first, g.ws))
               /\ threads' = [threads EXCEPT
                      ![t].groups = Tail(@),
                      ![t].edits = Append(@, [first |-> g.first, end |-> g.end,
                                              seg |-> Len(segments) + 1])]
       /\ UNCHANGED <<store, kept, appended, calls, journal, past>>

\* A grant names the version it was issued at; its holder writes the segment itself.
GrantWrite(t, k, f, r) ==
    LET ws == Tagged(<<r>>)
        first == r.at \div BlockSize
        end == BlocksFor(r.at + r.len)
    IN /\ At(t, "idle")
       /\ calls < MaxCalls /\ Room
       /\ calls' = calls + 1
       /\ segments' = Append(segments, Overlay(Zeroes((end - first) * BlockSize), first, ws))
       /\ threads' = [threads EXCEPT ![t] =
              [pc |-> "write", grant |-> TRUE,
               k |-> k, f |-> f, base |-> FileHead(k, f).version, old |-> 0,
               size |-> r.at + r.len, ws |-> ws, groups |-> <<>>,
               edits |-> <<[first |-> first, end |-> end, seg |-> Len(segments) + 1]>>]]
       /\ UNCHANGED <<store, kept, appended, journal, past>>

Edited(root, edits) ==
    FoldLeft(LAMBDA tree, e : ReplaceTreeRange(tree, e.first, e.end, e.seg, e.first), root, edits)

\* publish_native_file_receipt_edits: the head is read again and its root edited ...
\* submit_native_write_receipt comes here too, with the head's size if it is the larger
\* (a batch's never is, while the version is the one it started from).
CopyPath(t) ==
    LET w == threads[t]
        head == FileHead(w.k, w.f)
    IN /\ At(t, "write") /\ w.groups = <<>>
       /\ IF head.version # w.base \/ \E i \in DOMAIN w.edits : w.edits[i].end > FileBlocks
          THEN Return(t)
          ELSE threads' = [threads EXCEPT ![t] =
                   [pc |-> "commit", grant |-> w.grant, k |-> w.k, f |-> w.f, base |-> w.base, old |-> head.size,
                    size |-> Most(head.size, w.size), ws |-> w.ws, edits |-> w.edits, head |-> head,
                    root |-> Edited(head.root, w.edits)]]
       /\ UNCHANGED <<store, kept, segments, appended, calls, journal, past>>

\* Mutant: the version the batch started from is not compared again.
CommitBatchUnfenced(t) ==
    LET w == threads[t]
        head == FileHead(w.k, w.f)
    IN /\ At(t, "commit") /\ ~Marked(w.k, w.f)
       /\ Publish(w.k, w.f, NextVersion(head, w.root, w.size))
       /\ Remember(w.k, w.f, seq, Written(Known(w.k, w.f, seq), w.ws))
       /\ threads' = [threads EXCEPT ![t] = [w EXCEPT !.pc = "fence"]]
       /\ UNCHANGED <<store, checkpoints, files, segments, appended, calls, journal>>

\* Mutant: a publish in flight does not stop a batch.
CommitBatchMarked(t) ==
    LET w == threads[t]
        head == FileHead(w.k, w.f)
    IN /\ At(t, "commit") /\ head.version = w.base
       /\ Publish(w.k, w.f, NextVersion(head, w.root, w.size))
       /\ Remember(w.k, w.f, seq, Written(Known(w.k, w.f, seq), w.ws))
       /\ threads' = [threads EXCEPT ![t] = [w EXCEPT !.pc = "fence"]]
       /\ UNCHANGED <<store, checkpoints, files, segments, appended, calls, journal>>

\* ... and the commit is refused when the file has moved on or is being published.
CommitBatch(t) ==
    LET w == threads[t]
        head == FileHead(w.k, w.f)
    IN /\ At(t, "commit")
       /\ \/ /\ Marked(w.k, w.f) \/ head.version # w.base \/ head.root # w.head.root
             /\ Return(t)
             /\ UNCHANGED <<kept, past>>
          \/ /\ ~Marked(w.k, w.f) /\ head.version = w.base /\ head.root = w.head.root
             /\ Publish(w.k, w.f, NextVersion(head, w.root, w.size))
             /\ Remember(w.k, w.f, seq, Written(Known(w.k, w.f, seq), w.ws))
             /\ threads' = [threads EXCEPT ![t] = [w EXCEPT !.pc = "fence"]]
             /\ UNCHANGED <<checkpoints, files>>
       /\ UNCHANGED <<store, segments, appended, calls, journal>>

\* invalidate_append_streams_for_file takes the lock again; the call fails, after its
\* commit, when a publish of the file has been planned meanwhile.
FenceStreams(t) ==
    LET w == threads[t]
    IN /\ At(t, "fence")
       /\ IF Marked(w.k, w.f) THEN Return(t) /\ UNCHANGED streams
          ELSE /\ threads' = [threads EXCEPT ![t].pc = "delta"]
               /\ streams' = [s \in DOMAIN streams |->
                      IF streams[s].k = w.k /\ streams[s].f = w.f /\ streams[s].status = "active"
                      THEN [streams[s] EXCEPT !.status = "fenced"] ELSE streams[s]]
       /\ UNCHANGED <<store, kept, segments, logs, in_flight, batch, calls, journal, past>>

\* The delta takes its version and sequence from the head as it is by now.  The one of a
\* grant is dropped: such a commit becomes durable with the next image.
EmitDelta(t) ==
    LET w == threads[t]
        head == FileHead(w.k, w.f)
    IN /\ At(t, "delta")
       /\ journal' = IF w.grant THEN journal ELSE Append(journal,
              [kind |-> "delta", k |-> w.k, f |-> w.f, seq |-> head.latest, base |-> w.base,
               version |-> head.version, old |-> w.old, size |-> w.size,
               entries |-> [i \in DOMAIN w.edits |-> [w.edits[i] EXCEPT !.seg = <<@, 0>>]],
               runs |-> <<>>])
       /\ Return(t)
       /\ UNCHANGED <<store, kept, segments, appended, calls, past>>

-----------------------------------------------------------------------------
(* Append streams.  A stream's bytes go to its log as they are accepted    *)
(* (AppendIngest has how they become durable); its records say where.      *)

OpenAppendStream(k, f) ==
    LET s == Len(streams) + 1
        size == FileHead(k, f).size
        Fence(x) == IF x.k = k /\ x.f = f /\ x.status = "active"
                    THEN [x EXCEPT !.status = "fenced"] ELSE x
    IN /\ s <= MaxStreams /\ Room
       /\ ~Marked(k, f)
       /\ streams' = Append([i \in DOMAIN streams |-> Fence(streams[i])],
                            [k |-> k, f |-> f, status |-> "active", accepted |-> size,
                             durable |-> size, published |-> size, records |-> <<>>,
                             appends |-> 0])
       /\ logs' = Append(logs, <<>>)
       /\ UNCHANGED <<store, kept, segments, in_flight, batch, threads, calls, journal, past>>

StreamBytes(s, a, b) == [i \in 1..(b - a) |-> <<s, 0, a + i>>]

\* AppendStreamRunRecord::coalesce_with; the joined run keeps the first run's id.
JoinRecords(p, r) == [p EXCEPT !.len = @ + r.len, !.sum = @ /\ r.sum]
CanJoinRecords(p, r) == RunEnd(p) = r.at /\ p.log = r.log /\ p.pos + p.len = r.pos

\* append_stream: the lane's lock is held from the range to the record.  A flushed
\* append moves the durable mark to the end of the records, which leave no gap.
AppendStream(s, a) ==
    LET st == streams[s]
        n == a.len
        run == [at |-> st.accepted, len |-> n, run |-> Len(logs[s]) + 1, log |-> s,
                pos |-> Len(logs[s]), sum |-> TRUE]
        joins == /\ st.records # <<>>
                 /\ RunEnd(Last(st.records)) > st.durable
                 /\ CanJoinRecords(Last(st.records), run)
    IN /\ st.status = "active"
       /\ st.accepted + n <= FileBytes
       /\ st.appends < MaxAppends /\ Room
       /\ logs' = [logs EXCEPT ![s] = @ \o StreamBytes(s, st.accepted, st.accepted + n)]
       /\ streams' = [streams EXCEPT
              ![s].accepted = @ + n, ![s].appends = @ + 1,
              ![s].durable = IF a.flushed THEN st.accepted + n ELSE @,
              ![s].records = IF joins THEN Append(Front(@), JoinRecords(Last(@), run))
                             ELSE Append(@, run)]
       /\ UNCHANGED <<store, kept, segments, in_flight, batch, threads, calls, journal, past>>

\* publish_records: slices of the records from a up to b, without a gap.
PublishRecords(records, a, b) ==
    CutAll(records, LAMBDA r : IF Meet(r.at, RunEnd(r), a, b)
                               THEN <<SliceRun(r, Most(r.at, a), Least(RunEnd(r), b))>>
                               ELSE <<>>)
Contiguous(rs, a, b) == FoldLeft(LAMBDA x, r : IF r.at = x THEN RunEnd(r) ELSE x, a, rs) = b

RetainAfter(records, through) ==
    CutAll(records, LAMBDA r : IF RunEnd(r) <= through THEN <<>>
                               ELSE <<SliceRun(r, Most(r.at, through), RunEnd(r))>>)

\* A ticket that append_publish_ticket_status lets through.
Publishable(s, through) ==
    LET st == streams[s]
    IN /\ st.status = "active"
       /\ through \in (st.published + 1)..st.accepted
       /\ ~Marked(st.k, st.f)

\* wait_append_publish of the local coordinator: the root is built without a lock ...
BeginPublish(t, s, through) ==
    LET st == streams[s]
        head == FileHead(st.k, st.f)
        runs == PublishRecords(st.records, head.size, through)
    IN /\ store \in {"either", "local"} /\ store' = "local"
       /\ At(t, "idle")
       /\ Publishable(s, through)
       /\ head.size < through /\ Contiguous(runs, head.size, through)
       /\ threads' = [threads EXCEPT ![t] =
              [pc |-> "publish", stream |-> s, through |-> through, head |-> head,
               root |-> ReplaceTreeByteRange(head.root, head.size, through, runs)]]
       /\ UNCHANGED <<kept, segments, appended, calls, journal, past>>

\* ... the commit is fenced by the stream ...
CommitPublish(t) ==
    LET w == threads[t]
        st == streams[w.stream]
        head == FileHead(st.k, st.f)
        allowed == /\ ~Marked(st.k, st.f)
                   /\ st.published = head.size /\ st.status = "active"
                   /\ head.root = w.head.root
    IN /\ At(t, "publish")
       /\ \/ ~allowed /\ Return(t) /\ UNCHANGED <<kept, streams, past>>
          \/ /\ allowed
             /\ Publish(st.k, st.f, NextVersion(head, w.root, w.through))
             /\ Remember(st.k, st.f, seq,
                         Grow(Known(st.k, st.f, seq), w.head.size,
                              StreamBytes(w.stream, w.head.size, w.through)))
             /\ streams' = [streams EXCEPT ![w.stream].published = w.through]
             /\ threads' = [threads EXCEPT ![t].pc = "published"]
             /\ UNCHANGED <<checkpoints, files>>
       /\ UNCHANGED <<store, segments, logs, in_flight, batch, calls, journal>>

\* ... and the records are let go.
MarkPublished(t) ==
    LET w == threads[t]
    IN /\ At(t, "published")
       /\ streams' = IF streams[w.stream].status # "active" THEN streams
                     ELSE [streams EXCEPT ![w.stream].published = w.through,
                                          ![w.stream].records = RetainAfter(@, w.through)]
       /\ Return(t)
       /\ UNCHANGED <<store, kept, segments, logs, in_flight, batch, calls, journal, past>>

-----------------------------------------------------------------------------
(* The durable coordinator publishes in batches: every plan of a batch is  *)
(* made on the catalog the plans before it would leave (the draft), the    *)
(* batch is journalled, and the plans are applied one by one.              *)

Draft(k) ==
    LET mine == SelectSeq(batch.plans, LAMBDA p : p.k = k)
    IN IF mine = <<>> THEN heads[k].shards ELSE Last(mine).shards

PlanPublish(s, through) ==
    LET st == streams[s]
        shards == Draft(st.k)
        head == FileIn(shards, st.f)
        runs == PublishRecords(st.records, head.size, through)
        root == ReplaceTreeByteRange(head.root, head.size, through, runs)
        new == NextVersion(head, root, through)
        plan == [stream |-> s, k |-> st.k, f |-> st.f, seq |-> seq, head |-> head, new |-> new,
                 old |-> shards, shards |-> WithFile(shards, st.f, new), runs |-> runs]
    IN /\ store \in {"either", "durable"} /\ store' = "durable"
       /\ ~batch.applying
       /\ Publishable(s, through)
       /\ st.published = head.size /\ Contiguous(runs, head.size, through)
       /\ batch.plans # <<>> => seq = Last(batch.plans).seq + 1
       /\ seq < MaxCommits
       /\ seq' = seq + 1
       /\ in_flight' = in_flight \cup {plan}
       /\ batch' = [batch EXCEPT !.plans = Append(@, plan)]
       /\ UNCHANGED <<heads, commits, checkpoints, files, segments, streams, logs, threads, calls,
                      journal, past>>

NoBatch == [plans |-> <<>>, applying |-> FALSE]

\* cancel_append_publish_plan for every plan, when the journal could not be written.
CancelPublish ==
    /\ batch.plans # <<>> /\ ~batch.applying
    /\ in_flight' = in_flight \ Range(batch.plans)
    /\ batch' = NoBatch
    /\ UNCHANGED <<store, kept, segments, streams, logs, threads, calls, journal, past>>

JournalPublish ==
    /\ batch.plans # <<>> /\ ~batch.applying
    /\ batch' = [batch EXCEPT !.applying = TRUE]
    /\ journal' = journal \o [i \in DOMAIN batch.plans |->
           LET p == batch.plans[i]
           IN [kind |-> "append", k |-> p.k, f |-> p.f, seq |-> p.seq, base |-> p.head.version,
               version |-> p.new.version, old |-> p.head.size, size |-> p.new.size,
               entries |-> <<>>, runs |-> p.runs]]
    /\ UNCHANGED <<store, kept, segments, streams, logs, in_flight, threads, calls, past>>

\* apply_append_publish_plan.  The stream moves before the catalog shard is compared;
\* when the shard is another one by now the call fails and its markers stay.  The
\* commit record takes the file count of this moment.
ApplyPublish ==
    LET p == Head(batch.plans)
        now == heads[p.k]
        i == ShardOf(p.f)
        rest == Tail(batch.plans)
    IN /\ batch.applying
       /\ FileHead(p.k, p.f) = p.head
       /\ streams[p.stream].status = "active" /\ streams[p.stream].published = p.head.size
       /\ streams' = [streams EXCEPT ![p.stream].durable = Most(@, p.new.size),
                                     ![p.stream].published = p.new.size,
                                     ![p.stream].records = RetainAfter(@, p.new.size)]
       /\ \/ /\ now.shards[i] # p.old[i]
             /\ batch' = NoBatch
             /\ UNCHANGED <<heads, commits, in_flight, past>>
          \/ /\ now.shards[i] = p.old[i]
             /\ NewHead(p.k, [now.shards EXCEPT ![i] = p.shards[i]], now.count,
                        Most(now.latest, p.seq))
             /\ commits' = CommitRecord(p.k, p.f, p.seq, p.old, p.shards, now.count, now.count)
                           @@ commits
             /\ in_flight' = in_flight \ {p}
             /\ batch' = IF rest = <<>> THEN NoBatch ELSE [batch EXCEPT !.plans = rest]
             /\ Remember(p.k, p.f, p.seq,
                         Grow(Known(p.k, p.f, p.seq), p.head.size,
                              StreamBytes(p.stream, p.head.size, p.new.size)))
       /\ UNCHANGED <<store, checkpoints, files, seq, segments, logs, threads, calls, journal>>

-----------------------------------------------------------------------------
(* Snapshots, checkpoints and restore.                                      *)

NewKeyspace(root, then) ==
    LET k == Cardinality(Keyspaces) + 1
    IN /\ k <= MaxKeyspaces /\ Room
       /\ seq < MaxCommits
       /\ seq' = seq + 1
       /\ NewHead(k, root.shards, root.count, seq)
       /\ NewCheckpoint(k, seq, root)
       /\ past' = (k :> (seq :> then)) @@ past
       /\ UNCHANGED <<store, commits, files, segments, appended, threads, calls, journal>>

SnapshotKeyspace(k) == NewKeyspace(heads[k], PastAt(k, heads[k].latest))

CheckpointKeyspace(k) ==
    /\ Undisturbed => ~\E p \in in_flight : p.k = k
    /\ Len(checkpoints) < MaxCheckpoints /\ Room
    /\ NewCheckpoint(k, heads[k].latest, heads[k])
    /\ UNCHANGED <<store, heads, commits, files, seq, segments, appended, threads, calls, journal,
                   past>>

CheckpointsOf(k) == {i \in DOMAIN checkpoints : checkpoints[i].owner = k}
CommitsOf(k) == {c \in DOMAIN commits : commits[c].k = k}

\* latest_keyspace_checkpoint_at_or_before_locked; of equals the last is taken.
LatestCheckpoint(k, c) ==
    LET mine == {i \in CheckpointsOf(k) : checkpoints[i].seq <= c}
        top == Max({checkpoints[i].seq : i \in mine})
    IN checkpoints[Max({i \in mine : checkpoints[i].seq = top})]

Corrupt == [shards |-> <<>>, count |-> 0]
ReplayFrom(k, from, replayed) ==
    LET Step(root, c) ==
            LET r == commits[c]
            IN IF root = Corrupt THEN Corrupt
               ELSE IF root.shards[r.shard] # r.old \/ root.count # r.oldCount THEN Corrupt
               ELSE [shards |-> [root.shards EXCEPT ![r.shard] = r.new], count |-> r.newCount]
    IN FoldLeft(Step, [shards |-> from.shards, count |-> from.count],
                SelectSeq([c \in 1..(seq - 1) |-> c], LAMBDA c : c \in replayed))

\* Mutant: the commit the checkpoint stands at is replayed again.
ReplayKeyspaceRootTwice(k, c) ==
    LET from == LatestCheckpoint(k, c)
    IN ReplayFrom(k, from, {d \in CommitsOf(k) : d >= from.seq /\ d <= c})
\* replay_keyspace_root_locked
ReplayKeyspaceRoot(k, c) ==
    LET from == LatestCheckpoint(k, c)
    IN ReplayFrom(k, from, {d \in CommitsOf(k) : d > from.seq /\ d <= c})

\* keyspace_timeline_contains_commit_locked
Timeline(k) == {checkpoints[i].seq : i \in CheckpointsOf(k)} \cup CommitsOf(k)

\* RestorePoint::Commit, Time and Checkpoint.
RestoreAt(k, c) ==
    LET root == ReplayKeyspaceRoot(k, c)
    IN root # Corrupt /\ NewKeyspace(root, PastAt(k, c))
RestoreCommit(k, c) == c \in Timeline(k) /\ RestoreAt(k, c)
RestoreTime(k, time) ==
    /\ time \notin Timeline(k) /\ \E c \in Timeline(k) : c <= time
    /\ RestoreAt(k, Latest(Timeline(k), time))
RestoreCheckpoint(k, i) ==
    checkpoints[i].owner = k /\ NewKeyspace(checkpoints[i], PastAt(k, checkpoints[i].seq))

-----------------------------------------------------------------------------
(* Replay of the journal when the store is reopened.                        *)

\* Mutant: only the first block of every entry is replaced.
ReplayDeltaFirst(head, r) ==
    [version |-> head.version + 1, size |-> r.size, latest |-> r.seq,
     root |-> FoldLeft(LAMBDA tree, e : ReplaceTreeRange(tree, e.first, e.first + 1, e.seg[1],
                                                         e.first - e.seg[2]),
                       head.root, r.entries)]

\* replay_native_file_delta_commit
ReplayDelta(head, r) ==
    LET sorted == SortSeq(r.entries, LAMBDA e, g : e.first < g.first)
        Edit(tree, e) == ReplaceTreeRange(tree, e.first, e.end, e.seg[1], e.first - e.seg[2])
    IN [version |-> head.version + 1, size |-> r.size, latest |-> r.seq,
        root |-> FoldLeft(Edit, head.root, sorted)]

\* materialize_append_visible_publish_record
MaterializePublish(head, r) ==
    [version |-> r.version, size |-> r.size, latest |-> r.seq,
     root |-> ReplaceTreeByteRange(head.root, head.size, r.size, r.runs)]

\* A record that does not fit the head is refused: the store does not open.
Fits(head, r) == head.version = r.base /\ head.size = r.old /\ head.latest < r.seq
Replay(head, r) ==
    LET new == IF r.kind = "delta" THEN ReplayDelta(head, r) ELSE MaterializePublish(head, r)
    IN IF head.version < 0 \/ ~Fits(head, r) \/ new.version # r.version
       THEN [head EXCEPT !.version = 0 - 1] ELSE new

Rebuilt(k, f, created) ==
    FoldLeft(Replay, [version |-> 0, root |-> EmptyTree, size |-> 0, latest |-> created],
             SortSeq(SelectSeq(journal, LAMBDA r : r.k = k /\ r.f = f),
                     LAMBDA r, q : r.seq < q.seq))

-----------------------------------------------------------------------------
NInit ==
    /\ store = "either"
    /\ heads = <<>> /\ commits = <<>> /\ checkpoints = <<>> /\ files = 0 /\ seq = 1
    /\ segments = <<>>
    /\ streams = <<>> /\ logs = <<>> /\ in_flight = {} /\ batch = NoBatch
    /\ threads = [t \in Threads |-> Idle] /\ calls = 0
    /\ journal = <<>>
    /\ past = <<>>

CallStep(t) ==
    \/ \E ref \in FileRefs :
          \/ \E b \in Batches : BeginBatch(t, ref[1], ref[2], b)
          \/ \E r \in Grants : GrantWrite(t, ref[1], ref[2], r)
    \/ WriteGroup(t) \/ CopyPath(t) \/ CommitBatch(t) \/ FenceStreams(t)
    \/ EmitDelta(t)
    \/ \E s \in DOMAIN streams, n \in PublishTo : BeginPublish(t, s, n)
    \/ CommitPublish(t) \/ MarkPublished(t)

StreamStep ==
    \/ \E ref \in FileRefs : OpenAppendStream(ref[1], ref[2])
    \/ \E s \in DOMAIN streams :
          \/ \E a \in Appends : AppendStream(s, a)
          \/ \E n \in PublishTo : PlanPublish(s, n)
    \/ CancelPublish \/ JournalPublish \/ ApplyPublish

CatalogStep ==
    \/ CreateKeyspace
    \/ \E k \in Keyspaces :
          \/ CreateFile(k) \/ SnapshotKeyspace(k) \/ CheckpointKeyspace(k)
          \/ \E c \in 0..seq : RestoreCommit(k, c) \/ RestoreTime(k, c)
          \/ \E i \in DOMAIN checkpoints : RestoreCheckpoint(k, i)

NNext == (\E t \in Threads : CallStep(t)) \/ StreamStep \/ CatalogStep

NSpec == NInit /\ [][NNext]_nvars

-----------------------------------------------------------------------------
\* Types, and what the code keeps in step: counts and heads below the next commit.
NTypeOK ==
    /\ store \in {"either", "local", "durable"}
    /\ \A k \in Keyspaces :
          /\ heads[k].count = Cardinality(FilesOf(k))
          /\ heads[k].latest < seq
          /\ \A f \in FilesOf(k) : FileHead(k, f).size \in 0..FileBytes
    /\ DOMAIN commits \subseteq 1..(seq - 1)
    /\ \A s \in DOMAIN streams :
          /\ streams[s].published <= streams[s].accepted
          /\ streams[s].durable <= streams[s].accepted
          /\ streams[s].status \in {"active", "fenced"}
    /\ \A t \in Threads : threads[t].pc \in
          {"idle", "write", "commit", "fence", "delta", "publish", "published"}

ReadsAs(head, bytes) ==
    LET plan == ReadPlan(head.root, 0, head.size)
    IN /\ head.size = Len(bytes)
       /\ PlanSound(plan, head.size)
       /\ Assemble(plan, head.size, segments, logs) = bytes

CatalogReadsAs(root, then) ==
    /\ FilesIn(root.shards) = DOMAIN then
    /\ root.count = Cardinality(DOMAIN then)
    /\ \A f \in DOMAIN then : ReadsAs(FileIn(root.shards, f), then[f])

\* Every file of every keyspace, the snapshot's and the restored ones included, reads as
\* the commits up to the head say, whatever ran at the same time: no batch loses bytes
\* another one wrote in the blocks it rewrites (commit_file_batch keeps them through a
\* second look at the head), no append run shows through a later write, and no later
\* commit reaches a snapshot.
ReadsMatch ==
    \A k \in Keyspaces : CatalogReadsAs(heads[k], PastAt(k, seq))

\* Point-in-time restore: for every commit and checkpoint of a keyspace's timeline,
\* replay_keyspace_root_locked finds the old state each commit record expects and ends
\* with the files, the count and the bytes of that moment; a checkpoint holds them too.
RestoreExact ==
    \A k \in Keyspaces :
        /\ \A c \in Timeline(k) : CatalogReadsAs(ReplayKeyspaceRoot(k, c), PastAt(k, c))
        /\ \A i \in CheckpointsOf(k) : CatalogReadsAs(checkpoints[i], PastAt(k, checkpoints[i].seq))

\* The state is well typed, and the first plan of a batch that is applied finds its file's head and its stream as it
\* left them: the errors "file head changed before apply" and "stream state changed
\* before apply" of apply_append_publish_plan, which come after the journal has the
\* publish, cannot happen.
PlansHold ==
    /\ NTypeOK
    /\ batch.applying =>
          LET p == Head(batch.plans)
          IN /\ FileHead(p.k, p.f) = p.head
             /\ streams[p.stream].status = "active"
             /\ streams[p.stream].published = p.head.size

\* Once every commit of a file has a record of its own in the journal, replaying them
\* in order on the file as it was created gives the head the readers have: the same
\* version, size and bytes.
JournalRebuilds ==
    \A c \in DOMAIN commits :
        LET k == commits[c].k
            f == commits[c].f
            mine == {d \in CommitsOf(k) : commits[d].f = f}
            recorded == SelectSeq(journal, LAMBDA r : r.k = k /\ r.f = f)
            head == FileHead(k, f)
            again == Rebuilt(k, f, c)
        IN (/\ f \notin DOMAIN commits[c].old
            /\ Len(recorded) = Cardinality(mine) - 1
            /\ {recorded[i].seq : i \in DOMAIN recorded} = mine \ {c})
           => /\ again.version = head.version /\ again.size = head.size
              /\ again.latest = head.latest
              /\ ReadsAs(again, PastAt(k, seq)[f])

\* Every record of the journal is about the commit of the call that wrote it.
RecordsOwn ==
    \A i \in DOMAIN journal :
        journal[i].kind = "delta" => journal[i].version = journal[i].base + 1
=============================================================================
