---------------------------- MODULE DurableStore ----------------------------
(***************************************************************************)
(* The bytes of the durable store: rolled data-log files, one SQLite       *)
(* catalog per storage node and one root SQLite database, three stores     *)
(* that commit separately (local/durable/sqlite.rs, data_log.rs,           *)
(* persist.rs, reopen.rs, maintenance.rs).  Writers append segments to the *)
(* active log ahead of any sync ("prestage"); a persist syncs the logs,    *)
(* commits each touched node catalog and then the root; compaction moves   *)
(* live records out of sealed logs and deletes them; the two custodians    *)
(* sweep metadata and free segments; a crash keeps what was synced, and    *)
(* reopening rebuilds memory from the three stores or refuses.             *)
(*                                                                         *)
(* One commit writes one segment, and may overwrite one.  A record takes   *)
(* one unit of a log.  `bytes` tells the contents of two uses of the same  *)
(* segment number apart: numbers a crash forgot are given out again.       *)
(* `live` is what the heads still reach, `refs` what some metadata node,   *)
(* swept or not, still names.                                              *)
(***************************************************************************)
EXTENDS Naturals, Sequences, FiniteSets, FiniteSetsExt, SequencesExt

CONSTANTS
    Nodes,          \* storage nodes
    MaxSegment,     \* bound: segment numbers 1..MaxSegment
    Home,           \* segment -> its storage node
    Prestaged,      \* segments of writes that are not flushed: these prestage
    Capacity,       \* target_data_log_bytes, in records
    MaxLog,         \* bound: log numbers on a node
    MinReclaimable, \* min_reclaimable_bytes, in records
    MaxCrash,       \* bound: crashes
    Overlap         \* may a compaction start while prestaged appends are pending?

Segments == 1..MaxSegment
Logs == Nodes \X (1..MaxLog)

ASSUME StoreAssumption ==
    /\ Home \in [Segments -> Nodes] /\ Prestaged \subseteq Segments
    /\ {MaxSegment, MaxLog, MaxCrash} \subseteq Nat
    /\ {Capacity, MinReclaimable} \subseteq Nat \ {0}
    /\ Overlap \in BOOLEAN

VARIABLES
    \* memory of the coordinator
    up,          \* "up", "down", or "corrupt" when reopening refused
    crashes,
    life,        \* state of a segment in its node's in-memory catalog
    bytes,       \* its contents
    live, refs,  \* segments the heads reach; segments metadata nodes name
    commits,     \* pending_block_deltas: commits [seg, old] not yet durable
    persisted,   \* persisted_segments
    pend,        \* pending_data_log_append
    stage,       \* prestaging of a segment
    gate,        \* metadata_persist_gate: the persist that waits for persist_lock
    job,         \* persist_lock: the persist or compaction that holds it
    swept,       \* metadata custodian: has it folded the deltas?
    owed,        \* catalog changes a custodian has still to persist
    \* disk
    files,       \* log -> its file
    rows,        \* log -> its data_logs row
    place,       \* segment -> its segment_placements row
    entry,       \* segment -> its segment_catalog_entries row
    root         \* root database: nodes, heads and block delta rows

memory == <<life, bytes, live, refs, commits, persisted, pend, swept, owed>>
catalogs == <<rows, place, entry>>
vars == <<up, crashes, memory, stage, gate, job, files, catalogs, root>>

None == 0                                 \* no segment
NoFile == [there |-> FALSE, linked |-> FALSE, recs |-> <<>>, synced |-> 0]
NoRow == [state |-> "none", total |-> 0, live |-> 0, dead |-> 0]
NoPlace == [log |-> <<>>, at |-> 0, current |-> FALSE]
NoEntry == [state |-> "none", bytes |-> 0]
NoJob == [kind |-> "none"]
Staging == [step |-> "begun"]             \* in_flight, nothing done yet
Unstaged == [step |-> "none"]
Loaded == {"pending", "referenced", "released"}   \* states with a record

-----------------------------------------------------------------------------
(* PendingDataLogAppend: records written to logs that no catalog knows yet.  *)

\* placed: segment -> place; total: log -> its length; sealed: logs rolled past.
EmptyPend == [placed |-> <<>>, total |-> <<>>, sealed |-> {}]

Merge(p, q) ==
    [placed |-> q.placed @@ p.placed,
     total  |-> [l \in DOMAIN p.total \cup DOMAIN q.total |->
                    Max({x.total[l] : x \in {y \in {p, q} : l \in DOMAIN y.total}})],
     sealed |-> p.sealed \cup q.sealed]

\* Keeps the placements of segs; logs and seals that no kept placement is in go.
Retain(p, segs) ==
    LET kept == [s \in DOMAIN p.placed \cap segs |-> p.placed[s]]
        used == {kept[s].log : s \in DOMAIN kept}
    IN  [placed |-> kept,
         total  |-> [l \in DOMAIN p.total \cap used |-> p.total[l]],
         sealed |-> p.sealed \cap used]

RetainCurrentPlacements(p, segs) == Retain(p, segs)
RemoveSegments(p, segs) == Retain(p, DOMAIN p.placed \ segs)

\* The log of node n to append to: the newest open one of the pending base.
ActiveLogForNode(fs, p, n) ==
    LET open == {l \in DOMAIN p.total \ p.sealed : l[1] = n}
        l == <<n, Max({x[2] : x \in open})>>
    IN  IF open = {} THEN [log |-> <<>>, total |-> 0]
        ELSE [log |-> l, total |-> Max({p.total[l], Len(fs[l].recs)})]

NextDataLogId(fs, n, floor) ==
    1 + Max({floor} \cup {i \in 1..MaxLog : \/ rows[<<n, i>>].state # "none"
                                            \/ fs[<<n, i>>].there})

ActiveDataLog(fs, n) ==
    LET open == {i \in 1..MaxLog : rows[<<n, i>>].state = "active"}
        l == <<n, Max(open)>>
    IN  IF open = {} THEN [log |-> <<n, NextDataLogId(fs, n, 0)>>, total |-> 0]
        ELSE [log |-> l, total |-> Max({rows[l].total, Len(fs[l].recs)})]

\* Appends one segment.  acc: the files, the chosen log per node, what was
\* appended.  A full log is rolled past; the file is opened in append mode.
AppendSegment(base, acc, s) ==
    LET n == Home[s]
        pending == ActiveLogForNode(acc.files, base, n)
        active == IF n \in DOMAIN acc.active THEN acc.active[n]
                  ELSE IF pending.log # <<>> THEN pending ELSE ActiveDataLog(acc.files, n)
        full == active.total # 0 /\ active.total + 1 > Capacity
        l == IF full THEN <<n, NextDataLogId(acc.files, n, active.log[2])>> ELSE active.log
        file == acc.files[l]
        at == Max({IF full THEN 0 ELSE active.total, Len(file.recs)}) + 1
    IN  [files  |-> [acc.files EXCEPT
                       ![l] = [@ EXCEPT !.there = TRUE,
                                        !.recs = Append(@, [seg |-> s, bytes |-> bytes[s]])]],
         active |-> (n :> [log |-> l, total |-> at]) @@ acc.active,
         out    |-> Merge(acc.out,
                          [placed |-> s :> [log |-> l, at |-> at, current |-> TRUE],
                           total  |-> l :> at,
                           sealed |-> IF full THEN {active.log} ELSE {}])]

AppendSegments(base, segs) ==
    FoldLeft(LAMBDA acc, s : AppendSegment(base, acc, s),
             [files |-> files, active |-> <<>>, out |-> EmptyPend],
             SetToSortSeq(segs, <))

\* File syncs, then directory syncs: a directory sync keeps every file in it.
SyncFiles(fs, logs, dirs) ==
    [l \in Logs |-> [fs[l] EXCEPT
        !.synced = IF l \in logs THEN Len(fs[l].recs) ELSE @,
        !.linked = @ \/ (fs[l].there /\ l[1] \in dirs)]]

\* DataLogSyncMode::Sync: only directories that got a new file are synced.
SyncAppended(r) ==
    LET logs == DOMAIN r.out.total
    IN  SyncFiles(r.files, logs, {l[1] : l \in {x \in logs : ~files[x].there}})

\* Mutant: the directory entries of new logs are left unsynced.
SyncWithoutDirectory(fs, p) == SyncFiles(fs, DOMAIN p.total, {})

SyncPendingDataLogs(fs, p) ==
    SyncFiles(fs, DOMAIN p.total, {l[1] : l \in DOMAIN p.total})

\* Bound: every append of at most two records stays within the log numbers.
LogsLeft == \A n \in Nodes : NextDataLogId(files, n, 0) < MaxLog

-----------------------------------------------------------------------------
(* One transaction of a node catalog.                                        *)

\* Segments of segs whose place, in the function pl, is in log l.
CountIn(pl, segs, l) == Cardinality({s \in segs : pl[s].log = l})

PersistDataLogManifest(r, p, n) ==
    [l \in Logs |-> IF l[1] = n /\ l \in DOMAIN p.total
                    THEN [r[l] EXCEPT !.state = "active", !.total = Max({@, p.total[l]})]
                    ELSE r[l]]

SealDataLogManifest(r, p, n) ==
    [l \in Logs |-> IF l[1] = n /\ l \in p.sealed /\ r[l].state \notin {"none", "deleted"}
                    THEN [r[l] EXCEPT !.state = "sealed"]
                    ELSE r[l]]

MarkPlacementDead(r, dead) ==
    [l \in Logs |-> LET c == CountIn(place, dead, l)
                    IN  [r[l] EXCEPT !.live = IF @ > c THEN @ - c ELSE 0, !.dead = @ + c]]

\* Mutant: live_bytes is left to the manifest row.
PlaceUncounted(r, p, segs) == r

PersistSegmentPlacement(r, p, segs) ==
    [l \in Logs |-> [r[l] EXCEPT !.live = @ + CountIn(p.placed, segs, l)]]

\* Manifests, seals, dead placements, new placements, in this order.
PublishLogs(p, n, dead) ==
    LET new == {s \in DOMAIN p.placed : Home[s] = n}
    IN  /\ rows' = PersistSegmentPlacement(
                       MarkPlacementDead(
                           SealDataLogManifest(PersistDataLogManifest(rows, p, n), p, n), dead),
                       p, new)
        /\ place' = [s \in Segments |-> IF s \in new THEN p.placed[s]
                                        ELSE IF s \in dead THEN [place[s] EXCEPT !.current = FALSE]
                                        ELSE place[s]]

\* encode_catalog_entry_for_pre_root_publish: what this publish places is
\* not yet referenced by a committed root.
CatalogEntry(s, state, placed) ==
    IF state = "none" THEN NoEntry
    ELSE [state |-> IF s \in placed /\ state = "referenced" THEN "pending" ELSE state,
          bytes |-> bytes[s]]

-----------------------------------------------------------------------------
(* Writers.                                                                  *)

\* commit_block_batch: segment s is written and a head moves to it, away from
\* `old`; a write that is not flushed prestages its segment.
Write(s, old) ==
    /\ up = "up"
    /\ s = Min({x \in Segments : life[x] = "none"} \cup {MaxSegment + 1})
    /\ s \in Segments /\ old \in live \cup {None}
    /\ life' = [life EXCEPT ![s] = "referenced"]
    /\ bytes' = [bytes EXCEPT ![s] = crashes]
    /\ live' = (live \ {old}) \cup {s}
    /\ refs' = refs \cup {s}
    /\ commits' = Append(commits, [seg |-> s, old |-> old])
    /\ stage' = [stage EXCEPT ![s] = IF s \in Prestaged THEN Staging ELSE Unstaged]
    /\ UNCHANGED <<up, crashes, persisted, pend, swept, owed, gate, job, files, catalogs, root>>

\* prestage_block_delta_segments: a copy of the pending appends is taken ...
PrestageRead(s) ==
    /\ up = "up" /\ stage[s] = Staging
    /\ stage' = [stage EXCEPT ![s] = IF s \in persisted \cup DOMAIN pend.placed THEN Unstaged
                                     ELSE [step |-> "read", base |-> pend]]
    /\ UNCHANGED <<up, crashes, memory, gate, job, files, catalogs, root>>

\* ... the segment is appended after it, unsynced ...
PrestageAppend(s) ==
    /\ up = "up" /\ stage[s].step = "read" /\ LogsLeft
    /\ LET r == AppendSegments(stage[s].base, {s})
       IN  /\ files' = r.files
           /\ stage' = [stage EXCEPT ![s] = [step |-> "merge", out |-> r.out]]
    /\ UNCHANGED <<up, crashes, memory, gate, job, catalogs, root>>

\* ... and the result merged into whatever is pending by then.
PrestageMerge(s) ==
    /\ up = "up" /\ stage[s].step = "merge"
    /\ pend' = Merge(pend, stage[s].out)
    /\ stage' = [stage EXCEPT ![s] = Unstaged]
    /\ UNCHANGED <<up, crashes, life, bytes, live, refs, commits, persisted, swept, owed,
                   gate, job, files, catalogs, root>>

-----------------------------------------------------------------------------
(* Persists: gate, persist_lock, logs, node catalogs, root.                  *)

CommitSegs(k) == {commits[i].seg : i \in 1..k}

\* persist_block_delta_batch waits for the prestaging of its deltas.
GateDeltas(k) ==
    /\ up = "up" /\ gate = NoJob
    /\ k \in 1..Len(commits) /\ \A s \in CommitSegs(k) : stage[s] = Unstaged
    /\ gate' = [kind |-> "delta", k |-> k]
    /\ UNCHANGED <<up, crashes, memory, stage, job, files, catalogs, root>>

LockDeltas ==
    /\ up = "up" /\ gate.kind = "delta" /\ job = NoJob
    /\ LET segs == CommitSegs(gate.k)
           p == RetainCurrentPlacements(pend, segs)
       IN  IF \A s \in segs : life[s] \in Loaded
           THEN /\ job' = [kind |-> "delta", step |-> "append", k |-> gate.k, pend |-> p,
                           new |-> segs \ (persisted \cup DOMAIN p.placed), life |-> life,
                           entries |-> segs, removed |-> {}, todo |-> {Home[s] : s \in segs}]
                /\ UNCHANGED gate
           ELSE job' = NoJob /\ gate' = NoJob       \* a payload is gone: the call fails
    /\ UNCHANGED <<up, crashes, memory, stage, files, catalogs, root>>

\* persist_physical waits for all prestaging.
GateImage ==
    /\ up = "up" /\ gate = NoJob
    /\ commits # <<>> \/ owed # {} \/ root.deltas # <<>>    \* there is something to persist
    /\ \A s \in Segments : stage[s] = Unstaged
    /\ gate' = [kind |-> "image"]
    /\ UNCHANGED <<up, crashes, memory, stage, job, files, catalogs, root>>

\* The image is taken; `changed` are the entries a custodian asks to write.
LockImage(changed) ==
    /\ up = "up" /\ gate.kind = "image" /\ job = NoJob
    /\ LET current == {s \in Segments : life[s] \in Loaded}
           p == RetainCurrentPlacements(pend, current)
           new == current \ (persisted \cup DOMAIN pend.placed)
           removed == persisted \ current
           incremental == changed # {} \/ (new \cup DOMAIN p.placed # {} /\ removed = {})
       IN  job' = [kind |-> "image", step |-> "append", k |-> Len(commits), pend |-> p,
                   new |-> new, life |-> life, removed |-> removed, todo |-> Nodes,
                   entries |-> IF incremental
                               THEN new \cup DOMAIN p.placed \cup removed \cup changed
                               ELSE Segments,
                   current |-> current, image |-> [refs |-> refs, live |-> live]]
    /\ owed' = owed \ changed
    /\ UNCHANGED <<up, crashes, life, bytes, live, refs, commits, persisted, pend, swept,
                   stage, gate, files, catalogs, root>>

\* New segments are appended and every log of the append is synced.  The
\* files of prestaged logs are opened by name: a missing one fails the call.
PreparePayload ==
    /\ up = "up" /\ job.kind \in {"delta", "image"} /\ job.step = "append" /\ LogsLeft
    /\ LET r == AppendSegments(job.pend, job.new)
           all == Merge(job.pend, r.out)
       IN  IF \A l \in DOMAIN job.pend.total : r.files[l].there
           THEN /\ files' = IF job.kind = "image"
                            THEN SyncPendingDataLogs(SyncAppended(r), job.pend)
                            ELSE SyncPendingDataLogs(r.files, all)
                /\ job' = [job EXCEPT !.step = "publish", !.pend = all]
                /\ UNCHANGED gate
           ELSE files' = r.files /\ job' = NoJob /\ gate' = NoJob
    /\ UNCHANGED <<up, crashes, memory, stage, catalogs, root>>

\* One node catalog commits.
PublishNode(n) ==
    /\ up = "up" /\ job.kind \in {"delta", "image"} /\ job.step = "publish" /\ n \in job.todo
    /\ PublishLogs(job.pend, n, {s \in job.removed : Home[s] = n})
    /\ entry' = [s \in Segments |-> IF s \in job.entries /\ Home[s] = n
                                    THEN CatalogEntry(s, job.life[s], DOMAIN job.pend.placed)
                                    ELSE entry[s]]
    /\ job' = [job EXCEPT !.todo = @ \ {n}]
    /\ UNCHANGED <<up, crashes, memory, stage, gate, files, root>>

\* Mutant: the root does not wait for the node catalogs.
PublishDeltasEarly ==
    /\ up = "up" /\ job.kind = "delta" /\ job.step = "publish"
    /\ root' = [root EXCEPT !.deltas = @ \o SubSeq(commits, 1, job.k)]
    /\ persisted' = persisted \cup job.entries
    /\ pend' = RemoveSegments(pend, job.entries)
    /\ commits' = SubSeq(commits, job.k + 1, Len(commits))
    /\ job' = NoJob /\ gate' = NoJob
    /\ UNCHANGED <<up, crashes, life, bytes, live, refs, swept, owed, stage, files, catalogs>>

\* The root commits the delta rows, and memory forgets what is now durable.
PublishDeltas ==
    /\ up = "up" /\ job.kind = "delta" /\ job.step = "publish" /\ job.todo = {}
    /\ root' = [root EXCEPT !.deltas = @ \o SubSeq(commits, 1, job.k)]
    /\ persisted' = persisted \cup job.entries
    /\ pend' = RemoveSegments(pend, job.entries)
    /\ commits' = SubSeq(commits, job.k + 1, Len(commits))
    /\ job' = NoJob /\ gate' = NoJob
    /\ UNCHANGED <<up, crashes, life, bytes, live, refs, swept, owed, stage, files, catalogs>>

\* persist_row_native_state: the tables become those of the image; the delta
\* rows through its last commit, which is every one there is, are pruned.
RowNativeState(image) == [refs |-> image.refs, live |-> image.live, deltas |-> <<>>]

PublishImage ==
    /\ up = "up" /\ job.kind = "image" /\ job.step = "publish" /\ job.todo = {}
    /\ root' = RowNativeState(job.image)
    /\ persisted' = job.current
    /\ pend' = EmptyPend
    /\ commits' = SubSeq(commits, job.k + 1, Len(commits))
    /\ job' = NoJob /\ gate' = NoJob
    /\ UNCHANGED <<up, crashes, life, bytes, live, refs, swept, owed, stage, files, catalogs>>

-----------------------------------------------------------------------------
(* The durable metadata.                                                     *)

\* Metadata after the block delta rows are replayed over the image.
ReplayedRefs == root.refs \cup {root.deltas[i].seg : i \in DOMAIN root.deltas}
ReplayedLive ==
    FoldLeft(LAMBDA acc, d : (acc \ {d.old}) \cup {d.seg}, root.live, root.deltas)

-----------------------------------------------------------------------------
(* Custodians.                                                               *)

\* run_metadata_custodian goes on once no delta is left to fold.
FoldCompactDeltas ==
    /\ up = "up" /\ swept = "idle" /\ refs # live
    /\ commits = <<>> /\ root.deltas = <<>>
    /\ swept' = "folded"
    /\ UNCHANGED <<up, crashes, life, bytes, live, refs, commits, persisted, pend, owed,
                   stage, gate, job, files, catalogs, root>>

\* Nodes no head reaches go; the segments only they named are released.
SweepMetadata ==
    /\ up = "up" /\ swept = "folded"
    /\ refs' = live
    /\ life' = [s \in Segments |-> IF s \in refs \ live /\ life[s] = "referenced"
                                   THEN "released" ELSE life[s]]
    /\ owed' = owed \cup {s \in refs \ live : life'[s] = "released"}
    /\ swept' = "idle"
    /\ UNCHANGED <<up, crashes, bytes, live, commits, persisted, pend,
                   stage, gate, job, files, catalogs, root>>

\* run_storage_node_custodian frees released segments, and pending ones whose
\* write intent has expired: here those a crash left without a root.
RunNodeCustodian(expired) ==
    /\ up = "up"
    /\ LET freed == expired \cup {s \in Segments : life[s] = "released"}
       IN  /\ freed # {}
           /\ life' = [s \in Segments |-> IF s \in freed THEN "freed" ELSE life[s]]
           /\ owed' = owed \cup freed
    /\ UNCHANGED <<up, crashes, bytes, live, refs, commits, persisted, pend, swept,
                   stage, gate, job, files, catalogs, root>>

-----------------------------------------------------------------------------
(* Compaction of one log, under persist_lock.                                *)

\* The plan was made before the lock was taken: the row is read again.
CompactBegin(l) ==
    /\ up = "up" /\ job = NoJob
    /\ Overlap \/ (pend = EmptyPend /\ \A s \in Segments : stage[s] = Unstaged)
    /\ rows[l].state = "sealed" /\ rows[l].total # 0
    /\ rows[l].live = 0 \/ rows[l].dead >= MinReclaimable
    /\ job' = [kind |-> "compact", log |-> l,
               step |-> IF rows[l].live = 0 THEN "drop" ELSE "copy"]
    /\ UNCHANGED <<up, crashes, memory, stage, gate, files, catalogs, root>>

CurrentPlacementsForLog(l) == {s \in Segments : place[s].current /\ place[s].log = l}

\* read_segment_payload: the record a placement names, or an error.
Readable(s) ==
    /\ place[s].current /\ files[place[s].log].there
    /\ place[s].at \in DOMAIN files[place[s].log].recs
    /\ files[place[s].log].recs[place[s].at] = [seg |-> s, bytes |-> entry[s].bytes]

CompactCopy ==
    /\ up = "up" /\ job.kind = "compact" /\ job.step = "copy" /\ LogsLeft
    /\ LET moved == CurrentPlacementsForLog(job.log)
           r == AppendSegments(EmptyPend, moved)
       IN  IF \A s \in moved : Readable(s)
           THEN /\ files' = SyncAppended(r)
                /\ job' = [job EXCEPT !.step = "commit"] @@ [pend |-> r.out]
           ELSE files' = files /\ job' = NoJob
    /\ UNCHANGED <<up, crashes, memory, stage, gate, catalogs, root>>

CompactCommit ==
    /\ up = "up" /\ job.kind = "compact" /\ job.step \in {"drop", "commit"}
    /\ LET n == job.log[1]
           p == job.pend
           published == PersistSegmentPlacement(
                            SealDataLogManifest(PersistDataLogManifest(rows, p, n), p, n),
                            p, DOMAIN p.placed)
       IN  IF job.step = "drop"
           THEN /\ rows' = [rows EXCEPT ![job.log].state = "deleted"]
                /\ UNCHANGED place
           ELSE /\ rows' = [published EXCEPT ![job.log] =
                               [state |-> "deleted", total |-> @.total, live |-> 0, dead |-> @.total]]
                /\ place' = p.placed @@ place
    /\ job' = [kind |-> "compact", step |-> "delete", log |-> job.log]
    /\ UNCHANGED <<up, crashes, memory, stage, gate, files, entry, root>>

DeleteDataLog ==
    /\ up = "up" /\ job.kind = "compact" /\ job.step = "delete"
    /\ files' = [files EXCEPT ![job.log] = NoFile]
    /\ job' = NoJob
    /\ UNCHANGED <<up, crashes, memory, stage, gate, catalogs, root>>

-----------------------------------------------------------------------------
(* Crash and reopen.                                                         *)

Torn == [seg |-> None, bytes |-> 0]

\* What a crash can leave of a file: its synced records, some of those after
\* them, perhaps the torn beginning of one more; a file whose directory entry
\* was never synced may be gone.
Survivors(f) ==
    LET kept == {SubSeq(f.recs, 1, i) : i \in f.synced..Len(f.recs)}
        torn == {Append(SubSeq(f.recs, 1, i), Torn) : i \in f.synced..(Len(f.recs) - 1)}
    IN  {[there |-> TRUE, linked |-> TRUE, recs |-> r, synced |-> Len(r)] : r \in kept \cup torn}
            \cup IF f.linked THEN {} ELSE {NoFile}

ForgetMemory ==
    /\ life' = [s \in Segments |-> "none"]
    /\ bytes' = [s \in Segments |-> 0]
    /\ live' = {} /\ refs' = {} /\ commits' = <<>> /\ persisted' = {}
    /\ pend' = EmptyPend /\ swept' = "idle" /\ owed' = {}

Crash ==
    /\ up = "up" /\ crashes < MaxCrash
    /\ up' = "down" /\ crashes' = crashes + 1
    /\ LET dirty == {l \in Logs : files[l].there /\ Survivors(files[l]) # {files[l]}}
       IN  \E pick \in [dirty -> UNION {Survivors(files[l]) : l \in dirty}] :
               /\ \A l \in dirty : pick[l] \in Survivors(files[l])
               /\ files' = pick @@ files
    /\ ForgetMemory
    /\ stage' = [s \in Segments |-> Unstaged]
    /\ gate' = NoJob /\ job' = NoJob
    /\ UNCHANGED <<catalogs, root>>

CatalogSegments == {s \in Segments : entry[s].state \in Loaded}

\* load_storage_registry_from_node_catalogs reads every catalogued segment back.
RegistryLoads == \A s \in CatalogSegments : Readable(s)

\* validate_row_native_state: every segment a metadata node names is one of them.
LeavesHaveSegments == ReplayedRefs \subseteq CatalogSegments

\* reconcile_catalog_references_from_metadata
Reconciled ==
    [s \in Segments |-> IF entry[s].state = "pending" /\ s \in ReplayedRefs
                        THEN [entry[s] EXCEPT !.state = "referenced"] ELSE entry[s]]

Reopen ==
    /\ up = "down"
    /\ IF RegistryLoads /\ LeavesHaveSegments
       THEN /\ up' = "up"
            /\ entry' = Reconciled
            /\ life' = [s \in Segments |-> Reconciled[s].state]
            /\ bytes' = [s \in Segments |-> entry[s].bytes]
            /\ live' = ReplayedLive /\ refs' = ReplayedRefs
            /\ persisted' = CatalogSegments
       ELSE /\ up' = "corrupt"
            /\ UNCHANGED <<entry, life, bytes, live, refs, persisted>>
    /\ UNCHANGED <<crashes, commits, pend, swept, owed, stage, gate, job, files, rows, place, root>>

-----------------------------------------------------------------------------
Init ==
    /\ up = "up" /\ crashes = 0
    /\ life = [s \in Segments |-> "none"] /\ bytes = [s \in Segments |-> 0]
    /\ live = {} /\ refs = {} /\ commits = <<>> /\ persisted = {} /\ pend = EmptyPend
    /\ stage = [s \in Segments |-> Unstaged] /\ gate = NoJob /\ job = NoJob
    /\ swept = "idle" /\ owed = {}
    /\ files = [l \in Logs |-> NoFile] /\ rows = [l \in Logs |-> NoRow]
    /\ place = [s \in Segments |-> NoPlace] /\ entry = [s \in Segments |-> NoEntry]
    /\ root = [refs |-> {}, live |-> {}, deltas |-> <<>>]

Next ==
    \/ \E s \in Segments :
          \/ \E old \in Segments \cup {None} : Write(s, old)
          \/ PrestageRead(s) \/ PrestageAppend(s) \/ PrestageMerge(s)
    \/ \E k \in 1..MaxSegment : GateDeltas(k)
    \/ LockDeltas \/ GateImage
    \/ \E changed \in {{}, owed} : LockImage(changed)
    \/ PreparePayload \/ PublishDeltas \/ PublishImage \/ \E n \in Nodes : PublishNode(n)
    \/ FoldCompactDeltas \/ SweepMetadata
    \/ \E expired \in SUBSET {s \in Segments : life[s] = "pending"} : RunNodeCustodian(expired)
    \/ \E l \in Logs : CompactBegin(l)
    \/ CompactCopy \/ CompactCommit \/ DeleteDataLog
    \/ Crash \/ Reopen

Spec == Init /\ [][Next]_vars

-----------------------------------------------------------------------------
(* Properties.                                                               *)

States == {"none", "pending", "referenced", "released", "freed"}

(* Type invariant: memory, files and rows have the shapes the code gives     *)
(* them, and no more of a file is synced than was written.                   *)
DTypeOK ==
    /\ up \in {"up", "down", "corrupt"} /\ crashes \in 0..MaxCrash
    /\ life \in [Segments -> States] /\ bytes \in [Segments -> 0..MaxCrash]
    /\ live \subseteq refs /\ refs \subseteq Segments /\ persisted \subseteq Segments
    /\ \A i \in DOMAIN commits : commits[i].seg \in refs
    /\ \A l \in Logs : files[l].synced \in 0..Len(files[l].recs)
    /\ \A l \in Logs : rows[l].state \in {"none", "active", "sealed", "deleted"}
    /\ \A s \in Segments : entry[s].state \in States \ {"none"} <=> entry[s] # NoEntry

\* The record of s survives a crash: synced bytes in a file whose name is synced.
Durable(s) ==
    /\ Readable(s)
    /\ files[place[s].log].linked
    /\ place[s].at <= files[place[s].log].synced

(* "segment payload reaches the data log and is fsynced before the           *)
(* storage-node catalog commits a segment receipt": at every moment, through *)
(* prestaging, compaction, file deletion and crashes, a segment with a       *)
(* catalog row that reopening would load has a current placement whose       *)
(* record is there, is its own, and would survive the next crash.            *)
PlacedDurable == \A s \in CatalogSegments : Durable(s)

(* "root metadata is committed only after those receipts are durable": no    *)
(* metadata node or delta row of the root database names a segment without a *)
(* committed catalog row, although each node commits on its own.             *)
RootCatalogued == \A s \in ReplayedRefs : entry[s].state # "none"

(* The state is well typed, and the books of the logs are right:             *)
(* compact_data_log_rows deletes a sealed log unread when its live_bytes is  *)
(* zero, so the count never falls below the placements still in the log, and *)
(* a deleted log has none.                                                   *)
LiveCounted ==
    /\ DTypeOK
    /\ \A l \in Logs :
          LET current == CurrentPlacementsForLog(l)
          IN  IF rows[l].state = "deleted" THEN current = {}
              ELSE rows[l].live >= Cardinality(current)

(* "crash replay must reconstruct the same visible logical state": what the  *)
(* heads of the durable root reach can be loaded from the node catalogs.     *)
DurableHeadsLoad == ReplayedLive \subseteq CatalogSegments

(* A persist finds the files of the prestaged appends it is about to sync.   *)
PrestagedThere ==
    job.kind \in {"delta", "image"} /\ job.step = "append"
        => \A l \in DOMAIN job.pend.total : files[l].there

(* A log that is no longer appended to is sealed once nothing is in flight:  *)
(* compaction only ever considers sealed logs.                               *)
RolledSealed ==
    (up = "up" /\ job = NoJob /\ pend = EmptyPend /\ \A s \in Segments : stage[s] = Unstaged)
        => \A n \in Nodes : Cardinality({i \in 1..MaxLog : rows[<<n, i>>].state = "active"}) <= 1

=============================================================================
