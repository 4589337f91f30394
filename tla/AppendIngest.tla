---------------------------- MODULE AppendIngest ----------------------------
(***************************************************************************)
(* Append streams below the publish: the bytes of a stream on their way    *)
(* into the append logs of a storage node, the background worker that      *)
(* syncs them, the marks that say how far a stream is durable, the         *)
(* coordinator that persists a stream's prefix for a flushed append, and   *)
(* the publish that relies on those marks to skip a sync.                  *)
(*                                                                         *)
(* A log is the sequence of the bytes in it; a byte is the pair of the     *)
(* stream and the stream offset it was written for.  "log" is what a read  *)
(* of the file returns, "kept" what a power failure leaves of it, "linked" *)
(* the logs whose directory entry has been synced.  One storage node with  *)
(* one active log lane is modelled, so the streams share one active log.   *)
(*                                                                         *)
(* A thread is a call in progress: its record holds "pc" and the locals    *)
(* that the rest of the call reads.                                        *)
(***************************************************************************)
EXTENDS Naturals, Sequences, SequencesExt, FiniteSets, FiniteSetsExt, TLC

CONSTANTS
    Threads,        \* the calls that may be in progress at once
    Streams,        \* the stream identifiers the allocator can hand out
    FileOf,         \* the file each stream is opened on
    Modes,          \* AppendAutoPersistPolicy: a store has one; with several every call
                    \* picks one, which covers each store and more
    Opened,         \* the streams open at the start, each on a file of its own
    Inputs,         \* per stream, the appends: payload length, flushed or acknowledged
    Throughs,       \* the offsets a publish asks for
    LogTarget,      \* policy.target_data_log_bytes
    GroupBytes,     \* MAX_STREAM_DATA_LOG_SYNC_GROUP_BYTES
    AutoBytes,      \* config.stream_auto_persist_bytes
    MaxInFlight,    \* append_ingest_admission_policy.max_in_flight_bytes
    MaxLog,         \* bound: log files
    MaxAppends,     \* bound: append calls
    MaxPublishes,   \* bound: publish calls
    MaxGen,         \* bound: generations of the prefix coordinator
    MaxGroups,      \* MAX_STREAM_PREFIX_PERSIST_GROUPS_PER_RUN
    MaxUpsets,      \* bound: restarts, failed writes and syncs, streams ended
    MaxTorn         \* bound: payload writes that fail half way

ASSUME IngestAssumption ==
    /\ Modes \subseteq {"inline", "inline_wait", "async"} /\ Modes # {}
    /\ Opened \subseteq Streams /\ Streams \subseteq Nat
    /\ \A s, q \in Opened : FileOf[s] = FileOf[q] => s = q
    /\ DOMAIN Inputs = Streams
    /\ \A s \in Streams : Inputs[s] \subseteq (Nat \ {0}) \X BOOLEAN
    /\ LogTarget \in Nat \ {0} /\ GroupBytes \in Nat \ {0} /\ AutoBytes \in Nat \ {0}
    /\ DOMAIN FileOf = Streams

VARIABLES
    stream,     \* AppendStreamState of every stream
    log, kept,  \* the files: what they hold, what a power failure leaves
    files,      \* the logs that exist
    linked,     \* the logs whose directory entry is durable
    active,     \* ActiveAppendRunLog of the lane, or NoHandle
    writer,     \* the thread holding the active log's mutex, or NoThread
    appending,  \* per stream, the thread holding its append mutex
    pending,    \* per stream, its PendingDataLogAppend
    synced,     \* synced_logs
    dirSynced,  \* dir_synced_logs
    wreq, wjob, \* the worker's request table; the sync it is doing
    coord,      \* StreamPrefixPersistCoordinatorState
    persist,    \* the thread holding persist_lock, or NoThread
    inflight,   \* append_publish_in_flight: the files
    catalog,    \* the node catalog's data_logs rows
    journal,    \* the run extents of the journalled publishes
    th,         \* the calls in progress
    budget      \* what is left of the bounds

disk == <<log, kept, files, linked>>
service == <<active, writer, synced, dirSynced>>
vars == <<stream, disk, service, appending, pending, wreq, wjob, coord,
          persist, inflight, catalog, journal, th, budget>>

LogIds == 1..MaxLog
NoThread == "none"
NoHandle == [log |-> 0, total |-> 0, dir |-> FALSE]
NoPending == [logs |-> <<>>, sealed |-> {}]
NoJob == [files |-> <<>>, dirs |-> {}]
Idle == [pc |-> "idle"]

Least(a, b) == IF a < b THEN a ELSE b
Most(a, b) == IF a < b THEN b ELSE a

(***************************************************************************)
(* The records of a stream: [off, len] of the stream at [log, pos].        *)
(***************************************************************************)

RecordEnd(r) == r.off + r.len

Slice(r, a, b) == [off |-> a, len |-> b - a, log |-> r.log, pos |-> r.pos + (a - r.off)]

\* Two records that follow each other in the stream and in the log are one.
CanCoalesce(r, q) ==
    /\ RecordEnd(r) = q.off
    /\ r.log = q.log /\ r.pos + r.len = q.pos
    /\ r.len + q.len <= GroupBytes

Coalesce(r, q) == [r EXCEPT !.len = @ + q.len]

ContiguousTail(rs, start) ==
    FoldLeft(LAMBDA e, r : IF RecordEnd(r) > e /\ r.off <= e THEN RecordEnd(r) ELSE e,
             start, rs)

PublishRecords(rs, a, b) ==
    LET hit == SelectSeq(rs, LAMBDA r : RecordEnd(r) > a /\ r.off < b)
    IN  [i \in DOMAIN hit |->
            Slice(hit[i], Most(hit[i].off, a), Least(RecordEnd(hit[i]), b))]

RetainAfter(rs, b) ==
    LET rest == SelectSeq(rs, LAMBDA r : RecordEnd(r) > b)
    IN  [i \in DOMAIN rest |-> Slice(rest[i], Most(rest[i].off, b), RecordEnd(rest[i]))]

\* The records after durable_through, up to the cap; the first one always.
PrefixBatch(st) ==
    LET Take(acc, r) ==
            IF acc.full \/ RecordEnd(r) <= acc.through THEN acc
            ELSE IF \/ r.off > acc.through
                    \/ /\ acc.recs # <<>>
                       /\ acc.bytes + (RecordEnd(r) - acc.through) > GroupBytes
            THEN [acc EXCEPT !.full = TRUE]
            ELSE [recs |-> Append(acc.recs, Slice(r, acc.through, RecordEnd(r))),
                  bytes |-> acc.bytes + (RecordEnd(r) - acc.through),
                  through |-> RecordEnd(r), full |-> FALSE]
    IN  FoldLeft(Take, [recs |-> <<>>, bytes |-> 0, through |-> st.durable, full |-> FALSE],
                 st.records)

LogRefs(rs) == {rs[i].log : i \in DOMAIN rs}

(***************************************************************************)
(* The pending manifests of a stream and the node catalog's rows.          *)
(***************************************************************************)

Active(s) == stream[s].status = "active"

MergePending(p, q) ==
    [logs |-> [l \in DOMAIN p.logs \union DOMAIN q.logs |->
                IF l \notin DOMAIN p.logs THEN q.logs[l]
                ELSE IF l \notin DOMAIN q.logs THEN p.logs[l]
                ELSE [st |-> q.logs[l].st,
                      total |-> Most(p.logs[l].total, q.logs[l].total),
                      dir |-> p.logs[l].dir \/ q.logs[l].dir]],
     sealed |-> p.sealed \union q.sealed]

SelectedLogRefs(p, refs) ==
    [logs |-> [l \in DOMAIN p.logs \intersect refs |-> p.logs[l]],
     sealed |-> p.sealed \intersect refs]

RemoveLogRefs(p, refs) == SelectedLogRefs(p, (DOMAIN p.logs \union p.sealed) \ refs)

\* A log without a pending manifest: its catalog row and its file length.
DataLogManifest(l) ==
    [st    |-> IF l \in DOMAIN catalog THEN catalog[l].st ELSE "active",
     total |-> IF l \in DOMAIN catalog THEN Most(catalog[l].total, Len(log[l])) ELSE Len(log[l]),
     dir   |-> FALSE]

ManifestsForLogRefs(s, refs) ==
    LET have == SelectedLogRefs(pending[s], refs)
        rest == refs \ (DOMAIN have.logs \union have.sealed)
    IN  MergePending(have, [logs |-> [l \in rest |-> DataLogManifest(l)], sealed |-> {}])

PersistManifests(p) ==
    LET upsert == [l \in DOMAIN catalog \union DOMAIN p.logs |->
                    IF l \notin DOMAIN p.logs THEN catalog[l]
                    ELSE [st |-> p.logs[l].st,
                          total |-> IF l \in DOMAIN catalog
                                    THEN Most(catalog[l].total, p.logs[l].total)
                                    ELSE p.logs[l].total]]
    IN  [l \in DOMAIN upsert |->
            IF l \in p.sealed THEN [upsert[l] EXCEPT !.st = "sealed"] ELSE upsert[l]]

(***************************************************************************)
(* Payload syncs: requests are merged per log; a sync looks at the marks   *)
(* and the file lengths first, syncs, and raises the marks last.           *)
(***************************************************************************)

AddRequests(table, reqs) ==
    [l \in DOMAIN table \union DOMAIN reqs |->
        IF l \notin DOMAIN table THEN reqs[l]
        ELSE IF l \notin DOMAIN reqs THEN table[l]
        ELSE [bytes |-> Most(table[l].bytes, reqs[l].bytes),
              dir |-> table[l].dir \/ reqs[l].dir]]

PendingSyncRequests(p) ==
    [l \in DOMAIN p.logs \union p.sealed |->
        IF l \in DOMAIN p.logs THEN [bytes |-> p.logs[l].total, dir |-> p.logs[l].dir]
        ELSE [bytes |-> Len(log[l]), dir |-> FALSE]]

\* What a sync of the requests will do, from the marks and lengths it finds now.
Observe(reqs) ==
    [files |-> [l \in {k \in DOMAIN reqs : synced[k] < reqs[k].bytes} |-> Len(log[l])],
     dirs  |-> {l \in DOMAIN reqs : reqs[l].dir /\ l \notin dirSynced}]

\* fdatasync of the files, fsync of the node's directory, then the marks.
SyncObserved(job) ==
    /\ kept' = [l \in LogIds |-> IF l \in DOMAIN job.files THEN log[l] ELSE kept[l]]
    /\ linked' = IF job.dirs = {} THEN linked ELSE files
    /\ synced' = [l \in LogIds |->
                    IF l \in DOMAIN job.files THEN Most(synced[l], job.files[l]) ELSE synced[l]]
    /\ dirSynced' = dirSynced \union job.dirs
    /\ UNCHANGED <<log, files, active, writer>>

\* Mutant: the synced length is compared with the record's length alone.
SyncedAnywhere(before, recs) ==
    FoldLeft(LAMBDA hw, r : IF synced[r.log] >= r.len THEN RecordEnd(r) ELSE hw, before, recs)

\* How far a stream's records lie below the synced lengths of their logs.
SyncedHighWater(before, recs) ==
    LET Step(acc, r) ==
            IF acc.stop \/ RecordEnd(r) <= acc.hw THEN acc
            ELSE IF r.off > acc.hw THEN [acc EXCEPT !.stop = TRUE]
            ELSE IF synced[r.log] >= r.pos + r.len THEN [acc EXCEPT !.hw = RecordEnd(r)]
            ELSE [stop |-> TRUE,
                  hw |-> IF synced[r.log] > r.pos
                         THEN Most(acc.hw, r.off + Least(synced[r.log] - r.pos, r.len))
                         ELSE acc.hw]
    IN  FoldLeft(Step, [hw |-> before, stop |-> FALSE], recs).hw

MarkDurable(st, x) ==
    IF x > st.durable /\ x <= ContiguousTail(st.records, st.durable)
    THEN [st EXCEPT !.durable = x] ELSE st

Mark(s, x) == stream' = [stream EXCEPT ![s] = IF Active(s) THEN MarkDurable(@, x) ELSE @]

(***************************************************************************)
(* Opening and ending a stream.                                            *)
(***************************************************************************)

\* A fenced, closed or lost stream; nothing reads the rest of its state again.
Ended == [status |-> "ended", accepted |-> 0, durable |-> 0, published |-> 0, records |-> <<>>]

FileSize(f) == Max({0} \union {e.off + e.len : e \in {e \in journal : FileOf[e.s] = f}})

OpenAppendStream(s) ==
    /\ stream[s].status = "none"
    /\ FileOf[s] \notin inflight
    /\ LET base == FileSize(FileOf[s])
           Fence(q) == FileOf[q] = FileOf[s] /\ Active(q)
       IN  stream' = [q \in Streams |->
                IF q = s THEN [status |-> "active", accepted |-> base, durable |-> base,
                               published |-> base, records |-> <<>>]
                ELSE IF Fence(q) THEN Ended ELSE stream[q]]
    /\ UNCHANGED <<disk, service, appending, pending, wreq, wjob, coord, persist,
                   inflight, catalog, journal, th, budget>>

\* abort_append_stream, release_append_stream, invalidate_append_streams_for_file
EndAppendStream(s) ==
    /\ budget.upsets > 0 /\ Active(s) /\ FileOf[s] \notin inflight
    /\ stream' = [stream EXCEPT ![s] = Ended]
    /\ budget' = [budget EXCEPT !.upsets = @ - 1]
    /\ UNCHANGED <<disk, service, appending, pending, wreq, wjob, coord, persist,
                   inflight, catalog, journal, th>>

(***************************************************************************)
(* append_stream_with_integrity: admission, the stream's append mutex, the *)
(* active log, the payload, the stream record.                             *)
(***************************************************************************)

Go(t, r) == th' = [th EXCEPT ![t] = r]

\* The permits of the appends in progress; each is dropped when its call returns.
InFlightBytes ==
    MapThenSumSet(LAMBDA t : IF "n" \in DOMAIN th[t] THEN th[t].n ELSE 0, Threads)

Admits(n) == InFlightBytes = 0 \/ InFlightBytes + n <= MaxInFlight

\* Admitted, with the stream's append mutex, and prepared at the accepted tail.
BeginAppend(t, s, n, flushed) ==
    /\ th[t] = Idle /\ budget.appends > 0
    /\ Admits(n)
    /\ appending[s] = NoThread /\ Active(s)
    /\ appending' = [appending EXCEPT ![s] = t]
    /\ Go(t, [pc |-> "write", s |-> s, n |-> n, fl |-> flushed, off |-> stream[s].accepted])
    /\ budget' = [budget EXCEPT !.appends = @ - 1]
    /\ UNCHANGED <<stream, disk, service, pending, wreq, wjob, coord, persist,
                   inflight, catalog, journal>>

NextLogId(floor) == Max({floor} \union DOMAIN catalog \union files) + 1

\* The stream's own pending log, else the newest active row, else a new log.
ActiveLogId(s) ==
    LET own  == {l \in DOMAIN pending[s].logs \ pending[s].sealed : pending[s].logs[l].st = "active"}
        rows == {l \in DOMAIN catalog : catalog[l].st = "active"}
    IN  IF own # {} THEN Max(own) ELSE IF rows # {} THEN Max(rows) ELSE NextLogId(0)

OpenLogFile(l) ==
    [log   |-> l,
     total |-> Max({Len(log[l])} \union {catalog[k].total : k \in DOMAIN catalog \intersect {l}}),
     dir   |-> l \notin files]

\* active_handle_for_state: no handle yet, a log is opened under the allocation
\* lock ...
OpenActiveLog(t) ==
    /\ th[t].pc = "write" /\ active = NoHandle
    /\ LET l == ActiveLogId(th[t].s) IN
       /\ l \in LogIds
       /\ files' = files \union {l}
       /\ Go(t, ("h" :> OpenLogFile(l)) @@ [th[t] EXCEPT !.pc = "insert"])
    /\ UNCHANGED <<stream, log, kept, linked, service, appending, pending, wreq, wjob,
                   coord, persist, inflight, catalog, journal, budget>>

\* ... and inserted unless another thread was first.
InsertActiveLog(t) ==
    /\ th[t].pc = "insert"
    /\ active' = IF active = NoHandle THEN th[t].h ELSE active
    /\ Go(t, [pc |-> "write", s |-> th[t].s, n |-> th[t].n, fl |-> th[t].fl, off |-> th[t].off])
    /\ UNCHANGED <<stream, disk, writer, synced, dirSynced, appending, pending, wreq,
                   wjob, coord, persist, inflight, catalog, journal, budget>>

\* With the active log's mutex: a log that would pass its target is rolled,
\* and the worker is asked to sync the one left behind.
StartPayload(t) ==
    /\ th[t].pc = "write" /\ active # NoHandle /\ writer = NoThread
    /\ writer' = t
    /\ LET roll == active.total # 0 /\ active.total + th[t].n > LogTarget
           next == NextLogId(active.log)
       IN  /\ roll => next \in LogIds
           /\ active' = IF roll THEN OpenLogFile(next) ELSE active
           /\ files' = IF roll THEN files \union {next} ELSE files
           /\ wreq' = IF roll
                      THEN AddRequests(wreq, active.log :>
                                [bytes |-> active.total, dir |-> active.dir])
                      ELSE wreq
           /\ Go(t, [w |-> 0, sealed |-> IF roll THEN {active.log} ELSE {}] @@
                    [th[t] EXCEPT !.pc = "chunk"])
    /\ UNCHANGED <<stream, log, kept, linked, synced, dirSynced, appending, pending,
                   wjob, coord, persist, inflight, catalog, journal, budget>>

WriteAt(bytes, pos, byte) ==
    IF pos = Len(bytes) THEN Append(bytes, byte) ELSE [bytes EXCEPT ![pos + 1] = byte]

\* One chunk; a payload of several asks for a sync of what is written so far.
WriteChunk(t) ==
    /\ th[t].pc = "chunk" /\ th[t].w < th[t].n
    /\ LET pos == active.total + th[t].w IN
       /\ log' = [log EXCEPT ![active.log] = WriteAt(@, pos, <<th[t].s, th[t].off + th[t].w>>)]
       /\ wreq' = IF th[t].n = 1 THEN wreq
                  ELSE AddRequests(wreq, active.log :> [bytes |-> pos + 1, dir |-> active.dir])
    /\ Go(t, [th[t] EXCEPT !.w = @ + 1])
    /\ UNCHANGED <<stream, kept, files, linked, service, appending, pending, wjob,
                   coord, persist, inflight, catalog, journal, budget>>

\* A write error: the call fails, the active log keeps its old length.
AbandonPayload(t) ==
    /\ writer' = NoThread
    /\ appending' = [appending EXCEPT ![th[t].s] = NoThread]
    /\ Go(t, Idle)
    /\ UNCHANGED <<stream, disk, active, synced, dirSynced, pending, wreq, wjob,
                   coord, persist, inflight, catalog, journal>>

\* Before a byte reached the file ...
FailPayload(t) ==
    /\ th[t].pc = "chunk" /\ th[t].w = 0 /\ budget.upsets > 0
    /\ budget' = [budget EXCEPT !.upsets = @ - 1]
    /\ AbandonPayload(t)

\* ... or half way, with the written part left behind the active log's length.
TearPayload(t) ==
    /\ th[t].pc = "chunk" /\ th[t].w \in 1..(th[t].n - 1) /\ budget.torn > 0
    /\ budget' = [budget EXCEPT !.torn = @ - 1]
    /\ AbandonPayload(t)

\* Mutant: the active log keeps the length it had before the payload.
OldTotal(h, n) == h

NewTotal(h, n) == [h EXCEPT !.total = @ + n]

AddRecord(st, r) ==
    LET last == st.records[Len(st.records)] IN
    IF st.records # <<>> /\ RecordEnd(last) > st.durable /\ CanCoalesce(last, r)
    THEN [st EXCEPT !.records[Len(st.records)] = Coalesce(last, r), !.accepted = RecordEnd(r)]
    ELSE [st EXCEPT !.records = Append(@, r), !.accepted = RecordEnd(r)]

\* The manifest joins the stream's pending ones, the active log is free again,
\* and the run is recorded; a stream ended meanwhile loses its manifests.
EndPayload(t) ==
    /\ th[t].pc = "chunk" /\ th[t].w = th[t].n
    /\ writer' = NoThread
    /\ active' = NewTotal(active, th[t].n)
    /\ appending' = [appending EXCEPT ![th[t].s] = NoThread]
    /\ LET s    == th[t].s
           refs == {active.log} \union th[t].sealed
           all  == MergePending(pending[s],
                      [logs |-> active.log :> [st |-> "active", total |-> active'.total,
                                               dir |-> active.dir],
                       sealed |-> th[t].sealed])
           rec  == [off |-> th[t].off, len |-> th[t].n, log |-> active.log, pos |-> active.total]
       IN  IF Active(s)
           THEN /\ stream' = [stream EXCEPT ![s] = AddRecord(@, rec)]
                /\ pending' = [pending EXCEPT ![s] = all]
                /\ Go(t, [pc |-> IF th[t].fl THEN "target" ELSE "auto", s |-> s, n |-> th[t].n])
           ELSE /\ pending' = [pending EXCEPT ![s] = RemoveLogRefs(all, refs)]
                /\ UNCHANGED stream
                /\ Go(t, Idle)
    /\ UNCHANGED <<disk, synced, dirSynced, wreq, wjob, coord, persist, inflight,
                   catalog, journal, budget>>

(***************************************************************************)
(* maybe_auto_persist_append_stream, after an acknowledged append.         *)
(***************************************************************************)

\* The stream's records between durable_through and the target, and their manifests.
PrivateRecords(s, target) == PublishRecords(stream[s].records, stream[s].durable, target)
PrivateManifests(s, target) == ManifestsForLogRefs(s, LogRefs(PrivateRecords(s, target)))

\* append_stream_auto_persist_target: worth a sync only from AutoBytes on.
AutoTarget(s) == ContiguousTail(stream[s].records, stream[s].durable)
Wanted(s) == Active(s) /\ AutoTarget(s) - stream[s].durable >= AutoBytes

SkipAutoPersist(t) ==
    /\ th[t].pc = "auto" /\ ~Wanted(th[t].s)
    /\ Go(t, Idle)
    /\ UNCHANGED <<stream, disk, service, appending, pending, wreq, wjob, coord, persist,
                   inflight, catalog, journal, budget>>

AutoPersistInline(t) ==
    /\ th[t].pc = "auto" /\ "inline" \in Modes /\ Wanted(th[t].s)
    /\ Go(t, [pc |-> "inline", s |-> th[t].s, n |-> th[t].n, target |-> AutoTarget(th[t].s)])
    /\ UNCHANGED <<stream, disk, service, appending, pending, wreq, wjob, coord, persist,
                   inflight, catalog, journal, budget>>

\* The worker is asked; the call waits with the records it saw.
AutoPersistWait(t) ==
    /\ th[t].pc = "auto" /\ "inline_wait" \in Modes /\ Wanted(th[t].s)
    /\ LET s == th[t].s IN
       /\ Go(t, [pc |-> "await", s |-> s, n |-> th[t].n, target |-> AutoTarget(s),
                 before |-> stream[s].durable, recs |-> PrivateRecords(s, AutoTarget(s))])
       /\ wreq' = AddRequests(wreq, PendingSyncRequests(PrivateManifests(s, AutoTarget(s))))
    /\ UNCHANGED <<stream, disk, service, appending, pending, wjob, coord, persist,
                   inflight, catalog, journal, budget>>

\* What is synced by now is marked; the worker is asked for the rest.
AutoPersistAsync(t) ==
    /\ th[t].pc = "auto" /\ "async" \in Modes /\ Wanted(th[t].s)
    /\ LET s == th[t].s
           seen == SyncedHighWater(stream[s].durable, PrivateRecords(s, AutoTarget(s)))
       IN  /\ Mark(s, seen)
           /\ wreq' = IF seen >= AutoTarget(s) THEN wreq
                      ELSE AddRequests(wreq,
                                PendingSyncRequests(PrivateManifests(s, AutoTarget(s))))
    /\ Go(t, Idle)
    /\ UNCHANGED <<disk, service, appending, pending, wjob, coord, persist, inflight,
                   catalog, journal, budget>>

AutoPersist(t) ==
    SkipAutoPersist(t) \/ AutoPersistInline(t) \/ AutoPersistWait(t) \/ AutoPersistAsync(t)

\* The wait ends at the target or at its timeout, with whatever is synced by then.
EndWait(t) ==
    /\ th[t].pc = "await"
    /\ LET seen == SyncedHighWater(th[t].before, th[t].recs) IN
       /\ Mark(th[t].s, seen)
       /\ Go(t, IF seen >= th[t].target \/ (seen > th[t].before /\ ~Active(th[t].s)) THEN Idle
                ELSE [pc |-> "inline", s |-> th[t].s, n |-> th[t].n, target |-> th[t].target])
    /\ UNCHANGED <<disk, service, appending, pending, wreq, wjob, coord, persist,
                   inflight, catalog, journal, budget>>

\* The foreground sync of what is private up to the target ...
StartInlineSync(t) ==
    /\ th[t].pc = "inline"
    /\ LET s == th[t].s IN
       Go(t, IF ~Active(s) THEN Idle
             ELSE [pc |-> "inline_sync", s |-> s, n |-> th[t].n, target |-> th[t].target,
                   job |-> Observe(PendingSyncRequests(PrivateManifests(s, th[t].target)))])
    /\ UNCHANGED <<stream, disk, service, appending, pending, wreq, wjob, coord,
                   persist, inflight, catalog, journal, budget>>

\* ... marks the target, or leaves the work to the worker when it fails.
EndInlineSync(t) ==
    /\ th[t].pc = "inline_sync"
    /\ SyncObserved(th[t].job)
    /\ Mark(th[t].s, th[t].target)
    /\ Go(t, Idle)
    /\ UNCHANGED <<appending, pending, wreq, wjob, coord, persist, inflight, catalog,
                   journal, budget>>

FailInlineSync(t) ==
    /\ th[t].pc = "inline_sync" /\ budget.upsets > 0
    /\ budget' = [budget EXCEPT !.upsets = @ - 1]
    /\ wreq' = IF Active(th[t].s)
               THEN AddRequests(wreq, PendingSyncRequests(PrivateManifests(th[t].s, th[t].target)))
               ELSE wreq
    /\ Go(t, Idle)
    /\ UNCHANGED <<stream, disk, service, appending, pending, wjob, coord, persist,
                   inflight, catalog, journal>>

(***************************************************************************)
(* append_log_payload_sync_worker_loop.  A failed sync drops its requests. *)
(***************************************************************************)

WorkerTakes ==
    /\ wjob = NoJob /\ wreq # <<>>
    /\ wjob' = Observe(wreq)
    /\ wreq' = <<>>
    /\ UNCHANGED <<stream, disk, service, appending, pending, coord, persist, inflight,
                   catalog, journal, th, budget>>

WorkerSyncs ==
    /\ wjob # NoJob
    /\ SyncObserved(wjob)
    /\ wjob' = NoJob
    /\ UNCHANGED <<stream, appending, pending, wreq, coord, persist, inflight, catalog,
                   journal, th, budget>>

WorkerFails ==
    /\ wjob # NoJob /\ budget.upsets > 0
    /\ budget' = [budget EXCEPT !.upsets = @ - 1]
    /\ wjob' = NoJob
    /\ UNCHANGED <<stream, disk, service, appending, pending, wreq, coord, persist,
                   inflight, catalog, journal, th>>

(***************************************************************************)
(* persist_append_stream_prefix_requests, for a flushed append.            *)
(***************************************************************************)

AddPrefixRequest(table, s, target) ==
    IF s \in DOMAIN table
    THEN [table EXCEPT ![s] = [through |-> Most(@.through, target), waiters |-> @.waiters + 1]]
    ELSE (s :> [through |-> target, waiters |-> 1]) @@ table

ReleaseRequest(table, s) ==
    IF s \in DOMAIN table /\ table[s].waiters > 1
    THEN [table EXCEPT ![s].waiters = @ - 1]
    ELSE [q \in DOMAIN table \ {s} |-> table[q]]

ReleaseAll(table, ss) == FoldSet(LAMBDA s, acc : ReleaseRequest(acc, s), table, ss)

RequestPrefix(t) ==
    /\ th[t].pc = "target"
    /\ LET s == th[t].s
           target == ContiguousTail(stream[s].records, stream[s].durable)
       IN  IF ~Active(s) THEN Go(t, Idle) /\ UNCHANGED coord
           ELSE /\ coord' = [coord EXCEPT !.req = AddPrefixRequest(@, s, target)]
                /\ Go(t, [pc |-> "check", s |-> s, n |-> th[t].n, target |-> target,
                          seen |-> coord.gen])
    /\ UNCHANGED <<stream, disk, service, appending, pending, wreq, wjob, persist,
                   inflight, catalog, journal, budget>>

\* Reached, or stale: the request is released and the call returns.
CheckPrefix(t) ==
    /\ th[t].pc = "check"
    /\ LET s == th[t].s IN
       IF ~Active(s) \/ stream[s].durable >= th[t].target
       THEN coord' = [coord EXCEPT !.req = ReleaseRequest(@, s)] /\ Go(t, Idle)
       ELSE Go(t, [th[t] EXCEPT !.pc = "lead"]) /\ UNCHANGED coord
    /\ UNCHANGED <<stream, disk, service, appending, pending, wreq, wjob, persist,
                   inflight, catalog, journal, budget>>

\* A newer error is returned; a free coordinator is taken; else the call waits.
LeadPrefix(t) ==
    /\ th[t].pc = "lead"
    /\ CASE coord.err > th[t].seen ->
                /\ coord' = [coord EXCEPT !.req = ReleaseRequest(@, th[t].s)]
                /\ Go(t, Idle)
         [] coord.err <= th[t].seen /\ ~coord.busy ->
                /\ coord.gen < MaxGen
                /\ coord' = [coord EXCEPT !.busy = TRUE]
                /\ Go(t, [pc |-> "batch", s |-> th[t].s, n |-> th[t].n, target |-> th[t].target,
                          snap |-> [s \in DOMAIN coord.req |-> coord.req[s].through],
                          groups |-> 0])
         [] coord.err <= th[t].seen /\ coord.busy ->
                /\ Go(t, [th[t] EXCEPT !.pc = "wait", !.seen = coord.gen])
                /\ UNCHANGED coord
    /\ UNCHANGED <<stream, disk, service, appending, pending, wreq, wjob, persist,
                   inflight, catalog, journal, budget>>

EndPrefixWait(t) ==
    /\ th[t].pc = "wait" /\ ~(coord.busy /\ coord.gen = th[t].seen)
    /\ Go(t, [th[t] EXCEPT !.pc = "check", !.seen = coord.gen])
    /\ UNCHANGED <<stream, disk, service, appending, pending, wreq, wjob, coord,
                   persist, inflight, catalog, journal, budget>>

\* The leader is done; on an error it releases what it took a snapshot of.
FinishLead(t, ok) ==
    /\ coord' = [busy |-> FALSE, gen |-> coord.gen + 1,
                 err |-> IF ok THEN 0 ELSE coord.gen + 1,
                 req |-> IF ok THEN coord.req ELSE ReleaseAll(coord.req, DOMAIN th[t].snap)]
    /\ Go(t, IF ok THEN [pc |-> "check", s |-> th[t].s, n |-> th[t].n,
                         target |-> th[t].target, seen |-> coord.gen + 1]
             ELSE Idle)

Reached(snap) == \A s \in DOMAIN snap : stream[s].durable >= snap[s]

\* append_stream_prefix_persist_plans_for: a batch for each stream still short
\* of its request, while the storage node's bytes stay below the cap.
PrefixPlans(snap) ==
    LET Add(acc, s) ==
            LET b == PrefixBatch(stream[s]) IN
            IF \/ stream[s].durable >= snap[s] \/ b.recs = <<>>
               \/ (DOMAIN acc.plans # {} /\ acc.bytes + b.bytes > GroupBytes)
            THEN acc
            ELSE [plans |-> (s :> [recs |-> b.recs, through |-> b.through]) @@ acc.plans,
                  bytes |-> acc.bytes + b.bytes]
    IN  FoldLeft(Add, [plans |-> <<>>, bytes |-> 0], SetToSortSeq(DOMAIN snap, <)).plans

PlanManifests(plans) ==
    FoldSet(LAMBDA s, acc : MergePending(acc, ManifestsForLogRefs(s, LogRefs(plans[s].recs))),
            NoPending, DOMAIN plans)

\* One round of the leader: done, failed, or a batch planned with persist_lock.
PlanPrefixBatch(t) ==
    /\ th[t].pc = "batch"
    /\ LET snap == th[t].snap
           plans == PrefixPlans(snap)
           p == PlanManifests(plans)
       IN  CASE \E s \in DOMAIN snap : ~Active(s) ->
                    FinishLead(t, FALSE) /\ UNCHANGED persist
             [] (\A s \in DOMAIN snap : Active(s)) /\ (Reached(snap) \/ th[t].groups = MaxGroups) ->
                    FinishLead(t, TRUE) /\ UNCHANGED persist
             [] (\A s \in DOMAIN snap : Active(s)) /\ ~Reached(snap) /\ th[t].groups < MaxGroups ->
                    /\ persist = NoThread
                    /\ IF DOMAIN plans = {} THEN FinishLead(t, FALSE) /\ UNCHANGED persist
                       ELSE /\ persist' = t
                            /\ Go(t, [plans |-> plans, p |-> p,
                                      job |-> Observe(PendingSyncRequests(p))] @@
                                     [th[t] EXCEPT !.pc = "batch_sync"])
                            /\ UNCHANGED coord
    /\ UNCHANGED <<stream, disk, service, appending, pending, wreq, wjob, inflight,
                   catalog, journal, budget>>

SyncPrefixBatch(t) ==
    /\ th[t].pc = "batch_sync"
    /\ SyncObserved(th[t].job)
    /\ Go(t, [th[t] EXCEPT !.pc = "batch_commit", !.job = NoJob])
    /\ UNCHANGED <<stream, appending, pending, wreq, wjob, coord, persist, inflight,
                   catalog, journal, budget>>

FailPrefixBatch(t) ==
    /\ th[t].pc = "batch_sync" /\ budget.upsets > 0
    /\ budget' = [budget EXCEPT !.upsets = @ - 1]
    /\ persist' = NoThread
    /\ FinishLead(t, FALSE)
    /\ UNCHANGED <<stream, disk, service, appending, pending, wreq, wjob, inflight,
                   catalog, journal>>

\* Catalog and root rows, then stream by stream: manifests out, durable mark up;
\* the first stream that has ended stops the loop with an error.
CommitPrefixBatch(t) ==
    /\ th[t].pc = "batch_commit"
    /\ LET plans  == th[t].plans
           stale  == {s \in DOMAIN plans : ~Active(s)}
           marked == {s \in DOMAIN plans : \A q \in stale : s < q}
           out    == {s \in DOMAIN plans : \A q \in stale : s <= q}
       IN  /\ catalog' = PersistManifests(th[t].p)
           /\ pending' = [s \in Streams |->
                IF s \in out THEN RemoveLogRefs(pending[s], LogRefs(plans[s].recs))
                ELSE pending[s]]
           /\ stream' = [s \in Streams |->
                IF s \in marked THEN MarkDurable(stream[s], plans[s].through) ELSE stream[s]]
           /\ IF stale = {}
              THEN /\ Go(t, [pc |-> "batch", s |-> th[t].s, n |-> th[t].n,
                             target |-> th[t].target, snap |-> th[t].snap,
                             groups |-> th[t].groups + 1])
                   /\ UNCHANGED coord
              ELSE FinishLead(t, FALSE)
    /\ persist' = NoThread
    /\ UNCHANGED <<disk, service, appending, wreq, wjob, inflight, journal, budget>>

(***************************************************************************)
(* A publish of a stream's prefix: the plan, the sync of what the durable  *)
(* mark does not cover, the catalog rows and the journal, the new size.    *)
(***************************************************************************)

PlanPublish(t, s, through) ==
    /\ th[t] = Idle /\ budget.publishes > 0
    /\ Active(s) /\ FileOf[s] \notin inflight
    /\ through > stream[s].published
    /\ through <= ContiguousTail(stream[s].records, stream[s].published)
    /\ inflight' = inflight \union {FileOf[s]}
    /\ budget' = [budget EXCEPT !.publishes = @ - 1]
    /\ Go(t, [pc |-> "publish", s |-> s, through |-> through,
              recs |-> PublishRecords(stream[s].records, stream[s].published, through),
              start |-> Least(stream[s].durable, through)])
    /\ UNCHANGED <<stream, disk, service, appending, pending, wreq, wjob, coord,
                   persist, catalog, journal>>

\* Mutant: an extent that only starts below the durable mark is skipped.
PublishLogRefsFrom(recs, start) ==
    {recs[i].log : i \in {i \in DOMAIN recs : recs[i].off >= start}}

\* The logs of the extents that reach past payload_persist_start.
PublishLogRefs(recs, start) ==
    {recs[i].log : i \in {i \in DOMAIN recs : RecordEnd(recs[i]) > start}}

GatherPublish(t) ==
    /\ th[t].pc = "publish"
    /\ LET refs == PublishLogRefs(th[t].recs, th[t].start)
           p == ManifestsForLogRefs(th[t].s, refs)
       IN  Go(t, [pc |-> "publish_sync", s |-> th[t].s, through |-> th[t].through,
                  recs |-> th[t].recs, refs |-> refs, p |-> p,
                  job |-> Observe(PendingSyncRequests(p))])
    /\ UNCHANGED <<stream, disk, service, appending, pending, wreq, wjob, coord,
                   persist, inflight, catalog, journal, budget>>

SyncPublish(t) ==
    /\ th[t].pc = "publish_sync"
    /\ SyncObserved(th[t].job)
    /\ Go(t, [th[t] EXCEPT !.pc = "publish_journal", !.job = NoJob])
    /\ UNCHANGED <<stream, appending, pending, wreq, wjob, coord, persist, inflight,
                   catalog, journal, budget>>

FailPublish(t) ==
    /\ th[t].pc = "publish_sync" /\ budget.upsets > 0
    /\ budget' = [budget EXCEPT !.upsets = @ - 1]
    /\ inflight' = inflight \ {FileOf[th[t].s]}
    /\ Go(t, Idle)
    /\ UNCHANGED <<stream, disk, service, appending, pending, wreq, wjob, coord,
                   persist, catalog, journal>>

\* persist_lock is only taken when there was payload to sync.
JournalPublish(t) ==
    /\ th[t].pc = "publish_journal"
    /\ th[t].p # NoPending => persist = NoThread
    /\ catalog' = PersistManifests(th[t].p)
    /\ journal' = journal \union
            {[s |-> th[t].s] @@ th[t].recs[i] : i \in DOMAIN th[t].recs}
    /\ pending' = [pending EXCEPT ![th[t].s] = RemoveLogRefs(@, th[t].refs)]
    /\ Go(t, [pc |-> "publish_apply", s |-> th[t].s, through |-> th[t].through])
    /\ UNCHANGED <<stream, disk, service, appending, wreq, wjob, coord, persist,
                   inflight, budget>>

ApplyPublish(t) ==
    /\ th[t].pc = "publish_apply"
    /\ stream' = [stream EXCEPT ![th[t].s] =
            [@ EXCEPT !.durable = Most(@, th[t].through), !.published = th[t].through,
                      !.records = RetainAfter(@, th[t].through)]]
    /\ inflight' = inflight \ {FileOf[th[t].s]}
    /\ Go(t, Idle)
    /\ UNCHANGED <<disk, service, appending, pending, wreq, wjob, coord, persist,
                   catalog, journal, budget>>

(***************************************************************************)
(* A restart: streams are not resumable, the marks and handles are gone.   *)
(* A power failure also takes what was not synced.                         *)
(***************************************************************************)

NoCoord == [busy |-> FALSE, gen |-> 0, err |-> 0, req |-> <<>>]

Volatile(coordinator) ==
    /\ active' = NoHandle /\ writer' = NoThread
    /\ appending' = [s \in Streams |-> NoThread]
    /\ pending' = [s \in Streams |-> NoPending]
    /\ synced' = [l \in LogIds |-> 0] /\ dirSynced' = {}
    /\ wreq' = <<>> /\ wjob' = NoJob
    /\ coord' = coordinator /\ persist' = NoThread /\ inflight' = {}
    /\ th' = [t \in Threads |-> Idle]

Restart(power) ==
    /\ budget.upsets > 0
    /\ budget' = [budget EXCEPT !.upsets = @ - 1]
    /\ stream' = [s \in Streams |->
            IF stream[s].status = "none" THEN stream[s] ELSE Ended]
    /\ files' = IF power THEN linked ELSE files
    /\ log' = IF power THEN [l \in LogIds |-> IF l \in linked THEN kept[l] ELSE <<>>] ELSE log
    /\ kept' = IF power THEN log' ELSE kept
    /\ Volatile(NoCoord)
    /\ UNCHANGED <<linked, catalog, journal>>

Init ==
    /\ stream = [s \in Streams |-> [status |-> IF s \in Opened THEN "active" ELSE "none",
                                    accepted |-> 0, durable |-> 0, published |-> 0, records |-> <<>>]]
    /\ log = [l \in LogIds |-> <<>>] /\ kept = [l \in LogIds |-> <<>>]
    /\ files = {} /\ linked = {}
    /\ active = NoHandle /\ writer = NoThread
    /\ appending = [s \in Streams |-> NoThread]
    /\ pending = [s \in Streams |-> NoPending]
    /\ synced = [l \in LogIds |-> 0] /\ dirSynced = {}
    /\ wreq = <<>> /\ wjob = NoJob
    /\ coord = NoCoord /\ persist = NoThread /\ inflight = {}
    /\ catalog = <<>> /\ journal = {}
    /\ th = [t \in Threads |-> Idle]
    /\ budget = [appends |-> MaxAppends, publishes |-> MaxPublishes,
                 upsets |-> MaxUpsets, torn |-> MaxTorn]

\* What a call in progress does next.
Continue(t) ==
    \/ OpenActiveLog(t) \/ InsertActiveLog(t)
    \/ StartPayload(t) \/ WriteChunk(t) \/ EndPayload(t)
    \/ AutoPersist(t) \/ EndWait(t) \/ StartInlineSync(t) \/ EndInlineSync(t)
    \/ RequestPrefix(t) \/ CheckPrefix(t) \/ LeadPrefix(t) \/ EndPrefixWait(t)
    \/ PlanPrefixBatch(t) \/ SyncPrefixBatch(t) \/ CommitPrefixBatch(t)
    \/ GatherPublish(t) \/ SyncPublish(t) \/ JournalPublish(t) \/ ApplyPublish(t)

Worker == WorkerTakes \/ WorkerSyncs

Faults ==
    \/ WorkerFails
    \/ \E t \in Threads :
        FailPayload(t) \/ FailInlineSync(t) \/ FailPrefixBatch(t) \/ FailPublish(t)
    \/ \E power \in BOOLEAN : Restart(power)

Calls ==
    \/ \E s \in Streams : OpenAppendStream(s) \/ EndAppendStream(s)
    \/ \E t \in Threads, s \in Streams :
        \/ \E a \in Inputs[s] : BeginAppend(t, s, a[1], a[2])
        \/ \E through \in Throughs : PlanPublish(t, s, through)

Next == Calls \/ (\E t \in Threads : Continue(t)) \/ Worker \/ Faults

NextTorn == Next \/ \E t \in Threads : TearPayload(t)

Spec == Init /\ [][Next]_vars

SpecTorn == Init /\ [][NextTorn]_vars

-----------------------------------------------------------------------------

\* Read through read_append_run_source_payload: the bytes of an extent in a file.
ReadRun(content, e) ==
    IF Len(content[e.log]) < e.pos + e.len THEN <<>>
    ELSE SubSeq(content[e.log], e.pos + 1, e.pos + e.len)

Own(s, e) == [i \in 1..e.len |-> <<s, e.off + i - 1>>]

Records(s) == {stream[s].records[i] : i \in DOMAIN stream[s].records}

\* The streams, their marks in order, and the pcs the calls can be at.
ITypeOK ==
    /\ \A s \in Streams :
        LET st == stream[s] IN
        /\ st.status \in {"none", "active", "ended"}
        /\ st.published <= st.durable /\ st.durable <= st.accepted
        /\ ContiguousTail(st.records, st.published) = st.accepted
        /\ \A r \in Records(s) : r.log \in files /\ r.pos + r.len <= Len(log[r.log])
    /\ linked \subseteq files /\ files \subseteq LogIds
    /\ \A l \in DOMAIN catalog : catalog[l].total <= Len(kept[l])
    /\ coord.busy <=> \E t \in Threads :
            th[t].pc \in {"batch", "batch_sync", "batch_commit"}
    /\ persist # NoThread => th[persist].pc \in {"batch_sync", "batch_commit"}

\* The state is well typed, and an accepted byte is never overwritten by another append, whoever opened,
\* rolled or shared the active log: each record of a live stream and each
\* published extent still reads back as its own bytes.
AcceptedIntact ==
    /\ ITypeOK
    /\ \A s \in Streams : Active(s) => \A r \in Records(s) : ReadRun(log, r) = Own(s, r)
    /\ \A e \in journal : ReadRun(log, e) = Own(e.s, e)

\* A publish is journalled only when a power failure can no longer take its
\* bytes: data before metadata, although the publish skips the sync of what the
\* stream's durable mark covers and trusts marks raised by other threads.
PublishedKept ==
    \A e \in journal : e.log \in linked /\ ReadRun(kept, e) = Own(e.s, e)

\* durable_through of a stream never passes a byte that a power failure takes,
\* whichever of the worker, an append's own sync or a leader raised it.
DurableMarkKept ==
    \A s \in Streams : Active(s) =>
        \A r \in Records(s) :
            LET below == Least(RecordEnd(r), stream[s].durable) IN
            below > r.off =>
                LET e == Slice(r, r.off, below)
                IN  e.log \in linked /\ ReadRun(kept, e) = Own(s, e)

\* A flushed append that waits for a leader, on a live stream and with no newer
\* error to return, still has its request in the coordinator's table: without it
\* every leader, itself included, finds nothing to do and the call never returns.
WaitersKept ==
    \A t \in Threads :
        /\ th[t].pc \in {"check", "lead", "wait"}
        /\ Active(th[t].s) /\ th[t].seen >= coord.err
        => th[t].s \in DOMAIN coord.req
=============================================================================
