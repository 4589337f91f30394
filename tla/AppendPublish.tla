---------------------------- MODULE AppendPublish ----------------------------
(***************************************************************************)
(* Publishing the appended prefix of native files.  An append stream hands *)
(* out tickets; whoever waits on a ticket may find itself driving a batch  *)
(* for everybody's.  A batch holds the shared side of metadata_persist_gate*)
(* while it plans one publish per file, takes its turn at the persist      *)
(* coordinator, writes the plans to the append-visible journal and only    *)
(* then applies them to the heads.  Before it plans, all earlier commits   *)
(* must be durable; it drains compact deltas or persists everything first. *)
(*                                                                         *)
(* Sources: wait_append_publish and what it calls in                       *)
(* local/durable/coordinator.rs, the plan functions of                     *)
(* local/coordinator.rs and the streams and tickets of                     *)
(* local/metadata_plane.rs.  A stream is the number of units accepted and  *)
(* published; a file's version is the number of its commits.  `newer`      *)
(* stands for a generation of the lane that the wait has not observed.     *)
(***************************************************************************)
EXTENDS PersistCoordinator, Sequences, Functions

CONSTANTS
    Neighbours,     \* files whose entries share one catalog shard; others share none
    CallKinds,      \* which calls other than append calls are made
    MaxSize,        \* bound: units appended to a file
    MaxTicket,      \* bound: tickets
    MaxEpoch,       \* bound: streams opened per file
    FrameMayStay    \* whether a journal append that fails may have reached the disk

ASSUME AppendAssumption ==
    /\ Neighbours \subseteq Files
    /\ CallKinds \subseteq {"write", "overwrite", "flush", "abort"}
    /\ {MaxSize, MaxTicket, MaxEpoch} \subseteq Nat
    /\ FrameMayStay \in BOOLEAN

VARIABLES
    streams,        \* file -> its newest append stream
    size,           \* file -> visible size of its head
    tickets,        \* the tickets in the order of their ids
    markers,        \* append_publish_in_flight: the plans that are marked
    lane,           \* the append publish coordinator all waits share
    waits           \* thread -> its wait_append_publish

appends == <<streams, size, tickets, markers>>
avars == <<pvars, appends, lane, waits>>

Wait ==
    [pc: {"out", "top", "status", "register", "lead", "follow", "coalesce", "gate", "plan",
          "order", "queue", "journal", "apply", "published", "abandon", "full", "drain",
          "undo", "succeeded", "failed"},
     ticket: 0 .. MaxTicket, registered: BOOLEAN, newer: BOOLEAN,
     batch: SUBSET (1 .. MaxTicket), todo: SUBSET (1 .. MaxTicket)]

NoWait == [pc |-> "out", ticket |-> 0, registered |-> FALSE, newer |-> FALSE,
           batch |-> {}, todo |-> {}, plans |-> <<>>]

WaitAt(t, pc) == waits[t].pc = pc
WaitGoto(t, pc) == waits' = [waits EXCEPT ![t].pc = pc]

Version(f) == Cardinality({c \in commits : c.owner = f})
Marked(f) == \E p \in markers : p.file = f
Neighbourhood(f) == IF f \in Neighbours THEN Neighbours ELSE {f}
\* The catalog shard of f, named by the commit that replaced it last.
CatalogShard(f) == Highest({Latest(g) : g \in Neighbourhood(f)})

-----------------------------------------------------------------------------
(* Streams and tickets.                                                     *)

\* open_append_stream: the file's earlier stream is fenced.
OpenStream(f) ==
    /\ ~ Marked(f)
    /\ streams[f].epoch < MaxEpoch
    /\ streams' = [streams EXCEPT ![f] = [epoch |-> @.epoch + 1, active |-> TRUE,
                                          accepted |-> size[f], published |-> size[f]]]
    /\ UNCHANGED <<pvars, size, tickets, markers, lane, waits>>

\* append_stream
AppendToStream(f) ==
    /\ streams[f].active
    /\ streams[f].accepted < MaxSize
    /\ streams' = [streams EXCEPT ![f].accepted = @ + 1]
    /\ UNCHANGED <<pvars, size, tickets, markers, lane, waits>>

\* submit_append_publish
Submit(f, through) ==
    /\ streams[f].active
    /\ ~ Marked(f)
    /\ through \in streams[f].published + 1 .. streams[f].accepted
    /\ Len(tickets) < MaxTicket
    /\ tickets' = Append(tickets, [file |-> f, epoch |-> streams[f].epoch, through |-> through,
                                   completed |-> FALSE])
    /\ UNCHANGED <<pvars, streams, size, markers, lane, waits>>

\* append_publish_ticket_status.  A ticket whose file is marked is refused like a
\* stale one.
Stale(k) ==
    LET tk == tickets[k]
        stream == streams[tk.file]
    IN  \/ ~ stream.active \/ stream.epoch # tk.epoch
        \/ tk.through \notin stream.published + 1 .. stream.accepted
TicketStatus(k) ==
    IF tickets[k].completed THEN "completed"
    ELSE IF Stale(k) \/ Marked(tickets[k].file) THEN "refused" ELSE "pending"

-----------------------------------------------------------------------------
(* Other calls.                                                             *)

\* Mutant: an overwrite does not look for a publish in flight.
OverwriteMarked(t, f) ==
    /\ At(t, "idle")
    /\ CommitLocally(f)
    /\ calls' = [calls EXCEPT ![t] = NewCall("fence", "native", next_commit_seq)]
    /\ UNCHANGED <<deltas, persist, gate, disk, promised, faults, appends>>

\* commit_file_batch with Flushed: the commit is refused while a publish of the
\* file is in flight ...
Overwrite(t, f) ==
    /\ At(t, "idle")
    /\ ~ Marked(f)
    /\ CommitLocally(f)
    /\ calls' = [calls EXCEPT ![t] = NewCall("fence", "native", next_commit_seq)]
    /\ UNCHANGED <<deltas, persist, gate, disk, promised, faults, appends>>

\* ... and fences the file's stream afterwards (invalidate_append_streams_for_file),
\* where it fails if a publish has begun meanwhile: the call then returns an error
\* although its commit is visible.
FenceStream(t) ==
    \E f \in Files :
        /\ At(t, "fence")
        /\ [seq |-> calls[t].required, owner |-> f] \in commits
        /\ IF Marked(f)
           THEN calls' = [calls EXCEPT ![t] = Idle] /\ UNCHANGED streams
           ELSE Goto(t, "record") /\ streams' = [streams EXCEPT ![f].active = FALSE]
        /\ UNCHANGED <<memory, deltas, persist, gate, disk, promised, faults, size, tickets, markers>>

\* abort_append_stream and release_append_stream
AbortStream(t, f) ==
    /\ At(t, "idle")
    /\ streams[f].active
    /\ ~ Marked(f)
    /\ streams' = [streams EXCEPT ![f].active = FALSE]
    /\ calls' = [calls EXCEPT ![t] = NewCall("enter", "now", 0)]
    /\ UNCHANGED <<memory, deltas, persist, gate, disk, promised, faults, size, tickets, markers>>

StartOtherCall(t) ==
    \/ "write" \in CallKinds /\ \E d \in Devices : WriteFlushed(t, d) /\ UNCHANGED appends
    \/ "overwrite" \in CallKinds /\ \E f \in Files : Overwrite(t, f)
    \/ "flush" \in CallKinds /\ \E o \in Owners : Flush(t, o, "full") /\ UNCHANGED appends
    \/ "abort" \in CallKinds /\ \E f \in Files : AbortStream(t, f)

\* persist_pending_compact_deltas_until, with the run that
\* pending_compact_delta_run finds after what is durable; without one the caller
\* persists everything instead.
EnterCompact(t) ==
    LET requested == Larger(persist.requested_through, calls[t].required)
        next == persist.durable_through + 1
        kind == IF next \in pending_block_deltas THEN pending_block_deltas
                ELSE pending_native_file_deltas
        run == {s \in next .. calls[t].required : next .. s \subseteq kind}
    IN  /\ At(t, "enter") /\ calls[t].kind = "compact"
        /\ persist' = [persist EXCEPT !.requested_through = requested,
                          !.in_flight = @ \/ (persist.durable_through < calls[t].required /\ run # {})]
        /\ calls' = Advance(t,
              IF persist.durable_through >= calls[t].required THEN Continued(t)
              ELSE IF persist.in_flight THEN [calls[t] EXCEPT !.pc = "await", !.moved = FALSE]
              ELSE IF run = {} THEN [NewCall("enter", "now", 0) EXCEPT !.then = "batch"]
              ELSE [calls[t] EXCEPT !.pc = "gate", !.selected = run])
        /\ UNCHANGED <<memory, deltas, gate, disk, promised, faults, appends>>

-----------------------------------------------------------------------------
(* wait_append_publish.                                                     *)

StartWait(t, k) ==
    /\ WaitAt(t, "out") /\ At(t, "idle")
    /\ k \in DOMAIN tickets
    /\ waits' = [waits EXCEPT ![t] = [NoWait EXCEPT !.pc = "top", !.ticket = k]]
    /\ UNCHANGED <<pvars, appends, lane>>

\* The loop head waits for the batch in flight, and a wait that has registered
\* reports the error of a batch it has not observed.
WaitTop(t) ==
    /\ WaitAt(t, "top")
    /\ ~ lane.in_flight
    /\ waits' = [waits EXCEPT ![t] =
          IF @.registered /\ @.newer /\ lane.failed THEN NoWait
          ELSE [@ EXCEPT !.pc = "status", !.newer = FALSE]]
    /\ UNCHANGED <<pvars, appends, lane>>

WaitStatus(t) ==
    /\ WaitAt(t, "status")
    /\ waits' = [waits EXCEPT ![t] =
          IF TicketStatus(@.ticket) # "pending" THEN NoWait
          ELSE [@ EXCEPT !.pc = IF waits[t].registered THEN "lead" ELSE "register"]]
    /\ UNCHANGED <<pvars, appends, lane>>

WaitRegister(t) ==
    /\ WaitAt(t, "register")
    /\ waits' = [waits EXCEPT ![t].pc = "lead", ![t].registered = TRUE, ![t].newer = FALSE]
    /\ UNCHANGED <<pvars, appends, lane>>

\* With no batch in flight the wait drives one.
WaitLead(t) ==
    /\ WaitAt(t, "lead")
    /\ IF waits[t].newer /\ lane.failed
       THEN waits' = [waits EXCEPT ![t] = NoWait] /\ UNCHANGED lane
       ELSE /\ waits' = [waits EXCEPT ![t].pc = IF lane.in_flight THEN "follow" ELSE "coalesce",
                                      ![t].newer = FALSE]
            /\ lane' = [lane EXCEPT !.in_flight = TRUE]
    /\ UNCHANGED <<pvars, appends>>

WaitFollow(t) ==
    /\ WaitAt(t, "follow")
    /\ ~ lane.in_flight \/ waits[t].newer
    /\ waits' = [waits EXCEPT ![t].pc = "top", ![t].newer = FALSE]
    /\ UNCHANGED <<pvars, appends, lane>>

\* The end of the batch, and the waits that will see a newer generation.
EndBatch(t) ==
    LET failed == WaitAt(t, "failed")
        mine == IF failed THEN NoWait
                ELSE [waits[t] EXCEPT !.pc = "top", !.newer = FALSE, !.batch = {}]
    IN  /\ waits[t].pc \in {"succeeded", "failed"}
        /\ lane' = [in_flight |-> FALSE, failed |-> failed]
        /\ waits' = [u \in Threads |-> IF u = t THEN mine
                                       ELSE IF WaitAt(u, "out") THEN NoWait
                                       ELSE [waits[u] EXCEPT !.newer = TRUE]]
        /\ UNCHANGED <<pvars, appends>>

\* coalesce_append_publish_waiters, append_publish_ticket_batch
Coalesce(t) ==
    /\ WaitAt(t, "coalesce")
    /\ waits' = [waits EXCEPT ![t].pc = "gate",
                              ![t].batch = {k \in DOMAIN tickets : ~ tickets[k].completed}]
    /\ UNCHANGED <<pvars, appends, lane>>

-----------------------------------------------------------------------------
(* persist_append_publish_ticket_batch.                                     *)

\* append_publish_requires_full_persist_before_plan
RequiresFullPersist ==
    \/ pending_block_deltas \cup pending_native_file_deltas # {}
    \/ EffectiveNext # next_commit_seq

ReleaseReadGate(t) == gate' = [gate EXCEPT !.readers = @ \ {t}]

\* The batch takes the shared side of the gate and looks whether everything
\* earlier is durable; nothing on disk changes while it holds the gate.
BatchGate(t) ==
    /\ WaitAt(t, "gate")
    /\ ~ gate.writer
    /\ IF RequiresFullPersist
       THEN WaitGoto(t, "full") /\ UNCHANGED gate
       ELSE /\ waits' = [waits EXCEPT ![t].pc = "plan", ![t].todo = waits[t].batch, ![t].plans = <<>>]
            /\ gate' = [gate EXCEPT !.readers = @ \cup {t}]
    /\ UNCHANGED <<memory, deltas, persist, disk, promised, calls, faults, appends, lane>>

\* Mutant: commits that are not durable do not matter to a plan.
GapIgnored(cursor) == TRUE

\* append_publish_commit_gap_is_in_flight
GapInFlight(cursor) == cursor .. next_commit_seq - 1 \subseteq {p.seq : p \in markers}

\* prepare_append_publish_plan_with_drafts, which sees the catalog shards that the
\* batch's earlier plans will leave.  What it reads before it takes the metadata
\* lock is compared under the lock; a commit in between shows in the gap first.
PlanOf(k, plans) ==
    LET f == tickets[k].file
        drafts == {i \in DOMAIN plans : plans[i].file \in Neighbourhood(f)}
    IN  [ticket |-> k, file |-> f, seq |-> next_commit_seq, base |-> Version(f),
         old |-> size[f], new |-> tickets[k].through,
         shard |-> IF drafts = {} THEN CatalogShard(f) ELSE plans[Highest(drafts)].seq]

\* One ticket of the batch, in the order of their ids.  A refused ticket fails the
\* batch and a gap sends it back to a full persist; either leaves the plans made so
\* far marked.
PlanTicket(t) ==
    LET w == waits[t]
        k == CHOOSE i \in w.todo : \A j \in w.todo : i <= j
        f == tickets[k].file
        skip == tickets[k].completed \/ \E i \in DOMAIN w.plans : w.plans[i].file = f
        cursor == IF w.plans = <<>> THEN EffectiveNext ELSE w.plans[Len(w.plans)].seq + 1
        plan == PlanOf(k, w.plans)
        Quit(pc) == /\ waits' = [waits EXCEPT ![t].pc = pc, ![t].todo = {}, ![t].plans = <<>>]
                    /\ ReleaseReadGate(t)
                    /\ UNCHANGED <<next_commit_seq, markers>>
    IN  /\ WaitAt(t, "plan") /\ w.todo # {}
        /\ CASE skip ->
                  /\ waits' = [waits EXCEPT ![t].todo = @ \ {k}]
                  /\ UNCHANGED <<next_commit_seq, markers, gate>>
             [] ~ skip /\ TicketStatus(k) = "refused" -> Quit("abandon")
             [] ~ skip /\ TicketStatus(k) = "pending" /\ ~ GapInFlight(cursor) -> Quit("full")
             [] OTHER ->
                  /\ next_commit_seq <= MaxCommit
                  /\ next_commit_seq' = next_commit_seq + 1
                  /\ markers' = markers \cup {plan}
                  /\ waits' = [waits EXCEPT ![t].todo = @ \ {k}, ![t].plans = Append(@, plan)]
                  /\ UNCHANGED gate
        /\ UNCHANGED <<commits, replay_from, deltas, persist, disk, promised, calls, faults,
                       streams, size, tickets, lane>>

\* A batch in which every ticket was completed already publishes nothing.
NothingToPublish(t) ==
    /\ WaitAt(t, "plan") /\ waits[t].todo = {} /\ waits[t].plans = <<>>
    /\ persist' = [persist EXCEPT !.durable_through = Larger(@, EffectiveNext - 1),
                                  !.requested_through = Larger(@, EffectiveNext - 1),
                                  !.failed = FALSE]
    /\ WaitGoto(t, "succeeded")
    /\ ReleaseReadGate(t)
    /\ UNCHANGED <<memory, deltas, disk, promised, calls, faults, appends, lane>>

\* begin_ordered_append_publish_persist: with the gate still held, wait until no
\* persist is in flight.  An error of the persist waited for is returned, again
\* with the plans left marked.
BeginOrdered(t) ==
    LET target == waits[t].plans[Len(waits[t].plans)].seq
    IN  /\ WaitAt(t, "plan") \/ WaitAt(t, "order")
        /\ waits[t].todo = {} /\ waits[t].plans # <<>>
        /\ persist' = [persist EXCEPT !.requested_through = Larger(@, target), !.in_flight = TRUE]
        /\ WaitGoto(t, IF persist.in_flight THEN "queue" ELSE "journal")
        /\ calls' = Advance(t, IF persist.in_flight THEN [Idle EXCEPT !.pc = "queue"] ELSE Idle)
        /\ UNCHANGED <<memory, deltas, gate, disk, promised, faults, appends, lane>>

AwaitOrdered(t) ==
    LET failed == calls[t].moved /\ persist.failed
    IN  /\ WaitAt(t, "queue")
        /\ ~ persist.in_flight \/ calls[t].moved
        /\ calls' = Advance(t, Idle)
        /\ IF failed
           THEN waits' = [waits EXCEPT ![t].pc = "abandon", ![t].plans = <<>>] /\ ReleaseReadGate(t)
           ELSE WaitGoto(t, "order") /\ UNCHANGED gate
        /\ UNCHANGED <<memory, deltas, persist, disk, promised, faults, appends, lane>>

\* Mutant: the plans are applied without having been written.
SkipJournal(t) ==
    /\ WaitAt(t, "journal")
    /\ waits' = [waits EXCEPT ![t].pc = "apply", ![t].todo = {p.ticket : p \in Range(waits[t].plans)}]
    /\ UNCHANGED <<pvars, appends, lane>>

\* persist_prepared_append_publish_plans: the plans go to the append-visible journal
\* in one frame.
WriteJournal(t) ==
    LET plans == waits[t].plans
    IN  /\ WaitAt(t, "journal")
        /\ disk' = [disk EXCEPT !.journal = @ \cup Range(plans)]
        /\ waits' = [waits EXCEPT ![t].pc = "apply", ![t].todo = {p.ticket : p \in Range(plans)}]
        /\ UNCHANGED <<memory, deltas, persist, gate, promised, calls, faults, appends, lane>>

\* It fails before the frame is written: the plans are cancelled
\* (cancel_append_publish_plan).
JournalFails(t) ==
    /\ WaitAt(t, "journal")
    /\ Bounded /\ faults.failures < MaxFailure
    /\ faults' = [faults EXCEPT !.failures = @ + 1]
    /\ markers' = markers \ Range(waits[t].plans)
    /\ WaitGoto(t, "undo")
    /\ UNCHANGED <<memory, deltas, persist, gate, disk, promised, calls, streams, size, tickets,
                   lane>>

\* It fails after the frame was written, in the sync: the plans are cancelled just
\* the same.
JournalUnsynced(t) ==
    /\ WaitAt(t, "journal")
    /\ FrameMayStay
    /\ Bounded /\ faults.failures < MaxFailure
    /\ faults' = [faults EXCEPT !.failures = @ + 1]
    /\ disk' = [disk EXCEPT !.journal = @ \cup Range(waits[t].plans)]
    /\ markers' = markers \ Range(waits[t].plans)
    /\ WaitGoto(t, "undo")
    /\ UNCHANGED <<memory, deltas, persist, gate, promised, calls, streams, size, tickets, lane>>

\* apply_append_publish_plan, plan by plan.  The stream moves on before the catalog
\* shard is looked at; if another commit has replaced the shard the plan, and those
\* after it, stay marked.
ApplyPlan(t) ==
    LET w == waits[t]
        plan == CHOOSE p \in Range(w.plans) :
                   p.ticket \in w.todo /\ \A k \in w.todo : p.ticket <= k
        f == plan.file
    IN  /\ WaitAt(t, "apply") /\ w.todo # {}
        /\ streams' = [streams EXCEPT ![f].published = plan.new]
        /\ IF CatalogShard(f) = plan.shard
           THEN /\ commits' = commits \cup {[seq |-> plan.seq, owner |-> f]}
                /\ size' = [size EXCEPT ![f] = plan.new]
                /\ tickets' = [tickets EXCEPT ![plan.ticket].completed = TRUE]
                /\ markers' = markers \ {plan}
                /\ waits' = [waits EXCEPT ![t].todo = @ \ {plan.ticket}]
           ELSE /\ WaitGoto(t, "undo")
                /\ UNCHANGED <<commits, size, tickets, markers>>
        /\ UNCHANGED <<next_commit_seq, replay_from, deltas, persist, gate, disk, promised, calls,
                       faults, lane>>

\* finish_ordered_append_publish_persist; the gate is released.
FinishOrdered(t) ==
    LET plans == waits[t].plans
        succeeded == WaitAt(t, "apply") /\ waits[t].todo = {}
    IN  /\ succeeded \/ WaitAt(t, "undo")
        /\ persist' = IF succeeded THEN Persisted(plans[Len(plans)].seq) ELSE PersistError
        /\ calls' = AdvanceAndNotify(t, Idle)
        /\ waits' = [waits EXCEPT ![t].pc = IF succeeded THEN "published" ELSE "abandon",
                                  ![t].todo = {}, ![t].plans = <<>>]
        /\ ReleaseReadGate(t)
        /\ UNCHANGED <<memory, deltas, disk, promised, faults, appends, lane>>

\* What the batch does to the persist coordinator when it has published, when it
\* must persist first, and when it has failed.
Published(t) ==
    /\ WaitAt(t, "published")
    /\ persist' = [persist EXCEPT !.failed = FALSE]
    /\ WaitGoto(t, "succeeded")
    /\ UNCHANGED <<memory, deltas, gate, disk, promised, calls, faults, appends, lane>>

\* persist_pending_compact_deltas_for_append_publish if there is a compact delta, and
\* persist_now otherwise.
NeedsFullPersist(t) ==
    LET pending == pending_block_deltas \cup pending_native_file_deltas
        call == IF pending = {} THEN NewCall("enter", "now", 0)
                ELSE NewCall("enter", "compact", Highest(pending))
    IN  /\ WaitAt(t, "full")
        /\ persist' = [persist EXCEPT !.failed = FALSE]
        /\ calls' = Advance(t, [call EXCEPT !.then = "batch"])
        /\ WaitGoto(t, "drain")
        /\ UNCHANGED <<memory, deltas, gate, disk, promised, faults, appends, lane>>

\* Then the batch begins again, unless that persist failed.
Drained(t) ==
    /\ WaitAt(t, "drain")
    /\ At(t, "batch") \/ At(t, "idle")
    /\ WaitGoto(t, IF At(t, "batch") THEN "gate" ELSE "failed")
    /\ calls' = Advance(t, Idle)
    /\ UNCHANGED <<memory, deltas, persist, gate, disk, promised, faults, appends, lane>>

AbandonBatch(t) ==
    /\ WaitAt(t, "abandon")
    /\ persist' = [persist EXCEPT !.failed = TRUE]
    /\ calls' = AdvanceAndNotify(t, Idle)
    /\ WaitGoto(t, "failed")
    /\ UNCHANGED <<memory, deltas, gate, disk, promised, faults, appends, lane>>

-----------------------------------------------------------------------------
\* Streams, tickets, waits and the lane live in memory only; a reopen replays the
\* journal after the image.
CrashAppends ==
    /\ Crash
    /\ size' = [f \in Files |-> Highest({r.new : r \in {q \in disk.journal : q.file = f}})]
    /\ streams' = [f \in Files |-> [epoch |-> streams[f].epoch, active |-> FALSE,
                                    accepted |-> size'[f], published |-> size'[f]]]
    /\ tickets' = <<>>
    /\ markers' = {}
    /\ lane' = [in_flight |-> FALSE, failed |-> FALSE]
    /\ waits' = [t \in Threads |-> NoWait]

AInit ==
    /\ PInit
    /\ streams = [f \in Files |-> [epoch |-> 1, active |-> TRUE, accepted |-> 0, published |-> 0]]
    /\ size = [f \in Files |-> 0]
    /\ tickets = <<>>
    /\ markers = {}
    /\ lane = [in_flight |-> FALSE, failed |-> FALSE]
    /\ waits = [t \in Threads |-> NoWait]

Client ==
    \/ \E f \in Files :
          OpenStream(f) \/ AppendToStream(f) \/ \E through \in 1 .. MaxSize : Submit(f, through)
    \/ \E t \in Threads : \E k \in 1 .. MaxTicket : StartWait(t, k)
    \/ \E t \in Threads : WaitAt(t, "out") /\ StartOtherCall(t) /\ UNCHANGED <<lane, waits>>

\* The steps of a thread inside a call or a wait.
PersistStep(t) ==
    \/ FenceStream(t) \/ EnterCompact(t)
    \/ /\ \/ RecordDelta(t) \/ EnterUntil(t) \/ EnterNow(t) \/ Await(t) \/ TakeGate(t)
          \/ SelectDeltas(t) \/ WriteDeltas(t) \/ WriteImage(t) \/ WriteNativeMetadata(t)
          \/ WriteFails(t) \/ Finish(t) \/ FinishFailed(t)
       /\ UNCHANGED appends

WaitStep(t) ==
    \/ WaitTop(t) \/ WaitStatus(t) \/ WaitRegister(t) \/ WaitLead(t) \/ WaitFollow(t) \/ EndBatch(t)
    \/ Coalesce(t) \/ BatchGate(t) \/ PlanTicket(t) \/ NothingToPublish(t) \/ BeginOrdered(t)
    \/ AwaitOrdered(t) \/ WriteJournal(t) \/ JournalFails(t) \/ JournalUnsynced(t) \/ ApplyPlan(t)
    \/ FinishOrdered(t) \/ Published(t) \/ NeedsFullPersist(t) \/ Drained(t) \/ AbandonBatch(t)

ThreadStep(t) == (PersistStep(t) /\ UNCHANGED <<lane, waits>>) \/ WaitStep(t)

ANext == Client \/ (\E t \in Threads : ThreadStep(t)) \/ CrashAppends

ASpec == AInit /\ [][ANext]_avars

\* Threads that are inside a call or a wait keep running.
AFairSpec == ASpec /\ \A t \in Threads : WF_avars(ThreadStep(t))

-----------------------------------------------------------------------------
(* Properties.                                                              *)

\* Types, and the order of the sizes of an open stream: what readers see, what was
\* published and what was accepted (open_append_stream, append_stream, apply_append_publish_plan).
ATypeOK ==
    /\ PTypeOK
    /\ streams \in [Files -> [epoch: 0 .. MaxEpoch, active: BOOLEAN, accepted: 0 .. MaxSize,
                              published: 0 .. MaxSize]]
    /\ \A f \in Files : streams[f].active =>
          size[f] <= streams[f].published /\ streams[f].published <= streams[f].accepted
    /\ lane \in [in_flight: BOOLEAN, failed: BOOLEAN]
    /\ \A t \in Threads : [x \in DOMAIN waits[t] \ {"plans"} |-> waits[t][x]] \in Wait

\* A reader sees no published bytes that a crash would take back: what a head shows
\* is in the append-visible journal (persist_prepared_append_publish_plans before
\* apply_append_publish_plan).
VisibleDurable ==
    \A f \in Files : size[f] > 0 => \E r \in disk.journal : r.file = f /\ r.new = size[f]

\* The state is well typed, and a reopen accepts the append-visible journal: in commit order every record either
\* finds its effect in the image or the file at the version and size it was planned
\* for (materialize_append_visible_publish_record).
JournalReplays ==
    /\ ATypeOK
    /\ \A r \in disk.journal :
          LET image == {c.seq : c \in {b \in commits : b.owner = r.file /\ b.seq < disk.next_commit_seq}}
              rows == {c.seq : c \in {b \in commits : b.owner = r.file /\ b.seq \in disk.deltas}}
              records == {q \in disk.journal : q.file = r.file}
              before == image \cup {s \in rows \cup {q.seq : q \in records} : s < r.seq}
              found == Highest({q.new : q \in {p \in records : p.seq \in before}})
          IN  \/ Cardinality(before) > r.base /\ found >= r.new /\ Highest(before) >= r.seq
              \/ Cardinality(before) = r.base /\ found = r.old /\ Highest(before) < r.seq

\* A publish is marked in flight only while the batch that planned it runs, so that
\* a failed publish can be retried (append_publish_in_flight,
\* cancel_append_publish_plan).
MarkersOwned == \A p \in markers : \E t \in Threads : p \in Range(waits[t].plans)

\* A publish that was not applied is not brought to life by a reopen.
JournaledApplied ==
    \A r \in disk.journal :
        \/ [seq |-> r.seq, owner |-> r.file] \in commits
        \/ \E t \in Threads : r \in Range(waits[t].plans)

\* Every wait on a ticket returns: it drives a batch or observes the completion of
\* one (wait_append_publish).
WaitsReturn == \A t \in Threads : waits[t].pc # "out" ~> waits[t].pc = "out"

\* A batch that has to wait for earlier commits to become durable does not drain
\* for ever.
DrainsEnd == \A t \in Threads : <>[](waits[t].pc # "drain")

=============================================================================
