------------------------- MODULE PersistCoordinator -------------------------
(***************************************************************************)
(* How the durable coordinator (local/durable/coordinator.rs) makes        *)
(* commits durable.  Calls publish a commit in memory, record a compact    *)
(* delta for it under another lock, and then ask the one shared persist    *)
(* coordinator to reach their commit: whoever finds no persist in flight   *)
(* runs one for everybody, the others wait for it.  A persist writes the   *)
(* compact deltas when they are contiguous and otherwise an image of the   *)
(* metadata through the commit it was asked for.                           *)
(*                                                                         *)
(* `generation` is only ever compared with an earlier reading of itself,   *)
(* so a waiting call carries `moved`: the generation changed since it      *)
(* began to wait.  last_error always belongs to the current generation, so *)
(* it is the flag `failed`.  A snapshot and the write of it are one step.  *)
(***************************************************************************)
EXTENDS Naturals, FiniteSets

CONSTANTS
    Threads,        \* callers
    Devices,        \* block devices
    Files,          \* native files, each in a keyspace of its own
    GraceCommits,   \* PITR windows the metadata custodian is called with
    MaxCommit,      \* bound: commit sequence numbers
    MaxFailure,     \* bound: persists that fail
    MaxSweep,       \* bound: metadata custodian runs
    MaxCrash,       \* bound: crashes
    MaxFault        \* bound: the three together

ASSUME PersistAssumption ==
    /\ Devices \cap Files = {}
    /\ GraceCommits \subseteq Nat
    /\ {MaxCommit, MaxFailure, MaxSweep, MaxCrash, MaxFault} \subseteq Nat

VARIABLES
    next_commit_seq,
    commits,                     \* the published commits: their number and owner
    replay_from,                 \* owner -> commit of its oldest checkpoint
    pending_block_deltas,        \* commits whose block delta is recorded in memory
    pending_native_file_deltas,
    prestaging,                  \* block deltas whose segments are being prestaged
    persist,                     \* the persist coordinator
    gate,                        \* metadata_persist_gate
    disk,                        \* what a reopen would read
    promised,                    \* highest commit a returned call reported durable
    calls,                       \* thread -> its call
    faults                       \* failures, sweeps and crashes so far

memory == <<next_commit_seq, commits, replay_from>>
deltas == <<pending_block_deltas, pending_native_file_deltas, prestaging>>
pvars == <<memory, deltas, persist, gate, disk, promised, calls, faults>>

Owners == Devices \cup Files
Seqs == 0 .. MaxCommit
\* The position of the oldest checkpoint of an owner that has none.
NoCheckpoint == MaxCommit + 1

Larger(a, b) == IF a >= b THEN a ELSE b
Smaller(a, b) == IF a <= b THEN a ELSE b
\* The largest of the numbers in S, 0 for none.
Highest(S) == IF S = {} THEN 0 ELSE CHOOSE n \in S : \A m \in S : m <= n

\* A call: where it is, the kind of persist it asks for, the commit it must
\* reach, the commit a running persist goes through (0 for everything) and the
\* deltas it has selected ({} for an image), and where it continues.  The last
\* three places, and compact persists, belong to calls of AppendPublish.
Call ==
    [pc: {"idle", "record", "stage", "prestage", "enter", "await", "select", "gate",
          "write", "finish", "failed", "sweep", "fence", "queue", "batch"},
     kind: {"block", "native", "full", "now", "compact"},
     required: Seqs, through: Seqs, selected: SUBSET Seqs, moved: BOOLEAN,
     then: {"idle", "sweep", "batch"}]

NewCall(pc, kind, required) ==
    [pc |-> pc, kind |-> kind, required |-> required, through |-> 0, selected |-> {},
     moved |-> FALSE, then |-> "idle"]
Idle == NewCall("idle", "now", 0)

Bounded == faults.failures + faults.sweeps + faults.crashes < MaxFault

At(t, pc) == calls[t].pc = pc
Goto(t, pc) == calls' = [calls EXCEPT ![t].pc = pc]

\* latest_commit of an owner's head.
Latest(o) == Highest({c.seq : c \in {b \in commits : b.owner = o}})

-----------------------------------------------------------------------------
(* Commits and compact deltas.                                              *)

\* The local coordinator publishes a commit of owner o.
CommitLocally(o) ==
    /\ next_commit_seq <= MaxCommit
    /\ next_commit_seq' = next_commit_seq + 1
    /\ commits' = commits \cup {[seq |-> next_commit_seq, owner |-> o]}
    /\ UNCHANGED replay_from

\* commit_block_batch with Flushed, write_zeroes, discard_device, or
\* commit_file_batch with Flushed: the commit is visible before its delta is
\* recorded.
WriteFlushed(t, o) ==
    /\ At(t, "idle")
    /\ CommitLocally(o)
    /\ calls' = [calls EXCEPT ![t] =
          NewCall("record", IF o \in Devices THEN "block" ELSE "native", next_commit_seq)]
    /\ UNCHANGED <<deltas, persist, gate, disk, promised, faults>>

\* record_pending_block_delta, record_pending_native_file_delta
RecordDelta(t) ==
    LET recorded == {calls[t].required}
    IN  /\ At(t, "record")
        /\ IF calls[t].kind = "block"
           THEN /\ pending_block_deltas' = pending_block_deltas \cup recorded
                /\ UNCHANGED pending_native_file_deltas
           ELSE /\ pending_native_file_deltas' = pending_native_file_deltas \cup recorded
                /\ UNCHANGED pending_block_deltas
        /\ Goto(t, "enter")
        /\ UNCHANGED <<memory, prestaging, persist, gate, disk, promised, faults>>

\* commit_block_batch with Acknowledged.  A small batch commits, records its
\* delta and begins to prestage under the staging lock ...
WriteAcknowledged(t, d) ==
    /\ At(t, "idle")
    /\ d \in Devices
    /\ CommitLocally(d)
    /\ pending_block_deltas' = pending_block_deltas \cup {next_commit_seq}
    /\ prestaging' = prestaging \cup {next_commit_seq}
    /\ calls' = [calls EXCEPT ![t] = NewCall("prestage", "block", next_commit_seq)]
    /\ UNCHANGED <<pending_native_file_deltas, persist, gate, disk, promised, faults>>

\* ... a large one commits before it takes the lock.
WriteAcknowledgedLarge(t, d) ==
    /\ At(t, "idle")
    /\ d \in Devices
    /\ CommitLocally(d)
    /\ calls' = [calls EXCEPT ![t] = NewCall("stage", "block", next_commit_seq)]
    /\ UNCHANGED <<deltas, persist, gate, disk, promised, faults>>

StageDelta(t) ==
    /\ At(t, "stage")
    /\ pending_block_deltas' = pending_block_deltas \cup {calls[t].required}
    /\ prestaging' = prestaging \cup {calls[t].required}
    /\ Goto(t, "prestage")
    /\ UNCHANGED <<memory, pending_native_file_deltas, persist, gate, disk, promised, faults>>

\* finish_block_delta_prestage, whether or not the segments could be written.
FinishPrestage(t) ==
    /\ At(t, "prestage")
    /\ prestaging' = prestaging \ {calls[t].required}
    /\ calls' = [calls EXCEPT ![t] = Idle]
    /\ UNCHANGED <<memory, pending_block_deltas, pending_native_file_deltas, persist, gate, disk,
                   promised, faults>>

\* commit_file_batch with Acknowledged records no delta.
WriteFileAcknowledged(t, f) ==
    /\ At(t, "idle")
    /\ f \in Files
    /\ CommitLocally(f)
    /\ UNCHANGED <<deltas, persist, gate, disk, promised, calls, faults>>

\* flush_device and flush_file: reach the owner's latest commit.  A flushed
\* write that changes nothing does the same (write_zeroes with kind full).
Flush(t, o, kind) ==
    /\ At(t, "idle")
    /\ kind = "full" \/ (kind = "block" /\ o \in Devices)
    /\ calls' = [calls EXCEPT ![t] = NewCall("enter", kind, Latest(o))]
    /\ UNCHANGED <<memory, deltas, persist, gate, disk, promised, faults>>

\* run_and_persist: fork, restore, delete and their native counterparts commit
\* and then persist everything.
RunAndPersist(t, o) ==
    /\ At(t, "idle")
    /\ CommitLocally(o)
    /\ calls' = [calls EXCEPT ![t] = NewCall("enter", "now", next_commit_seq)]
    /\ UNCHANGED <<deltas, persist, gate, disk, promised, faults>>

\* fold_compact_deltas_before_gc, the start of run_metadata_custodian: persist
\* everything first if any compact delta is pending or stored.
StartCustodian(t) ==
    LET unfolded == pending_block_deltas \cup pending_native_file_deltas \cup disk.deltas
        fold == NewCall("enter", "now", next_commit_seq - 1)
    IN  /\ At(t, "idle")
        /\ Bounded /\ faults.sweeps < MaxSweep
        /\ faults' = [faults EXCEPT !.sweeps = @ + 1]
        /\ calls' = [calls EXCEPT ![t] =
              IF unfolded = {} THEN [Idle EXCEPT !.pc = "sweep"]
              ELSE [fold EXCEPT !.then = "sweep"]]
        /\ UNCHANGED <<memory, deltas, persist, gate, disk, promised>>

\* The oldest checkpoint a sweep with a window of `grace` commits keeps for o: the
\* anchor at the window floor, or at the head if that is older.
AnchorOf(o, grace) ==
    LET current == next_commit_seq - 1
        floor == IF current >= grace THEN current - (grace - 1) ELSE 0
    IN  IF grace = 0 THEN NoCheckpoint ELSE Smaller(Latest(o), floor)

\* The sweep itself, which fails if some anchor cannot be made; the custodian
\* persists everything in either case.
Sweep(t, grace) ==
    /\ At(t, "sweep")
    /\ replay_from' = IF \A o \in Owners : replay_from[o] <= AnchorOf(o, grace)
                      THEN [o \in Owners |-> AnchorOf(o, grace)] ELSE replay_from
    /\ calls' = [calls EXCEPT ![t] = NewCall("enter", "now", next_commit_seq - 1)]
    /\ UNCHANGED <<next_commit_seq, commits, deltas, persist, gate, disk, promised, faults>>

-----------------------------------------------------------------------------
(* The persist coordinator.                                                 *)

\* The calls once thread t's call has become `call` and, if the generation
\* changed, the waiting calls have noticed.
Advance(t, call) == [calls EXCEPT ![t] = call]
AdvanceAndNotify(t, call) ==
    [u \in Threads |-> IF u = t THEN call
                       ELSE IF calls[u].pc \in {"await", "queue"} THEN [calls[u] EXCEPT !.moved = TRUE]
                       ELSE calls[u]]

\* Where a call is after its persist returned Ok.
Continued(t) == IF calls[t].then = "idle" THEN Idle ELSE [Idle EXCEPT !.pc = calls[t].then]
\* What the caller has then been told.
Promise(t) ==
    promised' = IF calls[t].then = "idle" THEN Larger(promised, calls[t].required) ELSE promised

\* The loop head of persist_block_deltas_until, persist_native_file_deltas_until
\* and persist_until.
EnterUntil(t) ==
    LET requested == Larger(persist.requested_through, calls[t].required)
        running == [calls[t] EXCEPT !.through = requested,
                                    !.pc = IF calls[t].kind = "full" THEN "gate" ELSE "select"]
    IN  /\ At(t, "enter") /\ calls[t].kind \in {"block", "native", "full"}
        /\ IF persist.durable_through >= calls[t].required
           THEN /\ persist' = [persist EXCEPT !.requested_through = requested]
                /\ calls' = Advance(t, Continued(t))
                /\ Promise(t)
           ELSE /\ persist' = [persist EXCEPT !.requested_through = requested, !.in_flight = TRUE]
                /\ calls' = Advance(t, IF persist.in_flight
                                       THEN [calls[t] EXCEPT !.pc = "await", !.moved = FALSE]
                                       ELSE running)
                /\ UNCHANGED promised
        /\ UNCHANGED <<memory, deltas, gate, disk, faults>>

\* Mutant: persist_now does not wait.
EnterNowAnyway(t) ==
    /\ At(t, "enter") /\ calls[t].kind = "now"
    /\ persist' = [persist EXCEPT !.in_flight = TRUE]
    /\ Goto(t, "gate")
    /\ UNCHANGED <<memory, deltas, gate, disk, promised, faults>>

\* persist_now waits until no persist is in flight.
EnterNow(t) ==
    /\ At(t, "enter") /\ calls[t].kind = "now"
    /\ ~ persist.in_flight
    /\ persist' = [persist EXCEPT !.in_flight = TRUE]
    /\ Goto(t, "gate")
    /\ UNCHANGED <<memory, deltas, gate, disk, promised, faults>>

\* The waiting half of the loop.
Await(t) ==
    /\ At(t, "await")
    /\ ~ persist.in_flight \/ calls[t].moved
    /\ IF persist.durable_through >= calls[t].required
       THEN calls' = Advance(t, Continued(t)) /\ Promise(t)
       ELSE /\ calls' = Advance(t, IF calls[t].moved /\ persist.failed THEN Idle
                                   ELSE [calls[t] EXCEPT !.pc = "enter", !.moved = FALSE])
            /\ UNCHANGED promised
    /\ UNCHANGED <<memory, deltas, persist, gate, disk, faults>>

\* Mutant: a run of deltas may have holes.
ReachesTarget(pending, after, target) == target \in pending

\* contiguous_pending_block_deltas, contiguous_pending_native_file_deltas: every
\* commit after `after` through `target` has a delta.
Contiguous(pending, after, target) == after + 1 .. target \subseteq pending

\* persist_block_deltas_physical, persist_native_file_deltas_physical
SelectDeltas(t) ==
    LET target == Larger(persist.requested_through, calls[t].through)
        pending == IF calls[t].kind = "block" THEN pending_block_deltas
                   ELSE pending_native_file_deltas
        run == (persist.durable_through + 1 .. target) \cap pending
    IN  /\ At(t, "select")
        /\ calls' = Advance(t,
              IF persist.durable_through >= target
              THEN [calls[t] EXCEPT !.pc = "finish", !.through = persist.durable_through]
              ELSE [calls[t] EXCEPT !.pc = "gate", !.through = target,
                      !.selected = IF Contiguous(pending, persist.durable_through, target)
                                   THEN run ELSE {}])
        /\ UNCHANGED <<memory, deltas, persist, gate, disk, promised, faults>>

\* Every physical persist takes the exclusive side of metadata_persist_gate.
TakeGate(t) ==
    /\ At(t, "gate")
    /\ gate.readers = {} /\ ~ gate.writer
    /\ gate' = [gate EXCEPT !.writer = TRUE]
    /\ Goto(t, "write")
    /\ UNCHANGED <<memory, deltas, persist, disk, promised, faults>>

ReleaseGate == gate' = [gate EXCEPT !.writer = FALSE]

\* ready_contiguous_pending_block_deltas, contiguous_pending_native_file_deltas:
\* once it holds the gate, a batch grows to what has been requested and recorded
\* meanwhile.  Block deltas that are still being prestaged end the batch, a hole
\* before that keeps it as it was.
GrownBlock(sel) ==
    LET after == Highest(sel)
        more == {s \in after + 1 .. persist.requested_through :
                    after + 1 .. s \subseteq pending_block_deltas \ prestaging}
        end == Highest(sel \cup more)
        beyond == {s \in pending_block_deltas : end < s /\ s <= persist.requested_through}
    IN  IF beyond = {} \/ end + 1 \in prestaging THEN sel \cup more ELSE sel
GrownNative(sel) ==
    IF Contiguous(pending_native_file_deltas, Highest(sel), persist.requested_through)
    THEN sel \cup (Highest(sel) + 1 .. persist.requested_through) ELSE sel

\* persist_block_delta_commits and persist_native_file_delta_commits: one SQLite
\* transaction; the deltas in it stop being pending.
WriteDeltas(t) ==
    LET sel == calls[t].selected
        block == sel \subseteq pending_block_deltas
        written == IF block THEN GrownBlock(sel) ELSE GrownNative(sel)
        high == Highest(written)
    IN  /\ At(t, "write") /\ sel # {}
        /\ block => sel \cap prestaging = {}
        /\ disk' = [disk EXCEPT !.deltas = @ \cup written]
        /\ IF block
           THEN /\ pending_block_deltas' = {s \in pending_block_deltas : s > high}
                /\ UNCHANGED pending_native_file_deltas
           ELSE /\ pending_native_file_deltas' = {s \in pending_native_file_deltas : s > high}
                /\ UNCHANGED pending_block_deltas
        /\ ReleaseGate
        /\ calls' = Advance(t, [calls[t] EXCEPT !.pc = "finish", !.through = high,
                                                !.selected = {}])
        /\ UNCHANGED <<memory, prestaging, persist, promised, faults>>

\* The owners an image through commit c leaves out: metadata_through_commit takes
\* an owner that has moved past c and does not replay to c for one created later.
LeftOut(c) == {o \in Owners : Latest(o) > c /\ replay_from[o] > c}

\* Mutant: the image's cursor is its last commit and not the one after it.
WriteImageShort(t) ==
    LET c == calls[t].through
        current == next_commit_seq - 1
        whole == c = 0 \/ c >= current
        high == IF whole THEN current ELSE c
    IN  /\ At(t, "write") /\ calls[t].selected = {}
        /\ prestaging = {}
        /\ disk' = [next_commit_seq |-> Larger(disk.next_commit_seq, high),
                    missing |-> IF whole THEN {} ELSE LeftOut(c),
                    deltas |-> {s \in disk.deltas : s > high},
                    replay_from |-> replay_from, journal |-> disk.journal]
        /\ pending_block_deltas' = {s \in pending_block_deltas : s > high}
        /\ pending_native_file_deltas' = {s \in pending_native_file_deltas : s > high}
        /\ ReleaseGate
        /\ calls' = Advance(t, [calls[t] EXCEPT !.pc = "finish", !.through = high])
        /\ UNCHANGED <<memory, prestaging, persist, promised, faults>>

\* state_for_durable_persist_through and persist: an image of everything, or of
\* the state at the target when commits have passed it.
WriteImage(t) ==
    LET c == calls[t].through
        current == next_commit_seq - 1
        whole == c = 0 \/ c >= current
        high == IF whole THEN current ELSE c
    IN  /\ At(t, "write") /\ calls[t].selected = {}
        /\ prestaging = {}
        /\ disk' = [next_commit_seq |-> Larger(disk.next_commit_seq, high + 1),
                    missing |-> IF whole THEN {} ELSE LeftOut(c),
                    deltas |-> {s \in disk.deltas : s > high},
                    replay_from |-> replay_from, journal |-> disk.journal]
        /\ pending_block_deltas' = {s \in pending_block_deltas : s > high}
        /\ pending_native_file_deltas' = {s \in pending_native_file_deltas : s > high}
        /\ ReleaseGate
        /\ calls' = Advance(t, [calls[t] EXCEPT !.pc = "finish", !.through = high])
        /\ UNCHANGED <<memory, prestaging, persist, promised, faults>>

\* persist_native_metadata_delta: the commits since the stored image are all
\* native and no block delta is pending among them, so only they are written.
WriteNativeMetadata(t) ==
    LET c == calls[t].through
        since == disk.next_commit_seq .. c
    IN  /\ At(t, "write") /\ calls[t].selected = {} /\ c # 0
        /\ prestaging = {}
        /\ pending_block_deltas \cap since = {}
        /\ \A b \in commits : b.seq \in since => b.owner \in Files
        /\ disk' = [disk EXCEPT !.next_commit_seq = Larger(@, c + 1)]
        /\ pending_native_file_deltas' = {s \in pending_native_file_deltas : s > c}
        /\ ReleaseGate
        /\ calls' = Advance(t, [calls[t] EXCEPT !.pc = "finish"])
        /\ UNCHANGED <<memory, pending_block_deltas, prestaging, persist, promised, faults>>

\* The write fails before its transaction commits.
WriteFails(t) ==
    /\ At(t, "write")
    /\ Bounded /\ faults.failures < MaxFailure
    /\ faults' = [faults EXCEPT !.failures = @ + 1]
    /\ ReleaseGate
    /\ calls' = Advance(t, [calls[t] EXCEPT !.pc = "failed"])
    /\ UNCHANGED <<memory, deltas, persist, disk, promised>>

\* Mutant: what was requested is taken for what was written.
PersistedAsRequested(high) ==
    [persist EXCEPT !.in_flight = FALSE, !.failed = FALSE,
                    !.durable_through = Larger(@, persist.requested_through)]

\* Mutant: a persist that went beyond what was requested does not say so.
PersistedKeepsRequest(high) ==
    [persist EXCEPT !.in_flight = FALSE, !.failed = FALSE,
                    !.durable_through = Larger(@, high)]

\* The coordinator after a persist that reached `high`.
Persisted(high) ==
    [persist EXCEPT !.in_flight = FALSE, !.failed = FALSE,
                    !.durable_through = Larger(@, high),
                    !.requested_through = Larger(@, Larger(persist.durable_through, high))]

\* The end of a persist that was written.  Not to have reached the required
\* commit is an error, except that a compact persist goes on.
Finish(t) ==
    LET reached == persist'.durable_through >= calls[t].required \/ calls[t].kind = "now"
    IN  /\ At(t, "finish")
        /\ persist' = Persisted(calls[t].through)
        /\ calls' = AdvanceAndNotify(t, IF reached THEN Continued(t)
                                        ELSE IF calls[t].kind # "compact" THEN Idle
                                        ELSE [calls[t] EXCEPT !.pc = "enter"])
        /\ IF reached THEN Promise(t) ELSE UNCHANGED promised
        /\ UNCHANGED <<memory, deltas, gate, disk, faults>>

\* Mutant: a failed persist stays in flight.
PersistErrorInFlight == [persist EXCEPT !.failed = TRUE]

\* The coordinator after a persist that failed.
PersistError == [persist EXCEPT !.in_flight = FALSE, !.failed = TRUE]

FinishFailed(t) ==
    /\ At(t, "failed")
    /\ persist' = PersistError
    /\ calls' = AdvanceAndNotify(t, Idle)
    /\ UNCHANGED <<memory, deltas, gate, disk, promised, faults>>

-----------------------------------------------------------------------------
(* Crash and reopen.                                                        *)

Journaled == {r.seq : r \in disk.journal}

\* The commits a reopen recovers: those of the image, of the delta rows and of the
\* append-visible journal.
Recoverable ==
    {c \in commits : /\ c.owner \notin disk.missing
                     /\ c.seq < disk.next_commit_seq \/ c.seq \in disk.deltas \cup Journaled}

\* effective_export_cursor: the next commit after all of them.
EffectiveNext == Larger(disk.next_commit_seq, Highest(disk.deltas \cup Journaled) + 1)

Crash ==
    /\ Bounded /\ faults.crashes < MaxCrash
    /\ faults' = [faults EXCEPT !.crashes = @ + 1]
    /\ commits' = Recoverable \cup {[seq |-> r.seq, owner |-> r.file] : r \in disk.journal}
    /\ next_commit_seq' = EffectiveNext
    /\ replay_from' = disk.replay_from
    /\ pending_block_deltas' = {}
    /\ pending_native_file_deltas' = {}
    /\ prestaging' = {}
    /\ persist' = [in_flight |-> FALSE, requested_through |-> EffectiveNext - 1,
                   durable_through |-> EffectiveNext - 1, failed |-> FALSE]
    /\ gate' = [writer |-> FALSE, readers |-> {}]
    /\ calls' = [t \in Threads |-> Idle]
    /\ UNCHANGED <<disk, promised>>

-----------------------------------------------------------------------------
PInit ==
    /\ next_commit_seq = 1
    /\ commits = {}
    /\ replay_from = [o \in Owners |-> 0]
    /\ pending_block_deltas = {}
    /\ pending_native_file_deltas = {}
    /\ prestaging = {}
    /\ persist = [in_flight |-> FALSE, requested_through |-> 0, durable_through |-> 0,
                  failed |-> FALSE]
    /\ gate = [writer |-> FALSE, readers |-> {}]
    /\ disk = [next_commit_seq |-> 1, missing |-> {}, deltas |-> {},
               replay_from |-> [o \in Owners |-> 0], journal |-> {}]
    /\ promised = 0
    /\ calls = [t \in Threads |-> Idle]
    /\ faults = [failures |-> 0, sweeps |-> 0, crashes |-> 0]

StartCall(t) ==
    \/ \E o \in Owners :
          \/ WriteFlushed(t, o)
          \/ WriteAcknowledged(t, o)
          \/ WriteAcknowledgedLarge(t, o)
          \/ WriteFileAcknowledged(t, o)
          \/ \E kind \in {"block", "full"} : Flush(t, o, kind)
          \/ RunAndPersist(t, o)
    \/ StartCustodian(t)

\* The steps of a call that has begun.
CallStep(t) ==
    \/ RecordDelta(t) \/ StageDelta(t) \/ FinishPrestage(t)
    \/ \E grace \in GraceCommits : Sweep(t, grace)
    \/ EnterUntil(t) \/ EnterNow(t) \/ Await(t) \/ SelectDeltas(t) \/ TakeGate(t)
    \/ WriteDeltas(t) \/ WriteImage(t) \/ WriteNativeMetadata(t) \/ WriteFails(t)
    \/ Finish(t) \/ FinishFailed(t)

PNext == (\E t \in Threads : StartCall(t) \/ CallStep(t)) \/ Crash

PSpec == PInit /\ [][PNext]_pvars

\* Threads that are inside a call keep running; nobody has to start one.
FairSpec == PSpec /\ \A t \in Threads : WF_pvars(CallStep(t))

-----------------------------------------------------------------------------
(* Properties.                                                              *)

\* Types, and the coordinator's books: nothing is durable that was not requested.
PTypeOK ==
    /\ next_commit_seq \in 1 .. MaxCommit + 1
    /\ commits \subseteq [seq: 1 .. next_commit_seq - 1, owner: Owners]
    /\ replay_from \in [Owners -> 0 .. NoCheckpoint]
    /\ pending_block_deltas \cup pending_native_file_deltas \cup prestaging \subseteq Seqs
    /\ persist \in [in_flight: BOOLEAN, requested_through: Seqs, durable_through: Seqs,
                    failed: BOOLEAN]
    /\ persist.durable_through <= persist.requested_through
    /\ gate \in [writer: BOOLEAN, readers: SUBSET Threads]
    /\ disk.next_commit_seq \in 1 .. MaxCommit + 1 /\ disk.missing \subseteq Owners
    /\ disk.deltas \subseteq Seqs /\ disk.replay_from \in [Owners -> 0 .. NoCheckpoint]
    /\ promised \in Seqs
    /\ calls \in [Threads -> Call]

\* At most one call runs a persist, and only while the coordinator says so
\* (in_flight of persist_*_until and persist_now).
OnePersist ==
    Cardinality({t \in Threads : calls[t].pc \in {"select", "gate", "write", "finish", "failed"}})
        = IF persist.in_flight THEN 1 ELSE 0

\* Once a flushed write, a flush or a synchronous operation has returned, a crash
\* at any moment recovers every commit up to the one it reported
\* (persist_block_deltas_until, persist_until, persist_now against metadata_through_commit).
PromisedDurable == \A c \in commits : c.seq <= promised => c \in Recoverable

\* A reopen recovers a prefix of the commits: none is missing below the cursor it
\* continues from, although deltas of two kinds and images are written by
\* different callers (contiguous_pending_block_deltas, effective_export_cursor).
RecoversPrefix == \A c \in commits : c.seq < EffectiveNext => c \in Recoverable

\* What a reopen would recover is never taken back by a later persist.
NeverForgotten == [][Recoverable \subseteq Recoverable']_pvars

\* Every call returns (persist_*_until, persist_now, prestaging and the gate).
CallsReturn == \A t \in Threads : calls[t].pc # "idle" ~> calls[t].pc = "idle"

=============================================================================
