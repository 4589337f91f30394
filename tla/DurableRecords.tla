--------------------------- MODULE DurableRecords ---------------------------
(***************************************************************************)
(* Where encoded values are kept, in src/src/local/durable: a value is     *)
(* either a row (encode_row into SQLite, decode_row at reopen) or a record *)
(* of an append-visible publish journal, one file per lane.                *)
(*                                                                         *)
(* The row half follows one value of any layout of CodecTables: it is      *)
(* put, perhaps damaged, and read.  The journal half runs the append,      *)
(* crash and reopen of the lanes' files.  A journal file is a sequence of  *)
(* cells: a frame is a magic cell, a length cell, a checksum cell and one  *)
(* cell for each record of its batch, a record being its commit sequence   *)
(* (that batches survive encode_row is the row half's business).           *)
(***************************************************************************)
EXTENDS Codec

CONSTANTS MaxShape,          \* collections of the rows put have at most this many elements
          MaxDamaged,        \* rows of at most this many bytes are damaged
          Lanes,             \* the lanes whose journals are modelled
          MaxBatch,          \* records in a publish batch
          MaxSeq,            \* commit sequences that are issued
          MaxCrashes,
          UnsettledAppends   \* whether appends go to a file left torn or not linked

VARIABLES medium,    \* "row" or "journal": what this behaviour is about
          row,       \* the row: what was put, what is left of it, what reading it gave
          file,      \* lane -> its journal file, as written, synced and linked
          op,        \* lane -> the append that holds the lane's lock
          store,     \* "open", "down" or "refused": reopen returned an error
          next_commit_seq,
          acked,     \* commit sequences whose append returned Ok
          crashes

journalVars == <<file, op, store, next_commit_seq, acked, crashes>>

vars == <<medium, row, file, op, store, next_commit_seq, acked, crashes>>

-------------------------------------------------------------------------------
(* Rows. *)

NoRow == [stage |-> "none", type |-> "", shape |-> 0, val |-> 0, bytes |-> <<>>,
          whole |-> TRUE, result |-> ""]

PutRow ==
    /\ medium = "row" /\ row.stage = "none"
    /\ \E type \in RowTypes, shape \in 0 .. MaxShape : \E arm \in ArmsOf(type) :
          LET val == Sample(type, arm, shape, 1)
          IN  row' = [NoRow EXCEPT !.stage = "put", !.type = type, !.shape = shape,
                                   !.val = val, !.bytes = EncodeRow(type, val)]
    /\ UNCHANGED <<medium, journalVars>>

\* The bytes are cut short, or a zero byte stands behind them.
DamageRow ==
    /\ row.stage = "put" /\ row.whole /\ Len(row.bytes) <= MaxDamaged
    /\ \E bytes \in {SubSeq(row.bytes, 1, end) : end \in 0 .. Len(row.bytes) - 1}
                     \cup {Append(row.bytes, 0)} :
          row' = [row EXCEPT !.bytes = bytes, !.whole = FALSE]
    /\ UNCHANGED <<medium, journalVars>>

GetRow ==
    /\ row.stage = "put"
    /\ LET got == DecodeRow(row.type, row.bytes)
       IN  row' = [row EXCEPT !.stage = "read",
                              !.result = IF ~got.ok THEN "rejected"
                                         ELSE IF got.val = row.val THEN "same" ELSE "other"]
    /\ UNCHANGED <<medium, journalVars>>

-------------------------------------------------------------------------------
(* Journal frames. *)

Cell(kind, of) == [kind |-> kind, of |-> of]

\* durable_journal_frame.
Frame(batch) ==
    <<Cell("magic", <<>>), Cell("len", <<Len(batch)>>), Cell("sum", batch)>>
    \o [i \in DOMAIN batch |-> Cell("record", <<batch[i]>>)]

RECURSIVE LoadFrom(_, _)

\* load_durable_journal_records: the whole frames from the front.  A header or a payload
\* that the file ends in is the end; any other disagreement is an error.  The bytes of a
\* magic read as a length are beyond MAX_DURABLE_JOURNAL_PAYLOAD_BYTES.
LoadFrom(cells, loaded) ==
    LET Result(ok) == [ok |-> ok, records |-> loaded, rest |-> Len(cells)]
        len == cells[2].of[1]
    IN  CASE Len(cells) < 3 -> Result(TRUE)
          [] Len(cells) >= 3 /\ (cells[1].kind # "magic" \/ cells[2].kind # "len") -> Result(FALSE)
          [] OTHER ->
                IF Len(cells) < 3 + len THEN Result(TRUE)
                ELSE IF SubSeq(cells, 1, 3 + len) # Frame(cells[3].of) THEN Result(FALSE)
                     ELSE LoadFrom(SubSeq(cells, 4 + len, Len(cells)), loaded \o cells[3].of)

Load(f) == LoadFrom(f.cells, <<>>)

\* The file does not end where a frame ends, or its directory entry was never synced.
Unsettled(f) == Load(f).rest # 0 \/ (f.exists /\ ~f.linked)

-------------------------------------------------------------------------------
(* Appending a batch to a lane's journal. *)

NoFile == [exists |-> FALSE, linked |-> FALSE, cells |-> <<>>, synced |-> 0]

Idle == [pc |-> "idle", batch |-> <<>>, existed |-> FALSE]

Init ==
    /\ medium \in {"row", "journal"}
    /\ row = NoRow
    /\ file = [l \in Lanes |-> NoFile]
    /\ op = [l \in Lanes |-> Idle]
    /\ store = "open" /\ next_commit_seq = 1 /\ acked = {} /\ crashes = 0

Running(l, pc) == medium = "journal" /\ store = "open" /\ op[l].pc = pc

\* A publish takes its commit sequences and then the lane's lock.
Publish(l) ==
    /\ Running(l, "idle")
    /\ UnsettledAppends \/ ~Unsettled(file[l])
    /\ \E n \in 1 .. MaxBatch :
          /\ next_commit_seq + n - 1 <= MaxSeq
          /\ op' = [op EXCEPT ![l] = [pc |-> "open", existed |-> FALSE,
                                      batch |-> [i \in 1 .. n |-> next_commit_seq + i - 1]]]
          /\ next_commit_seq' = next_commit_seq + n
    /\ UNCHANGED <<medium, row, file, store, acked, crashes>>

\* path.exists, then the open that creates the file.
OpenFile(l) ==
    /\ Running(l, "open")
    /\ op' = [op EXCEPT ![l].pc = "write", ![l].existed = file[l].exists]
    /\ file' = [file EXCEPT ![l].exists = TRUE]
    /\ UNCHANGED <<medium, row, store, next_commit_seq, acked, crashes>>

WriteFrame(l) ==
    /\ Running(l, "write")
    /\ op' = [op EXCEPT ![l].pc = "sync"]
    /\ file' = [file EXCEPT ![l].cells = @ \o Frame(op[l].batch)]
    /\ UNCHANGED <<medium, row, store, next_commit_seq, acked, crashes>>

\* fallocate or write_all returns an error after some part of the frame is in the file.
WriteFails(l) ==
    /\ Running(l, "write")
    /\ op' = [op EXCEPT ![l] = Idle]
    /\ \E k \in 0 .. Len(op[l].batch) + 2 :
          file' = [file EXCEPT ![l].cells = @ \o SubSeq(Frame(op[l].batch), 1, k)]
    /\ UNCHANGED <<medium, row, store, next_commit_seq, acked, crashes>>

\* The append returns Ok.
Ack(l) ==
    /\ op' = [op EXCEPT ![l] = Idle]
    /\ acked' = acked \cup ToSet(op[l].batch)

\* A fault: the directory of a file just created is not synced.
SyncDataOnly(l) ==
    /\ Running(l, "sync")
    /\ file' = [file EXCEPT ![l].synced = Len(file[l].cells)]
    /\ Ack(l)
    /\ UNCHANGED <<medium, row, store, next_commit_seq, crashes>>

SyncData(l) ==
    /\ Running(l, "sync")
    /\ file' = [file EXCEPT ![l].synced = Len(file[l].cells)]
    /\ IF op[l].existed THEN Ack(l)
       ELSE op' = [op EXCEPT ![l].pc = "link"] /\ UNCHANGED acked
    /\ UNCHANGED <<medium, row, store, next_commit_seq, crashes>>

SyncDir(l) ==
    /\ Running(l, "link")
    /\ file' = [file EXCEPT ![l].linked = TRUE]
    /\ Ack(l)
    /\ UNCHANGED <<medium, row, store, next_commit_seq, crashes>>

\* sync_data or sync_parent_dir returns an error.
SyncFails(l) ==
    /\ Running(l, "sync") \/ Running(l, "link")
    /\ op' = [op EXCEPT ![l] = Idle]
    /\ UNCHANGED <<medium, row, file, store, next_commit_seq, acked, crashes>>

-------------------------------------------------------------------------------
(* Crash and reopen. *)

\* What a power failure may leave of a file: whatever was not synced may be cut, and a file
\* whose directory entry was not synced may be gone.
Remains(f) ==
    {[f EXCEPT !.cells = SubSeq(@, 1, k), !.synced = k, !.linked = f.exists] :
        k \in f.synced .. Len(f.cells)}
    \cup (IF f.linked THEN {} ELSE {NoFile})

Stop ==
    /\ medium = "journal" /\ store = "open" /\ crashes < MaxCrashes
    /\ store' = "down" /\ crashes' = crashes + 1
    /\ op' = [l \in Lanes |-> Idle]
    /\ UNCHANGED <<medium, row, next_commit_seq, acked>>

PowerFails ==
    /\ Stop
    /\ file' \in {f \in [Lanes -> UNION {Remains(file[l]) : l \in Lanes}] :
                     \A l \in Lanes : f[l] \in Remains(file[l])}

\* What a kill may leave: a write under way may be cut short.
Written(l) ==
    {[file[l] EXCEPT !.cells = @ \o SubSeq(Frame(op[l].batch), 1, k)] :
        k \in 0 .. IF op[l].pc = "write" THEN Len(op[l].batch) + 2 ELSE 0}

\* The process dies and the machine does not.
ProcessDies ==
    /\ Stop
    /\ file' \in {f \in [Lanes -> UNION {Written(l) : l \in Lanes}] :
                     \A l \in Lanes : f[l] \in Written(l)}

\* A fault of advance_cursor_for_commit_seq: the record's own sequence is taken as the next.
AdvanceCursorShort(cursor, seqs) == IF seqs = {} THEN cursor ELSE Max(seqs \cup {cursor})

\* effective_export_cursor over a saved cursor: past every loaded record.
AdvanceCursor(cursor, seqs) == Max({s + 1 : s \in seqs} \cup {cursor})

\* Reopen loads every lane.  The cursor row is the one of the empty store: the case in
\* which the journals alone say which sequences are taken.
Reopen ==
    /\ medium = "journal" /\ store = "down"
    /\ IF \A l \in Lanes : Load(file[l]).ok
       THEN /\ store' = "open"
            /\ next_commit_seq' =
                  AdvanceCursor(1, UNION {ToSet(Load(file[l]).records) : l \in Lanes})
       ELSE store' = "refused" /\ UNCHANGED next_commit_seq
    /\ UNCHANGED <<medium, row, file, op, acked, crashes>>

-------------------------------------------------------------------------------
RowNext == PutRow \/ DamageRow \/ GetRow

LaneNext(l) ==
    \/ Publish(l) \/ OpenFile(l) \/ WriteFrame(l) \/ WriteFails(l)
    \/ SyncData(l) \/ SyncDir(l) \/ SyncFails(l)

Next == RowNext \/ (\E l \in Lanes : LaneNext(l)) \/ PowerFails \/ ProcessDies \/ Reopen

Spec == Init /\ [][Next]_vars

-------------------------------------------------------------------------------
(* Properties. *)

\* Type correctness: the states of the row, of the lanes' files and appends and of the store.
RTypeOK ==
    /\ row.stage \in {"none", "put", "read"} /\ row.whole \in BOOLEAN
    /\ \A l \in Lanes :
          /\ file[l].synced \in 0 .. Len(file[l].cells)
          /\ file[l].linked \/ file[l].cells # <<>> => file[l].exists
          /\ op[l].pc \in {"idle", "open", "write", "sync", "link"}
          /\ op[l].pc = "idle" <=> op[l].batch = <<>>
    /\ store \in {"open", "down", "refused"} /\ next_commit_seq \in 1 .. MaxSeq + 1
    /\ acked \subseteq 1 .. MaxSeq

\* decode_row gives back the value encode_row was given, for every struct and every variant
\* of every enum the store keeps or sends, while no collection is over the decoders' limit.
\* Encode and decode are written apart, field by field: a field put in one order and read
\* in another of the same width would go unnoticed by the type checker.
RoundTrip ==
    row.stage = "read" /\ row.whole /\ row.shape <= MaxCollection => row.result = "same"

\* Bytes cut short anywhere, or with one byte behind them, are refused by decode_row and never
\* decoded as some other value: no layout has another as its prefix.
DamageRejected == row.stage = "read" /\ ~row.whole => row.result = "rejected"

\* The encoders have no limit of their own.  A row that was written can be read back.
WrittenReadable == row.stage = "read" /\ row.whole => row.result = "same"

\* Once the store is down, the lanes' journals still load, in order, every record whose
\* append_append_visible_publish_journal_records returned Ok, whatever crash came when.
AckedLoad ==
    store # "open" =>
       /\ \A l \in Lanes : Load(file[l]).ok
       /\ acked \subseteq UNION {ToSet(Load(file[l]).records) : l \in Lanes}

\* The state is well typed, no commit sequence stands for two records, on one lane or on two,
\* and a lane's records are in commit order: reopen's cursor is past everything the journals
\* hold, acknowledged or not.
SeqsFresh ==
    /\ RTypeOK
    /\ \A l \in Lanes :
          LET seqs == Load(file[l]).records
          IN  \A i, j \in DOMAIN seqs : i < j => seqs[i] < seqs[j]
    /\ \A l, m \in Lanes :
          l # m => ToSet(Load(file[l]).records) \cap ToSet(Load(file[m]).records) = {}

\* A tail left by an interrupted append is passed over by the loader, so reopen succeeds.
TornTailIgnored == store # "refused"

=============================================================================
