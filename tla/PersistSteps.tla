----------------------------- MODULE PersistSteps -----------------------------
(***************************************************************************)
(* The inductive invariant of the shared persist coordinator, and the      *)
(* steps that write nothing to disk: commits, deltas recorded in memory,   *)
(* and a call on its way to the physical persist.                          *)
(***************************************************************************)
EXTENDS PersistCoordinator, WellFoundedInduction, TLAPS

(***************************************************************************)
(* The inductive invariant.                                                *)
(***************************************************************************)
\* Where a call runs a persist.
Runner == {"select", "gate", "write", "finish", "failed"}

\* At most one call runs a persist, and in_flight says whether one does.
OneRunner ==
    /\ \A t, u \in Threads : calls[t].pc \in Runner /\ calls[u].pc \in Runner => t = u
    /\ persist.in_flight <=> \E t \in Threads : calls[t].pc \in Runner

\* A call that asks for or goes through commits below `next`.  The deltas it has
\* selected start at the coordinator's durable commit, persist_now writes an image
\* of everything, and a persist that was written is recovered (`end` is past it).
Fits(c, next, durable, end) ==
    /\ c \in Call
    /\ c.required < next /\ c.through < next
    /\ c.kind = "now" => c.pc \notin {"record", "await", "select"}
    /\ c.kind = "now" /\ c.pc \in {"enter", "gate", "write"} => c.through = 0 /\ c.selected = {}
    /\ c.kind = "now" /\ c.pc = "finish" => c.required <= c.through
    /\ c.selected # {} => /\ c.pc \in {"gate", "write", "failed"}
                          /\ c.selected = durable + 1 .. c.through
    /\ c.pc = "finish" => c.through < end

Disk ==
    [next_commit_seq: 1 .. MaxCommit + 1, missing: SUBSET Owners, deltas: SUBSET Seqs,
     replay_from: [Owners -> 0 .. NoCheckpoint], journal: {{}}]

\* What is on disk has been committed, without a hole up to the cursor of a reopen.
OnDisk(d, next, end) ==
    /\ d \in Disk
    /\ d.next_commit_seq <= next
    /\ \A s \in d.deltas : s < next
    /\ \A s \in 1 .. MaxCommit : s < end => s < d.next_commit_seq \/ s \in d.deltas

PersistInv ==
    /\ PTypeOK
    /\ persist.requested_through < next_commit_seq
    /\ OneRunner
    /\ \A t \in Threads :
          Fits(calls[t], next_commit_seq, persist.durable_through, EffectiveNext)
    /\ OnDisk(disk, next_commit_seq, EffectiveNext)
    /\ persist.durable_through < EffectiveNext
    /\ promised < EffectiveNext

-----------------------------------------------------------------------------
(* Numbers.                                                                  *)

\* A non-empty set of commit numbers has a largest.
LEMMA HighestIs ==
    ASSUME NEW S \in SUBSET Seqs
    PROVE  /\ Highest(S) \in Seqs
           /\ \A s \in S : s <= Highest(S)
           /\ S # {} => Highest(S) \in S
           /\ S = {} => Highest(S) = 0
<1>1. MaxCommit \in Nat
  BY PersistAssumption
<1>2. CASE S = {}
  BY <1>1, <1>2 DEF Highest, Seqs
<1>3. CASE S # {}
  <2> DEFINE D == {MaxCommit - s : s \in S}
  <2>1. D \in SUBSET Nat
    BY <1>1 DEF Seqs
  <2>2. D # {}
    BY <1>3, ZenonT(30)
  <2>3. PICK m \in D : \A y \in D : ~ (<<y, m>> \in OpToRel(<, Nat))
    BY ZenonT(30), <2>1, <2>2, WFMin, NatLessThanWellFounded
  <2>4. \A y \in D : ~ (y < m)
    BY ZenonT(30), <2>1, <2>3 DEF OpToRel
  <2>5. PICK x \in S : m = MaxCommit - x
    BY ZenonT(60)
  <2>6. ASSUME NEW y \in S PROVE y <= x
    <3>1. MaxCommit - y \in D
      BY ZenonT(60)
    <3>2. y \in Nat /\ x \in Nat
      BY <1>1 DEF Seqs
    <3> HIDE DEF D
    <3> QED
      BY <1>1, <2>4, <2>5, <3>1, <3>2
  <2>7. Highest(S) = CHOOSE n \in S : \A k \in S : k <= n
    BY <1>3 DEF Highest
  <2>8. Highest(S) \in S /\ \A k \in S : k <= Highest(S)
    BY <2>6, <2>7
  <2> QED
    BY ZenonT(60), <1>3, <2>8
<1> QED
  BY ZenonT(60), <1>2, <1>3

\* The cursor of a reopen is past the image and the delta rows, and no further.
LEMMA CursorIs ==
    ASSUME NEW n \in 1 .. MaxCommit + 1, NEW S \in SUBSET Seqs
    PROVE  LET e == Larger(n, Highest(S) + 1)
           IN  /\ e \in 1 .. MaxCommit + 1 /\ n <= e
               /\ \A s \in S : s < e
               /\ e = n \/ e - 1 \in S
<1>1. MaxCommit \in Nat
  BY PersistAssumption
<1>2. /\ Highest(S) \in 0 .. MaxCommit
      /\ \A s \in S : s <= Highest(S)
      /\ S # {} => Highest(S) \in S
      /\ S = {} => Highest(S) = 0
  BY HighestIs DEF Seqs
<1>3. \A s \in S : s \in Nat
  BY <1>1 DEF Seqs
<1> QED
  BY <1>1, <1>2, <1>3 DEF Larger

\* The same of the disk at hand.
LEMMA CursorOf ==
    ASSUME disk \in Disk
    PROVE  /\ EffectiveNext = Larger(disk.next_commit_seq, Highest(disk.deltas) + 1)
           /\ EffectiveNext \in 1 .. MaxCommit + 1
           /\ disk.next_commit_seq <= EffectiveNext
           /\ \A s \in disk.deltas : s < EffectiveNext
           /\ EffectiveNext = disk.next_commit_seq \/ EffectiveNext - 1 \in disk.deltas
<1>1. disk.next_commit_seq \in 1 .. MaxCommit + 1 /\ disk.deltas \in SUBSET Seqs
  BY DEF Disk
<1>2. Journaled = {} /\ disk.deltas \cup Journaled = disk.deltas
  BY ZenonT(60) DEF Disk, Journaled
<1>3. EffectiveNext = Larger(disk.next_commit_seq, Highest(disk.deltas) + 1)
  BY ZenonT(60), <1>2 DEF EffectiveNext
<1> QED
  BY ZenonT(60), <1>1, <1>3, CursorIs

-----------------------------------------------------------------------------
(* Steps of one call.                                                        *)

\* A call keeps fitting while the cursors only grow.
LEMMA FitsMono ==
    ASSUME NEW c, NEW next \in Nat, NEW next2 \in Nat, next <= next2,
           NEW end \in Nat, NEW end2 \in Nat, end <= end2,
           NEW durable, Fits(c, next, durable, end)
    PROVE  Fits(c, next2, durable, end2)
<1>1. c.required \in Nat /\ c.through \in Nat
  BY PersistAssumption DEF Fits, Call, Seqs
<1> QED
  BY <1>1 DEF Fits

\* What the invariant says of the numbers.
LEMMA Facts ==
    ASSUME PersistInv
    PROVE  /\ MaxCommit \in Nat /\ next_commit_seq \in 1 .. MaxCommit + 1
           /\ next_commit_seq \in Nat
           /\ EffectiveNext \in 1 .. MaxCommit + 1 /\ EffectiveNext \in Nat
           /\ disk \in Disk
           /\ persist.durable_through \in Nat /\ persist.requested_through \in Nat
           /\ calls \in [Threads -> Call]
           /\ \A t \in Threads :
                 /\ calls[t] \in Call
                 /\ calls[t].required \in Nat /\ calls[t].through \in Nat
                 /\ Fits(calls[t], next_commit_seq, persist.durable_through, EffectiveNext)
<1>1. MaxCommit \in Nat
  BY ZenonT(60), PersistAssumption
<1>2. disk \in Disk
  BY ZenonT(60) DEF PersistInv, OnDisk
<1>3. EffectiveNext \in 1 .. MaxCommit + 1
  BY ZenonT(60), <1>2, CursorOf
<1>4. persist.durable_through \in Seqs /\ persist.requested_through \in Seqs
      /\ next_commit_seq \in 1 .. MaxCommit + 1 /\ calls \in [Threads -> Call]
  BY ZenonT(60) DEF PersistInv, PTypeOK
<1>5. \A t \in Threads : /\ calls[t] \in Call
                          /\ calls[t].required \in Seqs /\ calls[t].through \in Seqs
                          /\ Fits(calls[t], next_commit_seq, persist.durable_through, EffectiveNext)
  BY ZenonT(60), <1>4 DEF Call, PersistInv
<1> QED
  BY <1>1, <1>2, <1>3, <1>4, <1>5 DEF Seqs

\* A step of thread t that leaves the durable commit where it is: what is to be
\* shown of its new call and of what it writes.
LEMMA StepInv ==
    ASSUME PersistInv, NEW t \in Threads, NEW r, calls' = [calls EXCEPT ![t] = r],
           next_commit_seq' \in 1 .. MaxCommit + 1, next_commit_seq <= next_commit_seq',
           commits' \subseteq [seq: 1 .. next_commit_seq' - 1, owner: Owners],
           replay_from' \in [Owners -> 0 .. NoCheckpoint],
           pending_block_deltas' \cup pending_native_file_deltas' \cup prestaging' \subseteq Seqs,
           persist' \in [in_flight: BOOLEAN, requested_through: Seqs, durable_through: Seqs,
                         failed: BOOLEAN],
           persist'.durable_through = persist.durable_through,
           persist'.durable_through <= persist'.requested_through,
           persist'.requested_through < next_commit_seq',
           gate' \in [writer: BOOLEAN, readers: SUBSET Threads],
           promised' \in Seqs, promised' < EffectiveNext',
           EffectiveNext' \in Nat, EffectiveNext <= EffectiveNext',
           OnDisk(disk', next_commit_seq', EffectiveNext'),
           Fits(r, next_commit_seq', persist.durable_through, EffectiveNext'),
           OneRunner'
    PROVE  PersistInv'
<1>1. calls \in [Threads -> Call] /\ r \in Call
  BY ZenonT(60), Facts DEF Fits
<1>2. calls' \in [Threads -> Call]
  BY ZenonT(60), <1>1
<1>3. disk' \in Disk
  BY ZenonT(60) DEF OnDisk
<1>4. PTypeOK'
  BY ZenonT(60), <1>2, <1>3 DEF PTypeOK, Disk
<1>5. ASSUME NEW u \in Threads
      PROVE  Fits(calls'[u], next_commit_seq', persist'.durable_through, EffectiveNext')
  <2>1. CASE u = t
    <3>1. calls'[u] = r
      BY ZenonT(60), <1>1, <2>1
    <3> QED
      BY ZenonT(60), <3>1
  <2>2. CASE u # t
    <3>1. calls'[u] = calls[u]
      BY ZenonT(60), <1>1, <2>2
    <3>2. next_commit_seq \in Nat /\ next_commit_seq' \in Nat /\ EffectiveNext \in Nat
          /\ Fits(calls[u], next_commit_seq, persist.durable_through, EffectiveNext)
      BY Facts
    <3>3. Fits(calls[u], next_commit_seq', persist.durable_through, EffectiveNext')
      BY ZenonT(60), <3>2, FitsMono
    <3> QED
      BY ZenonT(60), <3>1, <3>3
  <2> QED
    BY ZenonT(60), <2>1, <2>2
<1>6. persist'.durable_through < EffectiveNext'
  BY Facts DEF PersistInv
<1> QED
  BY ZenonT(60), <1>4, <1>5, <1>6 DEF PersistInv

\* The runner stays the one it is.
LEMMA RunnerKept ==
    ASSUME PersistInv, NEW t \in Threads, NEW r, calls' = [calls EXCEPT ![t] = r],
           r.pc \in Runner <=> calls[t].pc \in Runner,
           persist'.in_flight = persist.in_flight
    PROVE  OneRunner'
<1>1. calls \in [Threads -> Call]
  BY ZenonT(60), Facts
<1>2. \A u \in Threads : calls'[u].pc \in Runner <=> calls[u].pc \in Runner
  BY <1>1
<1> QED
  BY ZenonT(60), <1>2 DEF PersistInv, OneRunner

\* A call becomes the runner when no persist is in flight.
LEMMA RunnerStarts ==
    ASSUME PersistInv, NEW t \in Threads, NEW r, calls' = [calls EXCEPT ![t] = r],
           r.pc \in Runner, ~ persist.in_flight, persist'.in_flight
    PROVE  OneRunner'
<1>1. calls \in [Threads -> Call]
  BY ZenonT(60), Facts
<1>2. \A u \in Threads : calls'[u].pc \in Runner <=> u = t
  BY <1>1 DEF PersistInv, OneRunner
<1> QED
  BY ZenonT(60), <1>2 DEF OneRunner

\* A step that neither commits nor writes nor requests anything.
LEMMA PlainStep ==
    ASSUME PersistInv, NEW t \in Threads, NEW r, calls' = [calls EXCEPT ![t] = r],
           UNCHANGED <<memory, persist, disk>>,
           pending_block_deltas' \cup pending_native_file_deltas' \cup prestaging' \subseteq Seqs,
           gate' \in [writer: BOOLEAN, readers: SUBSET Threads],
           promised' \in Seqs, promised' < EffectiveNext,
           Fits(r, next_commit_seq, persist.durable_through, EffectiveNext),
           r.pc \in Runner <=> calls[t].pc \in Runner
    PROVE  PersistInv'
<1>1. /\ next_commit_seq' = next_commit_seq /\ commits' = commits /\ replay_from' = replay_from
      /\ persist' = persist /\ disk' = disk
  BY DEF memory
<1>2. EffectiveNext' = EffectiveNext
  BY <1>1 DEF EffectiveNext, Journaled
<1>3. OneRunner'
  BY <1>1, RunnerKept, Zenon
<1>4. OnDisk(disk', next_commit_seq', EffectiveNext')
  BY ZenonT(60), <1>1, <1>2 DEF PersistInv
<1>5. /\ next_commit_seq' \in 1 .. MaxCommit + 1 /\ next_commit_seq <= next_commit_seq'
      /\ EffectiveNext' \in Nat /\ EffectiveNext <= EffectiveNext'
      /\ persist'.durable_through <= persist'.requested_through
      /\ persist'.requested_through < next_commit_seq'
  BY <1>1, <1>2, Facts DEF PersistInv, PTypeOK
<1>6. /\ commits' \subseteq [seq: 1 .. next_commit_seq' - 1, owner: Owners]
      /\ replay_from' \in [Owners -> 0 .. NoCheckpoint]
      /\ persist' \in [in_flight: BOOLEAN, requested_through: Seqs, durable_through: Seqs,
                       failed: BOOLEAN]
  BY ZenonT(60), <1>1 DEF PersistInv, PTypeOK
<1> QED
  BY <1>1, <1>2, <1>3, <1>4, <1>5, <1>6, StepInv, Zenon

-----------------------------------------------------------------------------
(* Commits.                                                                  *)

\* A call that has just begun fits.
LEMMA NewFits ==
    ASSUME NEW pc \in {"idle", "record", "stage", "prestage", "enter", "sweep"},
           NEW kind \in {"block", "native", "full", "now"},
           kind = "now" => pc # "record",
           NEW required \in Seqs, NEW next \in Nat, required < next,
           NEW durable, NEW end
    PROVE  /\ Fits(NewCall(pc, kind, required), next, durable, end)
           /\ NewCall(pc, kind, required).pc \notin Runner
<1>1. 0 \in Seqs /\ required \in Nat
  BY PersistAssumption DEF Seqs
<1>2. NewCall(pc, kind, required) \in Call
  BY ZenonT(60), <1>1 DEF NewCall, Call
<1> QED
  BY <1>1, <1>2 DEF NewCall, Fits, Runner

\* So does a call that is over, or goes on to a sweep.
LEMMA IdleFits ==
    ASSUME NEW next \in Nat, 0 < next, NEW durable, NEW end
    PROVE  /\ Fits(Idle, next, durable, end) /\ Idle.pc \notin Runner
           /\ Fits([Idle EXCEPT !.pc = "sweep"], next, durable, end)
<1>1. 0 \in Seqs
  BY PersistAssumption DEF Seqs
<1>2. Fits(Idle, next, durable, end) /\ Idle.pc \notin Runner
  BY ZenonT(60), <1>1, NewFits DEF Idle
<1> DEFINE s == [Idle EXCEPT !.pc = "sweep"]
<1>3. Idle \in Call
  BY ZenonT(60), <1>2 DEF Fits
<1>4. /\ s \in Call /\ s.pc = "sweep" /\ s.required = Idle.required
      /\ s.through = Idle.through /\ s.selected = Idle.selected
  BY ZenonT(60), <1>3 DEF Call
<1>5. Idle.required = 0 /\ Idle.through = 0 /\ Idle.selected = {}
  BY ZenonT(60) DEF Idle, NewCall
<1> HIDE DEF s
<1>6. Fits(s, next, durable, end)
  BY ZenonT(60), <1>4, <1>5 DEF Fits
<1> QED
  BY ZenonT(60), <1>2, <1>6 DEF s

\* A step that commits.
LEMMA CommitStep ==
    ASSUME PersistInv, NEW t \in Threads, NEW o \in Owners, CommitLocally(o),
           NEW r, calls' = [calls EXCEPT ![t] = r],
           UNCHANGED <<persist, gate, disk, promised>>,
           pending_block_deltas' \cup pending_native_file_deltas' \cup prestaging' \subseteq Seqs,
           Fits(r, next_commit_seq + 1, persist.durable_through, EffectiveNext),
           r.pc \in Runner <=> calls[t].pc \in Runner
    PROVE  PersistInv'
<1>1. /\ next_commit_seq <= MaxCommit /\ next_commit_seq' = next_commit_seq + 1
      /\ commits' = commits \cup {[seq |-> next_commit_seq, owner |-> o]}
      /\ replay_from' = replay_from
  BY ZenonT(60) DEF CommitLocally
<1>2. persist' = persist /\ gate' = gate /\ disk' = disk /\ promised' = promised
  BY ZenonT(60)
<1>3. EffectiveNext' = EffectiveNext
  BY <1>2 DEF EffectiveNext, Journaled
<1>4. OneRunner'
  BY <1>2, RunnerKept, Zenon
<1>5. MaxCommit \in Nat /\ next_commit_seq \in 1 .. MaxCommit + 1 /\ EffectiveNext \in Nat
      /\ persist.requested_through \in Nat
  BY ZenonT(60), Facts
<1>6. next_commit_seq' \in 1 .. MaxCommit + 1 /\ next_commit_seq <= next_commit_seq'
  BY <1>1, <1>5
<1>7. OnDisk(disk', next_commit_seq', EffectiveNext')
  <2>1. OnDisk(disk, next_commit_seq, EffectiveNext)
    BY ZenonT(60) DEF PersistInv
  <2>2. disk.next_commit_seq \in Nat /\ \A s \in disk.deltas : s \in Nat
    BY <1>5, <2>1 DEF OnDisk, Disk, Seqs
  <2>3. OnDisk(disk, next_commit_seq + 1, EffectiveNext)
    BY <1>5, <2>1, <2>2 DEF OnDisk
  <2> QED
    BY ZenonT(60), <1>1, <1>2, <1>3, <2>3
<1>8. commits' \subseteq [seq: 1 .. next_commit_seq' - 1, owner: Owners]
  <2>1. commits \subseteq [seq: 1 .. next_commit_seq - 1, owner: Owners]
    BY ZenonT(60) DEF PersistInv, PTypeOK
  <2>2. /\ 1 .. next_commit_seq - 1 \subseteq 1 .. next_commit_seq' - 1
        /\ next_commit_seq \in 1 .. next_commit_seq' - 1
    BY <1>1, <1>5
  <2> QED
    BY <1>1, <2>1, <2>2
<1>9. /\ replay_from' \in [Owners -> 0 .. NoCheckpoint]
      /\ gate' \in [writer: BOOLEAN, readers: SUBSET Threads]
      /\ persist' \in [in_flight: BOOLEAN, requested_through: Seqs, durable_through: Seqs,
                       failed: BOOLEAN]
      /\ persist'.durable_through <= persist'.requested_through
      /\ promised' \in Seqs /\ promised' < EffectiveNext'
  BY ZenonT(60), <1>1, <1>2, <1>3 DEF PersistInv, PTypeOK
<1>10. persist'.requested_through < next_commit_seq' /\ EffectiveNext' \in Nat
       /\ EffectiveNext <= EffectiveNext'
  BY <1>1, <1>2, <1>3, <1>5 DEF PersistInv
<1>11. Fits(r, next_commit_seq', persist.durable_through, EffectiveNext')
  BY ZenonT(60), <1>1, <1>3
<1> QED
  BY <1>2, <1>4, <1>6, <1>7, <1>8, <1>9, <1>10, <1>11, StepInv, Zenon

\* The calls that begin with a commit.
LEMMA Commits ==
    ASSUME PersistInv, NEW t \in Threads, NEW o \in Owners,
           \/ WriteFlushed(t, o) \/ WriteAcknowledged(t, o) \/ WriteAcknowledgedLarge(t, o)
           \/ WriteFileAcknowledged(t, o) \/ RunAndPersist(t, o)
    PROVE  PersistInv'
<1>1. /\ MaxCommit \in Nat /\ next_commit_seq \in 1 .. MaxCommit + 1
      /\ calls \in [Threads -> Call] /\ calls[t] \in Call
      /\ EffectiveNext \in Nat
  BY ZenonT(60), Facts
<1>2. CommitLocally(o) /\ UNCHANGED <<persist, gate, disk, promised>> /\ At(t, "idle")
  BY ZenonT(60) DEF WriteFlushed, WriteAcknowledged, WriteAcknowledgedLarge, WriteFileAcknowledged,
         RunAndPersist
<1>3. next_commit_seq \in Seqs /\ next_commit_seq < next_commit_seq + 1
      /\ next_commit_seq + 1 \in Nat /\ next_commit_seq \in Nat
  BY <1>1, <1>2 DEF CommitLocally, Seqs
<1>4. calls[t].pc \notin Runner
  BY ZenonT(60), <1>2 DEF At, Runner
<1>5. pending_block_deltas \cup pending_native_file_deltas \cup prestaging \subseteq Seqs
  BY ZenonT(60) DEF PersistInv, PTypeOK
<1>6. pending_block_deltas' \cup pending_native_file_deltas' \cup prestaging' \subseteq Seqs
  BY ZenonT(60), <1>3, <1>5 DEF WriteFlushed, WriteAcknowledged, WriteAcknowledgedLarge,
                    WriteFileAcknowledged, RunAndPersist, deltas
<1>7. CASE WriteFlushed(t, o)
  <2> DEFINE r == NewCall("record", IF o \in Devices THEN "block" ELSE "native", next_commit_seq)
  <2>1. calls' = [calls EXCEPT ![t] = r]
    BY ZenonT(60), <1>7 DEF WriteFlushed
  <2>2. Fits(r, next_commit_seq + 1, persist.durable_through, EffectiveNext) /\ r.pc \notin Runner
    <3>1. CASE o \in Devices
      <4>1. r = NewCall("record", "block", next_commit_seq)
        BY ZenonT(60), <3>1
      <4> QED
        BY ZenonT(60), <1>3, <4>1, NewFits
    <3>2. CASE o \notin Devices
      <4>1. r = NewCall("record", "native", next_commit_seq)
        BY ZenonT(60), <3>2
      <4> QED
        BY ZenonT(60), <1>3, <4>1, NewFits
    <3> QED
      BY ZenonT(60), <3>1, <3>2
  <2> HIDE DEF r
  <2> QED
    BY <1>2, <1>4, <1>6, <2>1, <2>2, CommitStep, Zenon
<1>8. CASE WriteAcknowledged(t, o)
  <2>1. calls' = [calls EXCEPT ![t] = NewCall("prestage", "block", next_commit_seq)]
    BY ZenonT(60), <1>8 DEF WriteAcknowledged
  <2>2. /\ Fits(NewCall("prestage", "block", next_commit_seq), next_commit_seq + 1,
                persist.durable_through, EffectiveNext)
        /\ NewCall("prestage", "block", next_commit_seq).pc \notin Runner
    BY ZenonT(60), <1>3, NewFits
  <2> QED
    BY <1>2, <1>4, <1>6, <2>1, <2>2, CommitStep, Zenon
<1>9. CASE WriteAcknowledgedLarge(t, o)
  <2>1. calls' = [calls EXCEPT ![t] = NewCall("stage", "block", next_commit_seq)]
    BY ZenonT(60), <1>9 DEF WriteAcknowledgedLarge
  <2>2. /\ Fits(NewCall("stage", "block", next_commit_seq), next_commit_seq + 1,
                persist.durable_through, EffectiveNext)
        /\ NewCall("stage", "block", next_commit_seq).pc \notin Runner
    BY ZenonT(60), <1>3, NewFits
  <2> QED
    BY <1>2, <1>4, <1>6, <2>1, <2>2, CommitStep, Zenon
<1>10. CASE WriteFileAcknowledged(t, o)
  <2>1. calls' = [calls EXCEPT ![t] = calls[t]]
    BY ZenonT(60), <1>1, <1>10 DEF WriteFileAcknowledged
  <2>2. Fits(calls[t], next_commit_seq + 1, persist.durable_through, EffectiveNext)
    <3>1. Fits(calls[t], next_commit_seq, persist.durable_through, EffectiveNext)
      BY Facts
    <3> QED
      BY <1>1, <1>3, <3>1, FitsMono
  <2> QED
    BY <1>2, <1>6, <2>1, <2>2, CommitStep, Zenon
<1>11. CASE RunAndPersist(t, o)
  <2>1. calls' = [calls EXCEPT ![t] = NewCall("enter", "now", next_commit_seq)]
    BY ZenonT(60), <1>11 DEF RunAndPersist
  <2>2. /\ Fits(NewCall("enter", "now", next_commit_seq), next_commit_seq + 1,
                persist.durable_through, EffectiveNext)
        /\ NewCall("enter", "now", next_commit_seq).pc \notin Runner
    BY ZenonT(60), <1>3, NewFits
  <2> QED
    BY <1>2, <1>4, <1>6, <2>1, <2>2, CommitStep, Zenon
<1> QED
  BY ZenonT(60), <1>7, <1>8, <1>9, <1>10, <1>11

-----------------------------------------------------------------------------
(* Steps that write nothing.                                                 *)

\* The latest commit of an owner has been committed.
LEMMA LatestIs ==
    ASSUME PersistInv, NEW o
    PROVE  Latest(o) \in Seqs /\ Latest(o) < next_commit_seq
<1> DEFINE S == {c.seq : c \in {b \in commits : b.owner = o}}
<1>1. MaxCommit \in Nat /\ next_commit_seq \in 1 .. MaxCommit + 1
  BY ZenonT(60), Facts
<1>2. commits \subseteq [seq: 1 .. next_commit_seq - 1, owner: Owners]
  BY DEF PersistInv, PTypeOK
<1>3. \A s \in S : s \in 1 .. next_commit_seq - 1
  BY ZenonT(60), <1>2
<1>4. S \in SUBSET Seqs
  BY <1>1, <1>3 DEF Seqs
<1>5. Latest(o) = Highest(S)
  BY DEF Latest
<1> HIDE DEF S
<1>6. Highest(S) \in Seqs /\ (S # {} => Highest(S) \in S) /\ (S = {} => Highest(S) = 0)
  BY <1>4, HighestIs
<1> QED
  BY <1>1, <1>3, <1>5, <1>6

\* A call that moves on keeps fitting.
LEMMA MoveFits ==
    ASSUME NEW c, NEW next, NEW durable, NEW end, Fits(c, next, durable, end),
           NEW pc \in {"prestage", "enter", "await", "gate", "write", "failed"},
           c.selected # {} => pc \in {"gate", "write", "failed"},
           c.kind = "now" => pc # "await",
           c.kind = "now" /\ pc \in {"enter", "gate", "write"} => c.through = 0 /\ c.selected = {}
    PROVE  /\ Fits([c EXCEPT !.pc = pc], next, durable, end) /\ [c EXCEPT !.pc = pc].pc = pc
           /\ Fits([c EXCEPT !.pc = pc, !.moved = FALSE], next, durable, end)
           /\ [c EXCEPT !.pc = pc, !.moved = FALSE].pc = pc
<1> DEFINE d == [c EXCEPT !.pc = pc]
           e == [c EXCEPT !.pc = pc, !.moved = FALSE]
<1>1. c \in Call
  BY ZenonT(60) DEF Fits
<1>2. /\ d \in Call /\ d.pc = pc /\ d.kind = c.kind /\ d.required = c.required
      /\ d.through = c.through /\ d.selected = c.selected
  BY ZenonT(60), <1>1 DEF Call
<1>3. /\ e \in Call /\ e.pc = pc /\ e.kind = c.kind /\ e.required = c.required
      /\ e.through = c.through /\ e.selected = c.selected
  BY <1>1, Zenon DEF Call
<1> HIDE DEF d, e
<1>4. Fits(d, next, durable, end) /\ Fits(e, next, durable, end)
  BY <1>2, <1>3 DEF Fits
<1> QED
  BY ZenonT(60), <1>2, <1>3, <1>4 DEF d, e

\* record_pending_block_delta and the prestaging of an acknowledged batch.
LEMMA Prestaging ==
    ASSUME PersistInv, NEW t \in Threads, RecordDelta(t) \/ StageDelta(t) \/ FinishPrestage(t)
    PROVE  PersistInv'
<1> DEFINE c == calls[t]
           req == calls[t].required
<1>1. /\ calls \in [Threads -> Call] /\ c \in Call /\ req \in Seqs
      /\ next_commit_seq \in Nat /\ 0 < next_commit_seq
      /\ Fits(c, next_commit_seq, persist.durable_through, EffectiveNext)
  BY Facts DEF Call
<1>2. /\ UNCHANGED <<memory, persist, disk>> /\ gate' = gate /\ promised' = promised
      /\ c.pc \in {"record", "stage", "prestage"}
  BY ZenonT(60) DEF RecordDelta, StageDelta, FinishPrestage, At
<1>3. pending_block_deltas \cup pending_native_file_deltas \cup prestaging \subseteq Seqs
  BY DEF PersistInv, PTypeOK
<1>4. pending_block_deltas' \cup pending_native_file_deltas' \cup prestaging' \subseteq Seqs
  <2>1. CASE RecordDelta(t)
    BY ZenonT(60), <1>1, <1>3, <2>1 DEF RecordDelta
  <2>2. CASE StageDelta(t)
    BY ZenonT(60), <1>1, <1>3, <2>2 DEF StageDelta
  <2>3. CASE FinishPrestage(t)
    BY ZenonT(60), <1>3, <2>3 DEF FinishPrestage
  <2> QED
    BY ZenonT(60), <2>1, <2>2, <2>3
<1>5. /\ gate' \in [writer: BOOLEAN, readers: SUBSET Threads]
      /\ promised' \in Seqs /\ promised' < EffectiveNext
  BY ZenonT(60), <1>2 DEF PersistInv, PTypeOK
<1>6. c.selected = {} /\ c.pc \notin Runner
  BY ZenonT(60), <1>1, <1>2 DEF Fits, Runner
<1>7. CASE RecordDelta(t)
  <2> DEFINE r == [c EXCEPT !.pc = "enter"]
  <2>1. calls' = [calls EXCEPT ![t] = r] /\ c.pc = "record"
    BY ZenonT(60), <1>1, <1>7 DEF RecordDelta, Goto, At
  <2>2. c.kind # "now"
    BY ZenonT(60), <1>1, <2>1 DEF Fits
  <2>3. Fits(r, next_commit_seq, persist.durable_through, EffectiveNext) /\ r.pc = "enter"
    BY <1>1, <1>6, <2>2, MoveFits, ZenonT(30)
  <2> HIDE DEF r
  <2>4. r.pc \notin Runner
    BY <2>3 DEF Runner
  <2> QED
    BY <1>2, <1>4, <1>5, <1>6, <2>1, <2>3, <2>4, PlainStep, Zenon
<1>8. CASE StageDelta(t)
  <2> DEFINE r == [c EXCEPT !.pc = "prestage"]
  <2>1. calls' = [calls EXCEPT ![t] = r]
    BY <1>1, <1>8 DEF StageDelta, Goto
  <2>2. Fits(r, next_commit_seq, persist.durable_through, EffectiveNext) /\ r.pc = "prestage"
    <3>1. /\ Fits(c, next_commit_seq, persist.durable_through, EffectiveNext)
          /\ c.selected = {}
      BY <1>1, <1>6
    <3> HIDE DEF c
    <3>2. "prestage" \in {"prestage", "enter", "await", "gate", "write", "failed"}
          /\ "prestage" # "await" /\ "prestage" \notin {"enter", "gate", "write"}
      OBVIOUS
    <3> QED
      BY <3>1, <3>2, MoveFits, ZenonT(30)
  <2> HIDE DEF r
  <2>3. r.pc \notin Runner
    BY <2>2 DEF Runner
  <2> QED
    BY <1>2, <1>4, <1>5, <1>6, <2>1, <2>2, <2>3, PlainStep, Zenon
<1>9. CASE FinishPrestage(t)
  <2>1. calls' = [calls EXCEPT ![t] = Idle]
    BY ZenonT(60), <1>9 DEF FinishPrestage
  <2>2. Fits(Idle, next_commit_seq, persist.durable_through, EffectiveNext) /\ Idle.pc \notin Runner
    BY ZenonT(60), <1>1, IdleFits
  <2> QED
    BY <1>2, <1>4, <1>5, <1>6, <2>1, <2>2, PlainStep, Zenon
<1> QED
  BY ZenonT(60), <1>7, <1>8, <1>9

\* The calls that begin without a commit: flushes and the custodian.
LEMMA Starts ==
    ASSUME PersistInv, NEW t \in Threads,
           \/ \E o \in Owners, kind \in {"block", "full"} : Flush(t, o, kind)
           \/ StartCustodian(t)
    PROVE  PersistInv'
<1>1. /\ MaxCommit \in Nat /\ next_commit_seq \in 1 .. MaxCommit + 1 /\ next_commit_seq \in Nat
      /\ 0 < next_commit_seq
  BY Facts
<1>2. /\ UNCHANGED <<memory, persist, disk, deltas>> /\ gate' = gate /\ promised' = promised
      /\ calls[t].pc = "idle"
  BY ZenonT(60) DEF Flush, StartCustodian, At
<1>3. /\ pending_block_deltas' \cup pending_native_file_deltas' \cup prestaging' \subseteq Seqs
      /\ gate' \in [writer: BOOLEAN, readers: SUBSET Threads]
      /\ promised' \in Seqs /\ promised' < EffectiveNext
      /\ calls[t].pc \notin Runner
  BY ZenonT(60), <1>2 DEF PersistInv, PTypeOK, deltas, Runner
<1>4. ASSUME NEW o \in Owners, NEW kind \in {"block", "full"}, Flush(t, o, kind)
      PROVE  PersistInv'
  <2> DEFINE r == NewCall("enter", kind, Latest(o))
  <2>1. calls' = [calls EXCEPT ![t] = r]
    BY ZenonT(60), <1>4 DEF Flush
  <2>2. Latest(o) \in Seqs /\ Latest(o) < next_commit_seq
    BY ZenonT(60), LatestIs
  <2>3. Fits(r, next_commit_seq, persist.durable_through, EffectiveNext) /\ r.pc \notin Runner
    BY ZenonT(60), <1>1, <2>2, NewFits
  <2> HIDE DEF r
  <2> QED
    BY <1>2, <1>3, <2>1, <2>3, PlainStep, Zenon
<1>5. CASE StartCustodian(t)
  <2> DEFINE f == NewCall("enter", "now", next_commit_seq - 1)
             r == [f EXCEPT !.then = "sweep"]
             s == [Idle EXCEPT !.pc = "sweep"]
  <2>1. PICK q \in {r, s} : calls' = [calls EXCEPT ![t] = q]
    BY <1>5, Zenon DEF StartCustodian
  <2>2. next_commit_seq - 1 \in Seqs /\ next_commit_seq - 1 < next_commit_seq
    BY <1>1 DEF Seqs
  <2>3. Fits(f, next_commit_seq, persist.durable_through, EffectiveNext)
    BY ZenonT(60), <1>1, <2>2, NewFits
  <2>4. f \in Call /\ f.pc = "enter"
    BY ZenonT(60), <2>3 DEF Fits, NewCall
  <2> HIDE DEF f
  <2>5. /\ r \in Call /\ r.pc = "enter" /\ r.kind = f.kind /\ r.required = f.required
        /\ r.through = f.through /\ r.selected = f.selected
    BY ZenonT(60), <2>4 DEF Call
  <2> HIDE DEF r
  <2>6. Fits(r, next_commit_seq, persist.durable_through, EffectiveNext)
    BY ZenonT(60), <2>3, <2>4, <2>5 DEF Fits
  <2>7. Fits(s, next_commit_seq, persist.durable_through, EffectiveNext)
    BY ZenonT(60), <1>1, IdleFits
  <2>8. s.pc = "sweep"
    BY ZenonT(60) DEF Idle, NewCall
  <2> HIDE DEF s
  <2>9. Fits(q, next_commit_seq, persist.durable_through, EffectiveNext) /\ q.pc \notin Runner
    BY ZenonT(60), <2>5, <2>6, <2>7, <2>8 DEF Runner
  <2> QED
    BY <1>2, <1>3, <2>1, <2>9, PlainStep, Zenon
<1> QED
  BY ZenonT(60), <1>4, <1>5

\* A step that only touches the coordinator, the gate and what callers were told.
LEMMA AskStep ==
    ASSUME PersistInv, NEW t \in Threads, NEW r, calls' = [calls EXCEPT ![t] = r],
           UNCHANGED <<memory, deltas, disk>>,
           persist' \in [in_flight: BOOLEAN, requested_through: Seqs, durable_through: Seqs,
                         failed: BOOLEAN],
           persist'.durable_through = persist.durable_through,
           persist'.durable_through <= persist'.requested_through,
           persist'.requested_through < next_commit_seq,
           gate' \in [writer: BOOLEAN, readers: SUBSET Threads],
           promised' \in Seqs, promised' < EffectiveNext,
           Fits(r, next_commit_seq, persist.durable_through, EffectiveNext), OneRunner'
    PROVE  PersistInv'
<1>1. /\ next_commit_seq' = next_commit_seq /\ commits' = commits /\ replay_from' = replay_from
      /\ pending_block_deltas' = pending_block_deltas /\ prestaging' = prestaging
      /\ pending_native_file_deltas' = pending_native_file_deltas /\ disk' = disk
  BY ZenonT(60) DEF memory, deltas
<1>2. EffectiveNext' = EffectiveNext
  BY <1>1 DEF EffectiveNext, Journaled
<1>3. OnDisk(disk', next_commit_seq', EffectiveNext')
  BY <1>1, <1>2, Zenon DEF PersistInv
<1>4. /\ next_commit_seq' \in 1 .. MaxCommit + 1 /\ next_commit_seq <= next_commit_seq'
      /\ EffectiveNext' \in Nat /\ EffectiveNext <= EffectiveNext'
      /\ persist'.requested_through < next_commit_seq'
  BY SMTT(60), <1>1, <1>2, Facts
<1>5. /\ commits' \subseteq [seq: 1 .. next_commit_seq' - 1, owner: Owners]
      /\ replay_from' \in [Owners -> 0 .. NoCheckpoint]
      /\ pending_block_deltas' \cup pending_native_file_deltas' \cup prestaging' \subseteq Seqs
  BY ZenonT(60), <1>1 DEF PersistInv, PTypeOK
<1>6. /\ promised' < EffectiveNext'
      /\ Fits(r, next_commit_seq', persist.durable_through, EffectiveNext')
  BY ZenonT(60), <1>1, <1>2
<1> QED
  BY <1>3, <1>4, <1>5, <1>6, StepInv, ZenonT(30)

\* A call that goes on after its persist fits.
LEMMA ContinuedFits ==
    ASSUME PersistInv, NEW t \in Threads, NEW next \in Nat, 0 < next, NEW durable, NEW end
    PROVE  Fits(Continued(t), next, durable, end) /\ Continued(t).pc \notin Runner
<1>1. calls[t] \in Call
  BY Facts
<1>2. Fits(Idle, next, durable, end) /\ Idle.pc \notin Runner
  BY IdleFits
<1>3. CASE calls[t].then = "idle"
  <2>1. Continued(t) = Idle
    BY ZenonT(60), <1>3 DEF Continued
  <2> QED
    BY ZenonT(60), <1>2, <2>1
<1>4. CASE calls[t].then # "idle"
  <2> DEFINE p == calls[t].then
             s == [Idle EXCEPT !.pc = p]
  <2>1. p \in {"sweep", "batch"}
    BY ZenonT(60), <1>1, <1>4 DEF Call
  <2>2. Continued(t) = s
    BY ZenonT(60), <1>4 DEF Continued
  <2>3. Idle \in Call
    BY ZenonT(60), <1>2 DEF Fits
  <2> HIDE DEF p
  <2>4. /\ s \in Call /\ s.pc = p /\ s.required = Idle.required
        /\ s.through = Idle.through /\ s.selected = Idle.selected
    BY ZenonT(60), <2>1, <2>3 DEF Call
  <2>5. Idle.required = 0 /\ Idle.through = 0 /\ Idle.selected = {}
    BY ZenonT(60) DEF Idle, NewCall
  <2> HIDE DEF s
  <2>6. Fits(s, next, durable, end) /\ s.pc \notin Runner
    BY ZenonT(60), <2>1, <2>4, <2>5 DEF Fits, Runner
  <2> QED
    BY ZenonT(60), <2>2, <2>6
<1> QED
  BY ZenonT(60), <1>3, <1>4

\* A caller is told no more than a reopen recovers.
LEMMA PromiseIs ==
    ASSUME PersistInv, NEW t \in Threads, Promise(t), NEW end \in Nat,
           promised < end, calls[t].required < end
    PROVE  promised' \in Seqs /\ promised' < end
<1>1. calls[t] \in Call
  BY ZenonT(60), Facts
<1>2. promised \in Seqs /\ calls[t].required \in Seqs
  BY ZenonT(60), <1>1 DEF PersistInv, PTypeOK, Call
<1>3. promised' \in {promised, calls[t].required}
  BY DEF Promise, Larger
<1> QED
  BY ZenonT(60), <1>2, <1>3

\* The waiting half of persist_*_until.
LEMMA AwaitInv ==
    ASSUME PersistInv, NEW t \in Threads, Await(t)
    PROVE  PersistInv'
<1> DEFINE c == calls[t]
           on == [c EXCEPT !.pc = "enter", !.moved = FALSE]
<1>1. /\ calls \in [Threads -> Call] /\ c.required \in Nat
      /\ next_commit_seq \in Nat /\ 0 < next_commit_seq /\ EffectiveNext \in Nat
      /\ persist.durable_through \in Nat
      /\ Fits(c, next_commit_seq, persist.durable_through, EffectiveNext)
  BY Facts
<1>2. /\ UNCHANGED <<memory, persist, disk>> /\ UNCHANGED deltas /\ gate' = gate /\ c.pc = "await"
  BY ZenonT(60) DEF Await, At
<1>3. /\ pending_block_deltas' \cup pending_native_file_deltas' \cup prestaging' \subseteq Seqs
      /\ gate' \in [writer: BOOLEAN, readers: SUBSET Threads]
      /\ promised \in Seqs /\ promised < EffectiveNext
      /\ c.pc \notin Runner
  BY <1>2 DEF PersistInv, PTypeOK, deltas, Runner
<1>4. CASE persist.durable_through >= c.required
  <2>1. calls' = [calls EXCEPT ![t] = Continued(t)] /\ Promise(t)
    BY ZenonT(60), <1>4 DEF Await, Advance
  <2>2. c.required < EffectiveNext
    BY <1>1, <1>4 DEF PersistInv
  <2>3. promised' \in Seqs /\ promised' < EffectiveNext
    BY ZenonT(60), <1>1, <1>3, <2>1, <2>2, PromiseIs
  <2>4. Fits(Continued(t), next_commit_seq, persist.durable_through, EffectiveNext)
        /\ Continued(t).pc \notin Runner
    BY ZenonT(60), <1>1, ContinuedFits
  <2> QED
    BY <1>2, <1>3, <2>1, <2>3, <2>4, PlainStep, Zenon
<1>5. CASE ~ (persist.durable_through >= c.required)
  <2>1. PICK r \in {Idle, on} : calls' = [calls EXCEPT ![t] = r]
    BY ZenonT(60), <1>5 DEF Await, Advance
  <2>2. promised' = promised
    BY ZenonT(60), <1>5 DEF Await
  <2>3. c.kind # "now" /\ c.selected = {}
    BY ZenonT(60), <1>1, <1>2 DEF Fits
  <2>4. Fits(on, next_commit_seq, persist.durable_through, EffectiveNext) /\ on.pc = "enter"
    <3> HIDE DEF c
    <3> QED
      BY <1>1, <2>3, MoveFits, ZenonT(30)
  <2>5. Fits(Idle, next_commit_seq, persist.durable_through, EffectiveNext) /\ Idle.pc \notin Runner
    BY <1>1, IdleFits
  <2> HIDE DEF on
  <2>6. Fits(r, next_commit_seq, persist.durable_through, EffectiveNext) /\ r.pc \notin Runner
    BY <2>4, <2>5 DEF Runner
  <2> QED
    BY <1>2, <1>3, <2>1, <2>2, <2>6, PlainStep, Zenon
<1> QED
  BY ZenonT(60), <1>4, <1>5

\* persist_now.
LEMMA EnterNowInv ==
    ASSUME PersistInv, NEW t \in Threads, EnterNow(t)
    PROVE  PersistInv'
<1> DEFINE c == calls[t]
           r == [c EXCEPT !.pc = "gate"]
<1>1. /\ calls \in [Threads -> Call]
      /\ Fits(c, next_commit_seq, persist.durable_through, EffectiveNext)
  BY ZenonT(60), Facts
<1>2. /\ UNCHANGED <<memory, deltas, disk>> /\ gate' = gate /\ promised' = promised
      /\ c.pc = "enter" /\ c.kind = "now" /\ ~ persist.in_flight
      /\ persist' = [persist EXCEPT !.in_flight = TRUE]
      /\ calls' = [calls EXCEPT ![t] = r]
  BY ZenonT(60), <1>1 DEF EnterNow, At, Goto
<1>3. /\ persist \in [in_flight: BOOLEAN, requested_through: Seqs, durable_through: Seqs,
                      failed: BOOLEAN]
      /\ persist.durable_through <= persist.requested_through
      /\ persist.requested_through < next_commit_seq
      /\ gate' \in [writer: BOOLEAN, readers: SUBSET Threads]
      /\ promised' \in Seqs /\ promised' < EffectiveNext
  BY ZenonT(60), <1>2 DEF PersistInv, PTypeOK
<1>4. /\ persist' \in [in_flight: BOOLEAN, requested_through: Seqs, durable_through: Seqs,
                      failed: BOOLEAN]
      /\ persist'.durable_through = persist.durable_through
      /\ persist'.requested_through = persist.requested_through
      /\ persist'.in_flight
  BY <1>2, <1>3, Zenon
<1>5. c.through = 0 /\ c.selected = {}
  BY ZenonT(60), <1>1, <1>2 DEF Fits
<1>6. Fits(r, next_commit_seq, persist.durable_through, EffectiveNext) /\ r.pc = "gate"
  <2> HIDE DEF c
  <2> QED
    BY <1>1, <1>5, MoveFits, ZenonT(30)
<1> HIDE DEF r
<1>7. r.pc \in Runner
  BY <1>6 DEF Runner
<1>8. OneRunner'
  BY <1>2, <1>4, <1>7, RunnerStarts, Zenon
<1> QED
  BY <1>2, <1>3, <1>4, <1>6, <1>8, AskStep, Zenon

\* The loop head of persist_*_until.
LEMMA EnterUntilInv ==
    ASSUME PersistInv, NEW t \in Threads, EnterUntil(t)
    PROVE  PersistInv'
<1> DEFINE c == calls[t]
           requested == Larger(persist.requested_through, c.required)
           wait == [c EXCEPT !.pc = "await", !.moved = FALSE]
           p == IF c.kind = "full" THEN "gate" ELSE "select"
           running == [c EXCEPT !.through = requested, !.pc = p]
           Asked == [in_flight: BOOLEAN, requested_through: Seqs, durable_through: Seqs,
                     failed: BOOLEAN]
<1>1. /\ calls \in [Threads -> Call] /\ c \in Call /\ c.required \in Nat /\ c.required \in Seqs
      /\ next_commit_seq \in Nat /\ 0 < next_commit_seq /\ EffectiveNext \in Nat
      /\ persist.durable_through \in Nat /\ persist.requested_through \in Nat
      /\ Fits(c, next_commit_seq, persist.durable_through, EffectiveNext)
  BY Facts DEF Call
<1>2. /\ UNCHANGED <<memory, deltas, disk>> /\ gate' = gate
      /\ c.pc = "enter" /\ c.kind \in {"block", "native", "full"}
  BY ZenonT(60) DEF EnterUntil, At
<1>3. /\ persist \in Asked /\ persist.requested_through \in Seqs
      /\ persist.durable_through <= persist.requested_through
      /\ persist.requested_through < next_commit_seq
      /\ gate' \in [writer: BOOLEAN, readers: SUBSET Threads]
      /\ promised \in Seqs /\ promised < EffectiveNext
      /\ c.pc \notin Runner
  BY ZenonT(60), <1>2 DEF PersistInv, PTypeOK, Runner
<1>4. c.required < next_commit_seq /\ c.selected = {} /\ c.kind # "now"
  BY ZenonT(60), <1>1, <1>2 DEF Fits
<1>5. requested \in Seqs /\ requested < next_commit_seq /\ persist.requested_through <= requested
  BY <1>1, <1>3, <1>4 DEF Larger
<1>6. CASE persist.durable_through >= c.required
  <2>1. /\ persist' = [persist EXCEPT !.requested_through = requested]
        /\ calls' = [calls EXCEPT ![t] = Continued(t)] /\ Promise(t)
    BY ZenonT(60), <1>6 DEF EnterUntil, Advance
  <2> HIDE DEF requested
  <2>2. /\ persist' \in Asked /\ persist'.durable_through = persist.durable_through
        /\ persist'.requested_through = requested /\ persist'.in_flight = persist.in_flight
    BY ZenonT(60), <1>3, <1>5, <2>1
  <2>3. c.required < EffectiveNext
    BY <1>1, <1>6 DEF PersistInv
  <2>4. promised' \in Seqs /\ promised' < EffectiveNext
    BY ZenonT(60), <1>1, <1>3, <2>1, <2>3, PromiseIs
  <2>5. Fits(Continued(t), next_commit_seq, persist.durable_through, EffectiveNext)
        /\ Continued(t).pc \notin Runner
    BY ZenonT(60), <1>1, ContinuedFits
  <2>6. OneRunner'
    BY <1>3, <2>1, <2>2, <2>5, RunnerKept, Zenon
  <2>7. persist'.durable_through <= persist'.requested_through
        /\ persist'.requested_through < next_commit_seq
    <3>1. requested \in Nat
      BY <1>5, PersistAssumption DEF Seqs
    <3> QED
      BY <1>1, <1>3, <1>5, <2>2, <3>1
  <2> QED
    BY <1>2, <1>3, <2>1, <2>2, <2>4, <2>5, <2>6, <2>7, AskStep, Zenon
<1>7. CASE ~ (persist.durable_through >= c.required)
  <2>1. /\ persist' = [persist EXCEPT !.requested_through = requested, !.in_flight = TRUE]
        /\ calls' = [calls EXCEPT ![t] = IF persist.in_flight THEN wait ELSE running]
        /\ promised' = promised
    BY <1>7 DEF EnterUntil, Advance
  <2> HIDE DEF requested
  <2>2. /\ persist' \in Asked /\ persist'.durable_through = persist.durable_through
        /\ persist'.requested_through = requested /\ persist'.in_flight = TRUE
    BY <1>3, <1>5, <2>1, Zenon
  <2>3. persist'.durable_through <= persist'.requested_through
        /\ persist'.requested_through < next_commit_seq
    <3>1. requested \in Nat
      BY <1>5, PersistAssumption DEF Seqs
    <3> QED
      BY <1>1, <1>3, <1>5, <2>2, <3>1
  <2>4. CASE persist.in_flight
    <3>1. calls' = [calls EXCEPT ![t] = wait]
      BY <2>1, <2>4
    <3>2. Fits(wait, next_commit_seq, persist.durable_through, EffectiveNext) /\ wait.pc = "await"
      <4> HIDE DEF c
      <4> QED
        BY <1>1, <1>4, MoveFits, ZenonT(30)
    <3> HIDE DEF wait
    <3>3. wait.pc \notin Runner
      BY <3>2 DEF Runner
    <3>4. persist'.in_flight = persist.in_flight
      BY <1>3, <2>2, <2>4, Zenon
    <3>5. OneRunner'
      BY <1>3, <3>1, <3>3, <3>4, RunnerKept, Zenon
    <3> QED
      BY <1>2, <1>3, <2>1, <2>2, <2>3, <3>1, <3>2, <3>5, AskStep, ZenonT(30)
  <2>5. CASE ~ persist.in_flight
    <3>1. calls' = [calls EXCEPT ![t] = running]
      BY <2>1, <2>5
    <3>2. p \in {"gate", "select"}
      OBVIOUS
    <3> HIDE DEF p
    <3>3. /\ running \in Call /\ running.pc = p /\ running.kind = c.kind
          /\ running.required = c.required /\ running.through = requested
          /\ running.selected = c.selected
      <4> HIDE DEF c
      <4> QED
        BY <1>1, <1>5, <3>2, Zenon DEF Call
    <3> HIDE DEF running
    <3>4. Fits(running, next_commit_seq, persist.durable_through, EffectiveNext)
      BY ZenonT(60), <1>4, <1>5, <3>2, <3>3 DEF Fits
    <3>5. running.pc \in Runner
      BY ZenonT(60), <3>2, <3>3 DEF Runner
    <3>6. OneRunner'
      BY <2>2, <2>5, <3>1, <3>5, RunnerStarts, ZenonT(30)
    <3> QED
      BY <1>2, <1>3, <2>1, <2>2, <2>3, <3>1, <3>4, <3>6, AskStep, ZenonT(30)
  <2> QED
    BY ZenonT(60), <2>4, <2>5
<1> QED
  BY ZenonT(60), <1>6, <1>7

\* The choice of the deltas.
LEMMA SelectInv ==
    ASSUME PersistInv, NEW t \in Threads, SelectDeltas(t)
    PROVE  PersistInv'
<1> DEFINE c == calls[t]
           d == persist.durable_through
           target == Larger(persist.requested_through, c.through)
           pending == IF c.kind = "block" THEN pending_block_deltas
                      ELSE pending_native_file_deltas
           run == (d + 1 .. target) \cap pending
           sel == IF Contiguous(pending, d, target) THEN run ELSE {}
           done == [c EXCEPT !.pc = "finish", !.through = d]
           go == [c EXCEPT !.pc = "gate", !.through = target, !.selected = sel]
<1>1. /\ MaxCommit \in Nat /\ calls \in [Threads -> Call] /\ c \in Call /\ c.through \in Nat
      /\ next_commit_seq \in 1 .. MaxCommit + 1 /\ d \in Nat /\ persist.requested_through \in Nat
      /\ EffectiveNext \in Nat
      /\ Fits(c, next_commit_seq, d, EffectiveNext)
  BY ZenonT(60), Facts
<1>2. /\ UNCHANGED <<memory, persist, disk>> /\ UNCHANGED deltas
      /\ gate' = gate /\ promised' = promised /\ c.pc = "select"
  BY ZenonT(60) DEF SelectDeltas, At
<1>3. /\ pending_block_deltas' \cup pending_native_file_deltas' \cup prestaging' \subseteq Seqs
      /\ gate' \in [writer: BOOLEAN, readers: SUBSET Threads]
      /\ promised' \in Seqs /\ promised' < EffectiveNext
      /\ d < EffectiveNext /\ d \in Seqs /\ d < next_commit_seq
      /\ persist.requested_through < next_commit_seq
      /\ c.pc \in Runner
  BY SMTT(60), <1>1, <1>2 DEF PersistInv, PTypeOK, deltas, Runner
<1>4. c.through < next_commit_seq /\ c.required < next_commit_seq /\ c.kind # "now"
      /\ c.selected = {}
  BY ZenonT(60), <1>1, <1>2 DEF Fits
<1>5. target \in Seqs /\ target \in Nat /\ target < next_commit_seq
  BY <1>1, <1>3, <1>4 DEF Larger, Seqs
<1>6. sel \in SUBSET Seqs /\ (sel # {} => sel = d + 1 .. target)
  <2> HIDE DEF target, pending
  <2>1. CASE Contiguous(pending, d, target)
    <3>1. sel = d + 1 .. target
      BY ZenonT(60), <2>1 DEF Contiguous
    <3>2. d + 1 .. target \subseteq Seqs
      BY <1>1, <1>5 DEF Seqs
    <3> QED
      BY ZenonT(60), <3>1, <3>2
  <2>2. CASE ~ Contiguous(pending, d, target)
    BY <2>2
  <2> QED
    BY ZenonT(60), <2>1, <2>2
<1>7. CASE d >= target
  <2>1. calls' = [calls EXCEPT ![t] = done]
    BY ZenonT(60), <1>7 DEF SelectDeltas, Advance
  <2>2. /\ done \in Call /\ done.pc = "finish" /\ done.kind = c.kind /\ done.required = c.required
        /\ done.through = d /\ done.selected = c.selected
    <3> HIDE DEF c, d
    <3> QED
      BY <1>1, <1>3, Zenon DEF Call
  <2> HIDE DEF done
  <2>3. Fits(done, next_commit_seq, d, EffectiveNext) /\ done.pc \in Runner
    BY ZenonT(60), <1>3, <1>4, <2>2 DEF Fits, Runner
  <2> QED
    BY <1>2, <1>3, <2>1, <2>3, PlainStep, Zenon
<1>8. CASE ~ (d >= target)
  <2>1. calls' = [calls EXCEPT ![t] = go]
    BY ZenonT(60), <1>8 DEF SelectDeltas, Advance
  <2>2. /\ go \in Call /\ go.pc = "gate" /\ go.kind = c.kind /\ go.required = c.required
        /\ go.through = target /\ go.selected = sel
    <3> HIDE DEF c, target, sel
    <3> QED
      BY <1>1, <1>5, <1>6, Zenon DEF Call
  <2> HIDE DEF go, sel, target
  <2>3. Fits(go, next_commit_seq, d, EffectiveNext) /\ go.pc \in Runner
    BY ZenonT(60), <1>4, <1>5, <1>6, <2>2 DEF Fits, Runner
  <2> QED
    BY <1>2, <1>3, <2>1, <2>3, PlainStep, Zenon
<1> QED
  BY ZenonT(60), <1>7, <1>8

\* The gate, and a write that fails.
LEMMA GateInv ==
    ASSUME PersistInv, NEW t \in Threads, TakeGate(t) \/ WriteFails(t)
    PROVE  PersistInv'
<1> DEFINE c == calls[t]
<1>1. /\ calls \in [Threads -> Call]
      /\ Fits(c, next_commit_seq, persist.durable_through, EffectiveNext)
  BY ZenonT(60), Facts
<1>2. /\ UNCHANGED <<memory, persist, disk>> /\ UNCHANGED deltas
      /\ promised' = promised /\ c.pc \in {"gate", "write"}
  BY DEF TakeGate, WriteFails, At
<1>3. gate' \in [writer: BOOLEAN, readers: SUBSET Threads]
  <2>1. gate \in [writer: BOOLEAN, readers: SUBSET Threads]
    BY ZenonT(60) DEF PersistInv, PTypeOK
  <2> QED
    BY <2>1, Zenon DEF TakeGate, WriteFails, ReleaseGate
<1>4. /\ pending_block_deltas' \cup pending_native_file_deltas' \cup prestaging' \subseteq Seqs
      /\ promised' \in Seqs /\ promised' < EffectiveNext
      /\ c.pc \in Runner
  BY ZenonT(60), <1>2 DEF PersistInv, PTypeOK, deltas, Runner
<1>5. PICK pc \in {"write", "failed"} : calls' = [calls EXCEPT ![t] = [c EXCEPT !.pc = pc]]
  BY ZenonT(60), <1>1 DEF TakeGate, WriteFails, Goto, Advance
<1>6. c.kind = "now" => c.through = 0 /\ c.selected = {}
  BY ZenonT(60), <1>1, <1>2 DEF Fits
<1> DEFINE r == [c EXCEPT !.pc = pc]
<1>7. Fits(r, next_commit_seq, persist.durable_through, EffectiveNext) /\ r.pc = pc
  <2> HIDE DEF c
  <2>1. CASE pc = "write"
    <3>1. /\ Fits([c EXCEPT !.pc = "write"], next_commit_seq, persist.durable_through,
                  EffectiveNext)
          /\ [c EXCEPT !.pc = "write"].pc = "write"
      BY <1>1, <1>6, MoveFits, ZenonT(30)
    <3> QED
      BY ZenonT(60), <2>1, <3>1
  <2>2. CASE pc = "failed"
    <3>1. /\ Fits([c EXCEPT !.pc = "failed"], next_commit_seq, persist.durable_through,
                  EffectiveNext)
          /\ [c EXCEPT !.pc = "failed"].pc = "failed"
      BY <1>1, <1>6, MoveFits, Zenon
    <3> QED
      BY <2>2, <3>1
  <2> QED
    BY ZenonT(60), <1>5, <2>1, <2>2
<1>8. calls' = [calls EXCEPT ![t] = r]
  BY ZenonT(60), <1>5
<1> HIDE DEF r
<1>9. r.pc \in Runner
  BY ZenonT(60), <1>5, <1>7 DEF Runner
<1> QED
  BY <1>2, <1>3, <1>4, <1>7, <1>8, <1>9, PlainStep, Zenon

\* The checkpoint a sweep keeps.
LEMMA AnchorIs ==
    ASSUME PersistInv, NEW o, NEW grace \in Nat
    PROVE  AnchorOf(o, grace) \in 0 .. NoCheckpoint
<1>1. MaxCommit \in Nat /\ next_commit_seq \in 1 .. MaxCommit + 1
  BY Facts
<1>2. Latest(o) \in 0 .. MaxCommit
  BY LatestIs DEF Seqs
<1> QED
  BY <1>1, <1>2 DEF AnchorOf, NoCheckpoint, Smaller

\* The sweep of the custodian.
LEMMA SweepInv ==
    ASSUME PersistInv, NEW t \in Threads, NEW grace \in GraceCommits, Sweep(t, grace)
    PROVE  PersistInv'
<1> DEFINE r == NewCall("enter", "now", next_commit_seq - 1)
<1>1. /\ MaxCommit \in Nat /\ next_commit_seq \in 1 .. MaxCommit + 1 /\ next_commit_seq \in Nat
      /\ EffectiveNext \in Nat /\ grace \in Nat
  BY ZenonT(60), Facts, PersistAssumption
<1>2. /\ next_commit_seq' = next_commit_seq /\ commits' = commits
      /\ UNCHANGED <<deltas, persist, gate, disk, promised>>
      /\ calls' = [calls EXCEPT ![t] = r] /\ calls[t].pc = "sweep"
  BY DEF Sweep, At
<1>3. replay_from' \in [Owners -> 0 .. NoCheckpoint]
  <2>1. [o \in Owners |-> AnchorOf(o, grace)] \in [Owners -> 0 .. NoCheckpoint]
    BY ZenonT(60), <1>1, AnchorIs
  <2>2. replay_from \in [Owners -> 0 .. NoCheckpoint]
    BY ZenonT(60) DEF PersistInv, PTypeOK
  <2> QED
    BY ZenonT(60), <2>1, <2>2 DEF Sweep
<1>4. EffectiveNext' = EffectiveNext
  BY ZenonT(60), <1>2 DEF EffectiveNext, Journaled
<1>5. next_commit_seq - 1 \in Seqs /\ next_commit_seq - 1 < next_commit_seq
  BY <1>1 DEF Seqs
<1>6. Fits(r, next_commit_seq, persist.durable_through, EffectiveNext) /\ r.pc \notin Runner
  BY ZenonT(60), <1>1, <1>5, NewFits
<1> HIDE DEF r
<1>7. persist' = persist /\ gate' = gate /\ disk' = disk /\ promised' = promised
      /\ pending_block_deltas' = pending_block_deltas /\ prestaging' = prestaging
      /\ pending_native_file_deltas' = pending_native_file_deltas
      /\ calls[t].pc \notin Runner
  BY ZenonT(60), <1>2 DEF deltas, Runner
<1>8. OneRunner'
  BY <1>2, <1>6, <1>7, RunnerKept, Zenon
<1>9. OnDisk(disk', next_commit_seq', EffectiveNext')
  BY ZenonT(60), <1>2, <1>4, <1>7 DEF PersistInv
<1>10. /\ commits' \subseteq [seq: 1 .. next_commit_seq' - 1, owner: Owners]
       /\ pending_block_deltas' \cup pending_native_file_deltas' \cup prestaging' \subseteq Seqs
       /\ persist' \in [in_flight: BOOLEAN, requested_through: Seqs, durable_through: Seqs,
                        failed: BOOLEAN]
       /\ persist'.durable_through <= persist'.requested_through
       /\ persist'.requested_through < next_commit_seq'
       /\ gate' \in [writer: BOOLEAN, readers: SUBSET Threads]
       /\ promised' \in Seqs /\ promised' < EffectiveNext'
  BY ZenonT(60), <1>2, <1>4, <1>7 DEF PersistInv, PTypeOK
<1>11. /\ next_commit_seq' \in 1 .. MaxCommit + 1 /\ next_commit_seq <= next_commit_seq'
       /\ EffectiveNext' \in Nat /\ EffectiveNext <= EffectiveNext'
       /\ Fits(r, next_commit_seq', persist.durable_through, EffectiveNext')
       /\ persist'.durable_through = persist.durable_through
  BY <1>1, <1>2, <1>4, <1>6, <1>7
<1> QED
  BY <1>2, <1>3, <1>8, <1>9, <1>10, <1>11, StepInv, Zenon

=============================================================================
