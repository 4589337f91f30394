---------------------------- MODULE PersistProofs ----------------------------
(***************************************************************************)
(* The shared persist coordinator for any number of threads, devices,      *)
(* files, commits, failures, sweeps and crashes: at most one persist runs, *)
(* what a reopen recovers is a prefix of the commits that no later persist *)
(* takes back, and it reaches every commit a caller was told is durable.   *)
(*                                                                         *)
(* The durability half holds while the PITR windows of the custodian are   *)
(* longer than the history (LongWindows): with a shorter window an image   *)
(* of an earlier commit may leave out owners that have moved on.           *)
(***************************************************************************)
EXTENDS PersistSteps

-----------------------------------------------------------------------------
(* Writes.                                                                   *)

\* The cursor of a reopen from what is on disk.
Cursor(d) == Larger(d.next_commit_seq, Highest(d.deltas) + 1)

\* Whether the reopen finds commit s.
Found(d, s) == s < d.next_commit_seq \/ s \in d.deltas

\* The cursor is past the image and the delta rows, and no further.
LEMMA CursorFacts ==
    ASSUME NEW d \in Disk
    PROVE  /\ Cursor(d) \in 1 .. MaxCommit + 1 /\ Cursor(d) \in Nat
           /\ d.next_commit_seq <= Cursor(d)
           /\ \A s \in d.deltas : s < Cursor(d)
           /\ Cursor(d) = d.next_commit_seq \/ Cursor(d) - 1 \in d.deltas
<1>1. d.next_commit_seq \in 1 .. MaxCommit + 1 /\ d.deltas \in SUBSET Seqs
  BY DEF Disk
<1>2. MaxCommit \in Nat
  BY ZenonT(60), PersistAssumption
<1>3. /\ Cursor(d) \in 1 .. MaxCommit + 1 /\ d.next_commit_seq <= Cursor(d)
      /\ \A s \in d.deltas : s < Cursor(d)
      /\ Cursor(d) = d.next_commit_seq \/ Cursor(d) - 1 \in d.deltas
  BY ZenonT(60), <1>1, CursorIs DEF Cursor
<1> QED
  BY <1>2, <1>3

\* A write that keeps what a reopen finds, and finds everything below what it
\* adds, moves the cursor forward and leaves no hole.
LEMMA DiskGrows ==
    ASSUME NEW d \in Disk, NEW e \in Disk, NEW next \in Nat,
           d.next_commit_seq <= e.next_commit_seq, e.next_commit_seq <= next,
           \A s \in e.deltas : s < next,
           \A s \in 1 .. MaxCommit : Found(d, s) => Found(e, s),
           \A s \in e.deltas : \A q \in 1 .. s : Found(e, q)
    PROVE  OnDisk(e, next, Cursor(e)) /\ Cursor(d) <= Cursor(e)
<1>1. MaxCommit \in Nat
  BY ZenonT(60), PersistAssumption
<1>2. /\ Cursor(d) \in 1 .. MaxCommit + 1 /\ d.next_commit_seq <= Cursor(d)
      /\ Cursor(d) = d.next_commit_seq \/ Cursor(d) - 1 \in d.deltas
  BY ZenonT(60), CursorFacts
<1>3. /\ Cursor(e) \in 1 .. MaxCommit + 1 /\ e.next_commit_seq <= Cursor(e)
      /\ \A s \in e.deltas : s < Cursor(e)
      /\ Cursor(e) = e.next_commit_seq \/ Cursor(e) - 1 \in e.deltas
  BY ZenonT(60), CursorFacts
<1>4. d.next_commit_seq \in 1 .. MaxCommit + 1 /\ e.next_commit_seq \in 1 .. MaxCommit + 1
  BY DEF Disk
<1>5. ASSUME NEW s \in 1 .. MaxCommit, s < Cursor(e) PROVE Found(e, s)
  <2>1. CASE Cursor(e) = e.next_commit_seq
    BY ZenonT(60), <1>5, <2>1 DEF Found
  <2>2. CASE Cursor(e) - 1 \in e.deltas
    <3>1. s \in 1 .. Cursor(e) - 1
      BY <1>1, <1>3, <1>5
    <3> QED
      BY ZenonT(60), <2>2, <3>1
  <2> QED
    BY ZenonT(60), <1>3, <2>1, <2>2
<1>6. OnDisk(e, next, Cursor(e))
  BY ZenonT(60), <1>5 DEF OnDisk, Found
<1>7. Cursor(d) <= Cursor(e)
  <2>1. CASE Cursor(d) = d.next_commit_seq
    BY <1>1, <1>3, <1>4, <2>1
  <2>2. CASE Cursor(d) - 1 \in d.deltas
    <3>1. CASE Cursor(d) = 1
      BY <1>1, <1>3, <3>1
    <3>2. CASE Cursor(d) # 1
      <4>1. Cursor(d) - 1 \in 1 .. MaxCommit
        BY <1>1, <1>2, <3>2
      <4>2. Found(e, Cursor(d) - 1)
        BY ZenonT(60), <2>2, <4>1 DEF Found
      <4>3. Cursor(d) - 1 < Cursor(e)
        BY <1>1, <1>2, <1>3, <1>4, <4>2 DEF Found
      <4> QED
        BY <1>1, <1>2, <1>3, <4>3
    <3> QED
      BY ZenonT(60), <3>1, <3>2
  <2> QED
    BY ZenonT(60), <1>2, <2>1, <2>2
<1> QED
  BY ZenonT(60), <1>6, <1>7

\* Everything below what was on disk is found.
LEMMA FoundBelow ==
    ASSUME NEW d, NEW next, OnDisk(d, next, Cursor(d))
    PROVE  /\ \A s \in 1 .. MaxCommit : s < Cursor(d) => Found(d, s)
           /\ \A s \in d.deltas : \A q \in 1 .. s : Found(d, q)
<1>1. MaxCommit \in Nat /\ d \in Disk
  BY ZenonT(60), PersistAssumption DEF OnDisk
<1>2. \A s \in 1 .. MaxCommit : s < Cursor(d) => Found(d, s)
  BY ZenonT(60) DEF OnDisk, Found
<1>3. ASSUME NEW s \in d.deltas, NEW q \in 1 .. s PROVE Found(d, q)
  <2>1. s \in 0 .. MaxCommit /\ s < Cursor(d) /\ Cursor(d) \in Nat
    BY ZenonT(60), <1>1, CursorFacts DEF Disk, Seqs
  <2>2. q \in 1 .. MaxCommit /\ q < Cursor(d)
    BY <1>1, <2>1
  <2> QED
    BY ZenonT(60), <1>2, <2>2
<1> QED
  BY ZenonT(60), <1>2, <1>3

\* The cursor of the disk at hand, before and after a step.
LEMMA CursorNow ==
    ASSUME PersistInv
    PROVE  /\ EffectiveNext = Cursor(disk)
           /\ OnDisk(disk, next_commit_seq, Cursor(disk))
           /\ disk' \in Disk => EffectiveNext' = Cursor(disk')
<1>1. disk \in Disk
  BY Facts
<1>2. Journaled = {} /\ disk.deltas \cup Journaled = disk.deltas
  BY ZenonT(60), <1>1 DEF Disk, Journaled
<1>3. EffectiveNext = Cursor(disk)
  BY ZenonT(60), <1>2 DEF EffectiveNext, Cursor
<1>4. ASSUME disk' \in Disk PROVE EffectiveNext' = Cursor(disk')
  <2>1. Journaled' = {} /\ disk'.deltas \cup Journaled' = disk'.deltas
    BY ZenonT(60), <1>4 DEF Disk, Journaled
  <2> QED
    BY ZenonT(60), <2>1 DEF EffectiveNext, Cursor
<1> QED
  BY ZenonT(60), <1>3, <1>4 DEF PersistInv

\* A persist that writes e and reached `high`.
LEMMA WriteStep ==
    ASSUME PersistInv, NEW t \in Threads, NEW r, calls' = [calls EXCEPT ![t] = r],
           At(t, "write"), UNCHANGED <<memory, persist, promised>>, ReleaseGate,
           prestaging' = prestaging,
           pending_block_deltas' \subseteq pending_block_deltas,
           pending_native_file_deltas' \subseteq pending_native_file_deltas,
           disk' \in Disk, OnDisk(disk', next_commit_seq, Cursor(disk')),
           Cursor(disk) <= Cursor(disk'),
           r \in Call, r.pc = "finish", r.kind = calls[t].kind, r.required = calls[t].required,
           r.selected = {}, r.through < next_commit_seq, r.through < Cursor(disk'),
           r.kind = "now" => r.required <= r.through
    PROVE  PersistInv' /\ EffectiveNext <= EffectiveNext'
<1>1. EffectiveNext = Cursor(disk) /\ EffectiveNext' = Cursor(disk')
  BY ZenonT(60), CursorNow
<1>2. EffectiveNext \in Nat /\ EffectiveNext' \in Nat /\ next_commit_seq \in 1 .. MaxCommit + 1
      /\ next_commit_seq <= next_commit_seq
      /\ Fits(calls[t], next_commit_seq, persist.durable_through, EffectiveNext)
  BY <1>1, Facts, CursorFacts
<1>3. /\ next_commit_seq' = next_commit_seq /\ commits' = commits /\ replay_from' = replay_from
      /\ persist' = persist /\ promised' = promised
  BY ZenonT(60) DEF memory
<1>4. Fits(r, next_commit_seq', persist.durable_through, EffectiveNext')
  BY ZenonT(60), <1>1, <1>2, <1>3 DEF Fits
<1>5. OneRunner'
  <2>1. r.pc \in Runner /\ calls[t].pc \in Runner
    BY DEF Runner, At
  <2> QED
    BY <1>3, <2>1, RunnerKept, Zenon
<1>6. gate' \in [writer: BOOLEAN, readers: SUBSET Threads]
  BY Zenon DEF PersistInv, PTypeOK, ReleaseGate
<1>7. /\ commits' \subseteq [seq: 1 .. next_commit_seq' - 1, owner: Owners]
      /\ replay_from' \in [Owners -> 0 .. NoCheckpoint]
      /\ pending_block_deltas' \cup pending_native_file_deltas' \cup prestaging' \subseteq Seqs
      /\ persist' \in [in_flight: BOOLEAN, requested_through: Seqs, durable_through: Seqs,
                       failed: BOOLEAN]
      /\ persist'.durable_through <= persist'.requested_through
      /\ persist'.requested_through < next_commit_seq'
      /\ promised' \in Seqs
  BY ZenonT(60), <1>3 DEF PersistInv, PTypeOK
<1>8. promised' < EffectiveNext' /\ EffectiveNext <= EffectiveNext'
  <2>1. promised \in Nat
    BY PersistAssumption DEF PersistInv, PTypeOK, Seqs
  <2> QED
    BY SMTT(60), <1>1, <1>2, <1>3, <2>1 DEF PersistInv
<1>9. OnDisk(disk', next_commit_seq', EffectiveNext')
  BY ZenonT(60), <1>1, <1>3
<1>10. /\ next_commit_seq' \in 1 .. MaxCommit + 1 /\ next_commit_seq <= next_commit_seq'
       /\ persist'.durable_through = persist.durable_through
  BY ZenonT(60), <1>2, <1>3
<1>11. PersistInv'
  BY <1>2, <1>4, <1>5, <1>6, <1>7, <1>8, <1>9, <1>10, StepInv, Zenon
<1> QED
  BY ZenonT(60), <1>8, <1>11

\* An image, of everything or through a commit.
LEMMA WriteImageInv ==
    ASSUME PersistInv, NEW t \in Threads, WriteImage(t)
    PROVE  PersistInv' /\ EffectiveNext <= EffectiveNext'
<1> DEFINE c == calls[t]
           current == next_commit_seq - 1
           whole == c.through = 0 \/ c.through >= current
           high == IF whole THEN current ELSE c.through
           left == IF whole THEN {} ELSE LeftOut(c.through)
           e == [next_commit_seq |-> Larger(disk.next_commit_seq, high + 1),
                 missing |-> left,
                 deltas |-> {s \in disk.deltas : s > high},
                 replay_from |-> replay_from, journal |-> disk.journal]
           r == [c EXCEPT !.pc = "finish", !.through = high]
<1>1. /\ MaxCommit \in Nat /\ calls \in [Threads -> Call] /\ c \in Call /\ c.through \in Nat
      /\ c.required \in Nat /\ disk \in Disk
      /\ next_commit_seq \in 1 .. MaxCommit + 1 /\ next_commit_seq \in Nat
      /\ Fits(c, next_commit_seq, persist.durable_through, EffectiveNext)
  BY ZenonT(60), Facts
<1>2. /\ At(t, "write") /\ c.pc = "write" /\ c.selected = {} /\ disk' = e
      /\ calls' = [calls EXCEPT ![t] = r] /\ ReleaseGate
      /\ UNCHANGED <<memory, persist, promised>> /\ prestaging' = prestaging
      /\ pending_block_deltas' \subseteq pending_block_deltas
      /\ pending_native_file_deltas' \subseteq pending_native_file_deltas
  BY ZenonT(60) DEF WriteImage, At, Advance
<1>3. /\ c.required < next_commit_seq /\ c.through < next_commit_seq
      /\ c.kind = "now" => c.through = 0
  BY ZenonT(60), <1>1, <1>2 DEF Fits
<1>4. /\ high \in Nat /\ high < next_commit_seq /\ high \in Seqs
      /\ c.kind = "now" => c.required <= high
  BY <1>1, <1>3 DEF Seqs
<1>5. left \in SUBSET Owners
  BY ZenonT(60) DEF LeftOut
<1>6. /\ disk.next_commit_seq \in 1 .. MaxCommit + 1 /\ disk.deltas \in SUBSET Seqs
      /\ disk.journal \in {{}} /\ replay_from \in [Owners -> 0 .. NoCheckpoint]
      /\ OnDisk(disk, next_commit_seq, Cursor(disk))
  BY ZenonT(60), <1>1, CursorNow DEF Disk, PersistInv, PTypeOK
<1> HIDE DEF high, left
<1>7. Larger(disk.next_commit_seq, high + 1) \in 1 .. MaxCommit + 1
      /\ disk.next_commit_seq <= Larger(disk.next_commit_seq, high + 1)
      /\ high + 1 <= Larger(disk.next_commit_seq, high + 1)
      /\ Larger(disk.next_commit_seq, high + 1) <= next_commit_seq
  <2>1. disk.next_commit_seq <= next_commit_seq
    BY ZenonT(60), <1>6 DEF OnDisk
  <2> QED
    BY <1>1, <1>4, <1>6, <2>1 DEF Larger
<1>8. e \in Disk
  BY ZenonT(60), <1>5, <1>6, <1>7 DEF Disk
<1>9. /\ e.next_commit_seq = Larger(disk.next_commit_seq, high + 1)
      /\ e.deltas = {s \in disk.deltas : s > high}
  BY ZenonT(60)
<1> HIDE DEF e
<1>10. \A s \in disk.deltas : s \in Nat
  BY <1>1, <1>6 DEF Seqs
<1>11. ASSUME NEW s \in Nat, Found(disk, s) PROVE Found(e, s)
  BY <1>1, <1>4, <1>6, <1>7, <1>9, <1>11 DEF Found
<1>12. \A s \in e.deltas : \A q \in 1 .. s : Found(e, q)
  BY <1>6, <1>9, <1>11, FoundBelow
<1>13. \A s \in e.deltas : s < next_commit_seq
  BY ZenonT(60), <1>6, <1>9 DEF OnDisk
<1>14. OnDisk(e, next_commit_seq, Cursor(e)) /\ Cursor(disk) <= Cursor(e)
  <2>1. \A s \in 1 .. MaxCommit : Found(disk, s) => Found(e, s)
    BY <1>1, <1>11
  <2> QED
    BY ZenonT(60), <1>1, <1>7, <1>8, <1>9, <1>12, <1>13, <2>1, DiskGrows
<1>15. high < Cursor(e)
  <2>1. e.next_commit_seq <= Cursor(e) /\ Cursor(e) \in Nat
    BY ZenonT(60), <1>8, CursorFacts
  <2> QED
    BY <1>1, <1>4, <1>7, <1>9, <2>1
<1>16. /\ r \in Call /\ r.pc = "finish" /\ r.kind = c.kind /\ r.required = c.required
       /\ r.through = high /\ r.selected = c.selected
  <2> HIDE DEF c
  <2> QED
    BY <1>1, <1>4, Zenon DEF Call
<1> HIDE DEF r
<1> QED
  BY <1>2, <1>4, <1>8, <1>14, <1>15, <1>16, WriteStep, Zenon

\* A native metadata delta.
LEMMA WriteNativeInv ==
    ASSUME PersistInv, NEW t \in Threads, WriteNativeMetadata(t)
    PROVE  PersistInv' /\ EffectiveNext <= EffectiveNext'
<1> DEFINE c == calls[t]
           e == [disk EXCEPT !.next_commit_seq = Larger(disk.next_commit_seq, c.through + 1)]
           r == [c EXCEPT !.pc = "finish"]
<1>1. /\ MaxCommit \in Nat /\ calls \in [Threads -> Call] /\ c \in Call /\ c.through \in Nat
      /\ c.required \in Nat /\ disk \in Disk
      /\ next_commit_seq \in 1 .. MaxCommit + 1 /\ next_commit_seq \in Nat
      /\ Fits(c, next_commit_seq, persist.durable_through, EffectiveNext)
  BY ZenonT(60), Facts
<1>2. /\ At(t, "write") /\ c.pc = "write" /\ c.selected = {} /\ c.through # 0 /\ disk' = e
      /\ calls' = [calls EXCEPT ![t] = r] /\ ReleaseGate
      /\ UNCHANGED <<memory, persist, promised>> /\ prestaging' = prestaging
      /\ pending_block_deltas' \subseteq pending_block_deltas
      /\ pending_native_file_deltas' \subseteq pending_native_file_deltas
  BY ZenonT(60) DEF WriteNativeMetadata, At, Advance
<1>3. c.through < next_commit_seq /\ c.kind # "now"
  BY ZenonT(60), <1>1, <1>2 DEF Fits
<1>4. /\ disk.next_commit_seq \in 1 .. MaxCommit + 1 /\ disk.deltas \in SUBSET Seqs
      /\ OnDisk(disk, next_commit_seq, Cursor(disk))
  BY ZenonT(60), <1>1, CursorNow DEF Disk
<1>5. Larger(disk.next_commit_seq, c.through + 1) \in 1 .. MaxCommit + 1
      /\ disk.next_commit_seq <= Larger(disk.next_commit_seq, c.through + 1)
      /\ c.through + 1 <= Larger(disk.next_commit_seq, c.through + 1)
      /\ Larger(disk.next_commit_seq, c.through + 1) <= next_commit_seq
  <2>1. disk.next_commit_seq <= next_commit_seq
    BY ZenonT(60), <1>4 DEF OnDisk
  <2> QED
    BY <1>1, <1>3, <1>4, <2>1 DEF Larger
<1>6. /\ e \in Disk /\ e.next_commit_seq = Larger(disk.next_commit_seq, c.through + 1)
      /\ e.deltas = disk.deltas
  <2> HIDE DEF c
  <2> QED
    BY ZenonT(60), <1>1, <1>5 DEF Disk
<1> HIDE DEF e
<1>7. ASSUME NEW s \in Nat, Found(disk, s) PROVE Found(e, s)
  BY SMTT(60), <1>1, <1>4, <1>5, <1>6, <1>7 DEF Found
<1>8. \A s \in e.deltas : \A q \in 1 .. s : Found(e, q)
  BY <1>4, <1>6, <1>7, FoundBelow
<1>9. \A s \in e.deltas : s < next_commit_seq
  BY ZenonT(60), <1>4, <1>6 DEF OnDisk
<1>10. OnDisk(e, next_commit_seq, Cursor(e)) /\ Cursor(disk) <= Cursor(e)
  <2>1. \A s \in 1 .. MaxCommit : Found(disk, s) => Found(e, s)
    BY <1>1, <1>7
  <2> QED
    BY ZenonT(60), <1>1, <1>5, <1>6, <1>8, <1>9, <2>1, DiskGrows
<1>11. c.through < Cursor(e)
  <2>1. e.next_commit_seq <= Cursor(e) /\ Cursor(e) \in Nat
    BY ZenonT(60), <1>6, CursorFacts
  <2> QED
    BY <1>1, <1>5, <1>6, <2>1
<1>12. /\ r \in Call /\ r.pc = "finish" /\ r.kind = c.kind /\ r.required = c.required
       /\ r.through = c.through /\ r.selected = c.selected
  <2> HIDE DEF c
  <2> QED
    BY ZenonT(60), <1>1 DEF Call
<1> HIDE DEF r
<1> QED
  BY <1>2, <1>3, <1>6, <1>10, <1>11, <1>12, WriteStep, Zenon

\* A run of commits after `after` without a hole.
Run(S, after) == \A s \in S : s \in Seqs /\ after < s /\ (after + 1 .. s \subseteq S)

\* A batch of deltas that grows stays such a run.
LEMMA GrownIs ==
    ASSUME PersistInv, NEW after \in Nat, NEW high \in Seqs, after < high, high < next_commit_seq,
           NEW W \in {GrownBlock(after + 1 .. high), GrownNative(after + 1 .. high)}
    PROVE  Run(W, after) /\ W # {} /\ \A s \in W : s < next_commit_seq
<1> DEFINE sel == after + 1 .. high
           req == persist.requested_through
           ready == pending_block_deltas \ prestaging
           more == {s \in high + 1 .. req : high + 1 .. s \subseteq ready}
<1>1. /\ MaxCommit \in Nat /\ next_commit_seq \in 1 .. MaxCommit + 1 /\ req \in Nat
      /\ high \in Nat /\ req < next_commit_seq /\ high <= MaxCommit
  BY Facts DEF PersistInv, Seqs
<1>2. sel \in SUBSET Seqs /\ high \in sel
  BY <1>1 DEF Seqs
<1>3. Highest(sel) = high
  <2>1. Highest(sel) \in sel /\ \A s \in sel : s <= Highest(sel)
    BY ZenonT(60), <1>2, HighestIs
  <2> QED
    BY <1>1, <1>2, <2>1
<1>4. W \in {sel, sel \cup more, sel \cup (high + 1 .. req)}
  <2>1. GrownBlock(sel) \in {sel, sel \cup more}
    <3> HIDE DEF sel
    <3> QED
      BY ZenonT(60), <1>3 DEF GrownBlock
  <2>2. GrownNative(sel) \in {sel, sel \cup (high + 1 .. req)}
    <3> HIDE DEF sel
    <3> QED
      BY ZenonT(60), <1>3 DEF GrownNative
  <2> QED
    BY ZenonT(60), <2>1, <2>2
<1>5. CASE W = sel
  BY <1>1, <1>2, <1>5 DEF Run, Seqs
<1>6. CASE W = sel \cup (high + 1 .. req)
  <2>1. ASSUME NEW s \in W
        PROVE  s \in Seqs /\ after < s /\ s < next_commit_seq /\ (after + 1 .. s \subseteq W)
    <3>1. s \in Nat /\ after < s /\ s < next_commit_seq /\ (s <= high \/ s <= req)
      BY <1>1, <1>6
    <3>2. ASSUME NEW q \in after + 1 .. s PROVE q \in W
      BY <1>1, <1>6, <3>1
    <3> QED
      BY <1>1, <3>1, <3>2 DEF Seqs
  <2> QED
    BY ZenonT(60), <1>2, <1>6, <2>1 DEF Run
<1>7. CASE W = sel \cup more
  <2>1. ASSUME NEW s \in W
        PROVE  s \in Seqs /\ after < s /\ s < next_commit_seq /\ (after + 1 .. s \subseteq W)
    <3>1. CASE s \in sel
      <4>1. s \in Nat /\ after < s /\ s <= high
        BY <1>1, <3>1
      <4>2. ASSUME NEW q \in after + 1 .. s PROVE q \in sel
        BY <1>1, <4>1
      <4> QED
        BY <1>1, <1>7, <4>1, <4>2 DEF Seqs
    <3>2. CASE s \in more
      <4>1. s \in Nat /\ high < s /\ s <= req /\ (high + 1 .. s \subseteq ready)
        BY <1>1, <3>2
      <4>2. ASSUME NEW q \in after + 1 .. s PROVE q \in W
        <5>1. CASE q <= high
          <6>1. q \in sel
            BY <1>1, <4>1, <5>1
          <6> QED
            BY ZenonT(60), <1>7, <6>1
        <5>2. CASE ~ (q <= high)
          <6>1. q \in high + 1 .. req /\ (high + 1 .. q \subseteq high + 1 .. s)
            BY <1>1, <4>1, <5>2
          <6>2. q \in more
            BY ZenonT(60), <4>1, <6>1
          <6> QED
            BY ZenonT(60), <1>7, <6>2
        <5> QED
          BY ZenonT(60), <5>1, <5>2
      <4> QED
        BY <1>1, <4>1, <4>2 DEF Seqs
    <3> QED
      BY ZenonT(60), <1>7, <3>1, <3>2
  <2> QED
    BY ZenonT(60), <1>2, <1>7, <2>1 DEF Run
<1> QED
  BY ZenonT(60), <1>4, <1>5, <1>6, <1>7

\* Compact deltas.
LEMMA WriteDeltasInv ==
    ASSUME PersistInv, NEW t \in Threads, WriteDeltas(t)
    PROVE  PersistInv' /\ EffectiveNext <= EffectiveNext'
<1> DEFINE c == calls[t]
           d == persist.durable_through
           block == c.selected \subseteq pending_block_deltas
           W == IF block THEN GrownBlock(c.selected) ELSE GrownNative(c.selected)
           high == Highest(W)
           e == [disk EXCEPT !.deltas = disk.deltas \cup W]
           r == [c EXCEPT !.pc = "finish", !.through = high, !.selected = {}]
<1>1. /\ MaxCommit \in Nat /\ calls \in [Threads -> Call] /\ c \in Call /\ c.through \in Nat
      /\ c.through \in Seqs /\ disk \in Disk /\ d \in Nat
      /\ next_commit_seq \in 1 .. MaxCommit + 1 /\ next_commit_seq \in Nat
      /\ Fits(c, next_commit_seq, d, EffectiveNext)
  BY ZenonT(60), Facts DEF Call
<1>2. /\ At(t, "write") /\ c.pc = "write" /\ c.selected # {} /\ disk' = e
      /\ calls' = [calls EXCEPT ![t] = r] /\ ReleaseGate
      /\ UNCHANGED <<memory, persist, promised>> /\ prestaging' = prestaging
      /\ pending_block_deltas' \subseteq pending_block_deltas
      /\ pending_native_file_deltas' \subseteq pending_native_file_deltas
  BY ZenonT(60) DEF WriteDeltas, At, Advance
<1>3. /\ c.selected = d + 1 .. c.through /\ c.kind # "now" /\ c.through < next_commit_seq
  BY ZenonT(60), <1>1, <1>2 DEF Fits
<1>4. d < c.through
  BY <1>1, <1>2, <1>3
<1>5. W \in {GrownBlock(d + 1 .. c.through), GrownNative(d + 1 .. c.through)}
  BY ZenonT(60), <1>3
<1> HIDE DEF W
<1>6. Run(W, d) /\ W # {} /\ \A s \in W : s < next_commit_seq
  BY ZenonT(60), <1>1, <1>3, <1>4, <1>5, GrownIs
<1>7. W \in SUBSET Seqs
  BY ZenonT(60), <1>6 DEF Run
<1>8. high \in Seqs /\ high \in W
  BY ZenonT(60), <1>6, <1>7, HighestIs
<1> HIDE DEF high
<1>9. /\ disk.next_commit_seq \in 1 .. MaxCommit + 1 /\ disk.deltas \in SUBSET Seqs
      /\ OnDisk(disk, next_commit_seq, Cursor(disk)) /\ d < Cursor(disk)
  BY ZenonT(60), <1>1, CursorNow DEF Disk, PersistInv
<1>10. /\ e \in Disk /\ e.next_commit_seq = disk.next_commit_seq
       /\ e.deltas = disk.deltas \cup W
  BY ZenonT(60), <1>1, <1>7, <1>9 DEF Disk
<1> HIDE DEF e
<1>11. ASSUME NEW s, Found(disk, s) PROVE Found(e, s)
  BY ZenonT(60), <1>10, <1>11 DEF Found
<1>12. ASSUME NEW s \in e.deltas, NEW q \in 1 .. s PROVE Found(e, q)
  <2>1. CASE s \in disk.deltas
    BY ZenonT(60), <1>9, <1>11, <2>1, FoundBelow
  <2>2. CASE s \in W
    <3>1. s \in 0 .. MaxCommit /\ d < s /\ (d + 1 .. s \subseteq W)
      BY ZenonT(60), <1>6, <2>2 DEF Run, Seqs
    <3>2. CASE q <= d
      <4>1. q \in 1 .. MaxCommit /\ q < Cursor(disk)
        <5>1. Cursor(disk) \in Nat
          BY ZenonT(60), <1>1, CursorFacts
        <5> QED
          BY SMTT(60), <1>1, <1>9, <3>1, <3>2, <5>1
      <4> QED
        BY ZenonT(60), <1>9, <1>11, <4>1, FoundBelow
    <3>3. CASE ~ (q <= d)
      <4>1. q \in d + 1 .. s
        BY <1>1, <3>1, <3>3
      <4> QED
        BY ZenonT(60), <1>10, <3>1, <4>1 DEF Found
    <3> QED
      BY ZenonT(60), <3>2, <3>3
  <2> QED
    BY ZenonT(60), <1>10, <2>1, <2>2
<1>13. \A s \in e.deltas : s < next_commit_seq
  BY ZenonT(60), <1>6, <1>9, <1>10 DEF OnDisk
<1>14. OnDisk(e, next_commit_seq, Cursor(e)) /\ Cursor(disk) <= Cursor(e)
  <2>1. disk.next_commit_seq <= e.next_commit_seq /\ e.next_commit_seq <= next_commit_seq
    BY <1>1, <1>9, <1>10 DEF OnDisk
  <2> QED
    BY ZenonT(60), <1>1, <1>10, <1>11, <1>12, <1>13, <2>1, DiskGrows
<1>15. high < Cursor(e) /\ high < next_commit_seq
  BY ZenonT(60), <1>6, <1>8, <1>10, CursorFacts
<1>16. /\ r \in Call /\ r.pc = "finish" /\ r.kind = c.kind /\ r.required = c.required
       /\ r.through = high /\ r.selected = {}
  <2> HIDE DEF c
  <2> QED
    BY <1>1, <1>8, ZenonT(30) DEF Call
<1> HIDE DEF r
<1> QED
  BY <1>2, <1>3, <1>10, <1>14, <1>15, <1>16, WriteStep, Zenon

-----------------------------------------------------------------------------
(* The end of a persist, and crashes.                                        *)

\* The runner is done and everybody who waits notices: the durable commit may move,
\* for no other call has selected deltas.
LEMMA EndStep ==
    ASSUME PersistInv, NEW t \in Threads, calls[t].pc \in Runner,
           NEW r, calls' = AdvanceAndNotify(t, r), r.pc \notin Runner,
           UNCHANGED <<memory, deltas, gate, disk>>,
           persist' \in [in_flight: BOOLEAN, requested_through: Seqs, durable_through: Seqs,
                         failed: BOOLEAN],
           ~ persist'.in_flight,
           persist'.durable_through <= persist'.requested_through,
           persist'.requested_through < next_commit_seq,
           persist'.durable_through < EffectiveNext,
           promised' \in Seqs, promised' < EffectiveNext,
           Fits(r, next_commit_seq, persist'.durable_through, EffectiveNext)
    PROVE  PersistInv'
<1> DEFINE dt == persist'.durable_through
<1>1. /\ next_commit_seq' = next_commit_seq /\ commits' = commits /\ replay_from' = replay_from
      /\ pending_block_deltas' = pending_block_deltas /\ prestaging' = prestaging
      /\ pending_native_file_deltas' = pending_native_file_deltas
      /\ gate' = gate /\ disk' = disk
  BY ZenonT(60) DEF memory, deltas
<1>2. EffectiveNext' = EffectiveNext
  BY ZenonT(60), <1>1 DEF EffectiveNext, Journaled
<1>3. ASSUME NEW u \in Threads
      PROVE  Fits(calls'[u], next_commit_seq, dt, EffectiveNext) /\ calls'[u].pc \notin Runner
  <2>1. CASE u = t
    <3>1. calls'[u] = r
      BY ZenonT(60), <2>1 DEF AdvanceAndNotify
    <3> QED
      BY ZenonT(60), <3>1
  <2>2. CASE u # t
    <3> DEFINE c == calls[u]
               m == [c EXCEPT !.moved = TRUE]
    <3>1. Fits(c, next_commit_seq, persist.durable_through, EffectiveNext) /\ c \in Call
      BY ZenonT(60), Facts
    <3>2. c.pc \notin Runner
      BY ZenonT(60), <2>2 DEF PersistInv, OneRunner
    <3>3. c.selected = {}
      BY ZenonT(60), <3>1, <3>2 DEF Fits, Runner
    <3>4. calls'[u] \in {c, m}
      BY ZenonT(60), <2>2 DEF AdvanceAndNotify
    <3>5. /\ m \in Call /\ m.pc = c.pc /\ m.kind = c.kind /\ m.required = c.required
          /\ m.through = c.through /\ m.selected = c.selected
      <4> HIDE DEF c
      <4> QED
        BY <3>1, ZenonT(30) DEF Call
    <3> HIDE DEF m
    <3>6. Fits(c, next_commit_seq, dt, EffectiveNext)
      BY ZenonT(60), <3>1, <3>3 DEF Fits
    <3>7. Fits(m, next_commit_seq, dt, EffectiveNext)
      BY ZenonT(60), <3>5, <3>6, <3>3 DEF Fits
    <3> QED
      BY ZenonT(60), <3>2, <3>4, <3>5, <3>6, <3>7
  <2> QED
    BY ZenonT(60), <2>1, <2>2
<1>4. OneRunner'
  BY ZenonT(60), <1>3 DEF OneRunner
<1>5. calls' \in [Threads -> Call]
  <2>1. \A u \in Threads : calls'[u] \in Call
    BY ZenonT(60), <1>3 DEF Fits
  <2>2. calls' = [u \in Threads |-> calls'[u]]
    BY ZenonT(60) DEF AdvanceAndNotify
  <2> QED
    BY ZenonT(60), <2>1, <2>2
<1>6. PTypeOK'
  BY ZenonT(60), <1>1, <1>5 DEF PersistInv, PTypeOK
<1> QED
  BY ZenonT(60), <1>1, <1>2, <1>3, <1>4, <1>6 DEF PersistInv

\* The end of a persist that was written.
LEMMA FinishInv ==
    ASSUME PersistInv, NEW t \in Threads, Finish(t)
    PROVE  PersistInv'
<1> DEFINE c == calls[t]
           dt == persist'.durable_through
           again == [c EXCEPT !.pc = "enter"]
           reached == dt >= c.required \/ c.kind = "now"
<1>1. /\ MaxCommit \in Nat /\ c \in Call /\ c.through \in Nat /\ c.required \in Nat
      /\ next_commit_seq \in Nat /\ 0 < next_commit_seq /\ EffectiveNext \in Nat
      /\ persist.durable_through \in Nat /\ persist.requested_through \in Nat
      /\ Fits(c, next_commit_seq, persist.durable_through, EffectiveNext)
  BY Facts
<1>2. /\ c.pc = "finish" /\ c.pc \in Runner /\ persist' = Persisted(c.through)
      /\ UNCHANGED <<memory, deltas, gate, disk>>
  BY ZenonT(60) DEF Finish, At, Runner
<1>3. /\ c.through < next_commit_seq /\ c.through < EffectiveNext /\ c.selected = {}
      /\ c.kind = "now" => c.required <= c.through
      /\ c.through \in Seqs
  BY ZenonT(60), <1>1, <1>2 DEF Fits, Call
<1>4. /\ persist \in [in_flight: BOOLEAN, requested_through: Seqs, durable_through: Seqs,
                      failed: BOOLEAN]
      /\ persist.durable_through \in Seqs /\ persist.requested_through \in Seqs
      /\ persist.durable_through <= persist.requested_through
      /\ persist.requested_through < next_commit_seq
      /\ persist.durable_through < EffectiveNext
      /\ promised \in Seqs /\ promised < EffectiveNext
  BY ZenonT(60) DEF PersistInv, PTypeOK
<1> DEFINE dl == Larger(persist.durable_through, c.through)
           rq == Larger(persist.requested_through, dl)
<1>5. /\ dl \in Seqs /\ dl \in Nat /\ dl < EffectiveNext /\ c.through <= dl
      /\ dl < next_commit_seq
  BY <1>1, <1>3, <1>4, SMTT(30) DEF Larger
<1>6. rq \in Seqs /\ rq \in Nat /\ dl <= rq /\ rq < next_commit_seq
  <2> HIDE DEF dl
  <2> QED
    BY <1>1, <1>4, <1>5 DEF Larger
<1>7. persist' = [persist EXCEPT !.in_flight = FALSE, !.failed = FALSE, !.durable_through = dl,
                                 !.requested_through = rq]
  BY <1>2 DEF Persisted
<1> HIDE DEF dl, rq
<1>8. /\ persist' \in [in_flight: BOOLEAN, requested_through: Seqs, durable_through: Seqs,
                       failed: BOOLEAN]
      /\ ~ persist'.in_flight /\ dt = dl /\ persist'.requested_through = rq
  BY <1>4, <1>5, <1>6, <1>7, ZenonT(30)
<1>9. /\ persist'.durable_through <= persist'.requested_through
      /\ persist'.requested_through < next_commit_seq
      /\ persist'.durable_through < EffectiveNext
  BY ZenonT(60), <1>5, <1>6, <1>8
<1>10. CASE reached
  <2>1. calls' = AdvanceAndNotify(t, Continued(t)) /\ Promise(t)
    BY ZenonT(60), <1>10 DEF Finish
  <2>2. c.required < EffectiveNext
    BY <1>1, <1>3, <1>5, <1>8, <1>10, SMTT(30)
  <2>3. promised' \in Seqs /\ promised' < EffectiveNext
    BY ZenonT(60), <1>1, <1>4, <2>1, <2>2, PromiseIs
  <2>4. Fits(Continued(t), next_commit_seq, dt, EffectiveNext) /\ Continued(t).pc \notin Runner
    BY ZenonT(60), <1>1, ContinuedFits
  <2> QED
    BY ZenonT(60), <1>2, <1>8, <1>9, <2>1, <2>3, <2>4, EndStep
<1>11. CASE ~ reached
  <2>1. PICK r \in {Idle, again} : calls' = AdvanceAndNotify(t, r)
    BY ZenonT(60), <1>11 DEF Finish
  <2>2. promised' = promised
    BY ZenonT(60), <1>11 DEF Finish
  <2>3. Fits(Idle, next_commit_seq, dt, EffectiveNext) /\ Idle.pc \notin Runner
    BY ZenonT(60), <1>1, IdleFits
  <2>4. /\ again \in Call /\ again.pc = "enter" /\ again.kind = c.kind
        /\ again.required = c.required /\ again.through = c.through
        /\ again.selected = c.selected
    <3> HIDE DEF c
    <3> QED
      BY ZenonT(60), <1>1 DEF Call
  <2> HIDE DEF again
  <2>5. c.required < next_commit_seq
    BY ZenonT(60), <1>1 DEF Fits
  <2>6. Fits(again, next_commit_seq, dt, EffectiveNext) /\ again.pc \notin Runner
    BY ZenonT(60), <1>3, <1>11, <2>4, <2>5 DEF Fits, Runner
  <2>7. Fits(r, next_commit_seq, dt, EffectiveNext) /\ r.pc \notin Runner
    BY ZenonT(60), <2>3, <2>6
  <2> QED
    BY ZenonT(60), <1>2, <1>4, <1>8, <1>9, <2>1, <2>2, <2>7, EndStep
<1> QED
  BY ZenonT(60), <1>10, <1>11

\* The end of a persist that failed.
LEMMA FinishFailedInv ==
    ASSUME PersistInv, NEW t \in Threads, FinishFailed(t)
    PROVE  PersistInv'
<1>1. /\ calls[t].pc \in Runner /\ persist' = [persist EXCEPT !.in_flight = FALSE, !.failed = TRUE]
      /\ UNCHANGED <<memory, deltas, gate, disk>> /\ promised' = promised
      /\ calls' = AdvanceAndNotify(t, Idle)
  BY ZenonT(60) DEF FinishFailed, At, Runner, PersistError
<1>2. /\ persist \in [in_flight: BOOLEAN, requested_through: Seqs, durable_through: Seqs,
                      failed: BOOLEAN]
      /\ persist.durable_through <= persist.requested_through
      /\ persist.requested_through < next_commit_seq
      /\ persist.durable_through < EffectiveNext
      /\ promised \in Seqs /\ promised < EffectiveNext
  BY DEF PersistInv, PTypeOK
<1>3. /\ persist' \in [in_flight: BOOLEAN, requested_through: Seqs, durable_through: Seqs,
                       failed: BOOLEAN]
      /\ ~ persist'.in_flight /\ persist'.durable_through = persist.durable_through
      /\ persist'.requested_through = persist.requested_through
  BY <1>1, <1>2, ZenonT(30)
<1>4. /\ Fits(Idle, next_commit_seq, persist'.durable_through, EffectiveNext)
      /\ Idle.pc \notin Runner
  <2>1. next_commit_seq \in Nat /\ 0 < next_commit_seq
    BY Facts
  <2> QED
    BY ZenonT(60), <2>1, IdleFits
<1> QED
  BY ZenonT(60), <1>1, <1>2, <1>3, <1>4, EndStep

\* A crash and the reopen.
LEMMA CrashInv ==
    ASSUME PersistInv, Crash
    PROVE  PersistInv'
<1> DEFINE N == EffectiveNext
           R == Recoverable \cup {[seq |-> r.seq, owner |-> r.file] : r \in disk.journal}
<1>1. /\ MaxCommit \in Nat /\ N \in 1 .. MaxCommit + 1 /\ N \in Nat /\ disk \in Disk
      /\ disk.journal = {}
  BY ZenonT(60), Facts DEF Disk
<1>2. /\ commits' = R /\ next_commit_seq' = N /\ replay_from' = disk.replay_from
      /\ pending_block_deltas' = {} /\ pending_native_file_deltas' = {} /\ prestaging' = {}
      /\ persist' = [in_flight |-> FALSE, requested_through |-> N - 1,
                     durable_through |-> N - 1, failed |-> FALSE]
      /\ gate' = [writer |-> FALSE, readers |-> {}]
      /\ calls' = [t \in Threads |-> Idle] /\ disk' = disk /\ promised' = promised
  BY ZenonT(60) DEF Crash
<1>3. EffectiveNext' = N
  BY ZenonT(60), <1>2 DEF EffectiveNext, Journaled
<1>4. R \subseteq [seq: 1 .. N - 1, owner: Owners]
  <2>1. R = Recoverable
    BY ZenonT(60), <1>1
  <2>2. ASSUME NEW c \in Recoverable PROVE c \in [seq: 1 .. N - 1, owner: Owners]
    <3>1. /\ c \in commits /\ (c.seq < disk.next_commit_seq \/ c.seq \in disk.deltas)
      BY ZenonT(60), <1>1 DEF Recoverable, Journaled
    <3>2. c \in [seq: 1 .. next_commit_seq - 1, owner: Owners]
      BY ZenonT(60), <3>1 DEF PersistInv, PTypeOK
    <3>3. c.seq < N
      <4>1. disk.next_commit_seq <= N /\ \A s \in disk.deltas : s < N
        BY ZenonT(60), <1>1, CursorOf
      <4>2. disk.next_commit_seq \in Nat /\ c.seq \in Nat
        BY SMTT(60), <1>1, <3>2, Facts DEF Disk
      <4> QED
        BY <1>1, <3>1, <4>1, <4>2
    <3>4. c.seq \in 1 .. N - 1 /\ c.owner \in Owners
      BY <1>1, <3>2, <3>3, Facts, SMTT(30)
    <3> QED
      BY ZenonT(60), <3>2, <3>4
  <2> QED
    BY ZenonT(60), <2>1, <2>2
<1>5. Fits(Idle, N, persist'.durable_through, N) /\ Idle.pc \notin Runner /\ Idle \in Call
  <2>1. Fits(Idle, N, persist'.durable_through, N) /\ Idle.pc \notin Runner
    BY <1>1, IdleFits
  <2> QED
    BY ZenonT(60), <2>1 DEF Fits
<1>6. N - 1 \in Seqs /\ N - 1 < N /\ N - 1 <= N - 1
  BY SMTT(60), <1>1 DEF Seqs
<1>7. OnDisk(disk, N, N)
  BY ZenonT(60), <1>1, CursorOf DEF PersistInv, OnDisk
<1> HIDE DEF N, R
<1>8. PTypeOK'
  BY <1>1, <1>2, <1>4, <1>5, <1>6, ZenonT(30) DEF PersistInv, PTypeOK, Disk
<1>9. OneRunner'
  BY ZenonT(60), <1>2, <1>5 DEF OneRunner
<1>10. promised < N
  BY ZenonT(60) DEF PersistInv, N
<1>11. \A t \in Threads : calls'[t] = Idle
  BY ZenonT(60), <1>2
<1> QED
  BY ZenonT(60), <1>2, <1>3, <1>5, <1>6, <1>7, <1>8, <1>9, <1>10, <1>11 DEF PersistInv

-----------------------------------------------------------------------------
(* The invariant.                                                            *)

\* The initial state.
LEMMA InitInv ==
    ASSUME PInit
    PROVE  PersistInv
<1>1. MaxCommit \in Nat /\ 0 \in Seqs /\ 1 \in 1 .. MaxCommit + 1
  BY PersistAssumption, SMTT(30) DEF Seqs
<1>2. disk \in Disk /\ disk.next_commit_seq = 1 /\ disk.deltas = {}
  BY <1>1 DEF PInit, Disk, NoCheckpoint
<1>3. EffectiveNext = 1
  <2>1. EffectiveNext \in 1 .. MaxCommit + 1
        /\ (EffectiveNext = disk.next_commit_seq \/ EffectiveNext - 1 \in disk.deltas)
    BY ZenonT(60), <1>2, CursorOf
  <2> QED
    BY ZenonT(60), <1>2, <2>1
<1>4. \A t \in Threads : calls[t] = Idle
  BY ZenonT(60) DEF PInit
<1>5. Fits(Idle, 1, 0, 1) /\ Idle.pc \notin Runner /\ Idle \in Call
  <2>1. Fits(Idle, 1, 0, 1) /\ Idle.pc \notin Runner
    BY IdleFits, SMTT(30)
  <2> QED
    BY ZenonT(60), <2>1 DEF Fits
<1>6. PTypeOK
  BY <1>1, <1>2, <1>5, SMTT(30) DEF PInit, PTypeOK, NoCheckpoint, Disk
<1>7. OneRunner
  BY ZenonT(60), <1>4, <1>5 DEF PInit, OneRunner
<1>8. OnDisk(disk, 1, 1)
  BY <1>2, SMTT(30) DEF OnDisk
<1>9. next_commit_seq = 1 /\ promised = 0 /\ persist.durable_through = 0
      /\ persist.requested_through = 0
  BY ZenonT(60) DEF PInit
<1> QED
  BY <1>3, <1>4, <1>5, <1>6, <1>7, <1>8, <1>9, SMTT(30) DEF PersistInv

\* The start of a call.
LEMMA StartInv ==
    ASSUME PersistInv, NEW t \in Threads, StartCall(t)
    PROVE  PersistInv'
<1>1. CASE StartCustodian(t)
  BY ZenonT(60), <1>1, Starts
<1>2. CASE \E o \in Owners, kind \in {"block", "full"} : Flush(t, o, kind)
  BY ZenonT(60), <1>2, Starts
<1>3. CASE \E o \in Owners :
              \/ WriteFlushed(t, o) \/ WriteAcknowledged(t, o) \/ WriteAcknowledgedLarge(t, o)
              \/ WriteFileAcknowledged(t, o) \/ RunAndPersist(t, o)
  BY ZenonT(60), <1>3, Commits
<1> QED
  BY ZenonT(60), <1>1, <1>2, <1>3 DEF StartCall

\* The steps that leave the disk alone.
LEMMA SameDisk ==
    ASSUME disk' = disk
    PROVE  EffectiveNext' = EffectiveNext
BY ZenonT(60) DEF EffectiveNext, Journaled

\* A step of a call.
LEMMA CallInv ==
    ASSUME PersistInv, NEW t \in Threads, CallStep(t)
    PROVE  PersistInv' /\ EffectiveNext <= EffectiveNext'
<1>1. EffectiveNext \in Nat
  BY ZenonT(60), Facts
<1>2. CASE WriteDeltas(t)
  BY ZenonT(60), <1>2, WriteDeltasInv
<1>3. CASE WriteImage(t)
  BY ZenonT(60), <1>3, WriteImageInv
<1>4. CASE WriteNativeMetadata(t)
  BY <1>4, WriteNativeInv
<1>5. CASE RecordDelta(t) \/ StageDelta(t) \/ FinishPrestage(t)
  <2>1. disk' = disk
    BY ZenonT(60), <1>5 DEF RecordDelta, StageDelta, FinishPrestage
  <2> QED
    BY <1>1, <1>5, <2>1, Prestaging, SameDisk, SMTT(30)
<1>6. CASE \E grace \in GraceCommits : Sweep(t, grace)
  <2>1. disk' = disk
    BY ZenonT(60), <1>6 DEF Sweep
  <2> QED
    BY <1>1, <1>6, <2>1, SweepInv, SameDisk, SMTT(30)
<1>7. CASE EnterUntil(t) \/ EnterNow(t) \/ Await(t) \/ SelectDeltas(t)
  <2>1. disk' = disk
    BY ZenonT(60), <1>7 DEF EnterUntil, EnterNow, Await, SelectDeltas
  <2>2. PersistInv'
    BY ZenonT(60), <1>7, EnterUntilInv, EnterNowInv, AwaitInv, SelectInv
  <2> QED
    BY <1>1, <2>1, <2>2, SameDisk
<1>8. CASE TakeGate(t) \/ WriteFails(t)
  <2>1. disk' = disk
    BY ZenonT(60), <1>8 DEF TakeGate, WriteFails
  <2> QED
    BY <1>1, <1>8, <2>1, GateInv, SameDisk
<1>9. CASE Finish(t) \/ FinishFailed(t)
  <2>1. disk' = disk
    BY ZenonT(60), <1>9 DEF Finish, FinishFailed
  <2>2. PersistInv'
    BY ZenonT(60), <1>9, FinishInv, FinishFailedInv
  <2> QED
    BY <1>1, <2>1, <2>2, SameDisk
<1> QED
  BY ZenonT(60), <1>2, <1>3, <1>4, <1>5, <1>6, <1>7, <1>8, <1>9 DEF CallStep

\* The start of a call writes nothing.
LEMMA StartDisk ==
    ASSUME NEW t, StartCall(t)
    PROVE  disk' = disk
BY DEF StartCall, WriteFlushed, WriteAcknowledged, WriteAcknowledgedLarge, WriteFileAcknowledged,
       Flush, RunAndPersist, StartCustodian

\* The invariant is inductive, and the cursor of a reopen never moves back.
LEMMA NextInv ==
    ASSUME PersistInv, [PNext]_pvars
    PROVE  PersistInv' /\ EffectiveNext <= EffectiveNext'
<1>1. EffectiveNext \in Nat
  BY ZenonT(60), Facts
<1>2. ASSUME NEW t \in Threads, StartCall(t)
      PROVE  PersistInv' /\ EffectiveNext <= EffectiveNext'
  BY <1>1, <1>2, StartInv, StartDisk, SameDisk
<1>3. ASSUME NEW t \in Threads, CallStep(t)
      PROVE  PersistInv' /\ EffectiveNext <= EffectiveNext'
  BY ZenonT(60), <1>3, CallInv
<1>4. CASE Crash
  <2>1. disk' = disk
    BY ZenonT(60), <1>4 DEF Crash
  <2> QED
    BY <1>1, <1>4, <2>1, CrashInv, SameDisk
<1>5. CASE UNCHANGED pvars
  <2>1. /\ next_commit_seq' = next_commit_seq /\ commits' = commits /\ replay_from' = replay_from
        /\ pending_block_deltas' = pending_block_deltas /\ prestaging' = prestaging
        /\ pending_native_file_deltas' = pending_native_file_deltas
        /\ persist' = persist /\ gate' = gate /\ disk' = disk /\ promised' = promised
        /\ calls' = calls
    BY ZenonT(60), <1>5 DEF pvars, memory, deltas
  <2>2. EffectiveNext' = EffectiveNext
    BY ZenonT(60), <2>1, SameDisk
  <2>3. PersistInv'
    BY ZenonT(60), <2>1, <2>2 DEF PersistInv, PTypeOK, OneRunner
  <2> QED
    BY <1>1, <2>2, <2>3
<1> QED
  BY ZenonT(60), <1>2, <1>3, <1>4, <1>5 DEF PNext

-----------------------------------------------------------------------------
(* Windows that reach back to the first commit.                              *)

\* Every sweep of the custodian keeps the whole history.
LongWindows == \A grace \in GraceCommits : grace > MaxCommit

\* Then every owner replays from the start, and no image leaves one out.
WindowInv ==
    /\ replay_from = [o \in Owners |-> 0]
    /\ disk.replay_from = [o \in Owners |-> 0]
    /\ disk.missing = {}

\* The initial state.
LEMMA InitWindow ==
    ASSUME PInit
    PROVE  WindowInv
BY DEF PInit, WindowInv

\* The start of a call.
LEMMA StartWindow ==
    ASSUME WindowInv, NEW t, StartCall(t)
    PROVE  WindowInv'
<1>1. replay_from' = replay_from
  BY ZenonT(60) DEF StartCall, WriteFlushed, WriteAcknowledged, WriteAcknowledgedLarge,
     WriteFileAcknowledged, Flush, RunAndPersist, StartCustodian, CommitLocally, memory
<1> QED
  BY ZenonT(60), <1>1, StartDisk DEF WindowInv

\* A step of a call.
LEMMA CallWindow ==
    ASSUME LongWindows, PersistInv, WindowInv, NEW t \in Threads, CallStep(t)
    PROVE  WindowInv'
<1>1. /\ MaxCommit \in Nat /\ next_commit_seq \in 1 .. MaxCommit + 1 /\ disk \in Disk
      /\ calls[t].through \in Nat
  BY ZenonT(60), Facts
<1>2. CASE WriteImage(t)
  <2>1. LeftOut(calls[t].through) = {}
    BY <1>1 DEF LeftOut, WindowInv
  <2>2. replay_from' = replay_from /\ disk'.replay_from = replay_from /\ disk'.missing = {}
    BY ZenonT(60), <1>2, <2>1 DEF WriteImage, memory
  <2> QED
    BY ZenonT(60), <2>2 DEF WindowInv
<1>3. CASE WriteDeltas(t) \/ WriteNativeMetadata(t)
  <2>1. /\ replay_from' = replay_from /\ disk'.replay_from = disk.replay_from
        /\ disk'.missing = disk.missing
    BY ZenonT(60), <1>1, <1>3 DEF WriteDeltas, WriteNativeMetadata, memory, Disk
  <2> QED
    BY ZenonT(60), <2>1 DEF WindowInv
<1>4. ASSUME NEW grace \in GraceCommits, Sweep(t, grace) PROVE WindowInv'
  <2>1. grace \in Nat /\ grace > MaxCommit
    BY ZenonT(60), PersistAssumption DEF LongWindows
  <2>2. ASSUME NEW o \in Owners PROVE AnchorOf(o, grace) = 0
    <3>1. Latest(o) \in 0 .. MaxCommit
      BY ZenonT(60), LatestIs DEF Seqs
    <3> QED
      BY <1>1, <2>1, <3>1 DEF AnchorOf, Smaller
  <2>3. replay_from' \in {replay_from, [o \in Owners |-> AnchorOf(o, grace)]} /\ disk' = disk
    BY ZenonT(60), <1>4 DEF Sweep
  <2>4. [o \in Owners |-> AnchorOf(o, grace)] = [o \in Owners |-> 0]
    BY ZenonT(60), <2>2
  <2> QED
    BY ZenonT(60), <2>3, <2>4 DEF WindowInv
<1>5. CASE \/ RecordDelta(t) \/ StageDelta(t) \/ FinishPrestage(t) \/ EnterUntil(t)
           \/ EnterNow(t) \/ Await(t) \/ SelectDeltas(t) \/ TakeGate(t) \/ WriteFails(t)
           \/ Finish(t) \/ FinishFailed(t)
  <2>1. replay_from' = replay_from /\ disk' = disk
    BY ZenonT(60), <1>5 DEF RecordDelta, StageDelta, FinishPrestage, EnterUntil, EnterNow,
       Await, SelectDeltas, TakeGate, WriteFails, Finish, FinishFailed, memory
  <2> QED
    BY ZenonT(60), <2>1 DEF WindowInv
<1> QED
  BY ZenonT(60), <1>2, <1>3, <1>4, <1>5 DEF CallStep

\* Every step.
LEMMA NextWindow ==
    ASSUME LongWindows, PersistInv, WindowInv, [PNext]_pvars
    PROVE  WindowInv'
<1>1. CASE Crash
  BY ZenonT(60), <1>1 DEF Crash, WindowInv
<1>2. CASE UNCHANGED pvars
  BY <1>2 DEF pvars, memory, WindowInv
<1> QED
  BY ZenonT(60), <1>1, <1>2, StartWindow, CallWindow DEF PNext

-----------------------------------------------------------------------------
(* What a reopen recovers.                                                   *)

\* Of the owners the image on disk holds, a reopen recovers exactly the commits below
\* the cursor it continues from.
LEMMA RecoversBelow ==
    ASSUME PersistInv
    PROVE  Recoverable = {c \in commits : c.seq < EffectiveNext /\ c.owner \notin disk.missing}
<1>1. /\ MaxCommit \in Nat /\ next_commit_seq \in 1 .. MaxCommit + 1 /\ disk \in Disk
      /\ EffectiveNext \in Nat /\ disk.next_commit_seq \in Nat
  BY Facts DEF Disk
<1>2. /\ disk.next_commit_seq <= EffectiveNext /\ \A s \in disk.deltas : s < EffectiveNext
  BY ZenonT(60), <1>1, CursorOf
<1>3. OnDisk(disk, next_commit_seq, EffectiveNext)
  BY DEF PersistInv
<1>4. Journaled = {}
  BY ZenonT(60), <1>1 DEF Disk, Journaled
<1>5. ASSUME NEW c \in commits
      PROVE  (c.seq < disk.next_commit_seq \/ c.seq \in disk.deltas \cup Journaled)
                 <=> c.seq < EffectiveNext
  <2>1. c.seq \in 1 .. next_commit_seq - 1
    BY DEF PersistInv, PTypeOK
  <2>2. c.seq \in 1 .. MaxCommit /\ c.seq \in Nat
    BY <1>1, <2>1
  <2> QED
    BY <1>1, <1>2, <1>3, <1>4, <2>2, SMTT(30) DEF OnDisk
<1> QED
  BY ZenonT(60), <1>5 DEF Recoverable

\* The commits a step keeps in memory, a crash included.
LEMMA KeepsCommits ==
    ASSUME [PNext]_pvars
    PROVE  Recoverable \subseteq commits'
<1>1. Recoverable \subseteq commits
  BY ZenonT(60) DEF Recoverable
<1>2. ASSUME NEW t \in Threads, StartCall(t) PROVE commits \subseteq commits'
  BY ZenonT(60), <1>2 DEF StartCall, WriteFlushed, WriteAcknowledged, WriteAcknowledgedLarge,
     WriteFileAcknowledged, Flush, RunAndPersist, StartCustodian, CommitLocally, memory
<1>3. ASSUME NEW t \in Threads, CallStep(t) PROVE commits \subseteq commits'
  BY <1>3, Zenon DEF CallStep, RecordDelta, StageDelta, FinishPrestage, Sweep, EnterUntil, EnterNow,
              Await, SelectDeltas, TakeGate, WriteDeltas, WriteImage, WriteNativeMetadata,
              WriteFails, Finish, FinishFailed, memory
<1>4. CASE Crash
  BY ZenonT(60), <1>4 DEF Crash
<1>5. CASE UNCHANGED pvars
  BY ZenonT(60), <1>1, <1>5 DEF pvars, memory
<1> QED
  BY ZenonT(60), <1>1, <1>2, <1>3, <1>4, <1>5 DEF PNext

INSTANCE FiniteSetTheorems

\* The invariant counts the runners.
LEMMA OneIsOnePersist ==
    ASSUME PersistInv
    PROVE  OnePersist
<1> DEFINE S == {t \in Threads : calls[t].pc \in Runner}
<1>1. persist.in_flight \in BOOLEAN
  BY ZenonT(60) DEF PersistInv, PTypeOK
<1>2. CASE persist.in_flight
  <2>1. PICK t \in Threads : calls[t].pc \in Runner
    BY ZenonT(60), <1>2 DEF PersistInv, OneRunner
  <2>2. S = {t}
    BY ZenonT(60), <2>1 DEF PersistInv, OneRunner
  <2>3. Cardinality(S) = 1
    BY <2>2, FS_Singleton, Zenon
  <2> QED
    BY ZenonT(60), <1>2, <2>3 DEF OnePersist, Runner
<1>3. CASE ~ persist.in_flight
  <2>1. S = {}
    BY ZenonT(60), <1>3 DEF PersistInv, OneRunner
  <2>2. Cardinality(S) = 0
    BY <2>1, FS_EmptySet, Zenon
  <2> QED
    BY ZenonT(60), <1>3, <2>2 DEF OnePersist, Runner
<1> QED
  BY ZenonT(60), <1>1, <1>2, <1>3

-----------------------------------------------------------------------------
(* The theorems.                                                             *)

\* PersistInv is an invariant: what persist_*_until, persist_now and the physical
\* persists keep between them, through failures, sweeps and crashes.
THEOREM PersistInvCorrect == PSpec => []PersistInv
<1>1. PInit => PersistInv
  BY ZenonT(60), InitInv
<1>2. PersistInv /\ [PNext]_pvars => PersistInv'
  BY ZenonT(60), NextInv
<1> QED
  BY <1>1, <1>2, PTL DEF PSpec

\* The state stays well typed and the coordinator's books stay in order: nothing is
\* durable that was not requested.
THEOREM PersistTypes == PSpec => []PTypeOK
<1>1. PersistInv => PTypeOK
  BY ZenonT(60) DEF PersistInv
<1> QED
  BY <1>1, PersistInvCorrect, PTL

\* At most one call runs a persist, and exactly while in_flight is set
\* (persist_block_deltas_until, persist_native_file_deltas_until, persist_until,
\* persist_now).
THEOREM OnePersistCorrect == PSpec => []OnePersist
<1>1. PersistInv => OnePersist
  BY ZenonT(60), OneIsOnePersist
<1> QED
  BY <1>1, PersistInvCorrect, PTL

\* Whatever the windows: of an owner the image on disk holds, a reopen loses no commit
\* below the cursor it continues from, and that cursor is past all that callers were
\* told is durable (effective_export_cursor, contiguous_pending_block_deltas).
HoldersRecover ==
    /\ promised < EffectiveNext
    /\ \A c \in commits : c.seq < EffectiveNext /\ c.owner \notin disk.missing => c \in Recoverable

\* A reopen loses nothing of an owner that the image on disk holds.
THEOREM HoldersRecoverCorrect == PSpec => []HoldersRecover
<1>1. PersistInv => HoldersRecover
  BY ZenonT(60), RecoversBelow DEF PersistInv, HoldersRecover
<1> QED
  BY <1>1, PersistInvCorrect, PTL

\* Both invariants together.
LEMMA WindowCorrect ==
    ASSUME LongWindows
    PROVE  PSpec => [](PersistInv /\ WindowInv)
<1>1. PInit => PersistInv /\ WindowInv
  BY ZenonT(60), InitInv, InitWindow
<1>2. PersistInv /\ WindowInv /\ [PNext]_pvars => PersistInv' /\ WindowInv'
  BY ZenonT(60), NextInv, NextWindow
<1> QED
  BY <1>1, <1>2, PTL DEF PSpec

\* A reopen recovers a prefix of the commits, while the custodian's windows keep the
\* whole history (metadata_through_commit, effective_export_cursor).
THEOREM RecoversPrefixCorrect ==
    ASSUME LongWindows
    PROVE  PSpec => []RecoversPrefix
<1>1. PersistInv /\ WindowInv => RecoversPrefix
  BY ZenonT(60), RecoversBelow DEF WindowInv, RecoversPrefix
<1> QED
  BY <1>1, WindowCorrect, PTL

\* Every commit a returned call reported durable survives a crash at any moment, while
\* the custodian's windows keep the whole history.
THEOREM PromisedDurableCorrect ==
    ASSUME LongWindows
    PROVE  PSpec => []PromisedDurable
<1>1. ASSUME PersistInv, WindowInv PROVE PromisedDurable
  <2>1. promised \in Nat /\ EffectiveNext \in Nat /\ promised < EffectiveNext
    BY <1>1, Facts, SMTT(30) DEF PersistInv, PTypeOK, Seqs
  <2>2. \A c \in commits : c.seq \in Nat
    BY SMTT(60), <1>1, Facts DEF PersistInv, PTypeOK
  <2> QED
    BY <1>1, <2>1, <2>2, RecoversBelow, SMTT(30) DEF WindowInv, PromisedDurable
<1>2. PersistInv /\ WindowInv => PromisedDurable
  BY ZenonT(60), <1>1
<1> QED
  BY <1>2, WindowCorrect, PTL

\* No later persist, sweep or crash takes back a commit that a reopen would recover,
\* while the custodian's windows keep the whole history.
THEOREM NeverForgottenCorrect ==
    ASSUME LongWindows
    PROVE  PSpec => NeverForgotten
<1> DEFINE Below == {c \in commits : c.seq < EffectiveNext /\ c.owner \notin disk.missing}
<1>0. (PersistInv => Recoverable = Below)'
  <2>1. PersistInv => Recoverable = Below
    BY ZenonT(60), RecoversBelow
  <2> QED
    BY <2>1, PTL
<1>1. ASSUME PersistInv, WindowInv, PersistInv', WindowInv', [PNext]_pvars
      PROVE  Recoverable \subseteq Recoverable'
  <2>1. EffectiveNext <= EffectiveNext' /\ Recoverable \subseteq commits'
    BY ZenonT(60), <1>1, NextInv, KeepsCommits
  <2>2. EffectiveNext \in Nat /\ EffectiveNext' \in Nat
    <3>1. EffectiveNext \in Nat /\ disk' \in Disk
      BY ZenonT(60), <1>1, Facts DEF PersistInv, OnDisk
    <3> QED
      BY ZenonT(60), <1>1, <3>1, CursorNow, CursorFacts
  <2>3. Recoverable' = {c \in commits' : c.seq < EffectiveNext' /\ c.owner \notin disk'.missing}
    BY ZenonT(60), <1>1, <1>0
  <2>4. ASSUME NEW c \in Recoverable PROVE c \in Recoverable'
    <3>1. c \in commits /\ c.seq < EffectiveNext
      BY ZenonT(60), <1>1, RecoversBelow
    <3>2. c.seq \in Nat
      <4>1. next_commit_seq \in Nat
        BY ZenonT(60), <1>1, Facts
      <4>2. c \in [seq: 1 .. next_commit_seq - 1, owner: Owners]
        BY ZenonT(60), <1>1, <3>1 DEF PersistInv, PTypeOK
      <4> QED
        BY SMTT(60), <4>1, <4>2
    <3>3. c \in commits' /\ c.seq < EffectiveNext'
      BY SMTT(60), <2>1, <2>2, <3>1, <3>2
    <3> QED
      BY ZenonT(60), <1>1, <2>3, <3>3 DEF WindowInv
  <2> QED
    BY ZenonT(60), <2>4
<1>2. PersistInv /\ WindowInv /\ (PersistInv /\ WindowInv)' /\ [PNext]_pvars
          => [Recoverable \subseteq Recoverable']_pvars
  BY ZenonT(60), <1>1
<1> QED
  BY <1>2, WindowCorrect, PTL DEF PSpec, NeverForgotten
=============================================================================
