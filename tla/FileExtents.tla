---------------------------- MODULE FileExtents ----------------------------
(***************************************************************************)
(* How the bytes of a native file are found: the leaves of its metadata    *)
(* tree, the edits that replace a range of them, the batches of writes     *)
(* that are collapsed into whole-block segments, and the read plan that    *)
(* puts a byte range together again.                                       *)
(*                                                                         *)
(* A tree is the sequence of its leaves: interior nodes only route an edit *)
(* or a read to the leaves it overlaps, and a copied path is a new value.  *)
(* A leaf maps blocks to segments ("entries") and, on top of them, bytes   *)
(* to ranges of append logs ("runs").  Offsets count from 0, a range is    *)
(* the pair of its first offset and the offset after its last.             *)
(***************************************************************************)
EXTENDS Naturals, Sequences, SequencesExt, FiniteSetsExt, TLC

CONSTANTS
    BlockSize,      \* config.block_size
    LeafBlocks,     \* config.metadata_leaf_blocks
    FileBlocks      \* config.file_root_blocks

ASSUME ExtentAssumption ==
    /\ BlockSize \in Nat \ {0} /\ LeafBlocks \in Nat \ {0} /\ FileBlocks \in Nat \ {0}
    /\ FileBlocks % LeafBlocks = 0

Least(a, b) == IF a < b THEN a ELSE b
Most(a, b) == IF a < b THEN b ELSE a
Meet(a, b, c, d) == Most(a, c) < Least(b, d)
BlocksFor(n) == (n + BlockSize - 1) \div BlockSize
FileBytes == FileBlocks * BlockSize

Leaves == 1..(FileBlocks \div LeafBlocks)
LeafFirst(i) == (i - 1) * LeafBlocks
LeafEnd(i) == i * LeafBlocks
EmptyTree == [i \in Leaves |-> [entries |-> <<>>, runs |-> <<>>]]

\* Neighbours that fit are joined, the rest is kept.
Merged(xs, Fits(_, _), Join(_, _)) ==
    LET Add(acc, x) == IF acc # <<>> /\ Fits(Last(acc), x)
                       THEN Append(Front(acc), Join(Last(acc), x))
                       ELSE Append(acc, x)
    IN FoldLeft(Add, <<>>, xs)

CutAll(xs, Cut(_)) == FlattenSeq([i \in DOMAIN xs |-> Cut(xs[i])])

-----------------------------------------------------------------------------
(* Segment entries, in blocks, and run extents, in bytes.                  *)

EntryEnd(e) == e.start + e.blocks
CoalesceLeafEntries(es) ==
    Merged(es, LAMBDA p, e : p.seg = e.seg /\ EntryEnd(p) = e.start /\ p.off + p.blocks = e.off,
               LAMBDA p, e : [p EXCEPT !.blocks = @ + e.blocks])

CutEntry(e, a, b) ==
    IF ~Meet(e.start, EntryEnd(e), a, b) THEN <<e>>
    ELSE (IF e.start < a THEN <<[e EXCEPT !.blocks = a - e.start]>> ELSE <<>>)
         \o (IF b < EntryEnd(e)
             THEN <<[e EXCEPT !.start = b, !.blocks = EntryEnd(e) - b, !.off = @ + (b - e.start)]>>
             ELSE <<>>)

ReplaceLeafEntries(es, a, b, new) ==
    CoalesceLeafEntries(SortSeq(CutAll(es, LAMBDA e : CutEntry(e, a, b)) \o new,
                                LAMBDA e, g : e.start < g.start))

\* A slice of a run has no checksum of its own: its integrity is unchecked.
RunEnd(r) == r.at + r.len
SliceRun(r, a, b) ==
    [r EXCEPT !.at = a, !.len = b - a, !.pos = @ + (a - r.at),
              !.sum = @ /\ a = r.at /\ b = RunEnd(r)]

CoalesceRuns(rs) ==
    Merged(rs, LAMBDA p, r : /\ p.run = r.run /\ p.log = r.log /\ p.sum = r.sum
                             /\ RunEnd(p) = r.at /\ p.pos + p.len = r.pos,
               LAMBDA p, r : [p EXCEPT !.len = @ + r.len])

CutRun(r, a, b) ==
    IF ~Meet(r.at, RunEnd(r), a, b) THEN <<r>>
    ELSE (IF r.at < a THEN <<SliceRun(r, r.at, a)>> ELSE <<>>)
         \o (IF b < RunEnd(r) THEN <<SliceRun(r, b, RunEnd(r))>> ELSE <<>>)

ReplaceRuns(rs, a, b, new) ==
    CoalesceRuns(SortSeq(CutAll(rs, LAMBDA r : CutRun(r, a, b)) \o new,
                         LAMBDA r, q : r.at < q.at))

-----------------------------------------------------------------------------
(* Edits of a tree: blocks a..b-1 to a segment whose first block is block  *)
(* "base" of the file, or bytes a..b-1 to runs of append logs.             *)

ReplaceTreeRange(tree, a, b, seg, base) ==
    [i \in Leaves |->
        LET x == Most(a, LeafFirst(i))
            y == Least(b, LeafEnd(i))
        IN IF x >= y THEN tree[i]
           ELSE [entries |-> ReplaceLeafEntries(tree[i].entries, x, y,
                                 <<[start |-> x, blocks |-> y - x, seg |-> seg, off |-> x - base]>>),
                 runs |-> ReplaceRuns(tree[i].runs, x * BlockSize, y * BlockSize, <<>>)]]

ReplaceTreeByteRange(tree, a, b, new) ==
    [i \in Leaves |->
        LET x == Most(a, LeafFirst(i) * BlockSize)
            y == Least(b, LeafEnd(i) * BlockSize)
            Part(r) == IF Meet(r.at, RunEnd(r), x, y)
                       THEN <<SliceRun(r, Most(r.at, x), Least(RunEnd(r), y))>> ELSE <<>>
        IN IF x >= y THEN tree[i]
           ELSE [tree[i] EXCEPT !.runs = ReplaceRuns(@, x, y, CutAll(new, Part))]]

-----------------------------------------------------------------------------
(* A batch of writes [at, bytes]: later ones overwrite earlier ones, and   *)
(* what is left is grouped into runs of whole blocks, one segment each.    *)

WriteEnd(w) == w.at + Len(w.bytes)

InsertCollapsed(ws, w) ==
    LET Cut(v) == IF WriteEnd(v) <= w.at \/ v.at >= WriteEnd(w) THEN <<v>>
                  ELSE (IF v.at < w.at THEN <<[v EXCEPT !.bytes = SubSeq(@, 1, w.at - v.at)]>>
                        ELSE <<>>)
                       \o (IF WriteEnd(v) > WriteEnd(w)
                           THEN <<[at |-> WriteEnd(w),
                                   bytes |-> SubSeq(v.bytes, WriteEnd(w) - v.at + 1, Len(v.bytes))]>>
                           ELSE <<>>)
    IN SortSeq(Append(CutAll(ws, Cut), w), LAMBDA v, u : v.at < u.at)

\* The batch is refused when a write starts past what is written before it.
Collapse(ws, size) ==
    LET Add(acc, w) ==
            [ok   |-> acc.ok /\ w.at <= acc.size,
             size |-> Most(acc.size, WriteEnd(w)),
             ws   |-> IF w.bytes = <<>> THEN acc.ws ELSE InsertCollapsed(acc.ws, w)]
    IN FoldLeft(Add, [ok |-> ws # <<>>, size |-> size, ws |-> <<>>], ws)

Groups(ws) ==
    LET Group(w) == [first |-> w.at \div BlockSize, end |-> BlocksFor(WriteEnd(w)), ws |-> <<w>>]
    IN Merged([i \in DOMAIN ws |-> Group(ws[i])],
              LAMBDA g, h : h.first <= g.end,
              LAMBDA g, h : [g EXCEPT !.end = Most(@, h.end), !.ws = @ \o h.ws])

Covers(ws, a, b) ==
    FoldLeft(LAMBDA through, w : IF w.at <= through THEN Most(through, WriteEnd(w)) ELSE through,
             a, ws) >= b

Put(bytes, at, new) ==
    [i \in DOMAIN bytes |-> IF i > at /\ i <= at + Len(new) THEN new[i - at] ELSE bytes[i]]

Overlay(bytes, first, ws) ==
    FoldLeft(LAMBDA acc, w : Put(acc, w.at - first * BlockSize, w.bytes), bytes, ws)

-----------------------------------------------------------------------------
(* Reading bytes a..b-1.  A piece of the plan: where it goes in the output *)
(* and how long it is, which store it comes from and where.                *)

Zero == <<0, 0, 0>>
Zeroes(n) == [i \in 1..n |-> Zero]

\* The leaves under blocks the request touches.
Touched(a, b) ==
    SelectSeq([i \in Leaves |-> i],
              LAMBDA i : Meet(LeafFirst(i), LeafEnd(i), a \div BlockSize, BlocksFor(b)))

SegmentExtents(tree, a, b) ==
    LET Piece(e) ==
            LET from == e.start * BlockSize
                x == Most(from, a)
                y == Least(EntryEnd(e) * BlockSize, b)
            IN IF x >= y THEN <<>>
               ELSE <<[out |-> x - a, len |-> y - x, store |-> "segment", id |-> e.seg,
                       pos |-> e.off * BlockSize + (x - from)]>>
    IN CutAll(Touched(a, b), LAMBDA i : CutAll(tree[i].entries, Piece))

RunExtents(tree, a, b) ==
    LET Piece(r) ==
            IF ~Meet(r.at, RunEnd(r), a, b) THEN <<>>
            ELSE LET s == SliceRun(r, Most(r.at, a), Least(RunEnd(r), b)) IN
                 <<[out |-> s.at - a, len |-> s.len, store |-> "log", id |-> s.log, pos |-> s.pos]>>
    IN CutAll(Touched(a, b), LAMBDA i : CutAll(tree[i].runs, Piece))

SlicePiece(p, from, n) == [p EXCEPT !.out = from, !.len = n, !.pos = @ + (from - p.out)]

\* What the runs cover is taken out of the segment pieces.
TrimForRuns(segments, runs) ==
    LET Around(p, r) ==
            LET x == Most(p.out, r.out)
                y == Least(p.out + p.len, r.out + r.len)
            IN IF x >= y THEN <<p>>
               ELSE (IF p.out < x THEN <<SlicePiece(p, p.out, x - p.out)>> ELSE <<>>)
                    \o (IF y < p.out + p.len THEN <<SlicePiece(p, y, p.out + p.len - y)>> ELSE <<>>)
        Trim(p) == FoldLeft(LAMBDA ps, r : CutAll(ps, LAMBDA q : Around(q, r)), <<p>>, runs)
    IN CutAll(segments, Trim)

\* Pieces in output order; the plan is corrupt when two overlap, and the
\* gaps between them read as zeroes.
ReadPlan(tree, a, b) ==
    LET runs == RunExtents(tree, a, b)
    IN SortSeq(TrimForRuns(SegmentExtents(tree, a, b), runs) \o runs, LAMBDA p, q : p.out < q.out)

PlanSound(plan, n) ==
    /\ \A i \in DOMAIN plan : plan[i].len > 0 /\ plan[i].out + plan[i].len <= n
    /\ \A i \in 1..(Len(plan) - 1) : plan[i].out + plan[i].len <= plan[i + 1].out

Assemble(plan, n, segments, logs) ==
    LET Source(p) == IF p.store = "segment" THEN segments[p.id] ELSE logs[p.id]
    IN FoldLeft(LAMBDA buf, p : Put(buf, p.out, SubSeq(Source(p), p.pos + 1, p.pos + p.len)),
                Zeroes(n), plan)

ReadBytes(tree, a, b, segments, logs) == Assemble(ReadPlan(tree, a, b), b - a, segments, logs)
=============================================================================
