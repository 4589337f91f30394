--------------------------- MODULE MCAppendIngest ---------------------------
EXTENDS AppendIngest

\* Streams 1 and 2 are on different files, stream 3 reopens the file of 1.
MCFileOf == [s \in Streams |-> IF s = 2 THEN "f2" ELSE "f1"]

\* Stream 1 appends in two chunks, stream 2 in one that is flushed.
MCInputs == [s \in Streams |-> IF s = 1 THEN {<<2, TRUE>>, <<2, FALSE>>} ELSE {<<1, TRUE>>}]

\* The threads are interchangeable.
ThreadSymmetry == Permutations(Threads)
=============================================================================
