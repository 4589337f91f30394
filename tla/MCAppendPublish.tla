--------------------------- MODULE MCAppendPublish ---------------------------
(* Instances of AppendPublish for TLC.                                       *)
EXTENDS AppendPublish, TLC

Symmetry == Permutations(Threads) \cup Permutations(Files)

=============================================================================
