--------------------------- MODULE MCNativeFiles ---------------------------
(* Values for model checking NativeFiles. *)
EXTENDS NativeFiles

W(at, len) == [at |-> at, len |-> len]
\* Two writes with a hole between them, and a third over the second.
MCBatches == {<<W(3, 2), W(0, 2), W(1, 1)>>}
MCGrants == {W(2, 2)}
MCAppends == {[len |-> 3, flushed |-> FALSE]}
MCSymmetry == Permutations(Threads)
=============================================================================
