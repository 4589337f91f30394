--------------------------- MODULE MCDurableStore ---------------------------
(* Instances of DurableStore for TLC.                                        *)
EXTENDS DurableStore

OneNode == [s \in Segments |-> "n1"]
TwoNodes == [s \in Segments |-> IF s % 2 = 0 THEN "n2" ELSE "n1"]

=============================================================================
