-------------------------- MODULE MCDurableRecords --------------------------
(***************************************************************************)
(* Instances of DurableRecords for TLC.                                    *)
(***************************************************************************)
EXTENDS DurableRecords

CONSTANTS L1, L2

LaneSymmetry == Permutations({L1, L2})

=============================================================================
