------------------------ MODULE MCPersistCoordinator ------------------------
(* Instances of PersistCoordinator for TLC.                                  *)
EXTENDS PersistCoordinator, TLC

ThreadSymmetry == Permutations(Threads)

=============================================================================
