-------------------------- MODULE MCBlockWritePath --------------------------
(* Small instances of BlockWritePath for TLC.                                *)
EXTENDS BlockWritePath, TLC

\* expire_deleted_immediately: no point-in-time window.
ExpireNow == [retain_deleted_devices |-> FALSE, deleted_device_grace_commits |-> 0,
              pitr_grace_commits |-> 0]
NoWindow == {ExpireNow}

WriterSymmetry == Permutations(Writers)

=============================================================================
