--------------------------- MODULE MCMetadataPlane ---------------------------
(* Small instances of MetadataPlane for TLC.                                 *)
EXTENDS MetadataPlane, TLC

\* The policies RetentionPolicy's constructors build: expire_deleted_immediately,
\* expire_deleted_after_commits(1) with a window of 2 commits, and
\* retain_deleted_devices with a window of 3.
ExpireNow == [retain_deleted_devices |-> FALSE, deleted_device_grace_commits |-> 0,
              pitr_grace_commits |-> 0]
Window2 == [retain_deleted_devices |-> FALSE, deleted_device_grace_commits |-> 1,
            pitr_grace_commits |-> 2]
Window3 == [retain_deleted_devices |-> TRUE, deleted_device_grace_commits |-> 0,
            pitr_grace_commits |-> 3]

MixedPolicies == {ExpireNow, Window2}
WindowPolicies == {Window2}
RetainingPolicies == {Window3}

WriterSymmetry == Permutations(Writers)

=============================================================================
