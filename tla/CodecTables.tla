----------------------------- MODULE CodecTables -----------------------------
(***************************************************************************)
(* The layout of every durable row, journal record and wire message of     *)
(* src/src/local/codec.rs and of the deltas of durable/sqlite.rs.          *)
(*                                                                         *)
(* Each group of `impl DurableCodec` blocks gives two tables, because the  *)
(* code says its layout twice.  An Out table is what the encode functions  *)
(* write: for each arm its tag and its fields in the order they are put.   *)
(* An In table is what the decode functions read: the tags they match and  *)
(* the fields they fill, each with the type whose decode they call.  A     *)
(* struct has the single arm "" and no tag (0); a versioned struct starts  *)
(* with the byte 1.  In an In table a field is followed by its type.       *)
(*                                                                         *)
(* RemoteWireRequest and RemoteWireReply are generic in their payload;     *)
(* the tables take one instance of each.  FileWriterEpoch stands for the   *)
(* pairs that NativeMetadataDelta puts in a loop of its own.               *)
(***************************************************************************)
EXTENDS Integers, Sequences, TLC

Arm(name, tag, fields) == [arm |-> name, tag |-> tag, fields |-> fields]

Struct(fields) == <<Arm("", 0, fields)>>

Versioned(fields) == <<Arm("", 1, fields)>>

Units(names) == [i \in DOMAIN names |-> Arm(names[i], i, <<>>)]

-------------------------------------------------------------------------------
(* Scalars and containers. *)

U128Ids == {"AppendPublishTicketId", "AppendRunId", "AppendStreamId", "AppendTicketId",
            "CheckpointId", "CommitGroupId", "DeviceId", "ExtentId", "FileId", "GrantId",
            "GrantNonce", "KeyspaceCatalogShardId", "KeyspaceId", "KeyspaceRootId",
            "MetadataNodeId", "PrincipalId", "RequestId", "SegmentId", "StorageNodeId",
            "StorageNodeKeyId", "TenantId", "WriteIntentId"}

U64Ids == {"BlockCount", "BlockIndex", "ClientEpoch", "CommitSeq", "DeviceGeneration",
           "FileVersion", "GrantEpoch", "KeyspaceGeneration", "LogicalDeadline", "LogicalTime",
           "ServerIncarnation", "WriterEpoch"}

\* The number of bytes of each scalar.
Width == [t \in U128Ids |-> 16] @@ [t \in U64Ids |-> 8]
         @@ [t \in {"ProofTag", "GrantHash"} |-> 32]
         @@ "u8" :> 1 @@ "u32" :> 4 @@ "ShardId" :> 4 @@ "u64" :> 8 @@ "usize" :> 8
         @@ "u128" :> 16

\* The collections and options the tables mention; "key" only means something for a map.
Box(kind, of) == [kind |-> kind, key |-> "", of |-> of]

BTreeMap(key, of) == [kind |-> "Map", key |-> key, of |-> of]

Container ==
    "BTreeMap<CommitGroupId, CommitGroup>" :> BTreeMap("CommitGroupId", "CommitGroup")
    @@ "BTreeMap<FileId, KeyspaceFile>" :> BTreeMap("FileId", "KeyspaceFile")
    @@ "BTreeMap<KeyspaceCatalogShardId, KeyspaceCatalogShard>" :>
           BTreeMap("KeyspaceCatalogShardId", "KeyspaceCatalogShard")
    @@ "BTreeMap<KeyspaceId, KeyspaceHead>" :> BTreeMap("KeyspaceId", "KeyspaceHead")
    @@ "BTreeMap<KeyspaceRootId, KeyspaceRoot>" :> BTreeMap("KeyspaceRootId", "KeyspaceRoot")
    @@ "BTreeMap<MetadataNodeId, MetadataNode>" :> BTreeMap("MetadataNodeId", "MetadataNode")
    @@ "Option<DeviceId>" :> Box("Option", "DeviceId")
    @@ "Option<FileVersion>" :> Box("Option", "FileVersion")
    @@ "Option<KeyspaceId>" :> Box("Option", "KeyspaceId")
    @@ "Option<LogicalDeadline>" :> Box("Option", "LogicalDeadline")
    @@ "Option<MetadataNodeId>" :> Box("Option", "MetadataNodeId")
    @@ "Option<SegmentWriteReceipt>" :> Box("Option", "SegmentWriteReceipt")
    @@ "Option<String>" :> Box("Option", "String")
    @@ "Option<u64>" :> Box("Option", "u64")
    @@ "Vec<AppendStreamRunRecord>" :> Box("Vec", "AppendStreamRunRecord")
    @@ "Vec<AppendStreamState>" :> Box("Vec", "AppendStreamState")
    @@ "Vec<AppendVisiblePublish>" :> Box("Vec", "AppendVisiblePublish")
    @@ "Vec<BlockBatchWrite>" :> Box("Vec", "BlockBatchWrite")
    @@ "Vec<FileBatchWrite>" :> Box("Vec", "FileBatchWrite")
    @@ "Vec<FileCommit>" :> Box("Vec", "FileCommit")
    @@ "Vec<FileWriterEpoch>" :> Box("Vec", "FileWriterEpoch")
    @@ "Vec<KeyspaceCatalogShardId>" :> Box("Vec", "KeyspaceCatalogShardId")
    @@ "Vec<KeyspaceCommit>" :> Box("Vec", "KeyspaceCommit")
    @@ "Vec<LeafEntry>" :> Box("Vec", "LeafEntry")
    @@ "Vec<MetadataChild>" :> Box("Vec", "MetadataChild")
    @@ "Vec<MetadataNodeId>" :> Box("Vec", "MetadataNodeId")
    @@ "Vec<RootUpdate>" :> Box("Vec", "RootUpdate")
    @@ "Vec<RunBackedFileExtent>" :> Box("Vec", "RunBackedFileExtent")
    @@ "Vec<SegmentId>" :> Box("Vec", "SegmentId")
    @@ "Vec<u8>" :> Box("Vec", "u8")
    @@ "String" :> Box("String", "u8")

-------------------------------------------------------------------------------
\* A file's key, and the pairs of the writer epoch map.
FileKeyOut ==
    "(KeyspaceId, FileId)" :> Struct(<<"0", "1">>)
    @@ "FileWriterEpoch" :> Struct(<<"key", "epoch">>)

FileKeyIn ==
    "(KeyspaceId, FileId)" :> Struct(<<"0", "KeyspaceId", "1", "FileId">>)
    @@ "FileWriterEpoch" :> Struct(<<"key", "(KeyspaceId, FileId)", "epoch", "WriterEpoch">>)

\* Configuration, ranges and owners.
SpecOut ==
    "LocalStoreConfig" :> Struct(<<"shard_count", "block_size", "file_root_blocks",
           "metadata_fanout", "metadata_leaf_blocks", "storage_node",
           "observability_event_capacity", "stream_auto_persist_bytes">>)
    @@ "DeviceSpec" :> Struct(<<"logical_blocks", "block_size">>)
    @@ "ByteRange" :> Struct(<<"offset", "len">>)
    @@ "BlockRange" :> Struct(<<"start", "blocks">>)
    @@ "MappingOwner" :> <<
           Arm("BlockDevice", 1, <<"device_id">>),
           Arm("NativeKeyspace", 2, <<"keyspace_id">>)>>

SpecIn ==
    "LocalStoreConfig" :> Struct(<<"shard_count", "usize", "block_size", "u32",
           "file_root_blocks", "u64", "metadata_fanout", "usize", "metadata_leaf_blocks", "u64",
           "storage_node", "StorageNodeId", "observability_event_capacity", "usize",
           "stream_auto_persist_bytes", "Option<u64>">>)
    @@ "DeviceSpec" :> Struct(<<"logical_blocks", "u64", "block_size", "u32">>)
    @@ "ByteRange" :> Struct(<<"offset", "u64", "len", "u64">>)
    @@ "BlockRange" :> Struct(<<"start", "BlockIndex", "blocks", "BlockCount">>)
    @@ "MappingOwner" :> <<
           Arm("BlockDevice", 1, <<"device_id", "DeviceId">>),
           Arm("NativeKeyspace", 2, <<"keyspace_id", "KeyspaceId">>)>>

\* Heads of devices, keyspaces and files, whole and per shard.
HeadOut ==
    "DeviceHead" :> Struct(<<"device_id", "generation", "shard_roots", "latest_commit">>)
    @@ "DurableDeviceManifest" :> Struct(<<"device_id", "shard_count">>)
    @@ "DurableDeviceShardHead" :> Struct(<<"device_id", "shard_id", "root", "generation",
           "latest_commit">>)
    @@ "DurableKeyspaceManifest" :> Struct(<<"keyspace_id", "shard_count", "file_count">>)
    @@ "DurableKeyspaceShardHead" :> Struct(<<"keyspace_id", "shard_index", "root", "generation",
           "latest_commit">>)
    @@ "KeyspaceHead" :> Struct(<<"keyspace_id", "generation", "shard_roots", "file_count",
           "latest_commit">>)
    @@ "FileHead" :> Struct(<<"file_id", "version", "root", "size", "latest_commit">>)

HeadIn ==
    "DeviceHead" :> Struct(<<"device_id", "DeviceId", "generation", "DeviceGeneration",
           "shard_roots", "Vec<MetadataNodeId>", "latest_commit", "CommitSeq">>)
    @@ "DurableDeviceManifest" :> Struct(<<"device_id", "DeviceId", "shard_count", "u64">>)
    @@ "DurableDeviceShardHead" :> Struct(<<"device_id", "DeviceId", "shard_id", "ShardId",
           "root", "MetadataNodeId", "generation", "DeviceGeneration",
           "latest_commit", "CommitSeq">>)
    @@ "DurableKeyspaceManifest" :> Struct(<<"keyspace_id", "KeyspaceId", "shard_count", "u64",
           "file_count", "u64">>)
    @@ "DurableKeyspaceShardHead" :> Struct(<<"keyspace_id", "KeyspaceId", "shard_index", "u32",
           "root", "KeyspaceCatalogShardId", "generation", "KeyspaceGeneration",
           "latest_commit", "CommitSeq">>)
    @@ "KeyspaceHead" :> Struct(<<"keyspace_id", "KeyspaceId",
           "generation", "KeyspaceGeneration", "shard_roots", "Vec<KeyspaceCatalogShardId>",
           "file_count", "usize", "latest_commit", "CommitSeq">>)
    @@ "FileHead" :> Struct(<<"file_id", "FileId", "version", "FileVersion",
           "root", "MetadataNodeId", "size", "u64", "latest_commit", "CommitSeq">>)

\* The keyspace catalog, and what metadata nodes are made of.
CatalogOut ==
    "KeyspaceFile" :> Struct(<<"name", "head">>)
    @@ "KeyspaceCatalogShard" :> Struct(<<"shard_id", "files">>)
    @@ "KeyspaceRoot" :> Struct(<<"root_id", "shard_roots", "file_count">>)
    @@ "MetadataChild" :> Struct(<<"range", "node_id">>)
    @@ "LeafEntry" :> Struct(<<"logical_start", "blocks", "segment_id", "segment_offset">>)

CatalogIn ==
    "KeyspaceFile" :> Struct(<<"name", "Option<String>", "head", "FileHead">>)
    @@ "KeyspaceCatalogShard" :> Struct(<<"shard_id", "KeyspaceCatalogShardId",
           "files", "BTreeMap<FileId, KeyspaceFile>">>)
    @@ "KeyspaceRoot" :> Struct(<<"root_id", "KeyspaceRootId",
           "shard_roots", "Vec<KeyspaceCatalogShardId>", "file_count", "usize">>)
    @@ "MetadataChild" :> Struct(<<"range", "BlockRange", "node_id", "MetadataNodeId">>)
    @@ "LeafEntry" :> Struct(<<"logical_start", "BlockIndex", "blocks", "BlockCount",
           "segment_id", "SegmentId", "segment_offset", "BlockIndex">>)

\* Append runs and the extents that point into them.
RunOut ==
    "AppendLogRun" :> Struct(<<"run_id", "storage_node", "stream_id", "writer_epoch",
           "keyspace_id", "file_id", "file_offset_start", "payload_len", "log_id",
           "log_payload_offset", "log_record_bytes", "integrity">>)
    @@ "AppendLogRunRange" :> Struct(<<"run_id", "storage_node", "stream_id", "writer_epoch",
           "keyspace_id", "file_id", "file_offset_start", "payload_len", "log_id",
           "log_payload_offset", "integrity">>)
    @@ "RunBackedFileExtent" :> Struct(<<"file_offset_start", "payload_len", "run">>)

RunIn ==
    "AppendLogRun" :> Struct(<<"run_id", "AppendRunId", "storage_node", "StorageNodeId",
           "stream_id", "AppendStreamId", "writer_epoch", "WriterEpoch",
           "keyspace_id", "KeyspaceId", "file_id", "FileId", "file_offset_start", "u64",
           "payload_len", "u64", "log_id", "u64", "log_payload_offset", "u64",
           "log_record_bytes", "u64", "integrity", "SegmentPayloadIntegrity">>)
    @@ "AppendLogRunRange" :> Struct(<<"run_id", "AppendRunId", "storage_node", "StorageNodeId",
           "stream_id", "AppendStreamId", "writer_epoch", "WriterEpoch",
           "keyspace_id", "KeyspaceId", "file_id", "FileId", "file_offset_start", "u64",
           "payload_len", "u64", "log_id", "u64", "log_payload_offset", "u64",
           "integrity", "SegmentPayloadIntegrity">>)
    @@ "RunBackedFileExtent" :> Struct(<<"file_offset_start", "u64", "payload_len", "u64",
           "run", "AppendLogRunRange">>)

\* Publish records and metadata nodes.
NodeOut ==
    "AppendVisiblePublish" :> Versioned(<<"record_id", "commit_seq", "keyspace_id", "file_id",
           "base_writer_epoch", "writer_epoch", "base_file_version", "new_file_version",
           "old_size", "new_size", "publish_through", "run_extents">>)
    @@ "MetadataNodeKind" :> <<
           Arm("Internal", 1, <<"children">>),
           Arm("Leaf", 2, <<"entries", "run_extents">>)>>
    @@ "MetadataNode" :> Struct(<<"node_id", "covered_range", "kind">>)

NodeIn ==
    "AppendVisiblePublish" :> Versioned(<<"record_id", "AppendPublishTicketId",
           "commit_seq", "CommitSeq", "keyspace_id", "KeyspaceId", "file_id", "FileId",
           "base_writer_epoch", "WriterEpoch", "writer_epoch", "WriterEpoch",
           "base_file_version", "FileVersion", "new_file_version", "FileVersion",
           "old_size", "u64", "new_size", "u64", "publish_through", "u64",
           "run_extents", "Vec<RunBackedFileExtent>">>)
    @@ "MetadataNodeKind" :> <<
           Arm("Internal", 1, <<"children", "Vec<MetadataChild>">>),
           Arm("Leaf", 2, <<"entries", "Vec<LeafEntry>",
               "run_extents", "Vec<RunBackedFileExtent>">>)>>
    @@ "MetadataNode" :> Struct(<<"node_id", "MetadataNodeId", "covered_range", "BlockRange",
           "kind", "MetadataNodeKind">>)

\* Segment descriptors, root updates and commit groups.
GroupOut ==
    "SegmentPayloadIntegrity" :> <<
           Arm("Crc32c", 1, <<"checksum">>),
           Arm("Unchecked", 2, <<>>)>>
    @@ "SegmentDescriptor" :> Struct(<<"segment_id", "blocks", "bytes", "integrity">>)
    @@ "ShardRootUpdate" :> Struct(<<"shard_id", "old_root", "new_root">>)
    @@ "RootUpdate" :> <<
           Arm("BlockShard", 1, <<"update">>),
           Arm("FileCreated", 2, <<"file_id", "new_root", "new_size">>),
           Arm("FileRoot", 3, <<"file_id", "old_root", "new_root", "new_size">>)>>
    @@ "CommitGroup" :> Struct(<<"commit_group", "commit_seq", "owner", "updates">>)

GroupIn ==
    "SegmentPayloadIntegrity" :> <<
           Arm("Crc32c", 1, <<"checksum", "u64">>),
           Arm("Unchecked", 2, <<>>)>>
    @@ "SegmentDescriptor" :> Struct(<<"segment_id", "SegmentId", "blocks", "BlockCount",
           "bytes", "u64", "integrity", "SegmentPayloadIntegrity">>)
    @@ "ShardRootUpdate" :> Struct(<<"shard_id", "ShardId", "old_root", "MetadataNodeId",
           "new_root", "MetadataNodeId">>)
    @@ "RootUpdate" :> <<
           Arm("BlockShard", 1, <<"update", "ShardRootUpdate">>),
           Arm("FileCreated", 2, <<"file_id", "FileId", "new_root", "MetadataNodeId",
               "new_size", "u64">>),
           Arm("FileRoot", 3, <<"file_id", "FileId", "old_root", "MetadataNodeId",
               "new_root", "MetadataNodeId", "new_size", "u64">>)>>
    @@ "CommitGroup" :> Struct(<<"commit_group", "CommitGroupId", "commit_seq", "CommitSeq",
           "owner", "MappingOwner", "updates", "Vec<RootUpdate>">>)

\* The commit records of the timelines.
CommitOut ==
    "ForkRecord" :> Struct(<<"commit_seq", "source", "target", "shard_roots">>)
    @@ "ShardCommit" :> Struct(<<"commit_seq", "commit_group", "time", "device_id", "shard_id",
           "old_root", "new_root">>)
    @@ "KeyspaceCommit" :> Struct(<<"commit_seq", "commit_group", "time", "keyspace_id",
           "shard_index", "old_shard", "new_shard", "old_file_count", "new_file_count">>)
    @@ "FileCommit" :> Struct(<<"commit_seq", "commit_group", "time", "keyspace_id", "file_id",
           "old_root", "new_root", "old_version", "new_version", "old_size", "new_size">>)

CommitIn ==
    "ForkRecord" :> Struct(<<"commit_seq", "CommitSeq", "source", "DeviceId",
           "target", "DeviceId", "shard_roots", "Vec<MetadataNodeId>">>)
    @@ "ShardCommit" :> Struct(<<"commit_seq", "CommitSeq", "commit_group", "CommitGroupId",
           "time", "LogicalTime", "device_id", "DeviceId", "shard_id", "ShardId",
           "old_root", "MetadataNodeId", "new_root", "MetadataNodeId">>)
    @@ "KeyspaceCommit" :> Struct(<<"commit_seq", "CommitSeq", "commit_group", "CommitGroupId",
           "time", "LogicalTime", "keyspace_id", "KeyspaceId", "shard_index", "u32",
           "old_shard", "KeyspaceCatalogShardId", "new_shard", "KeyspaceCatalogShardId",
           "old_file_count", "usize", "new_file_count", "usize">>)
    @@ "FileCommit" :> Struct(<<"commit_seq", "CommitSeq", "commit_group", "CommitGroupId",
           "time", "LogicalTime", "keyspace_id", "KeyspaceId", "file_id", "FileId",
           "old_root", "Option<MetadataNodeId>", "new_root", "MetadataNodeId",
           "old_version", "Option<FileVersion>", "new_version", "FileVersion", "old_size", "u64",
           "new_size", "u64">>)

\* A fault of the checkpoint codec: the time is put before the commit sequence.
CheckpointOutSwapped ==
    "DeleteRecord" :> Struct(<<"time", "commit_seq", "device_id", "shard_roots">>)
    @@ "CheckpointRoots" :> <<
           Arm("BlockShard", 1, <<"roots">>),
           Arm("NativeKeyspace", 2, <<"root">>)>>
    @@ "Checkpoint" :> Struct(<<"checkpoint_id", "commit_seq", "time", "owner", "roots">>)

\* Deletions and checkpoints.
CheckpointOut ==
    "DeleteRecord" :> Struct(<<"commit_seq", "time", "device_id", "shard_roots">>)
    @@ "CheckpointRoots" :> <<
           Arm("BlockShard", 1, <<"roots">>),
           Arm("NativeKeyspace", 2, <<"root">>)>>
    @@ "Checkpoint" :> Struct(<<"checkpoint_id", "commit_seq", "time", "owner", "roots">>)

CheckpointIn ==
    "DeleteRecord" :> Struct(<<"commit_seq", "CommitSeq", "time", "LogicalTime",
           "device_id", "DeviceId", "shard_roots", "Vec<MetadataNodeId>">>)
    @@ "CheckpointRoots" :> <<
           Arm("BlockShard", 1, <<"roots", "Vec<MetadataNodeId>">>),
           Arm("NativeKeyspace", 2, <<"root", "KeyspaceRootId">>)>>
    @@ "Checkpoint" :> Struct(<<"checkpoint_id", "CheckpointId", "commit_seq", "CommitSeq",
           "time", "LogicalTime", "owner", "MappingOwner", "roots", "CheckpointRoots">>)

\* Reservations, placements and proofs.
ReplicaOut ==
    "SegmentReservationIntent" :> Struct(<<"write_intent", "owner", "bytes">>)
    @@ "SegmentReservation" :> Struct(<<"segment_id", "bytes">>)
    @@ "SegmentReplicaPlacement" :> Struct(<<"segment_id", "storage_node", "offset", "bytes">>)
    @@ "SegmentReplicaCommit" :> Struct(<<"descriptor", "placement">>)
    @@ "ProofScheme" :> Units(<<"DeterministicTestMacV1", "NodeSignatureV1">>)

ReplicaIn ==
    "SegmentReservationIntent" :> Struct(<<"write_intent", "WriteIntentId",
           "owner", "MappingOwner", "bytes", "u64">>)
    @@ "SegmentReservation" :> Struct(<<"segment_id", "SegmentId", "bytes", "u64">>)
    @@ "SegmentReplicaPlacement" :> Struct(<<"segment_id", "SegmentId",
           "storage_node", "StorageNodeId", "offset", "u64", "bytes", "u64">>)
    @@ "SegmentReplicaCommit" :> Struct(<<"descriptor", "SegmentDescriptor",
           "placement", "SegmentReplicaPlacement">>)
    @@ "ProofScheme" :> Units(<<"DeterministicTestMacV1", "NodeSignatureV1">>)

\* Grants and receipts.
ReceiptOut ==
    "WriteGrantIntent" :> <<
           Arm("BlockWrite", 1, <<"device_id", "range", "fence", "shard_id", "old_root">>),
           Arm("NativeWrite", 2, <<"keyspace_id", "file_id", "range", "base_version">>),
           Arm("NativeAppendStream", 3, <<"keyspace_id", "file_id", "stream_id", "ticket_id",
               "append_offset", "bytes", "writer_epoch">>),
           Arm("Internal", 4, <<"owner">>)>>
    @@ "SegmentReceiptLifecycle" :> Units(<<"DurablePendingMetadata">>)
    @@ "SegmentWriteReceipt" :> Struct(<<"tenant", "grant_id", "grant_hash", "principal",
           "owner", "storage_node", "storage_node_incarnation", "segment_id", "write_intent",
           "intent", "bytes", "integrity", "durability", "lifecycle", "receipt_epoch",
           "expires_at", "node_key_id", "proof_scheme", "proof", "descriptor", "placement">>)

ReceiptIn ==
    "WriteGrantIntent" :> <<
           Arm("BlockWrite", 1, <<"device_id", "DeviceId", "range", "BlockRange",
               "fence", "DeviceGeneration", "shard_id", "ShardId", "old_root", "MetadataNodeId">>),
           Arm("NativeWrite", 2, <<"keyspace_id", "KeyspaceId", "file_id", "FileId",
               "range", "ByteRange", "base_version", "FileVersion">>),
           Arm("NativeAppendStream", 3, <<"keyspace_id", "KeyspaceId", "file_id", "FileId",
               "stream_id", "AppendStreamId", "ticket_id", "AppendTicketId",
               "append_offset", "u64", "bytes", "u64", "writer_epoch", "WriterEpoch">>),
           Arm("Internal", 4, <<"owner", "MappingOwner">>)>>
    @@ "SegmentReceiptLifecycle" :> Units(<<"DurablePendingMetadata">>)
    @@ "SegmentWriteReceipt" :> Struct(<<"tenant", "TenantId", "grant_id", "GrantId",
           "grant_hash", "GrantHash", "principal", "PrincipalId", "owner", "MappingOwner",
           "storage_node", "StorageNodeId", "storage_node_incarnation", "ServerIncarnation",
           "segment_id", "SegmentId", "write_intent", "WriteIntentId",
           "intent", "WriteGrantIntent", "bytes", "u64", "integrity", "SegmentPayloadIntegrity",
           "durability", "WriteDurability", "lifecycle", "SegmentReceiptLifecycle",
           "receipt_epoch", "GrantEpoch", "expires_at", "LogicalDeadline",
           "node_key_id", "StorageNodeKeyId", "proof_scheme", "ProofScheme", "proof", "ProofTag",
           "descriptor", "SegmentDescriptor", "placement", "SegmentReplicaPlacement">>)

\* Catalog entries and the enumerations of the API.
LifecycleOut ==
    "SegmentLifecycleState" :> Units(<<"Reserved", "Writing", "DurablePendingMetadata",
           "Referenced", "Released", "Freed">>)
    @@ "CatalogEntry" :> Struct(<<"intent", "reservation", "state", "receipt">>)
    @@ "WriteDurability" :> Units(<<"Acknowledged", "Flushed">>)
    @@ "PayloadIntegrity" :> Units(<<"Verified", "Unchecked">>)
    @@ "ReadVerification" :> Units(<<"Default", "RequireVerified", "Skip">>)
    @@ "FlushScope" :> Units(<<"Device", "All">>)
    @@ "RestorePoint" :> <<
           Arm("Commit", 1, <<"commit">>),
           Arm("Checkpoint", 2, <<"checkpoint">>),
           Arm("Time", 3, <<"time">>)>>

LifecycleIn ==
    "SegmentLifecycleState" :> Units(<<"Reserved", "Writing", "DurablePendingMetadata",
           "Referenced", "Released", "Freed">>)
    @@ "CatalogEntry" :> Struct(<<"intent", "SegmentReservationIntent",
           "reservation", "SegmentReservation", "state", "SegmentLifecycleState",
           "receipt", "Option<SegmentWriteReceipt>">>)
    @@ "WriteDurability" :> Units(<<"Acknowledged", "Flushed">>)
    @@ "PayloadIntegrity" :> Units(<<"Verified", "Unchecked">>)
    @@ "ReadVerification" :> Units(<<"Default", "RequireVerified", "Skip">>)
    @@ "FlushScope" :> Units(<<"Device", "All">>)
    @@ "RestorePoint" :> <<
           Arm("Commit", 1, <<"commit", "CommitSeq">>),
           Arm("Checkpoint", 2, <<"checkpoint", "CheckpointId">>),
           Arm("Time", 3, <<"time", "LogicalTime">>)>>

\* Block API values.
ApiOut ==
    "DeviceInfo" :> Struct(<<"device_id", "generation", "spec", "latest_commit">>)
    @@ "CreateDeviceRequest" :> Struct(<<"spec", "name">>)
    @@ "WriteCommit" :> Struct(<<"device_id", "commit_seq", "range", "durability">>)
    @@ "BlockBatchWrite" :> Struct(<<"offset", "bytes", "payload_integrity">>)
    @@ "BlockBatchCommit" :> Struct(<<"device_id", "commit_seq", "write_count",
           "collapsed_range_count", "committed_bytes", "durability">>)
    @@ "FlushResult" :> Struct(<<"device_id", "durable_through">>)
    @@ "DeleteResult" :> Struct(<<"device_id", "commit_seq">>)
    @@ "ForkRequest" :> Struct(<<"target", "name">>)
    @@ "ReadResponse" :> Struct(<<"bytes">>)

ApiIn ==
    "DeviceInfo" :> Struct(<<"device_id", "DeviceId", "generation", "DeviceGeneration",
           "spec", "DeviceSpec", "latest_commit", "CommitSeq">>)
    @@ "CreateDeviceRequest" :> Struct(<<"spec", "DeviceSpec", "name", "Option<String>">>)
    @@ "WriteCommit" :> Struct(<<"device_id", "DeviceId", "commit_seq", "CommitSeq",
           "range", "ByteRange", "durability", "WriteDurability">>)
    @@ "BlockBatchWrite" :> Struct(<<"offset", "u64", "bytes", "Vec<u8>",
           "payload_integrity", "PayloadIntegrity">>)
    @@ "BlockBatchCommit" :> Struct(<<"device_id", "DeviceId", "commit_seq", "CommitSeq",
           "write_count", "u64", "collapsed_range_count", "u64", "committed_bytes", "u64",
           "durability", "WriteDurability">>)
    @@ "FlushResult" :> Struct(<<"device_id", "DeviceId", "durable_through", "CommitSeq">>)
    @@ "DeleteResult" :> Struct(<<"device_id", "DeviceId", "commit_seq", "CommitSeq">>)
    @@ "ForkRequest" :> Struct(<<"target", "Option<DeviceId>", "name", "Option<String>">>)
    @@ "ReadResponse" :> Struct(<<"bytes", "Vec<u8>">>)

\* Block requests.
BlockRequestOut ==
    "BlockRequest" :> <<
           Arm("Create", 1, <<"request">>),
           Arm("Info", 2, <<"device_id">>),
           Arm("Read", 3, <<"device_id", "range", "verification">>),
           Arm("Write", 4, <<"device_id", "offset", "bytes", "payload_integrity", "durability">>),
           Arm("CommitBatch", 11, <<"device_id", "writes", "durability">>),
           Arm("Flush", 5, <<"device_id", "scope">>),
           Arm("WriteZeroes", 6, <<"device_id", "range">>),
           Arm("Discard", 7, <<"device_id", "range">>),
           Arm("Fork", 8, <<"source", "request">>),
           Arm("Restore", 9, <<"source", "point">>),
           Arm("Delete", 10, <<"device_id">>)>>

BlockRequestIn ==
    "BlockRequest" :> <<
           Arm("Create", 1, <<"request", "CreateDeviceRequest">>),
           Arm("Info", 2, <<"device_id", "DeviceId">>),
           Arm("Read", 3, <<"device_id", "DeviceId", "range", "ByteRange",
               "verification", "ReadVerification">>),
           Arm("Write", 4, <<"device_id", "DeviceId", "offset", "u64", "bytes", "Vec<u8>",
               "payload_integrity", "PayloadIntegrity", "durability", "WriteDurability">>),
           Arm("CommitBatch", 11, <<"device_id", "DeviceId", "writes", "Vec<BlockBatchWrite>",
               "durability", "WriteDurability">>),
           Arm("Flush", 5, <<"device_id", "DeviceId", "scope", "FlushScope">>),
           Arm("WriteZeroes", 6, <<"device_id", "DeviceId", "range", "ByteRange">>),
           Arm("Discard", 7, <<"device_id", "DeviceId", "range", "ByteRange">>),
           Arm("Fork", 8, <<"source", "DeviceId", "request", "ForkRequest">>),
           Arm("Restore", 9, <<"source", "DeviceId", "point", "RestorePoint">>),
           Arm("Delete", 10, <<"device_id", "DeviceId">>)>>

\* Block responses and envelopes.
BlockReplyOut ==
    "BlockResponse" :> <<
           Arm("Created", 1, <<"device_id">>),
           Arm("Info", 2, <<"info">>),
           Arm("Read", 3, <<"read">>),
           Arm("Write", 4, <<"commit">>),
           Arm("BatchCommitted", 9, <<"commit">>),
           Arm("Flush", 5, <<"flush">>),
           Arm("Forked", 6, <<"device_id">>),
           Arm("Restored", 7, <<"device_id">>),
           Arm("Deleted", 8, <<"delete">>)>>
    @@ "BlockRequestEnvelope" :> Struct(<<"request_id", "client_epoch", "deadline", "request">>)
    @@ "BlockResponseEnvelope" :> Struct(<<"request_id", "response">>)

BlockReplyIn ==
    "BlockResponse" :> <<
           Arm("Created", 1, <<"device_id", "DeviceId">>),
           Arm("Info", 2, <<"info", "DeviceInfo">>),
           Arm("Read", 3, <<"read", "ReadResponse">>),
           Arm("Write", 4, <<"commit", "WriteCommit">>),
           Arm("BatchCommitted", 9, <<"commit", "BlockBatchCommit">>),
           Arm("Flush", 5, <<"flush", "FlushResult">>),
           Arm("Forked", 6, <<"device_id", "DeviceId">>),
           Arm("Restored", 7, <<"device_id", "DeviceId">>),
           Arm("Deleted", 8, <<"delete", "DeleteResult">>)>>
    @@ "BlockRequestEnvelope" :> Struct(<<"request_id", "RequestId",
           "client_epoch", "ClientEpoch", "deadline", "Option<LogicalDeadline>",
           "request", "BlockRequest">>)
    @@ "BlockResponseEnvelope" :> Struct(<<"request_id", "RequestId", "response", "BlockResponse">>)

\* Keyspace and file API values.
FileApiOut ==
    "CreateKeyspaceRequest" :> Struct(<<"name">>)
    @@ "KeyspaceInfo" :> Struct(<<"keyspace_id", "generation", "latest_commit", "file_count">>)
    @@ "SnapshotKeyspaceRequest" :> Struct(<<"target", "name">>)
    @@ "FileSpec" :> Struct(<<"name">>)
    @@ "CreateFileRequest" :> Struct(<<"spec">>)
    @@ "FileInfo" :> Struct(<<"keyspace_id", "file_id", "size", "version">>)

FileApiIn ==
    "CreateKeyspaceRequest" :> Struct(<<"name", "Option<String>">>)
    @@ "KeyspaceInfo" :> Struct(<<"keyspace_id", "KeyspaceId",
           "generation", "KeyspaceGeneration", "latest_commit", "CommitSeq",
           "file_count", "usize">>)
    @@ "SnapshotKeyspaceRequest" :> Struct(<<"target", "Option<KeyspaceId>",
           "name", "Option<String>">>)
    @@ "FileSpec" :> Struct(<<"name", "Option<String>">>)
    @@ "CreateFileRequest" :> Struct(<<"spec", "FileSpec">>)
    @@ "FileInfo" :> Struct(<<"keyspace_id", "KeyspaceId", "file_id", "FileId", "size", "u64",
           "version", "FileVersion">>)

\* Append streams, tickets and commits.
AppendApiOut ==
    "AppendStream" :> Struct(<<"keyspace_id", "file_id", "stream_id", "writer_epoch",
           "base_version", "visible_base_size">>)
    @@ "AppendTicket" :> Struct(<<"keyspace_id", "file_id", "stream_id", "ticket_id",
           "writer_epoch", "range">>)
    @@ "AppendPublishTicket" :> Struct(<<"keyspace_id", "file_id", "stream_id", "ticket_id",
           "writer_epoch", "publish_through">>)
    @@ "AppendPublishCommit" :> Struct(<<"keyspace_id", "file_id", "range", "version",
           "commit_seq", "durability">>)
    @@ "FileWriteCommit" :> Struct(<<"keyspace_id", "file_id", "range", "version", "commit_seq",
           "durability">>)

AppendApiIn ==
    "AppendStream" :> Struct(<<"keyspace_id", "KeyspaceId", "file_id", "FileId",
           "stream_id", "AppendStreamId", "writer_epoch", "WriterEpoch",
           "base_version", "FileVersion", "visible_base_size", "u64">>)
    @@ "AppendTicket" :> Struct(<<"keyspace_id", "KeyspaceId", "file_id", "FileId",
           "stream_id", "AppendStreamId", "ticket_id", "AppendTicketId",
           "writer_epoch", "WriterEpoch", "range", "ByteRange">>)
    @@ "AppendPublishTicket" :> Struct(<<"keyspace_id", "KeyspaceId", "file_id", "FileId",
           "stream_id", "AppendStreamId", "ticket_id", "AppendPublishTicketId",
           "writer_epoch", "WriterEpoch", "publish_through", "u64">>)
    @@ "AppendPublishCommit" :> Struct(<<"keyspace_id", "KeyspaceId", "file_id", "FileId",
           "range", "ByteRange", "version", "FileVersion", "commit_seq", "CommitSeq",
           "durability", "WriteDurability">>)
    @@ "FileWriteCommit" :> Struct(<<"keyspace_id", "KeyspaceId", "file_id", "FileId",
           "range", "ByteRange", "version", "FileVersion", "commit_seq", "CommitSeq",
           "durability", "WriteDurability">>)

\* The durable state of an append stream.
StreamOut ==
    "FileBatchWrite" :> Struct(<<"offset", "bytes">>)
    @@ "AppendStreamStatus" :> Units(<<"Active", "Released", "Fenced", "Aborted">>)
    @@ "AppendStreamRunRecord" :> Struct(<<"ticket_id", "offset", "len", "run">>)
    @@ "AppendStreamState" :> Struct(<<"keyspace_id", "file_id", "stream_id",
           "base_writer_epoch", "writer_epoch", "base_version", "visible_base_size",
           "accepted_tail", "durable_through", "published_through", "status", "records">>)

StreamIn ==
    "FileBatchWrite" :> Struct(<<"offset", "u64", "bytes", "Vec<u8>">>)
    @@ "AppendStreamStatus" :> Units(<<"Active", "Released", "Fenced", "Aborted">>)
    @@ "AppendStreamRunRecord" :> Struct(<<"ticket_id", "AppendTicketId", "offset", "u64",
           "len", "u64", "run", "AppendLogRun">>)
    @@ "AppendStreamState" :> Struct(<<"keyspace_id", "KeyspaceId", "file_id", "FileId",
           "stream_id", "AppendStreamId", "base_writer_epoch", "WriterEpoch",
           "writer_epoch", "WriterEpoch", "base_version", "FileVersion",
           "visible_base_size", "u64", "accepted_tail", "u64", "durable_through", "u64",
           "published_through", "u64", "status", "AppendStreamStatus",
           "records", "Vec<AppendStreamRunRecord>">>)

\* Native requests.
NativeRequestOut ==
    "NativeRequest" :> <<
           Arm("CreateKeyspace", 1, <<"request">>),
           Arm("KeyspaceInfo", 2, <<"keyspace_id">>),
           Arm("CreateFile", 3, <<"keyspace_id", "request">>),
           Arm("FileInfo", 4, <<"keyspace_id", "file_id">>),
           Arm("Read", 5, <<"keyspace_id", "file_id", "range", "verification">>),
           Arm("CommitFileBatch", 6, <<"keyspace_id", "file_id", "writes", "payload_integrity",
               "durability">>),
           Arm("OpenAppendStream", 7, <<"keyspace_id", "file_id">>),
           Arm("AppendStream", 8, <<"keyspace_id", "file_id", "stream", "bytes",
               "payload_integrity">>),
           Arm("SubmitAppendPublish", 9, <<"keyspace_id", "file_id", "stream", "publish_through">>),
           Arm("WaitAppendPublish", 10, <<"keyspace_id", "file_id", "ticket">>),
           Arm("PublishAppendStream", 11, <<"keyspace_id", "file_id", "stream", "publish_through">>),
           Arm("ReleaseAppendStream", 12, <<"keyspace_id", "file_id", "stream">>),
           Arm("AbortAppendStream", 13, <<"keyspace_id", "file_id", "stream">>),
           Arm("Flush", 14, <<"keyspace_id", "file_id">>),
           Arm("CheckpointKeyspace", 15, <<"keyspace_id">>),
           Arm("SnapshotKeyspace", 16, <<"source", "request">>),
           Arm("RestoreKeyspace", 17, <<"source", "point">>)>>

NativeRequestIn ==
    "NativeRequest" :> <<
           Arm("CreateKeyspace", 1, <<"request", "CreateKeyspaceRequest">>),
           Arm("KeyspaceInfo", 2, <<"keyspace_id", "KeyspaceId">>),
           Arm("CreateFile", 3, <<"keyspace_id", "KeyspaceId", "request", "CreateFileRequest">>),
           Arm("FileInfo", 4, <<"keyspace_id", "KeyspaceId", "file_id", "FileId">>),
           Arm("Read", 5, <<"keyspace_id", "KeyspaceId", "file_id", "FileId",
               "range", "ByteRange", "verification", "ReadVerification">>),
           Arm("CommitFileBatch", 6, <<"keyspace_id", "KeyspaceId", "file_id", "FileId",
               "writes", "Vec<FileBatchWrite>", "payload_integrity", "PayloadIntegrity",
               "durability", "WriteDurability">>),
           Arm("OpenAppendStream", 7, <<"keyspace_id", "KeyspaceId", "file_id", "FileId">>),
           Arm("AppendStream", 8, <<"keyspace_id", "KeyspaceId", "file_id", "FileId",
               "stream", "AppendStream", "bytes", "Vec<u8>",
               "payload_integrity", "PayloadIntegrity">>),
           Arm("SubmitAppendPublish", 9, <<"keyspace_id", "KeyspaceId", "file_id", "FileId",
               "stream", "AppendStream", "publish_through", "u64">>),
           Arm("WaitAppendPublish", 10, <<"keyspace_id", "KeyspaceId", "file_id", "FileId",
               "ticket", "AppendPublishTicket">>),
           Arm("PublishAppendStream", 11, <<"keyspace_id", "KeyspaceId", "file_id", "FileId",
               "stream", "AppendStream", "publish_through", "u64">>),
           Arm("ReleaseAppendStream", 12, <<"keyspace_id", "KeyspaceId", "file_id", "FileId",
               "stream", "AppendStream">>),
           Arm("AbortAppendStream", 13, <<"keyspace_id", "KeyspaceId", "file_id", "FileId",
               "stream", "AppendStream">>),
           Arm("Flush", 14, <<"keyspace_id", "KeyspaceId", "file_id", "FileId">>),
           Arm("CheckpointKeyspace", 15, <<"keyspace_id", "KeyspaceId">>),
           Arm("SnapshotKeyspace", 16, <<"source", "KeyspaceId",
               "request", "SnapshotKeyspaceRequest">>),
           Arm("RestoreKeyspace", 17, <<"source", "KeyspaceId", "point", "RestorePoint">>)>>

\* Native responses.
NativeReplyOut ==
    "NativeResponse" :> <<
           Arm("KeyspaceCreated", 1, <<"keyspace_id">>),
           Arm("KeyspaceInfo", 2, <<"info">>),
           Arm("FileCreated", 3, <<"file_id">>),
           Arm("FileInfo", 4, <<"info">>),
           Arm("Read", 5, <<"read">>),
           Arm("FileBatchCommitted", 6, <<"commit">>),
           Arm("AppendStreamOpened", 7, <<"stream">>),
           Arm("AppendTicket", 8, <<"ticket">>),
           Arm("AppendPublishSubmitted", 9, <<"ticket">>),
           Arm("AppendPublished", 10, <<"commit">>),
           Arm("AppendReleased", 11, <<>>),
           Arm("AppendAborted", 12, <<>>),
           Arm("Flush", 13, <<"flush">>),
           Arm("KeyspaceCheckpointed", 14, <<"checkpoint_id">>),
           Arm("KeyspaceSnapshotted", 15, <<"keyspace_id">>),
           Arm("KeyspaceRestored", 16, <<"keyspace_id">>)>>

NativeReplyIn ==
    "NativeResponse" :> <<
           Arm("KeyspaceCreated", 1, <<"keyspace_id", "KeyspaceId">>),
           Arm("KeyspaceInfo", 2, <<"info", "KeyspaceInfo">>),
           Arm("FileCreated", 3, <<"file_id", "FileId">>),
           Arm("FileInfo", 4, <<"info", "FileInfo">>),
           Arm("Read", 5, <<"read", "ReadResponse">>),
           Arm("FileBatchCommitted", 6, <<"commit", "FileWriteCommit">>),
           Arm("AppendStreamOpened", 7, <<"stream", "AppendStream">>),
           Arm("AppendTicket", 8, <<"ticket", "AppendTicket">>),
           Arm("AppendPublishSubmitted", 9, <<"ticket", "AppendPublishTicket">>),
           Arm("AppendPublished", 10, <<"commit", "AppendPublishCommit">>),
           Arm("AppendReleased", 11, <<>>),
           Arm("AppendAborted", 12, <<>>),
           Arm("Flush", 13, <<"flush", "FlushResult">>),
           Arm("KeyspaceCheckpointed", 14, <<"checkpoint_id", "CheckpointId">>),
           Arm("KeyspaceSnapshotted", 15, <<"keyspace_id", "KeyspaceId">>),
           Arm("KeyspaceRestored", 16, <<"keyspace_id", "KeyspaceId">>)>>

\* Native envelopes and the remote wire.
WireOut ==
    "NativeRequestEnvelope" :> Struct(<<"request_id", "client_epoch", "deadline", "request">>)
    @@ "NativeResponseEnvelope" :> Struct(<<"request_id", "response">>)
    @@ "RemoteWireRequest" :> Struct(<<"incarnation", "envelope">>)
    @@ "RemoteWireReply" :> <<
           Arm("Ok", 1, <<"incarnation", "envelope">>),
           Arm("Err", 2, <<"incarnation", "reason">>)>>

WireIn ==
    "NativeRequestEnvelope" :> Struct(<<"request_id", "RequestId", "client_epoch", "ClientEpoch",
           "deadline", "Option<LogicalDeadline>", "request", "NativeRequest">>)
    @@ "NativeResponseEnvelope" :> Struct(<<"request_id", "RequestId",
           "response", "NativeResponse">>)
    @@ "RemoteWireRequest" :> Struct(<<"incarnation", "ServerIncarnation",
           "envelope", "BlockRequestEnvelope">>)
    @@ "RemoteWireReply" :> <<
           Arm("Ok", 1, <<"incarnation", "ServerIncarnation",
               "envelope", "NativeResponseEnvelope">>),
           Arm("Err", 2, <<"incarnation", "ServerIncarnation", "reason", "String">>)>>

\* The export cursor and the native metadata delta.
DeltaOut ==
    "DurableExportCursor" :> Versioned(<<"config", "next_device_id", "next_keyspace_id",
           "next_file_id", "next_metadata_node_id", "next_keyspace_root_id",
           "next_keyspace_catalog_shard_id", "next_commit_group_id", "next_commit_seq",
           "next_checkpoint_id", "next_gc_epoch", "next_write_intent", "next_extent_id",
           "next_segment_id", "next_placement_index">>)
    @@ "NativeMetadataDelta" :> Versioned(<<"cursor", "keyspace_heads", "keyspace_roots",
           "keyspace_catalog_shards", "file_writer_epochs", "append_streams", "metadata_nodes",
           "referenced_segment_ids", "commit_groups", "keyspace_commits", "file_commits">>)
    @@ "NativeMetadataDeltaCommit" :> Versioned(<<"commit_seq", "delta">>)

DeltaIn ==
    "DurableExportCursor" :> Versioned(<<"config", "LocalStoreConfig", "next_device_id", "u128",
           "next_keyspace_id", "u128", "next_file_id", "u128", "next_metadata_node_id", "u128",
           "next_keyspace_root_id", "u128", "next_keyspace_catalog_shard_id", "u128",
           "next_commit_group_id", "u128", "next_commit_seq", "u64",
           "next_checkpoint_id", "u128", "next_gc_epoch", "u64", "next_write_intent", "u128",
           "next_extent_id", "u128", "next_segment_id", "u128", "next_placement_index", "u64">>)
    @@ "NativeMetadataDelta" :> Versioned(<<"cursor", "DurableExportCursor",
           "keyspace_heads", "BTreeMap<KeyspaceId, KeyspaceHead>",
           "keyspace_roots", "BTreeMap<KeyspaceRootId, KeyspaceRoot>",
           "keyspace_catalog_shards", "BTreeMap<KeyspaceCatalogShardId, KeyspaceCatalogShard>",
           "file_writer_epochs", "Vec<FileWriterEpoch>",
           "append_streams", "Vec<AppendStreamState>",
           "metadata_nodes", "BTreeMap<MetadataNodeId, MetadataNode>",
           "referenced_segment_ids", "Vec<SegmentId>",
           "commit_groups", "BTreeMap<CommitGroupId, CommitGroup>",
           "keyspace_commits", "Vec<KeyspaceCommit>", "file_commits", "Vec<FileCommit>">>)
    @@ "NativeMetadataDeltaCommit" :> Versioned(<<"commit_seq", "CommitSeq",
           "delta", "NativeMetadataDelta">>)

-------------------------------------------------------------------------------
Out ==
    FileKeyOut @@ SpecOut @@ HeadOut @@ CatalogOut @@ RunOut @@ NodeOut @@ GroupOut
    @@ CommitOut @@ CheckpointOut @@ ReplicaOut @@ ReceiptOut @@ LifecycleOut @@ ApiOut
    @@ BlockRequestOut @@ BlockReplyOut @@ FileApiOut @@ AppendApiOut @@ StreamOut
    @@ NativeRequestOut @@ NativeReplyOut @@ WireOut @@ DeltaOut

In ==
    FileKeyIn @@ SpecIn @@ HeadIn @@ CatalogIn @@ RunIn @@ NodeIn @@ GroupIn @@ CommitIn
    @@ CheckpointIn @@ ReplicaIn @@ ReceiptIn @@ LifecycleIn @@ ApiIn @@ BlockRequestIn
    @@ BlockReplyIn @@ FileApiIn @@ AppendApiIn @@ StreamIn @@ NativeRequestIn @@ NativeReplyIn
    @@ WireIn @@ DeltaIn

\* What is stored as a row, a frame or a message of its own, and the arms of each.
RowTypes == DOMAIN Out

ArmsOf(type) == {Out[type][i].arm : i \in DOMAIN Out[type]}

=============================================================================
