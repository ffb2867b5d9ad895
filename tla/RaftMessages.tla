---------------------------- MODULE RaftMessages ----------------------------
(***************************************************************************)
(* The messages of raftpb: for each, the fields MarshalTo writes, in its   *)
(* order, what Size adds up, and what Unmarshal knows (raft.pb.go;         *)
(* Unmarshal of Message and MessageBatch is in raft_optimized.go).         *)
(***************************************************************************)
EXTENDS WireFormat

BootstrapMarshalTo == <<Map(10, "Addresses", "string"), Bool(16, "Join")>>
BootstrapSize == <<Map(1, "Addresses", "string"), Fixed(2)>>
BootstrapUnmarshal == <<Map(1, "Addresses", "string"), Bool(2, "Join")>>

RaftDataStatusMarshalTo ==
    <<Str(10, "Address"), Uint32(16, "BinVer"), Uint(24, "HardHash")>>
RaftDataStatusSize == <<Str(1, "Address"), Uint32(1, "BinVer"), Uint(1, "HardHash")>>
RaftDataStatusUnmarshal ==
    <<Str(1, "Address"), Uint32(2, "BinVer"), Uint(3, "HardHash")>>

StateMarshalTo == <<Uint(8, "Term"), Uint(16, "Vote"), Uint(24, "Commit")>>
StateSize == <<Uint(1, "Term"), Uint(1, "Vote"), Uint(1, "Commit")>>
StateUnmarshal == <<Uint(1, "Term"), Uint(2, "Vote"), Uint(3, "Commit")>>

EntryBatchMarshalTo == <<Many(Msg(10, "Entries", "Entry"))>>
EntryBatchSize == <<Many(Msg(1, "Entries", "Entry"))>>
EntryBatchUnmarshal == <<Many(Msg(1, "Entries", "Entry"))>>

MembershipMarshalTo ==
    <<Uint(8, "ConfigChangeId"), Map(18, "Addresses", "string"),
      Map(26, "Removed", "bool"), Map(34, "Observers", "string")>>
MembershipSize ==
    <<Uint(1, "ConfigChangeId"), Map(1, "Addresses", "string"),
      Map(1, "Removed", "bool"), Map(1, "Observers", "string")>>
MembershipUnmarshalA == <<Uint(1, "ConfigChangeId")>>
MembershipUnmarshalB == <<Map(2, "Addresses", "string")>>
MembershipUnmarshalC == <<Map(3, "Removed", "bool")>>
MembershipUnmarshalD == <<Map(4, "Observers", "string")>>
MembershipUnmarshal ==
    MembershipUnmarshalA \o MembershipUnmarshalB \o MembershipUnmarshalC \o MembershipUnmarshalD

SnapshotFileMarshalTo ==
    <<Str(18, "Filepath"), Uint(24, "FileSize"), Uint(32, "FileId"),
      Bytes(42, "Metadata")>>
SnapshotFileSize ==
    <<Str(1, "Filepath"), Uint(1, "FileSize"), Uint(1, "FileId"), Bytes(1, "Metadata")>>
SnapshotFileUnmarshal ==
    <<Str(2, "Filepath"), Uint(3, "FileSize"), Uint(4, "FileId"), Bytes(5, "Metadata")>>

SnapshotMarshalTo ==
    <<Str(18, "Filepath"), Uint(24, "FileSize"), Uint(32, "Index"), Uint(40, "Term"),
      Msg(50, "Membership", "Membership"), Many(Msg(58, "Files", "SnapshotFile"))>>
SnapshotSize ==
    <<Str(1, "Filepath"), Uint(1, "FileSize"), Uint(1, "Index"), Uint(1, "Term"),
      Msg(1, "Membership", "Membership"), Many(Msg(1, "Files", "SnapshotFile"))>>
SnapshotUnmarshal ==
    <<Str(2, "Filepath"), Uint(3, "FileSize"), Uint(4, "Index"), Uint(5, "Term"),
      Msg(6, "Membership", "Membership"), Many(Msg(7, "Files", "SnapshotFile"))>>

MessageMarshalTo ==
    <<Uint32(8, "Type"), Uint(16, "To"), Uint(24, "From"), Uint(32, "ClusterId"),
      Uint(40, "Term"), Uint(48, "LogTerm"), Uint(56, "LogIndex"), Uint(64, "Commit"),
      Bool(72, "Reject"), Uint(80, "Hint"), Many(Msg(90, "Entries", "Entry")),
      Msg(98, "Snapshot", "Snapshot"), Uint(104, "HintHigh")>>
MessageSize ==
    <<Uint32(1, "Type"), Uint(1, "To"), Uint(1, "From"), Uint(1, "ClusterId"),
      Uint(1, "Term"), Uint(1, "LogTerm"), Uint(1, "LogIndex"), Uint(1, "Commit"),
      Fixed(2), Uint(1, "Hint"), Many(Msg(1, "Entries", "Entry")),
      Msg(1, "Snapshot", "Snapshot"), Uint(1, "HintHigh")>>
MessageUnmarshalA ==
    <<Uint32(1, "Type"), Uint(2, "To"), Uint(3, "From"), Uint(4, "ClusterId"),
      Uint(5, "Term"), Uint(6, "LogTerm")>>
MessageUnmarshalB ==
    <<Uint(7, "LogIndex"), Uint(8, "Commit"), Bool(9, "Reject"), Uint(10, "Hint"),
      Many(Msg(11, "Entries", "Entry")), Msg(12, "Snapshot", "Snapshot")>>
MessageUnmarshalC == <<Uint(13, "HintHigh")>>
MessageUnmarshal == MessageUnmarshalA \o MessageUnmarshalB \o MessageUnmarshalC

ConfigChangeMarshalTo ==
    <<Uint(8, "ConfigChangeId"), Uint32(16, "Type"), Uint(24, "NodeID"),
      Str(34, "Address"), Bool(40, "Initialize")>>
ConfigChangeSize ==
    <<Uint(1, "ConfigChangeId"), Uint32(1, "Type"), Uint(1, "NodeID"),
      Str(1, "Address"), Fixed(2)>>
ConfigChangeUnmarshal ==
    <<Uint(1, "ConfigChangeId"), Uint32(2, "Type"), Uint(3, "NodeID"),
      Str(4, "Address"), Bool(5, "Initialize")>>

SnapshotHeaderMarshalTo ==
    <<Uint(8, "SessionSize"), Uint(16, "DataStoreSize"), Uint(24, "UnreliableTime"),
      Str(34, "GitVersion"), Bytes(42, "HeaderChecksum"), Bytes(50, "PayloadChecksum"),
      Uint32(56, "ChecksumType"), Uint(64, "Version")>>
SnapshotHeaderSize ==
    <<Uint(1, "SessionSize"), Uint(1, "DataStoreSize"), Uint(1, "UnreliableTime"),
      Str(1, "GitVersion"), Bytes(1, "HeaderChecksum"), Bytes(1, "PayloadChecksum"),
      Uint32(1, "ChecksumType"), Uint(1, "Version")>>
SnapshotHeaderUnmarshal ==
    <<Uint(1, "SessionSize"), Uint(2, "DataStoreSize"), Uint(3, "UnreliableTime"),
      Str(4, "GitVersion"), Bytes(5, "HeaderChecksum"), Bytes(6, "PayloadChecksum"),
      Uint32(7, "ChecksumType"), Uint(8, "Version")>>

ResponseMarshalTo == <<>>
ResponseSize == <<>>
ResponseUnmarshal == <<>>

MessageBatchMarshalTo ==
    <<Many(Msg(10, "Requests", "Message")), Uint(16, "DeploymentId"),
      Str(26, "SourceAddress"), Uint32(32, "BinVer")>>
MessageBatchSize ==
    <<Many(Msg(1, "Requests", "Message")), Uint(1, "DeploymentId"),
      Str(1, "SourceAddress"), Uint32(1, "BinVer")>>
MessageBatchUnmarshal ==
    <<Many(Msg(1, "Requests", "Message")), Uint(2, "DeploymentId"),
      Str(3, "SourceAddress"), Uint32(4, "BinVer")>>

SnapshotChunkMarshalTo ==
    <<Uint(8, "ClusterId"), Uint(16, "NodeId"), Uint(24, "From"), Uint(32, "ChunkId"),
      Uint(40, "ChunkSize"), Uint(48, "ChunkCount"), Bytes(58, "Data"),
      Uint(64, "Index"), Uint(72, "Term"), Msg(82, "Membership", "Membership"),
      Str(98, "Filepath"), Uint(104, "FileSize"), Uint(112, "DeploymentId"),
      Uint(120, "FileChunkId"), Uint(128, "FileChunkCount"), Bool(136, "HasFileInfo"),
      Msg(146, "FileInfo", "SnapshotFile"), Uint32(152, "BinVer")>>
SnapshotChunkSize ==
    <<Uint(1, "ClusterId"), Uint(1, "NodeId"), Uint(1, "From"), Uint(1, "ChunkId"),
      Uint(1, "ChunkSize"), Uint(1, "ChunkCount"), Bytes(1, "Data"), Uint(1, "Index"),
      Uint(1, "Term"), Msg(1, "Membership", "Membership"), Str(1, "Filepath"),
      Uint(1, "FileSize"), Uint(1, "DeploymentId"), Uint(1, "FileChunkId"),
      Uint(2, "FileChunkCount"), Fixed(3), Msg(2, "FileInfo", "SnapshotFile"),
      Uint32(2, "BinVer")>>
SnapshotChunkUnmarshalA ==
    <<Uint(1, "ClusterId"), Uint(2, "NodeId"), Uint(3, "From"), Uint(4, "ChunkId"),
      Uint(5, "ChunkSize"), Uint(6, "ChunkCount")>>
SnapshotChunkUnmarshalB ==
    <<Bytes(7, "Data"), Uint(8, "Index"), Uint(9, "Term"),
      Msg(10, "Membership", "Membership"), Str(12, "Filepath"), Uint(13, "FileSize")>>
SnapshotChunkUnmarshalC ==
    <<Uint(14, "DeploymentId"), Uint(15, "FileChunkId"), Uint(16, "FileChunkCount"),
      Bool(17, "HasFileInfo"), Msg(18, "FileInfo", "SnapshotFile"), Uint32(19, "BinVer")>>
SnapshotChunkUnmarshal ==
    SnapshotChunkUnmarshalA \o SnapshotChunkUnmarshalB \o SnapshotChunkUnmarshalC

RaftTables ==
    [Bootstrap |-> Table(BootstrapMarshalTo, BootstrapSize, BootstrapUnmarshal),
     RaftDataStatus |-> Table(RaftDataStatusMarshalTo, RaftDataStatusSize, RaftDataStatusUnmarshal),
     State |-> Table(StateMarshalTo, StateSize, StateUnmarshal),
     EntryBatch |-> Table(EntryBatchMarshalTo, EntryBatchSize, EntryBatchUnmarshal),
     Membership |-> Table(MembershipMarshalTo, MembershipSize, MembershipUnmarshal),
     SnapshotFile |-> Table(SnapshotFileMarshalTo, SnapshotFileSize, SnapshotFileUnmarshal),
     Snapshot |-> Table(SnapshotMarshalTo, SnapshotSize, SnapshotUnmarshal),
     Message |-> Table(MessageMarshalTo, MessageSize, MessageUnmarshal),
     ConfigChange |-> Table(ConfigChangeMarshalTo, ConfigChangeSize, ConfigChangeUnmarshal),
     SnapshotHeader |-> Table(SnapshotHeaderMarshalTo, SnapshotHeaderSize, SnapshotHeaderUnmarshal),
     Response |-> Table(ResponseMarshalTo, ResponseSize, ResponseUnmarshal),
     MessageBatch |-> Table(MessageBatchMarshalTo, MessageBatchSize, MessageBatchUnmarshal),
     SnapshotChunk |-> Table(SnapshotChunkMarshalTo, SnapshotChunkSize, SnapshotChunkUnmarshal)]

=============================================================================
