-------------------------- MODULE DrummerMessages ---------------------------
(***************************************************************************)
(* The messages of drummerpb (drummer.pb.go), of multiraftpb               *)
(* (multiraft.pb.go: Session to RaftResponse) and of client (session.pb.go:*)
(* ClientSession), as in RaftMessages.                                     *)
(***************************************************************************)
EXTENDS WireFormat

RegionsMarshalTo == <<Many(Str(10, "Region")), Many(Uint(16, "Count"))>>
RegionsSize == <<Many(Str(1, "Region")), Many(Uint(1, "Count"))>>
RegionsUnmarshal == <<Many(Str(1, "Region")), Many(Uint(2, "Count"))>>

ClusterMarshalTo ==
    <<Many(Uint(8, "Members")), Uint(16, "ClusterId"), Str(26, "AppName")>>
ClusterSize == <<Many(Uint(1, "Members")), Uint(1, "ClusterId"), Str(1, "AppName")>>
ClusterUnmarshal ==
    <<Many(Uint(1, "Members")), Uint(2, "ClusterId"), Str(3, "AppName")>>

ClusterCollectionMarshalTo == <<Many(Msg(10, "Clusters", "Cluster"))>>
ClusterCollectionSize == <<Many(Msg(1, "Clusters", "Cluster"))>>
ClusterCollectionUnmarshal == <<Many(Msg(1, "Clusters", "Cluster"))>>

KVMarshalTo ==
    <<Str(10, "Key"), Str(18, "Value"), Uint(24, "InstanceId"), Uint(32, "Tick"),
      Uint(40, "OldInstanceId"), Bool(48, "Finalized")>>
KVSize ==
    <<Str(1, "Key"), Str(1, "Value"), Uint(1, "InstanceId"), Uint(1, "Tick"),
      Uint(1, "OldInstanceId"), Fixed(2)>>
KVUnmarshal ==
    <<Str(1, "Key"), Str(2, "Value"), Uint(3, "InstanceId"), Uint(4, "Tick"),
      Uint(5, "OldInstanceId"), Bool(6, "Finalized")>>

ChangeMarshalTo ==
    <<Uint32(8, "Type"), Uint(16, "ClusterId"), Many(Uint(24, "Members")),
      Str(34, "AppName")>>
ChangeSize ==
    <<Uint32(1, "Type"), Uint(1, "ClusterId"), Many(Uint(1, "Members")),
      Str(1, "AppName")>>
ChangeUnmarshal ==
    <<Uint32(1, "Type"), Uint(2, "ClusterId"), Many(Uint(3, "Members")),
      Str(4, "AppName")>>

ChangeResponseMarshalTo == <<Uint32(8, "Code")>>
ChangeResponseSize == <<Uint32(1, "Code")>>
ChangeResponseUnmarshal == <<Uint32(1, "Code")>>

UpdateMarshalTo ==
    <<Msg(10, "Change", "Change"), Uint32(16, "Type"), Msg(26, "KvUpdate", "KV"),
      Msg(34, "NodehostInfo", "NodeHostInfo"),
      Msg(42, "Requests", "NodeHostRequestCollection")>>
UpdateSize ==
    <<Msg(1, "Change", "Change"), Uint32(1, "Type"), Msg(1, "KvUpdate", "KV"),
      Msg(1, "NodehostInfo", "NodeHostInfo"),
      Msg(1, "Requests", "NodeHostRequestCollection")>>
UpdateUnmarshal ==
    <<Msg(1, "Change", "Change"), Uint32(2, "Type"), Msg(3, "KvUpdate", "KV"),
      Msg(4, "NodehostInfo", "NodeHostInfo"),
      Msg(5, "Requests", "NodeHostRequestCollection")>>

LookupRequestMarshalTo ==
    <<Uint32(8, "Type"), Many(Uint(16, "ClusterIdList")), Msg(26, "KvLookup", "KV"),
      Uint(32, "RequestsId"), Str(42, "Address"),
      Msg(50, "Stats", "ClusterStateRequest")>>
LookupRequestSize ==
    <<Uint32(1, "Type"), Many(Uint(1, "ClusterIdList")), Msg(1, "KvLookup", "KV"),
      Uint(1, "RequestsId"), Str(1, "Address"), Msg(1, "Stats", "ClusterStateRequest")>>
LookupRequestUnmarshal ==
    <<Uint32(1, "Type"), Many(Uint(2, "ClusterIdList")), Msg(3, "KvLookup", "KV"),
      Uint(4, "RequestsId"), Str(5, "Address"), Msg(6, "Stats", "ClusterStateRequest")>>

LookupResponseMarshalTo ==
    <<Uint32(8, "Code"), Many(Msg(18, "Clusters", "Cluster")),
      Msg(26, "KvResult", "KV"), Msg(34, "Requests", "NodeHostRequestCollection")>>
LookupResponseSize ==
    <<Uint32(1, "Code"), Many(Msg(1, "Clusters", "Cluster")), Msg(1, "KvResult", "KV"),
      Msg(1, "Requests", "NodeHostRequestCollection")>>
LookupResponseUnmarshal ==
    <<Uint32(1, "Code"), Many(Msg(2, "Clusters", "Cluster")), Msg(3, "KvResult", "KV"),
      Msg(4, "Requests", "NodeHostRequestCollection")>>

RequestMarshalTo ==
    <<Uint32(8, "Type"), Uint(16, "ClusterId"), Many(Uint(24, "Members")),
      Str(34, "AppName"), Uint(40, "ConfChangeId")>>
RequestSize ==
    <<Uint32(1, "Type"), Uint(1, "ClusterId"), Many(Uint(1, "Members")),
      Str(1, "AppName"), Uint(1, "ConfChangeId")>>
RequestUnmarshal ==
    <<Uint32(1, "Type"), Uint(2, "ClusterId"), Many(Uint(3, "Members")),
      Str(4, "AppName"), Uint(5, "ConfChangeId")>>

ClusterStateRequestMarshalTo == <<Many(Uint(8, "ClusterIdList"))>>
ClusterStateRequestSize == <<Many(Uint(1, "ClusterIdList"))>>
ClusterStateRequestUnmarshal == <<Many(Uint(1, "ClusterIdList"))>>

ClusterStateMarshalTo ==
    <<Uint(8, "ClusterId"), Uint(16, "LeaderNodeId"), Map(26, "Nodes", "string"),
      Map(34, "RPCAddresses", "string"), Uint32(40, "State"),
      Uint(48, "ConfigChangeIndex")>>
ClusterStateSize ==
    <<Uint(1, "ClusterId"), Uint(1, "LeaderNodeId"), Map(1, "Nodes", "string"),
      Map(1, "RPCAddresses", "string"), Uint32(1, "State"),
      Uint(1, "ConfigChangeIndex")>>
ClusterStateUnmarshalA == <<Uint(1, "ClusterId"), Uint(2, "LeaderNodeId")>>
ClusterStateUnmarshalB == <<Map(3, "Nodes", "string")>>
ClusterStateUnmarshalC == <<Map(4, "RPCAddresses", "string"), Uint32(5, "State")>>
ClusterStateUnmarshalD == <<Uint(6, "ConfigChangeIndex")>>
ClusterStateUnmarshal ==
    ClusterStateUnmarshalA \o ClusterStateUnmarshalB \o ClusterStateUnmarshalC \o ClusterStateUnmarshalD

ClusterInfoMarshalTo ==
    <<Uint(8, "ClusterId"), Uint(16, "NodeId"), Bool(24, "IsLeader"),
      Map(34, "Nodes", "string"), Uint(40, "ConfigChangeIndex"), Bool(48, "Incomplete"),
      Bool(56, "Pending")>>
ClusterInfoSize ==
    <<Uint(1, "ClusterId"), Uint(1, "NodeId"), Fixed(2), Map(1, "Nodes", "string"),
      Uint(1, "ConfigChangeIndex"), Fixed(2), Fixed(2)>>
ClusterInfoUnmarshalA == <<Uint(1, "ClusterId"), Uint(2, "NodeId"), Bool(3, "IsLeader")>>
ClusterInfoUnmarshalB ==
    <<Map(4, "Nodes", "string"), Uint(5, "ConfigChangeIndex"), Bool(6, "Incomplete")>>
ClusterInfoUnmarshalC == <<Bool(7, "Pending")>>
ClusterInfoUnmarshal ==
    ClusterInfoUnmarshalA \o ClusterInfoUnmarshalB \o ClusterInfoUnmarshalC

LogInfoMarshalTo == <<Uint(8, "ClusterId"), Uint(16, "NodeId")>>
LogInfoSize == <<Uint(1, "ClusterId"), Uint(1, "NodeId")>>
LogInfoUnmarshal == <<Uint(1, "ClusterId"), Uint(2, "NodeId")>>

ClusterStatesMarshalTo == <<Many(Msg(10, "Collection", "ClusterState"))>>
ClusterStatesSize == <<Many(Msg(1, "Collection", "ClusterState"))>>
ClusterStatesUnmarshal == <<Many(Msg(1, "Collection", "ClusterState"))>>

NodeHostInfoMarshalTo ==
    <<Str(10, "RaftAddress"), Many(Msg(18, "ClusterInfo", "ClusterInfo")),
      Many(Uint(24, "ClusterIdList")), Uint(32, "LastTick"),
      Bool(40, "PlogInfoIncluded"), Many(Msg(50, "PlogInfo", "LogInfo")),
      Str(58, "Region"), Str(66, "RPCAddress")>>
NodeHostInfoSize ==
    <<Str(1, "RaftAddress"), Many(Msg(1, "ClusterInfo", "ClusterInfo")),
      Many(Uint(1, "ClusterIdList")), Uint(1, "LastTick"), Fixed(2),
      Many(Msg(1, "PlogInfo", "LogInfo")), Str(1, "Region"), Str(1, "RPCAddress")>>
NodeHostInfoUnmarshalA ==
    <<Str(1, "RaftAddress"), Many(Msg(2, "ClusterInfo", "ClusterInfo"))>>
NodeHostInfoUnmarshalB ==
    <<Many(Uint(3, "ClusterIdList")), Uint(4, "LastTick"), Bool(5, "PlogInfoIncluded"),
      Many(Msg(6, "PlogInfo", "LogInfo"))>>
NodeHostInfoUnmarshalC == <<Str(7, "Region"), Str(8, "RPCAddress")>>
NodeHostInfoUnmarshal ==
    NodeHostInfoUnmarshalA \o NodeHostInfoUnmarshalB \o NodeHostInfoUnmarshalC

NodeHostCollectionMarshalTo ==
    <<Many(Msg(10, "Collection", "NodeHostInfo")), Uint(16, "Tick")>>
NodeHostCollectionSize ==
    <<Many(Msg(1, "Collection", "NodeHostInfo")), Uint(1, "Tick")>>
NodeHostCollectionUnmarshal ==
    <<Many(Msg(1, "Collection", "NodeHostInfo")), Uint(2, "Tick")>>

ConfigChangeIndexListMarshalTo == <<Map(10, "Indexes", "uint")>>
ConfigChangeIndexListSize == <<Map(1, "Indexes", "uint")>>
ConfigChangeIndexListUnmarshal == <<Map(1, "Indexes", "uint")>>

DeploymentInfoMarshalTo == <<Uint(8, "DeploymentId")>>
DeploymentInfoSize == <<Uint(1, "DeploymentId")>>
DeploymentInfoUnmarshal == <<Uint(1, "DeploymentId")>>

EmptyMarshalTo == <<>>
EmptySize == <<>>
EmptyUnmarshal == <<>>

NodeHostRequestMarshalTo ==
    <<Msg(10, "Change", "Request"), Many(Uint(16, "NodeIdList")),
      Many(Str(26, "AddressList")), Uint(32, "InstantiateNodeId"),
      Str(42, "RaftAddress"), Bool(48, "Join"), Bool(56, "Restore"), Str(66, "AppName"),
      Msg(74, "Config", "Config")>>
NodeHostRequestSize ==
    <<Msg(1, "Change", "Request"), Many(Uint(1, "NodeIdList")),
      Many(Str(1, "AddressList")), Uint(1, "InstantiateNodeId"), Str(1, "RaftAddress"),
      Fixed(2), Fixed(2), Str(1, "AppName"), Msg(1, "Config", "Config")>>
NodeHostRequestUnmarshalA ==
    <<Msg(1, "Change", "Request"), Many(Uint(2, "NodeIdList")),
      Many(Str(3, "AddressList"))>>
NodeHostRequestUnmarshalB ==
    <<Uint(4, "InstantiateNodeId"), Str(5, "RaftAddress"), Bool(6, "Join"),
      Bool(7, "Restore"), Str(8, "AppName")>>
NodeHostRequestUnmarshalC == <<Msg(9, "Config", "Config")>>
NodeHostRequestUnmarshal ==
    NodeHostRequestUnmarshalA \o NodeHostRequestUnmarshalB \o NodeHostRequestUnmarshalC

NodeHostRequestCollectionMarshalTo == <<Many(Msg(10, "Requests", "NodeHostRequest"))>>
NodeHostRequestCollectionSize == <<Many(Msg(1, "Requests", "NodeHostRequest"))>>
NodeHostRequestCollectionUnmarshal == <<Many(Msg(1, "Requests", "NodeHostRequest"))>>

DrummerConfigRequestMarshalTo == <<Uint(8, "NodeId"), Str(18, "Address")>>
DrummerConfigRequestSize == <<Uint(1, "NodeId"), Str(1, "Address")>>
DrummerConfigRequestUnmarshal == <<Uint(1, "NodeId"), Str(2, "Address")>>

ConfigMarshalTo ==
    <<Uint(8, "ElectionRTT"), Uint(16, "HeartbeatRTT"), Bool(40, "CheckQuorum"),
      Uint(48, "CompactionOverhead"), Uint(56, "SnapshotEntries"),
      Str(66, "RaftClusterAddresses"), Str(74, "DrummerAddress"),
      Uint(80, "DrummerNodeID"), Str(90, "DrummerNodeHostDirectory"),
      Str(98, "DrummerWALDirectory"), Bool(104, "MutualTLS"), Str(114, "CAFile"),
      Str(122, "CertFile"), Str(130, "KeyFile")>>
ConfigSize ==
    <<Uint(1, "ElectionRTT"), Uint(1, "HeartbeatRTT"), Fixed(2),
      Uint(1, "CompactionOverhead"), Uint(1, "SnapshotEntries"),
      Str(1, "RaftClusterAddresses"), Str(1, "DrummerAddress"),
      Uint(1, "DrummerNodeID"), Str(1, "DrummerNodeHostDirectory"),
      Str(1, "DrummerWALDirectory"), Fixed(2), Str(1, "CAFile"), Str(1, "CertFile"),
      Str(2, "KeyFile")>>
ConfigUnmarshalA ==
    <<Uint(1, "ElectionRTT"), Uint(2, "HeartbeatRTT"), Bool(5, "CheckQuorum"),
      Uint(6, "CompactionOverhead"), Uint(7, "SnapshotEntries")>>
ConfigUnmarshalB ==
    <<Str(8, "RaftClusterAddresses"), Str(9, "DrummerAddress"), Uint(10, "DrummerNodeID"),
      Str(11, "DrummerNodeHostDirectory"), Str(12, "DrummerWALDirectory")>>
ConfigUnmarshalC ==
    <<Bool(13, "MutualTLS"), Str(14, "CAFile"), Str(15, "CertFile"), Str(16, "KeyFile")>>
ConfigUnmarshal == ConfigUnmarshalA \o ConfigUnmarshalB \o ConfigUnmarshalC

SessionMarshalTo ==
    <<Uint(8, "ClusterID"), Uint(16, "ClientID"), Uint(24, "SeriesID"),
      Uint(32, "RespondedTo")>>
SessionSize ==
    <<Uint(1, "ClusterID"), Uint(1, "ClientID"), Uint(1, "SeriesID"),
      Uint(1, "RespondedTo")>>
SessionUnmarshal ==
    <<Uint(1, "ClusterID"), Uint(2, "ClientID"), Uint(3, "SeriesID"),
      Uint(4, "RespondedTo")>>

SessionRequestMarshalTo == <<Uint(8, "ClusterId")>>
SessionRequestSize == <<Uint(1, "ClusterId")>>
SessionRequestUnmarshal == <<Uint(1, "ClusterId")>>

SessionResponseMarshalTo == <<Bool(8, "Completed")>>
SessionResponseSize == <<Fixed(2)>>
SessionResponseUnmarshal == <<Bool(1, "Completed")>>

RaftProposalMarshalTo == <<Msg(10, "Session", "ClientSession"), Bytes(18, "Data")>>
RaftProposalSize == <<Msg(1, "Session", "ClientSession"), Bytes(1, "Data")>>
RaftProposalUnmarshal == <<Msg(1, "Session", "ClientSession"), Bytes(2, "Data")>>

RaftReadIndexMarshalTo == <<Uint(8, "ClusterId"), Bytes(18, "Data")>>
RaftReadIndexSize == <<Uint(1, "ClusterId"), Bytes(1, "Data")>>
RaftReadIndexUnmarshal == <<Uint(1, "ClusterId"), Bytes(2, "Data")>>

RaftResponseMarshalTo == <<Uint(8, "Result"), Bytes(18, "Data")>>
RaftResponseSize == <<Uint(1, "Result"), Bytes(1, "Data")>>
RaftResponseUnmarshal == <<Uint(1, "Result"), Bytes(2, "Data")>>

ClientSessionMarshalTo ==
    <<Uint(8, "ClusterID"), Uint(16, "ClientID"), Uint(24, "SeriesID"),
      Uint(32, "RespondedTo")>>
ClientSessionSize ==
    <<Uint(1, "ClusterID"), Uint(1, "ClientID"), Uint(1, "SeriesID"),
      Uint(1, "RespondedTo")>>
ClientSessionUnmarshal ==
    <<Uint(1, "ClusterID"), Uint(2, "ClientID"), Uint(3, "SeriesID"),
      Uint(4, "RespondedTo")>>

DrummerTables ==
    [Regions |-> Table(RegionsMarshalTo, RegionsSize, RegionsUnmarshal),
     Cluster |-> Table(ClusterMarshalTo, ClusterSize, ClusterUnmarshal),
     ClusterCollection |-> Table(ClusterCollectionMarshalTo, ClusterCollectionSize, ClusterCollectionUnmarshal),
     KV |-> Table(KVMarshalTo, KVSize, KVUnmarshal),
     Change |-> Table(ChangeMarshalTo, ChangeSize, ChangeUnmarshal),
     ChangeResponse |-> Table(ChangeResponseMarshalTo, ChangeResponseSize, ChangeResponseUnmarshal),
     Update |-> Table(UpdateMarshalTo, UpdateSize, UpdateUnmarshal),
     LookupRequest |-> Table(LookupRequestMarshalTo, LookupRequestSize, LookupRequestUnmarshal),
     LookupResponse |-> Table(LookupResponseMarshalTo, LookupResponseSize, LookupResponseUnmarshal),
     Request |-> Table(RequestMarshalTo, RequestSize, RequestUnmarshal),
     ClusterStateRequest |-> Table(ClusterStateRequestMarshalTo, ClusterStateRequestSize, ClusterStateRequestUnmarshal),
     ClusterState |-> Table(ClusterStateMarshalTo, ClusterStateSize, ClusterStateUnmarshal),
     ClusterInfo |-> Table(ClusterInfoMarshalTo, ClusterInfoSize, ClusterInfoUnmarshal),
     LogInfo |-> Table(LogInfoMarshalTo, LogInfoSize, LogInfoUnmarshal),
     ClusterStates |-> Table(ClusterStatesMarshalTo, ClusterStatesSize, ClusterStatesUnmarshal),
     NodeHostInfo |-> Table(NodeHostInfoMarshalTo, NodeHostInfoSize, NodeHostInfoUnmarshal),
     NodeHostCollection |-> Table(NodeHostCollectionMarshalTo, NodeHostCollectionSize, NodeHostCollectionUnmarshal),
     ConfigChangeIndexList |-> Table(ConfigChangeIndexListMarshalTo, ConfigChangeIndexListSize, ConfigChangeIndexListUnmarshal),
     DeploymentInfo |-> Table(DeploymentInfoMarshalTo, DeploymentInfoSize, DeploymentInfoUnmarshal),
     Empty |-> Table(EmptyMarshalTo, EmptySize, EmptyUnmarshal),
     NodeHostRequest |-> Table(NodeHostRequestMarshalTo, NodeHostRequestSize, NodeHostRequestUnmarshal),
     NodeHostRequestCollection |-> Table(NodeHostRequestCollectionMarshalTo, NodeHostRequestCollectionSize, NodeHostRequestCollectionUnmarshal),
     DrummerConfigRequest |-> Table(DrummerConfigRequestMarshalTo, DrummerConfigRequestSize, DrummerConfigRequestUnmarshal),
     Config |-> Table(ConfigMarshalTo, ConfigSize, ConfigUnmarshal),
     Session |-> Table(SessionMarshalTo, SessionSize, SessionUnmarshal),
     SessionRequest |-> Table(SessionRequestMarshalTo, SessionRequestSize, SessionRequestUnmarshal),
     SessionResponse |-> Table(SessionResponseMarshalTo, SessionResponseSize, SessionResponseUnmarshal),
     RaftProposal |-> Table(RaftProposalMarshalTo, RaftProposalSize, RaftProposalUnmarshal),
     RaftReadIndex |-> Table(RaftReadIndexMarshalTo, RaftReadIndexSize, RaftReadIndexUnmarshal),
     RaftResponse |-> Table(RaftResponseMarshalTo, RaftResponseSize, RaftResponseUnmarshal),
     ClientSession |-> Table(ClientSessionMarshalTo, ClientSessionSize, ClientSessionUnmarshal)]

=============================================================================
