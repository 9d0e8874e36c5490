------------------------------- MODULE DeviceApi -------------------------------
(***************************************************************************)
(* The messages of the device controller's gRPC services (src/pkg/proto),  *)
(* as far as the controller uses them: one set of records per message,     *)
(* with the fields a handler writes or reads.  A message field is Nil when *)
(* it is not set.  A repeated field is a sequence where its order or its   *)
(* multiplicity is used, and a set elsewhere.                              *)
(***************************************************************************)
EXTENDS Integers, Sequences

CONSTANTS Nil,
          Int32,  \* what a field with a number may hold
          Text    \* what a field with a string may hold

Unset == ""  \* a string field that is not set

\* The numbers and strings that the handlers themselves put into messages.
ASSUME LiteralsAssumption ==
    /\ {0, 1, 2, 3, 4096, 10240, 50000} \subseteq Int32
    /\ {Unset, "001", "c001", "6ATE", "on", "127.0.0.1"} \subseteq Text

Message(type) == type \cup {Nil}

--------------------------------------------------------------------------------
(* ate_cluster: the cluster of load balancers *)

ClusterOperResult == [RetCode : Int32, RetMsg : Text]
ClusterIDReq == [ClusterId : Text]
VipInterval == [BeginVip : Text, EndVip : Text, Length : Int32]
NodeHost == [HostId : Text, NodeId : Text]

ClusterBalanceInfo ==
    [ClusterName : Text, ClusterType : Text, NodeHost : SUBSET NodeHost,
     BalanceType : Int32, Ipv6Vip : Seq(VipInterval)]

ClusterAppInfo == [RaltRefererDefault : Int32, Redirect : Text]
ClusterLogInfo ==
    [IsOn : Int32, NodeLogSize : Int32, RemoteLogIp : Text, RemoteLogPort : Int32]
ClusterCacheInfo == [IsCacheOpen : Int32, CacheDbSize : Int32]

ClusterPublicInfoReq ==
    [ClusterId : Text, OperType : Int32,
     BalanceInfo : Message(ClusterBalanceInfo), AppInfo : Message(ClusterAppInfo),
     LogInfo : Message(ClusterLogInfo), CacheInfo : Message(ClusterCacheInfo)]

\* Of the details only SocsInfo is read.
ClusterDetailInfoRsp == [SocsInfo : ClusterBalanceInfo]

QryFreeDeviceReq == {<<>>}
QryFreeDeviceRsp == [HostId : SUBSET Text]

--------------------------------------------------------------------------------
(* rcs: groups of web sites and their sites *)

OperResult == [RetCode : Int32, RetMsg : Text]

FuncSwitcherInfo == [BreplaceHref : BOOLEAN, BhttpsToHttp : BOOLEAN, Binet6Cache : BOOLEAN]
RuleInfo == [StrruleId : Text, IruleType : Int32, Strsearch : Text, Strreplace : Text]

OptRaltGroupReq ==
    [Iopt : Int32, StrgroupId : Text, StrgroupName : Text, StrgroupHrefDomain : Text,
     ItransformMod : Int32, StrclusterId : Text,
     FuncSwitcher : Message(FuncSwitcherInfo), Rule : Seq(RuleInfo)]

\* Without an id, the groups of all clusters.
GetRaltGroupReq == [StrgroupId : Text]
GroupInfo ==
    [StrgroupId : Text, StrgroupName : Text, StrgroupHrefDomain : Text,
     ItransformMod : Int32, StrclusterId : Text,
     FuncSwitcher : FuncSwitcherInfo, Rule : Seq(RuleInfo)]
GetRaltGroupRsp == [GroupList : SUBSET GroupInfo]

\* The id of a protocol mapping is a random string that nothing reads back.
ProtocolMap ==
    [StrsrcProtocol : Text, IsrcPort : Int32, StrdstProtocol : Text, IdstPort : Int32]

WebsiteReqInfo ==
    [StrdomainId : Text, StrgroupId : Text, StrsrcDomain : Text, StrdstDomain : Text,
     StrsrcIpAddr : Text, StripAddr : Text, ProtocolMap : Seq(ProtocolMap),
     StrwebsiteHrefDomain : Text, I64Mod : Int32]

OptRaltWebsiteReq == [Iopt : Int32, Website : SUBSET WebsiteReqInfo]
GetRaltSpecWebsiteReq == [StrdomainId : Text]
GetRaltSpecWebsiteRsp == [Website : SUBSET WebsiteReqInfo]
GetRaltGroupWebsiteReq == [StrgroupId : Text]
GetRaltGroupWebsiteRsp == [Website : SUBSET WebsiteReqInfo]

\* Virtual addresses that are not in use.
GetAvailIPReq == [StrclusterId : Text, Network : Int32, Count : Int32]
GetAvailIPRsp == [Ip : SUBSET Text]

--------------------------------------------------------------------------------
(* ateStatsHomePage: the figures of the home page *)

ShowHomePageDataReq == [ClusterId : Text]
ShowHomePageDataRsp ==
    [DomainIsNormal : Nat, DomainIsAbnormal : Nat,
     NormalIpv6IpaddrNumber : Nat, AbnormalIpv6IpaddrNumber : Nat,
     NormalNodeNumber : Nat, AbnormalNodeNumber : Nat]

ShowHomePageFlowDataReq == [DeviceId : Text]
DeviceFlowData ==
    [CurrentDeviceV4UpBytes : Nat, CurrentDeviceV4DownBytes : Nat,
     CurrentDeviceV6UpBytes : Nat, CurrentDeviceV6DownBytes : Nat, Timestamp : Nat]
ShowHomePageFlowDataRsp == [UpDowmFlow : Seq(DeviceFlowData)]

ShowDomainVisitorDataReq == [ClusterId : Text]
VisitDomainNum == [VisitDomainNum : Nat]
DomainVisitor == [VisitHostNumber : Seq(VisitDomainNum), MemberDomain : Text]
ShowDomainVisitorDataRsp == [DomainVisitNum : SUBSET DomainVisitor]
================================================================================
