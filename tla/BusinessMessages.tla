--------------------------- MODULE BusinessMessages ----------------------------
(***************************************************************************)
(* The business resources (src/pkg/business/resource) and what the         *)
(* handlers make of them: the messages they send to the device controller, *)
(* and the resources they make of its replies.                             *)
(***************************************************************************)
EXTENDS DeviceApi, FiniteSets

CONSTANTS ConfigVIP,  \* the addresses of the configuration file
          Word        \* the number of values of a figure of the home page, 2^32

ASSUME MessagesAssumption == ConfigVIP \in VipInterval /\ Word \in Nat \ {0}

DefaultClusterID == "001"
DefaultClusterName == "c001"
OperTypeCreate == 1
OperTypeModify == 2
OperTypeDelete == 3
ClusterType == "6ATE"
BalanceTypeHash == 1
TransformModType64 == 1
SwitchUp == 1
VipLength == 96

LastOf(s) == s[Len(s)]

--------------------------------------------------------------------------------
(* Resources *)

VipResource == [BeginVip : Text, EndVip : Text, Length : Int32]
HostOfNode == [HostID : Text, NodeID : Text]
BalanceResource ==
    [Name : Text, ClusterType : Text, NodeHosts : SUBSET HostOfNode,
     Ipv6Vips : Seq(VipResource)]
LogInfoResource == [NodeLogSize : Int32, RemoteLogIp : Text, RemoteLogPort : Int32]
CacheResource == [IsOn : Int32, CacheDBSize : Int32]
ClusterResource ==
    [ID : Text, Name : Text, OperType : 1..3, Balance : BalanceResource,
     LogInfo : LogInfoResource, Cache : CacheResource]

UpdateSwitch == [IsReplaceHrefOn : BOOLEAN, IsHttpsToHttpOn : BOOLEAN, IsCacheOn : BOOLEAN]
Rule == [ID : Text, RuleType : Int32, SearchString : Text, ReplaceString : Text]
WebGroup ==
    [ID : Text, Name : Text, HrefDomain : Text, TransformMod : Int32,
     ClusterID : Text, UpdateSwithcher : UpdateSwitch, Rules : Seq(Rule)]

ProtocolPort ==
    [SourceProtocol : Text, SourcePort : Int32, DestProtocol : Text, DestPort : Int32]
Website ==
    [ID : Text, GroupID : Text, SourceDomain : Text, DestDomain : Text,
     VirtualIP : Text, ProtocolPorts : Seq(ProtocolPort), HrefDomain : Text,
     TransferMod : Int32]

\* A visit names its site here, so that two sites with one domain are two visits.
WebsiteVisit == [site : Text, Domain : Text, Count : Nat]
HomePage ==
    [NormalDomains : Nat, AbnormalDomains : Nat, DomainsCount : 0..(Word - 1),
     NormalIPv6Address : Nat, AbnormalIPv6Address : Nat, IPv6AddressCount : 0..(Word - 1),
     NormalNode : Nat, AbnormalNode : Nat, NodesCount : 0..(Word - 1)]

Host ==
    [ID : Text, V4UpFlow : Nat, V4DownFlow : Nat, V6UpFlow : Nat, V6DownFlow : Nat,
     TimeStamp : Nat]

--------------------------------------------------------------------------------
(* The cluster *)

\* What NewClusterHandler creates when there is no cluster: all free hosts and the
\* configured addresses.
DefaultClusterReq(freeHosts) ==
    [ClusterId |-> DefaultClusterID, OperType |-> OperTypeCreate,
     BalanceInfo |-> [ClusterName |-> DefaultClusterName, ClusterType |-> ClusterType,
                      NodeHost |-> {[HostId |-> h, NodeId |-> h] : h \in freeHosts},
                      BalanceType |-> BalanceTypeHash, Ipv6Vip |-> <<ConfigVIP>>],
     AppInfo |-> [RaltRefererDefault |-> SwitchUp, Redirect |-> "on"],
     LogInfo |-> [IsOn |-> SwitchUp, NodeLogSize |-> 10240,
                  RemoteLogIp |-> "127.0.0.1", RemoteLogPort |-> 50000],
     CacheInfo |-> [IsCacheOpen |-> SwitchUp, CacheDbSize |-> 4096]]

\* Create sends the client's cluster with the client's operation.
ClusterReq(cluster) ==
    [ClusterId |-> cluster.ID, OperType |-> cluster.OperType,
     BalanceInfo |-> [ClusterName |-> cluster.Name, ClusterType |-> cluster.Balance.ClusterType,
                      NodeHost |-> {[HostId |-> n.HostID, NodeId |-> n.NodeID] :
                                      n \in cluster.Balance.NodeHosts},
                      BalanceType |-> BalanceTypeHash, Ipv6Vip |-> cluster.Balance.Ipv6Vips],
     AppInfo |-> [RaltRefererDefault |-> SwitchUp, Redirect |-> "on"],
     LogInfo |-> [IsOn |-> SwitchUp, NodeLogSize |-> cluster.LogInfo.NodeLogSize,
                  RemoteLogIp |-> cluster.LogInfo.RemoteLogIp,
                  RemoteLogPort |-> cluster.LogInfo.RemoteLogPort],
     CacheInfo |-> [IsCacheOpen |-> cluster.Cache.IsOn, CacheDbSize |-> cluster.Cache.CacheDBSize]]

\* Delete sends the code of Create.
DeleteClusterReq ==
    [ClusterId |-> DefaultClusterID, OperType |-> OperTypeCreate,
     BalanceInfo |-> Nil, AppInfo |-> Nil, LogInfo |-> Nil, CacheInfo |-> Nil]

\* What Get shows of the default cluster.
ClusterGot(rsp) ==
    [ID |-> DefaultClusterID, Name |-> rsp.SocsInfo.ClusterName,
     Balance |-> [Name |-> rsp.SocsInfo.ClusterName, ClusterType |-> rsp.SocsInfo.ClusterType,
                  NodeHosts |-> {[HostID |-> n.HostId, NodeID |-> n.NodeId] :
                                   n \in rsp.SocsInfo.NodeHost},
                  Ipv6Vips |-> rsp.SocsInfo.Ipv6Vip]]

--------------------------------------------------------------------------------
(* Groups of web sites *)

RuleSent(v) ==
    [StrruleId |-> v.ID, IruleType |-> v.RuleType, Strsearch |-> v.SearchString,
     Strreplace |-> v.ReplaceString]
RuleGot(v) ==
    [ID |-> v.StrruleId, RuleType |-> v.IruleType, SearchString |-> v.Strsearch,
     ReplaceString |-> v.Strreplace]

\* Create and Update; the cluster and the mode of the client's group are not used.
WebGroupReq(opt, webGroup) ==
    [Iopt |-> opt, StrgroupId |-> webGroup.ID, StrgroupName |-> webGroup.Name,
     StrgroupHrefDomain |-> webGroup.HrefDomain, ItransformMod |-> TransformModType64,
     StrclusterId |-> DefaultClusterID,
     FuncSwitcher |-> [BreplaceHref |-> webGroup.UpdateSwithcher.IsReplaceHrefOn,
                       BhttpsToHttp |-> webGroup.UpdateSwithcher.IsHttpsToHttpOn,
                       Binet6Cache |-> webGroup.UpdateSwithcher.IsCacheOn],
     Rule |-> [i \in DOMAIN webGroup.Rules |-> RuleSent(webGroup.Rules[i])]]

DeleteWebGroupReq(id) ==
    [Iopt |-> OperTypeDelete, StrgroupId |-> id, StrgroupName |-> Unset, StrgroupHrefDomain |-> Unset,
     ItransformMod |-> 0, StrclusterId |-> DefaultClusterID, FuncSwitcher |-> Nil, Rule |-> <<>>]

\* Mutant: the switches for the cache and for HTTP change places.
WebGroupGotSwapped(group) ==
    [ID |-> group.StrgroupId, Name |-> group.StrgroupName,
     HrefDomain |-> group.StrgroupHrefDomain, TransformMod |-> group.ItransformMod,
     ClusterID |-> group.StrclusterId,
     UpdateSwithcher |-> [IsCacheOn |-> group.FuncSwitcher.BhttpsToHttp,
                          IsHttpsToHttpOn |-> group.FuncSwitcher.Binet6Cache,
                          IsReplaceHrefOn |-> group.FuncSwitcher.BreplaceHref],
     Rules |-> [i \in DOMAIN group.Rule |-> RuleGot(group.Rule[i])]]

\* Get and List.
WebGroupGot(group) ==
    [ID |-> group.StrgroupId, Name |-> group.StrgroupName,
     HrefDomain |-> group.StrgroupHrefDomain, TransformMod |-> group.ItransformMod,
     ClusterID |-> group.StrclusterId,
     UpdateSwithcher |-> [IsCacheOn |-> group.FuncSwitcher.Binet6Cache,
                          IsHttpsToHttpOn |-> group.FuncSwitcher.BhttpsToHttp,
                          IsReplaceHrefOn |-> group.FuncSwitcher.BreplaceHref],
     Rules |-> [i \in DOMAIN group.Rule |-> RuleGot(group.Rule[i])]]

--------------------------------------------------------------------------------
(* Web sites *)

PortSent(v) ==
    [StrsrcProtocol |-> v.SourceProtocol, IsrcPort |-> v.SourcePort,
     StrdstProtocol |-> v.DestProtocol, IdstPort |-> v.DestPort]
PortGot(v) ==
    [SourceProtocol |-> v.StrsrcProtocol, SourcePort |-> v.IsrcPort,
     DestProtocol |-> v.StrdstProtocol, DestPort |-> v.IdstPort]

\* Create and Update; "address" is what the source domain resolves to.
WebsiteReq(opt, website, address) ==
    [Iopt |-> opt,
     Website |->
       {[StrdomainId |-> website.ID, StrgroupId |-> website.GroupID,
         StrsrcDomain |-> website.SourceDomain, StrdstDomain |-> website.DestDomain,
         StrsrcIpAddr |-> address, StripAddr |-> website.VirtualIP,
         ProtocolMap |-> [i \in DOMAIN website.ProtocolPorts |-> PortSent(website.ProtocolPorts[i])],
         StrwebsiteHrefDomain |-> website.HrefDomain, I64Mod |-> TransformModType64]}]

\* The resource of a DELETE has an id and nothing else.
DeleteWebsiteReq(id) ==
    [Iopt |-> OperTypeDelete,
     Website |->
       {[StrdomainId |-> id, StrgroupId |-> Unset, StrsrcDomain |-> Unset, StrdstDomain |-> Unset,
         StrsrcIpAddr |-> Unset, StripAddr |-> Unset, ProtocolMap |-> <<>>,
         StrwebsiteHrefDomain |-> Unset, I64Mod |-> 0]}]

\* The resource of a GET, too: what a read of a site that is not there shows.
NoWebsite(id) ==
    [ID |-> id, GroupID |-> Unset, SourceDomain |-> Unset, DestDomain |-> Unset,
     VirtualIP |-> Unset, ProtocolPorts |-> <<>>, HrefDomain |-> Unset, TransferMod |-> 0]

WebsiteGot(site) ==
    [ID |-> site.StrdomainId, GroupID |-> site.StrgroupId, SourceDomain |-> site.StrsrcDomain,
     DestDomain |-> site.StrdstDomain, VirtualIP |-> site.StripAddr,
     ProtocolPorts |-> [i \in DOMAIN site.ProtocolMap |-> PortGot(site.ProtocolMap[i])],
     HrefDomain |-> site.StrwebsiteHrefDomain, TransferMod |-> site.I64Mod]

\* List shows the address of the source as the virtual address, and leaves out the
\* link domain and the mode.
WebsiteListed(req, site) ==
    [ID |-> site.StrdomainId, GroupID |-> req.StrgroupId, SourceDomain |-> site.StrsrcDomain,
     DestDomain |-> site.StrdstDomain, VirtualIP |-> site.StrsrcIpAddr,
     ProtocolPorts |-> [i \in DOMAIN site.ProtocolMap |-> PortGot(site.ProtocolMap[i])],
     HrefDomain |-> Unset, TransferMod |-> 0]

\* VipHandler.List: each address is an interval of its own.
VipsListed(rsp) == {[BeginVip |-> ip, EndVip |-> ip, Length |-> VipLength] : ip \in rsp.Ip}

--------------------------------------------------------------------------------
(* Figures *)

\* The head of the home page; the sums are those of 32-bit numbers.
Figures(rsp) ==
    [NormalDomains |-> rsp.DomainIsNormal, AbnormalDomains |-> rsp.DomainIsAbnormal,
     DomainsCount |-> (rsp.DomainIsNormal + rsp.DomainIsAbnormal) % Word,
     NormalIPv6Address |-> rsp.NormalIpv6IpaddrNumber,
     AbnormalIPv6Address |-> rsp.AbnormalIpv6IpaddrNumber,
     IPv6AddressCount |-> (rsp.NormalIpv6IpaddrNumber + rsp.AbnormalIpv6IpaddrNumber) % Word,
     NormalNode |-> rsp.NormalNodeNumber, AbnormalNode |-> rsp.AbnormalNodeNumber,
     NodesCount |-> (rsp.NormalNodeNumber + rsp.AbnormalNodeNumber) % Word]

\* The newest number of visits of a domain.
VisitOf(v) ==
    [MemberDomain |-> v.MemberDomain, Count |-> LastOf(v.VisitHostNumber).VisitDomainNum]

\* A host with the newest sample of its traffic.
HostOf(id, rsp) ==
    LET flow == LastOf(rsp.UpDowmFlow) IN
    [ID |-> id,
     V4UpFlow |-> flow.CurrentDeviceV4UpBytes, V4DownFlow |-> flow.CurrentDeviceV4DownBytes,
     V6UpFlow |-> flow.CurrentDeviceV6UpBytes, V6DownFlow |-> flow.CurrentDeviceV6DownBytes,
     TimeStamp |-> flow.Timestamp]
================================================================================
