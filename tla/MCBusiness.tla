------------------------------ MODULE MCBusiness -------------------------------
(* The business handlers with two controllers, two hosts, two groups and two sites. *)
EXTENDS Business, TLC

MCInt32 == (-2147483647 - 1) .. 2147483647
MCText == STRING

MCVIP == [BeginVip |-> "2001:db8::1", EndVip |-> "2001:db8::9", Length |-> 96]

\* What clients ask of the cluster: to make it with two nodes on one host, and to change
\* its nodes, which a device that reads 2 as a removal takes for one.
MCNode(h, n) == [HostID |-> h, NodeID |-> n]
MCCluster(opt, nodes) ==
    [ID |-> DefaultClusterID, Name |-> "c", OperType |-> opt,
     Balance |-> [Name |-> "c", ClusterType |-> ClusterType,
                  NodeHosts |-> nodes,
                  Ipv6Vips |-> <<MCVIP>>],
     LogInfo |-> [NodeLogSize |-> 1, RemoteLogIp |-> "", RemoteLogPort |-> 1],
     Cache |-> [IsOn |-> 1, CacheDBSize |-> 1]]
MCClusters ==
    {MCCluster(1, {MCNode("h1", "n1"), MCNode("h1", "n2")}),
     MCCluster(2, {MCNode("h1", "n1"), MCNode("h2", "n3")})}

MCGroup(id, on, rules) ==
    [ID |-> id, Name |-> "n", HrefDomain |-> "d", TransformMod |-> 2, ClusterID |-> "002",
     UpdateSwithcher |-> [IsReplaceHrefOn |-> on, IsHttpsToHttpOn |-> ~on, IsCacheOn |-> on],
     Rules |-> rules]
MCRule == [ID |-> "r", RuleType |-> 1, SearchString |-> "a", ReplaceString |-> "b"]
MCWebGroups == {MCGroup("g1", FALSE, <<MCRule>>)}

MCSite(id, group, domain) ==
    [ID |-> id, GroupID |-> group, SourceDomain |-> domain, DestDomain |-> "t", VirtualIP |-> "v",
     ProtocolPorts |-> <<[SourceProtocol |-> "http", SourcePort |-> 80,
                          DestProtocol |-> "https", DestPort |-> 443]>>,
     HrefDomain |-> "d", TransferMod |-> 2]

\* The first site, moved from the first group to the second.
MCWebsites == {MCSite("s1", "g2", "d1")}

\* The codes of the handlers, and those of the protocol files (ralt_plugin.proto:51,
\* cluster.proto:150).
HandlersCodes == [modify |-> 2, delete |-> 3]
DocumentedCodes == [modify |-> 3, delete |-> 2]
MCCodes == {HandlersCodes, DocumentedCodes}

\* The device of a new installation, and one in use with either reading of the codes.
NewDevice(codes) == [clusters |-> {}, groups |-> {}, sites |-> {}, codes |-> codes]
DeviceInUse(codes) ==
    [clusters |-> {[id |-> DefaultClusterID,
                    info |-> ClusterReq(MCCluster(1, {MCNode("h1", "n1"), MCNode("h1", "n2")})).BalanceInfo]},
     groups |-> {GroupOf(WebGroupReq(OperTypeCreate, MCGroup(id, TRUE, <<>>))) : id \in {"g1", "g2"}},
     sites |-> UNION {WebsiteReq(OperTypeCreate, s, "a").Website :
                        s \in {MCSite("s1", "g1", "d1"), MCSite("s2", "g2", "d2")}},
     codes |-> codes]
MCDeviceStates == {NewDevice(DocumentedCodes)} \cup {DeviceInUse(c) : c \in MCCodes}
MCDocumentedStates == {NewDevice(DocumentedCodes), DeviceInUse(DocumentedCodes)}

MCFigureReplies ==
    {[DomainIsNormal |-> 3, DomainIsAbnormal |-> 0, NormalIpv6IpaddrNumber |-> 1,
      AbnormalIpv6IpaddrNumber |-> 1, NormalNodeNumber |-> 2, AbnormalNodeNumber |-> 3]}

Visits(domain, series) ==
    [MemberDomain |-> domain,
     VisitHostNumber |-> [i \in DOMAIN series |-> [VisitDomainNum |-> series[i]]]]
MCVisitReplies ==
    {[DomainVisitNum |-> {Visits("d1", <<5, 1>>), Visits("d2", <<7, 2>>)}],
     [DomainVisitNum |-> {Visits("d1", <<>>)}]}

Sample(k) ==
    [CurrentDeviceV4UpBytes |-> k, CurrentDeviceV4DownBytes |-> 2 * k,
     CurrentDeviceV6UpBytes |-> 3 * k, CurrentDeviceV6DownBytes |-> 4 * k, Timestamp |-> k]
MCFlowReplies ==
    [h \in Hosts |-> IF h = "h1" THEN {[UpDowmFlow |-> <<Sample(1), Sample(2)>>]}
                     ELSE {[UpDowmFlow |-> <<Sample(3), Sample(4)>>], [UpDowmFlow |-> <<>>]}]

\* Controllers are interchangeable.
Symmetry == Permutations(Controllers)

MCHosts == {"h1", "h2"}
================================================================================
