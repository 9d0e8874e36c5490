---------------------------- MODULE BusinessProofs ----------------------------
(***************************************************************************)
(* Proofs about the business handlers, for any controllers, hosts and      *)
(* bodies, any bounds, and whatever the device controller takes the codes  *)
(* of modifying and deleting for.                                          *)
(***************************************************************************)
EXTENDS Business, TLAPS

--------------------------------------------------------------------------------
(* Messages *)

\* A sequence is the function of its elements.
LEMMA SequenceIsFunction ==
    ASSUME NEW S, NEW s \in Seq(S)
    PROVE  s = [i \in DOMAIN s |-> s[i]] /\ \A i \in DOMAIN s : s[i] \in S
  OBVIOUS

\* A rule and a port come back as they were sent.
LEMMA RuleRoundTrip == \A v \in Rule : RuleGot(RuleSent(v)) = v
  BY DEF Rule, RuleGot, RuleSent

LEMMA PortRoundTrip == \A v \in ProtocolPort : PortGot(PortSent(v)) = v
  BY DEF ProtocolPort, PortGot, PortSent

\* And so do the sequences of them.
LEMMA RulesRoundTrip ==
    ASSUME NEW s \in Seq(Rule), NEW wire, wire = [i \in DOMAIN s |-> RuleSent(s[i])]
    PROVE  [i \in DOMAIN wire |-> RuleGot(wire[i])] = s
<1>1. DOMAIN wire = DOMAIN s
  OBVIOUS
<1>2. \A i \in DOMAIN s : RuleGot(wire[i]) = s[i]
  BY RuleRoundTrip, SequenceIsFunction
<1>3. [i \in DOMAIN wire |-> RuleGot(wire[i])] = [i \in DOMAIN s |-> s[i]]
  BY <1>1, <1>2
<1>. QED
  BY <1>3, SequenceIsFunction

LEMMA PortsRoundTrip ==
    ASSUME NEW s \in Seq(ProtocolPort), NEW wire, wire = [i \in DOMAIN s |-> PortSent(s[i])]
    PROVE  [i \in DOMAIN wire |-> PortGot(wire[i])] = s
<1>1. DOMAIN wire = DOMAIN s
  OBVIOUS
<1>2. \A i \in DOMAIN s : PortGot(wire[i]) = s[i]
  BY PortRoundTrip, SequenceIsFunction
<1>3. [i \in DOMAIN wire |-> PortGot(wire[i])] = [i \in DOMAIN s |-> s[i]]
  BY <1>1, <1>2
<1>. QED
  BY <1>3, SequenceIsFunction

\* The literals of the handlers are values of fields.
LEMMA Numbers32 == 0 \in Int32 /\ 1 \in Int32 /\ 2 \in Int32 /\ 3 \in Int32
  BY LiteralsAssumption, SMT

LEMMA Sizes32 == 4096 \in Int32 /\ 10240 \in Int32 /\ 50000 \in Int32
  BY LiteralsAssumption, SMT

LEMMA Names ==
    /\ DefaultClusterID \in Text /\ DefaultClusterName \in Text /\ ClusterType \in Text
    /\ Unset \in Text /\ "on" \in Text /\ "127.0.0.1" \in Text
  BY LiteralsAssumption, SMT DEF DefaultClusterID, DefaultClusterName, ClusterType

\* The message of a new default cluster is one of the interface.
LEMMA DefaultClusterReqType ==
    ASSUME NEW hosts \in SUBSET Text
    PROVE  DefaultClusterReq(hosts) \in ClusterPublicInfoReq
<1>1. {[HostId |-> h, NodeId |-> h] : h \in hosts} \subseteq NodeHost
  BY DEF NodeHost
<1>2. <<ConfigVIP>> \in Seq(VipInterval)
  BY MessagesAssumption DEF VipInterval
<1>. QED
  BY <1>1, <1>2, Numbers32, Sizes32, Names, SMT DEF DefaultClusterReq, ClusterPublicInfoReq, Message, ClusterBalanceInfo,
     ClusterAppInfo, ClusterLogInfo, ClusterCacheInfo, OperTypeCreate, BalanceTypeHash, SwitchUp

\* So is the message of a client's cluster.
LEMMA ClusterReqType ==
    ASSUME NEW cluster \in ClusterResource
    PROVE  ClusterReq(cluster) \in ClusterPublicInfoReq
<1>1. {[HostId |-> n.HostID, NodeId |-> n.NodeID] : n \in cluster.Balance.NodeHosts} \subseteq NodeHost
  BY DEF NodeHost, ClusterResource, BalanceResource, HostOfNode
<1>2. cluster.Balance.Ipv6Vips \in Seq(VipInterval)
  BY DEF ClusterResource, BalanceResource, VipInterval, VipResource
<1>3. cluster.OperType \in Int32
  BY Numbers32, Names, SMT DEF ClusterResource
<1>. QED
  BY <1>1, <1>2, <1>3, Numbers32, Names, SMT DEF ClusterReq, ClusterPublicInfoReq, Message, ClusterBalanceInfo,
     ClusterAppInfo, ClusterLogInfo, ClusterCacheInfo, ClusterResource, BalanceResource,
     BalanceTypeHash, SwitchUp, LogInfoResource, CacheResource

\* And that of a group, with its rules.
LEMMA WebGroupReqType ==
    ASSUME NEW webGroup \in WebGroup, NEW opt \in Int32
    PROVE  WebGroupReq(opt, webGroup) \in OptRaltGroupReq
<1> DEFINE rules == [i \in DOMAIN webGroup.Rules |-> RuleSent(webGroup.Rules[i])]
<1> DEFINE switcher == [BreplaceHref |-> webGroup.UpdateSwithcher.IsReplaceHrefOn,
                        BhttpsToHttp |-> webGroup.UpdateSwithcher.IsHttpsToHttpOn,
                        Binet6Cache |-> webGroup.UpdateSwithcher.IsCacheOn]
<1>1. rules \in Seq(RuleInfo)
  <2>1. webGroup.Rules \in Seq(Rule)
    BY DEF WebGroup
  <2>2. \A v \in Rule : RuleSent(v) \in RuleInfo
    BY DEF Rule, RuleSent, RuleInfo
  <2>. QED
    BY <2>1, <2>2
<1>2. switcher \in FuncSwitcherInfo
  BY DEF WebGroup, UpdateSwitch, FuncSwitcherInfo
<1>3. WebGroupReq(opt, webGroup) =
        [Iopt |-> opt, StrgroupId |-> webGroup.ID, StrgroupName |-> webGroup.Name,
         StrgroupHrefDomain |-> webGroup.HrefDomain, ItransformMod |-> TransformModType64,
         StrclusterId |-> DefaultClusterID, FuncSwitcher |-> switcher, Rule |-> rules]
  BY DEF WebGroupReq
<1>4. webGroup.ID \in Text /\ webGroup.Name \in Text /\ webGroup.HrefDomain \in Text
  BY DEF WebGroup
<1>5. TransformModType64 \in Int32
  BY Numbers32 DEF TransformModType64
<1>6. DefaultClusterID \in Text
  BY Names
<1> HIDE DEF rules, switcher
<1>. QED
  BY <1>1, <1>2, <1>3, <1>4, <1>5, <1>6 DEF OptRaltGroupReq, Message

\* And that of a site, with its ports.
LEMMA WebsiteReqType ==
    ASSUME NEW website \in Website, NEW opt \in Int32, NEW address \in Text
    PROVE  WebsiteReq(opt, website, address) \in OptRaltWebsiteReq
<1> DEFINE ports == [i \in DOMAIN website.ProtocolPorts |-> PortSent(website.ProtocolPorts[i])]
<1>1. ports \in Seq(ProtocolMap)
  <2>1. website.ProtocolPorts \in Seq(ProtocolPort)
    BY DEF Website
  <2>2. \A v \in ProtocolPort : PortSent(v) \in ProtocolMap
    BY DEF ProtocolPort, PortSent, ProtocolMap
  <2>. QED
    BY <2>1, <2>2
<1>2. WebsiteReq(opt, website, address).Website =
        {[StrdomainId |-> website.ID, StrgroupId |-> website.GroupID,
          StrsrcDomain |-> website.SourceDomain, StrdstDomain |-> website.DestDomain,
          StrsrcIpAddr |-> address, StripAddr |-> website.VirtualIP, ProtocolMap |-> ports,
          StrwebsiteHrefDomain |-> website.HrefDomain, I64Mod |-> TransformModType64]}
  BY DEF WebsiteReq
<1>3. /\ website.ID \in Text /\ website.GroupID \in Text /\ website.SourceDomain \in Text
      /\ website.DestDomain \in Text /\ website.VirtualIP \in Text /\ website.HrefDomain \in Text
  BY DEF Website
<1>4. TransformModType64 \in Int32
  BY Numbers32 DEF TransformModType64
<1> HIDE DEF ports
<1>5. WebsiteReq(opt, website, address).Website \subseteq WebsiteReqInfo
  BY <1>1, <1>2, <1>3, <1>4 DEF WebsiteReqInfo
<1>. QED
  BY <1>5 DEF WebsiteReq, OptRaltWebsiteReq

\* A group reads as it was sent, but for its mode and its cluster.
THEOREM GroupRoundTrip ==
    ASSUME NEW webGroup \in WebGroup, NEW opt \in Int32
    PROVE  WebGroupGot(GroupOf(WebGroupReq(opt, webGroup))) =
             [webGroup EXCEPT !.TransformMod = TransformModType64, !.ClusterID = DefaultClusterID]
<1> DEFINE wire == [i \in DOMAIN webGroup.Rules |-> RuleSent(webGroup.Rules[i])]
<1>1. [i \in DOMAIN wire |-> RuleGot(wire[i])] = webGroup.Rules
  <2>1. webGroup.Rules \in Seq(Rule)
    BY DEF WebGroup
  <2>2. SUFFICES ASSUME NEW s \in Seq(Rule), s = webGroup.Rules,
                        NEW w, w = [i \in DOMAIN s |-> RuleSent(s[i])], w = wire
                 PROVE  [i \in DOMAIN w |-> RuleGot(w[i])] = s
    BY <2>1
  <2>. QED
    BY ONLY <2>2, RulesRoundTrip
<1>2. [IsCacheOn |-> webGroup.UpdateSwithcher.IsCacheOn,
       IsHttpsToHttpOn |-> webGroup.UpdateSwithcher.IsHttpsToHttpOn,
       IsReplaceHrefOn |-> webGroup.UpdateSwithcher.IsReplaceHrefOn] = webGroup.UpdateSwithcher
  <2>1. webGroup.UpdateSwithcher \in UpdateSwitch
    BY DEF WebGroup
  <2>. QED
    BY <2>1 DEF UpdateSwitch
<1>3. WebGroupGot(GroupOf(WebGroupReq(opt, webGroup))) =
        [ID |-> webGroup.ID, Name |-> webGroup.Name, HrefDomain |-> webGroup.HrefDomain,
         TransformMod |-> TransformModType64, ClusterID |-> DefaultClusterID,
         UpdateSwithcher |-> webGroup.UpdateSwithcher, Rules |-> webGroup.Rules]
  <2>1. GroupOf(WebGroupReq(opt, webGroup)).Rule = wire
    BY DEF GroupOf, WebGroupReq
  <2> HIDE DEF wire
  <2>. QED
    BY <1>1, <1>2, <2>1 DEF WebGroupGot, GroupOf, WebGroupReq
<1>4. webGroup = [ID |-> webGroup.ID, Name |-> webGroup.Name, HrefDomain |-> webGroup.HrefDomain,
                  TransformMod |-> webGroup.TransformMod, ClusterID |-> webGroup.ClusterID,
                  UpdateSwithcher |-> webGroup.UpdateSwithcher, Rules |-> webGroup.Rules]
  BY DEF WebGroup
<1> DEFINE moved == [webGroup EXCEPT !.TransformMod = TransformModType64]
<1>5. moved =
        [ID |-> webGroup.ID, Name |-> webGroup.Name, HrefDomain |-> webGroup.HrefDomain,
         TransformMod |-> TransformModType64, ClusterID |-> webGroup.ClusterID,
         UpdateSwithcher |-> webGroup.UpdateSwithcher, Rules |-> webGroup.Rules]
  BY <1>4
<1>6. [moved EXCEPT !.ClusterID = DefaultClusterID] =
        [ID |-> webGroup.ID, Name |-> webGroup.Name, HrefDomain |-> webGroup.HrefDomain,
         TransformMod |-> TransformModType64, ClusterID |-> DefaultClusterID,
         UpdateSwithcher |-> webGroup.UpdateSwithcher, Rules |-> webGroup.Rules]
  <2> HIDE DEF moved
  <2>. QED
    BY <1>5
<1>. QED
  BY ONLY <1>3, <1>6

\* A site reads as it was sent, but for its mode.
THEOREM SiteRoundTrip ==
    ASSUME NEW website \in Website, NEW opt \in Int32, NEW address \in Text,
           NEW site \in WebsiteReq(opt, website, address).Website
    PROVE  WebsiteGot(site) = [website EXCEPT !.TransferMod = TransformModType64]
<1> DEFINE wire == [i \in DOMAIN website.ProtocolPorts |-> PortSent(website.ProtocolPorts[i])]
<1>1. [i \in DOMAIN wire |-> PortGot(wire[i])] = website.ProtocolPorts
  <2>1. website.ProtocolPorts \in Seq(ProtocolPort)
    BY DEF Website
  <2>2. SUFFICES ASSUME NEW s \in Seq(ProtocolPort), s = website.ProtocolPorts,
                        NEW w, w = [i \in DOMAIN s |-> PortSent(s[i])], w = wire
                 PROVE  [i \in DOMAIN w |-> PortGot(w[i])] = s
    BY <2>1
  <2>. QED
    BY ONLY <2>2, PortsRoundTrip
<1>. QED
  BY <1>1 DEF WebsiteGot, WebsiteReq, Website

\* The cluster reads as it was sent: its hosts, its addresses and its name, whatever name
\* the client gave to its balance.
THEOREM ClusterRoundTrip ==
    ASSUME NEW cluster \in ClusterResource
    PROVE  ClusterGot([SocsInfo |-> ClusterReq(cluster).BalanceInfo]) =
             [ID |-> DefaultClusterID, Name |-> cluster.Name,
              Balance |-> [cluster.Balance EXCEPT !.Name = cluster.Name]]
<1> DEFINE wire == {[HostId |-> n.HostID, NodeId |-> n.NodeID] : n \in cluster.Balance.NodeHosts}
           got == ClusterGot([SocsInfo |-> ClusterReq(cluster).BalanceInfo])
<1>1. cluster.Balance \in BalanceResource
  BY DEF ClusterResource
<1>2. {[HostID |-> n.HostId, NodeID |-> n.NodeId] : n \in wire} = cluster.Balance.NodeHosts
  <2>1. \A n \in cluster.Balance.NodeHosts : n = [HostID |-> n.HostID, NodeID |-> n.NodeID]
    BY <1>1 DEF BalanceResource, HostOfNode
  <2>2. \A m \in wire : \E n \in cluster.Balance.NodeHosts :
            m.HostId = n.HostID /\ m.NodeId = n.NodeID
    OBVIOUS
  <2>3. \A n \in cluster.Balance.NodeHosts : \E m \in wire :
            m.HostId = n.HostID /\ m.NodeId = n.NodeID
    <3> SUFFICES ASSUME NEW n \in cluster.Balance.NodeHosts
                 PROVE  \E m \in wire : m.HostId = n.HostID /\ m.NodeId = n.NodeID
      OBVIOUS
    <3>1. [HostId |-> n.HostID, NodeId |-> n.NodeID] \in wire
      OBVIOUS
    <3> HIDE DEF wire
    <3>. QED
      BY <3>1
  <2> HIDE DEF wire
  <2>. QED
    BY <2>1, <2>2, <2>3
<1>3. got = [ID |-> DefaultClusterID, Name |-> cluster.Name,
             Balance |-> [Name |-> cluster.Name, ClusterType |-> cluster.Balance.ClusterType,
                          NodeHosts |-> cluster.Balance.NodeHosts,
                          Ipv6Vips |-> cluster.Balance.Ipv6Vips]]
  <2> DEFINE info == ClusterReq(cluster).BalanceInfo
  <2>1. /\ info.ClusterName = cluster.Name /\ info.ClusterType = cluster.Balance.ClusterType
        /\ info.NodeHost = wire /\ info.Ipv6Vip = cluster.Balance.Ipv6Vips
    BY DEF ClusterReq
  <2>3. got = ClusterGot([SocsInfo |-> info])
    OBVIOUS
  <2> HIDE DEF info, wire, got
  <2>2. [SocsInfo |-> info].SocsInfo = info
    OBVIOUS
  <2>. QED
    BY <1>2, <2>1, <2>2, <2>3 DEF ClusterGot
<1>4. [cluster.Balance EXCEPT !.Name = cluster.Name] =
        [Name |-> cluster.Name, ClusterType |-> cluster.Balance.ClusterType,
         NodeHosts |-> cluster.Balance.NodeHosts, Ipv6Vips |-> cluster.Balance.Ipv6Vips]
  BY <1>1 DEF BalanceResource
<1>. QED
  BY <1>3, <1>4

\* What the reads show is of the types the resources declare: the figures of the home
\* page with sums of one word, the visits of sites, the hosts and the offered addresses.
THEOREM ShownTypes ==
    /\ \A rsp \in ShowHomePageDataRsp : Figures(rsp) \in HomePage
    /\ \A rsp \in GetRaltGroupWebsiteRsp, visits \in SUBSET [MemberDomain : Text, Count : Nat] :
           SiteVisits(rsp, visits) \subseteq WebsiteVisit
    /\ \A id \in Text, rsp \in ShowHomePageFlowDataRsp :
           rsp.UpDowmFlow # <<>> => HostOf(id, rsp) \in Host
    /\ VipLength \in Int32 => \A rsp \in GetAvailIPRsp : VipsListed(rsp) \subseteq VipResource
<1>1. ASSUME NEW rsp \in ShowHomePageDataRsp PROVE Figures(rsp) \in HomePage
  <2>1. \A a, b \in Nat : (a + b) % Word \in 0..(Word - 1)
    BY MessagesAssumption
  <2>. QED
    BY <2>1 DEF Figures, HomePage, ShowHomePageDataRsp
<1>2. ASSUME NEW rsp \in GetRaltGroupWebsiteRsp,
             NEW visits \in SUBSET [MemberDomain : Text, Count : Nat]
      PROVE  SiteVisits(rsp, visits) \subseteq WebsiteVisit
  <2>1. rsp.Website \subseteq WebsiteReqInfo
    BY DEF GetRaltGroupWebsiteRsp
  <2>. QED
    BY <2>1 DEF SiteVisits, WebsiteVisit, WebsiteReqInfo
<1>3. ASSUME NEW id \in Text, NEW rsp \in ShowHomePageFlowDataRsp, rsp.UpDowmFlow # <<>>
      PROVE  HostOf(id, rsp) \in Host
  <2>1. rsp.UpDowmFlow \in Seq(DeviceFlowData)
    BY DEF ShowHomePageFlowDataRsp
  <2>2. LastOf(rsp.UpDowmFlow) \in DeviceFlowData
    BY <1>3, <2>1 DEF LastOf
  <2>. QED
    BY <2>2 DEF HostOf, Host, DeviceFlowData
<1>4. ASSUME VipLength \in Int32, NEW rsp \in GetAvailIPRsp
      PROVE  VipsListed(rsp) \subseteq VipResource
  BY <1>4 DEF VipsListed, VipResource, GetAvailIPRsp
<1>. QED
  BY <1>1, <1>2, <1>3, <1>4

--------------------------------------------------------------------------------
(* The device stays a device *)

LEMMA SetClusterType ==
    ASSUME device \in DeviceState, NEW req \in ClusterPublicInfoReq, NEW reply, NEW done,
           SetCluster(req, reply, done)
    PROVE  device' \in DeviceState
<1>1. CASE ~done
  BY <1>1 DEF SetCluster
<1>2. CASE done
  <2>1. device.clusters \subseteq Cluster
    BY DEF DeviceState
  <2>2. device'.clusters \subseteq Cluster
    <3>1. CASE req.OperType = DeleteCode
      BY <1>2, <2>1, <3>1 DEF SetCluster, DeviceState
    <3>2. CASE req.OperType # DeleteCode
      <4>1. req.BalanceInfo \in ClusterBalanceInfo
        BY <1>2, <3>2 DEF SetCluster, ClusterCanDo, ClusterPublicInfoReq, Message
      <4>2. [id |-> req.ClusterId, info |-> req.BalanceInfo] \in Cluster
        BY <4>1 DEF ClusterPublicInfoReq, Cluster
      <4>. QED
        BY <1>2, <2>1, <3>2, <4>2 DEF SetCluster, DeviceState
    <3>. QED
      BY <3>1, <3>2
  <2>3. device' = [device EXCEPT !.clusters = device'.clusters]
    BY <1>2 DEF SetCluster, DeviceState
  <2>. QED
    BY <2>2, <2>3 DEF DeviceState
<1>. QED
  BY <1>1, <1>2

LEMMA OptRaltGroupType ==
    ASSUME device \in DeviceState, NEW req \in OptRaltGroupReq, NEW reply, NEW done,
           OptRaltGroup(req, reply, done)
    PROVE  device' \in DeviceState
<1>1. CASE ~done
  BY <1>1 DEF OptRaltGroup
<1>2. CASE done /\ req.Iopt = DeleteCode
  BY <1>2 DEF OptRaltGroup, DeviceState
<1>3. CASE done /\ req.Iopt # DeleteCode
  <2>1. req.FuncSwitcher \in FuncSwitcherInfo
    BY <1>3 DEF OptRaltGroup, GroupCanDo, OptRaltGroupReq, Message
  <2>2. GroupOf(req) \in GroupInfo
    BY <2>1 DEF GroupOf, GroupInfo, OptRaltGroupReq
  <2>. QED
    BY <1>3, <2>2 DEF OptRaltGroup, DeviceState
<1>. QED
  BY <1>1, <1>2, <1>3

LEMMA OptRaltWebsiteType ==
    ASSUME device \in DeviceState, NEW req \in OptRaltWebsiteReq, NEW reply, NEW done,
           OptRaltWebsite(req, reply, done)
    PROVE  device' \in DeviceState
  BY DEF OptRaltWebsite, OptRaltWebsiteReq, DeviceState

\* What DELETE sends of a site and of a group.
LEMMA DeleteWebsiteReqType ==
    ASSUME NEW id \in Text
    PROVE  DeleteWebsiteReq(id) \in OptRaltWebsiteReq
  BY Numbers32, Names DEF DeleteWebsiteReq, OptRaltWebsiteReq, WebsiteReqInfo, OperTypeDelete

LEMMA DeleteWebGroupReqType ==
    ASSUME NEW id \in Text
    PROVE  DeleteWebGroupReq(id) \in OptRaltGroupReq
  BY Numbers32, Names DEF DeleteWebGroupReq, OptRaltGroupReq, Message, OperTypeDelete

\* Whatever the device takes the codes for, they are three.
LEMMA CodesDiffer ==
    ASSUME device \in DeviceState
    PROVE  AddCode # DeleteCode /\ AddCode # ModifyCode /\ ModifyCode # DeleteCode
  BY CodesAssumption DEF DeviceState, ModifyCode, DeleteCode

\* A DELETE of the cluster carries the code of Create and no cluster, which the device
\* cannot do.
LEMMA DeleteClusterDoesNothing ==
    ASSUME device \in DeviceState, NEW reply, NEW done \in BOOLEAN,
           SetCluster(DeleteClusterReq, reply, done)
    PROVE  ~done /\ device' = device
<1>1. AddCode = 1 /\ AddCode # DeleteCode /\ AddCode # ModifyCode
  BY BusinessAssumption, CodesDiffer DEF OperTypeCreate
<1>2. DeleteClusterReq.OperType = 1 /\ DeleteClusterReq.BalanceInfo = Nil
  BY DEF DeleteClusterReq, OperTypeCreate
<1>. QED
  BY <1>1, <1>2 DEF SetCluster, ClusterCanDo

--------------------------------------------------------------------------------
(* Types *)

\* What a controller is doing is a record of these fields.
Form(c) ==
    /\ c \in [pc : Pcs, record : Message(Record), figures : {c.figures}, counts : {c.counts},
              todo : {c.todo}, answer : {c.answer}]
    /\ c.pc = "set" => c.todo \in SUBSET Text

CtlForm == ctl = [p \in Controllers |-> ctl[p]] /\ \A p \in Controllers : Form(ctl[p])

TypeInv == TypeOK /\ CtlForm

\* Its fields are set two at a time.
LEMMA PcAndTodo ==
    ASSUME NEW c, Form(c), NEW a, NEW b
    PROVE  [c EXCEPT !.pc = a, !.todo = b] =
             [pc |-> a, record |-> c.record, figures |-> c.figures, counts |-> c.counts, todo |-> b, answer |-> c.answer]
<1> DEFINE d == [c EXCEPT !.pc = a]
<1>1. d = [pc |-> a, record |-> c.record, figures |-> c.figures, counts |-> c.counts, todo |-> c.todo, answer |-> c.answer]
  BY DEF Form
<1>2. [d EXCEPT !.todo = b] =
        [pc |-> a, record |-> c.record, figures |-> c.figures, counts |-> c.counts, todo |-> b, answer |-> c.answer]
  <2> HIDE DEF d
  <2>. QED
    BY <1>1
<1>. QED
  BY ONLY <1>2

LEMMA PcAndVisits ==
    ASSUME NEW c, Form(c), NEW a, NEW b
    PROVE  [c EXCEPT !.pc = a, !.counts = b] =
             [pc |-> a, record |-> c.record, figures |-> c.figures, counts |-> b, todo |-> c.todo, answer |-> c.answer]
<1> DEFINE d == [c EXCEPT !.pc = a]
<1>1. d = [pc |-> a, record |-> c.record, figures |-> c.figures, counts |-> c.counts, todo |-> c.todo, answer |-> c.answer]
  BY DEF Form
<1>2. [d EXCEPT !.counts = b] =
        [pc |-> a, record |-> c.record, figures |-> c.figures, counts |-> b, todo |-> c.todo, answer |-> c.answer]
  <2> HIDE DEF d
  <2>. QED
    BY <1>1
<1>. QED
  BY ONLY <1>2

LEMMA PcAndFigures ==
    ASSUME NEW c, Form(c), NEW a, NEW b
    PROVE  [c EXCEPT !.pc = a, !.figures = b] =
             [pc |-> a, record |-> c.record, figures |-> b, counts |-> c.counts, todo |-> c.todo, answer |-> c.answer]
<1> DEFINE d == [c EXCEPT !.pc = a]
<1>1. d = [pc |-> a, record |-> c.record, figures |-> c.figures, counts |-> c.counts, todo |-> c.todo, answer |-> c.answer]
  BY DEF Form
<1>2. [d EXCEPT !.figures = b] =
        [pc |-> a, record |-> c.record, figures |-> b, counts |-> c.counts, todo |-> c.todo, answer |-> c.answer]
  <2> HIDE DEF d
  <2>. QED
    BY <1>1
<1>. QED
  BY ONLY <1>2

LEMMA PcAndRecord ==
    ASSUME NEW c, Form(c), NEW a, NEW b
    PROVE  [c EXCEPT !.pc = a, !.record = b] =
             [pc |-> a, record |-> b, figures |-> c.figures, counts |-> c.counts, todo |-> c.todo, answer |-> c.answer]
<1> DEFINE d == [c EXCEPT !.pc = a]
<1>1. d = [pc |-> a, record |-> c.record, figures |-> c.figures, counts |-> c.counts, todo |-> c.todo, answer |-> c.answer]
  BY DEF Form
<1>2. [d EXCEPT !.record = b] =
        [pc |-> a, record |-> b, figures |-> c.figures, counts |-> c.counts, todo |-> c.todo, answer |-> c.answer]
  <2> HIDE DEF d
  <2>. QED
    BY <1>1
<1>. QED
  BY ONLY <1>2

LEMMA TodoAndAnswer ==
    ASSUME NEW c, Form(c), NEW a, NEW b
    PROVE  [c EXCEPT !.todo = a, !.answer = b] =
             [pc |-> c.pc, record |-> c.record, figures |-> c.figures, counts |-> c.counts, todo |-> a, answer |-> b]
<1> DEFINE d == [c EXCEPT !.todo = a]
<1>1. d = [pc |-> c.pc, record |-> c.record, figures |-> c.figures, counts |-> c.counts, todo |-> a, answer |-> c.answer]
  BY DEF Form
<1>2. [d EXCEPT !.answer = b] =
        [pc |-> c.pc, record |-> c.record, figures |-> c.figures, counts |-> c.counts, todo |-> a, answer |-> b]
  <2> HIDE DEF d
  <2>. QED
    BY <1>1
<1>. QED
  BY ONLY <1>2

LEMMA OffAndIdle ==
    /\ Form(Off) /\ Off.pc = "off"
    /\ Form(Idle) /\ Idle.pc = "idle"
<1>1. Form(Off) /\ Off.pc = "off"
  BY DEF Form, Off, Pcs, Message
<1>2. Idle = [pc |-> "idle", record |-> Off.record, figures |-> Off.figures, counts |-> Off.counts,
              todo |-> Off.todo, answer |-> Off.answer]
  BY <1>1 DEF Idle, Form
<1>. QED
  BY <1>1, <1>2 DEF Form, Pcs

\* A controller goes on with c; a record it is to write is that of a new request.
LEMMA GoesOn ==
    ASSUME TypeInv, NEW p \in Controllers, NEW c, Form(c), ctl' = [ctl EXCEPT ![p] = c],
           api' \subseteq Controllers,
           \A q \in Controllers \ {p} : q \in api' <=> q \in api,
           p \in api' => c.pc \notin {"off", "free", "set"},
           c.pc \notin {"off", "free", "set", "idle"} => p \in api',
           served' \in Nat, served <= served',
           c.pc = "audit" => c.record \in Record /\ c.record.n <= served' /\ served < c.record.n
    PROVE  CtlTypeOK' /\ CtlForm'
<1>1. ctl'[p] = c /\ \A q \in Controllers \ {p} : ctl'[q] = ctl[q]
  BY DEF TypeInv, CtlForm
<1>2. ctl' = [q \in Controllers |-> ctl'[q]]
  BY DEF TypeInv, CtlForm
<1>3. CtlForm'
  BY <1>1, <1>2 DEF TypeInv, CtlForm
<1>4. served \in Nat /\ \A r \in Record : r.n \in Nat
  BY DEF TypeInv, TypeOK, HistoryTypeOK, Record, Numbers
<1>5. ASSUME NEW q \in Controllers
      PROVE  /\ ctl'[q].pc \in Pcs
             /\ q \in api' => ctl'[q].pc \notin {"off", "free", "set"}
             /\ ctl'[q].pc \notin {"off", "free", "set", "idle"} => q \in api'
             /\ ctl'[q].pc = "audit" => ctl'[q].record \in Record /\ ctl'[q].record.n <= served'
  <2>1. CASE q = p
    BY <1>1, <2>1 DEF Form
  <2>2. CASE q # p
    BY <1>1, <1>4, <2>2 DEF TypeInv, TypeOK, CtlTypeOK
  <2>. QED
    BY <2>1, <2>2
<1>6. ASSUME NEW q \in Controllers, NEW r \in Controllers, ctl'[q].pc = "audit", ctl'[r].pc = "audit",
             q # r
      PROVE  ctl'[q].record.n # ctl'[r].record.n
  <2>1. CASE q # p /\ r # p
    BY <1>1, <1>6, <2>1 DEF TypeInv, TypeOK, CtlTypeOK
  <2>2. CASE q = p
    BY <1>1, <1>4, <1>6, <2>2 DEF TypeInv, TypeOK, CtlTypeOK
  <2>3. CASE r = p
    BY <1>1, <1>4, <1>6, <2>3 DEF TypeInv, TypeOK, CtlTypeOK
  <2>. QED
    BY <2>1, <2>2, <2>3
<1>. QED
  BY <1>3, <1>5, <1>6 DEF CtlTypeOK

LogTypeOK == AuditTypeOK /\ \A r \in log : r.what \in Record

LEMMA LogUnchanged == ASSUME TypeInv, UNCHANGED audit PROVE LogTypeOK'
  BY DEF TypeInv, TypeOK, LogTypeOK, AuditTypeOK, audit

\* A handler has returned.
LEMMA HandledType ==
    ASSUME TypeInv, NEW p \in Controllers, NEW method \in Methods, NEW reply, NEW done \in BOOLEAN,
           Handled(p, method, reply, done)
    PROVE  CtlTypeOK' /\ CtlForm' /\ HistoryTypeOK' /\ LogTypeOK'
<1> DEFINE record == [n |-> served + 1, method |-> method, succeed |-> reply # Nil]
<1> DEFINE c == [Idle EXCEPT !.pc = "audit", !.record = record]
<1>1. ctl[p].pc = "idle" /\ p \in api /\ served < MaxRequests /\ served' = served + 1
  BY DEF Handled, Begin
<1>2. served \in Nat /\ served + 1 \in 1..MaxRequests
  BY <1>1, BusinessAssumption DEF TypeInv, TypeOK, HistoryTypeOK
<1>3. record \in Record
  BY <1>2 DEF Record, Numbers
<1>4. c = [pc |-> "audit", record |-> record, figures |-> Idle.figures, counts |-> Idle.counts,
           todo |-> Idle.todo, answer |-> Idle.answer]
  <2> HIDE DEF record
  <2>. QED
    BY OffAndIdle, PcAndRecord
<1>5. ctl' = [ctl EXCEPT ![p] = c] /\ UNCHANGED <<audit, api, crashes, excused>>
  BY DEF Handled
<1>6. record.n = served + 1
  OBVIOUS
<1>7. Form(c) /\ c.pc = "audit" /\ c.record = record
  <2> HIDE DEF record
  <2>. QED
    BY <1>3, <1>4, OffAndIdle DEF Form, Pcs, Message
<1> HIDE DEF c, record
<1>8. CtlTypeOK' /\ CtlForm'
  <2>1. api' \subseteq Controllers /\ p \in api' /\ \A q \in Controllers : q \in api' <=> q \in api
    BY <1>1, <1>5 DEF TypeInv, TypeOK, HistoryTypeOK
  <2>2. served' \in Nat /\ served <= served'
    BY <1>1, <1>2
  <2>3. c.record \in Record /\ c.record.n <= served' /\ served < c.record.n
    BY <1>1, <1>2, <1>3, <1>6, <1>7
  <2>4. c.pc \notin {"off", "free", "set"}
    BY <1>7
  <2>. QED
    BY <1>5, <1>7, <2>1, <2>2, <2>3, <2>4, GoesOn
<1>9. HistoryTypeOK'
  <2>1. UNCHANGED <<api, crashes, excused, now>> /\ now \in Nat
    BY <1>5 DEF audit, TypeInv, TypeOK, AuditTypeOK
  <2>2. answered' \subseteq 1..served'
    BY <1>1, <1>2 DEF Handled, TypeInv, TypeOK, HistoryTypeOK
  <2>3. did' \subseteq [n : 1..served', at : 0..now']
    <3>1. did \subseteq [n : 1..served', at : 0..now']
      BY <1>1, <1>2, <2>1 DEF TypeInv, TypeOK, HistoryTypeOK
    <3>2. [n |-> served + 1, at |-> now] \in [n : 1..served', at : 0..now']
      BY <1>1, <1>2, <2>1
    <3>. QED
      BY <3>1, <3>2 DEF Handled
  <2>4. excused' \subseteq 1..served'
    BY <1>1, <1>2, <2>1 DEF TypeInv, TypeOK, HistoryTypeOK
  <2>5. served' \in 0..MaxRequests
    BY <1>1, <1>2
  <2>6. api' \subseteq Controllers /\ crashes' \in 0..MaxCrashes
    BY <2>1 DEF TypeInv, TypeOK, HistoryTypeOK
  <2>. QED
    BY <2>2, <2>3, <2>4, <2>5, <2>6 DEF HistoryTypeOK
<1>. QED
  BY <1>5, <1>8, <1>9, LogUnchanged

\* Requests that change something.
LEMMA ChangingType ==
    ASSUME TypeInv, NEW p \in Controllers, Changing(p)
    PROVE  TypeInv'
<1> SUFFICES DeviceTypeOK' /\ CtlTypeOK' /\ CtlForm' /\ HistoryTypeOK' /\ LogTypeOK'
  BY DEF TypeInv, TypeOK, LogTypeOK
<1>0. device \in DeviceState
  BY DEF TypeInv, TypeOK, DeviceTypeOK
<1>a. /\ OperTypeCreate \in Int32 /\ OperTypeModify \in Int32
      /\ {"POST", "PUT", "DELETE"} \subseteq Methods
  BY Numbers32 DEF OperTypeCreate, OperTypeModify, Methods
<1>1. CASE CreateCluster(p)
  <2>1. PICK cluster \in Clusters, reply \in Replies, done \in BOOLEAN :
           Handled(p, "POST", reply, done) /\ SetCluster(ClusterReq(cluster), reply, done)
    BY <1>1 DEF CreateCluster
  <2>2. ClusterReq(cluster) \in ClusterPublicInfoReq
    BY BusinessAssumption, ClusterReqType
  <2>. QED
    BY <1>0, <1>a, <2>1, <2>2, SetClusterType, HandledType DEF DeviceTypeOK
<1>2. CASE DeleteCluster(p)
  <2>1. PICK reply \in Replies, done \in BOOLEAN :
           Handled(p, "DELETE", reply, done) /\ SetCluster(DeleteClusterReq, reply, done)
    BY <1>2 DEF DeleteCluster
  <2>. QED
    BY <1>0, <1>a, <2>1, DeleteClusterDoesNothing, HandledType DEF DeviceTypeOK
<1>3. CASE ChangeNothing(p)
  <2>1. PICK method \in {"POST", "PUT", "DELETE"} : Handled(p, method, Success, FALSE)
    BY <1>3 DEF ChangeNothing
  <2>2. UNCHANGED device
    BY <1>3 DEF ChangeNothing
  <2>. QED
    BY <1>0, <1>a, <2>1, <2>2, HandledType DEF DeviceTypeOK
<1>4. CASE CreateWebGroup(p)
  <2>1. PICK webGroup \in WebGroups, reply \in Replies, done \in BOOLEAN :
           Handled(p, "POST", reply, done)
           /\ OptRaltGroup(WebGroupReq(OperTypeCreate, webGroup), reply, done)
    BY <1>4 DEF CreateWebGroup
  <2>2. WebGroupReq(OperTypeCreate, webGroup) \in OptRaltGroupReq
    BY <1>a, BusinessAssumption, WebGroupReqType
  <2>. QED
    BY <1>0, <1>a, <2>1, <2>2, OptRaltGroupType, HandledType DEF DeviceTypeOK
<1>5. CASE UpdateWebGroup(p)
  <2>1. PICK webGroup \in WebGroups, reply \in Replies, done \in BOOLEAN :
           Handled(p, "PUT", reply, done)
           /\ OptRaltGroup(WebGroupReq(OperTypeModify, webGroup), reply, done)
    BY <1>5 DEF UpdateWebGroup
  <2>2. WebGroupReq(OperTypeModify, webGroup) \in OptRaltGroupReq
    BY <1>a, BusinessAssumption, WebGroupReqType
  <2>. QED
    BY <1>0, <1>a, <2>1, <2>2, OptRaltGroupType, HandledType DEF DeviceTypeOK
<1>6. CASE DeleteWebGroup(p)
  <2>1. PICK webGroup \in WebGroups, reply \in Replies, done \in BOOLEAN :
           Handled(p, "DELETE", reply, done)
           /\ OptRaltGroup(DeleteWebGroupReq(webGroup.ID), reply, done)
    BY <1>6 DEF DeleteWebGroup
  <2>2. DeleteWebGroupReq(webGroup.ID) \in OptRaltGroupReq
    BY BusinessAssumption, DeleteWebGroupReqType DEF WebGroup
  <2>. QED
    BY <1>0, <1>a, <2>1, <2>2, OptRaltGroupType, HandledType DEF DeviceTypeOK
<1>7. ASSUME NEW method \in Methods, NEW opt \in Int32, OptWebsite(p, method, opt)
      PROVE  DeviceTypeOK' /\ CtlTypeOK' /\ CtlForm' /\ HistoryTypeOK' /\ LogTypeOK'
  <2>1. PICK website \in Websites, reply \in Replies, done \in BOOLEAN :
           /\ Handled(p, method, reply, done)
           /\ \/ \E address \in Addresses :
                   OptRaltWebsite(WebsiteReq(opt, website, address), reply, done)
              \/ UNCHANGED device
    BY <1>7 DEF OptWebsite
  <2>2. \A address \in Addresses : WebsiteReq(opt, website, address) \in OptRaltWebsiteReq
    BY BusinessAssumption, WebsiteReqType
  <2>3. device' \in DeviceState
    BY <1>0, <2>1, <2>2, OptRaltWebsiteType
  <2>. QED
    BY <2>1, <2>3, HandledType DEF DeviceTypeOK
<1>8. CASE CreateWebsite(p)
  BY <1>a, <1>7, <1>8 DEF CreateWebsite
<1>9. CASE UpdateWebsite(p)
  BY <1>a, <1>7, <1>9 DEF UpdateWebsite
<1>10. CASE DeleteWebsite(p)
  <2>1. PICK website \in Websites, reply \in Replies, done \in BOOLEAN :
           Handled(p, "DELETE", reply, done)
           /\ OptRaltWebsite(DeleteWebsiteReq(website.ID), reply, done)
    BY <1>10 DEF DeleteWebsite
  <2>2. DeleteWebsiteReq(website.ID) \in OptRaltWebsiteReq
    BY BusinessAssumption, DeleteWebsiteReqType DEF Website
  <2>. QED
    BY <1>0, <1>a, <2>1, <2>2, OptRaltWebsiteType, HandledType DEF DeviceTypeOK
<1>. QED
  BY <1>1, <1>2, <1>3, <1>4, <1>5, <1>6, <1>8, <1>9, <1>10 DEF Changing

\* A step of p that neither begins nor ends a record.
Quiet(p) ==
    /\ ctl[p].pc # "audit" /\ ctl'[p].pc # "audit"
    /\ \A q \in Controllers \ {p} : ctl'[q] = ctl[q]

LEMMA IsQuiet ==
    ASSUME TypeInv, NEW p \in Controllers, NEW c, ctl' = [ctl EXCEPT ![p] = c],
           ctl[p].pc # "audit", c.pc # "audit"
    PROVE  Quiet(p)
  BY DEF TypeInv, CtlForm, Quiet

\* A step of p in a read: p goes on with c and writes no record.
LEMMA ReadsOn ==
    ASSUME TypeInv, NEW p \in Controllers, NEW c, Form(c), ctl' = [ctl EXCEPT ![p] = c],
           ctl[p].pc # "audit", c.pc # "audit", c.pc \notin {"off", "free", "set"}, p \in api,
           UNCHANGED <<api, crashes, answered, did, excused, audit>>,
           \/ UNCHANGED served
           \/ served < MaxRequests /\ served' = served + 1
    PROVE  CtlTypeOK' /\ CtlForm' /\ HistoryTypeOK' /\ LogTypeOK' /\ Quiet(p)
<1>1. served \in Nat /\ served' \in 0..MaxRequests /\ served <= served'
  BY BusinessAssumption DEF TypeInv, TypeOK, HistoryTypeOK
<1>2. api' \subseteq Controllers /\ p \in api' /\ \A q \in Controllers : q \in api' <=> q \in api
  BY DEF TypeInv, TypeOK, HistoryTypeOK
<1>3. CtlTypeOK' /\ CtlForm'
  <2>1. served' \in Nat
    BY <1>1
  <2>. QED
    BY <1>1, <1>2, <2>1, GoesOn
<1>4. HistoryTypeOK'
  <2>1. answered' \subseteq 1..served' /\ excused' \subseteq 1..served'
    BY <1>1 DEF TypeInv, TypeOK, HistoryTypeOK
  <2>2. did' \subseteq [n : 1..served', at : 0..now']
    BY <1>1 DEF TypeInv, TypeOK, HistoryTypeOK, audit
  <2>3. crashes' \in 0..MaxCrashes
    BY DEF TypeInv, TypeOK, HistoryTypeOK
  <2>. QED
    BY <1>1, <1>2, <2>1, <2>2, <2>3 DEF HistoryTypeOK
<1>. QED
  BY <1>3, <1>4, LogUnchanged, IsQuiet

LEMMA ReadingType ==
    ASSUME TypeInv, NEW p \in Controllers, Reading(p)
    PROVE  TypeInv' /\ (ReadOne(p) \/ Quiet(p))
<1> SUFFICES /\ DeviceTypeOK' /\ CtlTypeOK' /\ CtlForm' /\ HistoryTypeOK' /\ LogTypeOK'
             /\ ReadOne(p) \/ Quiet(p)
  BY DEF TypeInv, TypeOK, LogTypeOK
<1>0. /\ device \in DeviceState
      /\ Form(ctl[p])
      /\ ctl[p].pc \notin {"off", "free", "set", "idle"} => p \in api
  BY DEF TypeInv, TypeOK, DeviceTypeOK, CtlForm, CtlTypeOK
<1>1. CASE ReadOne(p)
  <2>1. PICK reply \in {Nil, Success} : Handled(p, "GET", reply, FALSE)
    BY <1>1 DEF ReadOne
  <2>. QED
    BY <1>0, <1>1, <2>1, HandledType DEF DeviceTypeOK, ReadOne, Methods
<1>2. CASE ShowHomePage(p)
  <2>1. PICK rsp \in FigureReplies :
           ctl' = [ctl EXCEPT ![p] = [Idle EXCEPT !.pc = "visits", !.figures = Figures(rsp)]]
    BY <1>2 DEF ShowHomePage
  <2> DEFINE c == [Idle EXCEPT !.pc = "visits", !.figures = Figures(rsp)]
  <2>2. c = [pc |-> "visits", record |-> Idle.record, figures |-> Figures(rsp),
             counts |-> Idle.counts, todo |-> Idle.todo, answer |-> Idle.answer]
    <3>1. Form(Idle)
      BY OffAndIdle
    <3>. QED
      BY ONLY <3>1, PcAndFigures
  <2> HIDE DEF c
  <2>3. Form(c) /\ c.pc = "visits"
    BY <2>2, OffAndIdle DEF Form, Pcs
  <2>4. ctl' = [ctl EXCEPT ![p] = c]
    BY <2>1 DEF c
  <2>. QED
    BY <1>0, <1>2, <2>3, <2>4, ReadsOn DEF ShowHomePage, Begin, reading, DeviceTypeOK
<1>3. CASE ReadVisits(p)
  <2>1. PICK rsp \in VisitReplies :
           \/ ctl' = [ctl EXCEPT ![p] = Idle]
           \/ ctl' = [ctl EXCEPT ![p] = [ctl[p] EXCEPT
                  !.pc = "groups", !.counts = {VisitOf(v) : v \in rsp.DomainVisitNum}]]
    BY <1>3 DEF ReadVisits, TypeInv, CtlForm
  <2> DEFINE c == [ctl[p] EXCEPT
                      !.pc = "groups", !.counts = {VisitOf(v) : v \in rsp.DomainVisitNum}]
  <2>2. c = [pc |-> "groups", record |-> ctl[p].record, figures |-> ctl[p].figures,
             counts |-> {VisitOf(v) : v \in rsp.DomainVisitNum},
             todo |-> ctl[p].todo, answer |-> ctl[p].answer]
    BY <1>0, PcAndVisits
  <2> HIDE DEF c
  <2>3. Form(c) /\ c.pc = "groups"
    BY <1>0, <2>2 DEF Form, Pcs
  <2>4. ctl' = [ctl EXCEPT ![p] = Idle] \/ ctl' = [ctl EXCEPT ![p] = c]
    BY <2>1 DEF c
  <2>. QED
    BY <1>0, <1>3, <2>3, <2>4, ReadsOn, OffAndIdle DEF ReadVisits, reading, DeviceTypeOK
<1>4. CASE ReadGroups(p)
  <2> DEFINE ids == {g.StrgroupId : g \in GetRaltGroup([StrgroupId |-> Unset]).GroupList}
             c == [ctl[p] EXCEPT !.pc = "websites", !.todo = ids]
  <2>1. ctl' = [ctl EXCEPT ![p] = c]
    BY <1>4 DEF ReadGroups, TypeInv, CtlForm
  <2> HIDE DEF ids
  <2>3. c = [pc |-> "websites", record |-> ctl[p].record, figures |-> ctl[p].figures,
             counts |-> ctl[p].counts, todo |-> ids, answer |-> ctl[p].answer]
    BY <1>0, PcAndTodo
  <2> HIDE DEF c
  <2>4. Form(c) /\ c.pc = "websites"
    BY <1>0, <2>3 DEF Form, Pcs
  <2>. QED
    BY <1>0, <1>4, <2>1, <2>4, ReadsOn DEF ReadGroups, reading, DeviceTypeOK
<1>5. CASE ReadWebsites(p)
  <2>0. PICK id \in ctl[p].todo :
           ctl' = [ctl EXCEPT ![p] = [@ EXCEPT
                     !.todo = ctl[p].todo \ {id},
                     !.answer = WithGroupVisit(ctl[p].answer, id, GetRaltGroupWebsite([StrgroupId |-> id]),
                                             ctl[p].counts)]]
    BY <1>5 DEF ReadWebsites
  <2> DEFINE answer == WithGroupVisit(ctl[p].answer, id, GetRaltGroupWebsite([StrgroupId |-> id]),
                                      ctl[p].counts)
  <2>1. ctl' = [ctl EXCEPT ![p] = [ctl[p] EXCEPT !.todo = ctl[p].todo \ {id}, !.answer = answer]]
    BY <2>0 DEF TypeInv, CtlForm
  <2> HIDE DEF answer
  <2> DEFINE c == [ctl[p] EXCEPT !.todo = ctl[p].todo \ {id}, !.answer = answer]
  <2>2. c = [pc |-> ctl[p].pc, record |-> ctl[p].record, figures |-> ctl[p].figures,
             counts |-> ctl[p].counts, todo |-> ctl[p].todo \ {id}, answer |-> answer]
    BY <1>0, TodoAndAnswer
  <2> HIDE DEF c
  <2>3. Form(c) /\ c.pc = "websites"
    BY <1>0, <1>5, <2>2 DEF ReadWebsites, Form, Pcs
  <2>4. ctl' = [ctl EXCEPT ![p] = c]
    BY <2>1 DEF c
  <2>. QED
    BY <1>0, <1>5, <2>3, <2>4, ReadsOn DEF ReadWebsites, reading, DeviceTypeOK
<1>6. CASE ListHosts(p)
  <2> DEFINE nodes == QryOneCluster([ClusterId |-> DefaultClusterID]).SocsInfo.NodeHost
             c == [Idle EXCEPT !.pc = "hosts", !.todo = nodes]
  <2>1. ctl' = [ctl EXCEPT ![p] = c]
    BY <1>6 DEF ListHosts
  <2> HIDE DEF nodes
  <2>3. c = [pc |-> "hosts", record |-> Idle.record, figures |-> Idle.figures,
             counts |-> Idle.counts, todo |-> nodes, answer |-> Idle.answer]
    BY OffAndIdle, PcAndTodo
  <2> HIDE DEF c
  <2>4. Form(c) /\ c.pc = "hosts"
    BY <2>3, OffAndIdle DEF Form, Pcs
  <2>. QED
    BY <1>0, <1>6, <2>1, <2>4, ReadsOn DEF ListHosts, Begin, reading, DeviceTypeOK
<1>7. CASE ReadFlow(p)
  <2>a. PICK n \in ctl[p].todo : \E rsp \in FlowReplies[n.HostId] :
           ctl' = IF rsp.UpDowmFlow = <<>>
                  THEN [ctl EXCEPT ![p] = Idle]
                  ELSE [ctl EXCEPT ![p] = [@ EXCEPT
                          !.todo = ctl[p].todo \ {n}, !.answer = WithHost(ctl[p].answer, n, rsp)]]
    BY <1>7 DEF ReadFlow
  <2>0. PICK rsp \in FlowReplies[n.HostId] :
           ctl' = IF rsp.UpDowmFlow = <<>>
                  THEN [ctl EXCEPT ![p] = Idle]
                  ELSE [ctl EXCEPT ![p] = [@ EXCEPT
                          !.todo = ctl[p].todo \ {n}, !.answer = WithHost(ctl[p].answer, n, rsp)]]
    BY <2>a
  <2> DEFINE answer == WithHost(ctl[p].answer, n, rsp)
  <2>1. \/ ctl' = [ctl EXCEPT ![p] = Idle]
        \/ ctl' = [ctl EXCEPT ![p] = [ctl[p] EXCEPT !.todo = ctl[p].todo \ {n}, !.answer = answer]]
    BY <2>0 DEF TypeInv, CtlForm
  <2> HIDE DEF answer
  <2> DEFINE c == [ctl[p] EXCEPT !.todo = ctl[p].todo \ {n}, !.answer = answer]
  <2>2. c = [pc |-> ctl[p].pc, record |-> ctl[p].record, figures |-> ctl[p].figures,
             counts |-> ctl[p].counts, todo |-> ctl[p].todo \ {n}, answer |-> answer]
    BY <1>0, TodoAndAnswer
  <2> HIDE DEF c
  <2>3. Form(c) /\ c.pc = "hosts"
    BY <1>0, <1>7, <2>2 DEF ReadFlow, Form, Pcs
  <2>4. ctl' = [ctl EXCEPT ![p] = Idle] \/ ctl' = [ctl EXCEPT ![p] = c]
    BY <2>1 DEF c
  <2>. QED
    BY <1>0, <1>7, <2>3, <2>4, ReadsOn, OffAndIdle DEF ReadFlow, reading, DeviceTypeOK
<1>8. CASE ReadFails(p) \/ ReadEnds(p)
  BY <1>0, <1>8, ReadsOn, OffAndIdle DEF ReadFails, ReadEnds, Complete, reading, DeviceTypeOK
<1>. QED
  BY <1>1, <1>2, <1>3, <1>4, <1>5, <1>6, <1>7, <1>8 DEF Reading

LEMMA StartingType ==
    ASSUME TypeInv, NEW p \in Controllers, Starting(p)
    PROVE  TypeInv' /\ Quiet(p)
<1> SUFFICES DeviceTypeOK' /\ CtlTypeOK' /\ CtlForm' /\ HistoryTypeOK' /\ LogTypeOK' /\ Quiet(p)
  BY DEF TypeInv, TypeOK, LogTypeOK
<1>0. /\ device \in DeviceState
      /\ Form(ctl[p])
      /\ p \in api => ctl[p].pc \notin {"off", "free", "set"}
  BY DEF TypeInv, TypeOK, DeviceTypeOK, CtlForm, CtlTypeOK
<1>1. /\ UNCHANGED <<audit, crashes, history>>
      /\ api' = api \/ api' = api \cup {p}
  BY DEF Starting, QueryDefaultCluster, FreeHosts, SetDefaultCluster
<1>2. /\ HistoryTypeOK'
      /\ LogTypeOK'
      /\ served' \in Nat /\ served <= served'
  BY <1>1, LogUnchanged DEF history, audit, TypeInv, TypeOK, HistoryTypeOK
<1>3. \A q \in Controllers \ {p} : q \in api' <=> q \in api
  BY <1>1
<1>4. api' \subseteq Controllers
  BY <1>2 DEF HistoryTypeOK
<1>5. ASSUME ctl' = [ctl EXCEPT ![p] = Idle]
      PROVE  CtlTypeOK' /\ CtlForm' /\ Quiet(p)
  <2>1. ctl[p].pc # "audit"
    BY DEF Starting, QueryDefaultCluster, FreeHosts, SetDefaultCluster
  <2>2. CtlTypeOK' /\ CtlForm'
    BY <1>2, <1>3, <1>4, <1>5, GoesOn, OffAndIdle
  <2>. QED
    BY <1>5, <2>1, <2>2, IsQuiet, OffAndIdle
<1>6. CASE QueryDefaultCluster(p)
  <2> DEFINE c == [Off EXCEPT !.pc = "free"]
  <2>1. c = [pc |-> "free", record |-> Off.record, figures |-> Off.figures, counts |-> Off.counts,
             todo |-> Off.todo, answer |-> Off.answer]
    BY OffAndIdle DEF Form
  <2> HIDE DEF c
  <2>2. Form(c) /\ c.pc = "free"
    BY <2>1, OffAndIdle DEF Form, Pcs
  <2>3. \/ ctl' = [ctl EXCEPT ![p] = Idle]
        \/ ctl' = [ctl EXCEPT ![p] = c] /\ UNCHANGED api
    BY <1>6 DEF QueryDefaultCluster, c
  <2>4. p \notin api
    BY <1>0, <1>6 DEF QueryDefaultCluster
  <2>5. ASSUME ctl' = [ctl EXCEPT ![p] = c], UNCHANGED api
        PROVE  CtlTypeOK' /\ CtlForm' /\ Quiet(p)
    <3>1. Quiet(p)
      BY <1>6, <2>2, <2>5, IsQuiet DEF QueryDefaultCluster
    <3>. QED
      BY <1>2, <1>3, <1>4, <2>2, <2>4, <2>5, <3>1, GoesOn
  <2>6. CtlTypeOK' /\ CtlForm' /\ Quiet(p)
    BY <1>5, <2>3, <2>5
  <2>. QED
    BY <1>0, <1>2, <1>6, <2>6 DEF QueryDefaultCluster, DeviceTypeOK
<1>7. CASE FreeHosts(p)
  <2> DEFINE hosts == QryFreeDevice(<<>>).HostId
             c == [ctl[p] EXCEPT !.pc = "set", !.todo = hosts]
  <2>1. \/ ctl' = [ctl EXCEPT ![p] = Idle]
        \/ ctl' = [ctl EXCEPT ![p] = c] /\ UNCHANGED api
    BY <1>7 DEF FreeHosts, TypeInv, CtlForm
  <2>2. hosts \subseteq Text
    BY DeviceAssumption DEF QryFreeDevice
  <2> HIDE DEF hosts
  <2>3. c = [pc |-> "set", record |-> ctl[p].record, figures |-> ctl[p].figures,
             counts |-> ctl[p].counts, todo |-> hosts, answer |-> ctl[p].answer]
    BY <1>0, PcAndTodo
  <2> HIDE DEF c
  <2>4. Form(c) /\ c.pc = "set"
    BY <1>0, <2>2, <2>3 DEF Form, Pcs
  <2>5. p \notin api
    BY <1>0, <1>7 DEF FreeHosts
  <2>6. ASSUME ctl' = [ctl EXCEPT ![p] = c], UNCHANGED api
        PROVE  CtlTypeOK' /\ CtlForm' /\ Quiet(p)
    <3>1. Quiet(p)
      BY <1>7, <2>4, <2>6, IsQuiet DEF FreeHosts
    <3>. QED
      BY <1>2, <1>3, <1>4, <2>4, <2>5, <2>6, <3>1, GoesOn
  <2>7. CtlTypeOK' /\ CtlForm' /\ Quiet(p)
    BY <1>5, <2>1, <2>6
  <2>. QED
    BY <1>0, <1>2, <1>7, <2>7 DEF FreeHosts, DeviceTypeOK
<1>8. CASE SetDefaultCluster(p)
  <2>1. PICK reply \in Replies, done \in BOOLEAN :
           SetCluster(DefaultClusterReq(ctl[p].todo), reply, done)
    BY <1>8 DEF SetDefaultCluster
  <2>2. ctl[p].todo \in SUBSET Text
    BY <1>0, <1>8 DEF SetDefaultCluster, Form
  <2>3. device' \in DeviceState
    BY <1>0, <2>1, <2>2, DefaultClusterReqType, SetClusterType
  <2>. QED
    BY <1>2, <1>5, <1>8, <2>3 DEF SetDefaultCluster, DeviceTypeOK
<1>. QED
  BY <1>6, <1>7, <1>8 DEF Starting

LEMMA AuditLoggerType ==
    ASSUME TypeInv, NEW p \in Controllers, AuditLoggerHandler(p)
    PROVE  TypeInv'
<1> SUFFICES DeviceTypeOK' /\ CtlTypeOK' /\ CtlForm' /\ HistoryTypeOK' /\ LogTypeOK'
  BY DEF TypeInv, TypeOK, LogTypeOK
<1>1. /\ UNCHANGED <<device, api, crashes, served, answered, did>>
      /\ ctl' = [ctl EXCEPT ![p] = Idle] /\ ctl[p].pc = "audit"
  BY DEF AuditLoggerHandler
<1>2. /\ ctl[p].record \in Record /\ ctl[p].record.n \in 1..served
      /\ p \in api /\ served \in Nat /\ now \in 0..MaxNow
  BY <1>1 DEF TypeInv, TypeOK, CtlTypeOK, HistoryTypeOK, AuditTypeOK, Record, Numbers
<1>3. CtlTypeOK' /\ CtlForm'
  <2>1. api' \subseteq Controllers /\ p \in api' /\ \A q \in Controllers : q \in api' <=> q \in api
    BY <1>1, <1>2 DEF TypeInv, TypeOK, HistoryTypeOK
  <2>2. served' \in Nat /\ served <= served'
    BY <1>1, <1>2
  <2>. QED
    BY <1>1, <2>1, <2>2, GoesOn, OffAndIdle
<1>4. now' = now /\ (log' = log \/ log' = log \cup {Stamped(ctl[p].record)})
  BY DEF AuditLoggerHandler, InsertAuditLog, audit
<1>5. LogTypeOK'
  <2>1. Stamped(ctl[p].record).create_time = now
        /\ Stamped(ctl[p].record).expire = now + Period
        /\ Stamped(ctl[p].record).what = ctl[p].record
    BY DEF Stamped
  <2>2. now \in 0..now
    BY <1>2, TimeAssumption
  <2>. QED
    BY <1>2, <1>4, <2>1, <2>2 DEF TypeInv, TypeOK, LogTypeOK, AuditTypeOK
<1>6. excused' \subseteq 1..served'
  BY <1>1, <1>2 DEF AuditLoggerHandler, TypeInv, TypeOK, HistoryTypeOK
<1>7. HistoryTypeOK'
  BY <1>1, <1>4, <1>6 DEF TypeInv, TypeOK, HistoryTypeOK
<1>. QED
  BY <1>1, <1>3, <1>5, <1>7 DEF TypeInv, TypeOK, DeviceTypeOK

LEMMA CrashType ==
    ASSUME TypeInv, NEW p \in Controllers, Crash(p)
    PROVE  TypeInv'
<1> SUFFICES DeviceTypeOK' /\ CtlTypeOK' /\ CtlForm' /\ HistoryTypeOK' /\ LogTypeOK'
  BY DEF TypeInv, TypeOK, LogTypeOK
<1>1. /\ UNCHANGED <<device, audit, served, answered, did>>
      /\ ctl' = [ctl EXCEPT ![p] = Off]
      /\ api' = api \ {p}
      /\ crashes < MaxCrashes /\ crashes' = crashes + 1
  BY DEF Crash
<1>2. served' \in Nat /\ served <= served' /\ api' \subseteq Controllers /\ crashes' \in 0..MaxCrashes
  BY <1>1, BusinessAssumption DEF TypeInv, TypeOK, HistoryTypeOK
<1>3. CtlTypeOK' /\ CtlForm'
  BY <1>1, <1>2, GoesOn, OffAndIdle
<1>4. excused' \subseteq 1..served'
  <2>1. ctl[p].pc = "audit" => ctl[p].record.n \in 1..served
    BY DEF TypeInv, TypeOK, CtlTypeOK, HistoryTypeOK, Record, Numbers
  <2>. QED
    BY <1>1, <2>1 DEF Crash, TypeInv, TypeOK, HistoryTypeOK
<1>5. HistoryTypeOK'
  BY <1>1, <1>2, <1>4 DEF audit, TypeInv, TypeOK, HistoryTypeOK
<1>. QED
  BY <1>1, <1>3, <1>5, LogUnchanged DEF TypeInv, TypeOK, DeviceTypeOK

LEMMA PassingType ==
    ASSUME TypeInv, Passing
    PROVE  TypeInv'
<1>1. UNCHANGED <<device, ctl, api, crashes, served, answered, did, excused>>
  BY DEF Passing, history
<1>2. /\ now \in 0..MaxNow /\ now' \in 0..MaxNow /\ now <= now'
      /\ log' \subseteq log
  BY TimeAssumption DEF Passing, Clean, Tick, TypeInv, TypeOK, AuditTypeOK
<1>3. 0..now \subseteq 0..now'
  BY <1>2
<1>4. AuditTypeOK' /\ (\A r \in log : r.what \in Record)'
  BY <1>2, <1>3 DEF TypeInv, TypeOK, AuditTypeOK
<1>5. did' \subseteq [n : 1..served', at : 0..now']
  BY <1>1, <1>3 DEF TypeInv, TypeOK, HistoryTypeOK
<1>6. HistoryTypeOK'
  BY <1>1, <1>5 DEF TypeInv, TypeOK, HistoryTypeOK
<1>7. CtlTypeOK' /\ CtlForm' /\ DeviceTypeOK'
  BY <1>1 DEF TypeInv, TypeOK, CtlTypeOK, CtlForm, DeviceTypeOK
<1>. QED
  BY <1>4, <1>6, <1>7 DEF TypeInv, TypeOK

LEMMA InitType == Init => TypeInv
<1> SUFFICES ASSUME Init PROVE TypeInv
  OBVIOUS
<1>1. DeviceTypeOK
  BY BusinessAssumption DEF Init, DeviceTypeOK
<1>2. AuditTypeOK /\ \A r \in log : r.what \in Record
  BY TimeAssumption DEF Init, AuditTypeOK
<1>3. CtlForm /\ \A p \in Controllers : ctl[p] = Off
  BY OffAndIdle DEF Init, CtlForm
<1>4. CtlTypeOK
  BY <1>3, OffAndIdle DEF Init, CtlTypeOK, Pcs
<1>5. HistoryTypeOK
  BY BusinessAssumption DEF Init, HistoryTypeOK
<1>. QED
  BY <1>1, <1>2, <1>3, <1>4, <1>5 DEF TypeInv, TypeOK

LEMMA NextType == TypeInv /\ [Next]_vars => TypeInv'
<1> SUFFICES ASSUME TypeInv, [Next]_vars PROVE TypeInv'
  OBVIOUS
<1>1. CASE UNCHANGED vars
  BY <1>1 DEF vars, history, audit, TypeInv, TypeOK, DeviceTypeOK, AuditTypeOK, CtlTypeOK, CtlForm,
     HistoryTypeOK
<1>2. CASE Next
  BY <1>2, PassingType, StartingType, ChangingType, ReadingType, AuditLoggerType, CrashType
     DEF Next, Step
<1>. QED
  BY <1>1, <1>2

LEMMA TypeInvariant == Spec => []TypeInv
  BY InitType, NextType, PTL DEF Spec

\* Types of the device, the log, the requests and the controllers' progress, for any
\* bounds: whatever bodies clients send, the device gets messages of its interface, and
\* the handlers' numbers of requests are never shared.
THEOREM TypeCorrect == Spec => []TypeOK
  BY TypeInvariant, PTL DEF TypeInv

--------------------------------------------------------------------------------
(* The default cluster *)

D == DefaultClusterID

LEMMA SetClusterKeepsIt ==
    ASSUME device \in DeviceState, NEW req, NEW reply, NEW done, SetCluster(req, reply, done),
           HasCluster(D), ~(done /\ req.OperType = DeleteCode)
    PROVE  HasCluster(D)'
<1>1. CASE ~done
  BY <1>1 DEF SetCluster, HasCluster
<1>2. CASE done
  <2> DEFINE new == [id |-> req.ClusterId, info |-> req.BalanceInfo]
  <2>1. device'.clusters = {c \in device.clusters : c.id # req.ClusterId} \cup {new}
    BY <1>2 DEF SetCluster, DeviceState
  <2>2. CASE req.ClusterId = D
    <3>1. new.id = D
      BY <2>2
    <3> HIDE DEF new
    <3>. QED
      BY <2>1, <3>1 DEF HasCluster
  <2>3. CASE req.ClusterId # D
    <3>1. PICK c \in device.clusters : c.id = D
      BY DEF HasCluster
    <3>. QED
      BY <2>1, <2>3, <3>1 DEF HasCluster
  <2>. QED
    BY <2>2, <2>3
<1>. QED
  BY <1>1, <1>2

LEMMA DefaultClusterIsMade ==
    ASSUME device \in DeviceState, NEW hosts, NEW reply,
           SetCluster(DefaultClusterReq(hosts), reply, TRUE)
    PROVE  HasCluster(D)'
<1>1. DefaultClusterReq(hosts).ClusterId = D /\ DefaultClusterReq(hosts).OperType # DeleteCode
  BY BusinessAssumption, CodesDiffer DEF DefaultClusterReq, D
<1> DEFINE req == DefaultClusterReq(hosts)
           new == [id |-> req.ClusterId, info |-> req.BalanceInfo]
<1> HIDE DEF req
<1>2. device'.clusters = {c \in device.clusters : c.id # req.ClusterId} \cup {new}
  BY <1>1 DEF SetCluster, DeviceState, req
<1>3. new.id = D
  BY <1>1 DEF req
<1> HIDE DEF new
<1>. QED
  BY <1>2, <1>3 DEF HasCluster

LEMMA ApiHasClusterNext == TypeInv /\ ApiHasCluster /\ [Next]_vars => ApiHasCluster'
<1> SUFFICES ASSUME TypeInv, ApiHasCluster, [Next]_vars PROVE ApiHasCluster'
  OBVIOUS
<1>0. device \in DeviceState
  BY DEF TypeInv, TypeOK, DeviceTypeOK
<1>1. ASSUME UNCHANGED <<device, waived>>, api' \subseteq api
      PROVE  ApiHasCluster'
  BY <1>1 DEF ApiHasCluster, HasCluster
<1>2. ASSUME UNCHANGED <<api, waived>>, device'.clusters = device.clusters
      PROVE  ApiHasCluster'
  BY <1>2 DEF ApiHasCluster, HasCluster
<1>3. CASE UNCHANGED vars
  BY <1>1, <1>3 DEF vars
<1>4. CASE Passing
  BY <1>1, <1>4 DEF Passing
<1>5. ASSUME NEW p \in Controllers, Starting(p)
      PROVE  ApiHasCluster'
  <2>1. CASE QueryDefaultCluster(p)
    <3>1. UNCHANGED <<device, waived>>
      BY <2>1 DEF QueryDefaultCluster
    <3>2. CASE api' \subseteq api
      BY <1>1, <3>1, <3>2
    <3>3. CASE ~(api' \subseteq api)
      <4>1. SocsInfo(D).ClusterName # Unset
        BY <2>1, <3>3 DEF QueryDefaultCluster, QryOneCluster, D
      <4>2. HasCluster(D)
        BY <4>1 DEF SocsInfo, NoCluster
      <4>. QED
        BY <3>1, <4>2 DEF ApiHasCluster, HasCluster, D
    <3>. QED
      BY <3>2, <3>3
  <2>2. CASE FreeHosts(p)
    BY <1>1, <2>2 DEF FreeHosts
  <2>3. CASE SetDefaultCluster(p)
    <3>1. PICK reply \in Replies, done \in BOOLEAN :
            /\ SetCluster(DefaultClusterReq(ctl[p].todo), reply, done)
            /\ api' = IF reply # Nil THEN api \cup {p} ELSE api
            /\ waived' = (waived \/ RefusesCluster(reply, done))
      BY <2>3 DEF SetDefaultCluster
    <3>2. CASE done
      <4>1. SetCluster(DefaultClusterReq(ctl[p].todo), reply, TRUE)
        BY <3>1, <3>2
      <4>. QED
        BY <1>0, <4>1, DefaultClusterIsMade DEF ApiHasCluster, D
    <3>3. CASE ~done
      <4>1. UNCHANGED device
        BY <3>1, <3>3 DEF SetCluster
      <4>2. CASE reply = Nil
        BY <3>1, <4>1, <4>2 DEF ApiHasCluster, HasCluster
      <4>3. CASE reply # Nil
        BY <3>1, <3>3, <4>1, <4>3 DEF ApiHasCluster, HasCluster, RefusesCluster
      <4>. QED
        BY <4>2, <4>3
    <3>. QED
      BY <3>2, <3>3
  <2>. QED
    BY <1>5, <2>1, <2>2, <2>3 DEF Starting
<1>6. ASSUME NEW p \in Controllers, Changing(p)
      PROVE  ApiHasCluster'
  <2>0. UNCHANGED api
    BY <1>6 DEF Changing, CreateCluster, DeleteCluster, ChangeNothing, CreateWebGroup,
       UpdateWebGroup, DeleteWebGroup, CreateWebsite, UpdateWebsite, OptWebsite, DeleteWebsite, Handled
  <2>1. CASE CreateCluster(p)
    <3>1. PICK cluster \in Clusters, reply \in Replies, done \in BOOLEAN :
            /\ SetCluster(ClusterReq(cluster), reply, done)
            /\ waived' = (waived \/ (done /\ cluster.OperType = DeleteCode))
      BY <2>1 DEF CreateCluster
    <3>2. ClusterReq(cluster).OperType = cluster.OperType
      BY DEF ClusterReq
    <3>3. CASE HasCluster(D) /\ ~(done /\ ClusterReq(cluster).OperType = DeleteCode)
      BY <1>0, <3>1, <3>3, SetClusterKeepsIt DEF ApiHasCluster, D
    <3>4. CASE done /\ ClusterReq(cluster).OperType = DeleteCode
      BY <3>1, <3>2, <3>4 DEF ApiHasCluster
    <3>5. CASE ~HasCluster(D)
      BY <2>0, <3>1, <3>5 DEF ApiHasCluster, D
    <3>. QED
      BY <3>3, <3>4, <3>5
  <2>2. CASE DeleteCluster(p)
    <3>1. UNCHANGED device
      BY <1>0, <2>2, DeleteClusterDoesNothing DEF DeleteCluster
    <3>. QED
      BY <1>1, <2>0, <2>2, <3>1 DEF DeleteCluster
  <2>3. CASE ChangeNothing(p)
    BY <1>1, <2>0, <2>3 DEF ChangeNothing
  <2>4. CASE CreateWebGroup(p) \/ UpdateWebGroup(p) \/ DeleteWebGroup(p)
    <3>1. UNCHANGED waived /\ \E req, reply, done : OptRaltGroup(req, reply, done)
      BY <2>4 DEF CreateWebGroup, UpdateWebGroup, DeleteWebGroup
    <3>2. device'.clusters = device.clusters
      BY <1>0, <3>1 DEF OptRaltGroup, DeviceState
    <3>. QED
      BY <1>2, <2>0, <3>1, <3>2
  <2>5. CASE CreateWebsite(p) \/ UpdateWebsite(p) \/ DeleteWebsite(p)
    <3>1. /\ UNCHANGED waived
          /\ UNCHANGED device \/ \E req, reply, done : OptRaltWebsite(req, reply, done)
      BY <2>5 DEF CreateWebsite, UpdateWebsite, OptWebsite, DeleteWebsite
    <3>2. device'.clusters = device.clusters
      BY <1>0, <3>1 DEF OptRaltWebsite, DeviceState
    <3>. QED
      BY <1>2, <2>0, <3>1, <3>2
  <2>. QED
    BY <1>6, <2>1, <2>2, <2>3, <2>4, <2>5 DEF Changing
<1>7. ASSUME NEW p \in Controllers, Reading(p) \/ AuditLoggerHandler(p) \/ Crash(p)
      PROVE  ApiHasCluster'
  <2>1. UNCHANGED <<device, waived>> /\ api' \subseteq api
    BY <1>7 DEF Reading, ReadOne, ShowHomePage, ReadVisits, ReadGroups, ReadWebsites, ListHosts,
       ReadFlow, ReadFails, ReadEnds, AuditLoggerHandler, Crash, reading, Handled
  <2>. QED
    BY <1>1, <2>1
<1>. QED
  BY <1>3, <1>4, <1>5, <1>6, <1>7 DEF Next, Step

\* However many controllers start together, query the default cluster and create it, and
\* whichever of their calls fail: whoever serves the business API has a cluster, unless
\* the device refused to make it or a client asked for its removal.
THEOREM ApiAlwaysHasCluster == Spec => []ApiHasCluster
<1>1. Init => ApiHasCluster
  BY DEF Init, ApiHasCluster
<1>. QED
  BY <1>1, ApiHasClusterNext, TypeInvariant, PTL DEF Spec

--------------------------------------------------------------------------------
(* The audit log *)

\* A change is in the log at a time not before it, or on its way, or excused.
Covered(d) ==
    \/ \E r \in log : r.what.n = d.n /\ d.at <= r.create_time
    \/ \E p \in Controllers : ctl[p].pc = "audit" /\ ctl[p].record.n = d.n
    \/ d.n \in excused
    \/ d.at + Period <= now

\* Successes are of requests with a reply, in the log and on the way to it; a request
\* that is not audited changed nothing.
AuditInv ==
    /\ \A r \in log : r.what.succeed => r.what.n \in answered
    /\ \A p \in Controllers :
         ctl[p].pc = "audit" /\ ctl[p].record.succeed => ctl[p].record.n \in answered
    /\ \A p \in Controllers :
         ctl[p].pc = "audit" /\ ctl[p].record.method \notin Audited =>
           \A d \in did : d.n # ctl[p].record.n
    /\ \A d \in did : Covered(d)

LEMMA HandledCtl ==
    ASSUME TypeInv, NEW p \in Controllers, NEW method, NEW reply, NEW done,
           Handled(p, method, reply, done)
    PROVE  /\ ctl[p].pc = "idle" /\ ctl'[p].pc = "audit"
           /\ ctl'[p].record = [n |-> served + 1, method |-> method, succeed |-> reply # Nil]
           /\ \A q \in Controllers \ {p} : ctl'[q] = ctl[q]
<1> DEFINE record == [n |-> served + 1, method |-> method, succeed |-> reply # Nil]
           c == [Idle EXCEPT !.pc = "audit", !.record = record]
<1>1. c = [pc |-> "audit", record |-> record, figures |-> Idle.figures, counts |-> Idle.counts,
           todo |-> Idle.todo, answer |-> Idle.answer]
  <2> HIDE DEF record
  <2>. QED
    BY OffAndIdle, PcAndRecord
<1>2. ctl[p].pc = "idle" /\ ctl' = [ctl EXCEPT ![p] = c]
  BY DEF Handled, Begin
<1> HIDE DEF record
<1>3. c.pc = "audit" /\ c.record = record
  BY <1>1
<1> HIDE DEF c
<1>4. ctl'[p] = c /\ \A q \in Controllers \ {p} : ctl'[q] = ctl[q]
  BY <1>2 DEF TypeInv, CtlForm
<1>. QED
  BY <1>2, <1>3, <1>4 DEF record

LEMMA HandledAudit ==
    ASSUME TypeInv, AuditInv, NEW p \in Controllers, NEW method, NEW reply, NEW done \in BOOLEAN,
           Handled(p, method, reply, done), done => method \in Audited
    PROVE  AuditInv'
<1>1. /\ UNCHANGED <<log, now, excused>>
      /\ answered' = IF reply # Nil THEN answered \cup {served + 1} ELSE answered
      /\ did' = IF done THEN did \cup {[n |-> served + 1, at |-> now]} ELSE did
  BY DEF Handled, audit
<1>2. /\ ctl[p].pc = "idle" /\ ctl'[p].pc = "audit"
      /\ ctl'[p].record.n = served + 1 /\ ctl'[p].record.method = method
      /\ ctl'[p].record.succeed = (reply # Nil)
      /\ \A q \in Controllers \ {p} : ctl'[q] = ctl[q]
  <2>1. /\ ctl[p].pc = "idle" /\ ctl'[p].pc = "audit"
        /\ ctl'[p].record = [n |-> served + 1, method |-> method, succeed |-> reply # Nil]
        /\ \A q \in Controllers \ {p} : ctl'[q] = ctl[q]
    BY HandledCtl
  <2>2. /\ ctl'[p].record.n = served + 1 /\ ctl'[p].record.method = method
    BY <2>1
  <2>3. ctl'[p].record.succeed = (reply # Nil)
    BY ONLY <2>1
  <2>. QED
    BY <2>1, <2>2, <2>3
<1>3. /\ served \in Nat
      /\ \A d \in did : d.n \in 1..served
      /\ \A q \in Controllers : ctl[q].pc = "audit" => ctl[q].record.n \in 1..served
  BY DEF TypeInv, TypeOK, CtlTypeOK, HistoryTypeOK, Record, Numbers
<1>4. \A r \in log' : r.what.succeed => r.what.n \in answered'
  BY <1>1 DEF AuditInv
<1>5. ASSUME NEW q \in Controllers, ctl'[q].pc = "audit"
      PROVE  /\ ctl'[q].record.succeed => ctl'[q].record.n \in answered'
             /\ ctl'[q].record.method \notin Audited => \A d \in did' : d.n # ctl'[q].record.n
  <2>1. CASE q = p
    <3>1. ctl'[q].record.succeed => ctl'[q].record.n \in answered'
      BY <1>1, <1>2, <2>1
    <3>2. method \notin Audited => did' = did
      BY <1>1
    <3>. QED
      BY <1>2, <1>3, <2>1, <3>1, <3>2
  <2>2. CASE q # p
    BY <1>1, <1>2, <1>3, <1>5, <2>2 DEF AuditInv
  <2>. QED
    BY <2>1, <2>2
<1>6. ASSUME NEW d \in did' PROVE Covered(d)'
  <2>1. CASE d \in did
    BY <1>1, <1>2, <2>1 DEF AuditInv, Covered
  <2>2. CASE d \notin did
    <3>1. d.n = served + 1
      BY <1>1, <2>2
    <3>. QED
      BY <1>2, <3>1 DEF Covered
  <2>. QED
    BY <2>1, <2>2
<1>. QED
  BY <1>4, <1>5, <1>6 DEF AuditInv

LEMMA QuietAudit ==
    ASSUME TypeInv, AuditInv, NEW p \in Controllers, Quiet(p),
           UNCHANGED <<log, now, answered, did, excused>>
    PROVE  AuditInv'
<1>1. \A q \in Controllers : ctl'[q].pc = "audit" => ctl'[q] = ctl[q]
  BY DEF Quiet
<1>2. \A q \in Controllers : ctl[q].pc = "audit" => ctl'[q] = ctl[q]
  BY DEF Quiet
<1>3. \A d \in did : Covered(d)'
  BY <1>2 DEF AuditInv, Covered
<1>. QED
  BY <1>1, <1>3 DEF AuditInv

LEMMA AuditLoggerAudit ==
    ASSUME TypeInv, AuditInv, NEW p \in Controllers, AuditLoggerHandler(p)
    PROVE  AuditInv'
<1> DEFINE record == ctl[p].record
           new == Stamped(record)
<1>1. /\ UNCHANGED <<now, answered, did>> /\ ctl[p].pc = "audit" /\ ctl' = [ctl EXCEPT ![p] = Idle]
      /\ \/ record.method \in Audited /\ log' = log \cup {new} /\ excused' = excused
         \/ record.method \in Audited /\ log' = log /\ excused' = excused \cup {record.n}
         \/ record.method \notin Audited /\ log' = log /\ excused' = excused
  BY DEF AuditLoggerHandler, InsertAuditLog, audit
<1>2. ctl'[p].pc = "idle" /\ \A q \in Controllers \ {p} : ctl'[q] = ctl[q]
  BY <1>1, OffAndIdle DEF TypeInv, CtlForm
<1>3. new.what = record /\ new.create_time = now
  BY DEF Stamped
<1> HIDE DEF new
<1>4. \A d \in did : d.at \in Nat /\ d.at <= now
  BY TimeAssumption DEF TypeInv, TypeOK, HistoryTypeOK, AuditTypeOK
<1>5. \A r \in log' : r.what.succeed => r.what.n \in answered'
  BY <1>1, <1>3 DEF AuditInv
<1>6. ASSUME NEW d \in did' PROVE Covered(d)'
  <2>1. d \in did /\ Covered(d)
    BY <1>1 DEF AuditInv
  <2>2. CASE d.n = record.n
    <3>1. record.method \in Audited
      BY <1>1, <2>1, <2>2 DEF AuditInv
    <3>. QED
      BY <1>1, <1>3, <1>4, <2>1, <2>2, <3>1 DEF Covered
  <2>3. CASE d.n # record.n
    BY <1>1, <1>2, <2>1, <2>3 DEF Covered
  <2>. QED
    BY <2>2, <2>3
<1>. QED
  BY <1>1, <1>2, <1>5, <1>6 DEF AuditInv

LEMMA CrashAudit ==
    ASSUME TypeInv, AuditInv, NEW p \in Controllers, Crash(p)
    PROVE  AuditInv'
<1>1. /\ UNCHANGED <<log, now, answered, did>> /\ ctl' = [ctl EXCEPT ![p] = Off]
      /\ excused' = IF ctl[p].pc = "audit" THEN excused \cup {ctl[p].record.n} ELSE excused
  BY DEF Crash, audit
<1>2. ctl'[p].pc = "off" /\ \A q \in Controllers \ {p} : ctl'[q] = ctl[q]
  BY <1>1, OffAndIdle DEF TypeInv, CtlForm
<1>3. ASSUME NEW d \in did' PROVE Covered(d)'
  BY <1>1, <1>2 DEF AuditInv, Covered
<1>. QED
  BY <1>1, <1>2, <1>3 DEF AuditInv

LEMMA PassingAudit ==
    ASSUME TypeInv, AuditInv, Passing
    PROVE  AuditInv'
<1>1. UNCHANGED <<ctl, answered, did, excused>> /\ log' \subseteq log
  BY DEF Passing, history, Clean, Tick
<1>2. /\ now \in Nat /\ now' \in Nat /\ now <= now' /\ Period \in Nat
      /\ \A d \in did : d.at \in Nat
      /\ \A r \in log : r.create_time \in Nat /\ r.expire = r.create_time + Period
  BY TimeAssumption DEF Passing, Clean, Tick, Period, TypeInv, TypeOK, AuditTypeOK, HistoryTypeOK
<1>3. \A r \in log : r \in log' \/ r.expire <= now
  BY <1>2 DEF Passing, Clean, Tick
<1>4. ASSUME NEW d \in did' PROVE Covered(d)'
  <2>1. d \in did /\ Covered(d)
    BY <1>1 DEF AuditInv
  <2>2. ASSUME NEW r \in log, r.what.n = d.n, d.at <= r.create_time PROVE Covered(d)'
    <3>1. CASE r \in log'
      BY <2>2, <3>1 DEF Covered
    <3>2. CASE r.expire <= now
      <4>1. d.at + Period <= now'
        BY <1>2, <2>1, <2>2, <3>2
      <4>. QED
        BY <4>1 DEF Covered, Period
    <3>. QED
      BY <1>3, <3>1, <3>2
  <2>3. ASSUME d.at + Period <= now PROVE Covered(d)'
    <3>1. d.at + Period <= now'
      BY <1>2, <2>1, <2>3
    <3>. QED
      BY <3>1 DEF Covered, Period
  <2>. QED
    BY <1>1, <2>1, <2>2, <2>3 DEF Covered
<1>. QED
  BY <1>1, <1>4 DEF AuditInv

LEMMA ChangingAudit ==
    ASSUME TypeInv, AuditInv, NEW p \in Controllers, Changing(p)
    PROVE  AuditInv'
<1>a. {"POST", "PUT", "DELETE"} \subseteq Audited
  BY DEF Audited
<1>1. CASE CreateCluster(p) \/ DeleteCluster(p)
  <2>1. \E method \in {"POST", "DELETE"}, reply \in Replies, done \in BOOLEAN :
            Handled(p, method, reply, done)
    BY <1>1 DEF CreateCluster, DeleteCluster
  <2>. QED
    BY <1>a, <2>1, HandledAudit
<1>2. CASE ChangeNothing(p)
  <2>1. \E method \in {"POST", "PUT", "DELETE"} : Handled(p, method, Success, FALSE)
    BY <1>2 DEF ChangeNothing
  <2>. QED
    BY <1>a, <2>1, HandledAudit
<1>3. CASE CreateWebGroup(p) \/ UpdateWebGroup(p) \/ DeleteWebGroup(p)
  <2>1. \E method \in {"POST", "PUT", "DELETE"}, reply \in Replies, done \in BOOLEAN :
            Handled(p, method, reply, done)
    BY <1>3 DEF CreateWebGroup, UpdateWebGroup, DeleteWebGroup
  <2>. QED
    BY <1>a, <2>1, HandledAudit
<1>4. CASE CreateWebsite(p) \/ UpdateWebsite(p) \/ DeleteWebsite(p)
  <2>1. \E method \in {"POST", "PUT", "DELETE"}, reply \in Replies, done \in BOOLEAN :
            Handled(p, method, reply, done)
    BY <1>4 DEF CreateWebsite, UpdateWebsite, DeleteWebsite, OptWebsite
  <2>. QED
    BY <1>a, <2>1, HandledAudit
<1>. QED
  BY <1>1, <1>2, <1>3, <1>4 DEF Changing

LEMMA StartingAudit ==
    ASSUME TypeInv, AuditInv, NEW p \in Controllers, Starting(p)
    PROVE  AuditInv'
<1>1. UNCHANGED <<log, now, answered, did, excused>>
  BY DEF Starting, QueryDefaultCluster, FreeHosts, SetDefaultCluster, history, audit
<1>. QED
  BY <1>1, StartingType, QuietAudit

LEMMA ReadingAudit ==
    ASSUME TypeInv, AuditInv, NEW p \in Controllers, Reading(p)
    PROVE  AuditInv'
<1>1. CASE ReadOne(p)
  <2>1. \E reply \in {Nil, Success} : Handled(p, "GET", reply, FALSE)
    BY <1>1 DEF ReadOne
  <2>. QED
    BY <2>1, HandledAudit
<1>2. CASE ~ReadOne(p)
  <2>1. UNCHANGED reading
    BY <1>2 DEF Reading, ShowHomePage, ReadVisits, ReadGroups, ReadWebsites, ListHosts, ReadFlow,
       ReadFails, ReadEnds
  <2>. QED
    BY <1>2, <2>1, ReadingType, QuietAudit DEF reading, audit
<1>. QED
  BY <1>1, <1>2

LEMMA AuditNext == TypeInv /\ AuditInv /\ [Next]_vars => AuditInv'
<1> SUFFICES ASSUME TypeInv, AuditInv, [Next]_vars PROVE AuditInv'
  OBVIOUS
<1>1. CASE UNCHANGED vars
  BY <1>1 DEF vars, history, audit, AuditInv, Covered
<1>2. CASE Next
  BY <1>2, PassingAudit, StartingAudit, ChangingAudit, ReadingAudit, AuditLoggerAudit, CrashAudit
     DEF Next, Step
<1>. QED
  BY <1>1, <1>2

\* Whatever a request changed on the device, its record is in the log until it expires,
\* or on its way there, or was lost with its insert or its process; and a record of
\* success is of a request that the device replied to.
THEOREM AuditLogCoversTheDevice == Spec => []AuditCoversTheDevice
<1>1. Init => AuditInv
  <2> SUFFICES ASSUME Init PROVE AuditInv
    OBVIOUS
  <2>1. log = {} /\ did = {} /\ \A p \in Controllers : ctl[p].pc = "off"
    BY OffAndIdle DEF Init
  <2>. QED
    BY <2>1 DEF AuditInv
<1>2. AuditInv => AuditCoversTheDevice
  BY DEF AuditInv, Covered, AuditCoversTheDevice
<1>. QED
  BY <1>1, <1>2, AuditNext, TypeInvariant, PTL DEF Spec

LEMMA PeriodIsNat == Period \in Nat
  BY TimeAssumption DEF Period

LEMMA LogTimes ==
    ASSUME TypeInv, NEW r \in log
    PROVE  /\ now \in Nat /\ r.create_time \in Nat /\ r.create_time <= now
           /\ r.expire = r.create_time + Period
  BY TimeAssumption DEF TypeInv, TypeOK, AuditTypeOK

\* Only the daily delete takes records from the log, and only those that were made the
\* valid period ago.
THEOREM RecordsAreKept == Spec => KeptForTheValidPeriod
<1>1. ASSUME TypeInv, [Next]_vars
      PROVE  [\A r \in log : now < r.create_time + Period => r \in log']_audit
  <2> SUFFICES ASSUME NEW r \in log, now < r.create_time + Period, ~UNCHANGED audit
               PROVE  r \in log'
    OBVIOUS
  <2>1. r.expire > now /\ now \in Nat /\ r.expire \in Nat
    BY <1>1, LogTimes, PeriodIsNat
  <2>2. ASSUME Passing PROVE r \in log'
    <3>1. CASE Clean
      BY <2>1, <3>1 DEF Clean
    <3>2. CASE Tick
      BY <3>2 DEF Tick
    <3>. QED
      BY <2>2, <3>1, <3>2 DEF Passing
  <2>3. ASSUME NEW p \in Controllers, AuditLoggerHandler(p) PROVE r \in log'
    BY <2>3 DEF AuditLoggerHandler, InsertAuditLog, audit
  <2>4. ASSUME NEW p \in Controllers, Starting(p) \/ Crash(p) PROVE UNCHANGED audit
    BY <2>4 DEF Starting, QueryDefaultCluster, FreeHosts, SetDefaultCluster, Crash
  <2>5. ASSUME NEW p \in Controllers, Changing(p) PROVE UNCHANGED audit
    BY <2>5 DEF Changing, CreateCluster, DeleteCluster, ChangeNothing, CreateWebGroup,
       UpdateWebGroup, DeleteWebGroup, CreateWebsite, UpdateWebsite, OptWebsite, DeleteWebsite, Handled
  <2>6. ASSUME NEW p \in Controllers, Reading(p) PROVE UNCHANGED audit
    BY <2>6 DEF Reading, ReadOne, Handled, reading, ShowHomePage, ReadVisits, ReadGroups,
       ReadWebsites, ListHosts, ReadFlow, ReadFails, ReadEnds
  <2>7. Next
    BY <1>1 DEF vars
  <2>. QED
    BY <2>2, <2>3, <2>4, <2>5, <2>6, <2>7 DEF Next, Step
<1>. QED
  BY <1>1, TypeInvariant, PTL DEF Spec, KeptForTheValidPeriod

\* The list without filters leaves out no record that has not expired, but for those of
\* the last minute of today, for any length of the day and of the valid period.
THEOREM ListIsComplete == Spec => []DefaultListIsComplete
<1>1. ASSUME TypeInv, NEW r \in log, r.create_time # Date(now) * Day + Day - 1, ~(now > r.expire)
      PROVE  r \in List(DefaultFrom, DefaultTo)
  <2>1. /\ now \in Nat /\ r.create_time \in Nat /\ r.create_time <= now
        /\ now <= r.create_time + Period
    BY <1>1, LogTimes, PeriodIsNat
  <2>2. /\ Date(now) \in Int
        /\ Date(now) * Day <= now /\ now < Date(now) * Day + Day
    BY <2>1, TimeAssumption DEF Date
  <2>3. (Date(now) - DefaultAuditLogValidPeriod) * Day = Date(now) * Day - Period
    BY <2>2, TimeAssumption DEF Period
  <2>4. Date(now) * Day \in Int /\ Period \in Int /\ Day \in Int
    BY <2>2, TimeAssumption, PeriodIsNat
  <2>5. /\ (Date(now) - DefaultAuditLogValidPeriod) * Day <= r.create_time
        /\ r.create_time <= Date(now) * Day + Day - 2
    BY <1>1, <2>1, <2>2, <2>3, <2>4
  <2>. QED
    BY <2>1, <2>3, <2>4, <2>5 DEF List, Window, DefaultFrom, DefaultTo
<1>2. TypeInv => DefaultListIsComplete
  BY <1>1 DEF DefaultListIsComplete
<1>. QED
  BY <1>2, TypeInvariant, PTL
================================================================================
