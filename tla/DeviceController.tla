--------------------------- MODULE DeviceController ----------------------------
(***************************************************************************)
(* The device controller, which keeps the cluster, the groups of web sites *)
(* and the sites.  It is another program: what is here is what the         *)
(* handlers of src/pkg/business rely on, and no more.  It may refuse any   *)
(* request (a ret_code other than 0), and does refuse to add what it has,  *)
(* to change or delete what it has not, and to add or change something     *)
(* without its description.  A call may fail before or after the device    *)
(* has done it: the caller gets an error and no reply.  It has a node of a *)
(* host in a cluster once.                                                 *)
(*                                                                         *)
(* What it takes the codes of a change and of a removal for is a part of   *)
(* its state that nothing changes: the handlers and the protocol files     *)
(* disagree about them.                                                    *)
(***************************************************************************)
EXTENDS DeviceApi, FiniteSets

CONSTANTS AddCode,        \* the code of an addition
          Codes,          \* what it may take for those of a change and of a removal
          Hosts,          \* the load balancers
          Refusals,       \* the ret_codes of a refusal
          FigureReplies,  \* what it may say of the domains, addresses and nodes
          VisitReplies,   \* what it may say of the visits of domains
          FlowReplies     \* what it may say of each host's traffic

ASSUME CodesAssumption ==
    /\ AddCode \in Int32
    /\ Codes \subseteq [modify : Int32, delete : Int32]
    /\ \A c \in Codes : c.modify # AddCode /\ c.delete # AddCode /\ c.modify # c.delete
ASSUME DeviceAssumption ==
    /\ Hosts \subseteq Text
    /\ Refusals \subseteq Int32 /\ 0 \notin Refusals
    /\ FigureReplies \subseteq ShowHomePageDataRsp
    /\ VisitReplies \subseteq ShowDomainVisitorDataRsp
    /\ DOMAIN FlowReplies = Hosts
    /\ \A h \in Hosts : FlowReplies[h] \subseteq ShowHomePageFlowDataRsp

VARIABLE device  \* its clusters by id, its groups, its sites and its codes

ModifyCode == device.codes.modify
DeleteCode == device.codes.delete

\* What a call returns: a result, or an error (Nil).
Success == [RetCode |-> 0, RetMsg |-> Unset]
Results == {[RetCode |-> code, RetMsg |-> Unset] : code \in {0} \cup Refusals}
Replies == Results \cup {Nil}

\* With a reply, the code tells whether the request was done; without, it may have been.
Answers(reply, done) == reply # Nil => (done <=> reply.RetCode = 0)

--------------------------------------------------------------------------------
(* Clusters *)

NoCluster ==
    [ClusterName |-> Unset, ClusterType |-> Unset, NodeHost |-> {}, BalanceType |-> 0, Ipv6Vip |-> <<>>]

HasCluster(id) == \E c \in device.clusters : c.id = id

\* A cluster that is not there has an empty name.
SocsInfo(id) ==
    IF HasCluster(id) THEN (CHOOSE c \in device.clusters : c.id = id).info ELSE NoCluster

QryOneCluster(req) == [SocsInfo |-> SocsInfo(req.ClusterId)]

\* The hosts in no cluster.
QryFreeDevice(req) ==
    [HostId |-> {h \in Hosts : \A c \in device.clusters : \A n \in c.info.NodeHost : n.HostId # h}]

ClusterCanDo(req) ==
    \/ req.OperType = AddCode /\ ~HasCluster(req.ClusterId) /\ req.BalanceInfo # Nil
    \/ req.OperType = ModifyCode /\ HasCluster(req.ClusterId) /\ req.BalanceInfo # Nil
    \/ req.OperType = DeleteCode /\ HasCluster(req.ClusterId)

SetCluster(req, reply, done) ==
    LET others == {c \in device.clusters : c.id # req.ClusterId} IN
    /\ Answers(reply, done)
    /\ done => ClusterCanDo(req)
    /\ device' =
         IF ~done THEN device
         ELSE [device EXCEPT !.clusters =
                 IF req.OperType = DeleteCode THEN others
                 ELSE others \cup {[id |-> req.ClusterId, info |-> req.BalanceInfo]}]

--------------------------------------------------------------------------------
(* Groups of web sites *)

HasGroup(id) == \E g \in device.groups : g.StrgroupId = id

GroupCanDo(req) ==
    \/ req.Iopt = AddCode /\ ~HasGroup(req.StrgroupId) /\ req.FuncSwitcher # Nil
    \/ req.Iopt = ModifyCode /\ HasGroup(req.StrgroupId) /\ req.FuncSwitcher # Nil
    \/ req.Iopt = DeleteCode /\ HasGroup(req.StrgroupId)

GroupOf(req) ==
    [StrgroupId |-> req.StrgroupId, StrgroupName |-> req.StrgroupName,
     StrgroupHrefDomain |-> req.StrgroupHrefDomain, ItransformMod |-> req.ItransformMod,
     StrclusterId |-> req.StrclusterId, FuncSwitcher |-> req.FuncSwitcher, Rule |-> req.Rule]

\* A group goes with its sites.
OptRaltGroup(req, reply, done) ==
    LET others == {g \in device.groups : g.StrgroupId # req.StrgroupId} IN
    /\ Answers(reply, done)
    /\ done => GroupCanDo(req)
    /\ device' =
         IF ~done THEN device
         ELSE IF req.Iopt = DeleteCode
              THEN [device EXCEPT !.groups = others,
                                  !.sites = {s \in @ : s.StrgroupId # req.StrgroupId}]
              ELSE [device EXCEPT !.groups = others \cup {GroupOf(req)}]

\* One group, or all of them.
GetRaltGroup(req) ==
    [GroupList |-> {g \in device.groups : req.StrgroupId \in {Unset, g.StrgroupId}}]

--------------------------------------------------------------------------------
(* Web sites *)

HasSite(id) == \E s \in device.sites : s.StrdomainId = id

SiteCanDo(opt, site) ==
    \/ opt = AddCode /\ ~HasSite(site.StrdomainId) /\ HasGroup(site.StrgroupId)
    \/ opt = ModifyCode /\ HasSite(site.StrdomainId) /\ HasGroup(site.StrgroupId)
    \/ opt = DeleteCode /\ HasSite(site.StrdomainId)

OptRaltWebsite(req, reply, done) ==
    LET others == {s \in device.sites :
                     \A site \in req.Website : s.StrdomainId # site.StrdomainId}
    IN
    /\ Answers(reply, done)
    /\ done => \A site \in req.Website : SiteCanDo(req.Iopt, site)
    /\ device' =
         IF ~done THEN device
         ELSE [device EXCEPT !.sites =
                 IF req.Iopt = DeleteCode THEN others ELSE others \cup req.Website]

GetRaltSpecWebsite(req) ==
    [Website |-> {s \in device.sites : s.StrdomainId = req.StrdomainId}]
GetRaltGroupWebsite(req) ==
    [Website |-> {s \in device.sites : s.StrgroupId = req.StrgroupId}]

--------------------------------------------------------------------------------
(* The state *)

Cluster == [id : Text, info : ClusterBalanceInfo]

DeviceState ==
    [clusters : SUBSET Cluster, groups : SUBSET GroupInfo, sites : SUBSET WebsiteReqInfo,
     codes : Codes]

DeviceTypeOK == device \in DeviceState

\* It has one cluster, group or site under an id, and no site without its group.
Keyed(d) ==
    /\ \A c, e \in d.clusters : c.id = e.id => c = e
    /\ \A g, h \in d.groups : g.StrgroupId = h.StrgroupId => g = h
    /\ \A s, t \in d.sites : s.StrdomainId = t.StrdomainId => s = t
    /\ \A s \in d.sites : \E g \in d.groups : g.StrgroupId = s.StrgroupId
================================================================================
