------------------------------- MODULE Business --------------------------------
(***************************************************************************)
(* The business handlers (src/pkg/business): clusters, groups of web       *)
(* sites, sites, hosts and the home page.                                  *)
(*                                                                         *)
(* The device controller keeps all of them (DeviceController); a handler   *)
(* makes one or more calls to it, and AuditLoggerHandler writes a record   *)
(* (AuditLog) when the handler of a changing request has returned.  Every  *)
(* call is one step.  At its start a controller creates the default        *)
(* cluster if there is none; main ignores the error of RegisterHandler,    *)
(* so a controller whose start failed runs without the business API.       *)
(*                                                                         *)
(* Each controller serves one request at a time here; requests that are    *)
(* served at the same time are those of several controllers.  A request    *)
(* has a number.  What a single read answers is a function of the device   *)
(* (GetWebGroup, ListWebsites, ...).                                       *)
(***************************************************************************)
EXTENDS DeviceController, BusinessMessages, AuditLog, FiniteSetsExt

CONSTANTS Controllers,   \* processes of the controller
          Clusters,      \* the bodies clients send
          WebGroups,
          Websites,
          Addresses,     \* what a domain resolves to
          DeviceStates,  \* what the device may have at the beginning
          MaxRequests,   \* bound on the requests
          MaxCrashes     \* bound on the crashes

\* The groups and sites of a device are those that the handlers made: these fields have
\* the handlers' values, whatever the client sent.
MadeByHandlers(d) ==
    /\ \A g \in d.groups :
         g.ItransformMod = TransformModType64 /\ g.StrclusterId = DefaultClusterID
    /\ \A s \in d.sites : s.I64Mod = TransformModType64

ASSUME BusinessAssumption ==
    /\ AddCode = OperTypeCreate
    /\ DeviceStates \subseteq DeviceState
    /\ \A d \in DeviceStates : Keyed(d) /\ MadeByHandlers(d)
    /\ Clusters \subseteq ClusterResource
    /\ \A c \in Clusters : \A n \in c.Balance.NodeHosts : n.HostID \in Hosts
    /\ WebGroups \subseteq WebGroup
    /\ Websites \subseteq Website
    /\ Addresses \subseteq Text
    /\ MaxRequests \in Nat /\ MaxCrashes \in Nat

VARIABLES ctl,       \* what each controller is doing
          api,       \* the controllers that serve the business API
          crashes,   \* how many there have been (the bound)
          served,    \* how many requests there have been, the number of the last
          sent,      \* history: the groups and sites as clients last sent them, by method
          answered,  \* history: the requests to whose calls the device replied
          did,       \* history: the requests that changed the device, with the time
          excused,   \* history: the requests whose record could not be written
          waived,    \* history: the device refused the cluster, or a client removed it
          stable     \* history: what has not changed since a controller began to read it

history == <<served, sent, answered, did, excused>>
vars == <<device, audit, ctl, api, crashes, history, waived, stable>>

Off == [pc |-> "off", record |-> Nil, figures |-> Nil, counts |-> {}, todo |-> {}, answer |-> <<>>]
Idle == [Off EXCEPT !.pc = "idle"]

--------------------------------------------------------------------------------
(* The start of a controller: NewClusterHandler *)

\* Mutant: the API is registered before the cluster is there.
QueryDefaultClusterLast(p) ==
    /\ ctl[p].pc = "off"
    /\ LET missing == QryOneCluster([ClusterId |-> DefaultClusterID]).SocsInfo.ClusterName = Unset IN
           ctl' = [ctl EXCEPT ![p] = IF missing THEN [Off EXCEPT !.pc = "free"] ELSE Idle]
    /\ api' = api \cup {p}
    /\ UNCHANGED <<device, audit, crashes, history, waived>>

\* Query the default cluster: go on if there is none, serve if there is one, and serve
\* without the business API if the call fails.
QueryDefaultCluster(p) ==
    /\ ctl[p].pc = "off"
    /\ LET rsp == QryOneCluster([ClusterId |-> DefaultClusterID])
           missing == rsp.SocsInfo.ClusterName = Unset
       IN
       \/ /\ missing
          /\ ctl' = [ctl EXCEPT ![p] = [Off EXCEPT !.pc = "free"]]
          /\ UNCHANGED api
       \/ /\ ~missing
          /\ ctl' = [ctl EXCEPT ![p] = Idle]
          /\ api' = api \cup {p}
       \/ /\ ctl' = [ctl EXCEPT ![p] = Idle]
          /\ UNCHANGED api
    /\ UNCHANGED <<device, audit, crashes, history, waived>>

FreeHosts(p) ==
    /\ ctl[p].pc = "free"
    /\ \/ ctl' = [ctl EXCEPT ![p] = [@ EXCEPT !.pc = "set", !.todo = QryFreeDevice(<<>>).HostId]]
       \/ ctl' = [ctl EXCEPT ![p] = Idle]
    /\ UNCHANGED <<device, audit, api, crashes, history, waived>>

\* The device refuses a cluster it could have made.
RefusesCluster(reply, done) == reply # Nil /\ ~done /\ ~HasCluster(DefaultClusterID)

\* Mutant: the error of SetCluster is ignored.
SetDefaultClusterAnyway(p) ==
    /\ ctl[p].pc = "set"
    /\ \E reply \in Replies, done \in BOOLEAN :
        /\ SetCluster(DefaultClusterReq(ctl[p].todo), reply, done)
        /\ api' = api \cup {p}
        /\ waived' = (waived \/ RefusesCluster(reply, done))
    /\ ctl' = [ctl EXCEPT ![p] = Idle]
    /\ UNCHANGED <<audit, crashes, history>>

SetDefaultCluster(p) ==
    /\ ctl[p].pc = "set"
    /\ \E reply \in Replies, done \in BOOLEAN :
        /\ SetCluster(DefaultClusterReq(ctl[p].todo), reply, done)
        /\ api' = IF reply # Nil THEN api \cup {p} ELSE api
        /\ waived' = (waived \/ RefusesCluster(reply, done))
    /\ ctl' = [ctl EXCEPT ![p] = Idle]
    /\ UNCHANGED <<audit, crashes, history>>

\* The process ends, wherever it is, and will be started again.
Crash(p) ==
    /\ crashes < MaxCrashes
    /\ ctl[p].pc # "off"
    /\ crashes' = crashes + 1
    /\ ctl' = [ctl EXCEPT ![p] = Off]
    /\ api' = api \ {p}
    /\ excused' = IF ctl[p].pc = "audit" THEN excused \cup {ctl[p].record.n} ELSE excused
    /\ UNCHANGED <<device, audit, served, sent, answered, did, waived>>

--------------------------------------------------------------------------------
(* Requests that change something: one call, then the record *)

Begin(p) ==
    /\ ctl[p].pc = "idle"
    /\ p \in api
    /\ served < MaxRequests
    /\ served' = served + 1

\* The handler of a request has returned, with an error if its call had one; a
\* ret_code is not looked at.
Handled(p, method, reply, done) ==
    LET n == served + 1 IN
    /\ Begin(p)
    /\ ctl' = [ctl EXCEPT ![p] = [Idle EXCEPT
           !.pc = "audit",
           !.record = [n |-> n, method |-> method, succeed |-> reply # Nil]]]
    /\ answered' = IF reply # Nil THEN answered \cup {n} ELSE answered
    /\ did' = IF done THEN did \cup {[n |-> n, at |-> now]} ELSE did
    /\ UNCHANGED <<audit, api, crashes, excused>>

\* ClusterHandler.Create, with whatever operation the client asks for.
CreateCluster(p) ==
    /\ \E cluster \in Clusters, reply \in Replies, done \in BOOLEAN :
        /\ Handled(p, "POST", reply, done)
        /\ SetCluster(ClusterReq(cluster), reply, done)
        /\ waived' = (waived \/ (done /\ cluster.OperType = DeleteCode))
    /\ UNCHANGED sent

DeleteCluster(p) ==
    /\ \E reply \in Replies, done \in BOOLEAN :
        /\ Handled(p, "DELETE", reply, done)
        /\ SetCluster(DeleteClusterReq, reply, done)
    /\ UNCHANGED <<sent, waived>>

\* ClusterHandler.Update and the three of BalanceHandler ask nothing and succeed.
ChangeNothing(p) ==
    /\ \E method \in {"POST", "PUT", "DELETE"} :
           Handled(p, method, Success, FALSE)
    /\ UNCHANGED <<device, sent, waived>>

\* What clients last sent by POST and by PUT, with the next.  It is not known what the
\* device takes PUT for: a group that is updated may go, with its sites.
Others(bodies, id) == {b \in bodies : b.ID # id}

GroupPosted(webGroup) ==
    [sent EXCEPT !.groups = Others(sent.groups, webGroup.ID) \cup {webGroup},
                 !.putGroups = Others(sent.putGroups, webGroup.ID)]
GroupPut(webGroup) ==
    LET its == {s \in sent.sites : s.GroupID = webGroup.ID} IN
    [groups |-> Others(sent.groups, webGroup.ID),
     putGroups |-> Others(sent.putGroups, webGroup.ID) \cup {webGroup},
     sites |-> sent.sites \ its,
     putSites |-> sent.putSites \cup its]
GroupDeleted(id) ==
    [groups |-> Others(sent.groups, id), putGroups |-> Others(sent.putGroups, id),
     sites |-> {s \in sent.sites : s.GroupID # id},
     putSites |-> {s \in sent.putSites : s.GroupID # id}]

SitePosted(website) ==
    [sent EXCEPT !.sites = Others(sent.sites, website.ID) \cup {website},
                 !.putSites = Others(sent.putSites, website.ID)]
SitePut(website) ==
    [sent EXCEPT !.sites = Others(sent.sites, website.ID),
                 !.putSites = Others(sent.putSites, website.ID) \cup {website}]
SiteDeleted(id) ==
    [sent EXCEPT !.sites = Others(sent.sites, id), !.putSites = Others(sent.putSites, id)]

CreateWebGroup(p) ==
    /\ \E webGroup \in WebGroups, reply \in Replies, done \in BOOLEAN :
        /\ Handled(p, "POST", reply, done)
        /\ OptRaltGroup(WebGroupReq(OperTypeCreate, webGroup), reply, done)
        /\ sent' = IF done THEN GroupPosted(webGroup) ELSE sent
    /\ UNCHANGED waived

UpdateWebGroup(p) ==
    /\ \E webGroup \in WebGroups, reply \in Replies, done \in BOOLEAN :
        /\ Handled(p, "PUT", reply, done)
        /\ OptRaltGroup(WebGroupReq(OperTypeModify, webGroup), reply, done)
        /\ sent' = IF done THEN GroupPut(webGroup) ELSE sent
    /\ UNCHANGED waived

DeleteWebGroup(p) ==
    /\ \E webGroup \in WebGroups, reply \in Replies, done \in BOOLEAN :
        /\ Handled(p, "DELETE", reply, done)
        /\ OptRaltGroup(DeleteWebGroupReq(webGroup.ID), reply, done)
        /\ sent' = IF done THEN GroupDeleted(webGroup.ID) ELSE sent
    /\ UNCHANGED waived

\* OptRaltWebsite, which Create and Update call: without an address of the source
\* domain there is no call.
OptWebsite(p, method, opt) ==
    /\ \E website \in Websites, reply \in Replies, done \in BOOLEAN :
        /\ Handled(p, method, reply, done)
        /\ \/ /\ \E address \in Addresses :
                    OptRaltWebsite(WebsiteReq(opt, website, address), reply, done)
           \/ reply = Nil /\ ~done /\ UNCHANGED device
        /\ sent' = CASE ~done -> sent
                     [] done /\ method = "POST" -> SitePosted(website)
                     [] done /\ method # "POST" -> SitePut(website)
    /\ UNCHANGED waived

CreateWebsite(p) == OptWebsite(p, "POST", OperTypeCreate)
UpdateWebsite(p) == OptWebsite(p, "PUT", OperTypeModify)

DeleteWebsite(p) ==
    /\ \E website \in Websites, reply \in Replies, done \in BOOLEAN :
        /\ Handled(p, "DELETE", reply, done)
        /\ OptRaltWebsite(DeleteWebsiteReq(website.ID), reply, done)
        /\ sent' = IF done THEN SiteDeleted(website.ID) ELSE sent
    /\ UNCHANGED waived

\* What the reads of a single call answer.  A group that is not there is an error; a site
\* that is not there is shown without anything but its id.
GetCluster == ClusterGot(QryOneCluster([ClusterId |-> DefaultClusterID]))
GetWebGroup(id) == {WebGroupGot(g) : g \in GetRaltGroup([StrgroupId |-> id]).GroupList}
ListWebGroups == {WebGroupGot(g) : g \in GetRaltGroup([StrgroupId |-> Unset]).GroupList}
GetWebsite(id) ==
    LET rsp == GetRaltSpecWebsite([StrdomainId |-> id]) IN
    IF rsp.Website = {} THEN {NoWebsite(id)} ELSE {WebsiteGot(s) : s \in rsp.Website}
ListWebsites(parent) ==
    LET req == [StrgroupId |-> parent] IN
    {WebsiteListed(req, s) : s \in GetRaltGroupWebsite(req).Website}

\* A request that makes one such call, which may fail; it leaves nothing behind.
ReadOne(p) ==
    /\ \E reply \in {Nil, Success} : Handled(p, "GET", reply, FALSE)
    /\ UNCHANGED <<device, sent, waived>>

\* The end handler: a record of a changing request is inserted, or cannot be.
AuditLoggerHandler(p) ==
    LET record == ctl[p].record IN
    /\ ctl[p].pc = "audit"
    /\ ctl' = [ctl EXCEPT ![p] = Idle]
    /\ \/ /\ record.method \in Audited
          /\ InsertAuditLog(record)
          /\ UNCHANGED excused
       \/ /\ record.method \in Audited
          /\ excused' = excused \cup {record.n}
          /\ UNCHANGED audit
       \/ /\ record.method \notin Audited
          /\ UNCHANGED <<audit, excused>>
    /\ UNCHANGED <<device, api, crashes, served, sent, answered, did, waived>>

--------------------------------------------------------------------------------
(* Reads of several calls: the home page and the list of hosts *)

reading == <<device, audit, api, crashes, sent, answered, did, excused, waived>>

\* HomePageHandler.Get begins with the figures.
ShowHomePage(p) ==
    /\ Begin(p)
    /\ \E rsp \in FigureReplies :
           ctl' = [ctl EXCEPT ![p] = [Idle EXCEPT !.pc = "visits", !.figures = Figures(rsp)]]
    /\ UNCHANGED reading

\* The visits of all domains; a domain without a number makes the handler panic.
ReadVisits(p) ==
    /\ ctl[p].pc = "visits"
    /\ \E rsp \in VisitReplies :
           ctl' = IF \E v \in rsp.DomainVisitNum : v.VisitHostNumber = <<>>
                  THEN [ctl EXCEPT ![p] = Idle]
                  ELSE [ctl EXCEPT ![p] = [@ EXCEPT
                           !.pc = "groups", !.counts = {VisitOf(v) : v \in rsp.DomainVisitNum}]]
    /\ UNCHANGED <<reading, served>>

ReadGroups(p) ==
    /\ ctl[p].pc = "groups"
    /\ LET rsp == GetRaltGroup([StrgroupId |-> Unset]) IN
           ctl' = [ctl EXCEPT ![p] = [@ EXCEPT
                      !.pc = "websites", !.todo = {g.StrgroupId : g \in rsp.GroupList}]]
    /\ UNCHANGED <<reading, served>>

\* The visits of the sites of a group.
SiteVisits(rsp, visits) ==
    {[site |-> x[1].StrdomainId, Domain |-> x[2].MemberDomain, Count |-> x[2].Count] :
       x \in {y \in rsp.Website \X visits : y[1].StrsrcDomain = y[2].MemberDomain}}

Total(siteVisits) == MapThenSumSet(LAMBDA v : v.Count, siteVisits)

\* Mutant: groupVisit is declared before the loop over the groups.
WithGroupVisitHoisted(answer, id, rsp, visits) ==
    LET before == IF answer = <<>> THEN {} ELSE LastOf(answer).WebsiteVisits
        all == before \cup SiteVisits(rsp, visits)
    IN  Append(answer, [of |-> id, WebsiteVisits |-> all, Count |-> Total(all)])

WithGroupVisit(answer, id, rsp, visits) ==
    Append(answer, [of |-> id, WebsiteVisits |-> SiteVisits(rsp, visits),
                    Count |-> Total(SiteVisits(rsp, visits))])

\* One turn of the loop over the groups.
ReadWebsites(p) ==
    /\ ctl[p].pc = "websites"
    /\ \E id \in ctl[p].todo :
        LET rsp == GetRaltGroupWebsite([StrgroupId |-> id]) IN
        ctl' = [ctl EXCEPT ![p] = [@ EXCEPT
                   !.todo = ctl[p].todo \ {id},
                   !.answer = WithGroupVisit(ctl[p].answer, id, rsp, ctl[p].counts)]]
    /\ UNCHANGED <<reading, served>>

\* HostHandler.List begins with the nodes of the default cluster, of which a host may
\* have several.
ListHosts(p) ==
    /\ Begin(p)
    /\ LET rsp == QryOneCluster([ClusterId |-> DefaultClusterID]) IN
           ctl' = [ctl EXCEPT ![p] = [Idle EXCEPT
                      !.pc = "hosts", !.todo = rsp.SocsInfo.NodeHost]]
    /\ UNCHANGED reading

\* Mutant: the pointer to one variable is appended for every node.
WithHostShared(answer, n, rsp) ==
    [i \in 1..(Len(answer) + 1) |->
       [of |-> IF i <= Len(answer) THEN answer[i].of ELSE n, host |-> HostOf(n.HostId, rsp)]]

\* The host of a node; the node is not a part of the answer.
WithHost(answer, n, rsp) == Append(answer, [of |-> n, host |-> HostOf(n.HostId, rsp)])

\* One turn of the loop over the nodes; a host without a sample makes it panic.
ReadFlow(p) ==
    /\ ctl[p].pc = "hosts"
    /\ \E n \in ctl[p].todo : \E rsp \in FlowReplies[n.HostId] :
        ctl' = IF rsp.UpDowmFlow = <<>>
               THEN [ctl EXCEPT ![p] = Idle]
               ELSE [ctl EXCEPT ![p] = [@ EXCEPT
                        !.todo = ctl[p].todo \ {n}, !.answer = WithHost(ctl[p].answer, n, rsp)]]
    /\ UNCHANGED <<reading, served>>

\* A call fails, and with it the request.
ReadFails(p) ==
    /\ ctl[p].pc \in {"visits", "groups"} \/ ctl[p].todo # {}
    /\ ctl[p].pc \in {"visits", "groups", "websites", "hosts"}
    /\ ctl' = [ctl EXCEPT ![p] = Idle]
    /\ UNCHANGED <<reading, served>>

Complete(p) == ctl[p].pc \in {"websites", "hosts"} /\ ctl[p].todo = {}

ReadEnds(p) ==
    /\ Complete(p)
    /\ ctl' = [ctl EXCEPT ![p] = Idle]
    /\ UNCHANGED <<reading, served>>

--------------------------------------------------------------------------------
(* The specification *)

\* What a read that loops over groups or nodes relies on.
SiteFacts(d) ==
    {[id |-> s.StrdomainId, group |-> s.StrgroupId, domain |-> s.StrsrcDomain] : s \in d.sites}
HostFacts(d) ==
    UNION {c.info.NodeHost : c \in {x \in d.clusters : x.id = DefaultClusterID}}
Facts(pc, d) ==
    CASE pc = "websites" -> SiteFacts(d)
      [] pc = "hosts" -> HostFacts(d)
      [] OTHER -> {}

\* Every step: what is no longer as it was when the loop began is not stable.
Watch ==
    stable' = [p \in Controllers |->
        IF ctl'[p].pc = ctl[p].pc THEN stable[p] \cap Facts(ctl'[p].pc, device')
                                  ELSE Facts(ctl'[p].pc, device')]

Init ==
    /\ device \in DeviceStates
    /\ log = {} /\ now = 0
    /\ ctl = [p \in Controllers |-> Off]
    /\ api = {}
    /\ crashes = 0
    /\ served = 0
    /\ sent = [groups |-> {WebGroupGot(g) : g \in device.groups}, putGroups |-> {},
               sites |-> {WebsiteGot(s) : s \in device.sites}, putSites |-> {}]
    /\ answered = {} /\ did = {} /\ excused = {}
    /\ waived = FALSE
    /\ stable = [p \in Controllers |-> {}]

Starting(p) == QueryDefaultCluster(p) \/ FreeHosts(p) \/ SetDefaultCluster(p)

Changing(p) ==
    \/ CreateCluster(p) \/ DeleteCluster(p) \/ ChangeNothing(p)
    \/ CreateWebGroup(p) \/ UpdateWebGroup(p) \/ DeleteWebGroup(p)
    \/ CreateWebsite(p) \/ UpdateWebsite(p) \/ DeleteWebsite(p)

Reading(p) ==
    \/ ReadOne(p)
    \/ ShowHomePage(p) \/ ReadVisits(p) \/ ReadGroups(p) \/ ReadWebsites(p)
    \/ ListHosts(p) \/ ReadFlow(p)
    \/ ReadFails(p) \/ ReadEnds(p)

Passing ==
    /\ Clean \/ Tick
    /\ UNCHANGED <<device, ctl, api, crashes, history, waived>>

Step ==
    \/ Passing
    \/ \E p \in Controllers :
         Starting(p) \/ Changing(p) \/ Reading(p) \/ AuditLoggerHandler(p) \/ Crash(p)

Next == Step /\ Watch

Spec == Init /\ [][Next]_vars

--------------------------------------------------------------------------------
(* Properties *)

Pcs == {"off", "free", "set", "idle", "audit", "visits", "groups", "websites", "hosts"}
Numbers == 1..MaxRequests
Methods == {"GET", "POST", "PUT", "DELETE"}
Record == [n : Numbers, method : Methods, succeed : BOOLEAN]

\* Only a controller whose start succeeded is in a request, a controller that will
\* write a record has one, and each request is with one controller.
CtlTypeOK ==
    /\ \A p \in Controllers :
        /\ ctl[p].pc \in Pcs
        /\ p \in api => ctl[p].pc \notin {"off", "free", "set"}
        /\ ctl[p].pc \notin {"off", "free", "set", "idle"} => p \in api
        /\ ctl[p].pc = "audit" => ctl[p].record \in Record /\ ctl[p].record.n <= served
    /\ \A p, q \in Controllers :
        ctl[p].pc = "audit" /\ ctl[q].pc = "audit" /\ p # q =>
            ctl[p].record.n # ctl[q].record.n

HistoryTypeOK ==
    /\ api \subseteq Controllers
    /\ served \in 0..MaxRequests /\ crashes \in 0..MaxCrashes
    /\ answered \subseteq 1..served /\ excused \subseteq 1..served
    /\ did \subseteq [n : 1..served, at : 0..now]

\* Types, with those of the controllers' progress.
TypeOK ==
    /\ DeviceTypeOK
    /\ AuditTypeOK
    /\ \A r \in log : r.what \in Record
    /\ CtlTypeOK
    /\ HistoryTypeOK

\* A controller that serves the business API has a cluster to configure, unless the
\* device would not make one or a client took it away: whichever controllers start
\* together, query it and create it, and whichever call of theirs fails.
ApiHasCluster == api # {} => HasCluster(DefaultClusterID) \/ waived

\* The audit log covers the device.  A record of success is of a request that the
\* device replied to; and whatever a request changed on the device, its record is
\* there, is about to be written, has been kept for the valid period, or was lost with
\* its insert or with its process.
AuditCoversTheDevice ==
    /\ \A r \in log : r.what.succeed => r.what.n \in answered
    /\ \A d \in did :
        \/ \E r \in log : r.what.n = d.n
        \/ \E p \in Controllers : ctl[p].pc = "audit" /\ ctl[p].record.n = d.n
        \/ d.n \in excused
        \/ d.at + Period <= now

\* A group and a site of a client as they are shown: the handlers override the mode of
\* both and the cluster of a group.
ShownGroup(g) == [g EXCEPT !.TransformMod = TransformModType64, !.ClusterID = DefaultClusterID]
ShownSite(s) == [s EXCEPT !.TransferMod = TransformModType64]

\* Reading shows what was sent, through two translations of every field and whatever the
\* device takes the codes of PUT and DELETE for.  A group or site that was created, and
\* neither updated nor deleted since, is shown as it was created.  One that was updated is
\* shown as in the last update or, on a device that takes the update for a removal, is not
\* there; nothing is shown as it was before, or in part.  A site that is not there is
\* shown with its id and nothing else.  A list of groups shows what a read of each shows (one of a
\* group without an id asks for all of them); a list of sites shows what a read of each
\* shows, but for the virtual address, the link domain and the mode.
ReadsShowWhatWasSent ==
    LET sites == sent.sites \cup sent.putSites IN
    /\ {ShownGroup(g) : g \in sent.groups} \subseteq ListWebGroups
    /\ ListWebGroups \subseteq {ShownGroup(g) : g \in sent.groups \cup sent.putGroups}
    /\ \A g \in ListWebGroups : g.ID # Unset => GetWebGroup(g.ID) = {g}
    /\ \A s \in sent.sites : GetWebsite(s.ID) = {ShownSite(s)}
    /\ \A s \in sent.putSites : GetWebsite(s.ID) \in {{ShownSite(s)}, {NoWebsite(s.ID)}}
    /\ \A s \in Websites : s.ID \notin {t.ID : t \in sites} => GetWebsite(s.ID) = {NoWebsite(s.ID)}
    /\ \A g \in {h \in ListWebGroups : h.ID # Unset} :
         {[s EXCEPT !.VirtualIP = Unset] : s \in ListWebsites(g.ID)} =
           {[s EXCEPT !.VirtualIP = Unset, !.HrefDomain = Unset, !.TransferMod = 0] :
              s \in {t \in UNION {GetWebsite(w.ID) : w \in sites} : t.GroupID = g.ID}}

\* The home page counts every site once.  Whatever other clients change while its calls
\* are made, a site that stays in its group with its domain is counted with each of its
\* domain's visits, under its own group and under no other, and the number of a group is
\* the sum of its sites'.
StableSitesCountOnce ==
    \A p \in {q \in Controllers : ctl[q].pc = "websites"} :
        /\ \A i \in DOMAIN ctl[p].answer :
            LET entry == ctl[p].answer[i] IN
            /\ entry.Count = Total(entry.WebsiteVisits)
            /\ \A s \in stable[p] :
                 {v \in entry.WebsiteVisits : v.site = s.id} =
                   {[site |-> s.id, Domain |-> v.MemberDomain, Count |-> v.Count] :
                      v \in {w \in ctl[p].counts : w.MemberDomain = s.domain /\ s.group = entry.of}}
        /\ Complete(p) => \A s \in stable[p] :
             \E i \in DOMAIN ctl[p].answer :
                 /\ ctl[p].answer[i].of = s.group
                 /\ \A j \in DOMAIN ctl[p].answer : ctl[p].answer[j].of = s.group => j = i

\* The list of hosts has an entry for every node that stays in the cluster, and no second
\* one, with the newest sample of the traffic of the node's own host: a host with two nodes
\* is listed twice.
StableHostsListedOnce ==
    \A p \in {q \in Controllers : ctl[q].pc = "hosts"} :
        Complete(p) => \A n \in stable[p] :
            \E i \in DOMAIN ctl[p].answer :
                /\ ctl[p].answer[i].of = n
                /\ \E rsp \in FlowReplies[n.HostId] :
                     rsp.UpDowmFlow # <<>> /\ ctl[p].answer[i].host = HostOf(n.HostId, rsp)
                /\ \A j \in DOMAIN ctl[p].answer : ctl[p].answer[j].of = n => j = i

\* Updating a group does not remove it: no request of method PUT takes a group off the
\* device.
UpdatesKeepTheGroup ==
    [][\A p \in Controllers :
         ctl[p].pc = "idle" /\ ctl'[p].pc = "audit" /\ ctl'[p].record.method = "PUT" =>
           \A g \in device.groups : \E h \in device'.groups : h.StrgroupId = g.StrgroupId]_vars
================================================================================
