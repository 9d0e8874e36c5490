-------------------------- MODULE BusinessReadProofs ---------------------------
(***************************************************************************)
(* Proofs about what the business handlers answer: the reads of several    *)
(* calls and those of a single call, whatever the device controller takes  *)
(* the codes of the handlers for.                                          *)
(***************************************************************************)
EXTENDS BusinessProofs

--------------------------------------------------------------------------------
(* The device has one thing under an id *)

\* What the clusters, the groups and the sites keep of it each.
LEMMA SetClusterKeyed ==
    ASSUME device \in DeviceState, Keyed(device), NEW req, NEW reply, NEW done,
           SetCluster(req, reply, done)
    PROVE  Keyed(device')
<1>1. CASE ~done
  BY <1>1 DEF SetCluster
<1>2. CASE done
  <2> DEFINE new == [id |-> req.ClusterId, info |-> req.BalanceInfo]
  <2>1. /\ device'.groups = device.groups /\ device'.sites = device.sites
        /\ device'.clusters \subseteq {c \in device.clusters : c.id # req.ClusterId} \cup {new}
    BY <1>2 DEF SetCluster, DeviceState
  <2>2. new.id = req.ClusterId
    OBVIOUS
  <2> HIDE DEF new
  <2>3. \A c, e \in device'.clusters : c.id = e.id => c = e
    BY <2>1, <2>2 DEF Keyed
  <2>. QED
    BY <2>1, <2>3 DEF Keyed
<1>. QED
  BY <1>1, <1>2

LEMMA OptRaltGroupKeyed ==
    ASSUME device \in DeviceState, Keyed(device), NEW req, NEW reply, NEW done,
           OptRaltGroup(req, reply, done)
    PROVE  Keyed(device')
<1> DEFINE others == {g \in device.groups : g.StrgroupId # req.StrgroupId}
           new == GroupOf(req)
<1>0. new.StrgroupId = req.StrgroupId
  BY DEF GroupOf
<1> HIDE DEF new
<1>1. CASE ~done
  BY <1>1 DEF OptRaltGroup
<1>2. CASE done /\ req.Iopt = DeleteCode
  <2>1. /\ device'.clusters = device.clusters /\ device'.groups = others
        /\ device'.sites = {s \in device.sites : s.StrgroupId # req.StrgroupId}
    BY <1>2 DEF OptRaltGroup, DeviceState
  <2>. QED
    BY <2>1 DEF Keyed
<1>3. CASE done /\ req.Iopt # DeleteCode
  <2>1. /\ device'.clusters = device.clusters /\ device'.sites = device.sites
        /\ device'.groups = others \cup {new}
    BY <1>3 DEF OptRaltGroup, DeviceState, new
  <2>2. \A g, h \in device'.groups : g.StrgroupId = h.StrgroupId => g = h
    BY <1>0, <2>1 DEF Keyed
  <2>3. \A s \in device'.sites : \E g \in device'.groups : g.StrgroupId = s.StrgroupId
    <3> SUFFICES ASSUME NEW s \in device.sites
                 PROVE  \E g \in device'.groups : g.StrgroupId = s.StrgroupId
      BY <2>1
    <3>1. PICK g \in device.groups : g.StrgroupId = s.StrgroupId
      BY DEF Keyed
    <3>2. CASE g \in others
      BY <2>1, <3>1, <3>2
    <3>3. CASE g \notin others
      BY <1>0, <2>1, <3>1, <3>3
    <3>. QED
      BY <3>2, <3>3
  <2>. QED
    BY <2>1, <2>2, <2>3 DEF Keyed
<1>. QED
  BY <1>1, <1>2, <1>3

\* A request for sites names one.
LEMMA OptRaltWebsiteKeyed ==
    ASSUME device \in DeviceState, Keyed(device), NEW req, NEW site, req.Website = {site},
           NEW reply, NEW done, OptRaltWebsite(req, reply, done)
    PROVE  Keyed(device')
<1> DEFINE others == {s \in device.sites : \A t \in req.Website : s.StrdomainId # t.StrdomainId}
<1>1. CASE ~done
  BY <1>1 DEF OptRaltWebsite
<1>2. CASE done /\ req.Iopt = DeleteCode
  <2>1. /\ device'.clusters = device.clusters /\ device'.groups = device.groups
        /\ device'.sites = others
    BY <1>2 DEF OptRaltWebsite, DeviceState
  <2>. QED
    BY <2>1 DEF Keyed
<1>3. CASE done /\ req.Iopt # DeleteCode
  <2>1. /\ device'.clusters = device.clusters /\ device'.groups = device.groups
        /\ device'.sites = others \cup {site}
    BY <1>3 DEF OptRaltWebsite, DeviceState
  <2>2. HasGroup(site.StrgroupId)
    BY <1>3 DEF OptRaltWebsite, SiteCanDo
  <2>3. \A s, t \in device'.sites : s.StrdomainId = t.StrdomainId => s = t
    BY <2>1 DEF Keyed
  <2>. QED
    BY <2>1, <2>2, <2>3 DEF Keyed, HasGroup
<1>. QED
  BY <1>1, <1>2, <1>3

LEMMA WebsiteReqsNameOne ==
    /\ \A opt, website, address : \E site : WebsiteReq(opt, website, address).Website = {site}
    /\ \A id : \E site : DeleteWebsiteReq(id).Website = {site}
  BY DEF WebsiteReq, DeleteWebsiteReq

LEMMA ChangingKeyed ==
    ASSUME device \in DeviceState, Keyed(device), NEW p \in Controllers, Changing(p)
    PROVE  Keyed(device')
<1>1. CASE CreateCluster(p) \/ DeleteCluster(p)
  BY <1>1, SetClusterKeyed DEF CreateCluster, DeleteCluster
<1>2. CASE ChangeNothing(p)
  BY <1>2 DEF ChangeNothing
<1>3. CASE CreateWebGroup(p) \/ UpdateWebGroup(p) \/ DeleteWebGroup(p)
  BY <1>3, OptRaltGroupKeyed DEF CreateWebGroup, UpdateWebGroup, DeleteWebGroup
<1>4. CASE CreateWebsite(p) \/ UpdateWebsite(p)
  <2>1. PICK opt, website, reply, done :
           \/ \E address : OptRaltWebsite(WebsiteReq(opt, website, address), reply, done)
           \/ UNCHANGED device
    BY <1>4 DEF CreateWebsite, UpdateWebsite, OptWebsite
  <2>2. ASSUME NEW address, OptRaltWebsite(WebsiteReq(opt, website, address), reply, done)
        PROVE  Keyed(device')
    <3>1. PICK site : WebsiteReq(opt, website, address).Website = {site}
      BY WebsiteReqsNameOne
    <3>. QED
      BY <2>2, <3>1, OptRaltWebsiteKeyed
  <2>. QED
    BY <2>1, <2>2
<1>5. CASE DeleteWebsite(p)
  <2>1. PICK id, reply, done : OptRaltWebsite(DeleteWebsiteReq(id), reply, done)
    BY <1>5 DEF DeleteWebsite
  <2>2. PICK site : DeleteWebsiteReq(id).Website = {site}
    BY WebsiteReqsNameOne
  <2>. QED
    BY <2>1, <2>2, OptRaltWebsiteKeyed
<1>. QED
  BY <1>1, <1>2, <1>3, <1>4, <1>5 DEF Changing

LEMMA ReadingKeepsDevice ==
    ASSUME NEW p \in Controllers, Reading(p)
    PROVE  UNCHANGED <<device, sent>>
  BY DEF Reading, ReadOne, ShowHomePage, ReadVisits, ReadGroups, ReadWebsites, ListHosts, ReadFlow,
     ReadFails, ReadEnds, reading

DeviceKeyed == Keyed(device)

LEMMA KeyedNext == TypeInv /\ DeviceKeyed /\ [Next]_vars => DeviceKeyed'
<1> SUFFICES ASSUME TypeInv, Keyed(device), [Next]_vars PROVE Keyed(device')
  BY DEF DeviceKeyed
<1>0. device \in DeviceState
  BY DEF TypeInv, TypeOK, DeviceTypeOK
<1>1. CASE UNCHANGED vars
  BY <1>1 DEF vars
<1>2. CASE Passing
  BY <1>2 DEF Passing
<1>3. ASSUME NEW p \in Controllers, Starting(p) PROVE Keyed(device')
  BY <1>0, <1>3, SetClusterKeyed DEF Starting, QueryDefaultCluster, FreeHosts, SetDefaultCluster
<1>4. ASSUME NEW p \in Controllers, AuditLoggerHandler(p) \/ Crash(p) PROVE Keyed(device')
  BY <1>4 DEF AuditLoggerHandler, Crash
<1>. QED
  BY <1>0, <1>1, <1>2, <1>3, <1>4, ChangingKeyed, ReadingKeepsDevice DEF Next, Step

\* The device has one cluster, group and site under an id and no site without a group,
\* whatever it takes the codes for.
LEMMA KeyedInvariant == Spec => []DeviceKeyed
<1>1. Init => DeviceKeyed
  BY BusinessAssumption DEF Init, DeviceKeyed
<1>. QED
  BY <1>1, KeyedNext, TypeInvariant, PTL DEF Spec

--------------------------------------------------------------------------------
(* Reads of several calls *)

Entries(s) == {s[i] : i \in DOMAIN s}

\* An answer with one more entry.
LEMMA AppendForm ==
    ASSUME NEW s, s \in Seq(Entries(s)), NEW e
    PROVE  /\ Append(s, e) \in Seq(Entries(Append(s, e)))
           /\ Len(s) \in Nat /\ DOMAIN s = 1..Len(s) /\ DOMAIN Append(s, e) = 1..(Len(s) + 1)
           /\ \A i \in DOMAIN s : Append(s, e)[i] = s[i]
           /\ Append(s, e)[Len(s) + 1] = e
<1> DEFINE S == Entries(s) \cup {e}
           t == Append(s, e)
<1>1. s \in Seq(S) /\ e \in S
  <2>1. Entries(s) \subseteq S
    OBVIOUS
  <2> HIDE DEF S
  <2>2. s \in Seq(S)
    BY <2>1
  <2>. QED
    BY <2>2 DEF S
<1> HIDE DEF S
<1>2. /\ t \in Seq(S)
      /\ Len(s) \in Nat /\ DOMAIN s = 1..Len(s) /\ DOMAIN t = 1..(Len(s) + 1)
      /\ \A i \in DOMAIN s : t[i] = s[i]
      /\ t[Len(s) + 1] = e
  BY <1>1
<1> HIDE DEF t
<1>3. Len(t) = Len(s) + 1
  BY <1>2
<1>4. t \in Seq(Entries(t))
  <2>1. \A i \in 1..Len(t) : t[i] \in Entries(t)
    BY <1>2, <1>3 DEF Entries
  <2>. QED
    BY <1>2, <1>3, <2>1
<1>. QED
  BY <1>2, <1>4 DEF t

\* The entry of a group counts a stable site with the visits of its domain, if it is
\* in the group.
CountsSite(entry, s, counts) ==
    {v \in entry.WebsiteVisits : v.site = s.id} =
      {[site |-> s.id, Domain |-> v.MemberDomain, Count |-> v.Count] :
         v \in {w \in counts : w.MemberDomain = s.domain /\ s.group = entry.of}}

\* The home page: the groups to be read and those that were are disjoint, each is read
\* once, and the group of a stable site is one of them.
GroupsRead(c, st) ==
    /\ c.pc \in {"visits", "groups"} => c.answer = <<>>
    /\ c.pc = "websites" =>
        /\ c.answer \in Seq(Entries(c.answer))
        /\ \A i \in DOMAIN c.answer :
             /\ c.answer[i].of \notin c.todo
             /\ c.answer[i].Count = Total(c.answer[i].WebsiteVisits)
             /\ \A s \in st : CountsSite(c.answer[i], s, c.counts)
        /\ \A i, j \in DOMAIN c.answer : c.answer[i].of = c.answer[j].of => i = j
        /\ \A s \in st : s.group \in c.todo \/ \E i \in DOMAIN c.answer : c.answer[i].of = s.group

\* What an entry of the list of hosts is: the host of its node.
IsHost(entry) ==
    \E rsp \in FlowReplies[entry.of.HostId] :
        rsp.UpDowmFlow # <<>> /\ entry.host = HostOf(entry.of.HostId, rsp)

\* The list of hosts, likewise.
HostsRead(c, st) ==
    c.pc = "hosts" =>
        /\ c.answer \in Seq(Entries(c.answer))
        /\ \A i \in DOMAIN c.answer : c.answer[i].of \notin c.todo /\ IsHost(c.answer[i])
        /\ \A i, j \in DOMAIN c.answer : c.answer[i].of = c.answer[j].of => i = j
        /\ \A n \in st : n \in c.todo \/ \E i \in DOMAIN c.answer : c.answer[i].of = n

ReadInv == \A p \in Controllers : GroupsRead(ctl[p], stable[p]) /\ HostsRead(ctl[p], stable[p])

\* A controller that is in no loop, or goes on in it with less that is stable.
LEMMA NoRead ==
    ASSUME NEW c, NEW st, c.pc \notin {"visits", "groups", "websites", "hosts"}
    PROVE  GroupsRead(c, st) /\ HostsRead(c, st)
  BY DEF GroupsRead, HostsRead

LEMMA LessIsStable ==
    ASSUME NEW c, NEW st, NEW less \in SUBSET st, GroupsRead(c, st), HostsRead(c, st)
    PROVE  GroupsRead(c, less) /\ HostsRead(c, less)
  BY DEF GroupsRead, HostsRead

\* Only the step of p has to be looked at.
LEMMA OnlyItsStep ==
    ASSUME ReadInv, Watch, NEW p \in Controllers, \A q \in Controllers \ {p} : ctl'[q] = ctl[q],
           GroupsRead(ctl'[p], stable'[p]) /\ HostsRead(ctl'[p], stable'[p])
    PROVE  ReadInv'
<1> SUFFICES ASSUME NEW q \in Controllers
             PROVE  GroupsRead(ctl'[q], stable'[q]) /\ HostsRead(ctl'[q], stable'[q])
  BY DEF ReadInv
<1>1. CASE q # p
  <2>1. ctl'[q] = ctl[q] /\ stable'[q] \in SUBSET stable[q]
    BY <1>1 DEF Watch
  <2>. QED
    BY <2>1, LessIsStable DEF ReadInv
<1>. QED
  BY <1>1

LEMMA NobodysStep ==
    ASSUME ReadInv, Watch, UNCHANGED ctl
    PROVE  ReadInv'
<1> SUFFICES ASSUME NEW q \in Controllers
             PROVE  GroupsRead(ctl'[q], stable'[q]) /\ HostsRead(ctl'[q], stable'[q])
  BY DEF ReadInv
<1>1. ctl'[q] = ctl[q] /\ stable'[q] \in SUBSET stable[q]
  BY DEF Watch
<1>. QED
  BY <1>1, LessIsStable DEF ReadInv

\* The home page begins with an empty answer, and has it until the loop.
LEMMA BeforeTheGroups ==
    ASSUME TypeInv, ReadInv, Watch, NEW p \in Controllers, ShowHomePage(p) \/ ReadVisits(p)
    PROVE  GroupsRead(ctl'[p], stable'[p]) /\ HostsRead(ctl'[p], stable'[p])
<1>1. Idle.answer = <<>>
  <2>1. Off.answer = <<>>
    BY DEF Off
  <2>. QED
    BY <2>1, OffAndIdle DEF Idle, Form
<1>2. Form(ctl[p]) /\ ctl' = [q \in Controllers |-> ctl'[q]]
  BY DEF TypeInv, CtlForm, ShowHomePage, ReadVisits
<1>3. CASE ShowHomePage(p)
  <2>1. PICK rsp \in FigureReplies :
           ctl' = [ctl EXCEPT ![p] = [Idle EXCEPT !.pc = "visits", !.figures = Figures(rsp)]]
    BY <1>3 DEF ShowHomePage
  <2> DEFINE c == [Idle EXCEPT !.pc = "visits", !.figures = Figures(rsp)]
  <2>2. c = [pc |-> "visits", record |-> Idle.record, figures |-> Figures(rsp),
             counts |-> Idle.counts, todo |-> Idle.todo, answer |-> Idle.answer]
    <3>1. Form(Idle)
      BY OffAndIdle
    <3>. QED
      BY ONLY <3>1, PcAndFigures
  <2>3. ctl'[p] = c
    BY <2>1 DEF TypeInv, CtlForm
  <2> HIDE DEF c
  <2>4. c.pc = "visits" /\ c.answer = <<>>
    BY <1>1, <2>2
  <2>. QED
    BY <2>3, <2>4 DEF GroupsRead, HostsRead
<1>4. CASE ReadVisits(p)
  <2>1. PICK rsp \in VisitReplies :
           \/ ctl' = [ctl EXCEPT ![p] = Idle]
           \/ ctl' = [ctl EXCEPT ![p] = [ctl[p] EXCEPT
                  !.pc = "groups", !.counts = {VisitOf(v) : v \in rsp.DomainVisitNum}]]
    BY <1>4 DEF ReadVisits, TypeInv, CtlForm
  <2> DEFINE c == [ctl[p] EXCEPT
                      !.pc = "groups", !.counts = {VisitOf(v) : v \in rsp.DomainVisitNum}]
  <2>2. c = [pc |-> "groups", record |-> ctl[p].record, figures |-> ctl[p].figures,
             counts |-> {VisitOf(v) : v \in rsp.DomainVisitNum},
             todo |-> ctl[p].todo, answer |-> ctl[p].answer]
    BY <1>2, PcAndVisits
  <2>3. ctl'[p] = Idle \/ ctl'[p] = c
    BY <2>1 DEF TypeInv, CtlForm
  <2> HIDE DEF c
  <2>4. ctl[p].answer = <<>>
    BY <1>4 DEF ReadVisits, ReadInv, GroupsRead
  <2>5. c.pc = "groups" /\ c.answer = <<>>
    BY <2>2, <2>4
  <2>. QED
    BY <2>3, <2>5, NoRead, OffAndIdle DEF GroupsRead, HostsRead
<1>. QED
  BY <1>3, <1>4

\* The loop over the groups begins: the group of every site is to be read.
LEMMA AtTheGroups ==
    ASSUME TypeInv, DeviceKeyed, ReadInv, Watch, NEW p \in Controllers, ReadGroups(p)
    PROVE  GroupsRead(ctl'[p], stable'[p]) /\ HostsRead(ctl'[p], stable'[p])
<1> DEFINE ids == {g.StrgroupId : g \in GetRaltGroup([StrgroupId |-> Unset]).GroupList}
           c == [ctl[p] EXCEPT !.pc = "websites", !.todo = ids]
<1>1. ctl'[p] = c /\ ctl[p].pc = "groups" /\ UNCHANGED device
  BY DEF ReadGroups, reading, TypeInv, CtlForm
<1>2. \A s \in device.sites : s.StrgroupId \in ids
  BY DEF DeviceKeyed, Keyed, GetRaltGroup
<1>3. Form(ctl[p]) /\ ctl[p].answer = <<>>
  BY <1>1 DEF TypeInv, CtlForm, ReadInv, GroupsRead
<1> HIDE DEF ids
<1>4. c = [pc |-> "websites", record |-> ctl[p].record, figures |-> ctl[p].figures,
           counts |-> ctl[p].counts, todo |-> ids, answer |-> ctl[p].answer]
  BY <1>3, PcAndTodo
<1> HIDE DEF c
<1>5. c.pc = "websites" /\ c.todo = ids /\ c.answer = <<>>
  BY <1>3, <1>4
<1>6. stable'[p] = SiteFacts(device)
  BY <1>1, <1>5 DEF Watch, Facts
<1>7. \A s \in stable'[p] : s.group \in ids
  BY <1>2, <1>6 DEF SiteFacts
<1>8. <<>> \in Seq(Entries(<<>>)) /\ DOMAIN <<>> = {}
  OBVIOUS
<1>. QED
  BY <1>1, <1>5, <1>7, <1>8 DEF GroupsRead, HostsRead

\* What a group's reply says of the sites that are on the device.
LEMMA VisitsOfASite ==
    ASSUME device \in DeviceState, DeviceKeyed, NEW id, NEW counts, NEW s \in SiteFacts(device),
           NEW entry, entry.of = id,
           entry.WebsiteVisits = SiteVisits(GetRaltGroupWebsite([StrgroupId |-> id]), counts)
    PROVE  CountsSite(entry, s, counts)
<1> DEFINE rsp == GetRaltGroupWebsite([StrgroupId |-> id])
           visit(x) == [site |-> x[1].StrdomainId, Domain |-> x[2].MemberDomain, Count |-> x[2].Count]
           shown(v) == [site |-> s.id, Domain |-> v.MemberDomain, Count |-> v.Count]
           counted == {w \in counts : w.MemberDomain = s.domain /\ s.group = id}
<1>1. PICK t \in device.sites :
         s = [id |-> t.StrdomainId, group |-> t.StrgroupId, domain |-> t.StrsrcDomain]
  BY DEF SiteFacts
<1>2. s.id = t.StrdomainId /\ s.group = t.StrgroupId /\ s.domain = t.StrsrcDomain
  BY <1>1
<1>3. \A u \in device.sites : u.StrdomainId = s.id => u = t
  BY <1>2 DEF DeviceKeyed, Keyed
<1>4. rsp.Website = {u \in device.sites : u.StrgroupId = id}
  BY DEF GetRaltGroupWebsite
<1> HIDE DEF rsp
<1>5. ASSUME NEW v \in entry.WebsiteVisits, v.site = s.id
      PROVE  \E w \in counted : v = shown(w)
  <2>1. PICK x \in rsp.Website \X counts : x[1].StrsrcDomain = x[2].MemberDomain /\ v = visit(x)
    BY <1>5 DEF SiteVisits, rsp
  <2>2. x[1] \in device.sites /\ x[1].StrgroupId = id /\ x[2] \in counts
    BY <1>4, <2>1
  <2>3. v.site = x[1].StrdomainId
    BY <2>1
  <2>4. x[1] = t
    BY <1>3, <1>5, <2>2, <2>3
  <2>5. x[2] \in counted
    BY <1>2, <2>1, <2>2, <2>4
  <2>6. v = shown(x[2])
    BY <1>2, <2>1, <2>4
  <2>. QED
    BY <2>5, <2>6
<1>6. ASSUME NEW w \in counted
      PROVE  shown(w) \in entry.WebsiteVisits /\ shown(w).site = s.id
  <2>1. t \in rsp.Website /\ w \in counts /\ t.StrsrcDomain = w.MemberDomain
    BY <1>2, <1>4
  <2>2. visit(<<t, w>>) \in SiteVisits(rsp, counts)
    <3>1. <<t, w>> \in {y \in rsp.Website \X counts : y[1].StrsrcDomain = y[2].MemberDomain}
      BY <2>1
    <3>. QED
      BY <3>1 DEF SiteVisits
  <2>3. visit(<<t, w>>) = shown(w)
    BY <1>2
  <2>. QED
    BY <2>2, <2>3 DEF rsp
<1>7. {v \in entry.WebsiteVisits : v.site = s.id} = {shown(w) : w \in counted}
  <2> HIDE DEF shown, counted
  <2>. QED
    BY <1>5, <1>6
<1>. QED
  BY <1>7 DEF CountsSite

\* One turn of the loop over the groups.
LEMMA ATurnOfTheGroups ==
    ASSUME TypeInv, DeviceKeyed, ReadInv, Watch, NEW p \in Controllers, ReadWebsites(p)
    PROVE  GroupsRead(ctl'[p], stable'[p]) /\ HostsRead(ctl'[p], stable'[p])
<1>0. PICK id \in ctl[p].todo :
         ctl' = [ctl EXCEPT ![p] = [@ EXCEPT
                   !.todo = ctl[p].todo \ {id},
                   !.answer = WithGroupVisit(ctl[p].answer, id, GetRaltGroupWebsite([StrgroupId |-> id]),
                                           ctl[p].counts)]]
  BY DEF ReadWebsites
<1> DEFINE visits == SiteVisits(GetRaltGroupWebsite([StrgroupId |-> id]), ctl[p].counts)
           entry == [of |-> id, WebsiteVisits |-> visits, Count |-> Total(visits)]
           answer == Append(ctl[p].answer, entry)
           c == [ctl[p] EXCEPT !.todo = ctl[p].todo \ {id}, !.answer = answer]
<1>1. ctl'[p] = c
  BY <1>0 DEF TypeInv, CtlForm, WithGroupVisit
<1>2. entry.of = id /\ entry.WebsiteVisits = visits /\ entry.Count = Total(entry.WebsiteVisits)
  OBVIOUS
<1>3. /\ Form(ctl[p]) /\ ctl[p].pc = "websites" /\ UNCHANGED device
      /\ GroupsRead(ctl[p], stable[p]) /\ device \in DeviceState
  BY DEF ReadWebsites, reading, TypeInv, CtlForm, TypeOK, DeviceTypeOK, ReadInv
<1>4. \A s \in SiteFacts(device) : CountsSite(entry, s, ctl[p].counts)
  <2> HIDE DEF entry
  <2>. QED
    BY <1>2, <1>3, VisitsOfASite
<1> HIDE DEF entry
<1>5. /\ answer \in Seq(Entries(answer)) /\ Len(ctl[p].answer) \in Nat
      /\ DOMAIN ctl[p].answer = 1..Len(ctl[p].answer)
      /\ DOMAIN answer = 1..(Len(ctl[p].answer) + 1)
      /\ \A i \in DOMAIN ctl[p].answer : answer[i] = ctl[p].answer[i]
      /\ answer[Len(ctl[p].answer) + 1] = entry
  BY <1>3, AppendForm DEF GroupsRead
<1> HIDE DEF answer
<1>6. c = [pc |-> ctl[p].pc, record |-> ctl[p].record, figures |-> ctl[p].figures,
           counts |-> ctl[p].counts, todo |-> ctl[p].todo \ {id}, answer |-> answer]
  BY <1>3, TodoAndAnswer
<1> HIDE DEF c
<1>7. /\ c.pc = "websites" /\ c.counts = ctl[p].counts
      /\ c.todo = ctl[p].todo \ {id} /\ c.answer = answer
  BY <1>3, <1>6
<1>8. stable'[p] \subseteq stable[p] /\ stable'[p] \subseteq SiteFacts(device)
  BY <1>1, <1>3, <1>7 DEF Watch, Facts
<1>9. ASSUME NEW i \in DOMAIN answer
      PROVE  /\ answer[i].of \notin c.todo
             /\ answer[i].Count = Total(answer[i].WebsiteVisits)
             /\ \A s \in stable'[p] : CountsSite(answer[i], s, c.counts)
  <2>1. CASE i \in DOMAIN ctl[p].answer
    BY <1>3, <1>5, <1>7, <1>8, <2>1 DEF GroupsRead
  <2>2. CASE i \notin DOMAIN ctl[p].answer
    <3>1. answer[i] = entry
      BY <1>5, <2>2
    <3>. QED
      BY <1>2, <1>4, <1>7, <1>8, <3>1
  <2>. QED
    BY <2>1, <2>2
<1>10. \A i \in DOMAIN ctl[p].answer : answer[i].of # id
  BY <1>0, <1>3, <1>5 DEF GroupsRead
<1>11. \A i, j \in DOMAIN answer : answer[i].of = answer[j].of => i = j
  <2>1. \A i, j \in DOMAIN ctl[p].answer : answer[i].of = answer[j].of => i = j
    BY <1>3, <1>5 DEF GroupsRead
  <2>2. \A i \in DOMAIN answer : i \in DOMAIN ctl[p].answer \/ i = Len(ctl[p].answer) + 1
    BY <1>5
  <2>3. answer[Len(ctl[p].answer) + 1].of = id
    BY <1>2, <1>5
  <2>. QED
    BY <1>10, <2>1, <2>2, <2>3
<1>12. ASSUME NEW s \in stable'[p]
       PROVE  s.group \in c.todo \/ \E i \in DOMAIN answer : answer[i].of = s.group
  <2>1. CASE s.group = id
    <3>1. Len(ctl[p].answer) + 1 \in DOMAIN answer
      BY <1>5
    <3>. QED
      BY <1>2, <1>5, <2>1, <3>1
  <2>2. CASE s.group # id /\ s.group \in ctl[p].todo
    BY <1>7, <2>2
  <2>3. CASE s.group \notin ctl[p].todo
    <3>1. PICK i \in DOMAIN ctl[p].answer : ctl[p].answer[i].of = s.group
      BY <1>3, <1>8, <2>3 DEF GroupsRead
    <3>2. i \in DOMAIN answer
      BY <1>5
    <3>. QED
      BY <1>5, <3>1, <3>2
  <2>. QED
    BY <2>1, <2>2, <2>3
<1>13. GroupsRead(c, stable'[p])
  BY <1>5, <1>7, <1>9, <1>11, <1>12 DEF GroupsRead
<1>. QED
  BY <1>1, <1>7, <1>13 DEF HostsRead

\* The nodes of the default cluster are those that the read of it names.
LEMMA HostsOfTheCluster ==
    ASSUME device \in DeviceState, DeviceKeyed
    PROVE  HostFacts(device) \subseteq
             QryOneCluster([ClusterId |-> DefaultClusterID]).SocsInfo.NodeHost
<1> SUFFICES ASSUME NEW n \in HostFacts(device)
             PROVE  n \in SocsInfo(DefaultClusterID).NodeHost
  BY DEF QryOneCluster
<1>1. PICK c \in device.clusters : c.id = DefaultClusterID /\ n \in c.info.NodeHost
  BY DEF HostFacts
<1>2. HasCluster(DefaultClusterID)
  BY <1>1 DEF HasCluster
<1>3. (CHOOSE e \in device.clusters : e.id = DefaultClusterID) = c
  BY <1>1 DEF DeviceKeyed, Keyed
<1>. QED
  BY <1>1, <1>2, <1>3 DEF SocsInfo

\* The loop over the nodes begins: every node of the cluster is to be read.
LEMMA AtTheHosts ==
    ASSUME TypeInv, DeviceKeyed, ReadInv, Watch, NEW p \in Controllers, ListHosts(p)
    PROVE  GroupsRead(ctl'[p], stable'[p]) /\ HostsRead(ctl'[p], stable'[p])
<1> DEFINE nodes == QryOneCluster([ClusterId |-> DefaultClusterID]).SocsInfo.NodeHost
           c == [Idle EXCEPT !.pc = "hosts", !.todo = nodes]
<1>1. ctl'[p] = c /\ ctl[p].pc = "idle" /\ UNCHANGED device /\ device \in DeviceState
  BY DEF ListHosts, Begin, reading, TypeInv, TypeOK, DeviceTypeOK, CtlForm
<1>2. HostFacts(device) \subseteq nodes
  BY <1>1, HostsOfTheCluster
<1> HIDE DEF nodes
<1>3. c = [pc |-> "hosts", record |-> Idle.record, figures |-> Idle.figures,
           counts |-> Idle.counts, todo |-> nodes, answer |-> Idle.answer]
  BY OffAndIdle, PcAndTodo
<1> HIDE DEF c
<1>4. Idle.answer = <<>>
  <2>1. Off.answer = <<>>
    BY DEF Off
  <2>. QED
    BY <2>1, OffAndIdle DEF Idle, Form
<1>5. c.pc = "hosts" /\ c.todo = nodes /\ c.answer = <<>>
  BY <1>3, <1>4
<1>6. stable'[p] = HostFacts(device)
  BY <1>1, <1>5 DEF Watch, Facts
<1>7. <<>> \in Seq(Entries(<<>>)) /\ DOMAIN <<>> = {}
  OBVIOUS
<1>. QED
  BY <1>1, <1>2, <1>5, <1>6, <1>7 DEF GroupsRead, HostsRead

\* One turn of the loop over the nodes.
LEMMA ATurnOfTheHosts ==
    ASSUME TypeInv, ReadInv, Watch, NEW p \in Controllers, ReadFlow(p)
    PROVE  GroupsRead(ctl'[p], stable'[p]) /\ HostsRead(ctl'[p], stable'[p])
<1>a. PICK n \in ctl[p].todo : \E rsp \in FlowReplies[n.HostId] :
         ctl' = IF rsp.UpDowmFlow = <<>>
                THEN [ctl EXCEPT ![p] = Idle]
                ELSE [ctl EXCEPT ![p] = [@ EXCEPT
                        !.todo = ctl[p].todo \ {n}, !.answer = WithHost(ctl[p].answer, n, rsp)]]
  BY DEF ReadFlow
<1>0. PICK rsp \in FlowReplies[n.HostId] :
         ctl' = IF rsp.UpDowmFlow = <<>>
                THEN [ctl EXCEPT ![p] = Idle]
                ELSE [ctl EXCEPT ![p] = [@ EXCEPT
                        !.todo = ctl[p].todo \ {n}, !.answer = WithHost(ctl[p].answer, n, rsp)]]
  BY <1>a
<1> DEFINE entry == [of |-> n, host |-> HostOf(n.HostId, rsp)]
           answer == Append(ctl[p].answer, entry)
           c == [ctl[p] EXCEPT !.todo = ctl[p].todo \ {n}, !.answer = answer]
<1>1. \/ ctl'[p] = Idle
      \/ ctl'[p] = c /\ rsp.UpDowmFlow # <<>>
  BY <1>0 DEF TypeInv, CtlForm, WithHost
<1>2. entry.of = n /\ entry.host = HostOf(n.HostId, rsp)
  OBVIOUS
<1>3. Form(ctl[p]) /\ ctl[p].pc = "hosts" /\ HostsRead(ctl[p], stable[p])
  BY DEF ReadFlow, TypeInv, CtlForm, ReadInv
<1>4. rsp.UpDowmFlow # <<>> => IsHost(entry)
  BY <1>2 DEF IsHost
<1> HIDE DEF entry
<1>5. /\ answer \in Seq(Entries(answer)) /\ Len(ctl[p].answer) \in Nat
      /\ DOMAIN ctl[p].answer = 1..Len(ctl[p].answer)
      /\ DOMAIN answer = 1..(Len(ctl[p].answer) + 1)
      /\ \A i \in DOMAIN ctl[p].answer : answer[i] = ctl[p].answer[i]
      /\ answer[Len(ctl[p].answer) + 1] = entry
  BY <1>3, AppendForm DEF HostsRead
<1> HIDE DEF answer
<1>6. c = [pc |-> ctl[p].pc, record |-> ctl[p].record, figures |-> ctl[p].figures,
           counts |-> ctl[p].counts, todo |-> ctl[p].todo \ {n}, answer |-> answer]
  BY <1>3, TodoAndAnswer
<1> HIDE DEF c
<1>7. c.pc = "hosts" /\ c.todo = ctl[p].todo \ {n} /\ c.answer = answer
  BY <1>3, <1>6
<1>8. SUFFICES ASSUME ctl'[p] = c, rsp.UpDowmFlow # <<>> PROVE HostsRead(c, stable'[p])
  BY <1>1, <1>7, NoRead, OffAndIdle DEF GroupsRead
<1>9. stable'[p] \subseteq stable[p]
  BY <1>3, <1>7, <1>8 DEF Watch
<1>10. ASSUME NEW i \in DOMAIN answer PROVE answer[i].of \notin c.todo /\ IsHost(answer[i])
  <2>1. CASE i \in DOMAIN ctl[p].answer
    BY <1>3, <1>5, <1>7, <2>1 DEF HostsRead
  <2>2. CASE i \notin DOMAIN ctl[p].answer
    <3>1. answer[i] = entry
      BY <1>5, <2>2
    <3>. QED
      BY <1>2, <1>4, <1>7, <1>8, <3>1
  <2>. QED
    BY <2>1, <2>2
<1>11. \A i, j \in DOMAIN answer : answer[i].of = answer[j].of => i = j
  <2>1. \A i, j \in DOMAIN ctl[p].answer : answer[i].of = answer[j].of => i = j
    BY <1>3, <1>5 DEF HostsRead
  <2>2. \A i \in DOMAIN answer : i \in DOMAIN ctl[p].answer \/ i = Len(ctl[p].answer) + 1
    BY <1>5
  <2>3. answer[Len(ctl[p].answer) + 1].of = n
    BY <1>2, <1>5
  <2>4. \A i \in DOMAIN ctl[p].answer : answer[i].of # n
    BY <1>a, <1>3, <1>5 DEF HostsRead
  <2>. QED
    BY <2>1, <2>2, <2>3, <2>4
<1>12. ASSUME NEW m \in stable'[p]
       PROVE  m \in c.todo \/ \E i \in DOMAIN answer : answer[i].of = m
  <2>1. CASE m = n
    <3>1. Len(ctl[p].answer) + 1 \in DOMAIN answer
      BY <1>5
    <3>. QED
      BY <1>2, <1>5, <2>1, <3>1
  <2>2. CASE m # n /\ m \in ctl[p].todo
    BY <1>7, <2>2
  <2>3. CASE m \notin ctl[p].todo
    <3>1. PICK i \in DOMAIN ctl[p].answer : ctl[p].answer[i].of = m
      BY <1>3, <1>9, <2>3 DEF HostsRead
    <3>2. i \in DOMAIN answer
      BY <1>5
    <3>. QED
      BY <1>5, <3>1, <3>2
  <2>. QED
    BY <2>1, <2>2, <2>3
<1>. QED
  BY <1>5, <1>7, <1>10, <1>11, <1>12 DEF HostsRead

\* A controller that is idle, or off, or at its start has no read.
LEMMA GoesElsewhere ==
    ASSUME TypeInv, ReadInv, Watch, NEW p \in Controllers, NEW c, ctl' = [ctl EXCEPT ![p] = c],
           c.pc \notin {"visits", "groups", "websites", "hosts"}
    PROVE  ReadInv'
<1>1. ctl'[p] = c /\ \A q \in Controllers \ {p} : ctl'[q] = ctl[q]
  BY DEF TypeInv, CtlForm
<1>. QED
  BY <1>1, NoRead, OnlyItsStep

LEMMA HandledRead ==
    ASSUME TypeInv, ReadInv, Watch, NEW p \in Controllers, NEW method, NEW reply, NEW done,
           Handled(p, method, reply, done)
    PROVE  ReadInv'
  BY HandledCtl, NoRead, OnlyItsStep

LEMMA ChangingRead ==
    ASSUME TypeInv, ReadInv, Watch, NEW p \in Controllers, Changing(p)
    PROVE  ReadInv'
<1>1. \E method, reply, done : Handled(p, method, reply, done)
  BY DEF Changing, CreateCluster, DeleteCluster, ChangeNothing, CreateWebGroup, UpdateWebGroup,
     DeleteWebGroup, CreateWebsite, UpdateWebsite, DeleteWebsite, OptWebsite
<1>. QED
  BY <1>1, HandledRead

LEMMA StartingRead ==
    ASSUME TypeInv, ReadInv, Watch, NEW p \in Controllers, Starting(p)
    PROVE  ReadInv'
<1>0. Form(ctl[p])
  BY DEF TypeInv, CtlForm
<1>1. CASE ctl' = [ctl EXCEPT ![p] = Idle]
  BY <1>1, GoesElsewhere, OffAndIdle
<1>2. CASE QueryDefaultCluster(p)
  <2> DEFINE c == [Off EXCEPT !.pc = "free"]
  <2>1. \/ ctl' = [ctl EXCEPT ![p] = Idle]
        \/ ctl' = [ctl EXCEPT ![p] = c]
    BY <1>2 DEF QueryDefaultCluster
  <2>2. c.pc = "free"
    BY OffAndIdle DEF Form
  <2> HIDE DEF c
  <2>. QED
    BY <1>1, <2>1, <2>2, GoesElsewhere
<1>3. CASE FreeHosts(p)
  <2> DEFINE hosts == QryFreeDevice(<<>>).HostId
             c == [ctl[p] EXCEPT !.pc = "set", !.todo = hosts]
  <2>1. \/ ctl' = [ctl EXCEPT ![p] = Idle]
        \/ ctl' = [ctl EXCEPT ![p] = c]
    BY <1>3 DEF FreeHosts, TypeInv, CtlForm
  <2> HIDE DEF hosts
  <2>2. c = [pc |-> "set", record |-> ctl[p].record, figures |-> ctl[p].figures,
             counts |-> ctl[p].counts, todo |-> hosts, answer |-> ctl[p].answer]
    BY <1>0, PcAndTodo
  <2> HIDE DEF c
  <2>3. c.pc = "set"
    BY <2>2
  <2>. QED
    BY <1>1, <2>1, <2>3, GoesElsewhere
<1>4. CASE SetDefaultCluster(p)
  BY <1>1, <1>4 DEF SetDefaultCluster
<1>. QED
  BY <1>2, <1>3, <1>4 DEF Starting

LEMMA ReadingRead ==
    ASSUME TypeInv, DeviceKeyed, ReadInv, Watch, NEW p \in Controllers, Reading(p)
    PROVE  ReadInv'
<1>1. CASE ReadOne(p)
  BY <1>1, HandledRead DEF ReadOne
<1>2. CASE ~ReadOne(p)
  <2>1. \A q \in Controllers \ {p} : ctl'[q] = ctl[q]
    BY <1>2, ReadingType DEF Quiet
  <2>2. ASSUME ReadFails(p) \/ ReadEnds(p) PROVE ctl' = [ctl EXCEPT ![p] = Idle]
    BY <2>2 DEF ReadFails, ReadEnds
  <2>. QED
    BY <1>2, <2>1, <2>2, GoesElsewhere, OffAndIdle, BeforeTheGroups, AtTheGroups, ATurnOfTheGroups,
       AtTheHosts, ATurnOfTheHosts, OnlyItsStep DEF Reading
<1>. QED
  BY <1>1, <1>2

LEMMA ReadNext == TypeInv /\ DeviceKeyed /\ ReadInv /\ [Next]_vars => ReadInv'
<1> SUFFICES ASSUME TypeInv, DeviceKeyed, ReadInv, [Next]_vars PROVE ReadInv'
  OBVIOUS
<1>1. CASE UNCHANGED vars
  BY <1>1 DEF vars, ReadInv
<1>2. CASE Next
  <2>1. Watch
    BY <1>2 DEF Next
  <2>2. ASSUME NEW p \in Controllers, AuditLoggerHandler(p) \/ Crash(p) PROVE ReadInv'
    <3>1. \/ ctl' = [ctl EXCEPT ![p] = Idle]
          \/ ctl' = [ctl EXCEPT ![p] = Off]
      BY <2>2 DEF AuditLoggerHandler, Crash
    <3>. QED
      BY <2>1, <3>1, GoesElsewhere, OffAndIdle
  <2>3. CASE Passing
    BY <2>1, <2>3, NobodysStep DEF Passing
  <2>. QED
    BY <1>2, <2>1, <2>2, <2>3, StartingRead, ChangingRead, ReadingRead DEF Next, Step
<1>. QED
  BY <1>1, <1>2

LEMMA ReadInvariant == Spec => []ReadInv
<1>1. Init => ReadInv
  BY OffAndIdle, NoRead DEF Init, ReadInv
<1>. QED
  BY <1>1, ReadNext, TypeInvariant, KeyedInvariant, PTL DEF Spec

\* Whatever other clients change between the calls of the home page: a site that keeps
\* its group and its domain is counted with each visit of its domain, under its own
\* group and under no other, once.
THEOREM HomePageCountsSitesOnce == Spec => []StableSitesCountOnce
<1>1. ReadInv => StableSitesCountOnce
  <2> SUFFICES ASSUME ReadInv, NEW p \in Controllers, ctl[p].pc = "websites"
               PROVE  /\ \A i \in DOMAIN ctl[p].answer :
                           /\ ctl[p].answer[i].Count = Total(ctl[p].answer[i].WebsiteVisits)
                           /\ \A s \in stable[p] : CountsSite(ctl[p].answer[i], s, ctl[p].counts)
                      /\ Complete(p) => \A s \in stable[p] :
                           \E i \in DOMAIN ctl[p].answer :
                               /\ ctl[p].answer[i].of = s.group
                               /\ \A j \in DOMAIN ctl[p].answer :
                                     ctl[p].answer[j].of = s.group => j = i
    BY DEF StableSitesCountOnce, CountsSite
  <2>1. GroupsRead(ctl[p], stable[p])
    BY DEF ReadInv
  <2>2. ASSUME Complete(p), NEW s \in stable[p]
        PROVE  \E i \in DOMAIN ctl[p].answer : ctl[p].answer[i].of = s.group
    BY <2>1, <2>2 DEF GroupsRead, Complete
  <2>. QED
    BY <2>1, <2>2 DEF GroupsRead
<1>. QED
  BY <1>1, ReadInvariant, PTL

\* And a node that stays in the cluster has one entry in the list of hosts, with the newest
\* sample of its own host's traffic.
THEOREM HostsAreListedOnce == Spec => []StableHostsListedOnce
<1>1. ReadInv => StableHostsListedOnce
  <2> SUFFICES ASSUME ReadInv, NEW p \in Controllers, ctl[p].pc = "hosts", Complete(p),
                      NEW n \in stable[p]
               PROVE  \E i \in DOMAIN ctl[p].answer :
                        /\ ctl[p].answer[i].of = n
                        /\ \E rsp \in FlowReplies[n.HostId] :
                             rsp.UpDowmFlow # <<>> /\ ctl[p].answer[i].host = HostOf(n.HostId, rsp)
                        /\ \A j \in DOMAIN ctl[p].answer : ctl[p].answer[j].of = n => j = i
    BY DEF StableHostsListedOnce
  <2>1. HostsRead(ctl[p], stable[p])
    BY DEF ReadInv
  <2>2. PICK i \in DOMAIN ctl[p].answer : ctl[p].answer[i].of = n
    BY <2>1 DEF HostsRead, Complete
  <2>3. IsHost(ctl[p].answer[i])
    BY <2>1 DEF HostsRead
  <2>4. \E rsp \in FlowReplies[n.HostId] :
          rsp.UpDowmFlow # <<>> /\ ctl[p].answer[i].host = HostOf(n.HostId, rsp)
    BY <2>2, <2>3 DEF IsHost
  <2>5. \A j \in DOMAIN ctl[p].answer : ctl[p].answer[j].of = n => j = i
    BY <2>1, <2>2 DEF HostsRead
  <2>. QED
    BY <2>2, <2>4, <2>5
<1>. QED
  BY <1>1, ReadInvariant, PTL

--------------------------------------------------------------------------------
(* Reads of a single call *)

SentTypeOK ==
    sent \in [groups : SUBSET WebGroup, putGroups : SUBSET WebGroup,
              sites : SUBSET Website, putSites : SUBSET Website]

\* The groups and the sites of a device are bodies that clients sent, by POST or by PUT, and
\* those sent by POST are there.  A site may have nothing but its id, too: on a device that
\* takes a DELETE for a change.
GroupsMirrored(groups, posted, put) ==
    /\ \A g \in groups : \E w \in posted \cup put : WebGroupGot(g) = ShownGroup(w)
    /\ \A w \in posted : \E g \in groups : WebGroupGot(g) = ShownGroup(w)
SitesMirrored(sites, posted, put) ==
    /\ \A s \in sites : \/ WebsiteGot(s) = NoWebsite(s.StrdomainId)
                        \/ \E w \in posted \cup put : WebsiteGot(s) = ShownSite(w)
    /\ \A w \in posted : \E s \in sites : WebsiteGot(s) = ShownSite(w)
    /\ \A v, w \in posted \cup put : v.ID = w.ID => v = w

Mirrored ==
    /\ SentTypeOK
    /\ GroupsMirrored(device.groups, sent.groups, sent.putGroups)
    /\ SitesMirrored(device.sites, sent.sites, sent.putSites)

\* The fields by which they are found, and those that are overridden.
LEMMA ShownGroupForm ==
    ASSUME NEW w \in WebGroup
    PROVE  /\ ShownGroup(w) = [ID |-> w.ID, Name |-> w.Name, HrefDomain |-> w.HrefDomain,
                               TransformMod |-> TransformModType64, ClusterID |-> DefaultClusterID,
                               UpdateSwithcher |-> w.UpdateSwithcher, Rules |-> w.Rules]
           /\ ShownGroup(w).ID = w.ID
<1>1. w = [ID |-> w.ID, Name |-> w.Name, HrefDomain |-> w.HrefDomain,
           TransformMod |-> w.TransformMod, ClusterID |-> w.ClusterID,
           UpdateSwithcher |-> w.UpdateSwithcher, Rules |-> w.Rules]
  BY DEF WebGroup
<1> DEFINE moved == [w EXCEPT !.TransformMod = TransformModType64]
<1>2. moved = [ID |-> w.ID, Name |-> w.Name, HrefDomain |-> w.HrefDomain,
               TransformMod |-> TransformModType64, ClusterID |-> w.ClusterID,
               UpdateSwithcher |-> w.UpdateSwithcher, Rules |-> w.Rules]
  BY <1>1
<1>3. ShownGroup(w) = [moved EXCEPT !.ClusterID = DefaultClusterID]
  BY DEF ShownGroup
<1> HIDE DEF moved
<1>. QED
  BY <1>2, <1>3

LEMMA ShownSiteForm ==
    ASSUME NEW w \in Website
    PROVE  /\ ShownSite(w) =
                [ID |-> w.ID, GroupID |-> w.GroupID, SourceDomain |-> w.SourceDomain,
                 DestDomain |-> w.DestDomain, VirtualIP |-> w.VirtualIP,
                 ProtocolPorts |-> w.ProtocolPorts, HrefDomain |-> w.HrefDomain,
                 TransferMod |-> TransformModType64]
           /\ ShownSite(w).ID = w.ID /\ ShownSite(w).GroupID = w.GroupID
           /\ ShownSite(w).VirtualIP = w.VirtualIP
  BY DEF Website, ShownSite

LEMMA GotFields ==
    /\ \A g : WebGroupGot(g).ID = g.StrgroupId
    /\ \A s : /\ WebsiteGot(s).ID = s.StrdomainId /\ WebsiteGot(s).GroupID = s.StrgroupId
              /\ WebsiteGot(s).VirtualIP = s.StripAddr
  BY DEF WebGroupGot, WebsiteGot

\* What is read of a device is of the resources' types.
LEMMA GotTypes ==
    /\ \A g \in GroupInfo : WebGroupGot(g) \in WebGroup
    /\ \A s \in WebsiteReqInfo : WebsiteGot(s) \in Website
<1>1. ASSUME NEW g \in GroupInfo PROVE WebGroupGot(g) \in WebGroup
  <2> DEFINE rules == [i \in DOMAIN g.Rule |-> RuleGot(g.Rule[i])]
             switch == [IsCacheOn |-> g.FuncSwitcher.Binet6Cache,
                        IsHttpsToHttpOn |-> g.FuncSwitcher.BhttpsToHttp,
                        IsReplaceHrefOn |-> g.FuncSwitcher.BreplaceHref]
  <2>1. rules \in Seq(Rule)
    <3>1. g.Rule \in Seq(RuleInfo)
      BY DEF GroupInfo
    <3>2. \A v \in RuleInfo : RuleGot(v) \in Rule
      BY DEF RuleInfo, RuleGot, Rule
    <3>. QED
      BY <3>1, <3>2
  <2>2. switch \in UpdateSwitch
    BY DEF GroupInfo, FuncSwitcherInfo, UpdateSwitch
  <2>3. WebGroupGot(g) =
          [ID |-> g.StrgroupId, Name |-> g.StrgroupName, HrefDomain |-> g.StrgroupHrefDomain,
           TransformMod |-> g.ItransformMod, ClusterID |-> g.StrclusterId,
           UpdateSwithcher |-> switch, Rules |-> rules]
    BY DEF WebGroupGot
  <2> HIDE DEF rules, switch
  <2>. QED
    BY <2>1, <2>2, <2>3 DEF GroupInfo, WebGroup
<1>2. ASSUME NEW s \in WebsiteReqInfo PROVE WebsiteGot(s) \in Website
  <2> DEFINE ports == [i \in DOMAIN s.ProtocolMap |-> PortGot(s.ProtocolMap[i])]
  <2>1. ports \in Seq(ProtocolPort)
    <3>1. s.ProtocolMap \in Seq(ProtocolMap)
      BY DEF WebsiteReqInfo
    <3>2. \A v \in ProtocolMap : PortGot(v) \in ProtocolPort
      BY DEF ProtocolMap, PortGot, ProtocolPort
    <3>. QED
      BY <3>1, <3>2
  <2>2. WebsiteGot(s) =
          [ID |-> s.StrdomainId, GroupID |-> s.StrgroupId, SourceDomain |-> s.StrsrcDomain,
           DestDomain |-> s.StrdstDomain, VirtualIP |-> s.StripAddr, ProtocolPorts |-> ports,
           HrefDomain |-> s.StrwebsiteHrefDomain, TransferMod |-> s.I64Mod]
    BY DEF WebsiteGot
  <2> HIDE DEF ports
  <2>. QED
    BY <2>1, <2>2 DEF WebsiteReqInfo, Website
<1>. QED
  BY <1>1, <1>2

\* A group and its mirror image have one id, and so have a site and its.
LEMMA MirrorIds ==
    /\ \A g, w : w \in WebGroup /\ WebGroupGot(g) = ShownGroup(w) => g.StrgroupId = w.ID
    /\ \A s, w : w \in Website /\ WebsiteGot(s) = ShownSite(w) =>
                 s.StrdomainId = w.ID /\ s.StrgroupId = w.GroupID
<1>1. ASSUME NEW g, NEW w, w \in WebGroup, WebGroupGot(g) = ShownGroup(w) PROVE g.StrgroupId = w.ID
  BY <1>1, GotFields, ShownGroupForm
<1>2. ASSUME NEW s, NEW w, w \in Website, WebsiteGot(s) = ShownSite(w)
      PROVE  s.StrdomainId = w.ID /\ s.StrgroupId = w.GroupID
  BY <1>2, GotFields, ShownSiteForm
<1>. QED
  BY <1>1, <1>2

\* At the beginning: what the device has is what was sent.
LEMMA InitMirrored == Init => Mirrored
<1> SUFFICES ASSUME Init PROVE Mirrored
  OBVIOUS
<1>1. /\ sent = [groups |-> {WebGroupGot(g) : g \in device.groups}, putGroups |-> {},
                 sites |-> {WebsiteGot(s) : s \in device.sites}, putSites |-> {}]
      /\ device \in DeviceState /\ Keyed(device) /\ MadeByHandlers(device)
  BY BusinessAssumption DEF Init
<1>2. device.groups \subseteq GroupInfo /\ device.sites \subseteq WebsiteReqInfo
  BY <1>1 DEF DeviceState
<1>3. SentTypeOK
  BY <1>1, <1>2, GotTypes DEF SentTypeOK
<1>4. ASSUME NEW g \in device.groups PROVE ShownGroup(WebGroupGot(g)) = WebGroupGot(g)
  <2>1. WebGroupGot(g) \in WebGroup
    BY <1>2, GotTypes
  <2>2. WebGroupGot(g).TransformMod = TransformModType64 /\ WebGroupGot(g).ClusterID = DefaultClusterID
    BY <1>1 DEF MadeByHandlers, WebGroupGot
  <2> DEFINE w == WebGroupGot(g)
  <2> HIDE DEF w
  <2>3. w \in WebGroup /\ w.TransformMod = TransformModType64 /\ w.ClusterID = DefaultClusterID
    BY <2>1, <2>2 DEF w
  <2>4. ShownGroup(w) = [ID |-> w.ID, Name |-> w.Name, HrefDomain |-> w.HrefDomain,
                         TransformMod |-> w.TransformMod, ClusterID |-> w.ClusterID,
                         UpdateSwithcher |-> w.UpdateSwithcher, Rules |-> w.Rules]
    BY <2>3, ShownGroupForm
  <2>5. ShownGroup(w) = w
    BY <2>3, <2>4 DEF WebGroup
  <2>. QED
    BY <2>5 DEF w
<1>5. ASSUME NEW s \in device.sites PROVE ShownSite(WebsiteGot(s)) = WebsiteGot(s)
  <2>1. WebsiteGot(s) \in Website
    BY <1>2, GotTypes
  <2>2. WebsiteGot(s).TransferMod = TransformModType64
    BY <1>1 DEF MadeByHandlers, WebsiteGot
  <2> DEFINE w == WebsiteGot(s)
  <2> HIDE DEF w
  <2>3. w \in Website /\ w.TransferMod = TransformModType64
    BY <2>1, <2>2 DEF w
  <2>4. ShownSite(w) = w
    BY <2>3 DEF ShownSite, Website
  <2>. QED
    BY <2>4 DEF w
<1>6. GroupsMirrored(device.groups, sent.groups, sent.putGroups)
  BY <1>1, <1>4 DEF GroupsMirrored
<1>7. \A v, w \in sent.sites \cup sent.putSites : v.ID = w.ID => v = w
  <2> SUFFICES ASSUME NEW v \in sent.sites, NEW w \in sent.sites, v.ID = w.ID PROVE v = w
    BY <1>1
  <2>1. PICK s \in device.sites : v = WebsiteGot(s)
    BY <1>1
  <2>2. PICK t \in device.sites : w = WebsiteGot(t)
    BY <1>1
  <2>3. s.StrdomainId = t.StrdomainId
    BY <2>1, <2>2, GotFields
  <2>. QED
    BY <1>1, <2>1, <2>2, <2>3 DEF Keyed
<1>8. SitesMirrored(device.sites, sent.sites, sent.putSites)
  BY <1>1, <1>5, <1>7 DEF SitesMirrored
<1>. QED
  BY <1>3, <1>6, <1>8 DEF Mirrored

LEMMA MirrorUnchanged ==
    ASSUME Mirrored, UNCHANGED <<device.groups, device.sites, sent>>
    PROVE  Mirrored'
  BY DEF Mirrored, SentTypeOK

\* A request that was not done leaves the device alone, whatever its code.
LEMMA NotDone ==
    ASSUME NEW req, NEW reply
    PROVE  /\ OptRaltGroup(req, reply, FALSE) => UNCHANGED device
           /\ OptRaltWebsite(req, reply, FALSE) => UNCHANGED device
  BY DEF OptRaltGroup, OptRaltWebsite

\* One group is sent, by POST or PUT: what is under other ids stays, on the device and in
\* what was sent.
LEMMA GroupReplaced ==
    ASSUME NEW groups, NEW posted \in SUBSET WebGroup, NEW put \in SUBSET WebGroup,
           GroupsMirrored(groups, posted, put),
           NEW w \in WebGroup, NEW new, WebGroupGot(new) = ShownGroup(w),
           NEW groups2, NEW posted2, NEW put2,
           {g \in groups : g.StrgroupId # w.ID} \subseteq groups2,
           groups2 \subseteq {g \in groups : g.StrgroupId # w.ID} \cup {new},
           posted2 \cup put2 = Others(posted \cup put, w.ID) \cup {w},
           posted2 \subseteq Others(posted, w.ID) \cup {w},
           w \in posted2 => new \in groups2
    PROVE  GroupsMirrored(groups2, posted2, put2)
<1>1. ASSUME NEW g \in groups2 PROVE \E v \in posted2 \cup put2 : WebGroupGot(g) = ShownGroup(v)
  <2>1. CASE g = new
    BY <2>1
  <2>2. CASE g # new
    <3>1. g \in groups /\ g.StrgroupId # w.ID
      BY <2>2
    <3>2. PICK v \in posted \cup put : WebGroupGot(g) = ShownGroup(v)
      BY <3>1 DEF GroupsMirrored
    <3>3. v \in WebGroup
      OBVIOUS
    <3>4. v.ID # w.ID
      BY <3>1, <3>2, <3>3, MirrorIds
    <3>. QED
      BY <3>2, <3>4 DEF Others
  <2>. QED
    BY <2>1, <2>2
<1>2. ASSUME NEW v \in posted2 PROVE \E g \in groups2 : WebGroupGot(g) = ShownGroup(v)
  <2>1. CASE v = w
    BY <2>1
  <2>2. CASE v # w
    <3>1. v \in posted /\ v.ID # w.ID /\ v \in WebGroup
      BY <2>2 DEF Others
    <3>2. PICK g \in groups : WebGroupGot(g) = ShownGroup(v)
      BY <3>1 DEF GroupsMirrored
    <3>3. g.StrgroupId # w.ID
      BY <3>1, <3>2, MirrorIds
    <3>. QED
      BY <3>2, <3>3
  <2>. QED
    BY <2>1, <2>2
<1>. QED
  BY <1>1, <1>2 DEF GroupsMirrored

LEMMA GroupDropped ==
    ASSUME NEW groups, NEW posted \in SUBSET WebGroup, NEW put \in SUBSET WebGroup,
           GroupsMirrored(groups, posted, put), NEW id
    PROVE  GroupsMirrored({g \in groups : g.StrgroupId # id}, Others(posted, id), Others(put, id))
<1> DEFINE kept == {g \in groups : g.StrgroupId # id}
<1>1. ASSUME NEW g \in kept
      PROVE  \E v \in Others(posted, id) \cup Others(put, id) : WebGroupGot(g) = ShownGroup(v)
  <2>1. PICK v \in posted \cup put : WebGroupGot(g) = ShownGroup(v)
    BY DEF GroupsMirrored
  <2>2. v \in WebGroup
    OBVIOUS
  <2>3. v.ID # id
    BY <2>1, <2>2, MirrorIds
  <2>. QED
    BY <2>1, <2>3 DEF Others
<1>2. ASSUME NEW v \in Others(posted, id) PROVE \E g \in kept : WebGroupGot(g) = ShownGroup(v)
  <2>1. v \in posted /\ v.ID # id /\ v \in WebGroup
    BY DEF Others
  <2>2. PICK g \in groups : WebGroupGot(g) = ShownGroup(v)
    BY <2>1 DEF GroupsMirrored
  <2>3. g.StrgroupId # id
    BY <2>1, <2>2, MirrorIds
  <2>. QED
    BY <2>2, <2>3
<1>. QED
  BY <1>1, <1>2 DEF GroupsMirrored

\* The sites of the other groups.
OutsideOf(sites, id) == {s \in sites : s.StrgroupId # id}

\* Sites of one group may go, and are no longer known to be there.
LEMMA SitesMayGo ==
    ASSUME NEW sites, NEW posted \in SUBSET Website, NEW put \in SUBSET Website,
           SitesMirrored(sites, posted, put), NEW id, NEW sites2, NEW posted2, NEW put2,
           OutsideOf(sites, id) \subseteq sites2, sites2 \subseteq sites,
           posted2 \subseteq posted, \A w \in posted2 : w.GroupID # id,
           posted2 \cup put2 = posted \cup put
    PROVE  SitesMirrored(sites2, posted2, put2)
<1>1. ASSUME NEW w \in posted2 PROVE \E s \in sites2 : WebsiteGot(s) = ShownSite(w)
  <2>1. w \in posted /\ w.GroupID # id /\ w \in Website
    OBVIOUS
  <2>2. PICK s \in sites : WebsiteGot(s) = ShownSite(w)
    BY <2>1 DEF SitesMirrored
  <2>3. s.StrgroupId # id
    BY <2>1, <2>2, MirrorIds
  <2>. QED
    BY <2>2, <2>3 DEF OutsideOf
<1>. QED
  BY <1>1 DEF SitesMirrored

\* They do go, and are forgotten.
LEMMA SitesGo ==
    ASSUME NEW sites, NEW posted \in SUBSET Website, NEW put \in SUBSET Website,
           SitesMirrored(sites, posted, put), NEW id, NEW sites2, NEW posted2, NEW put2,
           OutsideOf(sites, id) \subseteq sites2, sites2 \subseteq sites,
           \A s \in sites2 : s.StrgroupId # id,
           posted2 \subseteq posted, \A w \in posted2 : w.GroupID # id,
           posted2 \cup put2 \subseteq posted \cup put,
           \A w \in posted \cup put : w.GroupID # id => w \in posted2 \cup put2
    PROVE  SitesMirrored(sites2, posted2, put2)
<1>1. ASSUME NEW s \in sites2, WebsiteGot(s) # NoWebsite(s.StrdomainId)
      PROVE  \E w \in posted2 \cup put2 : WebsiteGot(s) = ShownSite(w)
  <2>1. PICK w \in posted \cup put : WebsiteGot(s) = ShownSite(w)
    BY <1>1 DEF SitesMirrored
  <2>2. w \in Website
    OBVIOUS
  <2>3. w.GroupID # id
    BY <2>1, <2>2, MirrorIds
  <2>. QED
    BY <2>1, <2>3
<1>2. ASSUME NEW w \in posted2 PROVE \E s \in sites2 : WebsiteGot(s) = ShownSite(w)
  <2>1. w \in posted /\ w.GroupID # id /\ w \in Website
    OBVIOUS
  <2>2. PICK s \in sites : WebsiteGot(s) = ShownSite(w)
    BY <2>1 DEF SitesMirrored
  <2>3. s.StrgroupId # id
    BY <2>1, <2>2, MirrorIds
  <2>. QED
    BY <2>2, <2>3 DEF OutsideOf
<1>3. \A v, w \in posted2 \cup put2 : v.ID = w.ID => v = w
  BY DEF SitesMirrored
<1>. QED
  BY <1>1, <1>2, <1>3 DEF SitesMirrored

\* One site is sent, by POST, PUT or DELETE.
LEMMA SiteReplaced ==
    ASSUME NEW sites, NEW posted \in SUBSET Website, NEW put \in SUBSET Website,
           SitesMirrored(sites, posted, put), NEW id, NEW new,
           NEW sites2, NEW posted2, NEW put2, NEW sentNow,
           {s \in sites : s.StrdomainId # id} \subseteq sites2,
           sites2 \subseteq {s \in sites : s.StrdomainId # id} \cup {new},
           posted2 \cup put2 = Others(posted \cup put, id) \cup sentNow,
           posted2 \subseteq Others(posted, id) \cup sentNow,
           \A w \in sentNow : w.ID = id /\ WebsiteGot(new) = ShownSite(w),
           \A v, w \in sentNow : v = w,
           sentNow = {} => WebsiteGot(new) = NoWebsite(new.StrdomainId),
           posted2 \cap sentNow # {} => new \in sites2
    PROVE  SitesMirrored(sites2, posted2, put2)
<1>1. ASSUME NEW s \in sites2
      PROVE  \/ WebsiteGot(s) = NoWebsite(s.StrdomainId)
             \/ \E w \in posted2 \cup put2 : WebsiteGot(s) = ShownSite(w)
  <2>1. CASE s = new
    BY <2>1
  <2>2. CASE s # new /\ WebsiteGot(s) # NoWebsite(s.StrdomainId)
    <3>1. s \in sites /\ s.StrdomainId # id
      BY <2>2
    <3>2. PICK v \in posted \cup put : WebsiteGot(s) = ShownSite(v)
      BY <2>2, <3>1 DEF SitesMirrored
    <3>3. v \in Website
      OBVIOUS
    <3>4. v.ID # id
      BY <3>1, <3>2, <3>3, MirrorIds
    <3>. QED
      BY <3>2, <3>4 DEF Others
  <2>. QED
    BY <2>1, <2>2
<1>2. ASSUME NEW v \in posted2 PROVE \E s \in sites2 : WebsiteGot(s) = ShownSite(v)
  <2>1. CASE v \in sentNow
    BY <2>1
  <2>2. CASE v \notin sentNow
    <3>1. v \in posted /\ v.ID # id /\ v \in Website
      BY <2>2 DEF Others
    <3>2. PICK s \in sites : WebsiteGot(s) = ShownSite(v)
      BY <3>1 DEF SitesMirrored
    <3>3. s.StrdomainId # id
      BY <3>1, <3>2, MirrorIds
    <3>. QED
      BY <3>2, <3>3
  <2>. QED
    BY <2>1, <2>2
<1>3. ASSUME NEW v \in posted2 \cup put2, NEW w \in posted2 \cup put2, v.ID = w.ID PROVE v = w
  <2>1. \/ v \in sentNow
        \/ v \in posted \cup put /\ v.ID # id
    BY DEF Others
  <2>2. \/ w \in sentNow
        \/ w \in posted \cup put /\ w.ID # id
    BY DEF Others
  <2>. QED
    BY <1>3, <2>1, <2>2 DEF SitesMirrored
<1>. QED
  BY <1>1, <1>2, <1>3 DEF SitesMirrored

\* The fields of what was sent, after a request that names a group or a site.
LEMMA SentFields ==
    ASSUME SentTypeOK, NEW a, NEW b
    PROVE  /\ [sent EXCEPT !.groups = a, !.putGroups = b] =
                [groups |-> a, putGroups |-> b, sites |-> sent.sites, putSites |-> sent.putSites]
           /\ [sent EXCEPT !.sites = a, !.putSites = b] =
                [groups |-> sent.groups, putGroups |-> sent.putGroups, sites |-> a, putSites |-> b]
<1> DEFINE c == [sent EXCEPT !.groups = a]
           d == [sent EXCEPT !.sites = a]
<1>1. /\ c = [groups |-> a, putGroups |-> sent.putGroups,
              sites |-> sent.sites, putSites |-> sent.putSites]
      /\ d = [groups |-> sent.groups, putGroups |-> sent.putGroups,
              sites |-> a, putSites |-> sent.putSites]
  BY DEF SentTypeOK
<1> HIDE DEF c, d
<1>2. [c EXCEPT !.putGroups = b] =
        [groups |-> a, putGroups |-> b, sites |-> sent.sites, putSites |-> sent.putSites]
  BY <1>1
<1>3. [d EXCEPT !.putSites = b] =
        [groups |-> sent.groups, putGroups |-> sent.putGroups, sites |-> a, putSites |-> b]
  BY <1>1
<1>. QED
  BY ONLY <1>2, <1>3 DEF c, d

\* A group is created: POST carries the device's code of an addition.
LEMMA PostGroupMirrored ==
    ASSUME device \in DeviceState, Mirrored, NEW webGroup \in WebGroup, NEW reply,
           OptRaltGroup(WebGroupReq(OperTypeCreate, webGroup), reply, TRUE),
           sent' = GroupPosted(webGroup)
    PROVE  Mirrored'
<1> DEFINE req == WebGroupReq(OperTypeCreate, webGroup)
           new == GroupOf(req)
           kept == {g \in device.groups : g.StrgroupId # webGroup.ID}
<1>1. WebGroupGot(new) = ShownGroup(webGroup)
  BY Numbers32, GroupRoundTrip DEF ShownGroup, OperTypeCreate
<1>2. req.StrgroupId = webGroup.ID /\ req.Iopt = AddCode /\ OptRaltGroup(req, reply, TRUE)
  BY BusinessAssumption DEF WebGroupReq
<1>a. new = GroupOf(req)
  OBVIOUS
<1> HIDE DEF req, new
<1>3. device'.groups = kept \cup {new} /\ device'.sites = device.sites
  <2>1. OptRaltGroup(req, reply, TRUE)
    BY <1>2
  <2>2. \/ req.Iopt = DeleteCode
        \/ /\ device'.groups = {g \in device.groups : g.StrgroupId # req.StrgroupId} \cup {new}
           /\ device'.sites = device.sites
    BY <2>1, <1>a, CodesDiffer DEF OptRaltGroup, GroupCanDo, DeviceState
  <2>. QED
    BY <1>2, <2>2, CodesDiffer
<1>4. /\ sent'.groups = Others(sent.groups, webGroup.ID) \cup {webGroup}
      /\ sent'.putGroups = Others(sent.putGroups, webGroup.ID)
      /\ sent'.sites = sent.sites /\ sent'.putSites = sent.putSites
      /\ SentTypeOK'
  <2>1. sent' = [groups |-> Others(sent.groups, webGroup.ID) \cup {webGroup},
                 putGroups |-> Others(sent.putGroups, webGroup.ID),
                 sites |-> sent.sites, putSites |-> sent.putSites]
    BY SentFields DEF Mirrored, GroupPosted
  <2>. QED
    BY <2>1 DEF Mirrored, SentTypeOK, Others
<1>5. /\ GroupsMirrored(device.groups, sent.groups, sent.putGroups)
      /\ sent.groups \in SUBSET WebGroup /\ sent.putGroups \in SUBSET WebGroup
  BY DEF Mirrored, SentTypeOK
<1>6. sent'.groups \cup sent'.putGroups =
        Others(sent.groups \cup sent.putGroups, webGroup.ID) \cup {webGroup}
  BY <1>4 DEF Others
<1>7. GroupsMirrored(device'.groups, sent'.groups, sent'.putGroups)
  BY <1>1, <1>3, <1>4, <1>5, <1>6, GroupReplaced
<1>. QED
  BY <1>3, <1>4, <1>7 DEF Mirrored

\* A group is updated: it is there as it was sent or, with its sites, not at all.
LEMMA PutGroupMirrored ==
    ASSUME device \in DeviceState, Mirrored, NEW webGroup \in WebGroup, NEW reply,
           OptRaltGroup(WebGroupReq(OperTypeModify, webGroup), reply, TRUE),
           sent' = GroupPut(webGroup)
    PROVE  Mirrored'
<1> DEFINE req == WebGroupReq(OperTypeModify, webGroup)
           new == GroupOf(req)
           kept == {g \in device.groups : g.StrgroupId # webGroup.ID}
           rest == {s \in device.sites : s.StrgroupId # webGroup.ID}
<1>1. WebGroupGot(new) = ShownGroup(webGroup)
  BY Numbers32, GroupRoundTrip DEF ShownGroup, OperTypeModify
<1>2. req.StrgroupId = webGroup.ID /\ OptRaltGroup(req, reply, TRUE)
  BY DEF WebGroupReq
<1>a. new = GroupOf(req)
  OBVIOUS
<1> HIDE DEF req, new
<1>3. /\ kept \subseteq device'.groups /\ device'.groups \subseteq kept \cup {new}
      /\ rest \subseteq device'.sites /\ device'.sites \subseteq device.sites
  <2>1. OptRaltGroup(req, reply, TRUE)
    BY <1>2
  <2>2. \/ /\ device'.groups = {g \in device.groups : g.StrgroupId # req.StrgroupId}
           /\ device'.sites = {s \in device.sites : s.StrgroupId # req.StrgroupId}
        \/ /\ device'.groups = {g \in device.groups : g.StrgroupId # req.StrgroupId} \cup {new}
           /\ device'.sites = device.sites
    BY <2>1, <1>a, CodesDiffer DEF OptRaltGroup, GroupCanDo, DeviceState
  <2>. QED
    BY <1>2, <2>2
<1>4. /\ sent'.groups = Others(sent.groups, webGroup.ID)
      /\ sent'.putGroups = Others(sent.putGroups, webGroup.ID) \cup {webGroup}
      /\ sent'.sites = {s \in sent.sites : s.GroupID # webGroup.ID}
      /\ sent'.putSites = sent.putSites \cup {s \in sent.sites : s.GroupID = webGroup.ID}
  BY DEF GroupPut
<1>5. /\ GroupsMirrored(device.groups, sent.groups, sent.putGroups)
      /\ SitesMirrored(device.sites, sent.sites, sent.putSites)
      /\ sent.groups \in SUBSET WebGroup /\ sent.putGroups \in SUBSET WebGroup
      /\ sent.sites \in SUBSET Website /\ sent.putSites \in SUBSET Website
  BY DEF Mirrored, SentTypeOK
<1>6. SentTypeOK'
  <2>1. sent' = [groups |-> sent'.groups, putGroups |-> sent'.putGroups,
                 sites |-> sent'.sites, putSites |-> sent'.putSites]
    BY DEF GroupPut
  <2>. QED
    BY <1>4, <1>5, <2>1 DEF SentTypeOK, Others
<1>7. sent'.groups \cup sent'.putGroups =
        Others(sent.groups \cup sent.putGroups, webGroup.ID) \cup {webGroup}
  BY <1>4 DEF Others
<1>8. webGroup \notin sent'.groups /\ sent'.groups \subseteq Others(sent.groups, webGroup.ID) \cup {webGroup}
  BY <1>4 DEF Others
<1>9. sent'.sites \cup sent'.putSites = sent.sites \cup sent.putSites
  BY <1>4
<1>10. GroupsMirrored(device'.groups, sent'.groups, sent'.putGroups)
  BY <1>1, <1>3, <1>5, <1>7, <1>8, GroupReplaced
<1>11. SitesMirrored(device'.sites, sent'.sites, sent'.putSites)
  <2>1. /\ \A s \in device.sites : s.StrgroupId # webGroup.ID => s \in device'.sites
        /\ device'.sites \subseteq device.sites
        /\ sent'.sites \subseteq sent.sites /\ \A w \in sent'.sites : w.GroupID # webGroup.ID
    BY <1>3, <1>4
  <2>2. /\ SitesMirrored(device.sites, sent.sites, sent.putSites)
        /\ sent.sites \in SUBSET Website /\ sent.putSites \in SUBSET Website
    BY <1>5
  <2> DEFINE there == device'.sites
             posted == sent'.sites
             put == sent'.putSites
  <2>3. /\ OutsideOf(device.sites, webGroup.ID) \subseteq there /\ there \subseteq device.sites
        /\ posted \subseteq sent.sites /\ \A w \in posted : w.GroupID # webGroup.ID
        /\ posted \cup put = sent.sites \cup sent.putSites
    BY <1>9, <2>1 DEF OutsideOf
  <2> HIDE DEF there, posted, put
  <2>4. SitesMirrored(there, posted, put)
    BY <2>2, <2>3, SitesMayGo
  <2>. QED
    BY <2>4 DEF there, posted, put
<1>. QED
  BY <1>6, <1>10, <1>11 DEF Mirrored

\* A group is deleted: the request says nothing of it, and a device can do no more with it
\* than to remove the group, with its sites.
LEMMA DeleteGroupMirrored ==
    ASSUME device \in DeviceState, Mirrored, NEW id, NEW reply,
           OptRaltGroup(DeleteWebGroupReq(id), reply, TRUE), sent' = GroupDeleted(id)
    PROVE  Mirrored'
<1> DEFINE req == DeleteWebGroupReq(id)
<1>1. req.StrgroupId = id /\ req.FuncSwitcher = Nil /\ OptRaltGroup(req, reply, TRUE)
  BY DEF DeleteWebGroupReq
<1> HIDE DEF req
<1>2. /\ device'.groups = {g \in device.groups : g.StrgroupId # id}
      /\ device'.sites = {s \in device.sites : s.StrgroupId # id}
  <2>1. OptRaltGroup(req, reply, TRUE)
    BY <1>1
  <2>2. \/ req.FuncSwitcher # Nil
        \/ /\ device'.groups = {g \in device.groups : g.StrgroupId # req.StrgroupId}
           /\ device'.sites = {s \in device.sites : s.StrgroupId # req.StrgroupId}
    BY <2>1, CodesDiffer DEF OptRaltGroup, GroupCanDo, DeviceState
  <2>. QED
    BY <1>1, <2>2
<1>3. /\ sent'.groups = Others(sent.groups, id) /\ sent'.putGroups = Others(sent.putGroups, id)
      /\ sent'.sites = {s \in sent.sites : s.GroupID # id}
      /\ sent'.putSites = {s \in sent.putSites : s.GroupID # id}
      /\ sent' = [groups |-> sent'.groups, putGroups |-> sent'.putGroups,
                  sites |-> sent'.sites, putSites |-> sent'.putSites]
  BY DEF GroupDeleted
<1>4. /\ GroupsMirrored(device.groups, sent.groups, sent.putGroups)
      /\ SitesMirrored(device.sites, sent.sites, sent.putSites)
      /\ sent.groups \in SUBSET WebGroup /\ sent.putGroups \in SUBSET WebGroup
      /\ sent.sites \in SUBSET Website /\ sent.putSites \in SUBSET Website
  BY DEF Mirrored, SentTypeOK
<1>5. SentTypeOK'
  BY <1>3, <1>4 DEF SentTypeOK, Others
<1>6. GroupsMirrored(device'.groups, sent'.groups, sent'.putGroups)
  BY <1>2, <1>3, <1>4, GroupDropped
<1>7. SitesMirrored(device'.sites, sent'.sites, sent'.putSites)
  <2>1. /\ \A s \in device.sites : s.StrgroupId # id => s \in device'.sites
        /\ device'.sites \subseteq device.sites /\ \A s \in device'.sites : s.StrgroupId # id
    BY <1>2
  <2>2. /\ sent'.sites \subseteq sent.sites /\ \A w \in sent'.sites : w.GroupID # id
        /\ sent'.sites \cup sent'.putSites \subseteq sent.sites \cup sent.putSites
        /\ \A w \in sent.sites \cup sent.putSites :
             w.GroupID # id => w \in sent'.sites \cup sent'.putSites
    BY <1>3
  <2> DEFINE there == device'.sites
             posted == sent'.sites
             put == sent'.putSites
  <2>3. /\ SitesMirrored(device.sites, sent.sites, sent.putSites)
        /\ sent.sites \in SUBSET Website /\ sent.putSites \in SUBSET Website
    BY <1>4
  <2>4. /\ OutsideOf(device.sites, id) \subseteq there
        /\ there \subseteq device.sites /\ \A s \in there : s.StrgroupId # id
        /\ posted \subseteq sent.sites /\ \A w \in posted : w.GroupID # id
        /\ posted \cup put \subseteq sent.sites \cup sent.putSites
        /\ \A w \in sent.sites \cup sent.putSites : w.GroupID # id => w \in posted \cup put
    BY <2>1, <2>2 DEF OutsideOf
  <2> HIDE DEF there, posted, put
  <2>5. SitesMirrored(there, posted, put)
    BY <2>3, <2>4, SitesGo
  <2>. QED
    BY <2>5 DEF there, posted, put
<1>. QED
  BY <1>5, <1>6, <1>7 DEF Mirrored

\* A site is created or updated.
LEMMA SiteSentMirrored ==
    ASSUME device \in DeviceState, Mirrored, NEW website \in Website, NEW address \in Text,
           NEW opt \in Int32, NEW reply,
           OptRaltWebsite(WebsiteReq(opt, website, address), reply, TRUE),
           \/ opt = AddCode /\ sent' = SitePosted(website)
           \/ sent' = SitePut(website)
    PROVE  Mirrored'
<1> DEFINE req == WebsiteReq(opt, website, address)
           kept == {s \in device.sites : s.StrdomainId # website.ID}
<1>0. PICK new : req.Website = {new}
  BY WebsiteReqsNameOne
<1>1. /\ WebsiteGot(new) = ShownSite(website) /\ new.StrdomainId = website.ID
      /\ req.Iopt = opt /\ OptRaltWebsite(req, reply, TRUE)
  <2>1. new.StrdomainId = website.ID /\ req.Iopt = opt
    BY <1>0 DEF WebsiteReq
  <2>2. new \in req.Website
    BY <1>0
  <2>. QED
    BY <2>1, <2>2, SiteRoundTrip DEF ShownSite
<1> HIDE DEF req
<1>2. /\ device'.groups = device.groups
      /\ kept \subseteq device'.sites /\ device'.sites \subseteq kept \cup {new}
      /\ opt = AddCode => new \in device'.sites
  <2>1. OptRaltWebsite(req, reply, TRUE)
    BY <1>1
  <2>2. /\ device'.groups = device.groups
        /\ \/ /\ req.Iopt = DeleteCode
              /\ device'.sites = {s \in device.sites : s.StrdomainId # new.StrdomainId}
           \/ device'.sites = {s \in device.sites : s.StrdomainId # new.StrdomainId} \cup {new}
    <3>1. {s \in device.sites : \A t \in req.Website : s.StrdomainId # t.StrdomainId} =
            {s \in device.sites : s.StrdomainId # new.StrdomainId}
      BY <1>0
    <3>. QED
      BY <1>0, <2>1, <3>1, CodesDiffer DEF OptRaltWebsite, SiteCanDo, DeviceState
  <2>. QED
    BY <1>1, <2>2, CodesDiffer
<1>3. /\ GroupsMirrored(device.groups, sent.groups, sent.putGroups)
      /\ SitesMirrored(device.sites, sent.sites, sent.putSites)
      /\ sent.groups \in SUBSET WebGroup /\ sent.putGroups \in SUBSET WebGroup
      /\ sent.sites \in SUBSET Website /\ sent.putSites \in SUBSET Website /\ SentTypeOK
  BY DEF Mirrored, SentTypeOK
<1>4. /\ sent'.groups = sent.groups /\ sent'.putGroups = sent.putGroups
      /\ sent'.sites \cup sent'.putSites =
           Others(sent.sites \cup sent.putSites, website.ID) \cup {website}
      /\ sent'.sites \subseteq Others(sent.sites, website.ID) \cup {website}
      /\ website \in sent'.sites => opt = AddCode
      /\ SentTypeOK'
  <2>1. CASE opt = AddCode /\ sent' = SitePosted(website)
    <3>1. sent' = [groups |-> sent.groups, putGroups |-> sent.putGroups,
                   sites |-> Others(sent.sites, website.ID) \cup {website},
                   putSites |-> Others(sent.putSites, website.ID)]
      BY <1>3, <2>1, SentFields DEF SitePosted
    <3>. QED
      BY <1>3, <2>1, <3>1 DEF SentTypeOK, Others
  <2>2. CASE sent' = SitePut(website)
    <3>1. sent' = [groups |-> sent.groups, putGroups |-> sent.putGroups,
                   sites |-> Others(sent.sites, website.ID),
                   putSites |-> Others(sent.putSites, website.ID) \cup {website}]
      BY <1>3, <2>2, SentFields DEF SitePut
    <3>. QED
      BY <1>3, <3>1 DEF SentTypeOK, Others
  <2>. QED
    BY <2>1, <2>2
<1>5. SitesMirrored(device'.sites, sent'.sites, sent'.putSites)
  <2> DEFINE sentNow == {website}
  <2>1. /\ \A w \in sentNow : w.ID = website.ID /\ WebsiteGot(new) = ShownSite(w)
        /\ \A v, w \in sentNow : v = w
        /\ sentNow # {}
        /\ sent'.sites \cap sentNow # {} => new \in device'.sites
    BY <1>1, <1>2, <1>4
  <2>2. /\ sent'.sites \cup sent'.putSites =
             Others(sent.sites \cup sent.putSites, website.ID) \cup sentNow
        /\ sent'.sites \subseteq Others(sent.sites, website.ID) \cup sentNow
    BY <1>4
  <2> HIDE DEF sentNow
  <2>. QED
    BY <1>2, <1>3, <2>1, <2>2, SiteReplaced
<1>. QED
  BY <1>2, <1>3, <1>4, <1>5 DEF Mirrored

\* A site is deleted, or keeps nothing but its id.
LEMMA DeleteSiteMirrored ==
    ASSUME device \in DeviceState, Mirrored, NEW id, NEW reply,
           OptRaltWebsite(DeleteWebsiteReq(id), reply, TRUE), sent' = SiteDeleted(id)
    PROVE  Mirrored'
<1> DEFINE req == DeleteWebsiteReq(id)
           kept == {s \in device.sites : s.StrdomainId # id}
<1>0. PICK new : req.Website = {new}
  BY WebsiteReqsNameOne
<1>1. /\ new.StrdomainId = id /\ WebsiteGot(new) = NoWebsite(new.StrdomainId)
      /\ OptRaltWebsite(req, reply, TRUE)
  <2>1. new = [StrdomainId |-> id, StrgroupId |-> Unset, StrsrcDomain |-> Unset,
               StrdstDomain |-> Unset, StrsrcIpAddr |-> Unset, StripAddr |-> Unset,
               ProtocolMap |-> <<>>, StrwebsiteHrefDomain |-> Unset, I64Mod |-> 0]
    BY <1>0 DEF DeleteWebsiteReq
  <2>2. [i \in DOMAIN <<>> |-> PortGot(<<>>[i])] = <<>>
    OBVIOUS
  <2>3. new.ProtocolMap = <<>>
    BY <2>1
  <2>4. [i \in DOMAIN new.ProtocolMap |-> PortGot(new.ProtocolMap[i])] = <<>>
    BY <2>2, <2>3
  <2>. QED
    BY <2>1, <2>4 DEF WebsiteGot, NoWebsite
<1> HIDE DEF req
<1>2. /\ device'.groups = device.groups
      /\ kept \subseteq device'.sites /\ device'.sites \subseteq kept \cup {new}
  <2>1. OptRaltWebsite(req, reply, TRUE)
    BY <1>1
  <2>2. /\ device'.groups = device.groups
        /\ \/ device'.sites = {s \in device.sites : s.StrdomainId # new.StrdomainId}
           \/ device'.sites = {s \in device.sites : s.StrdomainId # new.StrdomainId} \cup {new}
    <3>1. {s \in device.sites : \A t \in req.Website : s.StrdomainId # t.StrdomainId} =
            {s \in device.sites : s.StrdomainId # new.StrdomainId}
      BY <1>0
    <3>. QED
      BY <1>0, <2>1, <3>1, CodesDiffer DEF OptRaltWebsite, SiteCanDo, DeviceState
  <2>. QED
    BY <1>1, <2>2
<1>3. /\ GroupsMirrored(device.groups, sent.groups, sent.putGroups)
      /\ SitesMirrored(device.sites, sent.sites, sent.putSites)
      /\ sent.groups \in SUBSET WebGroup /\ sent.putGroups \in SUBSET WebGroup
      /\ sent.sites \in SUBSET Website /\ sent.putSites \in SUBSET Website /\ SentTypeOK
  BY DEF Mirrored, SentTypeOK
<1>4. /\ sent'.groups = sent.groups /\ sent'.putGroups = sent.putGroups
      /\ sent'.sites \cup sent'.putSites = Others(sent.sites \cup sent.putSites, id)
      /\ sent'.sites \subseteq Others(sent.sites, id)
      /\ SentTypeOK'
  <2>1. sent' = [groups |-> sent.groups, putGroups |-> sent.putGroups,
                 sites |-> Others(sent.sites, id), putSites |-> Others(sent.putSites, id)]
    BY <1>3, SentFields DEF SiteDeleted
  <2>. QED
    BY <1>3, <2>1 DEF SentTypeOK, Others
<1>5. SitesMirrored(device'.sites, sent'.sites, sent'.putSites)
  <2> DEFINE sentNow == {}
  <2>1. /\ sent'.sites \cup sent'.putSites = Others(sent.sites \cup sent.putSites, id) \cup sentNow
        /\ sent'.sites \subseteq Others(sent.sites, id) \cup sentNow
        /\ \A w \in sentNow : w.ID = id /\ WebsiteGot(new) = ShownSite(w)
        /\ \A v, w \in sentNow : v = w
        /\ sent'.sites \cap sentNow = {}
    BY <1>4
  <2> HIDE DEF sentNow
  <2>. QED
    BY <1>1, <1>2, <1>3, <2>1, SiteReplaced
<1>. QED
  BY <1>2, <1>3, <1>4, <1>5 DEF Mirrored

LEMMA ChangingMirrored ==
    ASSUME device \in DeviceState, Mirrored, NEW p \in Controllers, Changing(p)
    PROVE  Mirrored'
<1>0. /\ WebGroups \subseteq WebGroup /\ Websites \subseteq Website /\ Addresses \subseteq Text
      /\ OperTypeCreate \in Int32 /\ OperTypeModify \in Int32 /\ AddCode = OperTypeCreate
  BY BusinessAssumption, Numbers32 DEF OperTypeCreate, OperTypeModify
<1>1. CASE CreateCluster(p) \/ DeleteCluster(p) \/ ChangeNothing(p)
  <2>1. UNCHANGED sent
    BY <1>1 DEF CreateCluster, DeleteCluster, ChangeNothing
  <2>2. UNCHANGED <<device.groups, device.sites>>
    BY <1>1 DEF CreateCluster, DeleteCluster, ChangeNothing, SetCluster, DeviceState
  <2>. QED
    BY <2>1, <2>2, MirrorUnchanged
<1>2. CASE CreateWebGroup(p)
  <2>1. PICK webGroup \in WebGroups, reply \in Replies, done \in BOOLEAN :
          /\ OptRaltGroup(WebGroupReq(OperTypeCreate, webGroup), reply, done)
          /\ sent' = IF done THEN GroupPosted(webGroup) ELSE sent
    BY <1>2 DEF CreateWebGroup
  <2>. QED
    BY <1>0, <2>1, PostGroupMirrored, NotDone, MirrorUnchanged
<1>3. CASE UpdateWebGroup(p)
  <2>1. PICK webGroup \in WebGroups, reply \in Replies, done \in BOOLEAN :
          /\ OptRaltGroup(WebGroupReq(OperTypeModify, webGroup), reply, done)
          /\ sent' = IF done THEN GroupPut(webGroup) ELSE sent
    BY <1>3 DEF UpdateWebGroup
  <2>. QED
    BY <1>0, <2>1, PutGroupMirrored, NotDone, MirrorUnchanged
<1>4. CASE DeleteWebGroup(p)
  <2>1. PICK webGroup \in WebGroups, reply \in Replies, done \in BOOLEAN :
          /\ OptRaltGroup(DeleteWebGroupReq(webGroup.ID), reply, done)
          /\ sent' = IF done THEN GroupDeleted(webGroup.ID) ELSE sent
    BY <1>4 DEF DeleteWebGroup
  <2>. QED
    BY <2>1, DeleteGroupMirrored, NotDone, MirrorUnchanged
<1>5. ASSUME NEW method, NEW opt \in Int32, method = "POST" => opt = AddCode,
             OptWebsite(p, method, opt)
      PROVE  Mirrored'
  <2>1. PICK website \in Websites, reply \in Replies, done \in BOOLEAN :
          /\ \/ \E address \in Addresses :
                  OptRaltWebsite(WebsiteReq(opt, website, address), reply, done)
             \/ ~done /\ UNCHANGED device
          /\ sent' = CASE ~done -> sent
                       [] done /\ method = "POST" -> SitePosted(website)
                       [] done /\ method # "POST" -> SitePut(website)
    BY <1>5 DEF OptWebsite
  <2>2. CASE done
    <3>1. PICK address \in Addresses : OptRaltWebsite(WebsiteReq(opt, website, address), reply, TRUE)
      BY <2>1, <2>2
    <3>2. \/ opt = AddCode /\ sent' = SitePosted(website)
          \/ sent' = SitePut(website)
      BY <1>5, <2>1, <2>2
    <3>. QED
      BY <1>0, <1>5, <3>1, <3>2, SiteSentMirrored
  <2>3. CASE ~done
    <3>1. UNCHANGED <<device, sent>>
      BY <2>1, <2>3, NotDone
    <3>. QED
      BY <3>1, MirrorUnchanged
  <2>. QED
    BY <2>2, <2>3
<1>6. CASE CreateWebsite(p) \/ UpdateWebsite(p)
  BY <1>0, <1>5, <1>6 DEF CreateWebsite, UpdateWebsite
<1>7. CASE DeleteWebsite(p)
  <2>1. PICK website \in Websites, reply \in Replies, done \in BOOLEAN :
          /\ OptRaltWebsite(DeleteWebsiteReq(website.ID), reply, done)
          /\ sent' = IF done THEN SiteDeleted(website.ID) ELSE sent
    BY <1>7 DEF DeleteWebsite
  <2>. QED
    BY <2>1, DeleteSiteMirrored, NotDone, MirrorUnchanged
<1>. QED
  BY <1>1, <1>2, <1>3, <1>4, <1>6, <1>7 DEF Changing

LEMMA MirroredNext ==
    ASSUME TypeInv, Mirrored, [Next]_vars
    PROVE  Mirrored'
<1>0. device \in DeviceState
  BY DEF TypeInv, TypeOK, DeviceTypeOK
<1>1. ASSUME UNCHANGED vars \/ Passing PROVE UNCHANGED <<device, sent>>
  BY <1>1 DEF vars, history, Passing
<1>2. ASSUME NEW p \in Controllers, Starting(p)
      PROVE  UNCHANGED <<device.groups, device.sites, sent>>
  BY <1>0, <1>2 DEF Starting, QueryDefaultCluster, FreeHosts, SetDefaultCluster, SetCluster,
     DeviceState, history
<1>3. ASSUME NEW p \in Controllers, AuditLoggerHandler(p) \/ Crash(p)
      PROVE  UNCHANGED <<device, sent>>
  BY <1>3 DEF AuditLoggerHandler, Crash
<1>. QED
  BY <1>0, <1>1, <1>2, <1>3, ChangingMirrored, ReadingKeepsDevice, MirrorUnchanged DEF Next, Step

\* A site in the list of its group shows what a read of it shows, as far as it shows it.
LEMMA ListedIsGot ==
    ASSUME NEW id, NEW t, t.StrgroupId = id
    PROVE  [WebsiteListed([StrgroupId |-> id], t) EXCEPT !.VirtualIP = Unset] =
             [WebsiteGot(t) EXCEPT !.VirtualIP = Unset, !.HrefDomain = Unset, !.TransferMod = 0]
<1> DEFINE ports == [i \in DOMAIN t.ProtocolMap |-> PortGot(t.ProtocolMap[i])]
           listed == WebsiteListed([StrgroupId |-> id], t)
           got == WebsiteGot(t)
           a == [got EXCEPT !.VirtualIP = Unset]
           b == [a EXCEPT !.HrefDomain = Unset]
<1>1. listed = [ID |-> t.StrdomainId, GroupID |-> id, SourceDomain |-> t.StrsrcDomain,
                DestDomain |-> t.StrdstDomain, VirtualIP |-> t.StrsrcIpAddr,
                ProtocolPorts |-> ports, HrefDomain |-> Unset, TransferMod |-> 0]
  BY DEF WebsiteListed
<1>2. got = [ID |-> t.StrdomainId, GroupID |-> id, SourceDomain |-> t.StrsrcDomain,
             DestDomain |-> t.StrdstDomain, VirtualIP |-> t.StripAddr,
             ProtocolPorts |-> ports, HrefDomain |-> t.StrwebsiteHrefDomain, TransferMod |-> t.I64Mod]
  BY DEF WebsiteGot
<1> HIDE DEF ports, listed, got
<1>3. [listed EXCEPT !.VirtualIP = Unset] =
        [ID |-> t.StrdomainId, GroupID |-> id, SourceDomain |-> t.StrsrcDomain,
         DestDomain |-> t.StrdstDomain, VirtualIP |-> Unset,
         ProtocolPorts |-> ports, HrefDomain |-> Unset, TransferMod |-> 0]
  BY <1>1
<1>4. a = [ID |-> t.StrdomainId, GroupID |-> id, SourceDomain |-> t.StrsrcDomain,
           DestDomain |-> t.StrdstDomain, VirtualIP |-> Unset,
           ProtocolPorts |-> ports, HrefDomain |-> t.StrwebsiteHrefDomain, TransferMod |-> t.I64Mod]
  BY <1>2
<1> HIDE DEF a
<1>5. b = [ID |-> t.StrdomainId, GroupID |-> id, SourceDomain |-> t.StrsrcDomain,
           DestDomain |-> t.StrdstDomain, VirtualIP |-> Unset,
           ProtocolPorts |-> ports, HrefDomain |-> Unset, TransferMod |-> t.I64Mod]
  BY <1>4
<1> HIDE DEF b
<1>6. [b EXCEPT !.TransferMod = 0] =
        [ID |-> t.StrdomainId, GroupID |-> id, SourceDomain |-> t.StrsrcDomain,
         DestDomain |-> t.StrdstDomain, VirtualIP |-> Unset,
         ProtocolPorts |-> ports, HrefDomain |-> Unset, TransferMod |-> 0]
  BY <1>5
<1>. QED
  BY ONLY <1>3, <1>6 DEF listed, got, a, b

\* A read of a site shows the site of the device, or nothing but the id.
LEMMA SiteGot ==
    ASSUME DeviceKeyed, NEW id
    PROVE  /\ \A t \in device.sites : t.StrdomainId = id => GetWebsite(id) = {WebsiteGot(t)}
           /\ ~HasSite(id) => GetWebsite(id) = {NoWebsite(id)}
<1> DEFINE found == {u \in device.sites : u.StrdomainId = id}
<1>1. GetWebsite(id) = IF found = {} THEN {NoWebsite(id)} ELSE {WebsiteGot(u) : u \in found}
  BY DEF GetWebsite, GetRaltSpecWebsite
<1>2. ASSUME NEW t \in device.sites, t.StrdomainId = id PROVE found = {t}
  BY <1>2 DEF DeviceKeyed, Keyed
<1>3. ~HasSite(id) => found = {}
  BY DEF HasSite
<1> HIDE DEF found
<1>4. ASSUME NEW t \in device.sites, t.StrdomainId = id PROVE GetWebsite(id) = {WebsiteGot(t)}
  BY <1>1, <1>2, <1>4
<1>. QED
  BY <1>1, <1>3, <1>4

\* What a read of each kind answers then.
LEMMA MirrorShowsSites ==
    ASSUME device \in DeviceState, DeviceKeyed, Mirrored
    PROVE  /\ \A s \in sent.sites : GetWebsite(s.ID) = {ShownSite(s)}
           /\ \A s \in sent.putSites : GetWebsite(s.ID) \in {{ShownSite(s)}, {NoWebsite(s.ID)}}
           /\ \A id : id \notin {t.ID : t \in sent.sites \cup sent.putSites} =>
                        GetWebsite(id) = {NoWebsite(id)}
<1> DEFINE all == sent.sites \cup sent.putSites
<1>0. /\ SitesMirrored(device.sites, sent.sites, sent.putSites)
      /\ all \subseteq Website
  BY DEF Mirrored, SentTypeOK
<1>1. ASSUME NEW s \in sent.sites PROVE GetWebsite(s.ID) = {ShownSite(s)}
  <2>1. PICK t \in device.sites : WebsiteGot(t) = ShownSite(s)
    BY <1>0 DEF SitesMirrored
  <2>2. t.StrdomainId = s.ID
    BY <1>0, <2>1, MirrorIds
  <2>. QED
    BY <2>1, <2>2, SiteGot
<1>2. ASSUME NEW t \in device.sites, NEW w \in all, WebsiteGot(t) = ShownSite(w)
      PROVE  t.StrdomainId = w.ID
  BY <1>0, <1>2, MirrorIds
<1>3. ASSUME NEW s \in sent.putSites
      PROVE  GetWebsite(s.ID) \in {{ShownSite(s)}, {NoWebsite(s.ID)}}
  <2>1. CASE ~HasSite(s.ID)
    BY <2>1, SiteGot
  <2>2. CASE HasSite(s.ID)
    <3>1. PICK t \in device.sites : t.StrdomainId = s.ID
      BY <2>2 DEF HasSite
    <3>2. GetWebsite(s.ID) = {WebsiteGot(t)}
      BY <3>1, SiteGot
    <3>3. WebsiteGot(t) = NoWebsite(s.ID) \/ \E w \in all : WebsiteGot(t) = ShownSite(w)
      BY <1>0, <3>1 DEF SitesMirrored
    <3>4. ASSUME NEW w \in all, WebsiteGot(t) = ShownSite(w) PROVE w = s
      BY <1>0, <1>2, <3>1, <3>4 DEF SitesMirrored
    <3>. QED
      BY <3>2, <3>3, <3>4
  <2>. QED
    BY <2>1, <2>2
<1>4. ASSUME NEW id, id \notin {t.ID : t \in all} PROVE GetWebsite(id) = {NoWebsite(id)}
  <2>1. CASE ~HasSite(id)
    BY <2>1, SiteGot
  <2>2. CASE HasSite(id)
    <3>1. PICK t \in device.sites : t.StrdomainId = id
      BY <2>2 DEF HasSite
    <3>2. ASSUME NEW w \in all PROVE WebsiteGot(t) # ShownSite(w)
      BY <1>2, <1>4, <3>1
    <3>3. WebsiteGot(t) = NoWebsite(id)
      BY <1>0, <3>1, <3>2 DEF SitesMirrored
    <3>. QED
      BY <3>1, <3>3, SiteGot
  <2>. QED
    BY <2>1, <2>2
<1>. QED
  BY <1>1, <1>3, <1>4

LEMMA MirrorShowsLists ==
    ASSUME device \in DeviceState, DeviceKeyed, Mirrored, NEW id, id # Unset
    PROVE  {[s EXCEPT !.VirtualIP = Unset] : s \in ListWebsites(id)} =
             {[s EXCEPT !.VirtualIP = Unset, !.HrefDomain = Unset, !.TransferMod = 0] :
                s \in {t \in UNION {GetWebsite(w.ID) : w \in sent.sites \cup sent.putSites} :
                         t.GroupID = id}}
<1> DEFINE all == sent.sites \cup sent.putSites
           known == UNION {GetWebsite(w.ID) : w \in all}
           cut(s) == [s EXCEPT !.VirtualIP = Unset]
           cutMore(s) == [s EXCEPT !.VirtualIP = Unset, !.HrefDomain = Unset, !.TransferMod = 0]
           listed(t) == WebsiteListed([StrgroupId |-> id], t)
           here == {t \in device.sites : t.StrgroupId = id}
<1>0. /\ SitesMirrored(device.sites, sent.sites, sent.putSites)
      /\ all \subseteq Website
  BY DEF Mirrored, SentTypeOK
<1>1. ListWebsites(id) = {listed(t) : t \in here}
  BY DEF ListWebsites, GetRaltGroupWebsite
<1>2. ASSUME NEW t \in here PROVE WebsiteGot(t) \in known /\ WebsiteGot(t).GroupID = id
  <2>1. WebsiteGot(t).GroupID = id
    BY GotFields
  <2>2. WebsiteGot(t) # NoWebsite(t.StrdomainId)
    BY <2>1 DEF NoWebsite
  <2>3. PICK w \in all : WebsiteGot(t) = ShownSite(w)
    BY <1>0, <2>2 DEF SitesMirrored
  <2>4. t.StrdomainId = w.ID
    BY <1>0, <2>3, MirrorIds
  <2>5. GetWebsite(w.ID) = {WebsiteGot(t)}
    BY <2>4, SiteGot
  <2>. QED
    BY <2>1, <2>5
<1>3. ASSUME NEW x \in known, x.GroupID = id PROVE \E t \in here : x = WebsiteGot(t)
  <2>1. PICK w \in all : x \in GetWebsite(w.ID)
    OBVIOUS
  <2>2. x # NoWebsite(w.ID)
    BY <1>3 DEF NoWebsite
  <2>3. HasSite(w.ID)
    BY <2>1, <2>2, SiteGot
  <2>4. PICK t \in device.sites : t.StrdomainId = w.ID
    BY <2>3 DEF HasSite
  <2>5. x = WebsiteGot(t)
    BY <2>1, <2>4, SiteGot
  <2>6. t.StrgroupId = id
    BY <1>3, <2>5, GotFields
  <2>. QED
    BY <2>5, <2>6
<1>4. {t \in known : t.GroupID = id} = {WebsiteGot(t) : t \in here}
  <2> HIDE DEF known, here
  <2>. QED
    BY <1>2, <1>3
<1>5. ASSUME NEW t \in here PROVE cut(listed(t)) = cutMore(WebsiteGot(t))
  <2>1. t.StrgroupId = id
    OBVIOUS
  <2>. QED
    BY <2>1, ListedIsGot
<1> HIDE DEF cut, cutMore, listed, here, known
<1>6. {cut(s) : s \in ListWebsites(id)} = {cutMore(s) : s \in {t \in known : t.GroupID = id}}
  BY <1>1, <1>4, <1>5
<1>. QED
  BY <1>6 DEF cut, cutMore, known

LEMMA MirrorShows ==
    ASSUME device \in DeviceState, DeviceKeyed, Mirrored
    PROVE  ReadsShowWhatWasSent
<1>0. GroupsMirrored(device.groups, sent.groups, sent.putGroups)
  BY DEF Mirrored
<1>1. ListWebGroups = {WebGroupGot(g) : g \in device.groups}
  BY DEF ListWebGroups, GetRaltGroup
<1>2. /\ {ShownGroup(g) : g \in sent.groups} \subseteq ListWebGroups
      /\ ListWebGroups \subseteq {ShownGroup(g) : g \in sent.groups \cup sent.putGroups}
  BY <1>0, <1>1 DEF GroupsMirrored
<1>3. ASSUME NEW g \in ListWebGroups, g.ID # Unset PROVE GetWebGroup(g.ID) = {g}
  <2>1. PICK d \in device.groups : g = WebGroupGot(d)
    BY <1>1
  <2>2. d.StrgroupId = g.ID
    BY <2>1, GotFields
  <2>3. {x \in device.groups : g.ID \in {Unset, x.StrgroupId}} = {d}
    BY <1>3, <2>2 DEF DeviceKeyed, Keyed
  <2>. QED
    BY <2>1, <2>3 DEF GetWebGroup, GetRaltGroup
<1>. QED
  BY <1>2, <1>3, MirrorShowsSites, MirrorShowsLists DEF ReadsShowWhatWasSent

\* Whatever the device takes the codes for: a group or site that was created reads as it was
\* sent, one that was updated reads as in the last update or is not there, and a list agrees
\* with the reads of what is in it.
THEOREM ReadsShowWhatClientsSent == Spec => []ReadsShowWhatWasSent
<1>1. TypeInv /\ Mirrored /\ [Next]_vars => Mirrored'
  BY MirroredNext
<1>2. TypeInv /\ DeviceKeyed /\ Mirrored => ReadsShowWhatWasSent
  BY MirrorShows DEF TypeInv, TypeOK, DeviceTypeOK
<1>. QED
  BY <1>1, <1>2, InitMirrored, TypeInvariant, KeyedInvariant, PTL DEF Spec
================================================================================
