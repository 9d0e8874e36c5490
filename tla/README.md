# UpdateWeb: a TLA+ model of the controller

UpdateWeb is the web controller of a load-balancing and DNS/DHCP appliance, written in
Go. It serves a REST API (gorest over gin), keeps its rows in PostgreSQL, forwards the
business resources to a device controller over gRPC, collects agent events from Kafka
and node metrics from Prometheus. This directory holds TLA+ modules of the parts that
have state and concurrency of their own, TLC configurations that check them on small
instances, and TLAPS proofs of what matters most for any size. Paths below are relative
to the repository's root, and `src/` is where `PROJECT.json` sees it.

Every module begins with a comment that says which code it models and what it leaves
out; `PROJECT.json` maps each definition to its lines. A definition named `...Reversed`,
`...Whole`, `...Unlocked` and so on, under a comment that begins with "Mutant", is a
plausible bug. Nothing uses it: it records which bug the property next to it catches.

## Inventory

| Component | State | Operations | What is hard |
|---|---|---|---|
| Users, groups, roles (`pkg/auth/handler`) | `gr_ddiuser`, `gr_user_group`, `gr_role`; the map `ActivityUsers` | create, update, delete of each; login, restart | transactions of several statements under read committed, a process-wide map written after the commit, row locks without an order |
| Authority (`pkg/auth/authorization`, `authentification`) | the authority map of a user, the context of a request | build the map from the template and the roles, check a request, filter a list | many sections, roles and views combine; a list and a read must agree |
| Login, tokens, white list (`pkg/auth`) | passwords, `gr_white_list`, tokens at clients | login, logout, change and reset of passwords, white-list update, start | requests race with deletes, tokens outlive the process, two rows are inserted at start by two transactions |
| Audit log (`pkg/log`) | `gr_audit_log` | record after each changing request, expiry, list of a time window | the record is a transaction of its own after the handler's |
| Agent events (`pkg/agentevent`) | `gr_agent_event`, the bounded list, its counter, each publisher's offset | consume, push, publish, stop, monthly clean, load at start | a condition variable, unbuffered channels, two ways of counting events |
| Node monitor (`pkg/metric/service`) | node rows, last keep-alives, the role and its file | register, keep-alive, liveness ticker, master up and down | a check followed by an update, a role change in a loop, ignored errors |
| Node metrics (`pkg/metric/handler`) | none of its own | list, get | five queries to a database that changes meanwhile, a grid of samples |
| Business resources (`pkg/business`) | none of their own: the device controller keeps clusters, groups, sites and hosts | one to several gRPC calls per request; the default cluster at start | a query followed by a create, calls that fail after they were done, reads made of several calls, two translations of every field by hand |
| Messages of the device controller (`pkg/proto`) | none | the messages the handlers send and read | field by field, with names that differ from the resources' |
| Utilities (`pkg/util`) | none | the time window of lists, prefixes of addresses, CSV, random strings | the last minute of a day |
| Event bus, file task, wiring, generators | almost none | start-up, removal of old files | not modelled, see below |

How they interact. gin runs every request in a goroutine. `JWTMiddleWare` reads the white
list from the database and the user from `ActivityUsers`, which the login, the user
handler and the start write; then the handler runs its transaction; then the audit
handler writes its record in a second one. Group and role handlers change the rows of
users. The node monitor shares one read-write lock among gRPC calls, its ticker and the
high-availability callbacks. The event consumer, the publishers and the websocket
handlers share one list under a lock, a condition variable and two channels. The business
handlers share nothing but the device controller, which several controllers use at once;
the audit handler writes its record when they have returned.

What makes each correct is the list of properties in the section on runs; the hazards
they answer, line by line, are in `PROJECT.json`.

## Modules

| Module | Models | Composition |
|---|---|---|
| `Directory` | users, groups, roles, `ActivityUsers`, statement by statement | `MCDirectory`, `DirectoryChoices` (adds what the administrator chose), `DirectoryProofs` |
| `Authorization` | the authority map and the checks | `MCAuthorization`, `AuthorizationProofs` |
| `Session` | a request from the white list to the audit record | `MCSession`, `SessionProofs` |
| `AgentEvent` | the event feed | `EventFeed` (abstract), `AgentEventProofs` |
| `NodeMonitor` | keep-alives, the ticker, the role | checked directly, `NodeMonitorProofs` |
| `NodeMetrics` | the queries and the grid | `MCNodeMetrics`, `NodeMetricsProofs` |
| `DeviceApi` | the messages of the device controller, a set of records for each | |
| `BusinessMessages` | the business resources, and what handlers make of messages | extends `DeviceApi` |
| `DeviceController` | what the handlers rely on of the device (external) | extends `DeviceApi` |
| `AuditLog` | the record, its expiry, the daily delete, the window of the list | |
| `Business` | the start of a controller and its business requests, call by call | composes `DeviceController`, `BusinessMessages` and `AuditLog`; `MCBusiness`, `BusinessProofs`, `BusinessReadProofs` |

The three modules of `pkg/auth` share the user and keep different parts of it:
`Directory` has its groups, roles and the views they bring, `Authorization` what a set of
roles means on a request, `Session` its password, its token and whether it is in
`ActivityUsers` at all.

### Directory

`db` is the committed tables, `tx[p]` the request of worker `p` with the rows its open
transaction has written, `cache` is `ActivityUsers` (the views of each cached user).
One action is one SQL statement, a commit, a write to the map, or a failure. Under
PostgreSQL's default isolation a statement sees what is committed when it runs and its
transaction's own writes (`Seen`), and a write waits for the transaction that holds the
row (`Waits`, `Locked`). `recombineSlices` is used with the meaning it has in the code:
union, or difference. `BreakDeadlock` is the database failing one transaction of a
cycle. `Restart` rebuilds the map. The history variable `fresh` holds the users whose
cached value was computed without another commit in between and whose inputs have not
changed since. The body of an update is the client's, and so are its name and roleType:
`UpdateUser` takes both. An update whose body names another user of the table stores the
entry under that name (`Entry`); with roleType SUPER `reloadUserAuthority` returns at once
(`SkipReload`) and the entry is stored without an authority (`NoAuthority`). Neither is the
authority of the user it is stored for, and neither gets into `fresh` (`Own`). Names that are
in no row are left out: no token bears one.

### Authorization

The template `etc/ddi-role.json` is three sets of entries (constants), a role is its
views and plans. `reloadUserAuthority` is the map the handler builds; `checkAuthority`,
`checkView` and `ViewFilter` are the functions of `authentification.go`. `Ask` is a
request. `ViewFilter` and `PrefixFilter` are exported and have no caller in this
repository (their callers are the DNS and DHCP handlers of the product this controller
comes from); `PrefixFilter` is not modelled.

The plans of the roles are collected and not used: `reloadUserAuthority` passes an empty
list on (`user_handler.go:191-192`), so every filtered DHCP resource stays read-only. The
design document says otherwise ("DNS or IP prefixes", `src/doc/design/auth/auth.md:13`, and
lines 31-42, where the plans of a user open these resources). The model does what the code
does, and `GrantedViewsOpenChanges` says nothing of these resources: code and document
agree on the rest. Two limits of the checks are in the model as they are in the code: a
request about a whole collection is not compared with the views, and a role with views
closes reads that a user without any view has (`checkView` lets everything pass when the
list is empty), so that roles add up for changes (`ChangesAreTheUnionOfRoles`) and not for
reads.

### Session

Each worker is a request. A login is the white list, `CheckPassword`, `GetUserInfo` and
the Store, each a transaction or a map operation of its own; a token is the user's name,
since its expiry only takes requests away. `Load` is the lookup and the check of the
authority (the template's operations on users are `NormalOps`; the administrator is
not checked). Then the handler's transaction, what it does to `ActivityUsers`, and
`AuditLogger`. A handler that returns an error sends its request to the log with `err`
(`Error`), and the record says so: that the errors are right is not in the record's own
definition but in what `AuditExplainsTable` asks of the log, which is to account for every
row that has come or gone. Creates and deletes whose record fails to be inserted (their
client gets an error) or that a crash overtakes (their client gets no answer) are the
history `lost`. An update stores the user its body names, which can be another than that
of the row (`Entry`). `Crash` can come anywhere, also between the two inserts of the start
(`StartUsers`, `StartWhiteList`). The address in the configuration is a constant:
the row of the white list keeps the address of the first start, so an installation that
moves to another address has its privileged address at the old one.

### AgentEvent and EventFeed

The consumer, each publisher and each websocket handler is a small machine (`pc`);
sections between Lock and Unlock, and rendezvous on unbuffered channels, are single
steps. The look at the list (`Get`) and the wait (`Sleep`) are two steps, as in the code,
which is why a broadcast can be missed. `getEvents` returns what is above an offset.
`EventFeed` is the promise: the latest events are kept and a listener never passes over
one that is. `Feed` in `AgentEvent` is the refinement mapping; `FeedSpec` is checked.

### NodeMonitor

Register and CheckAlive hold the lock shared through several statements, KeepAlive and
MasterOper exclusively (one step, enabled when no reader is inside). `ChangeRole` has all
the ends of MasterOper: the file cannot be read and nothing changes; the configuration,
in which the role is set by then, cannot be marshalled; or the file is written and
reloaded (`WriteAndReload`), and both errors are ignored. A failed write leaves the file
as it was, or invalid; a failed reload leaves the role in memory. The code loses the
role in two of these ends, a marshalling error and a write and a reload that both fail:
the process goes on in a role its file does not name, and the next start takes the other.
The history `unsaved` is set in these two ends only, and `RoleIsInFile` says that nothing
else parts memory and a valid file. Time is a counter.

### NodeMetrics

A series is the set of times it has a sample at; `Scrape` adds the present between any
two queries. `getRatiosWithTimestamp` lays samples on the grid by the integer quotient
of the code. The retention of Prometheus is assumed not to remove samples of the
period while a request runs.

### Business, its messages and the device

`DeviceApi` has one set of records per protobuf message, with the fields a handler writes
or reads. `BusinessMessages` has the resources and both translations of each: `...Req` is
what a handler sends, `...Got` and `...Listed` what it shows. They are written field by
field, because copying fields by hand is most of what these handlers do.

The device controller is another program, of which this repository has only the protocol
files. `DeviceController` says what the handlers rely on and no more: it has clusters,
groups and sites; it may refuse any request, and does refuse to add what it has or to
change what it has not; a call may fail before or after it was done. It has each node of a
host in a cluster once. Which numbers mean modify and delete is part of the device's state
(`codes`), because the handlers and a comment of the protocol files disagree: a property
that holds does so whichever of the two the device follows.

In `Business`, `ctl[p]` is what controller `p` is doing. `QueryDefaultCluster`, `FreeHosts`
and `SetDefaultCluster` are the calls of `NewClusterHandler`; `main` ignores the error of
`RegisterHandler`, so a controller whose start failed runs without the business API and
is not in `api`. A request that changes something is one call (`Handled`, with the reply
and whether the device did it as independent choices), then `AuditLoggerHandler`. The
home page (`ShowHomePage`, `ReadVisits`, `ReadGroups`, `ReadWebsites`) and the list of hosts
(`ListHosts`, `ReadFlow`, one call and one entry per node of the cluster) are several calls,
with anybody's requests in between. A site that the device does not know is shown empty,
with success (`NoWebsite`), a group that it does not know is an error. Each
controller serves one request at a time; requests at the same time are those of
several controllers, which share as little as two goroutines of these handlers do.

History variables say what properties need and the program does not keep: `sent`, the
groups and sites as clients last sent them, apart by whether that was with POST or PUT, since
a PUT that the device takes for a deletion leaves nothing to show; `answered`, `did` and `excused`, the requests
that got a reply, that changed the device, and whose record was lost with its insert or
its process; `waived`, that the device refused the cluster or a client removed it;
`stable`, what has not changed since the loop of a read began (`Watch`, part of every step).

### AuditLog

Time is counted in minutes, since the window of the list ends at 23:59. `Clean` is the daily
delete; the ticker starts with the process, so it may tick at any minute, and never does
in a process that runs for less than a day. `audit_log.valid_period` of the configuration
file is read by nobody: the period is the constant of the handler.

## Runs

| Run | Properties | Bounds, and why they are enough |
|---|---|---|
| `directory` | `TypeOK`, `FreshEntryIsExact`, `GroupChangeReachesMembers`, `DeleteLeavesNoUserReference`, `OnlyUserEditsRevokeRoles` | 2 users, 1 group, 1 role, 1 view, 2 workers, 2 requests, from every consistent database where the users there are have the same groups and roles and a role has the view: any two requests overlap at every statement |
| `directory_progress` | `RequestsFinish` | 2 users, 2 groups: two group requests that lock the users in opposite orders |
| `directory_lost_update` | `JoiningKeepsOtherGroups`, violated | 2 groups and the same user |
| `directory_stale_cache` | `CachedAuthorityIsCurrent`, violated | 1 user, 1 group, 1 role, 1 view, group and role requests |
| `directory_choices` | `AuthorityIsUnionOfChoices`, violated | 1 user that joins and leaves a group |
| `authorization` | `GrantedViewsOpenChanges`, `ChangesAreTheUnionOfRoles`, `ListShowsWhatMayBeRead` | all views and plans of 2 roles, a template with an entry of every kind, all requests |
| `session` | `TypeOK`, `AdminCanLogIn`, `LoginLastsUntilLogout`, `NoEntryWithoutRow`, `AuditExplainsTable` | the administrator and 1 user, 2 workers, 3 requests of 8 kinds, 1 failure or crash: a delete, a login and an update can all overlap or follow each other |
| `agentevent` | `TypeOK`, `ListIsWindow`, `TableHasTheNewest`, `FeedSpec`, `ExactlyOnceUntilTrimmed`, `AwakeDelivers`, `StopEndsUnlessAsleep` | 1 listener, a list of at most 3, 5 events (so it is trimmed twice), 1 restart; one listener's steps touch no other listener's state, and the safety properties are proved for any number |
| `node_monitor` | `TypeOK`, `HeardNodeStaysAlive`, `RoleIsInFile`, `StandbyFollowsMasterIp`, `StandbyDoesNotWrite`, `SilentNodeIsBuried` | 2 nodes, 2 other controllers, timeout 1, 4 units of time, 2 failures or restarts |
| `node_metrics` | `TypeOK`, `GaugesShowTheirSamples`, `DiscUsageIsAShare`, `FailsOnlyWhenDiskAppears` | 2 nodes, 2 disks, a grid of 3 points, 2 periods |
| `business` | `TypeOK`, `ApiHasCluster`, `AuditCoversTheDevice`, `ReadsShowWhatWasSent`, `StableSitesCountOnce`, `StableHostsListedOnce`, `DefaultListIsComplete`, `KeptForTheValidPeriod` | 2 controllers, 2 hosts, one with 2 nodes, 2 groups, 2 sites, a new device and one in use with the codes of the protocol file or those of the handlers, 2 requests and 1 crash, 3 minutes with days of 2 minutes: two starts, or a read of several calls and a change, or a change and its record, overlap at every call |
| `business_update` | `UpdatesKeepTheGroup`, violated | the same, with a device that follows the protocol file |

Each property stands in its module under a comment that says it in words. The counters
that have no bound in the code are cut by `MaxRequests`, `MaxEvents`, `MaxRestarts`,
`MaxTime`, `MaxFailures`, `MaxCrashes` and `MaxNow`, all in guards. The runs that do not
check deadlock are those where the system may stop: in `session`, `business` and
`business_update` clients may stop asking, and in `node_metrics` a request ends.

What the passing runs say beyond single functions:

- A cached authority that is computed for its own user, with no other commit in between, is
  never computed from half of a user's groups or from the row before the handler's own
  update (`FreshEntryIsExact`). What the property leaves out is in the violated run
  `directory_stale_cache`: entries that a later commit makes old.
- No order of user, password and white-list requests, and no crash, locks the
  administrator out (`AdminCanLogIn`): the update names its columns and so cannot
  clear the privileged address.
- The only way for `ActivityUsers` to hold a user that is gone is a request that saw the
  row before the delete and stored after it (`NoEntryWithoutRow`, history `raced`).
- An event is skipped by a publisher only by being trimmed, or left behind by one
  asleep on an older look; an event is sent twice only after the list has been trimmed.
- The shared and exclusive locks of the monitor are exactly what keeps a live node from
  being buried and a standby from writing: with KeepAlive shared, or MasterOper
  without the lock, TLC finds the violation.
- However many controllers start together, one that serves the business API has a
  cluster to configure: the second create is refused as a duplicate, and whoever gets no
  reply does not serve. A record of success only says that the device replied, since no
  handler looks at the code of the reply (`AuditCoversTheDevice`).
- Through two translations of every field, what is shown of a group or site is what was last
  sent for it, but for what the handlers override, and all that was created and neither put
  nor deleted since is shown, whichever codes the device follows (`ReadsShowWhatWasSent`).
  The list of sites is excepted: it shows the source address as the virtual address
  (`website_handler.go:139`).
- A home page or list of hosts read while others change the device still counts every
  site, and lists every node, that stays exactly once. A host with two nodes is listed
  twice, once for each.
- Free space being asked for before the total is what keeps disk usage between 0 and 1.

The violated runs are disagreements with what the repository says. Three are with the
design document (`src/doc/design/auth/auth.md`): a membership lost to a concurrent group
request, an authority that stays old after a group or role change, and group roles that
stay with a user who has left. One is with the protocol file: the handlers send 2 to
modify and 3 to delete, and `src/pkg/proto/rcs/ralt_plugin.proto:51` documents 2 as delete and
3 as modify. `PROJECT.json` quotes the lines. A further one has no run: the
plans of a role open nothing, against `src/doc/design/auth/auth.md:31-42` (see
Authorization above, and the hazard at `user_handler.go:192`).

## Fairness

- `Directory`: weak fairness of the next step of each worker, and of the deadlock
  detector of the database. The Go runtime schedules every goroutine that can run, and
  PostgreSQL looks for cycles after `deadlock_timeout`. Clients need not ask.
- `AgentEvent`: weak fairness of the consumer's steps after a message, of each publisher
  and of the writes of each handler. Neither messages nor clients have to come.
- `NodeMonitor`: weak fairness of the check loop, which a ticker drives. The number of
  failures is bounded, so the ticker outlives them.
- `Session`, `Authorization`, `NodeMetrics`, `Business`, `AuditLog`: none; only safety is claimed.

## Proofs

`DirectoryProofs` proves `TypeCorrect` (`Spec => []TypeOK`) and `CacheCorrect`
(`Spec => []FreshEntryIsExact`) for any sets of users, groups, roles, views, workers and any
bound. `FreshEntryIsExact` is not inductive: nothing in it says what a worker on its
way to the Store holds. The invariant `IInv` adds `TxInv` for each worker: while a
transaction has met no other commit (`clean`) and works on the user it is about (`Own`),
what it has in memory is what its own view of the tables grants (`ReloadIsExact`). It is a conjunct for each step of the
reload, and each lemma `...KeepsInv` takes one group of actions. The assumptions are
`IdsAssumption` (ids of different tables differ, and absence is none of them) and
`BoundAssumption`. The three action properties, `GroupChangeReachesMembers`,
`DeleteLeavesNoUserReference` and `OnlyUserEditsRevokeRoles`, speak of a commit, and what
a commit does was decided by the loop over the affected users before it: `Jobs` is the
invariant of that loop, for each worker. A member is written or still to come (`Reached`),
and a written one has the group and its roles (`Joined`); a user who still lists a
deleted group is still to come (`Parted`); nobody has a deleted role (`Unused`); the batch,
the row in memory and the writes hold the roles that are committed (`Kept`); and the loop
commits with nobody left (`LoopEnds`). `CommitJob` then reads each property off `Jobs`.

`AuthorizationProofs` proves the three properties of `Authorization` (the first as an
equivalence: a change is allowed exactly where a granted view opens it) for every
template that satisfies `TemplateAssumption` (what `etc/ddi-role.json` has: one entry per
resource, read-only outside the base section), any roles and any request. The invariant is the type of the
request; the rest is lemmas about what `CreateBaseAuthority`, `CreateViewAuthority` and
`CreateDhcpAuthority` leave at a resource.

`NodeMonitorProofs` proves `TypeOK`, `HeardNodeStaysAlive`, `RoleIsInFile`,
`StandbyFollowsMasterIp` and `StandbyDoesNotWrite` for any nodes, controllers, timeout and
bounds, from `MonitorAssumption`. The properties say nothing of what a call has read before
its next statement, so `IInv` adds what the lock protects: whoever holds it shared began
as the master (`ReadersAreMaster`), and its reads still hold (`ReadersAreRight`: a node about
to be buried is still silent); a keep-alive that reached its row was noted
(`HeardIsNoted`); the file never names a third controller (`FileIsOfMasterIp`). The last is
why a restart cannot make the monitor follow an address it ignores.

`SessionProofs` proves `TypeOK`, `AdminCanLogIn`, `AuditExplainsTable`, `LoginLastsUntilLogout` and
`NoEntryWithoutRow` for any users, addresses, white lists, workers and bounds, from
`SessionAssumption`. `IInv` adds what the handlers hold between their transactions
(`ReqsOK`: the body is of the kind the handler reads, and a request with an error has
only its record left) and which rows each phase of the start has (`Rows`: the row of the
white list keeps the privileged address, whatever the updates). `AuditExplainsTable` is
then inductive: what accounts for a change is handed from the request that `Carries` it
to the log or to `lost`, and never disappears (`AuditLoggerKeepsInv`, `CrashKeepsInv`).
`JInv` adds what the two properties about `ActivityUsers` need: what a login (`LoginOK`)
and an update about to store (`StoringOK`) know of the row they have read, and that an
entry is of a user who is in the table, is being deleted, or was raced with. One lemma
per group of handlers.

`AgentEventProofs` proves every safety property of `AgentEvent` for any listeners, any
`maxMessageLen` and any number of events and restarts, from `SizesAssumption`: `TypeOK`,
`ListIsWindow`, `TableHasTheNewest`, `ExactlyOnceUntilTrimmed`, and the refinement
`Spec => FeedSpec`. The list being a window is what makes the walk of `getEvents` stop at
the right entry (`ReachedAt`, `EventsAbove`). The invariant relates each publisher to its
handler (`Given`): `Ahead(l)` is the last index before the batch, or the offset without
one; what the list has up to it has been taken; the batch goes on from it without a gap;
and the offset is at most the end of the batch, and equal to it as long as the first
event is in the list. The refinement then maps `Push` to `Add`, `Send` to `Deliver`,
`OpenAgentEvent` and `Stop` to `Leave`, `Restart` to `Reset`, and all else to a stutter. That
the deletes take the oldest rows, and that the list loaded of n rows is numbered 1 to n,
rests on lemmas about ranks in finite sets (`Ranks`, `RankHasEvent`, `NewestBounded`).

`NodeMetricsProofs` proves `TypeOK`, `GaugesShowTheirSamples` and `FailsOnlyWhenDiskAppears` for any
nodes, disks, histories, periods and number of parts, from `MetricsAssumption`. `GridOfPeriod`
is the arithmetic: the grid has `Parts + 1` points, all in the period, and the quotient of
a point's distance from the beginning is its own number, so the list that the handler
allocates is never indexed past its end. The invariant adds `SameDisks`: while no disk has
come up, the answer about free space has the disks that the query of the total finds.
`DiscUsagesAreShares` proves `DiscUsageIsAShare`, with the invariant `DiskInv`: each disk of
the answer has its free space at the samples there were when it was asked for
(`FreeAnswered`), and a usage in a node is a share at each point (`DiscUsages`). Usages are
quotients of sums over disks, folds over a finite set, so `MetricsAssumption` says that the
disks are finitely many. What such a fold is (`SumExists`, `SumWithout`, `SumOrder`,
`SumOfDifferences`) needs an induction; it is one over sets of numbers (`EveryNumber`,
`EverySubset`, from the least counterexample), not over operators.

`BusinessProofs` proves, for any controllers, hosts, bodies, device states and bounds, and
whatever the device takes the codes of modify and delete for: the round trips
`GroupRoundTrip`, `SiteRoundTrip` and `ClusterRoundTrip` (what Get makes of the message that
Create makes of any resource is the resource, but for the overridden fields);
`ShownTypes`, for the reads made of several replies; `TypeOK` (the lemma
`DeleteClusterDoesNothing` is on the way: the delete of the cluster sends the code of a
creation without a cluster, which the device cannot do); `ApiHasCluster`;
`AuditCoversTheDevice`, with the invariant that a request's number is with one controller,
and in `answered` if its record will be of success; `KeptForTheValidPeriod` and
`DefaultListIsComplete`, for any length of a day and of the valid period.

`BusinessReadProofs` proves what clients read. Its base is `DeviceKeyed`: the device has one
thing per id and no site without its group, which `Keyed` says of a device in use at the
start and the refusals keep. `ReadInv` is the invariant of the reads of several calls, with
`GroupsRead` for the home page and `HostsRead` for the list of hosts: whatever has been
stable since the loop began was in its first reply, and is in the answer once if its turn
has come. It gives `StableSitesCountOnce` and `StableHostsListedOnce`, the latter per node
of the cluster. `Mirrored` relates the device to the history, in two directions that differ:
each group or site of the device is, but for the overridden fields, one that was sent by
POST or PUT (or a site of which only the id is left, after a DELETE that the device took for
a change), and each that was sent by POST, and is not touched since, is on the device. It
gives `ReadsShowWhatWasSent`. Nothing is assumed of the codes but that add, modify and
delete differ and that add is 1 (`CodesAssumption`, `BusinessAssumption`), on which
handlers and protocol files agree; a lemma per request shows `Mirrored` kept whether the
device takes 2 for a change and 3 for a deletion or the other way round.
`BusinessAssumption` also says that a device in use has groups and sites that handlers made
(`MadeByHandlers`): others could carry a field that no handler writes.

Every invariant and every action property of the passing runs is stated by a theorem.
Model-checked only: liveness under fairness (`RequestsFinish`, `AwakeDelivers`,
`StopEndsUnlessAsleep`, `SilentNodeIsBuried`), which needs ENABLED, and that the prover does
not handle.

## Not modelled

- Of the business handlers: the list of free addresses for a form, of which only the
  translation of the reply is there (`VipsListed`), as the device alone says which addresses
  are free. Of the messages: those no handler uses, and their serialisation.
  `pkg/proto/ate_proto/ralt_service.pb.go` is imported by nobody, and with the generated
  descriptors it is the largest part of the code.
- The answer to the create of a cluster, which has its addresses twice: a resource in
  memory that nobody reads again.
- What a `ret_code` other than 0 should do to a request: no handler looks at it and nothing
  in the repository says. The model has the refusals.
- The equality filters of the audit log's list, which only narrow it. The list of a day
  ends at 23:59:00, so the records of its last minute are in no day's list until the next
  day, and the properties say so.
- Encryption of passwords (a bijection), expiry of tokens (it only takes requests away),
  CSV files, name patterns, random strings, wording of errors and logs.
- The file task removes old CSV files once a day; the event bus has no publisher and no
  subscriber; the interface generator prints JSON once; `main` is wiring.
- gorest, gin, PostgreSQL, Kafka, Prometheus, the device controller and the
  high-availability service are external: they appear as the choices the code in `src/`
  meets (a transaction that fails, a message, a scrape, a reply or none, a report).
- At this commit `main` registers neither the agent event handler nor the gRPC server
  that carries the node monitor; they are modelled as their packages define them.

## Plan and what is left of it

Done, in this order: `Directory` with its proofs, `AgentEvent` with `EventFeed`,
`NodeMonitor`, `Authorization` and `Session` with theirs, `NodeMetrics`; then `AuditLog`,
`DeviceApi`, `BusinessMessages`, `DeviceController` and `Business` with `BusinessProofs`, the
two properties of `Session` about logins and entries, `AgentEventProofs` with the
refinement, and `NodeMetricsProofs`; then the action properties of `Directory`, the reads of
`Business` in `BusinessReadProofs`, and the sums of `NodeMetrics`.

Left for another time: an abstract user directory with atomic operations, and `Directory`
with one worker shown to implement it.
