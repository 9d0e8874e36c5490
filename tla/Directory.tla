------------------------------- MODULE Directory -------------------------------
(***************************************************************************)
(* Users, user groups and roles (src/pkg/auth/handler), and the authority  *)
(* each cached user carries.                                               *)
(*                                                                         *)
(* Every handler runs in a goroutine of its own (a worker here) and does   *)
(* its work in one database transaction of several statements.  The        *)
(* database is PostgreSQL at its default isolation level, read committed:  *)
(* a statement sees what is committed when it runs plus the transaction's  *)
(* own writes, and a write waits for the transaction that holds the row.   *)
(* After the commit, some handlers update ActivityUsers, the process-wide  *)
(* map that authentification reads on every request.                       *)
(*                                                                         *)
(* A user row is the pair of its user_group_ids and role_ids, a group row  *)
(* has its role_ids and a role row its views.  String slices are sets: the  *)
(* code passes each through recombineSlices before it uses it.  The cached *)
(* value of a user is the set of views of its RoleAuthority, the part of   *)
(* that map which differs between two normal users (module Authorization   *)
(* says what the rest of the map is), or no map at all: reloadUserAuthority *)
(* computes none for a user whose roleType is SUPER.  The rows of Users are *)
(* NORMAL, but an update works on the user of the request's body, whose    *)
(* roleType and name are the client's.  The administrator, whose authority *)
(* is never computed, is not in Users (module Session has it).             *)
(***************************************************************************)
EXTENDS Naturals, FiniteSets

CONSTANTS Users,        \* ids (= names) of the normal users
          Groups,       \* ids of user groups
          Roles,        \* ids (= names) of roles
          Views,        \* ids of DNS views
          Workers,      \* request goroutines
          Resources,    \* which of "user", "group", "role" the clients use
          MaxRequests,  \* bound on the requests of one behaviour
          NoRow,        \* absence, in a table or in the cache
          NoAuthority   \* of a cached user: RoleAuthority is nil

VARIABLES db,     \* the committed rows: gr_ddiuser, gr_user_group, gr_role
          cache,  \* ActivityUsers: the views of each cached user, or NoAuthority
          tx,     \* what each worker is doing
          left,   \* requests still to come (the bound)
          fresh   \* history: cached users whose entry was computed from a
                  \* database no one changed meanwhile, and which still holds

vars == <<db, cache, tx, left, fresh>>

--------------------------------------------------------------------------------
(* Rows and what they grant *)

Ids == Users \cup Groups \cup Roles

UserRow == [groups : SUBSET Groups, roles : SUBSET Roles]
GroupRow == [roles : SUBSET Roles]
RoleRow == [views : SUBSET Views]
Row == UserRow \cup GroupRow \cup RoleRow

\* The Ddiuser a handler holds in memory: a row's, or a body whose roleType Create has
\* overwritten.
Rec(u, gs, rs) ==
    [name |-> u, super |-> FALSE, groups |-> gs, roles |-> rs, views |-> {}]
RecType == [name : Users, super : BOOLEAN, groups : SUBSET Groups, roles : SUBSET Roles,
            views : SUBSET Views]

ASSUME IdsAssumption ==
    /\ Users \cap Groups = {} /\ Users \cap Roles = {} /\ Groups \cap Roles = {}
    /\ NoRow \notin Ids
    /\ \A x \in Row \cup RecType : x # NoRow
ASSUME BoundAssumption == MaxRequests \in Nat

\* Mutant: the sense of deleteSlice2 is reversed.
recombineSlicesReversed(slice1, slice2, deleteSlice2) ==
    IF deleteSlice2 THEN slice1 \cup slice2 ELSE slice1 \ slice2

\* The slices helper: union, or difference when deleteSlice2 is set.
recombineSlices(slice1, slice2, deleteSlice2) ==
    IF deleteSlice2 THEN slice1 \ slice2 ELSE slice1 \cup slice2

Existing(t, ids) == {i \in ids : t[i] # NoRow}

\* "select * from gr_user_group where id in (...)": the roles the rows bring.
GroupRoles(t, gs) == UNION {t[g].roles : g \in Existing(t, gs)}

\* "select * from gr_role where id in (...)": the views the rows bring.
RoleViews(t, rs) == UNION {t[r].views : r \in Existing(t, rs)}

\* What reloadUserAuthority computes for a user row, read from one table state.
Authority(t, row) == RoleViews(t, row.roles \cup GroupRoles(t, row.groups))

--------------------------------------------------------------------------------
(* Transactions *)

\* A partial function given a value at one more point.
Put(f, x, v) == [y \in DOMAIN f \cup {x} |-> IF y = x THEN v ELSE f[y]]
Drop(f, x) == [y \in DOMAIN f \ {x} |-> f[y]]
NoWrites == [x \in {} |-> NoRow]

\* A request after its first statement: about row i, with the user in memory and
\* the users the body lists, and the rows it has written.
Request(op, pc, i, us, rec, writes) ==
    [op |-> op, pc |-> pc, id |-> i, members |-> us, rec |-> rec, batch |-> NoWrites,
     writes |-> writes, clean |-> TRUE]

Idle == Request("none", "idle", NoRow, {}, NoRow, NoWrites)

\* The tables as worker p's transaction sees them.
Overlay(w) == [i \in Ids |-> IF i \in DOMAIN w THEN w[i] ELSE db[i]]
Seen(p) == Overlay(tx[p].writes)

\* Another open transaction has written the row: an insert of it waits, and so
\* does an update or a delete that finds the row.
Locked(p, i) == \E q \in Workers \ {p} : i \in DOMAIN tx[q].writes
Waits(p, i) == Locked(p, i) /\ db[i] # NoRow

\* The writes of "UPDATE ... WHERE id = i" (or DELETE): none when no row matches,
\* which is not an error.
Written(p, i, row) ==
    IF Seen(p)[i] = NoRow THEN tx[p].writes ELSE Put(tx[p].writes, i, row)

\* A request begins with its first statement.
Begin(p, t) ==
    /\ left > 0
    /\ left' = left - 1
    /\ tx' = [tx EXCEPT ![p] = t]
    /\ UNCHANGED <<db, cache, fresh>>

CanBegin(p) == tx[p].pc = "idle" /\ left > 0

Step(p, t) ==
    /\ tx' = [tx EXCEPT ![p] = t]
    /\ UNCHANGED <<db, cache, left, fresh>>

--------------------------------------------------------------------------------
(* The user handler *)

\* Create: the insert; an existing name fails and rolls back.
CreateUser(p, u, gs, rs) ==
    /\ CanBegin(p) /\ ~Locked(p, u)
    /\ db[u] = NoRow
    /\ Begin(p, Request("createUser", "selectGroups", u, {}, Rec(u, gs, rs),
                        Put(NoWrites, u, [groups |-> gs, roles |-> rs])))

\* Update: the row gets the request's groups and roles; no row is no error.  The name
\* and the roleType of the body are not written, but kept in memory.
UpdateUser(p, u, name, super, gs, rs) ==
    /\ CanBegin(p) /\ ~Waits(p, u)
    /\ Begin(p, Request("updateUser", "selectGroups", u, {},
                        [Rec(name, gs, rs) EXCEPT !.super = super],
                        Written(p, u, [groups |-> gs, roles |-> rs])))

\* Delete: the row goes, its cache entry after the commit.
DeleteUser(p, u) ==
    /\ CanBegin(p) /\ ~Waits(p, u)
    /\ Begin(p, Request("deleteUser", "commit", u, {}, NoRow, Written(p, u, NoRow)))

\* GetUserInfo at the end of a login: a user that has no row ends the request.
LoginUser(p, u) ==
    /\ CanBegin(p)
    /\ db[u] # NoRow
    /\ Begin(p, Request("login", "selectGroups", u, {},
                        Rec(u, db[u].groups, db[u].roles), NoWrites))

\* Logout: one call on the map.
Logout(u) ==
    /\ cache[u] # NoRow
    /\ cache' = [cache EXCEPT ![u] = NoRow]
    /\ fresh' = fresh \ {u}
    /\ UNCHANGED <<db, tx, left>>

--------------------------------------------------------------------------------
(* The user group handler *)

CreateGroup(p, g, us, rs) ==
    /\ CanBegin(p) /\ ~Locked(p, g)
    /\ db[g] = NoRow
    /\ Begin(p, Request("createGroup", "fillUsers", g, us, NoRow,
                        Put(NoWrites, g, [roles |-> rs])))

UpdateGroup(p, g, us, rs) ==
    /\ CanBegin(p) /\ ~Waits(p, g)
    /\ Begin(p, Request("updateGroup", "fillUsers", g, us, NoRow,
                        Written(p, g, [roles |-> rs])))

\* Delete reads the row first; a missing one ends the request.
DeleteGroup(p, g) ==
    /\ CanBegin(p)
    /\ db[g] # NoRow
    /\ Begin(p, Request("deleteGroup", "deleteRow", g, {}, NoRow, NoWrites))

--------------------------------------------------------------------------------
(* The role handler *)

CreateRole(p, r, vs) ==
    /\ CanBegin(p) /\ ~Locked(p, r)
    /\ db[r] = NoRow
    /\ Begin(p, Request("createRole", "commit", r, {}, NoRow,
                        Put(NoWrites, r, [views |-> vs])))

UpdateRole(p, r, vs) ==
    /\ CanBegin(p) /\ ~Waits(p, r)
    /\ Begin(p, Request("updateRole", "fillUsers", r, {}, NoRow,
                        Written(p, r, [views |-> vs])))

\* Mutant: the count of the role's users is not checked.
DeleteRoleUnchecked(p, r) ==
    /\ CanBegin(p)
    /\ Begin(p, Request("deleteRole", "deleteRow", r, {}, NoRow, NoWrites))

\* Delete counts the user rows that list the role; any refuses the request.
DeleteRole(p, r) ==
    /\ CanBegin(p)
    /\ \A u \in Existing(db, Users) : r \notin db[u].roles
    /\ Begin(p, Request("deleteRole", "deleteRow", r, {}, NoRow, NoWrites))

--------------------------------------------------------------------------------
(* The statements the handlers share *)

\* DELETE of the group or role row; deleteGroup goes on with the members.
DeleteRow(p) ==
    /\ tx[p].pc = "deleteRow"
    /\ ~Waits(p, tx[p].id)
    /\ Step(p, [tx[p] EXCEPT !.writes = Written(p, tx[p].id, NoRow),
                             !.pc = IF tx[p].op = "deleteGroup" THEN "fillUsers" ELSE "commit"])

\* The users whose authority a group or role handler recomputes.
Affected(p) ==
    LET t == Seen(p) IN
    CASE tx[p].op \in {"createGroup", "updateGroup"} -> Existing(t, tx[p].members)
      [] tx[p].op = "deleteGroup" -> {u \in Existing(t, Users) : tx[p].id \in t[u].groups}
      [] tx[p].op = "updateRole"  -> {u \in Existing(t, Users) : tx[p].id \in t[u].roles}

\* Mutant: the roles are recomputed from the groups alone.
RegroupedRecForgetful(p, u, row) ==
    Rec(u, IF tx[p].op = "updateRole" THEN row.groups
           ELSE recombineSlices(row.groups, {tx[p].id}, tx[p].op = "deleteGroup"),
        {})

\* The groups of user u as the loop over the affected users sets them.
RegroupedRec(p, u, row) ==
    Rec(u, IF tx[p].op = "updateRole" THEN row.groups
           ELSE recombineSlices(row.groups, {tx[p].id}, tx[p].op = "deleteGroup"),
        row.roles)

\* Mutant: the user taken from the batch stays in it.
NextUserAgain(p, batch, writes) ==
    IF DOMAIN batch = {}
    THEN Step(p, [tx[p] EXCEPT !.pc = "commit", !.batch = batch, !.writes = writes,
                               !.rec = NoRow])
    ELSE \E u \in DOMAIN batch :
           Step(p, [tx[p] EXCEPT !.pc = "selectGroups", !.batch = batch,
                                 !.writes = writes, !.rec = RegroupedRec(p, u, batch[u])])

\* The head of the loop: the next user of the batch, in any order, or the commit.
NextUser(p, batch, writes) ==
    IF DOMAIN batch = {}
    THEN Step(p, [tx[p] EXCEPT !.pc = "commit", !.batch = batch, !.writes = writes,
                               !.rec = NoRow])
    ELSE \E u \in DOMAIN batch :
           Step(p, [tx[p] EXCEPT !.pc = "selectGroups", !.batch = Drop(batch, u),
                                 !.writes = writes, !.rec = RegroupedRec(p, u, batch[u])])

\* The select of the affected user rows: what the loop works from.
FillUsers(p) ==
    /\ tx[p].pc = "fillUsers"
    /\ NextUser(p, [u \in Affected(p) |-> Seen(p)[u]], tx[p].writes)

\* The handlers that put the user they compute into ActivityUsers.
Caching(op) == op \in {"createUser", "updateUser", "login"}

\* Where a handler goes on when reloadUserAuthority returns.
AfterReload(p) ==
    IF Caching(tx[p].op) THEN "commit" ELSE "writeBack"

\* reloadUserAuthority returns at once when the user's roleType is SUPER.
SkipReload(p) ==
    /\ tx[p].pc = "selectGroups" /\ tx[p].rec.super
    /\ Step(p, [tx[p] EXCEPT !.pc = AfterReload(p)])

\* Mutant: a user without roles of its own returns before its groups' roles join.
SelectGroupsEarlyReturn(p) ==
    LET roles == tx[p].rec.roles \cup GroupRoles(Seen(p), tx[p].rec.groups) IN
    /\ tx[p].pc = "selectGroups" /\ ~tx[p].rec.super
    /\ Step(p, [tx[p] EXCEPT !.rec.roles = roles,
                             !.pc = IF tx[p].rec.roles = {} THEN AfterReload(p)
                                                            ELSE "selectRoles"])

\* reloadUserAuthority, first select: the groups' roles join the user's own.
SelectGroups(p) ==
    LET roles == tx[p].rec.roles \cup GroupRoles(Seen(p), tx[p].rec.groups) IN
    /\ tx[p].pc = "selectGroups" /\ ~tx[p].rec.super
    /\ Step(p, [tx[p] EXCEPT !.rec.roles = roles,
                             !.pc = IF roles = {} THEN AfterReload(p) ELSE "selectRoles"])

\* reloadUserAuthority, second select: the views of the roles.
SelectRoles(p) ==
    /\ tx[p].pc = "selectRoles"
    /\ Step(p, [tx[p] EXCEPT !.rec.views = RoleViews(Seen(p), tx[p].rec.roles),
                             !.pc = AfterReload(p)])

\* updateUserToDB at the end of the loop's body: role_ids and user_group_ids.
WriteBack(p) ==
    LET rec == tx[p].rec IN
    /\ tx[p].pc = "writeBack"
    /\ ~Waits(p, rec.name)
    /\ NextUser(p, tx[p].batch,
                Written(p, rec.name, [groups |-> rec.groups, roles |-> rec.roles]))

--------------------------------------------------------------------------------
(* The end of a request *)

\* The handlers that touch ActivityUsers once their transaction is through.
Publishes(op) == Caching(op) \/ op = "deleteUser"

\* History: a commit by p spoils what the other workers have read so far.
Spoil(p, t) == [q \in Workers |-> IF q = p \/ t[q].pc = "idle" THEN t[q]
                                  ELSE [t[q] EXCEPT !.clean = FALSE]]

Commit(p) ==
    LET done == IF Publishes(tx[p].op)
                THEN [tx[p] EXCEPT !.pc = "publish", !.writes = NoWrites]
                ELSE Idle
    IN
    /\ tx[p].pc = "commit"
    /\ db' = Seen(p)
    /\ tx' = IF tx[p].writes = NoWrites THEN [tx EXCEPT ![p] = done]
             ELSE Spoil(p, [tx EXCEPT ![p] = done])
    /\ fresh' = {u \in Existing(db', fresh) : Authority(db', db'[u]) = Authority(db, db[u])}
    /\ UNCHANGED <<cache, left>>

\* The key of the entry a handler stores or removes: Update takes it from the body.
Entry(t) == IF Caching(t.op) THEN t.rec.name ELSE t.id

\* The user in memory is the one the request is about, and has an authority.
Own(t) == t.rec.name = t.id /\ ~t.rec.super

\* ActivityUsers.Store or .Delete, outside the transaction.
Publish(p) ==
    LET t == tx[p] IN
    /\ t.pc = "publish"
    /\ cache' = [cache EXCEPT ![Entry(t)] = IF ~Caching(t.op) THEN NoRow
                                            ELSE IF t.rec.super THEN NoAuthority
                                            ELSE t.rec.views]
    /\ fresh' = IF Caching(t.op) /\ t.clean /\ Own(t) THEN fresh \cup Existing(db, {t.id})
                                                       ELSE fresh \ {Entry(t)}
    /\ tx' = [tx EXCEPT ![p] = Idle]
    /\ UNCHANGED <<db, left>>

\* Mutant: a failed request leaves its rows behind.
AbortWithoutRollback(p) ==
    /\ tx[p].pc \notin {"idle", "publish"}
    /\ Step(p, [tx[p] EXCEPT !.pc = "idle"])

\* A statement or the commit fails: WithTx rolls back and the handler returns.
Abort(p) ==
    /\ tx[p].pc \notin {"idle", "publish"}
    /\ Step(p, Idle)

\* The database resolves a cycle of waiting transactions by failing one.
Blocked(p) == tx[p].pc = "writeBack" /\ Waits(p, tx[p].rec.name)
InDeadlock(p) ==
    \E S \in SUBSET Workers :
        /\ p \in S
        /\ \A q \in S : Blocked(q) /\ \E h \in S \ {q} : tx[q].rec.name \in DOMAIN tx[h].writes
BreakDeadlock(p) == InDeadlock(p) /\ Abort(p)

\* The process stops, at any point, and NewUserHandler fills the map again.
Restart ==
    /\ cache' = [u \in Users |-> IF db[u] = NoRow THEN NoRow ELSE Authority(db, db[u])]
    /\ tx' = [p \in Workers |-> Idle]
    /\ fresh' = Existing(db, Users)
    /\ UNCHANGED <<db, left>>

--------------------------------------------------------------------------------
(* The specification *)

\* The tables hold rows of their own kind.
Kind(i) == IF i \in Users THEN UserRow ELSE IF i \in Groups THEN GroupRow ELSE RoleRow
Typed(t) == \A i \in Ids : t[i] \in Kind(i) \cup {NoRow}

\* Every group and role a row names exists.
Consistent(t) ==
    /\ \A u \in Existing(t, Users) : \A i \in t[u].groups \cup t[u].roles : t[i] # NoRow
    /\ \A g \in Existing(t, Groups) : \A r \in t[g].roles : t[r] # NoRow

\* NewUserHandler has filled the map from a database of earlier requests.
Init ==
    /\ \E ut \in [Users -> UserRow \cup {NoRow}],
          gt \in [Groups -> GroupRow \cup {NoRow}],
          rt \in [Roles -> RoleRow \cup {NoRow}] :
         db = [i \in Ids |-> IF i \in Users THEN ut[i] ELSE IF i \in Groups THEN gt[i] ELSE rt[i]]
    /\ Consistent(db)
    /\ cache = [u \in Users |-> IF db[u] = NoRow THEN NoRow ELSE Authority(db, db[u])]
    /\ tx = [p \in Workers |-> Idle]
    /\ left = MaxRequests
    /\ fresh = Existing(db, Users)

\* Requests name groups, roles and users the client has seen in a list.
UserRequests(p) ==
    \E u \in Users :
        \/ \E gs \in SUBSET Existing(db, Groups), rs \in SUBSET Existing(db, Roles) :
               \/ CreateUser(p, u, gs, rs)
               \/ \E name \in Users, super \in BOOLEAN : UpdateUser(p, u, name, super, gs, rs)
        \/ DeleteUser(p, u)
        \/ LoginUser(p, u)

GroupRequests(p) ==
    \E g \in Groups :
        \/ \E us \in SUBSET Existing(db, Users), rs \in SUBSET Existing(db, Roles) :
               CreateGroup(p, g, us, rs) \/ UpdateGroup(p, g, us, rs)
        \/ DeleteGroup(p, g)

RoleRequests(p) ==
    \E r \in Roles :
        \/ \E vs \in SUBSET Views : CreateRole(p, r, vs) \/ UpdateRole(p, r, vs)
        \/ DeleteRole(p, r)

Proceed(p) ==
    \/ DeleteRow(p) \/ FillUsers(p) \/ SkipReload(p) \/ SelectGroups(p) \/ SelectRoles(p)
    \/ WriteBack(p) \/ Commit(p) \/ Publish(p)

Next ==
    \/ \E p \in Workers :
           \/ "user" \in Resources /\ UserRequests(p)
           \/ "group" \in Resources /\ GroupRequests(p)
           \/ "role" \in Resources /\ RoleRequests(p)
           \/ Proceed(p)
           \/ Abort(p)
    \/ \E u \in Users : Logout(u)
    \/ Restart

\* Goroutines keep running and the database finds deadlocks; nobody has to call.
Fairness == \A p \in Workers : WF_vars(Proceed(p)) /\ WF_vars(BreakDeadlock(p))

Spec == Init /\ [][Next]_vars /\ Fairness

--------------------------------------------------------------------------------
(* Properties *)

Partial(D, R) == UNION {[S -> R] : S \in SUBSET D}

Ops == {"createUser", "updateUser", "deleteUser", "login", "createGroup", "updateGroup",
        "deleteGroup", "createRole", "updateRole", "deleteRole"}
Pcs == {"idle", "fillUsers", "selectGroups", "selectRoles", "writeBack", "deleteRow",
        "commit", "publish"}

TxType == [op : Ops \cup {"none"}, pc : Pcs, id : Ids \cup {NoRow}, members : SUBSET Users,
           rec : RecType \cup {NoRow}, batch : Partial(Users, UserRow),
           writes : Partial(Ids, Row \cup {NoRow}), clean : BOOLEAN]

\* Committed and uncommitted rows are of their table's kind; a worker that is idle
\* or done with its transaction has no uncommitted row; the user in memory is there
\* when a statement uses it or it gets cached, and is SUPER in an update only.
Batching(op) == op \in {"createGroup", "updateGroup", "deleteGroup", "updateRole"}

TxOK(t) ==
    /\ t \in TxType
    /\ Typed(Overlay(t.writes))
    /\ t.pc \in {"idle", "publish"} => t.writes = NoWrites
    /\ t.pc \in {"selectGroups", "selectRoles", "writeBack"} => t.rec \in RecType
    /\ t.pc # "idle" => t.op \in Ops /\ t.id \in Ids
    /\ t.pc = "publish" => Publishes(t.op)
    /\ t.pc \in {"fillUsers", "writeBack"} => Batching(t.op)
    /\ t.pc \in {"selectGroups", "selectRoles"} => Batching(t.op) \/ Caching(t.op)
    /\ t.pc = "deleteRow" => t.op \in {"deleteGroup", "deleteRole"}
    /\ t.op \in {"createGroup", "updateGroup", "deleteGroup"} => t.id \in Groups
    /\ t.op \in {"updateRole", "deleteRole"} => t.id \in Roles
    /\ Publishes(t.op) => t.id \in Users
    /\ t.pc # "idle" /\ Caching(t.op) => t.rec \in RecType
    /\ t.rec # NoRow /\ t.rec.super => t.op = "updateUser"

TypeOK ==
    /\ db \in [Ids -> Row \cup {NoRow}] /\ Typed(db)
    /\ cache \in [Users -> (SUBSET Views) \cup {NoRow, NoAuthority}]
    /\ tx \in [Workers -> TxType]
    /\ left \in 0..MaxRequests
    /\ fresh \subseteq Users
    /\ \A p \in Workers : TxOK(tx[p])

\* The authority checked on every request (ActivityUsers) is the one the database
\* grants: no handler computes it from half of a user's groups and roles, or from the
\* row as it was before its own update.  It speaks of the entries a start, a login, a
\* create or an update made, of an update only when its body names the user it is sent
\* to and not the roleType SUPER (else the entry is another user's, or has no authority).
\* It does not speak of an entry after a commit fell between the reads it was computed
\* from and its Store, or changed what it depends on: CachedAuthorityIsCurrent does, and
\* fails.
FreshEntryIsExact ==
    \A u \in fresh : db[u] # NoRow /\ cache[u] = Authority(db, db[u])

\* A group create or update reaches its members: once it is committed, each user it
\* was given that it wrote, and each one that existed if nothing else was committed
\* meanwhile, is in the group and carries the roles of the group in its own row
\* (an update that finds no group row writes none, and still makes members of it).
GroupChangeReachesMembers ==
    [][\A p \in Workers :
         Commit(p) /\ tx[p].op \in {"createGroup", "updateGroup"} =>
           \A u \in Existing(db', tx[p].members) :
             tx[p].clean \/ u \in DOMAIN tx[p].writes =>
               /\ tx[p].id \in db'[u].groups
               /\ tx[p].id \in DOMAIN tx[p].writes => db'[tx[p].id].roles \subseteq db'[u].roles]_vars

\* Deleting a group or a role leaves no user row that names it, unless another
\* request committed while the delete ran (the members of the group and the count of
\* the role's users are read before the commit, under no lock).
DeleteLeavesNoUserReference ==
    [][\A p \in Workers :
         Commit(p) /\ tx[p].op \in {"deleteGroup", "deleteRole"} /\ tx[p].clean =>
           \A u \in Existing(db', Users) : tx[p].id \notin db'[u].groups \cup db'[u].roles]_vars

\* Group and role handlers only ever add to the role_ids of a user, when they run
\* alone: roles a group once brought stay in the row when the group goes, and only
\* an edit of the user takes them away.
OnlyUserEditsRevokeRoles ==
    [][\A p \in Workers :
         Commit(p) /\ tx[p].op \notin {"updateUser", "deleteUser"} /\ tx[p].clean =>
           \A u \in Existing(db, Users) : db'[u] # NoRow /\ db[u].roles \subseteq db'[u].roles]_vars

\* Every request ends: row locks taken in the order of a select without "order by"
\* can make two group or role handlers wait for each other, and the one the
\* database fails lets the other go on.
RequestsFinish == \A p \in Workers : tx[p].pc # "idle" ~> tx[p].pc = "idle"

\* "A user can choose several user groups": putting a user into a group never takes
\* it out of another.
JoiningKeepsOtherGroups ==
    [][\A p \in Workers :
         Commit(p) /\ tx[p].op \in {"createGroup", "updateGroup"} =>
           \A u \in Existing(db, Users) : db[u].groups \subseteq db'[u].groups]_vars

\* "Creating or updating a user, a user group or a role updates this table": when no
\* request is running, the cached authority of a user is what the database grants.
CachedAuthorityIsCurrent ==
    (\A p \in Workers : tx[p].pc = "idle") =>
      \A u \in Existing(db, Users) : cache[u] \in {NoRow, Authority(db, db[u])}
================================================================================
