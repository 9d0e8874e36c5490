---------------------------- MODULE DirectoryProofs ----------------------------
(***************************************************************************)
(* Proofs about the directory, for any sets of users, groups, roles, views *)
(* and workers and any number of requests: of states first, then of what a *)
(* commit changes.                                                         *)
(***************************************************************************)
EXTENDS Directory, TLAPS

\* A worker that will cache the user of its row, while nobody else commits, has the
\* user's own groups and roles before the first select, all of its roles before the
\* second and its authority from then on, as its transaction sees the tables.
ReloadIsExact(t) ==
    LET seen == Overlay(t.writes)
        row == seen[t.id]
    IN
    Caching(t.op) /\ t.clean /\ t.pc # "idle" /\ Own(t) /\ row # NoRow =>
      /\ t.pc = "selectGroups" =>
           t.rec.groups = row.groups /\ t.rec.roles = row.roles /\ t.rec.views = {}
      /\ t.pc = "selectRoles" => t.rec.roles = row.roles \cup GroupRoles(seen, row.groups)
      /\ t.pc \in {"commit", "publish"} => t.rec.views = Authority(seen, row)

\* The inductive invariant.
TxInv(t) == TxOK(t) /\ ReloadIsExact(t)

IInv == TypeOK /\ (\A p \in Workers : ReloadIsExact(tx[p])) /\ FreshEntryIsExact

--------------------------------------------------------------------------------
(* Partial functions and tables *)

\* Put gives a partial function with one more point of its own kind (the write
\* buffer of a transaction).
LEMMA PutType ==
    ASSUME NEW D, NEW R, NEW f \in Partial(D, R), NEW x \in D, NEW v \in R
    PROVE  Put(f, x, v) \in Partial(D, R)
<1>1. PICK S \in SUBSET D : f \in [S -> R]
  BY DEF Partial
<1>2. DOMAIN f \cup {x} \in SUBSET D
  BY <1>1
<1>3. Put(f, x, v) \in [DOMAIN f \cup {x} -> R]
  BY <1>1 DEF Put
<1>. QED
  BY <1>2, <1>3 DEF Partial

\* Drop keeps a partial function partial (the batch of users still to update).
LEMMA DropType ==
    ASSUME NEW D, NEW R, NEW f \in Partial(D, R), NEW x
    PROVE  Drop(f, x) \in Partial(D, R)
<1>1. PICK S \in SUBSET D : f \in [S -> R]
  BY DEF Partial
<1>2. DOMAIN f \ {x} \in SUBSET D
  BY <1>1
<1>3. Drop(f, x) \in [DOMAIN f \ {x} -> R]
  BY <1>1 DEF Drop
<1>. QED
  BY <1>2, <1>3 DEF Partial

\* The empty buffer is a partial function.
LEMMA NoWritesType ==
    ASSUME NEW D, NEW R
    PROVE  NoWrites \in Partial(D, R)
<1>1. {} \in SUBSET D
  OBVIOUS
<1>2. NoWrites \in [{} -> R]
  BY DEF NoWrites
<1>. QED
  BY <1>1, <1>2 DEF Partial

\* A transaction that has written nothing sees the committed tables.
LEMMA OverlayNothing ==
    ASSUME TypeOK
    PROVE  Overlay(NoWrites) = db
<1>1. db = [i \in Ids |-> db[i]]
  BY DEF TypeOK
<1>2. DOMAIN NoWrites = {}
  BY DEF NoWrites
<1>. QED
  BY <1>1, <1>2 DEF Overlay

\* A row put in the buffer changes what the transaction sees at that row only.
LEMMA OverlayPut ==
    ASSUME NEW w, NEW x \in Ids, NEW v
    PROVE  /\ Overlay(Put(w, x, v))[x] = v
           /\ \A i \in Ids \ {x} : Overlay(Put(w, x, v))[i] = Overlay(w)[i]
  BY DEF Overlay, Put

\* A row of the right kind keeps the tables typed.
LEMMA TypedPut ==
    ASSUME NEW w, NEW x \in Ids, NEW v \in Kind(x) \cup {NoRow}, Typed(Overlay(w))
    PROVE  Typed(Overlay(Put(w, x, v)))
  BY OverlayPut DEF Typed

\* Rows of a kind are rows; each table has its own kind.
LEMMA Kinds ==
    /\ \A i \in Ids : Kind(i) \subseteq Row
    /\ \A u \in Users : Kind(u) = UserRow
    /\ \A g \in Groups : Kind(g) = GroupRow
    /\ \A r \in Roles : Kind(r) = RoleRow
    /\ NoRow \notin Row /\ NoRow \notin RecType
  BY IdsAssumption DEF Kind, Row, Ids

\* The selects of reloadUserAuthority return roles and views.
LEMMA SelectTypes ==
    ASSUME NEW t, Typed(t)
    PROVE  /\ \A gs \in SUBSET Groups : GroupRoles(t, gs) \in SUBSET Roles
           /\ \A rs \in SUBSET Roles : RoleViews(t, rs) \in SUBSET Views
<1>1. \A g \in Groups : t[g] # NoRow => t[g].roles \in SUBSET Roles
  <2>. TAKE g \in Groups
  <2>1. t[g] \in GroupRow \cup {NoRow}
    BY Kinds DEF Typed, Ids
  <2>. QED
    BY <2>1 DEF GroupRow
<1>2. \A r \in Roles : t[r] # NoRow => t[r].views \in SUBSET Views
  <2>. TAKE r \in Roles
  <2>1. t[r] \in RoleRow \cup {NoRow}
    BY Kinds DEF Typed, Ids
  <2>. QED
    BY <2>1 DEF RoleRow
<1>3. ASSUME NEW gs \in SUBSET Groups
      PROVE  GroupRoles(t, gs) \in SUBSET Roles
  <2>1. \A g \in Existing(t, gs) : t[g].roles \subseteq Roles
    BY <1>1 DEF Existing
  <2>. QED
    BY <2>1, Zenon DEF GroupRoles
<1>4. ASSUME NEW rs \in SUBSET Roles
      PROVE  RoleViews(t, rs) \in SUBSET Views
  <2>1. \A r \in Existing(t, rs) : t[r].views \subseteq Views
    BY <1>2 DEF Existing
  <2>. QED
    BY <2>1, Zenon DEF RoleViews
<1>. QED
  BY <1>3, <1>4

\* No roles bring no views: the early return of reloadUserAuthority.
LEMMA NoRolesNoViews ==
    ASSUME NEW t
    PROVE  RoleViews(t, {}) = {}
  BY Zenon DEF RoleViews, Existing

\* The authority of a user row is a set of views.
LEMMA AuthorityType ==
    ASSUME NEW t, Typed(t), NEW row \in UserRow
    PROVE  Authority(t, row) \in SUBSET Views
<1>1. row.roles \cup GroupRoles(t, row.groups) \in SUBSET Roles
  BY SelectTypes DEF UserRow
<1>. QED
  BY <1>1, SelectTypes DEF Authority

--------------------------------------------------------------------------------
(* Steps of one request *)

\* A step that only changes what worker p is doing keeps the invariant if the new
\* state of p is good.
LEMMA StepKeepsInv ==
    ASSUME IInv, NEW p \in Workers, NEW t, TxInv(t), Step(p, t) \/ Begin(p, t)
    PROVE  IInv'
<1>1. db' = db /\ cache' = cache /\ fresh' = fresh /\ left' \in 0..MaxRequests
  BY BoundAssumption DEF IInv, TypeOK, Step, Begin
<1>2. \A q \in Workers : tx'[q] = IF q = p THEN t ELSE tx[q]
  BY DEF IInv, TypeOK, Step, Begin
<1>3. tx' \in [Workers -> TxType]
  BY <1>2 DEF IInv, TypeOK, Step, Begin, TxInv, TxOK
<1>4. \A q \in Workers : TxInv(tx'[q])
  BY <1>2 DEF IInv, TypeOK, TxInv
<1>6. \A q \in Workers : TxOK(tx[q])'
  BY <1>4, <1>1 DEF TxInv, TxOK, Typed, Overlay
<1>7. \A q \in Workers : ReloadIsExact(tx[q])'
  BY <1>4, <1>1 DEF TxInv, ReloadIsExact, Overlay
<1>8. FreshEntryIsExact'
  BY <1>1 DEF IInv, FreshEntryIsExact
<1>. QED
  BY <1>1, <1>3, <1>6, <1>7, <1>8 DEF IInv, TypeOK

\* The state of a worker without a transaction.
LEMMA IdleInv == TypeOK => TxInv(Idle)
<1>. SUFFICES ASSUME TypeOK PROVE TxInv(Idle)
  OBVIOUS
<1>1. Idle \in TxType
  BY NoWritesType DEF Idle, Request, TxType, Pcs
<1>2. Typed(Overlay(NoWrites))
  BY OverlayNothing DEF TypeOK
<1>. QED
  BY <1>1, <1>2 DEF TxInv, TxOK, ReloadIsExact, Idle, Request, Batching, Caching, Publishes

\* The user in memory, before the selects.
LEMMA RecTypes ==
    ASSUME NEW u \in Users, NEW gs \in SUBSET Groups, NEW rs \in SUBSET Roles
    PROVE  /\ Rec(u, gs, rs) \in RecType /\ ~Rec(u, gs, rs).super
           /\ [groups |-> gs, roles |-> rs] \in UserRow
  BY DEF Rec, RecType, UserRow

\* Writes of an idle worker start from nothing.
LEMMA FirstWrite ==
    ASSUME IInv, NEW p \in Workers, tx[p].pc = "idle",
           NEW i \in Ids, NEW row \in Kind(i) \cup {NoRow}
    PROVE  /\ Put(NoWrites, i, row) \in Partial(Ids, Row \cup {NoRow})
           /\ Typed(Overlay(Put(NoWrites, i, row)))
           /\ Overlay(Put(NoWrites, i, row))[i] = row
           /\ Seen(p) = db
           /\ Written(p, i, row) \in {NoWrites, Put(NoWrites, i, row)}
           /\ db[i] = NoRow => Written(p, i, row) = NoWrites
           /\ db[i] # NoRow => Written(p, i, row) = Put(NoWrites, i, row)
<1>1. TypeOK /\ tx[p].writes = NoWrites
  BY DEF IInv, TypeOK, TxOK
<1>2. Seen(p) = db
  BY <1>1, OverlayNothing DEF Seen
<1>3. row \in Row \cup {NoRow}
  BY Kinds
<1>4. Put(NoWrites, i, row) \in Partial(Ids, Row \cup {NoRow})
  BY <1>3, NoWritesType, PutType
<1>5. Typed(Overlay(NoWrites))
  BY <1>1, OverlayNothing DEF TypeOK
<1>6. Typed(Overlay(Put(NoWrites, i, row)))
  BY <1>5, TypedPut
<1>7. Overlay(Put(NoWrites, i, row))[i] = row
  BY DEF Overlay, Put
<1>. QED
  BY <1>1, <1>2, <1>4, <1>6, <1>7 DEF Written

\* A new request is a good state of a worker, its rows being typed and the user in
\* memory, if it is to be cached, being the one the request is about.
LEMMA RequestInv ==
    ASSUME IInv, NEW op \in Ops, NEW pc \in Pcs \ {"idle", "publish", "writeBack", "selectRoles"},
           NEW i \in Ids, NEW us \in SUBSET Users, NEW rec \in RecType \cup {NoRow},
           NEW w \in Partial(Ids, Row \cup {NoRow}), Typed(Overlay(w)),
           Caching(op) => pc = "selectGroups" /\ i \in Users /\ rec \in RecType,
           ~Caching(op) => pc # "selectGroups",
           pc = "fillUsers" => Batching(op),
           pc = "deleteRow" => op \in {"deleteGroup", "deleteRole"},
           op = "deleteUser" => i \in Users,
           op \in {"createGroup", "updateGroup", "deleteGroup"} => i \in Groups,
           op \in {"updateRole", "deleteRole"} => i \in Roles,
           rec # NoRow /\ rec.super => op = "updateUser",
           Caching(op) /\ Overlay(w)[i] # NoRow =>
             /\ rec.groups = Overlay(w)[i].groups
             /\ rec.roles = Overlay(w)[i].roles
             /\ rec.views = {}
    PROVE  TxInv(Request(op, pc, i, us, rec, w))
<1>. DEFINE t == Request(op, pc, i, us, rec, w)
<1>1. t \in TxType
  BY NoWritesType DEF Request, TxType
<1>2. TxOK(t)
  BY <1>1 DEF TxOK, Request, Publishes
<1>3. ReloadIsExact(t)
  BY DEF ReloadIsExact, Request
<1>. QED
  BY <1>2, <1>3 DEF TxInv

\* A new user row carries exactly what the user in memory carries.
LEMMA CreateUserKeepsInv ==
    ASSUME IInv, NEW p \in Workers, NEW u \in Users,
           NEW gs \in SUBSET Groups, NEW rs \in SUBSET Roles, CreateUser(p, u, gs, rs)
    PROVE  IInv'
<1>. DEFINE row == [groups |-> gs, roles |-> rs]
            w == Put(NoWrites, u, row)
            t == Request("createUser", "selectGroups", u, {}, Rec(u, gs, rs), w)
<1>1. Begin(p, t) /\ tx[p].pc = "idle"
  BY DEF CreateUser, CanBegin
<1>2. u \in Ids /\ row \in Kind(u) /\ Rec(u, gs, rs) \in RecType
  BY RecTypes, Kinds DEF Ids
<1>3. w \in Partial(Ids, Row \cup {NoRow}) /\ Typed(Overlay(w)) /\ Overlay(w)[u] = row
  BY <1>1, <1>2, FirstWrite
<1>4. Rec(u, gs, rs).groups = row.groups /\ Rec(u, gs, rs).roles = row.roles
      /\ Rec(u, gs, rs).views = {} /\ ~Rec(u, gs, rs).super
  BY DEF Rec
<1>5. TxInv(t)
  <2>. HIDE DEF w, row
  <2>. QED
    BY <1>2, <1>3, <1>4, RequestInv DEF Ops, Pcs, Caching, Batching
<1>. QED
  BY <1>1, <1>5, StepKeepsInv

\* The writes of a first statement, whether it finds the row or not.
LEMMA FirstWritten ==
    ASSUME IInv, NEW p \in Workers, tx[p].pc = "idle",
           NEW i \in Ids, NEW row \in Kind(i) \cup {NoRow}
    PROVE  /\ Written(p, i, row) \in Partial(Ids, Row \cup {NoRow})
           /\ Typed(Overlay(Written(p, i, row)))
           /\ Overlay(Written(p, i, row))[i] \in {row, NoRow}
<1>1. CASE db[i] = NoRow
  <2>1. Written(p, i, row) = NoWrites
    BY <1>1, FirstWrite
  <2>. QED
    BY <1>1, <2>1, OverlayNothing, NoWritesType DEF IInv, TypeOK
<1>2. CASE db[i] # NoRow
  <2>1. Written(p, i, row) = Put(NoWrites, i, row)
    BY <1>2, FirstWrite
  <2>. QED
    BY <2>1, FirstWrite
<1>. QED
  BY <1>1, <1>2

\* An update of a missing row leaves nothing to compare the user in memory with; the
\* name and the roleType of its body may be any.
LEMMA UpdateUserKeepsInv ==
    ASSUME IInv, NEW p \in Workers, NEW u \in Users, NEW name \in Users, NEW super \in BOOLEAN,
           NEW gs \in SUBSET Groups, NEW rs \in SUBSET Roles,
           UpdateUser(p, u, name, super, gs, rs)
    PROVE  IInv'
<1>. DEFINE row == [groups |-> gs, roles |-> rs]
            w == Written(p, u, row)
            rec == [Rec(name, gs, rs) EXCEPT !.super = super]
            t == Request("updateUser", "selectGroups", u, {}, rec, w)
<1>1. Begin(p, t) /\ tx[p].pc = "idle"
  BY DEF UpdateUser, CanBegin
<1>2. u \in Ids /\ row \in Kind(u)
  BY RecTypes, Kinds DEF Ids
<1>3. w \in Partial(Ids, Row \cup {NoRow}) /\ Typed(Overlay(w)) /\ Overlay(w)[u] \in {row, NoRow}
  BY <1>1, <1>2, FirstWritten
<1>4. rec \in RecType /\ rec.groups = row.groups /\ rec.roles = row.roles /\ rec.views = {}
  BY DEF Rec, RecType
<1>5. TxInv(t)
  <2>. HIDE DEF w, row, rec
  <2>. QED
    BY <1>2, <1>3, <1>4, RequestInv DEF Ops, Pcs, Caching, Batching
<1>. QED
  BY <1>1, <1>5, StepKeepsInv

\* A login starts from the committed row.
LEMMA LoginUserKeepsInv ==
    ASSUME IInv, NEW p \in Workers, NEW u \in Users, LoginUser(p, u)
    PROVE  IInv'
<1>. DEFINE rec == Rec(u, db[u].groups, db[u].roles)
            t == Request("login", "selectGroups", u, {}, rec, NoWrites)
<1>1. Begin(p, t) /\ db[u] # NoRow
  BY DEF LoginUser
<1>2. u \in Ids /\ db[u] \in UserRow
  BY <1>1, Kinds DEF IInv, TypeOK, Typed, Ids
<1>3. rec \in RecType
  BY <1>2, RecTypes DEF UserRow
<1>4. Typed(Overlay(NoWrites)) /\ Overlay(NoWrites)[u] = db[u]
  BY OverlayNothing DEF IInv, TypeOK
<1>5. rec.groups = db[u].groups /\ rec.roles = db[u].roles /\ rec.views = {} /\ ~rec.super
  BY DEF Rec
<1>6. TxInv(t)
  <2>. HIDE DEF rec
  <2>. QED
    BY <1>2, <1>3, <1>4, <1>5, NoWritesType, RequestInv DEF Ops, Pcs, Caching, Batching
<1>. QED
  BY <1>1, <1>6, StepKeepsInv

\* The other requests cache nothing they compute.
LEMMA OtherRequestsKeepInv ==
    ASSUME IInv, NEW p \in Workers,
           \/ \E u \in Users : DeleteUser(p, u)
           \/ GroupRequests(p)
           \/ RoleRequests(p)
    PROVE  IInv'
<1>1. Users \subseteq Ids /\ Groups \subseteq Ids /\ Roles \subseteq Ids
  BY DEF Ids
<1>2. /\ \A g \in Groups, rs \in SUBSET Roles : [roles |-> rs] \in Kind(g)
      /\ \A r \in Roles, vs \in SUBSET Views : [views |-> vs] \in Kind(r)
  BY Kinds DEF GroupRow, RoleRow
<1>3. NoWrites \in Partial(Ids, Row \cup {NoRow}) /\ Typed(Overlay(NoWrites))
  BY OverlayNothing, NoWritesType DEF IInv, TypeOK
<1>4. tx[p].pc = "idle"
  BY DEF DeleteUser, CreateGroup, UpdateGroup, DeleteGroup, CreateRole, UpdateRole,
         DeleteRole, CanBegin, GroupRequests, RoleRequests
<1>5. ASSUME NEW u \in Users,
             DeleteUser(p, u)
      PROVE  IInv'
  <2>1. Begin(p, Request("deleteUser", "commit", u, {}, NoRow, Written(p, u, NoRow)))
    BY <1>5 DEF DeleteUser
  <2>2. TxInv(Request("deleteUser", "commit", u, {}, NoRow, Written(p, u, NoRow)))
    BY <1>1, <1>4, FirstWritten, RequestInv DEF Ops, Pcs, Caching, Batching
  <2>. QED
    BY <2>1, <2>2, StepKeepsInv
<1>6. ASSUME NEW g \in Groups, NEW us \in SUBSET Users, NEW rs \in SUBSET Roles,
             CreateGroup(p, g, us, rs)
      PROVE  IInv'
  <2>. DEFINE w == Put(NoWrites, g, [roles |-> rs])
  <2>1. Begin(p, Request("createGroup", "fillUsers", g, us, NoRow, w))
    BY <1>6 DEF CreateGroup
  <2>2. TxInv(Request("createGroup", "fillUsers", g, us, NoRow, w))
    BY <1>1, <1>2, <1>4, FirstWrite, RequestInv DEF Ops, Pcs, Caching, Batching
  <2>. QED
    BY <2>1, <2>2, StepKeepsInv
<1>7. ASSUME NEW g \in Groups, NEW us \in SUBSET Users, NEW rs \in SUBSET Roles,
             UpdateGroup(p, g, us, rs)
      PROVE  IInv'
  <2>. DEFINE w == Written(p, g, [roles |-> rs])
  <2>1. Begin(p, Request("updateGroup", "fillUsers", g, us, NoRow, w))
    BY <1>7 DEF UpdateGroup
  <2>2. TxInv(Request("updateGroup", "fillUsers", g, us, NoRow, w))
    BY <1>1, <1>2, <1>4, FirstWritten, RequestInv DEF Ops, Pcs, Caching, Batching
  <2>. QED
    BY <2>1, <2>2, StepKeepsInv
<1>8. ASSUME NEW g \in Groups,
             DeleteGroup(p, g)
      PROVE  IInv'
  <2>1. Begin(p, Request("deleteGroup", "deleteRow", g, {}, NoRow, NoWrites))
    BY <1>8 DEF DeleteGroup
  <2>2. TxInv(Request("deleteGroup", "deleteRow", g, {}, NoRow, NoWrites))
    BY <1>1, <1>3, RequestInv DEF Ops, Pcs, Caching, Batching
  <2>. QED
    BY <2>1, <2>2, StepKeepsInv
<1>9. ASSUME NEW r \in Roles, NEW vs \in SUBSET Views,
             CreateRole(p, r, vs)
      PROVE  IInv'
  <2>. DEFINE w == Put(NoWrites, r, [views |-> vs])
  <2>1. Begin(p, Request("createRole", "commit", r, {}, NoRow, w))
    BY <1>9 DEF CreateRole
  <2>2. TxInv(Request("createRole", "commit", r, {}, NoRow, w))
    BY <1>1, <1>2, <1>4, FirstWrite, RequestInv DEF Ops, Pcs, Caching, Batching
  <2>. QED
    BY <2>1, <2>2, StepKeepsInv
<1>10. ASSUME NEW r \in Roles, NEW vs \in SUBSET Views,
             UpdateRole(p, r, vs)
      PROVE  IInv'
  <2>. DEFINE w == Written(p, r, [views |-> vs])
  <2>1. Begin(p, Request("updateRole", "fillUsers", r, {}, NoRow, w))
    BY <1>10 DEF UpdateRole
  <2>2. TxInv(Request("updateRole", "fillUsers", r, {}, NoRow, w))
    BY <1>1, <1>2, <1>4, FirstWritten, RequestInv DEF Ops, Pcs, Caching, Batching
  <2>. QED
    BY <2>1, <2>2, StepKeepsInv
<1>11. ASSUME NEW r \in Roles,
             DeleteRole(p, r)
      PROVE  IInv'
  <2>1. Begin(p, Request("deleteRole", "deleteRow", r, {}, NoRow, NoWrites))
    BY <1>11 DEF DeleteRole
  <2>2. TxInv(Request("deleteRole", "deleteRow", r, {}, NoRow, NoWrites))
    BY <1>1, <1>3, RequestInv DEF Ops, Pcs, Caching, Batching
  <2>. QED
    BY <2>1, <2>2, StepKeepsInv
<1>12. CASE \E u \in Users : DeleteUser(p, u)
  BY <1>5, <1>12
<1>13. CASE GroupRequests(p)
  <2>1. PICK g \in Groups :
          \/ \E us \in SUBSET Users, rs \in SUBSET Roles :
                CreateGroup(p, g, us, rs) \/ UpdateGroup(p, g, us, rs)
          \/ DeleteGroup(p, g)
    BY <1>13 DEF GroupRequests, Existing
  <2>. QED
    BY <1>6, <1>7, <1>8, <2>1
<1>14. CASE RoleRequests(p)
  <2>1. PICK r \in Roles :
          \/ \E vs \in SUBSET Views : CreateRole(p, r, vs) \/ UpdateRole(p, r, vs)
          \/ DeleteRole(p, r)
    BY <1>14 DEF RoleRequests
  <2>. QED
    BY <1>9, <1>10, <1>11, <2>1
<1>. QED
  BY <1>12, <1>13, <1>14

--------------------------------------------------------------------------------
(* The statements in the middle of a transaction *)

\* Any later write keeps the tables of the transaction typed.
LEMMA WrittenType ==
    ASSUME IInv, NEW p \in Workers, NEW i \in Ids, NEW row \in Kind(i) \cup {NoRow}
    PROVE  /\ Written(p, i, row) \in Partial(Ids, Row \cup {NoRow})
           /\ Typed(Overlay(Written(p, i, row)))
<1>1. tx[p].writes \in Partial(Ids, Row \cup {NoRow}) /\ Typed(Overlay(tx[p].writes))
  BY DEF IInv, TypeOK, TxOK, TxType
<1>2. row \in Row \cup {NoRow}
  BY Kinds
<1>3. Put(tx[p].writes, i, row) \in Partial(Ids, Row \cup {NoRow})
  BY <1>1, <1>2, PutType
<1>4. Typed(Overlay(Put(tx[p].writes, i, row)))
  BY <1>1, TypedPut
<1>. QED
  BY <1>1, <1>3, <1>4 DEF Written

\* What a worker is doing is good, and its tables are typed.
LEMMA WorkerType ==
    ASSUME IInv, NEW p \in Workers
    PROVE  tx[p] \in TxType /\ TxOK(tx[p]) /\ ReloadIsExact(tx[p]) /\ Typed(Seen(p))
  BY DEF IInv, TypeOK, TxOK, Seen

\* The delete statement of a group or a role handler.
LEMMA DeleteRowKeepsInv ==
    ASSUME IInv, NEW p \in Workers, DeleteRow(p)
    PROVE  IInv'
<1>. DEFINE w == Written(p, tx[p].id, NoRow)
            t == [tx[p] EXCEPT !.writes = w,
                    !.pc = IF tx[p].op = "deleteGroup" THEN "fillUsers" ELSE "commit"]
<1>1. Step(p, t)
  BY DEF DeleteRow
<1>2. tx[p].pc = "deleteRow" /\ tx[p].op \in {"deleteGroup", "deleteRole"} /\ tx[p].id \in Ids
  BY WorkerType DEF DeleteRow, TxOK
<1>3. w \in Partial(Ids, Row \cup {NoRow}) /\ Typed(Overlay(w))
  BY <1>2, WrittenType
<1>4. TxInv(t)
  <2>. HIDE DEF w
  <2>1. t \in TxType
    BY <1>3, WorkerType DEF TxType, Pcs
  <2>2. TxOK(t)
    BY <1>2, <1>3, <2>1, WorkerType DEF TxOK, TxType, Batching, Caching, Publishes
  <2>3. ReloadIsExact(t)
    BY <1>2, WorkerType DEF ReloadIsExact, Caching, TxType
  <2>. QED
    BY <2>2, <2>3 DEF TxInv
<1>. QED
  BY <1>1, <1>4, StepKeepsInv

\* The head of the loop over the affected users caches nothing.
LEMMA NextUserKeepsInv ==
    ASSUME IInv, NEW p \in Workers, Batching(tx[p].op), tx[p].pc # "idle",
           NEW batch \in Partial(Users, UserRow),
           NEW w \in Partial(Ids, Row \cup {NoRow}), Typed(Overlay(w)),
           NextUser(p, batch, w)
    PROVE  IInv'
<1>1. ~Caching(tx[p].op)
  BY DEF Batching, Caching
<1>2. CASE DOMAIN batch = {}
  <2>. DEFINE t == [tx[p] EXCEPT !.pc = "commit", !.batch = batch, !.writes = w, !.rec = NoRow]
  <2>1. Step(p, t)
    BY <1>2 DEF NextUser
  <2>2. t \in TxType
    BY WorkerType DEF TxType, Pcs
  <2>3. TxOK(t)
    BY <1>1, <2>2, WorkerType DEF TxOK, TxType
  <2>4. ReloadIsExact(t)
    BY <1>1, WorkerType DEF ReloadIsExact, TxType
  <2>. QED
    BY <2>1, <2>3, <2>4, StepKeepsInv DEF TxInv
<1>3. CASE DOMAIN batch # {}
  <2>1. PICK u \in DOMAIN batch :
          Step(p, [tx[p] EXCEPT !.pc = "selectGroups", !.batch = Drop(batch, u),
                                !.writes = w, !.rec = RegroupedRec(p, u, batch[u])])
    BY <1>3 DEF NextUser
  <2>. DEFINE rec == RegroupedRec(p, u, batch[u])
              rest == Drop(batch, u)
              t == [tx[p] EXCEPT !.pc = "selectGroups", !.batch = rest, !.writes = w, !.rec = rec]
  <2>2. u \in Users /\ batch[u] \in UserRow
    BY DEF Partial
  <2>3. tx[p].op # "updateRole" => tx[p].id \in Groups
    BY WorkerType DEF Batching, TxOK
  <2>4. rec \in RecType /\ ~rec.super
    BY <2>2, <2>3, RecTypes DEF RegroupedRec, recombineSlices, UserRow
  <2>5. rest \in Partial(Users, UserRow)
    BY DropType
  <2>. HIDE DEF rec, rest
  <2>6. t \in TxType
    BY <2>4, <2>5, WorkerType DEF TxType, Pcs
  <2>7. TxOK(t)
    BY <1>1, <2>4, <2>6, WorkerType DEF TxOK, TxType
  <2>8. ReloadIsExact(t)
    BY <1>1, WorkerType DEF ReloadIsExact, TxType
  <2>. QED
    BY <2>1, <2>7, <2>8, StepKeepsInv DEF TxInv, rec, rest
<1>. QED
  BY <1>2, <1>3

\* The batch of a group or role handler is made of user rows.
LEMMA FillUsersKeepsInv ==
    ASSUME IInv, NEW p \in Workers, FillUsers(p)
    PROVE  IInv'
<1>. DEFINE batch == [u \in Affected(p) |-> Seen(p)[u]]
<1>1. NextUser(p, batch, tx[p].writes) /\ tx[p].pc = "fillUsers" /\ Batching(tx[p].op)
  BY WorkerType DEF FillUsers, TxOK
<1>2. Affected(p) \subseteq Existing(Seen(p), Users)
  BY <1>1, WorkerType DEF Affected, Existing, Batching, TxType
<1>3. \A u \in Affected(p) : u \in Users /\ Seen(p)[u] \in UserRow
  BY <1>2, WorkerType, Kinds DEF Existing, Typed, Ids
<1>4. batch \in [Affected(p) -> UserRow] /\ Affected(p) \in SUBSET Users
  BY <1>3
<1>5. batch \in Partial(Users, UserRow)
  BY <1>4 DEF Partial
<1>6. tx[p].writes \in Partial(Ids, Row \cup {NoRow}) /\ Typed(Overlay(tx[p].writes))
  BY WorkerType DEF TxOK, TxType
<1>. QED
  BY <1>1, <1>5, <1>6, NextUserKeepsInv

\* updateUserToDB writes a user row and goes on with the batch.
LEMMA WriteBackKeepsInv ==
    ASSUME IInv, NEW p \in Workers, WriteBack(p)
    PROVE  IInv'
<1>. DEFINE row == [groups |-> tx[p].rec.groups, roles |-> tx[p].rec.roles]
            w == Written(p, tx[p].rec.name, row)
<1>1. NextUser(p, tx[p].batch, w) /\ tx[p].pc = "writeBack"
  BY DEF WriteBack
<1>2. tx[p].rec \in RecType /\ Batching(tx[p].op) /\ tx[p].batch \in Partial(Users, UserRow)
  BY <1>1, WorkerType DEF TxOK, TxType
<1>3. tx[p].rec.name \in Ids /\ row \in Kind(tx[p].rec.name)
  BY <1>2, Kinds DEF RecType, UserRow, Ids
<1>4. w \in Partial(Ids, Row \cup {NoRow}) /\ Typed(Overlay(w))
  BY <1>3, WrittenType
<1>. QED
  BY <1>1, <1>2, <1>4, NextUserKeepsInv

\* reloadUserAuthority leaves a SUPER user as it is.
LEMMA SkipReloadKeepsInv ==
    ASSUME IInv, NEW p \in Workers, SkipReload(p)
    PROVE  IInv'
<1>. DEFINE pc == AfterReload(p)
            t == [tx[p] EXCEPT !.pc = pc]
<1>1. Step(p, t) /\ tx[p].pc = "selectGroups" /\ tx[p].rec.super
  BY DEF SkipReload
<1>2. tx[p].rec \in RecType /\ tx[p].rec # NoRow /\ tx[p].op = "updateUser"
  BY <1>1, WorkerType, Kinds DEF TxOK
<1>3. pc = "commit"
  BY <1>2 DEF AfterReload, Caching
<1>. HIDE DEF pc
<1>4. ReloadIsExact(t)
  BY <1>1, WorkerType DEF ReloadIsExact, TxType, Own
<1>5. TxOK(t)
  <2>1. t \in TxType
    BY <1>3, WorkerType DEF TxType, Pcs
  <2>. QED
    BY <1>1, <1>2, <1>3, <2>1, WorkerType DEF TxOK, TxType
<1>. QED
  BY <1>1, <1>4, <1>5, StepKeepsInv DEF TxInv

\* The first select of reloadUserAuthority completes the roles, or ends it.
LEMMA SelectGroupsKeepsInv ==
    ASSUME IInv, NEW p \in Workers, SelectGroups(p)
    PROVE  IInv'
<1>. DEFINE roles == tx[p].rec.roles \cup GroupRoles(Seen(p), tx[p].rec.groups)
            pc == IF roles = {} THEN AfterReload(p) ELSE "selectRoles"
            t == [tx[p] EXCEPT !.rec.roles = roles, !.pc = pc]
<1>1. Step(p, t) /\ tx[p].pc = "selectGroups" /\ ~tx[p].rec.super
  BY DEF SelectGroups
<1>2. tx[p].rec \in RecType /\ (Batching(tx[p].op) \/ Caching(tx[p].op))
  BY <1>1, WorkerType DEF TxOK
<1>3. roles \in SUBSET Roles
  BY <1>2, WorkerType, SelectTypes DEF RecType
<1>4. pc \in {"commit", "writeBack", "selectRoles"}
      /\ (pc = "writeBack" => ~Caching(tx[p].op)) /\ (pc = "commit" => Caching(tx[p].op))
  BY DEF AfterReload
<1>5. ReloadIsExact(t)
  <2>. SUFFICES ASSUME Caching(tx[p].op), tx[p].clean, Own(tx[p]), Seen(p)[tx[p].id] # NoRow
                PROVE  /\ pc = "selectRoles" =>
                            roles = Seen(p)[tx[p].id].roles
                                      \cup GroupRoles(Seen(p), Seen(p)[tx[p].id].groups)
                       /\ pc \in {"commit", "publish"} =>
                            tx[p].rec.views = Authority(Seen(p), Seen(p)[tx[p].id])
    <3>. HIDE DEF roles, pc
    <3>. QED
      BY <1>2, <1>4, WorkerType DEF ReloadIsExact, TxType, RecType, Seen, Own
  <2>1. /\ tx[p].rec.groups = Seen(p)[tx[p].id].groups
        /\ tx[p].rec.roles = Seen(p)[tx[p].id].roles
        /\ tx[p].rec.views = {}
    BY <1>1, WorkerType DEF ReloadIsExact, Seen
  <2>2. pc = "commit" => roles = {}
    BY DEF AfterReload
  <2>3. pc = "commit" => Authority(Seen(p), Seen(p)[tx[p].id]) = {}
    BY <2>1, <2>2, NoRolesNoViews DEF Authority
  <2>. QED
    BY <2>1, <2>3, <1>4
<1>6. TxOK(t)
  <2>. HIDE DEF roles, pc
  <2>1. t.rec \in RecType /\ t.rec.super = tx[p].rec.super
    BY <1>2, <1>3, WorkerType DEF TxType, RecType
  <2>2. t \in TxType
    BY <1>2, <1>3, <1>4, <2>1, WorkerType DEF TxType, Pcs
  <2>. QED
    BY <1>1, <1>2, <1>4, <2>1, <2>2, Kinds, WorkerType DEF TxOK, TxType
<1>. QED
  BY <1>1, <1>5, <1>6, StepKeepsInv DEF TxInv

\* The second select turns all the roles of the user into its views.
LEMMA SelectRolesKeepsInv ==
    ASSUME IInv, NEW p \in Workers, SelectRoles(p)
    PROVE  IInv'
<1>. DEFINE views == RoleViews(Seen(p), tx[p].rec.roles)
            pc == AfterReload(p)
            t == [tx[p] EXCEPT !.rec.views = views, !.pc = pc]
<1>1. Step(p, t) /\ tx[p].pc = "selectRoles"
  BY DEF SelectRoles
<1>2. tx[p].rec \in RecType /\ (Batching(tx[p].op) \/ Caching(tx[p].op))
  BY <1>1, WorkerType DEF TxOK
<1>3. views \in SUBSET Views
  BY <1>2, WorkerType, SelectTypes DEF RecType
<1>4. pc \in {"commit", "writeBack"} /\ (pc = "writeBack" <=> ~Caching(tx[p].op))
  BY DEF AfterReload
<1>5. ReloadIsExact(t)
  <2>. SUFFICES ASSUME Caching(tx[p].op), tx[p].clean, Own(tx[p]), Seen(p)[tx[p].id] # NoRow
                PROVE  views = Authority(Seen(p), Seen(p)[tx[p].id])
    <3>. HIDE DEF views, pc
    <3>. QED
      BY <1>2, <1>4, WorkerType DEF ReloadIsExact, TxType, RecType, Seen, Own
  <2>. QED
    BY <1>1, WorkerType DEF ReloadIsExact, Seen, Authority
<1>6. TxOK(t)
  <2>. HIDE DEF views, pc
  <2>1. t.rec \in RecType /\ t.rec.super = tx[p].rec.super
    BY <1>2, <1>3, WorkerType DEF TxType, RecType
  <2>2. t \in TxType
    BY <1>2, <1>4, <2>1, WorkerType DEF TxType, Pcs
  <2>. QED
    BY <1>1, <1>2, <1>4, <2>1, <2>2, Kinds, WorkerType DEF TxOK, TxType
<1>. QED
  BY <1>1, <1>5, <1>6, StepKeepsInv DEF TxInv

\* A rollback leaves the worker idle.
LEMMA AbortKeepsInv ==
    ASSUME IInv, NEW p \in Workers, Abort(p)
    PROVE  IInv'
<1>1. TxInv(Idle) /\ Step(p, Idle)
  BY IdleInv DEF IInv, Abort
<1>. QED
  BY <1>1, StepKeepsInv

--------------------------------------------------------------------------------
(* The steps that change the tables or the cache *)

\* What a worker stores is the authority of the row, if nobody interfered.
LEMMA PublishKeepsInv ==
    ASSUME IInv, NEW p \in Workers, Publish(p)
    PROVE  IInv'
<1>. DEFINE u == Entry(tx[p])
<1>1. /\ tx[p].pc = "publish" /\ tx[p].writes = NoWrites
      /\ Caching(tx[p].op) => tx[p].rec \in RecType
      /\ u \in Users
      /\ db' = db /\ left' = left
  BY WorkerType DEF Publish, TxOK, Entry, RecType
<1>2. \A q \in Workers : tx'[q] = IF q = p THEN Idle ELSE tx[q]
  BY DEF Publish, IInv, TypeOK
<1>3. TxInv(Idle)
  BY IdleInv DEF IInv
<1>4. tx' \in [Workers -> TxType]
  BY <1>3 DEF Publish, IInv, TypeOK, TxInv, TxOK
<1>5. \A q \in Workers : TxOK(tx[q])'
  BY <1>1, <1>2, <1>3 DEF IInv, TypeOK, TxInv, TxOK, Typed, Overlay
<1>6. \A q \in Workers : ReloadIsExact(tx[q])'
  BY <1>1, <1>2, <1>3 DEF IInv, TxInv, ReloadIsExact, Overlay
<1>7. cache' \in [Users -> (SUBSET Views) \cup {NoRow, NoAuthority}]
  BY <1>1 DEF Publish, IInv, TypeOK, RecType
<1>8. fresh' \subseteq Users
  BY <1>1 DEF Publish, IInv, TypeOK, Existing, Own, Entry
<1>9. FreshEntryIsExact'
  <2>. SUFFICES ASSUME NEW v \in fresh'
                PROVE  db[v] # NoRow /\ cache'[v] = Authority(db, db[v])
    BY <1>1 DEF FreshEntryIsExact
  <2>1. CASE v # u
    <3>1. v \in fresh /\ cache'[v] = cache[v]
      BY <1>8, <2>1 DEF Publish, IInv, TypeOK, Existing, Own, Entry
    <3>. QED
      BY <3>1 DEF IInv, FreshEntryIsExact
  <2>2. CASE v = u
    <3>1. /\ Caching(tx[p].op) /\ tx[p].clean /\ Own(tx[p]) /\ u = tx[p].id
          /\ db[u] # NoRow
      BY <2>2 DEF Publish, Existing, IInv, FreshEntryIsExact, Own, Entry
    <3>2. Overlay(tx[p].writes) = db
      BY <1>1, OverlayNothing DEF IInv
    <3>3. tx[p].rec.views = Authority(db, db[u])
      BY <1>1, <3>1, <3>2, WorkerType DEF ReloadIsExact
    <3>4. cache'[u] = tx[p].rec.views
      BY <1>1, <3>1 DEF Publish, IInv, TypeOK, Own
    <3>. QED
      BY <2>2, <3>1, <3>3, <3>4
  <2>. QED
    BY <2>1, <2>2
<1>. QED
  BY <1>1, <1>4, <1>5, <1>6, <1>7, <1>8, <1>9 DEF IInv, TypeOK

\* A logout removes one entry.
LEMMA LogoutKeepsInv ==
    ASSUME IInv, NEW u \in Users, Logout(u)
    PROVE  IInv'
<1>1. db' = db /\ tx' = tx /\ left' = left
  BY DEF Logout
<1>2. \A q \in Workers : TxOK(tx[q])'
  BY <1>1 DEF IInv, TypeOK, TxOK, Typed, Overlay
<1>6. \A q \in Workers : ReloadIsExact(tx[q])'
  BY <1>1 DEF IInv, ReloadIsExact, Overlay
<1>3. cache' \in [Users -> (SUBSET Views) \cup {NoRow, NoAuthority}] /\ fresh' \subseteq Users
  BY DEF Logout, IInv, TypeOK
<1>4. \A v \in fresh' : v \in fresh /\ cache'[v] = cache[v]
  BY DEF Logout, IInv, TypeOK
<1>5. FreshEntryIsExact'
  BY <1>1, <1>4 DEF IInv, FreshEntryIsExact
<1>. QED
  BY <1>1, <1>2, <1>3, <1>5, <1>6 DEF IInv, TypeOK

\* Who commits rows spoils the reads of all the others; who commits none changes
\* nothing they read.
LEMMA CommitKeepsInv ==
    ASSUME IInv, NEW p \in Workers, Commit(p)
    PROVE  IInv'
<1>. DEFINE done == IF Publishes(tx[p].op)
                    THEN [tx[p] EXCEPT !.pc = "publish", !.writes = NoWrites]
                    ELSE Idle
            dirty(q) == tx[p].writes # NoWrites /\ q # p /\ tx[q].pc # "idle"
            next(q) == IF q = p THEN done
                       ELSE IF dirty(q) THEN [tx[q] EXCEPT !.clean = FALSE] ELSE tx[q]
<1>1. /\ tx[p].pc = "commit" /\ cache' = cache /\ left' = left
      /\ db' = Seen(p) /\ TypeOK
  BY DEF Commit, IInv
<1>2. db' \in [Ids -> Row \cup {NoRow}] /\ Typed(db')
  <2>1. Typed(db') /\ db' = [i \in Ids |-> db'[i]]
    BY <1>1, WorkerType DEF Seen, Overlay
  <2>. QED
    BY <2>1, Kinds DEF Typed
<1>3. \A q \in Workers : tx'[q] = next(q)
  BY DEF Commit, Spoil, IInv, TypeOK
<1>4. DOMAIN tx' = Workers /\ tx' = [q \in Workers |-> tx'[q]]
  BY DEF Commit, Spoil, IInv, TypeOK
<1>5. TxInv(Idle) /\ Idle \in TxType
  BY <1>1, IdleInv DEF TxInv, TxOK
<1>6. done \in TxType
  BY <1>5, WorkerType, NoWritesType DEF TxType, Pcs
<1>7. \A q \in Workers : next(q) \in TxType
  <2>1. \A q \in Workers : [tx[q] EXCEPT !.clean = FALSE] \in TxType
    BY WorkerType DEF TxType
  <2>. QED
    BY <1>6, <2>1, WorkerType
<1>8. Overlay(NoWrites)' = db'
  BY <1>2 DEF Overlay, NoWrites
<1>9. TxOK(tx[p])' /\ ReloadIsExact(tx[p])'
  <2>1. CASE ~Publishes(tx[p].op)
    <3>1. tx'[p] = Idle
      BY <1>3, <2>1
    <3>2. /\ tx'[p].pc = "idle" /\ tx'[p].op = "none" /\ tx'[p].writes = NoWrites
          /\ tx'[p].rec = NoRow
      BY <3>1 DEF Idle, Request
    <3>3. tx'[p] \in TxType
      BY <1>5, <3>1
    <3>4. TxOK(tx[p])'
      BY <1>2, <1>8, <3>2, <3>3 DEF TxOK, Batching, Caching, Publishes
    <3>5. ReloadIsExact(tx[p])'
      BY <3>2, Zenon DEF ReloadIsExact
    <3>. QED
      BY <3>4, <3>5
  <2>2. CASE Publishes(tx[p].op)
    <3>1. tx'[p] = [tx[p] EXCEPT !.pc = "publish", !.writes = NoWrites]
      BY <1>3, <2>2
    <3>2. /\ tx'[p].pc = "publish" /\ tx'[p].writes = NoWrites
          /\ tx'[p].op = tx[p].op /\ tx'[p].id = tx[p].id
          /\ tx'[p].clean = tx[p].clean /\ tx'[p].rec = tx[p].rec
      BY <3>1, WorkerType DEF TxType
    <3>3. tx'[p] \in TxType
      BY <1>3, <1>7
    <3>4. TxOK(tx[p])'
      BY <1>1, <1>2, <1>8, <2>2, <3>2, <3>3, WorkerType
         DEF TxOK, Batching, Caching, Publishes
    <3>5. Caching(tx[p].op) /\ tx[p].clean /\ Own(tx[p]) /\ db'[tx[p].id] # NoRow =>
            tx[p].rec.views = Authority(db', db'[tx[p].id])
      BY <1>1, WorkerType DEF ReloadIsExact, Seen
    <3>6. Overlay(tx[p].writes)' = db'
      BY <1>8, <3>2 DEF Overlay
    <3>7. ReloadIsExact(tx[p])'
      BY <3>2, <3>5, <3>6 DEF ReloadIsExact, Own
    <3>. QED
      BY <3>4, <3>7
  <2>. QED
    BY <2>1, <2>2
<1>10. ASSUME NEW q \in Workers, q # p
       PROVE  TxOK(tx[q])' /\ ReloadIsExact(tx[q])'
  <2>1. /\ tx'[q].op = tx[q].op /\ tx'[q].pc = tx[q].pc /\ tx'[q].id = tx[q].id
        /\ tx'[q].rec = tx[q].rec /\ tx'[q].writes = tx[q].writes
        /\ dirty(q) => tx'[q].clean = FALSE
        /\ ~dirty(q) => tx'[q].clean = tx[q].clean
    BY <1>3, <1>10, WorkerType DEF TxType
  <2>2. tx'[q] \in TxType
    BY <1>3, <1>7
  <2>3. Typed(Overlay(tx[q].writes))'
    <3>1. \A i \in DOMAIN tx[q].writes : i \in Ids => tx[q].writes[i] \in Kind(i) \cup {NoRow}
      BY WorkerType DEF Seen, Typed, Overlay
    <3>. QED
      BY <1>2, <2>1, <3>1 DEF Typed, Overlay
  <2>4. TxOK(tx[q])'
    BY <2>1, <2>2, <2>3, WorkerType DEF TxOK
  <2>5. CASE dirty(q)
    BY <2>1, <2>4, <2>5, Zenon DEF ReloadIsExact
  <2>6. CASE tx[q].pc = "idle"
    BY <2>1, <2>4, <2>6, Zenon DEF ReloadIsExact
  <2>7. CASE tx[p].writes = NoWrites
    <3>1. db' = db
      BY <1>1, <2>7, OverlayNothing DEF Seen
    <3>2. tx'[q] = tx[q]
      BY <1>3, <1>10, <2>7
    <3>. QED
      BY <2>4, <3>1, <3>2, WorkerType DEF ReloadIsExact, Overlay
  <2>. QED
    BY <1>10, <2>4, <2>5, <2>6, <2>7
<1>11. fresh' \subseteq Users
  BY <1>1 DEF Commit, TypeOK, Existing
<1>12. FreshEntryIsExact'
  <2>. SUFFICES ASSUME NEW u \in fresh'
                PROVE  db'[u] # NoRow /\ cache'[u] = Authority(db', db'[u])
    BY DEF FreshEntryIsExact
  <2>1. u \in fresh /\ db'[u] # NoRow /\ Authority(db', db'[u]) = Authority(db, db[u])
    BY DEF Commit, Existing
  <2>. QED
    BY <1>1, <2>1 DEF IInv, FreshEntryIsExact
<1>13. tx' \in [Workers -> TxType]
  BY <1>3, <1>4, <1>7
<1>. QED
  BY <1>1, <1>2, <1>9, <1>10, <1>11, <1>12, <1>13 DEF IInv, TypeOK

\* After a restart the map holds what the committed tables grant.
LEMMA RestartKeepsInv ==
    ASSUME IInv, Restart
    PROVE  IInv'
<1>1. db' = db /\ left' = left /\ TypeOK
  BY DEF Restart, IInv
<1>2. TxInv(Idle)
  BY <1>1, IdleInv
<1>3. \A q \in Workers : tx'[q] = Idle
  BY DEF Restart
<1>4. tx' \in [Workers -> TxType]
  BY <1>2 DEF Restart, TxInv, TxOK
<1>5. \A q \in Workers : TxOK(tx[q])'
  BY <1>1, <1>2, <1>3 DEF TxInv, TxOK, Typed, Overlay
<1>6. \A q \in Workers : ReloadIsExact(tx[q])'
  BY <1>1, <1>2, <1>3 DEF TxInv, ReloadIsExact, Overlay
<1>7. \A u \in Users : db[u] # NoRow => Authority(db, db[u]) \in SUBSET Views
  BY <1>1, Kinds, AuthorityType DEF TypeOK, Typed, Ids
<1>8. cache' \in [Users -> (SUBSET Views) \cup {NoRow, NoAuthority}]
  BY <1>7 DEF Restart
<1>9. fresh' \subseteq Users /\ FreshEntryIsExact'
  BY <1>1 DEF Restart, Existing, FreshEntryIsExact
<1>. QED
  BY <1>1, <1>4, <1>5, <1>6, <1>8, <1>9 DEF IInv, TypeOK

\* The map filled at the start is exact, whatever rows the database holds.
LEMMA InitInv == Init => IInv
<1>. SUFFICES ASSUME Init PROVE IInv
  OBVIOUS
<1>1. PICK ut \in [Users -> UserRow \cup {NoRow}],
           gt \in [Groups -> GroupRow \cup {NoRow}],
           rt \in [Roles -> RoleRow \cup {NoRow}] :
         db = [i \in Ids |-> IF i \in Users THEN ut[i] ELSE IF i \in Groups THEN gt[i] ELSE rt[i]]
  BY DEF Init
<1>2. Typed(db)
  BY <1>1 DEF Typed, Kind, Ids
<1>3. db \in [Ids -> Row \cup {NoRow}]
  BY <1>1, <1>2, Kinds DEF Typed
<1>4. Overlay(NoWrites) = db
  BY <1>3 DEF Overlay, NoWrites
<1>5. Idle \in TxType
  BY NoWritesType DEF Idle, Request, TxType, Pcs
<1>6. \A q \in Workers : tx[q] = Idle
  BY DEF Init
<1>7. tx \in [Workers -> TxType]
  BY <1>5 DEF Init
<1>8. Idle.pc = "idle" /\ Idle.op = "none" /\ Idle.writes = NoWrites /\ Idle.rec = NoRow
  BY DEF Idle, Request
<1>9. \A q \in Workers : TxOK(tx[q]) /\ ReloadIsExact(tx[q])
  BY <1>2, <1>4, <1>5, <1>6, <1>8 DEF TxOK, ReloadIsExact, Batching, Caching, Publishes
<1>10. \A u \in Users : db[u] # NoRow => Authority(db, db[u]) \in SUBSET Views
  BY <1>2, Kinds, AuthorityType DEF Typed, Ids
<1>11. cache \in [Users -> (SUBSET Views) \cup {NoRow, NoAuthority}]
  BY <1>10 DEF Init
<1>12. fresh \subseteq Users /\ FreshEntryIsExact
  BY DEF Init, Existing, FreshEntryIsExact
<1>13. left \in 0..MaxRequests
  BY BoundAssumption DEF Init
<1>. QED
  BY <1>2, <1>3, <1>7, <1>9, <1>11, <1>12, <1>13 DEF IInv, TypeOK

--------------------------------------------------------------------------------
(* The theorems about states *)

\* No step of any request, and no failure or restart, breaks the invariant.
LEMMA NextKeepsInv == IInv /\ [Next]_vars => IInv'
<1>. SUFFICES ASSUME IInv, [Next]_vars PROVE IInv'
  OBVIOUS
<1>1. ASSUME NEW p \in Workers, UserRequests(p) PROVE IInv'
  <2>1. PICK u \in Users :
          \/ \E gs \in SUBSET Groups, rs \in SUBSET Roles :
                \/ CreateUser(p, u, gs, rs)
                \/ \E name \in Users, super \in BOOLEAN :
                     UpdateUser(p, u, name, super, gs, rs)
          \/ DeleteUser(p, u)
          \/ LoginUser(p, u)
    BY <1>1 DEF UserRequests, Existing
  <2>. QED
    BY <2>1, CreateUserKeepsInv, UpdateUserKeepsInv, OtherRequestsKeepInv, LoginUserKeepsInv
<1>2. ASSUME NEW p \in Workers, GroupRequests(p) \/ RoleRequests(p) PROVE IInv'
  BY <1>2, OtherRequestsKeepInv
<1>3. ASSUME NEW p \in Workers, Proceed(p) \/ Abort(p) PROVE IInv'
  BY <1>3, DeleteRowKeepsInv, FillUsersKeepsInv, SkipReloadKeepsInv, SelectGroupsKeepsInv,
     SelectRolesKeepsInv, WriteBackKeepsInv, CommitKeepsInv, PublishKeepsInv, AbortKeepsInv DEF Proceed
<1>4. CASE \E u \in Users : Logout(u)
  BY <1>4, LogoutKeepsInv
<1>5. CASE Restart
  BY <1>5, RestartKeepsInv
<1>6. CASE UNCHANGED vars
  <2>1. db' = db /\ cache' = cache /\ tx' = tx /\ left' = left /\ fresh' = fresh
    BY <1>6 DEF vars
  <2>2. \A q \in Workers : TxOK(tx[q])'
    BY <2>1 DEF IInv, TypeOK, TxOK, Typed, Overlay
  <2>3. ASSUME NEW q \in Workers PROVE ReloadIsExact(tx[q])'
    <3>1. ReloadIsExact(tx[q])
      BY DEF IInv
    <3>. QED
      BY <2>1, <3>1 DEF ReloadIsExact, Overlay
  <2>4. FreshEntryIsExact'
    BY <2>1 DEF IInv, FreshEntryIsExact
  <2>. QED
    BY <2>1, <2>2, <2>3, <2>4 DEF IInv, TypeOK
<1>. QED
  BY <1>1, <1>2, <1>3, <1>4, <1>5, <1>6 DEF Next

\* The tables, the cache and every transaction keep their types (all the handlers
\* of pkg/auth/handler).
THEOREM TypeCorrect == Spec => []TypeOK
<1>1. IInv => TypeOK
  BY DEF IInv
<1>. QED
  BY <1>1, InitInv, NextKeepsInv, PTL DEF Spec

\* A cached authority computed without interference is what the database grants, for
\* any number of requests: Create, Update (with a body that names the user it is sent
\* to, and is not SUPER) and GetUserInfo at login compute it from rows that belong
\* together, after their own write; a SUPER body's entry is never taken for one.
THEOREM CacheCorrect == Spec => []FreshEntryIsExact
<1>1. IInv => FreshEntryIsExact
  BY DEF IInv
<1>. QED
  BY <1>1, InitInv, NextKeepsInv, PTL DEF Spec

--------------------------------------------------------------------------------
(***************************************************************************)
(* What a committed request has done to the user rows: the three action    *)
(* properties.  They rest on an invariant of the loop over the affected    *)
(* users that says, for each user, where its new row still is: in the      *)
(* batch, in memory, or among the rows already written.                    *)
(***************************************************************************)


\* The user in memory is one the loop or reloadUserAuthority works on.
Working == {"selectGroups", "selectRoles", "writeBack"}

\* The group handlers that put the listed users into the group.
Joining(op) == op \in {"createGroup", "updateGroup"}

\* The handlers that may take roles from a user.
EditsUser(op) == op \in {"updateUser", "deleteUser"}

\* The request has not written user u yet, but the loop will come to it.
Pending(t, u) ==
    \/ t.pc \in {"deleteRow", "fillUsers"}
    \/ u \in DOMAIN t.batch
    \/ t.pc \in Working /\ u = t.rec.name

\* Nobody commits, or starts to delete, with users left in the batch.
LoopEnds(t) == t.pc \in {"commit", "deleteRow"} \/ Caching(t.op) => DOMAIN t.batch = {}

\* The user rows a create or update of group g has written, and the one in memory, list
\* g; those written carry the roles of g's row, and so does the one in memory from the
\* select of the groups on, if the request wrote that row.
Joined(t) ==
    Joining(t.op) =>
      /\ t.id \in DOMAIN t.writes => t.writes[t.id] # NoRow
      /\ \A u \in Users \cap DOMAIN t.writes :
           /\ t.writes[u] # NoRow
           /\ t.id \in t.writes[u].groups
           /\ t.id \in DOMAIN t.writes => t.writes[t.id].roles \subseteq t.writes[u].roles
      /\ t.pc \in Working => t.id \in t.rec.groups
      /\ t.pc \in {"selectRoles", "writeBack"} /\ t.id \in DOMAIN t.writes =>
           t.writes[t.id].roles \subseteq t.rec.roles

\* Every user listed in the body is written or pending, while nobody else commits.
Reached(t) ==
    Joining(t.op) /\ t.clean =>
      \A u \in Existing(Overlay(t.writes), t.members) : Pending(t, u) \/ u \in DOMAIN t.writes

\* The user in memory has left the deleted group, and those that still list it are pending.
Parted(t) ==
    t.op = "deleteGroup" =>
      /\ t.pc \in Working => t.id \notin t.rec.groups
      /\ t.clean => \A u \in Existing(Overlay(t.writes), Users) :
                      t.id \in Overlay(t.writes)[u].groups => Pending(t, u)

\* The delete of a role writes no user, and no user has the role.
Unused(t) ==
    t.op = "deleteRole" =>
      /\ Users \cap DOMAIN t.writes = {}
      /\ t.clean => \A u \in Existing(db, Users) : t.id \notin db[u].roles

\* Wherever the loop holds a user, it holds the committed roles of that user.
Kept(t) ==
    t.clean /\ ~EditsUser(t.op) =>
      \A u \in Existing(db, Users) :
        /\ Overlay(t.writes)[u] # NoRow
        /\ db[u].roles \subseteq Overlay(t.writes)[u].roles
        /\ u \in DOMAIN t.batch => db[u].roles \subseteq t.batch[u].roles
        /\ t.pc \in Working /\ u = t.rec.name => db[u].roles \subseteq t.rec.roles

Job(t) ==
    t.pc \notin {"idle", "publish"} =>
      LoopEnds(t) /\ Joined(t) /\ Reached(t) /\ Parted(t) /\ Unused(t) /\ Kept(t)

Jobs == \A p \in Workers : Job(tx[p])

--------------------------------------------------------------------------------
(* Jobs: the first statement of a request *)

\* What a request promises depends on its own state and the committed tables only.
LEMMA JobsOfWorkers ==
    ASSUME db' = db, \A q \in Workers : Job(tx'[q])
    PROVE  Jobs'
<1>. SUFFICES ASSUME NEW q \in Workers, tx'[q].pc \notin {"idle", "publish"}
              PROVE  /\ LoopEnds(tx[q])' /\ Joined(tx[q])' /\ Reached(tx[q])'
                     /\ Parted(tx[q])' /\ Unused(tx[q])' /\ Kept(tx[q])'
  BY DEF Jobs, Job
<1>1. /\ LoopEnds(tx'[q]) /\ Joined(tx'[q]) /\ Reached(tx'[q])
      /\ Parted(tx'[q]) /\ Unused(tx'[q]) /\ Kept(tx'[q])
  BY Zenon DEF Job
<1>2. LoopEnds(tx[q])' /\ Joined(tx[q])'
  BY <1>1 DEF LoopEnds, Joined
<1>3. Reached(tx[q])'
  BY <1>1 DEF Reached, Pending, Existing, Overlay
<1>4. Parted(tx[q])'
  BY <1>1 DEF Parted, Pending, Existing, Overlay
<1>5. Unused(tx[q])'
  BY <1>1 DEF Unused, Existing
<1>6. Kept(tx[q])'
  BY <1>1 DEF Kept, Existing, Overlay
<1>. QED
  BY <1>2, <1>3, <1>4, <1>5, <1>6

\* A step that only changes what worker p is doing leaves the other requests alone.
LEMMA StepKeepsJobs ==
    ASSUME IInv, Jobs, NEW p \in Workers, NEW t, Job(t), Step(p, t) \/ Begin(p, t)
    PROVE  Jobs'
<1>1. db' = db
  BY DEF Step, Begin
<1>2. \A q \in Workers : tx'[q] = IF q = p THEN t ELSE tx[q]
  BY DEF IInv, TypeOK, Step, Begin
<1>3. \A q \in Workers : Job(tx'[q])
  BY <1>2 DEF Jobs
<1>. QED
  BY <1>1, <1>3, JobsOfWorkers

\* A worker that is idle has no job.
LEMMA IdleJob == Job(Idle)
  BY DEF Job, Idle, Request

\* A request's first statement writes the row the request is about, or none, and the
\* user it reads, if any, with its committed roles.
LEMMA RequestJob ==
    ASSUME IInv, NEW op \in Ops, NEW pc \in {"selectGroups", "fillUsers", "deleteRow", "commit"},
           NEW i \in Ids, NEW us \in SUBSET Users, NEW rec, NEW w,
           DOMAIN w \subseteq {i},
           Joining(op) => pc = "fillUsers" /\ i \in Groups /\ (i \in DOMAIN w => w[i] # NoRow),
           op = "deleteGroup" => pc = "deleteRow",
           op = "deleteRole" =>
             DOMAIN w = {} /\ \A u \in Existing(db, Users) : i \notin db[u].roles,
           ~EditsUser(op) =>
             /\ i \in DOMAIN w /\ i \in Users => db[i] = NoRow
             /\ pc = "selectGroups" /\ db[rec.name] # NoRow => rec.roles = db[rec.name].roles
    PROVE  Job(Request(op, pc, i, us, rec, w))
<1>. DEFINE t == Request(op, pc, i, us, rec, w)
<1>1. /\ t.op = op /\ t.pc = pc /\ t.id = i /\ t.members = us /\ t.rec = rec /\ t.writes = w
      /\ t.clean = TRUE /\ DOMAIN t.batch = {}
  BY DEF Request, NoWrites
<1>2. i \in Groups => i \notin Users
  BY IdsAssumption
<1>3. LoopEnds(t) /\ Joined(t) /\ Unused(t)
  <2>1. LoopEnds(t)
    BY <1>1 DEF LoopEnds
  <2>2. Joined(t)
    BY <1>1, <1>2 DEF Joined, Working
  <2>3. Unused(t)
    BY <1>1 DEF Unused
  <2>. QED
    BY <2>1, <2>2, <2>3
<1>4. Reached(t) /\ Parted(t)
  BY <1>1 DEF Reached, Parted, Pending, Joining, Working
<1>5. Kept(t)
  <2>1. \A u \in Existing(db, Users) : ~EditsUser(op) => Overlay(w)[u] = db[u]
    BY DEF Overlay, Existing, Ids
  <2>. QED
    BY <1>1, <2>1 DEF Kept, Existing, Working
<1>. QED
  BY <1>3, <1>4, <1>5 DEF Job

\* The writes of a first statement are about one row.
LEMMA FirstRow ==
    ASSUME IInv, NEW p \in Workers, tx[p].pc = "idle", NEW i, NEW row
    PROVE  /\ DOMAIN Put(NoWrites, i, row) = {i} /\ Put(NoWrites, i, row)[i] = row
           /\ DOMAIN NoWrites = {}
           /\ DOMAIN Written(p, i, row) \subseteq {i}
           /\ i \in DOMAIN Written(p, i, row) => Written(p, i, row)[i] = row
<1>1. DOMAIN Put(NoWrites, i, row) = {i} /\ Put(NoWrites, i, row)[i] = row /\ DOMAIN NoWrites = {}
  BY DEF Put, NoWrites
<1>2. tx[p].writes = NoWrites
  BY WorkerType DEF TxOK
<1>. QED
  BY <1>1, <1>2 DEF Written

\* The requests of the user handler.
LEMMA UserRequestsKeepJobs ==
    ASSUME IInv, Jobs, NEW p \in Workers, UserRequests(p)
    PROVE  Jobs'
<1>. PICK u \in Users :
       \/ \E gs \in SUBSET Groups, rs \in SUBSET Roles :
             \/ CreateUser(p, u, gs, rs)
             \/ \E name \in Users, super \in BOOLEAN : UpdateUser(p, u, name, super, gs, rs)
       \/ DeleteUser(p, u)
       \/ LoginUser(p, u)
  BY DEF UserRequests, Existing
<1>1. u \in Ids /\ tx[p].pc = "idle"
  BY DEF Ids, CreateUser, UpdateUser, DeleteUser, LoginUser, CanBegin
<1>2. ASSUME NEW gs, NEW rs, CreateUser(p, u, gs, rs)
      PROVE  Jobs'
  <2>. DEFINE w == Put(NoWrites, u, [groups |-> gs, roles |-> rs])
  <2>1. db[u] = NoRow
        /\ Begin(p, Request("createUser", "selectGroups", u, {}, Rec(u, gs, rs), w))
    BY <1>2 DEF CreateUser
  <2>2. DOMAIN w = {u}
    BY Zenon DEF Put, NoWrites
  <2>3. Rec(u, gs, rs).name = u
    BY DEF Rec
  <2>. HIDE DEF w
  <2>4. Job(Request("createUser", "selectGroups", u, {}, Rec(u, gs, rs), w))
    BY <1>1, <2>1, <2>2, <2>3, RequestJob DEF Ops, Joining, EditsUser
  <2>. QED
    BY <2>1, <2>4, StepKeepsJobs
<1>3. ASSUME NEW name, NEW super, NEW gs, NEW rs, UpdateUser(p, u, name, super, gs, rs)
      PROVE  Jobs'
  <2>. DEFINE row == [groups |-> gs, roles |-> rs]
              w == Written(p, u, row)
              rec == [Rec(name, gs, rs) EXCEPT !.super = super]
  <2>1. Begin(p, Request("updateUser", "selectGroups", u, {}, rec, w))
    BY <1>3 DEF UpdateUser
  <2>. HIDE DEF row
  <2>2. DOMAIN w \subseteq {u}
    BY <1>1, FirstRow
  <2>. HIDE DEF w, rec
  <2>3. Job(Request("updateUser", "selectGroups", u, {}, rec, w))
    BY <1>1, <2>2, RequestJob DEF Ops, Joining, EditsUser
  <2>. QED
    BY <2>1, <2>3, StepKeepsJobs DEF w, row, rec
<1>4. CASE DeleteUser(p, u)
  <2>. DEFINE w == Written(p, u, NoRow)
  <2>1. Begin(p, Request("deleteUser", "commit", u, {}, NoRow, w))
    BY <1>4 DEF DeleteUser
  <2>2. DOMAIN w \subseteq {u}
    BY <1>1, FirstRow
  <2>. HIDE DEF w
  <2>3. Job(Request("deleteUser", "commit", u, {}, NoRow, w))
    BY <1>1, <2>2, RequestJob DEF Ops, Joining, EditsUser
  <2>. QED
    BY <2>1, <2>3, StepKeepsJobs
<1>5. CASE LoginUser(p, u)
  <2>. DEFINE rec == Rec(u, db[u].groups, db[u].roles)
  <2>1. Begin(p, Request("login", "selectGroups", u, {}, rec, NoWrites))
    BY <1>5 DEF LoginUser
  <2>2. rec.name = u /\ rec.roles = db[u].roles /\ DOMAIN NoWrites = {}
    BY DEF Rec, NoWrites
  <2>. HIDE DEF rec
  <2>3. Job(Request("login", "selectGroups", u, {}, rec, NoWrites))
    BY <1>1, <2>2, RequestJob DEF Ops, Joining, EditsUser
  <2>. QED
    BY <2>1, <2>3, StepKeepsJobs DEF rec
<1>. QED
  BY <1>2, <1>3, <1>4, <1>5

\* The requests of the group and role handlers.
LEMMA OtherRequestsKeepJobs ==
    ASSUME IInv, Jobs, NEW p \in Workers, GroupRequests(p) \/ RoleRequests(p)
    PROVE  Jobs'
<1>1. Groups \subseteq Ids /\ Roles \subseteq Ids
      /\ Groups \cap Users = {} /\ Roles \cap Users = {}
  BY IdsAssumption DEF Ids
<1>2. tx[p].pc = "idle"
  BY DEF CreateGroup, UpdateGroup, DeleteGroup, CreateRole, UpdateRole, DeleteRole, CanBegin,
         GroupRequests, RoleRequests
<1>3. /\ \A rs : [roles |-> rs] \in GroupRow => [roles |-> rs] # NoRow
      /\ \A rs \in SUBSET Roles : [roles |-> rs] \in GroupRow
      /\ DOMAIN NoWrites = {}
  BY Kinds DEF GroupRow, Row, NoWrites
<1>4. ASSUME NEW g \in Groups, NEW us \in SUBSET Users, NEW rs \in SUBSET Roles,
             CreateGroup(p, g, us, rs) \/ UpdateGroup(p, g, us, rs)
      PROVE  Jobs'
  <2>. DEFINE row == [roles |-> rs]
  <2>1. PICK op \in {"createGroup", "updateGroup"},
             w \in {Put(NoWrites, g, row), Written(p, g, row)} :
          Begin(p, Request(op, "fillUsers", g, us, NoRow, w))
    BY <1>4 DEF CreateGroup, UpdateGroup
  <2>2. row # NoRow
    BY <1>3
  <2>. HIDE DEF row
  <2>3. Written(p, g, row) \in {NoWrites, Put(NoWrites, g, row)}
    BY <1>2, WorkerType DEF Written, TxOK
  <2>4. DOMAIN w \subseteq {g} /\ (g \in DOMAIN w => w[g] # NoRow)
    BY <2>2, <2>3 DEF Put, NoWrites
  <2>5. Job(Request(op, "fillUsers", g, us, NoRow, w))
    BY <1>1, <2>4, RequestJob DEF Ops, Joining, EditsUser
  <2>. QED
    BY <2>1, <2>5, StepKeepsJobs
<1>5. ASSUME NEW g \in Groups, DeleteGroup(p, g)
      PROVE  Jobs'
  <2>1. Begin(p, Request("deleteGroup", "deleteRow", g, {}, NoRow, NoWrites))
    BY <1>5 DEF DeleteGroup
  <2>2. Job(Request("deleteGroup", "deleteRow", g, {}, NoRow, NoWrites))
    BY <1>1, <1>3, RequestJob DEF Ops, Joining, EditsUser
  <2>. QED
    BY <2>1, <2>2, StepKeepsJobs
<1>6. ASSUME NEW r \in Roles, NEW vs, CreateRole(p, r, vs) \/ UpdateRole(p, r, vs)
      PROVE  Jobs'
  <2>. DEFINE row == [views |-> vs]
  <2>1. PICK op \in {"createRole", "updateRole"}, pc \in {"commit", "fillUsers"},
             w \in {Put(NoWrites, r, row), Written(p, r, row)} :
          Begin(p, Request(op, pc, r, {}, NoRow, w))
    BY <1>6 DEF CreateRole, UpdateRole
  <2>. HIDE DEF row
  <2>2. DOMAIN Put(NoWrites, r, row) = {r} /\ DOMAIN Written(p, r, row) \subseteq {r}
    BY <1>1, <1>2, FirstRow
  <2>3. DOMAIN w \subseteq {r}
    BY <2>2
  <2>4. Job(Request(op, pc, r, {}, NoRow, w))
    BY <1>1, <2>3, RequestJob DEF Ops, Joining, EditsUser
  <2>. QED
    BY <2>1, <2>4, StepKeepsJobs
<1>7. ASSUME NEW r \in Roles, DeleteRole(p, r)
      PROVE  Jobs'
  <2>1. /\ Begin(p, Request("deleteRole", "deleteRow", r, {}, NoRow, NoWrites))
        /\ \A u \in Existing(db, Users) : r \notin db[u].roles
    BY <1>7 DEF DeleteRole
  <2>2. Job(Request("deleteRole", "deleteRow", r, {}, NoRow, NoWrites))
    BY <1>1, <1>3, <2>1, RequestJob DEF Ops, Joining, EditsUser
  <2>. QED
    BY <2>1, <2>2, StepKeepsJobs
<1>8. CASE GroupRequests(p)
  <2>1. PICK g \in Groups :
          \/ \E us \in SUBSET Users, rs \in SUBSET Roles :
                CreateGroup(p, g, us, rs) \/ UpdateGroup(p, g, us, rs)
          \/ DeleteGroup(p, g)
    BY <1>8 DEF GroupRequests, Existing
  <2>. QED
    BY <1>4, <1>5, <2>1
<1>9. CASE RoleRequests(p)
  BY <1>6, <1>7, <1>9 DEF RoleRequests
<1>. QED
  BY <1>8, <1>9
--------------------------------------------------------------------------------
(* Jobs: the statements in the middle of a transaction *)

\* The loop over the affected users goes on as promised if the batch and the rows
\* written so far account for every user, and hold the committed roles.
LEMMA NextUserKeepsJobs ==
    ASSUME IInv, Jobs, NEW p \in Workers, Batching(tx[p].op), NEW batch, NEW w,
           NextUser(p, batch, w),
           Joining(tx[p].op) =>
             /\ tx[p].id \in DOMAIN w => w[tx[p].id] # NoRow
             /\ \A u \in Users \cap DOMAIN w :
                  /\ w[u] # NoRow
                  /\ tx[p].id \in w[u].groups
                  /\ tx[p].id \in DOMAIN w => w[tx[p].id].roles \subseteq w[u].roles,
           Joining(tx[p].op) /\ tx[p].clean =>
             \A u \in Existing(Overlay(w), tx[p].members) : u \in DOMAIN batch \cup DOMAIN w,
           tx[p].op = "deleteGroup" /\ tx[p].clean =>
             \A u \in Existing(Overlay(w), Users) :
               tx[p].id \in Overlay(w)[u].groups => u \in DOMAIN batch,
           tx[p].clean =>
             \A u \in Existing(db, Users) :
               /\ Overlay(w)[u] # NoRow /\ db[u].roles \subseteq Overlay(w)[u].roles
               /\ u \in DOMAIN batch => db[u].roles \subseteq batch[u].roles
    PROVE  Jobs'
<1>1. ~Caching(tx[p].op) /\ ~EditsUser(tx[p].op) /\ tx[p].op # "deleteRole"
  BY DEF Batching, Caching, EditsUser
<1>2. CASE DOMAIN batch = {}
  <2>. DEFINE t == [tx[p] EXCEPT !.pc = "commit", !.batch = batch, !.writes = w, !.rec = NoRow]
  <2>1. Step(p, t)
    BY <1>2 DEF NextUser
  <2>2. /\ t.pc = "commit" /\ t.batch = batch /\ t.writes = w /\ t.op = tx[p].op
        /\ t.id = tx[p].id /\ t.members = tx[p].members /\ t.clean = tx[p].clean
    BY WorkerType DEF TxType
  <2>. HIDE DEF t
  <2>3. LoopEnds(t) /\ Joined(t) /\ Unused(t)
    BY <1>1, <1>2, <2>2 DEF LoopEnds, Joined, Unused, Working
  <2>4. Reached(t) /\ Parted(t)
    BY <1>2, <2>2 DEF Reached, Parted, Pending, Working
  <2>5. Kept(t)
    BY <1>2, <2>2 DEF Kept, Working
  <2>6. Job(t)
    BY <2>3, <2>4, <2>5 DEF Job
  <2>. QED
    BY <2>1, <2>6, StepKeepsJobs DEF t
<1>3. CASE DOMAIN batch # {}
  <2>1. PICK u \in DOMAIN batch :
          Step(p, [tx[p] EXCEPT !.pc = "selectGroups", !.batch = Drop(batch, u),
                                !.writes = w, !.rec = RegroupedRec(p, u, batch[u])])
    BY <1>3 DEF NextUser
  <2>. DEFINE rec == RegroupedRec(p, u, batch[u])
              rest == Drop(batch, u)
              t == [tx[p] EXCEPT !.pc = "selectGroups", !.batch = rest, !.writes = w, !.rec = rec]
  <2>2. /\ rec.name = u /\ rec.roles = batch[u].roles
        /\ Joining(tx[p].op) => tx[p].id \in rec.groups
        /\ tx[p].op = "deleteGroup" => tx[p].id \notin rec.groups
    BY DEF RegroupedRec, recombineSlices, Rec, Joining
  <2>3. DOMAIN rest = DOMAIN batch \ {u} /\ \A v \in DOMAIN rest : rest[v] = batch[v]
    BY DEF Drop
  <2>. HIDE DEF rec, rest
  <2>4. /\ t.pc = "selectGroups" /\ t.batch = rest /\ t.writes = w /\ t.op = tx[p].op
        /\ t.id = tx[p].id /\ t.members = tx[p].members /\ t.clean = tx[p].clean
        /\ t.rec = rec
    BY WorkerType DEF TxType
  <2>. HIDE DEF t
  <2>5. LoopEnds(t) /\ Unused(t)
    BY <1>1, <2>4 DEF LoopEnds, Unused
  <2>6. Joined(t)
    BY <2>2, <2>4 DEF Joined, Working
  <2>7. \A v \in DOMAIN batch : Pending(t, v)
    BY <2>2, <2>3, <2>4 DEF Pending, Working
  <2>8. Reached(t) /\ Parted(t)
    BY <2>2, <2>4, <2>7 DEF Reached, Parted
  <2>9. Kept(t)
    BY <2>2, <2>3, <2>4 DEF Kept
  <2>10. Job(t)
    BY <2>5, <2>6, <2>8, <2>9 DEF Job
  <2>. QED
    BY <2>1, <2>10, StepKeepsJobs DEF t, rec, rest
<1>. QED
  BY <1>2, <1>3

\* What the invariant says of a worker in the middle of a transaction.
LEMMA WorkerJob ==
    ASSUME Jobs, NEW p \in Workers, tx[p].pc \notin {"idle", "publish"}
    PROVE  /\ LoopEnds(tx[p]) /\ Joined(tx[p]) /\ Reached(tx[p])
           /\ Parted(tx[p]) /\ Unused(tx[p]) /\ Kept(tx[p])
  BY DEF Jobs, Job

\* The select of the affected users takes all of them, as they are.
LEMMA FillUsersKeepsJobs ==
    ASSUME IInv, Jobs, NEW p \in Workers, FillUsers(p)
    PROVE  Jobs'
<1>. DEFINE batch == [u \in Affected(p) |-> Seen(p)[u]]
            w == tx[p].writes
<1>1. NextUser(p, batch, w) /\ tx[p].pc = "fillUsers" /\ Batching(tx[p].op)
  BY WorkerType DEF FillUsers, TxOK
<1>2. Joined(tx[p]) /\ Kept(tx[p])
  BY <1>1, WorkerJob
<1>3. ~EditsUser(tx[p].op)
  BY <1>1 DEF Batching, EditsUser
<1>4. /\ Joining(tx[p].op) => Affected(p) = Existing(Seen(p), tx[p].members)
      /\ tx[p].op = "deleteGroup" =>
           Affected(p) = {u \in Existing(Seen(p), Users) : tx[p].id \in Seen(p)[u].groups}
  BY DEF Affected, Joining
<1>5. Seen(p) = Overlay(w)
  BY DEF Seen
<1>. HIDE DEF batch, w
<1>6. DOMAIN batch = Affected(p) /\ \A u \in DOMAIN batch : batch[u] = Overlay(w)[u]
  BY <1>5 DEF batch
<1>7. Joining(tx[p].op) =>
        /\ tx[p].id \in DOMAIN w => w[tx[p].id] # NoRow
        /\ \A u \in Users \cap DOMAIN w :
             /\ w[u] # NoRow
             /\ tx[p].id \in w[u].groups
             /\ tx[p].id \in DOMAIN w => w[tx[p].id].roles \subseteq w[u].roles
  BY <1>2 DEF Joined, w
<1>8. tx[p].clean =>
        \A u \in Existing(db, Users) :
          /\ Overlay(w)[u] # NoRow /\ db[u].roles \subseteq Overlay(w)[u].roles
          /\ u \in DOMAIN batch => db[u].roles \subseteq batch[u].roles
  BY <1>2, <1>3, <1>6 DEF Kept, w
<1>. QED
  BY <1>1, <1>4, <1>5, <1>6, <1>7, <1>8, NextUserKeepsJobs

\* The write of the user in memory accounts for that user.
LEMMA WriteBackKeepsJobs ==
    ASSUME IInv, Jobs, NEW p \in Workers, WriteBack(p)
    PROVE  Jobs'
<1>. DEFINE rec == tx[p].rec
            n == rec.name
            row == [groups |-> rec.groups, roles |-> rec.roles]
            w == Written(p, n, row)
            old == tx[p].writes
            id == tx[p].id
<1>1. NextUser(p, tx[p].batch, w) /\ tx[p].pc = "writeBack"
  BY DEF WriteBack
<1>2. Batching(tx[p].op) /\ n \in Users /\ n \in Ids /\ tx[p].members \subseteq Users
  BY <1>1, WorkerType DEF TxOK, TxType, RecType, Ids
<1>3. Joined(tx[p]) /\ Reached(tx[p]) /\ Parted(tx[p]) /\ Kept(tx[p]) /\ ~EditsUser(tx[p].op)
  BY <1>1, <1>2, WorkerJob DEF Batching, EditsUser
<1>4. \A u : Pending(tx[p], u) => u \in DOMAIN tx[p].batch \/ u = n
  BY <1>1 DEF Pending
<1>5. row # NoRow /\ row.groups = rec.groups /\ row.roles = rec.roles
  <2>1. row \in Row
    BY <1>1, WorkerType DEF TxOK, RecType, Row, UserRow
  <2>. QED
    BY <2>1, Kinds
<1>6. Joining(tx[p].op) => id \in Groups /\ id # n
  BY <1>2, WorkerType, IdsAssumption DEF TxOK, Joining
<1>. HIDE DEF rec, n, row, id
<1>7. \/ w = old /\ Overlay(old)[n] = NoRow
      \/ w = Put(old, n, row)
  BY DEF Written, Seen
<1>8. /\ DOMAIN old \subseteq DOMAIN w /\ DOMAIN w \subseteq DOMAIN old \cup {n}
      /\ \A i \in DOMAIN w : i # n => w[i] = old[i]
      /\ n \in DOMAIN w /\ Overlay(w)[n] # NoRow => w[n] = row /\ Overlay(w)[n] = row
      /\ Overlay(w)[n] # NoRow => n \in DOMAIN w
      /\ Overlay(old)[n] # NoRow => Overlay(w)[n] = row
      /\ n \in DOMAIN w => w[n] = Overlay(w)[n]
  BY <1>2, <1>5, <1>7 DEF Put, Overlay
<1>9. \A i \in Ids : i # n => Overlay(w)[i] = Overlay(old)[i]
  BY <1>8 DEF Overlay
<1>10. ASSUME Joining(tx[p].op)
       PROVE  /\ id \in DOMAIN w => w[id] # NoRow
              /\ \A u \in Users \cap DOMAIN w :
                   /\ w[u] # NoRow
                   /\ id \in w[u].groups
                   /\ id \in DOMAIN w => w[id].roles \subseteq w[u].roles
  <2>1. /\ id \in DOMAIN old => old[id] # NoRow
        /\ \A u \in Users \cap DOMAIN old :
             /\ old[u] # NoRow
             /\ id \in old[u].groups
             /\ id \in DOMAIN old => old[id].roles \subseteq old[u].roles
        /\ id \in rec.groups
        /\ id \in DOMAIN old => old[id].roles \subseteq rec.roles
    BY <1>1, <1>3, <1>10 DEF Joined, Working, id, rec
  <2>2. id \in DOMAIN w => id \in DOMAIN old /\ w[id] = old[id]
    BY <1>6, <1>8, <1>10
  <2>3. n \in DOMAIN w => w[n] = row
    <3>1. n \in DOMAIN old => Overlay(old)[n] # NoRow
      BY <1>2, <2>1 DEF Overlay
    <3>. QED
      BY <1>7, <1>8, <3>1 DEF Put
  <2>4. \A u \in DOMAIN w : u # n => u \in DOMAIN old /\ w[u] = old[u]
    BY <1>8
  <2>. QED
    BY <1>5, <2>1, <2>2, <2>3, <2>4
<1>11. ASSUME Joining(tx[p].op), tx[p].clean, NEW u \in Existing(Overlay(w), tx[p].members)
       PROVE  u \in DOMAIN tx[p].batch \cup DOMAIN w
  <2>1. CASE u = n
    BY <1>8, <1>11, <2>1 DEF Existing
  <2>2. CASE u # n
    <3>1. u \in Existing(Overlay(old), tx[p].members)
      BY <1>2, <1>9, <1>11, <2>2 DEF Existing, Ids
    <3>. QED
      BY <1>3, <1>4, <1>8, <1>11, <2>2, <3>1 DEF Reached
  <2>. QED
    BY <2>1, <2>2
<1>12. ASSUME tx[p].op = "deleteGroup", tx[p].clean, NEW u \in Existing(Overlay(w), Users),
              id \in Overlay(w)[u].groups
       PROVE  u \in DOMAIN tx[p].batch
  <2>1. id \notin rec.groups
    BY <1>1, <1>3, <1>12 DEF Parted, Working, id, rec
  <2>2. u # n
    BY <1>5, <1>8, <1>12, <2>1 DEF Existing
  <2>3. u \in Existing(Overlay(old), Users) /\ id \in Overlay(old)[u].groups
    BY <1>9, <1>12, <2>2 DEF Existing, Ids
  <2>. QED
    BY <1>3, <1>4, <1>12, <2>2, <2>3 DEF Parted, id
<1>13. ASSUME tx[p].clean, NEW u \in Existing(db, Users)
       PROVE  /\ Overlay(w)[u] # NoRow /\ db[u].roles \subseteq Overlay(w)[u].roles
              /\ u \in DOMAIN tx[p].batch => db[u].roles \subseteq tx[p].batch[u].roles
  <2>1. /\ Overlay(old)[u] # NoRow /\ db[u].roles \subseteq Overlay(old)[u].roles
        /\ u \in DOMAIN tx[p].batch => db[u].roles \subseteq tx[p].batch[u].roles
        /\ u = n => db[u].roles \subseteq rec.roles
    BY <1>1, <1>3, <1>13 DEF Kept, Working, n, rec
  <2>2. u \in Ids
    BY <1>13 DEF Existing, Ids
  <2>. QED
    BY <1>5, <1>8, <1>9, <2>1, <2>2
<1>14. NextUser(p, tx[p].batch, w)
  BY <1>1
<1>. HIDE DEF w
<1>. QED
  BY <1>2, <1>10, <1>11, <1>12, <1>13, <1>14, NextUserKeepsJobs DEF id

\* An update goes on to its commit: it has no batch, and promises no one's roles.
LEMMA SkipReloadKeepsJobs ==
    ASSUME IInv, Jobs, NEW p \in Workers, SkipReload(p)
    PROVE  Jobs'
<1>. DEFINE t == [tx[p] EXCEPT !.pc = AfterReload(p)]
<1>1. Step(p, t) /\ tx[p].pc = "selectGroups" /\ tx[p].rec.super
  BY DEF SkipReload
<1>2. tx[p].op = "updateUser"
  BY <1>1, WorkerType, Kinds DEF TxOK
<1>3. LoopEnds(tx[p])
  BY <1>1, WorkerJob
<1>4. t.op = "updateUser" /\ t.batch = tx[p].batch
  BY <1>2, WorkerType DEF TxType
<1>. HIDE DEF t
<1>5. Job(t)
  BY <1>2, <1>3, <1>4
     DEF Job, LoopEnds, Joined, Joining, Reached, Parted, Unused, Kept, EditsUser, Caching
<1>. QED
  BY <1>1, <1>5, StepKeepsJobs DEF t

\* The first select adds the roles of the group's own row to the user in memory.
LEMMA SelectGroupsKeepsJobs ==
    ASSUME IInv, Jobs, NEW p \in Workers, SelectGroups(p)
    PROVE  Jobs'
<1>. DEFINE roles == tx[p].rec.roles \cup GroupRoles(Seen(p), tx[p].rec.groups)
            pc == IF roles = {} THEN AfterReload(p) ELSE "selectRoles"
            t == [tx[p] EXCEPT !.rec.roles = roles, !.pc = pc]
<1>1. Step(p, t) /\ tx[p].pc = "selectGroups"
  BY DEF SelectGroups
<1>2. tx[p].rec \in RecType /\ (Batching(tx[p].op) \/ Caching(tx[p].op))
  BY <1>1, WorkerType DEF TxOK
<1>3. /\ LoopEnds(tx[p]) /\ Joined(tx[p]) /\ Reached(tx[p])
      /\ Parted(tx[p]) /\ Unused(tx[p]) /\ Kept(tx[p])
  BY <1>1, WorkerJob
<1>4. \/ pc \in {"selectRoles", "writeBack"}
      \/ pc = "commit" /\ Caching(tx[p].op)
  BY DEF AfterReload
<1>5. ASSUME Joining(tx[p].op), tx[p].id \in DOMAIN tx[p].writes
      PROVE  tx[p].writes[tx[p].id].roles \subseteq roles
  <2>1. tx[p].id \in Ids /\ tx[p].id \in tx[p].rec.groups /\ tx[p].writes[tx[p].id] # NoRow
    BY <1>1, <1>3, <1>5, WorkerType DEF TxOK, Joined, Working
  <2>2. Seen(p)[tx[p].id] = tx[p].writes[tx[p].id]
    BY <1>5, <2>1 DEF Seen, Overlay
  <2>3. tx[p].id \in Existing(Seen(p), tx[p].rec.groups)
    BY <2>1, <2>2 DEF Existing
  <2>. QED
    BY <2>2, <2>3, Zenon DEF GroupRoles
<1>6. tx[p].rec.roles \subseteq roles
  OBVIOUS
<1>. HIDE DEF roles, pc
<1>7. /\ t.pc = pc /\ t.batch = tx[p].batch /\ t.writes = tx[p].writes /\ t.op = tx[p].op
      /\ t.id = tx[p].id /\ t.members = tx[p].members /\ t.clean = tx[p].clean
      /\ t.rec.name = tx[p].rec.name /\ t.rec.groups = tx[p].rec.groups
      /\ t.rec.roles = roles
  BY <1>2, WorkerType DEF TxType, RecType
<1>. HIDE DEF t
<1>8. Caching(tx[p].op) => ~Joining(tx[p].op) /\ tx[p].op \notin {"deleteGroup", "deleteRole"}
  BY DEF Caching, Joining
<1>9. ~Caching(tx[p].op) => \A u : Pending(tx[p], u) => Pending(t, u)
  BY <1>1, <1>4, <1>7 DEF Pending, Working
<1>10. LoopEnds(t) /\ Joined(t) /\ Unused(t)
  <2>1. LoopEnds(t)
    BY <1>3, <1>4, <1>7 DEF LoopEnds
  <2>2. Joined(t)
    BY <1>1, <1>3, <1>5, <1>7 DEF Joined, Working
  <2>3. Unused(t)
    BY <1>3, <1>7 DEF Unused
  <2>. QED
    BY <2>1, <2>2, <2>3
<1>11. Reached(t) /\ Parted(t)
  <2>1. Reached(t)
    BY <1>3, <1>7, <1>8, <1>9 DEF Reached
  <2>2. Parted(t)
    BY <1>1, <1>3, <1>7, <1>8, <1>9 DEF Parted, Working
  <2>. QED
    BY <2>1, <2>2
<1>12. Kept(t)
  BY <1>1, <1>3, <1>6, <1>7 DEF Kept, Working
<1>13. Job(t)
  BY <1>10, <1>11, <1>12 DEF Job
<1>. QED
  BY <1>1, <1>13, StepKeepsJobs DEF t, roles, pc

\* The second select leaves the groups and roles in memory alone.
LEMMA SelectRolesKeepsJobs ==
    ASSUME IInv, Jobs, NEW p \in Workers, SelectRoles(p)
    PROVE  Jobs'
<1>. DEFINE views == RoleViews(Seen(p), tx[p].rec.roles)
            pc == AfterReload(p)
            t == [tx[p] EXCEPT !.rec.views = views, !.pc = pc]
<1>1. Step(p, t) /\ tx[p].pc = "selectRoles"
  BY DEF SelectRoles
<1>2. tx[p].rec \in RecType /\ (Batching(tx[p].op) \/ Caching(tx[p].op))
  BY <1>1, WorkerType DEF TxOK
<1>3. /\ LoopEnds(tx[p]) /\ Joined(tx[p]) /\ Reached(tx[p])
      /\ Parted(tx[p]) /\ Unused(tx[p]) /\ Kept(tx[p])
  BY <1>1, WorkerJob
<1>4. pc = "writeBack" \/ (pc = "commit" /\ Caching(tx[p].op))
  BY DEF AfterReload
<1>. HIDE DEF views, pc
<1>5. /\ t.pc = pc /\ t.batch = tx[p].batch /\ t.writes = tx[p].writes /\ t.op = tx[p].op
      /\ t.id = tx[p].id /\ t.members = tx[p].members /\ t.clean = tx[p].clean
      /\ t.rec.name = tx[p].rec.name /\ t.rec.groups = tx[p].rec.groups
      /\ t.rec.roles = tx[p].rec.roles
  BY <1>2, WorkerType DEF TxType, RecType
<1>. HIDE DEF t
<1>6. Caching(tx[p].op) => ~Joining(tx[p].op) /\ tx[p].op \notin {"deleteGroup", "deleteRole"}
  BY DEF Caching, Joining
<1>7. ~Caching(tx[p].op) => \A u : Pending(tx[p], u) => Pending(t, u)
  BY <1>1, <1>4, <1>5 DEF Pending, Working
<1>8. LoopEnds(t) /\ Joined(t) /\ Unused(t)
  <2>1. LoopEnds(t)
    BY <1>3, <1>4, <1>5 DEF LoopEnds
  <2>2. Joined(t)
    BY <1>1, <1>3, <1>5 DEF Joined, Working
  <2>3. Unused(t)
    BY <1>3, <1>5 DEF Unused
  <2>. QED
    BY <2>1, <2>2, <2>3
<1>9. Reached(t) /\ Parted(t)
  <2>1. Reached(t)
    BY <1>3, <1>5, <1>6, <1>7 DEF Reached
  <2>2. Parted(t)
    BY <1>1, <1>3, <1>5, <1>6, <1>7 DEF Parted, Working
  <2>. QED
    BY <2>1, <2>2
<1>10. Kept(t)
  BY <1>1, <1>3, <1>5 DEF Kept, Working
<1>11. Job(t)
  BY <1>8, <1>9, <1>10 DEF Job
<1>. QED
  BY <1>1, <1>11, StepKeepsJobs DEF t, views, pc

\* The delete of a group or role row leaves the user rows alone.
LEMMA DeleteRowKeepsJobs ==
    ASSUME IInv, Jobs, NEW p \in Workers, DeleteRow(p)
    PROVE  Jobs'
<1>. DEFINE id == tx[p].id
            old == tx[p].writes
            w == Written(p, id, NoRow)
            pc == IF tx[p].op = "deleteGroup" THEN "fillUsers" ELSE "commit"
            t == [tx[p] EXCEPT !.writes = w, !.pc = pc]
<1>1. Step(p, t) /\ tx[p].pc = "deleteRow"
  BY DEF DeleteRow
<1>2. /\ tx[p].op \in {"deleteGroup", "deleteRole"} /\ id \in Ids /\ id \notin Users
      /\ ~Joining(tx[p].op) /\ ~Caching(tx[p].op) /\ ~EditsUser(tx[p].op)
  BY <1>1, WorkerType, IdsAssumption DEF TxOK, Joining, Caching, EditsUser
<1>3. DOMAIN tx[p].batch = {} /\ Unused(tx[p]) /\ Kept(tx[p])
  BY <1>1, WorkerJob DEF LoopEnds
<1>. HIDE DEF id
<1>4. w = old \/ w = Put(old, id, NoRow)
  BY DEF Written
<1>5. Users \cap DOMAIN w \subseteq DOMAIN old
      /\ \A u \in Users : Overlay(w)[u] = Overlay(old)[u]
  BY <1>2, <1>4 DEF Put, Overlay, Ids
<1>6. \/ pc = "fillUsers" /\ tx[p].op = "deleteGroup"
      \/ pc = "commit" /\ tx[p].op = "deleteRole"
  BY <1>2
<1>. HIDE DEF w, pc
<1>7. /\ t.pc = pc /\ t.batch = tx[p].batch /\ t.writes = w /\ t.op = tx[p].op
      /\ t.id = tx[p].id /\ t.clean = tx[p].clean
  BY WorkerType DEF TxType
<1>. HIDE DEF t
<1>8. LoopEnds(t) /\ Joined(t) /\ Reached(t)
  BY <1>2, <1>3, <1>7 DEF LoopEnds, Joined, Reached
<1>9. Parted(t)
  BY <1>6, <1>7 DEF Parted, Pending, Working
<1>10. Unused(t)
  BY <1>3, <1>5, <1>7 DEF Unused
<1>11. Kept(t)
  BY <1>2, <1>3, <1>5, <1>6, <1>7 DEF Kept, Existing, Working
<1>12. Job(t)
  BY <1>8, <1>9, <1>10, <1>11 DEF Job
<1>. QED
  BY <1>1, <1>12, StepKeepsJobs DEF t, w, pc, id

--------------------------------------------------------------------------------
(* Jobs: the end of a request *)

\* A commit that wrote rows spoils the others' reads; what their own writes and the
\* user in memory promise does not depend on the committed tables.
LEMMA CommitKeepsJobs ==
    ASSUME IInv, Jobs, NEW p \in Workers, Commit(p)
    PROVE  Jobs'
<1>. SUFFICES ASSUME NEW q \in Workers PROVE Job(tx[q])'
  BY DEF Jobs
<1>1. CASE q = p
  <2>1. tx'[p].pc \in {"idle", "publish"}
    BY WorkerType DEF Commit, Spoil, IInv, TypeOK, TxType, Idle, Request
  <2>. QED
    BY <1>1, <2>1 DEF Job
<1>2. CASE q # p /\ tx[p].writes = NoWrites
  <2>1. db' = db /\ tx'[q] = tx[q]
    BY <1>2, OverlayNothing DEF Commit, Seen, IInv, TypeOK
  <2>. QED
    BY <2>1 DEF Jobs, Job, LoopEnds, Joined, Reached, Parted, Unused, Kept, Pending, Existing,
                Overlay
<1>3. CASE q # p /\ tx[p].writes # NoWrites
  <2>1. \/ tx'[q].pc = "idle"
        \/ tx[q].pc # "idle" /\ tx'[q] = [tx[q] EXCEPT !.clean = FALSE]
    BY <1>3 DEF Commit, Spoil, IInv, TypeOK
  <2>2. CASE tx'[q].pc = "idle"
    BY <2>2 DEF Job
  <2>3. CASE tx[q].pc # "idle" /\ tx'[q] = [tx[q] EXCEPT !.clean = FALSE]
    <3>1. /\ tx'[q].pc = tx[q].pc /\ tx'[q].batch = tx[q].batch /\ tx'[q].writes = tx[q].writes
          /\ tx'[q].op = tx[q].op /\ tx'[q].id = tx[q].id /\ tx'[q].rec = tx[q].rec
          /\ tx'[q].clean = FALSE
      BY <2>3, WorkerType DEF TxType
    <3>2. CASE tx[q].pc = "publish"
      BY <3>1, <3>2 DEF Job
    <3>3. CASE tx[q].pc # "publish"
      <4>1. LoopEnds(tx[q]) /\ Joined(tx[q]) /\ Parted(tx[q]) /\ Unused(tx[q])
        BY <2>3, <3>3, WorkerJob
      <4>2. LoopEnds(tx[q])' /\ Joined(tx[q])'
        BY <3>1, <4>1 DEF LoopEnds, Joined
      <4>3. Reached(tx[q])' /\ Parted(tx[q])' /\ Unused(tx[q])' /\ Kept(tx[q])'
        BY <3>1, <4>1 DEF Reached, Parted, Unused, Kept
      <4>. QED
        BY <4>2, <4>3 DEF Job
    <3>. QED
      BY <3>2, <3>3
  <2>. QED
    BY <2>1, <2>2, <2>3
<1>. QED
  BY <1>1, <1>2, <1>3

\* The steps outside of a transaction, and those that end all of them.
LEMMA OtherStepsKeepJobs ==
    ASSUME IInv, Jobs,
           \/ \E p \in Workers : Publish(p) \/ Abort(p)
           \/ \E u \in Users : Logout(u)
           \/ Restart
           \/ UNCHANGED vars
    PROVE  Jobs'
<1>1. db' = db /\ \A q \in Workers : tx'[q] \in {tx[q], Idle}
  BY DEF Publish, Abort, Step, Logout, Restart, vars, IInv, TypeOK
<1>2. \A q \in Workers : Job(tx'[q])
  BY <1>1, IdleJob DEF Jobs
<1>. QED
  BY <1>1, <1>2, JobsOfWorkers

--------------------------------------------------------------------------------
(* The theorems about commits *)

LEMMA InitJobs == Init => Jobs
  BY IdleJob DEF Init, Jobs

LEMMA NextKeepsJobs == IInv /\ Jobs /\ [Next]_vars => Jobs'
<1>. SUFFICES ASSUME IInv, Jobs, [Next]_vars PROVE Jobs'
  OBVIOUS
<1>1. ASSUME NEW p \in Workers, UserRequests(p) \/ GroupRequests(p) \/ RoleRequests(p)
      PROVE  Jobs'
  BY <1>1, UserRequestsKeepJobs, OtherRequestsKeepJobs
<1>2. ASSUME NEW p \in Workers, Proceed(p)
      PROVE  Jobs'
  BY <1>2, DeleteRowKeepsJobs, FillUsersKeepsJobs, SkipReloadKeepsJobs, SelectGroupsKeepsJobs,
     SelectRolesKeepsJobs, WriteBackKeepsJobs, CommitKeepsJobs, OtherStepsKeepJobs DEF Proceed
<1>. QED
  BY <1>1, <1>2, OtherStepsKeepJobs DEF Next

\* The loop accounts for every affected user in every reachable state.
THEOREM LoopInvariant == Spec => [](IInv /\ Jobs)
  BY InitInv, NextKeepsInv, InitJobs, NextKeepsJobs, PTL DEF Spec

\* A worker that commits has gone through its batch, and the tables become what its
\* transaction sees.
LEMMA CommitJob ==
    ASSUME IInv, Jobs, NEW p \in Workers, Commit(p)
    PROVE  /\ tx[p].pc = "commit" /\ DOMAIN tx[p].batch = {}
           /\ \A u : ~Pending(tx[p], u)
           /\ db' = Overlay(tx[p].writes)
           /\ \A i \in Ids \cap DOMAIN tx[p].writes : db'[i] = tx[p].writes[i]
           /\ \A i \in Ids \ DOMAIN tx[p].writes : db'[i] = db[i]
<1>1. tx[p].pc = "commit" /\ db' = Overlay(tx[p].writes)
  BY DEF Commit, Seen
<1>2. DOMAIN tx[p].batch = {}
  BY <1>1, WorkerJob DEF LoopEnds
<1>3. \A u : ~Pending(tx[p], u)
  BY <1>1, <1>2 DEF Pending, Working
<1>. QED
  BY <1>1, <1>2, <1>3 DEF Overlay

\* A create or update of a group reaches its members, whatever else runs (Create and
\* Update of the user group handler, with the loop of fillUsers and updateUserToDB).
THEOREM GroupsReachMembers == Spec => GroupChangeReachesMembers
<1>1. ASSUME IInv, Jobs, NEW p \in Workers, Commit(p), Joining(tx[p].op),
             NEW u \in Existing(db', tx[p].members),
             tx[p].clean \/ u \in DOMAIN tx[p].writes
      PROVE  /\ tx[p].id \in db'[u].groups
             /\ tx[p].id \in DOMAIN tx[p].writes => db'[tx[p].id].roles \subseteq db'[u].roles
  <2>1. u \in Users /\ u \in Ids /\ tx[p].id \in Ids
    BY <1>1, CommitJob, WorkerType DEF Existing, TxType, TxOK, Ids
  <2>2. Joined(tx[p]) /\ Reached(tx[p])
    BY <1>1, CommitJob, WorkerJob
  <2>3. u \in DOMAIN tx[p].writes
    BY <1>1, <2>2, CommitJob DEF Reached
  <2>4. db'[u] = tx[p].writes[u]
        /\ (tx[p].id \in DOMAIN tx[p].writes => db'[tx[p].id] = tx[p].writes[tx[p].id])
    BY <1>1, <2>1, <2>3, CommitJob
  <2>. QED
    BY <1>1, <2>1, <2>2, <2>3, <2>4 DEF Joined
<1>2. IInv /\ Jobs =>
        \A p \in Workers :
          Commit(p) /\ tx[p].op \in {"createGroup", "updateGroup"} =>
            \A u \in Existing(db', tx[p].members) :
              tx[p].clean \/ u \in DOMAIN tx[p].writes =>
                /\ tx[p].id \in db'[u].groups
                /\ tx[p].id \in DOMAIN tx[p].writes =>
                     db'[tx[p].id].roles \subseteq db'[u].roles
  BY <1>1 DEF Joining
<1>. QED
  BY <1>2, LoopInvariant, PTL DEF GroupChangeReachesMembers

\* A delete of a group or a role that nobody interferes with leaves no reference to it
\* in a user row (Delete of the two handlers).
THEOREM DeletesLeaveNoReference == Spec => DeleteLeavesNoUserReference
<1>1. ASSUME IInv, Jobs, NEW p \in Workers, Commit(p),
             tx[p].op \in {"deleteGroup", "deleteRole"}, tx[p].clean,
             NEW u \in Existing(db', Users)
      PROVE  tx[p].id \notin db'[u].groups \cup db'[u].roles
  <2>1. u \in Users /\ u \in Ids /\ db'[u] # NoRow
    BY DEF Existing, Ids
  <2>2. Parted(tx[p]) /\ Unused(tx[p])
    BY <1>1, CommitJob, WorkerJob
  <2>3. Typed(db') /\ db' = Overlay(tx[p].writes)
    BY <1>1, CommitJob, WorkerType DEF Seen
  <2>4. db'[u].groups \subseteq Groups /\ db'[u].roles \subseteq Roles
    <3>1. db'[u] \in UserRow
      BY <2>1, <2>3, Kinds DEF Typed
    <3>. QED
      BY <3>1 DEF UserRow
  <2>5. CASE tx[p].op = "deleteGroup"
    <3>1. tx[p].id \in Groups
      BY <1>1, <2>5, WorkerType DEF TxOK
    <3>2. tx[p].id \notin db'[u].groups
      BY <1>1, <2>2, <2>3, <2>5, CommitJob DEF Parted
    <3>. QED
      BY <2>4, <3>1, <3>2, IdsAssumption
  <2>6. CASE tx[p].op = "deleteRole"
    <3>1. tx[p].id \in Roles
      BY <1>1, <2>6, WorkerType DEF TxOK
    <3>2. db'[u] = db[u]
      BY <1>1, <2>1, <2>2, <2>6, CommitJob DEF Unused
    <3>3. tx[p].id \notin db'[u].roles
      BY <1>1, <2>1, <2>2, <2>6, <3>2 DEF Unused, Existing
    <3>. QED
      BY <2>4, <3>1, <3>3, IdsAssumption
  <2>. QED
    BY <1>1, <2>5, <2>6
<1>2. IInv /\ Jobs =>
        \A p \in Workers :
          Commit(p) /\ tx[p].op \in {"deleteGroup", "deleteRole"} /\ tx[p].clean =>
            \A u \in Existing(db', Users) : tx[p].id \notin db'[u].groups \cup db'[u].roles
  BY <1>1
<1>. QED
  BY <1>2, LoopInvariant, PTL DEF DeleteLeavesNoUserReference

\* Only an edit of the user takes roles from it: every other handler writes back the
\* roles it read, and more (reloadUserAuthority, updateUserToDB).
THEOREM RolesOnlyGrow == Spec => OnlyUserEditsRevokeRoles
<1>1. ASSUME IInv, Jobs, NEW p \in Workers, Commit(p), ~EditsUser(tx[p].op), tx[p].clean,
             NEW u \in Existing(db, Users)
      PROVE  db'[u] # NoRow /\ db[u].roles \subseteq db'[u].roles
  <2>1. Kept(tx[p])
    BY <1>1, CommitJob, WorkerJob
  <2>. QED
    BY <1>1, <2>1, CommitJob DEF Kept
<1>2. IInv /\ Jobs =>
        \A p \in Workers :
          Commit(p) /\ tx[p].op \notin {"updateUser", "deleteUser"} /\ tx[p].clean =>
            \A u \in Existing(db, Users) : db'[u] # NoRow /\ db[u].roles \subseteq db'[u].roles
  BY <1>1 DEF EditsUser
<1>. QED
  BY <1>2, LoopInvariant, PTL DEF OnlyUserEditsRevokeRoles
===============================================================================
