---------------------------- MODULE Authorization ----------------------------
(***************************************************************************)
(* What a normal user may do: the authority map built from the role        *)
(* template and the user's roles (authorization.go, reloadUserAuthority),  *)
(* and the check of each request against it (authentification.go).         *)
(*                                                                         *)
(* Each section of the template is a set of entries; a resource that is    *)
(* filtered has its operations widened when views (or plans) are granted.  *)
(* String slices are sets.  A request that was not made for one object has *)
(* the id NoId.                                                            *)
(***************************************************************************)
EXTENDS FiniteSets

CONSTANTS Roles,          \* ids of roles
          Views,          \* ids of DNS views
          Plans,          \* ids of IP plans
          Objects,        \* ids of other objects
          NoId,           \* the id of a request about a whole collection
          baseAuthority,  \* sections of the template for NORMAL users
          dnsAuthority,
          dhcpAuthority

VARIABLES role,   \* the roles: the views and plans of each
          own,    \* the roles of the user, its groups' roles included
          ctx     \* the request being checked

vars == <<role, own, ctx>>

Methods == {"GET", "PUT", "POST", "DELETE", "ACTION"}
Template == baseAuthority \cup dnsAuthority \cup dhcpAuthority
Resources == {a.resource : a \in Template}

\* What etc/ddi-role.json has: one entry per resource, and reading only outside the
\* base section.
ASSUME TemplateAssumption ==
    /\ \A a \in Template : a.operations \subseteq Methods /\ a.filter \in BOOLEAN
    /\ \A a, b \in Template : a.resource = b.resource => a = b
    /\ \A a \in dnsAuthority \cup dhcpAuthority : a.operations = {"GET"}
    /\ baseAuthority \cap (dnsAuthority \cup dhcpAuthority) = {}
    /\ dnsAuthority \cap dhcpAuthority = {}
    /\ NoId \notin Views \cup Objects

--------------------------------------------------------------------------------
(* The authority map *)

RoleAuthority(a, views, plans, operations) ==
    [resource |-> a.resource, views |-> views, plans |-> plans, operations |-> operations]

\* The map with the entries of a section put over it.
Over(map, section, Authority(_)) ==
    LET covered == {a.resource : a \in section} IN
    [r \in DOMAIN map \cup covered |->
        IF r \in covered THEN Authority(CHOOSE a \in section : a.resource = r) ELSE map[r]]

\* Mutant: the filter switch is ignored.
OperationsUnfiltered(a, granted) ==
    IF granted = {} THEN a.operations ELSE Methods

\* The operations of an entry of the DNS or DHCP section.
Operations(a, granted) ==
    IF ~a.filter THEN a.operations ELSE IF granted = {} THEN {"GET"} ELSE Methods

CreateViewAuthority(views, map) ==
    LET Authority(a) == RoleAuthority(a, views, {}, Operations(a, views)) IN
    Over(map, dnsAuthority, Authority)

CreateDhcpAuthority(plans, map) ==
    LET Authority(a) == RoleAuthority(a, {}, plans, Operations(a, plans)) IN
    Over(map, dhcpAuthority, Authority)

CreateBaseAuthority ==
    LET Authority(a) == RoleAuthority(a, {}, {}, a.operations) IN
    CreateDhcpAuthority({}, CreateViewAuthority({},
        Over([r \in {} |-> NoId], baseAuthority, Authority)))

\* Mutant: the views of one role only.
reloadUserAuthorityOfOne(rs) ==
    IF rs = {} THEN CreateBaseAuthority
    ELSE CreateDhcpAuthority({},
             CreateViewAuthority(role[CHOOSE r \in rs : TRUE].views, CreateBaseAuthority))

\* The end of reloadUserAuthority, for the roles rs: the plans are collected, and an
\* empty slice is passed on.
reloadUserAuthority(rs) ==
    IF rs = {} THEN CreateBaseAuthority
    ELSE CreateDhcpAuthority({},
             CreateViewAuthority(UNION {role[r].views : r \in rs}, CreateBaseAuthority))

--------------------------------------------------------------------------------
(* The check of a request *)

\* One of the views is the object, or an ancestor of it.
checkView(views) ==
    ctx.id = NoId \/ views = {} \/ (ctx.ancestors \cup {ctx.id}) \cap views # {}

\* The entry of the requested resource allows the method and the object.
checkAuthority(map) ==
    \E r \in DOMAIN map :
        /\ map[r].resource = ctx.resource
        /\ ctx.method \in map[r].operations
        /\ checkView(map[r].views)

\* Mutant: the filter looks at the plans.
ViewFilterOfPlans(map, view) ==
    \E r \in DOMAIN map : map[r].resource = ctx.resource /\ view \in map[r].plans

\* The filter of a list handler: the views the check has left in the context.
ViewFilter(map, view) ==
    \E r \in DOMAIN map : map[r].resource = ctx.resource /\ view \in map[r].views

--------------------------------------------------------------------------------
(* The specification: all users and all requests *)

Request == [resource : Resources \cup {"other"}, method : Methods,
            id : Views \cup Objects \cup {NoId}, ancestors : SUBSET Views]

Init ==
    /\ role \in [Roles -> [views : SUBSET Views, plans : SUBSET Plans]]
    /\ own \in SUBSET Roles
    /\ ctx = [resource |-> "other", method |-> "GET", id |-> NoId, ancestors |-> {}]

\* The user makes a request; a collection may have ancestors, a view has none.
Ask ==
    /\ ctx' \in Request
    /\ ctx'.id \in Views => ctx'.ancestors = {}
    /\ UNCHANGED <<role, own>>

Next == Ask

Spec == Init /\ [][Next]_vars

--------------------------------------------------------------------------------
(* Properties *)

May(rs) == checkAuthority(reloadUserAuthority(rs))
Granted == UNION {role[r].views : r \in own}
DnsFiltered == {a.resource : a \in {b \in dnsAuthority : b.filter}}
DhcpFiltered == {a.resource : a \in {b \in dhcpAuthority : b.filter}}
BaseResources == {a.resource : a \in baseAuthority}

\* "Before DNS [views] or IP prefixes are assigned, all other authority is read-only"
\* (auth.md:13), and a view that is assigned opens the filtered DNS resources below it
\* to every operation, the others staying read-only (auth.md:30): outside the base
\* section, a change is allowed exactly when it is for a filtered DNS resource and the
\* user has a view, one that is the object or an ancestor of it when it is for one
\* object (checkView compares nothing for a whole collection).
\*
\* Nothing is said of the filtered DHCP resources.  auth.md:31-42 has the plans of a role
\* open them; reloadUserAuthority (user_handler.go:191-192) passes on no plan, so the
\* code leaves them read-only, whatever plans are assigned.
GrantedViewsOpenChanges ==
    ctx.method # "GET" /\ ctx.resource \notin BaseResources \cup DhcpFiltered =>
        (May(own) <=> /\ ctx.resource \in DnsFiltered
                      /\ Granted # {}
                      /\ ctx.id # NoId => (ctx.ancestors \cup {ctx.id}) \cap Granted # {})

\* "The authority of a user is the union of its groups and roles": what changes
\* something is allowed exactly when one of the roles alone allows it, whatever the
\* others have or lack.
ChangesAreTheUnionOfRoles ==
    own # {} /\ ctx.method # "GET" => (May(own) <=> \E r \in own : May({r}))

\* A list shows what may be read: for a user with views, the filter of a list keeps
\* exactly the views the check of a single read lets pass.
ListShowsWhatMayBeRead ==
    Granted # {} /\ ctx.method = "GET" /\ ctx.id \in Views
    /\ ctx.resource \in {a.resource : a \in dnsAuthority}
        => (May(own) <=> ViewFilter(reloadUserAuthority(own), ctx.id))
================================================================================
