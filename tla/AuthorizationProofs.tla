------------------------- MODULE AuthorizationProofs -------------------------
(***************************************************************************)
(* Proofs about the authority of a normal user, for every template that    *)
(* has the shape of etc/ddi-role.json and for any roles, views and plans.  *)
(***************************************************************************)
EXTENDS Authorization, TLAPS

ResourcesOf(section) == {a.resource : a \in section}
ViewsOf(rs) == UNION {role[r].views : r \in rs}

\* An entry of a section is found again by its resource.
LEMMA EntryByResource ==
    ASSUME NEW section \in SUBSET Template, NEW a \in section
    PROVE  (CHOOSE b \in section : b.resource = a.resource) = a
<1>1. \E b \in section : b.resource = a.resource
  OBVIOUS
<1>2. \A b \in section : b.resource = a.resource => b = a
  BY TemplateAssumption DEF Template
<1> QED
  BY <1>1, <1>2, Zenon

\* CreateViewAuthority replaces the entries of the DNS section and no other.
LEMMA ViewAuthorityMap ==
    ASSUME NEW views, NEW map
    PROVE  LET m == CreateViewAuthority(views, map) IN
           /\ DOMAIN m = DOMAIN map \cup ResourcesOf(dnsAuthority)
           /\ \A a \in dnsAuthority :
                  m[a.resource] = RoleAuthority(a, views, {}, Operations(a, views))
           /\ \A r \in DOMAIN map \ ResourcesOf(dnsAuthority) : m[r] = map[r]
<1> DEFINE m == CreateViewAuthority(views, map)
           A(a) == RoleAuthority(a, views, {}, Operations(a, views))
           D == ResourcesOf(dnsAuthority)
<1>1. m = [r \in DOMAIN map \cup D |->
              IF r \in D THEN A(CHOOSE a \in dnsAuthority : a.resource = r) ELSE map[r]]
  BY Zenon DEF CreateViewAuthority, Over, ResourcesOf
<1>2. \A a \in dnsAuthority : (CHOOSE b \in dnsAuthority : b.resource = a.resource) = a
  BY EntryByResource DEF Template
<1>3. \A a \in dnsAuthority : a.resource \in D
  BY DEF ResourcesOf
<1> HIDE DEF m, A, D
<1>4. \A a \in dnsAuthority : m[a.resource] = A(a)
  BY <1>1, <1>2, <1>3
<1>5. DOMAIN m = DOMAIN map \cup D /\ \A r \in DOMAIN map \ D : m[r] = map[r]
  BY <1>1
<1> QED
  BY <1>4, <1>5 DEF m, A, D

\* CreateDhcpAuthority replaces the entries of the DHCP section and no other.
LEMMA DhcpAuthorityMap ==
    ASSUME NEW plans, NEW map
    PROVE  LET m == CreateDhcpAuthority(plans, map) IN
           /\ DOMAIN m = DOMAIN map \cup ResourcesOf(dhcpAuthority)
           /\ \A a \in dhcpAuthority :
                  m[a.resource] = RoleAuthority(a, {}, plans, Operations(a, plans))
           /\ \A r \in DOMAIN map \ ResourcesOf(dhcpAuthority) : m[r] = map[r]
<1> DEFINE m == CreateDhcpAuthority(plans, map)
           A(a) == RoleAuthority(a, {}, plans, Operations(a, plans))
           D == ResourcesOf(dhcpAuthority)
<1>1. m = [r \in DOMAIN map \cup D |->
              IF r \in D THEN A(CHOOSE a \in dhcpAuthority : a.resource = r) ELSE map[r]]
  BY Zenon DEF CreateDhcpAuthority, Over, ResourcesOf
<1>2. \A a \in dhcpAuthority : (CHOOSE b \in dhcpAuthority : b.resource = a.resource) = a
  BY EntryByResource DEF Template
<1>3. \A a \in dhcpAuthority : a.resource \in D
  BY DEF ResourcesOf
<1> HIDE DEF m, A, D
<1>4. \A a \in dhcpAuthority : m[a.resource] = A(a)
  BY <1>1, <1>2, <1>3
<1>5. DOMAIN m = DOMAIN map \cup D /\ \A r \in DOMAIN map \ D : m[r] = map[r]
  BY <1>1
<1> QED
  BY <1>4, <1>5 DEF m, A, D

\* What the map of a user with the roles rs says of an entry of the template: the DNS
\* section gets the views of the roles, everything else is as in the template.
Expected(a, rs) ==
    IF a \in dnsAuthority
    THEN RoleAuthority(a, ViewsOf(rs), {}, Operations(a, ViewsOf(rs)))
    ELSE RoleAuthority(a, {}, {}, a.operations)

\* The sections have no resource in common.
LEMMA SectionsAreDisjoint ==
    /\ ResourcesOf(baseAuthority) \cap ResourcesOf(dnsAuthority) = {}
    /\ ResourcesOf(baseAuthority) \cap ResourcesOf(dhcpAuthority) = {}
    /\ ResourcesOf(dnsAuthority) \cap ResourcesOf(dhcpAuthority) = {}
    /\ Resources = ResourcesOf(baseAuthority) \cup ResourcesOf(dnsAuthority)
                     \cup ResourcesOf(dhcpAuthority)
BY TemplateAssumption DEF ResourcesOf, Resources, Template

\* An entry of the DNS or DHCP section keeps its operations when nothing is granted.
LEMMA NothingGranted ==
    \A a \in dnsAuthority \cup dhcpAuthority : Operations(a, {}) = a.operations
BY TemplateAssumption DEF Operations

\* The map before any role is looked at.
LEMMA BaseMap ==
    /\ DOMAIN CreateBaseAuthority = Resources
    /\ \A a \in Template :
           CreateBaseAuthority[a.resource] = RoleAuthority(a, {}, {}, a.operations)
<1> DEFINE B(a) == RoleAuthority(a, {}, {}, a.operations)
           b == Over([r \in {} |-> NoId], baseAuthority, B)
           v == CreateViewAuthority({}, b)
           m == CreateDhcpAuthority({}, v)
<1>1. b = [r \in {} \cup ResourcesOf(baseAuthority) |->
              IF r \in ResourcesOf(baseAuthority)
              THEN B(CHOOSE a \in baseAuthority : a.resource = r) ELSE [q \in {} |-> NoId][r]]
  BY Zenon DEF Over, ResourcesOf
<1>2. m = CreateBaseAuthority
  BY Zenon DEF CreateBaseAuthority
<1>3. \A a \in baseAuthority : (CHOOSE c \in baseAuthority : c.resource = a.resource) = a
  BY EntryByResource DEF Template
<1> HIDE DEF m, v, b, B
<1>4. DOMAIN b = ResourcesOf(baseAuthority) /\ \A a \in baseAuthority : b[a.resource] = B(a)
  BY <1>1, <1>3 DEF ResourcesOf
<1>5. /\ DOMAIN v = DOMAIN b \cup ResourcesOf(dnsAuthority)
      /\ \A a \in dnsAuthority :
             v[a.resource] = RoleAuthority(a, {}, {}, Operations(a, {}))
      /\ \A r \in DOMAIN b \ ResourcesOf(dnsAuthority) : v[r] = b[r]
  BY ViewAuthorityMap, Zenon DEF v
<1>6. /\ DOMAIN m = DOMAIN v \cup ResourcesOf(dhcpAuthority)
      /\ \A a \in dhcpAuthority :
             m[a.resource] = RoleAuthority(a, {}, {}, Operations(a, {}))
      /\ \A r \in DOMAIN v \ ResourcesOf(dhcpAuthority) : m[r] = v[r]
  BY DhcpAuthorityMap, Zenon DEF m
<1>7. DOMAIN m = Resources
  BY <1>4, <1>5, <1>6, SectionsAreDisjoint
<1>8. ASSUME NEW a \in Template PROVE m[a.resource] = B(a)
  <2>1. CASE a \in baseAuthority
    <3>1. a.resource \in ResourcesOf(baseAuthority)
      BY <2>1 DEF ResourcesOf
    <3> QED
      BY <2>1, <3>1, <1>4, <1>5, <1>6, SectionsAreDisjoint
  <2>2. CASE a \in dnsAuthority
    <3>1. a.resource \in ResourcesOf(dnsAuthority)
      BY <2>2 DEF ResourcesOf
    <3>2. v[a.resource] = B(a)
      BY <2>2, <1>5, NothingGranted DEF B
    <3> QED
      BY <3>1, <3>2, <1>5, <1>6, SectionsAreDisjoint
  <2>3. CASE a \in dhcpAuthority
    BY <2>3, <1>6, NothingGranted DEF B
  <2> QED
    BY <2>1, <2>2, <2>3 DEF Template
<1> QED
  BY <1>2, <1>7, <1>8 DEF B

\* The map of a user with the roles rs.
LEMMA AuthorityMap ==
    ASSUME NEW rs
    PROVE  /\ DOMAIN reloadUserAuthority(rs) = Resources
           /\ \A a \in Template : reloadUserAuthority(rs)[a.resource] = Expected(a, rs)
<1>1. CASE rs = {}
  <2>1. ViewsOf(rs) = {}
    BY <1>1 DEF ViewsOf
  <2>2. \A a \in Template : Expected(a, rs) = RoleAuthority(a, {}, {}, a.operations)
    BY <2>1, NothingGranted DEF Expected
  <2>3. reloadUserAuthority(rs) = CreateBaseAuthority
    BY <1>1 DEF reloadUserAuthority
  <2> QED
    BY <2>2, <2>3, BaseMap
<1>2. CASE rs # {}
  <2> DEFINE V == ViewsOf(rs)
             v == CreateViewAuthority(V, CreateBaseAuthority)
             m == CreateDhcpAuthority({}, v)
  <2>1. reloadUserAuthority(rs) = m
    BY <1>2 DEF reloadUserAuthority, ViewsOf
  <2> HIDE DEF m, v, V
  <2>2. /\ DOMAIN v = DOMAIN CreateBaseAuthority \cup ResourcesOf(dnsAuthority)
        /\ \A a \in dnsAuthority : v[a.resource] = RoleAuthority(a, V, {}, Operations(a, V))
        /\ \A r \in DOMAIN CreateBaseAuthority \ ResourcesOf(dnsAuthority) :
               v[r] = CreateBaseAuthority[r]
    BY ViewAuthorityMap, Zenon DEF v
  <2>3. /\ DOMAIN m = DOMAIN v \cup ResourcesOf(dhcpAuthority)
        /\ \A a \in dhcpAuthority :
               m[a.resource] = RoleAuthority(a, {}, {}, Operations(a, {}))
        /\ \A r \in DOMAIN v \ ResourcesOf(dhcpAuthority) : m[r] = v[r]
    BY DhcpAuthorityMap, Zenon DEF m
  <2>4. DOMAIN m = Resources
    BY <2>2, <2>3, BaseMap, SectionsAreDisjoint
  <2>5. ASSUME NEW a \in Template PROVE m[a.resource] = Expected(a, rs)
    <3>1. CASE a \in baseAuthority
      <4>1. a.resource \in ResourcesOf(baseAuthority)
        BY <3>1 DEF ResourcesOf
      <4>2. m[a.resource] = CreateBaseAuthority[a.resource]
        BY <4>1, <2>2, <2>3, BaseMap, SectionsAreDisjoint
      <4>3. a \notin dnsAuthority
        BY <3>1, TemplateAssumption
      <4> QED
        BY <4>2, <4>3, BaseMap DEF Expected
    <3>2. CASE a \in dnsAuthority
      <4>1. a.resource \in ResourcesOf(dnsAuthority)
        BY <3>2 DEF ResourcesOf
      <4>2. m[a.resource] = v[a.resource]
        BY <4>1, <2>2, <2>3, SectionsAreDisjoint
      <4> QED
        BY <3>2, <4>2, <2>2 DEF Expected, V
    <3>3. CASE a \in dhcpAuthority
      <4>1. a \notin dnsAuthority
        BY <3>3, TemplateAssumption
      <4> QED
        BY <3>3, <4>1, <2>3, NothingGranted DEF Expected
    <3> QED
      BY <3>1, <3>2, <3>3 DEF Template
  <2> QED
    BY <2>1, <2>4, <2>5
<1> QED
  BY <1>1, <1>2

\* A request is allowed by the expected entry of its resource.
Allows(a, rs) ==
    /\ a.resource = ctx.resource
    /\ ctx.method \in Expected(a, rs).operations
    /\ checkView(Expected(a, rs).views)

\* The check of a request, in terms of the template.
LEMMA MayByTemplate ==
    ASSUME NEW rs
    PROVE  May(rs) <=> \E a \in Template : Allows(a, rs)
<1> DEFINE m == reloadUserAuthority(rs)
<1>1. DOMAIN m = Resources /\ \A a \in Template : m[a.resource] = Expected(a, rs)
  BY AuthorityMap
<1>2. \A a \in Template : Expected(a, rs).resource = a.resource
  BY DEF Expected, RoleAuthority
<1>3. Resources = {a.resource : a \in Template}
  BY DEF Resources
<1>4. May(rs) <=> \E r \in DOMAIN m : /\ m[r].resource = ctx.resource
                                     /\ ctx.method \in m[r].operations
                                     /\ checkView(m[r].views)
  BY DEF May, checkAuthority
<1> HIDE DEF m
<1>5. (\E r \in DOMAIN m : /\ m[r].resource = ctx.resource
                            /\ ctx.method \in m[r].operations
                            /\ checkView(m[r].views))
      <=> \E a \in Template : Allows(a, rs)
  BY <1>1, <1>2, <1>3 DEF Allows
<1> QED
  BY <1>4, <1>5

\* A change that one entry allows is in the base section, or is made by a granted view.
LEMMA AllowedChange ==
    ASSUME NEW rs, NEW a \in Template, ctx.method # "GET"
    PROVE  Allows(a, rs) <=>
             \/ /\ a \in baseAuthority
                /\ a.resource = ctx.resource
                /\ ctx.method \in a.operations
             \/ /\ a \in dnsAuthority /\ a.filter
                /\ a.resource = ctx.resource
                /\ ctx.method \in Methods
                /\ ViewsOf(rs) # {}
                /\ ctx.id = NoId \/ (ctx.ancestors \cup {ctx.id}) \cap ViewsOf(rs) # {}
<1>1. CASE a \in baseAuthority
  <2>1. a \notin dnsAuthority
    BY <1>1, TemplateAssumption
  <2>2. Expected(a, rs).operations = a.operations /\ Expected(a, rs).views = {}
    BY <2>1 DEF Expected, RoleAuthority
  <2> QED
    BY <1>1, <2>1, <2>2 DEF Allows, checkView
<1>2. CASE a \in dhcpAuthority
  <2>1. a \notin dnsAuthority /\ a \notin baseAuthority /\ a.operations = {"GET"}
    BY <1>2, TemplateAssumption
  <2>2. Expected(a, rs).operations = a.operations
    BY <2>1 DEF Expected, RoleAuthority
  <2> QED
    BY <2>1, <2>2 DEF Allows
<1>3. CASE a \in dnsAuthority
  <2>1. a \notin baseAuthority /\ a.operations = {"GET"} /\ a.filter \in BOOLEAN
    BY <1>3, TemplateAssumption DEF Template
  <2>2. /\ Expected(a, rs).operations = Operations(a, ViewsOf(rs))
        /\ Expected(a, rs).views = ViewsOf(rs)
    BY <1>3 DEF Expected, RoleAuthority
  <2>3. CASE ~a.filter \/ ViewsOf(rs) = {}
    <3>1. Operations(a, ViewsOf(rs)) = {"GET"}
      BY <2>1, <2>3 DEF Operations
    <3> QED
      BY <2>1, <2>2, <2>3, <3>1 DEF Allows
  <2>4. CASE a.filter /\ ViewsOf(rs) # {}
    <3>1. Operations(a, ViewsOf(rs)) = Methods
      BY <2>4 DEF Operations
    <3> QED
      BY <1>3, <2>1, <2>2, <2>4, <3>1 DEF Allows, checkView
  <2> QED
    BY <2>1, <2>3, <2>4
<1> QED
  BY <1>1, <1>2, <1>3 DEF Template

--------------------------------------------------------------------------------
(* The theorems *)

\* What the specification keeps: the request and the user's roles are of their type, and
\* a view is not below another one.
TypeInv ==
    /\ own \subseteq Roles
    /\ ctx \in Request
    /\ ctx.id \in Views => ctx.ancestors = {}

\* Every request keeps TypeInv (Ask).
LEMMA TypeInvariant == Spec => []TypeInv
<1>1. Init => TypeInv
  BY TemplateAssumption DEF Init, TypeInv, Request, Methods
<1>2. TypeInv /\ [Next]_vars => TypeInv'
  BY DEF TypeInv, Next, Ask, vars
<1> QED
  BY <1>1, <1>2, PTL DEF Spec

\* Outside the base section and the filtered DHCP resources, a normal user may change the
\* filtered DNS resources of the views its roles grant, and nothing else
\* (CreateViewAuthority, checkAuthority and checkView).
THEOREM ChangesAreGranted == Spec => []GrantedViewsOpenChanges
<1>1. TypeInv => GrantedViewsOpenChanges
  <2> DEFINE Reached == ctx.id = NoId \/ (ctx.ancestors \cup {ctx.id}) \cap Granted # {}
  <2> SUFFICES ASSUME TypeInv, ctx.method # "GET", ctx.resource \notin BaseResources
               PROVE  May(own) <=> ctx.resource \in DnsFiltered /\ Granted # {} /\ Reached
    BY DEF GrantedViewsOpenChanges
  <2>1. Granted = ViewsOf(own)
    BY DEF Granted, ViewsOf
  <2>2. ASSUME NEW a \in Template
        PROVE  Allows(a, own) <=> /\ a \in dnsAuthority /\ a.filter
                                  /\ a.resource = ctx.resource
                                  /\ Granted # {} /\ Reached
    <3>1. ~ (a \in baseAuthority /\ a.resource = ctx.resource)
      BY DEF BaseResources
    <3>2. ctx.method \in Methods
      BY DEF TypeInv, Request
    <3> QED
      BY <2>1, <3>1, <3>2, AllowedChange
  <2>3. ctx.resource \in DnsFiltered <=>
          \E a \in Template : a \in dnsAuthority /\ a.filter /\ a.resource = ctx.resource
    BY DEF DnsFiltered, Template
  <2> HIDE DEF Reached
  <2> QED
    BY <2>2, <2>3, MayByTemplate
<1> QED
  BY <1>1, TypeInvariant, PTL

\* The changes a user may make are those its roles allow one by one: the views of all
\* roles are joined before the map is built (reloadUserAuthority).
THEOREM ChangesAreUnion == Spec => []ChangesAreTheUnionOfRoles
<1>1. ChangesAreTheUnionOfRoles
  <2> SUFFICES ASSUME own # {}, ctx.method # "GET"
               PROVE  May(own) <=> \E r \in own : May({r})
    BY DEF ChangesAreTheUnionOfRoles
  <2>1. \A r : ViewsOf({r}) = role[r].views
    BY DEF ViewsOf
  <2>2. ASSUME NEW r \in own, May({r}) PROVE May(own)
    <3>1. PICK a \in Template : Allows(a, {r})
      BY <2>2, MayByTemplate
    <3>2. ViewsOf({r}) \subseteq ViewsOf(own)
      BY <2>1 DEF ViewsOf
    <3>3. Allows(a, own)
      BY <3>1, <3>2, AllowedChange
    <3> QED
      BY <3>3, MayByTemplate
  <2>3. ASSUME May(own) PROVE \E r \in own : May({r})
    <3>1. PICK a \in Template : Allows(a, own)
      BY <2>3, MayByTemplate
    <3>2. CASE a \in baseAuthority
      <4>1. PICK r \in own : TRUE
        OBVIOUS
      <4>2. a \notin dnsAuthority
        BY <3>2, TemplateAssumption
      <4>3. Allows(a, {r})
        BY <3>1, <3>2, <4>2, AllowedChange
      <4> QED
        BY <4>3, MayByTemplate
    <3>3. CASE a \in dnsAuthority
      <4>1. a \notin baseAuthority
        BY <3>3, TemplateAssumption
      <4>2. /\ a.filter /\ a.resource = ctx.resource /\ ctx.method \in Methods
            /\ ViewsOf(own) # {}
            /\ ctx.id = NoId \/ (ctx.ancestors \cup {ctx.id}) \cap ViewsOf(own) # {}
        BY <3>1, <4>1, AllowedChange
      <4>3. PICK v \in ViewsOf(own) : ctx.id = NoId \/ v \in ctx.ancestors \cup {ctx.id}
        BY <4>2
      <4>4. PICK r \in own : v \in role[r].views
        BY <4>3 DEF ViewsOf
      <4>5. v \in ViewsOf({r})
        BY <4>4, <2>1
      <4>6. Allows(a, {r})
        BY <3>3, <4>2, <4>3, <4>5, AllowedChange
      <4> QED
        BY <4>6, MayByTemplate
    <3>4. CASE a \in dhcpAuthority
      <4>1. a \notin baseAuthority /\ a \notin dnsAuthority
        BY <3>4, TemplateAssumption
      <4> QED
        BY <3>1, <4>1, AllowedChange
    <3> QED
      BY <3>2, <3>3, <3>4 DEF Template
  <2> QED
    BY <2>2, <2>3
<1> QED
  BY <1>1, PTL

\* For a user with views, ViewFilter keeps in a list what checkView lets it read alone.
THEOREM ListsAgreeWithReads == Spec => []ListShowsWhatMayBeRead
<1>1. TypeInv => ListShowsWhatMayBeRead
  <2> SUFFICES ASSUME TypeInv, Granted # {}, ctx.method = "GET", ctx.id \in Views,
                      NEW a \in dnsAuthority, ctx.resource = a.resource
               PROVE  May(own) <=> ViewFilter(reloadUserAuthority(own), ctx.id)
    BY DEF ListShowsWhatMayBeRead
  <2> DEFINE m == reloadUserAuthority(own)
  <2>1. Granted = ViewsOf(own)
    BY DEF Granted, ViewsOf
  <2>2. /\ a \in Template
        /\ \A b \in Template : b.resource = ctx.resource => b = a
        /\ "GET" \in Operations(a, ViewsOf(own))
    BY TemplateAssumption DEF Template, Operations, Methods
  <2>3. /\ DOMAIN m = Resources
        /\ \A b \in Template : m[b.resource] = Expected(b, own)
    BY AuthorityMap
  <2>4. \A b \in Template : Expected(b, own).resource = b.resource
    BY DEF Expected, RoleAuthority
  <2>5. /\ Expected(a, own).views = Granted
        /\ Expected(a, own).operations = Operations(a, ViewsOf(own))
    BY <2>1 DEF Expected, RoleAuthority
  <2>6. May(own) <=> ctx.id \in Granted
    <3>1. ctx.id # NoId /\ ctx.ancestors = {}
      BY TemplateAssumption DEF TypeInv
    <3>2. Allows(a, own) <=> ctx.id \in Granted
      BY <2>2, <2>5, <3>1 DEF Allows, checkView
    <3>3. \A b \in Template : Allows(b, own) => b = a
      BY <2>2 DEF Allows
    <3> QED
      BY <2>2, <3>2, <3>3, MayByTemplate
  <2> HIDE DEF m
  <2>7. ViewFilter(m, ctx.id) <=> ctx.id \in Granted
    BY <2>2, <2>3, <2>4, <2>5 DEF ViewFilter, Resources
  <2> QED
    BY <2>6, <2>7 DEF m
<1> QED
  BY <1>1, TypeInvariant, PTL
================================================================================
