SPECIFICATION AlikeUsersSpec
CONSTANTS
  Users = {u1, u2}
  Groups = {g1}
  Roles = {r1}
  Views = {v1}
  Workers = {p, q}
  Resources = {"user", "group", "role"}
  MaxRequests = 2
  NoRow = NoRow
  NoAuthority = NoAuthority
SYMMETRY Symmetry
INVARIANTS
  TypeOK
  FreshEntryIsExact
PROPERTIES
  GroupChangeReachesMembers
  DeleteLeavesNoUserReference
  OnlyUserEditsRevokeRoles
