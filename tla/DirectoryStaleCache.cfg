SPECIFICATION SmallSiteSpec
CONSTANTS
  Users = {u1}
  Groups = {g1}
  Roles = {r1}
  Views = {v1}
  Workers = {p, q}
  Resources = {"group", "role"}
  MaxRequests = 2
  NoRow = NoRow
  NoAuthority = NoAuthority
INVARIANTS CachedAuthorityIsCurrent
