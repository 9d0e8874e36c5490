SPECIFICATION ChoicesSpec
CONSTANTS
  Users = {u1}
  Groups = {g1}
  Roles = {r1}
  Views = {v1}
  Workers = {p}
  Resources = {"user", "group", "role"}
  MaxRequests = 2
  NoRow = NoRow
  NoAuthority = NoAuthority
INVARIANTS AuthorityIsUnionOfChoices
