SPECIFICATION SmallSiteSpec
CONSTANTS
  Users = {u1, u2}
  Groups = {g1, g2}
  Roles = {r1}
  Views = {}
  Workers = {p, q}
  Resources = {"group"}
  MaxRequests = 2
  NoRow = NoRow
  NoAuthority = NoAuthority
PROPERTIES RequestsFinish
