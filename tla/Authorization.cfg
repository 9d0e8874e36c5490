SPECIFICATION Spec
CONSTANTS
  Roles = {r1, r2}
  Views = {v1, v2}
  Plans = {p1}
  Objects = {o1}
  NoId = NoId
  baseAuthority <- Base
  dnsAuthority <- Dns
  dhcpAuthority <- Dhcp
INVARIANTS
  GrantedViewsOpenChanges
  ChangesAreTheUnionOfRoles
  ListShowsWhatMayBeRead
