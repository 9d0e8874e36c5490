SPECIFICATION MCSpec
CONSTANTS
  Users = {u1}
  Admin = Admin
  Passwords = {w1}
  AdminPassword = w1
  Empty = Empty
  Addresses = {a1, a2}
  ServerIP = a1
  Subnets <- MCSubnets
  Workers = {p, q}
  NoRow = NoRow
  Ops = {"login", "createUser", "updateUser", "deleteUser", "logout", "changePassword", "resetPassword", "updateWhiteList"}
  MaxRequests = 3
  MaxFailures = 1
SYMMETRY Symmetry
INVARIANTS
  TypeOK
  AdminCanLogIn
  LoginLastsUntilLogout
  NoEntryWithoutRow
  AuditExplainsTable
CHECK_DEADLOCK FALSE
