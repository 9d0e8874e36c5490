SPECIFICATION Spec
CONSTANTS
  Nodes = {n1, n2}
  Addresses = {a1, a2}
  NoMaster = NoMaster
  Broken = Broken
  NoRow = NoRow
  timeout = 1
  MaxTime = 4
  MaxFailures = 2
INVARIANTS
  TypeOK
  HeardNodeStaysAlive
  RoleIsInFile
  StandbyFollowsMasterIp
PROPERTIES
  StandbyDoesNotWrite
  SilentNodeIsBuried
