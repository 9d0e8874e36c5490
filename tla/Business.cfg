SPECIFICATION Spec
CONSTANTS
  Nil = Nil
  Int32 <- MCInt32
  Text <- MCText
  AddCode = 1
  Codes <- MCCodes
  Hosts <- MCHosts
  Refusals = {101}
  FigureReplies <- MCFigureReplies
  VisitReplies <- MCVisitReplies
  FlowReplies <- MCFlowReplies
  ConfigVIP <- MCVIP
  Word = 4
  Day = 2
  DefaultAuditLogValidPeriod = 1
  MaxNow = 2
  Controllers = {c1, c2}
  Clusters <- MCClusters
  WebGroups <- MCWebGroups
  Websites <- MCWebsites
  Addresses = {"a"}
  DeviceStates <- MCDeviceStates
  MaxRequests = 2
  MaxCrashes = 1
SYMMETRY Symmetry
INVARIANTS
  TypeOK
  ApiHasCluster
  AuditCoversTheDevice
  ReadsShowWhatWasSent
  StableSitesCountOnce
  StableHostsListedOnce
  DefaultListIsComplete
PROPERTIES
  KeptForTheValidPeriod
CHECK_DEADLOCK FALSE
