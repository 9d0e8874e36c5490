SPECIFICATION Spec
CONSTANTS
  Listeners = {l1}
  maxMessageLen = 2
  MaxEvents = 5
  MaxRestarts = 1
INVARIANTS
  TypeOK
  ListIsWindow
  TableHasTheNewest
PROPERTIES
  FeedSpec
  ExactlyOnceUntilTrimmed
  AwakeDelivers
  StopEndsUnlessAsleep
