SPECIFICATION MCSpec
CONSTANTS
  Nodes = {"n1", "n2"}
  Disks = {"sda", "sdb"}
  Interfaces = {"eth0", "docker0", "br-docker"}
  Inner = {"br-docker"}
  Now = 4
  Parts = 2
  HourStep = 1
  Periods = {1, 2}
  Default = 1
  Others = {3}
  Histories <- MCHistories
  Gauge <- MCGauge
  Size <- MCSize
  Free <- MCFree
  Traffic <- MCTraffic
INVARIANTS
  TypeOK
  GaugesShowTheirSamples
  DiscUsageIsAShare
  FailsOnlyWhenDiskAppears
CHECK_DEADLOCK FALSE
