SPECIFICATION FairSpec
CONSTANTS
  NoConf = NoConf
  HwTest = HwTest
  Hostless = Hostless
  Budget = 6
INVARIANTS
  OldFailureForgotten
PROPERTIES
  Settles
  UnreachableGetsSetup
  ReachableGetsMonitor
CHECK_DEADLOCK FALSE
