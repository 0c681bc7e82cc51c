SPECIFICATION LogFairSpec
CONSTANTS
  Writers = {harness, activate}
  ShortWrites = TRUE
  LogFaults = {"disk", "sync", "kill"}
  MaxRecords = 3
INVARIANTS LogTypeOK WrittenIsThere SilentLossIsExplained
PROPERTIES AppendOnly WritesReturn
CHECK_DEADLOCK FALSE
