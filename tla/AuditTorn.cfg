SPECIFICATION LogSpec
CONSTANTS
  Writers = {harness}
  ShortWrites = TRUE
  LogFaults = {"disk"}
  MaxRecords = 4
INVARIANTS NoSilentLoss
CHECK_DEADLOCK FALSE
