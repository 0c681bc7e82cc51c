SPECIFICATION LoopSpec
CONSTANTS
  ToolNames <- MCToolNames
  Registered <- MCRegistered
  Network <- MCNetwork
  Allowed <- MCAllowed
  NullSchemas = {"search"}
  Proposers = {"propose_tool"}
  Outcomes = {"ok", "failed", "raised"}
  LogFails = TRUE
  SinkRaises = FALSE
  Dies = TRUE
  MaxCalls = 3
  FunctionNames <- MCToolNames
  Answers <- EscapingAnswers
  MaxTurns = 2
  MaxInputs = 2
INVARIANTS LoopTypeOK RunsOnlyWhatWasShown RecordsPairUp LossesAreCounted NoCallTwice BudgetHolds
PROPERTIES ImplementsAuditedCall
CHECK_DEADLOCK FALSE
