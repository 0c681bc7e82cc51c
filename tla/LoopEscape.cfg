SPECIFICATION LoopSpec
CONSTANTS
  ToolNames <- MCToolNames
  Registered <- MCRegistered
  Network <- MCNetwork
  Allowed = {}
  NullSchemas = {"search"}
  Proposers = {"propose_tool"}
  Outcomes = {"ok", "raised"}
  LogFails = FALSE
  SinkRaises = FALSE
  Dies = FALSE
  MaxCalls = 4
  FunctionNames <- MCToolNames
  Answers <- ExplodingAnswers
  MaxTurns = 2
  MaxInputs = 1
INVARIANTS NothingEscapes
CHECK_DEADLOCK FALSE
