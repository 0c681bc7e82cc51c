SPECIFICATION LoopFairSpec
CONSTANTS
  ToolNames <- MCToolNames
  Registered <- MCRegistered
  Network <- MCNetwork
  Allowed <- MCAllowed
  NullSchemas = {"search"}
  Proposers = {"propose_tool"}
  Outcomes = {"ok", "not_a_result"}
  LogFails = FALSE
  SinkRaises = TRUE
  Dies = FALSE
  MaxCalls = 4
  FunctionNames <- MCToolNames
  Answers <- MCAnswers
  MaxTurns = 2
  MaxInputs = 1
INVARIANTS ConversationPairs ToolMessagesAreTrue ResultIsAccountedFor
PROPERTIES InputIsAnswered
CHECK_DEADLOCK FALSE
