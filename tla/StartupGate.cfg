SPECIFICATION Spec
CONSTANTS
  FunctionNames <- Names
  Answers <- MCAnswers
  ProbeTool = "get_weather"
INVARIANTS TypeOK RunsOnlyOnToolCalls PreflightIsTrue
