SPECIFICATION RegistrySpec
CONSTANTS
  Matching <- MCMatching
  NaN = NaN
  Values <- MCValues
  Depth <- MCDepth
  Objects <- MCObjects
  ValidNames = {"tool_a", "tool_b"}
  Allowed = {"tool_b"}
  Arguments <- MCArguments
  MaxCalls = 1
INVARIANTS AcceptedIsValid RefusedIsInvalid HooksAreCalled CallsMeanWhatWasShown
