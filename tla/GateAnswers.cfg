SPECIFICATION Spec
CONSTANTS
  Names = {"tool_a", "json"}
  ValidNames = {"tool_a", "json"}
  Imported = {"json"}
  good = good
  fine = fine
  bad = bad
  deep = deep
  Sources = {good, torn}
  Torn = torn
  Parses = {good}
  Verdict <- MCVerdict
  Agents = {a1, a2}
  Operators = {o1}
  SharedEnabled = TRUE
  Builtins = {"read_file"}
  Faults = {}
  NoFile = NoFile
  Odd = Odd
  NoOne = NoOne
INVARIANTS ReplyIsTrue
SYMMETRY AgentSymmetry
