SPECIFICATION FairSpec
CONSTANTS
  Names = {"tool_a"}
  ValidNames = {"tool_a"}
  Imported = {}
  good = good
  fine = fine
  bad = bad
  deep = deep
  Sources = {good, bad, deep, torn}
  Torn = torn
  Parses = {good, bad, deep}
  Verdict <- TornIsBinary
  Agents = {a1}
  Operators = {o1, o2}
  SharedEnabled = TRUE
  Builtins = {"read_file"}
  Faults = {"interrupt"}
  NoFile = NoFile
  Odd = Odd
  NoOne = NoOne
INVARIANTS ExitCodeIsTrue
PROPERTIES CallsEnd ConfirmedGetsInstalled
