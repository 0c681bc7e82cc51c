SPECIFICATION Spec
CONSTANTS
  Names = {"tool_a"}
  ValidNames = {"tool_a"}
  Imported = {}
  good = good
  fine = fine
  bad = bad
  deep = deep
  Sources = {good, torn}
  Torn = torn
  Parses = {good}
  Verdict <- TornIsClean
  Agents = {a1}
  Operators = {o1, o2}
  SharedEnabled = TRUE
  Builtins = {"read_file"}
  Faults = {"tamper"}
  NoFile = NoFile
  Odd = Odd
  NoOne = NoOne
INVARIANTS TypeOK InstalledIsApproved OneInstaller
PROPERTIES EnabledIsWriteOnce ImplementsActiveTools
SYMMETRY OperatorSymmetry
