SPECIFICATION Spec
CONSTANTS
  Names = {"tool_a"}
  ValidNames = {"tool_a"}
  Imported = {}
  good = good
  fine = fine
  bad = bad
  deep = deep
  Sources = {good, fine, torn}
  Torn = torn
  Parses = {good, fine}
  Verdict <- MCVerdict
  Agents = {a1}
  Operators = {o1, o2}
  SharedEnabled = FALSE
  Builtins = {"read_file"}
  Faults = {"crash", "disk", "audit"}
  NoFile = NoFile
  Odd = Odd
  NoOne = NoOne
INVARIANTS InstalledIsApproved ActivatedRecordIsTrue ProposalSurvives
PROPERTIES UnlinkRemovesTheReviewed
SYMMETRY OperatorSymmetry
