SPECIFICATION WorkflowSpec
CONSTANTS
  s1 = s1
  s2 = s2
  k1 = k1
  k2 = k2
  Sessions = {s1, s2}
  Skills = {k1, k2}
  Tool = tool
  Statuses = {"completed"}
  MaxRecords = 7
  MaxWaivers = 2
  MaxTime = 1
  StrictConfig = FALSE
SYMMETRY Symmetric
INVARIANTS AcceptedDeclarationsHappened BindingIsComplete SanitizedIsFaithful WaiversCoverWhatWasShown
CHECK_DEADLOCK FALSE
