SPECIFICATION Spec
CONSTANTS
  p1 = p1
  r1 = r1
  r2 = r2
  u1 = u1
  u2 = u2
  Procs <- OneProc
  Requirements = {r1}
  Units = {u1, u2}
  Implements <- OneImplements
  Imports <- OneImport
  MaxVersion = 1
  MaxCycles = 1
  MaxWaivers = 1
  MaxCrashes = 1
  MaxCommands = 10
INVARIANTS AcceptedChangeIsTestFirst RecordedChangeIsIntact ActiveWaiverIsReported
CHECK_DEADLOCK FALSE
