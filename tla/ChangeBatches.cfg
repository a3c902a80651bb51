SPECIFICATION Spec
CONSTANTS
  p1 = p1
  r1 = r1
  r2 = r2
  u1 = u1
  u2 = u2
  Procs <- OneProc
  Requirements = {r1, r2}
  Units = {u1}
  Implements <- SharedImplements
  Imports <- NoImports
  MaxVersion = 1
  MaxCycles = 0
  MaxWaivers = 0
  MaxCrashes = 1
  MaxCommands = 11
INVARIANTS RecordedChangeIsIntact QualityIsRefreshable
SYMMETRY Symmetry
CHECK_DEADLOCK FALSE
