SPECIFICATION Spec
CONSTANTS
  Claims = {c1}
  MaxIterations = 3
  StagnantLimit = 2
  RepairLimit = 1
  BoundaryLimit = 2
  Budget = 9
  Reviewer = TRUE
  RolesFail = FALSE
  Conflicts = FALSE
  MaxCrashes = 0
PROPERTIES
  OrdinalsNeverReused
CHECK_DEADLOCK FALSE
