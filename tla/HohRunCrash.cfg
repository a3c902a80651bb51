SPECIFICATION FairSpec
CONSTANTS
  Claims = {c1, c2}
  MaxIterations = 3
  StagnantLimit = 2
  RepairLimit = 1
  BoundaryLimit = 2
  Budget = 5
  Reviewer = FALSE
  RolesFail = TRUE
  Conflicts = TRUE
  MaxCrashes = 2
INVARIANTS
  RejectionsAreRetained
  DeploysWhatWasApproved
PROPERTIES
  RejectedRefsAreImmutable
  RepairsCountFailures
  RunSettles
CHECK_DEADLOCK FALSE
