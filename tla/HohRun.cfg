SPECIFICATION Spec
CONSTANTS
  Claims = {c1, c2}
  MaxIterations = 4
  StagnantLimit = 2
  RepairLimit = 1
  BoundaryLimit = 2
  Budget = 7
  Reviewer = TRUE
  RolesFail = TRUE
  Conflicts = TRUE
  MaxCrashes = 1
INVARIANTS
  PreservationIsIntact
  ReleaseIsReviewed
PROPERTIES
  AcceptedClaimsNeverRegress
  DeveloperStartsFromPreserved
  OnlyVerifiedIsUnbound
CHECK_DEADLOCK FALSE
