SPECIFICATION Spec
CONSTANTS
  f1 = f1
  f2 = f2
  d1 = d1
  Features = {f1, f2}
  Initial = {f1}
  Domains = {d1}
  Owner <- OneOwner
  Required = FALSE
  MaxVersions = 5
  MaxRestores = 1
INVARIANTS ReadyPassesNow ReleasePassesNow
PROPERTIES ApprovalsRestOnCurrent
CHECK_DEADLOCK FALSE
