SPECIFICATION Spec
CONSTANTS
  Attempt = {a1, a2, a3, a4}
  Budget = 6
  Ceiling = 2
  MaxUse = 4
  RetryLimit = 1
  MaxCrashes = 2
  RecoveryRuns = TRUE
SYMMETRY Symmetry
INVARIANTS
  BudgetHonoured
  NeverOverbooked
CHECK_DEADLOCK FALSE
