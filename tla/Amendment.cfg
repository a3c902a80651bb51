SPECIFICATION FairSpec
CONSTANTS
  Surfaces = {{a}, {a, b}}
  Inventories = {{a}, {a, b}, {a, b, c}}
  Upstream = {b, c}
  Original = {a}
  BaseSurface = {a}
  Paths = {f1}
  None = None
  RetryLimit = 1
  MaxEpisodes = 2
  BoundaryLimit = 2
  MaxIterations = 3
  MaxRejections = 1
  MaxEdits = 1
  MaxCrashes = 2
INVARIANTS
  AmendmentIsWhole
PROPERTIES
  PromotesApprovedBytes
  AmendmentSettles
CHECK_DEADLOCK FALSE
