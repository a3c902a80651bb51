SPECIFICATION FairSpec
CONSTANTS
  Proc = {p1, p2}
  Operator = op
  MaxWrites = 2
  MaxCrashes = 1
INVARIANTS
  MutualExclusion
  HolderOwnsLock
PROPERTIES
  OthersUpdatesAreKept
  WrittenStaleLockIsReclaimed
