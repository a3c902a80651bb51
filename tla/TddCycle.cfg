SPECIFICATION Spec
CONSTANTS
  p1 = p1
  p2 = p2
  t1 = t1
  r1 = r1
  Procs <- TwoProcs
  Tests = {t1}
  Requirements = {r1}
  Verifies <- OneTest
  MaxRuns = 3
  MaxVersion = 1
  MaxSource = 1
  MaxEdits = 2
  MaxVoids = 1
  MaxCrashes = 1
INVARIANTS OrderLogStaysValid AcceptedEvidenceIsGenuine RecordedEvidenceIsIntact VoidKeepsFallback
SYMMETRY Symmetry
CHECK_DEADLOCK FALSE
