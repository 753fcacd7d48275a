\* Jobs one after the other, with lost and late requests and failures.
SPECIFICATION Spec
CONSTANTS
  None = None  c1 = c1  c2 = c2  j1 = j1  j2 = j2
  Contents = {c1, c2}
  Jobs = {j1}
  Hosts = {1, 2}
  Graces = {"zero"}
  DryRuns = {FALSE, TRUE}
  Serialized = TRUE
  JobDeadline = FALSE
  MaxRuns = 3
  MaxPointerRetries = 2
  MaxAttempts = 2
  MaxLate = 1
SYMMETRY Symmetry
INVARIANTS TypeOK PointerIntact CleanupFenced
PROPERTIES AtomicPublication
\* When MaxRuns runs have ended nothing is left to do.
CHECK_DEADLOCK FALSE
