\* Jobs that overlap, if every job ended well before the grace period.
SPECIFICATION Spec
CONSTANTS
  None = None  c1 = c1  c2 = c2  j1 = j1  j2 = j2
  Contents = {c1, c2}
  Jobs = {j1, j2}
  Hosts = {1}
  Graces = {"default"}
  DryRuns = {FALSE}
  Serialized = FALSE
  JobDeadline = TRUE
  MaxRuns = 3
  MaxPointerRetries = 2
  MaxAttempts = 2
  MaxLate = 1
SYMMETRY Symmetry
INVARIANTS PointerIntact CleanupSparesRunningJobs
PROPERTIES NoLostPublication
\* When MaxRuns runs have ended nothing is left to do.
CHECK_DEADLOCK FALSE
