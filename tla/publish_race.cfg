\* Jobs that overlap freely, delete without a grace period and keep taking
\* steps.
SPECIFICATION FairSpec
CONSTANTS
  None = None  c1 = c1  c2 = c2  j1 = j1  j2 = j2
  Contents = {c1, c2}
  Jobs = {j1, j2}
  Hosts = {1}
  Graces = {"zero"}
  DryRuns = {FALSE}
  Serialized = FALSE
  JobDeadline = FALSE
  MaxRuns = 3
  MaxPointerRetries = 2
  MaxAttempts = 1
  MaxLate = 1
PROPERTIES NoLostPublication JobsEnd
\* When MaxRuns runs have ended nothing is left to do.
CHECK_DEADLOCK FALSE
