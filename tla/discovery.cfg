\* A node reads while jobs, one after the other, publish and delete at once.
SPECIFICATION DiscoverySpec
CONSTANTS
  None = None  c1 = c1  c2 = c2  j1 = j1
  Contents = {c1, c2}
  Jobs = {j1}
  Hosts = {1}
  Graces = {"zero"}
  DryRuns = {FALSE}
  Serialized = TRUE
  JobDeadline = FALSE
  MaxRuns = 5
  MaxPointerRetries = 1
  MaxAttempts = 2
  MaxLate = 1
  Me = 1
  MaxDiscoveryRounds = 2
SYMMETRY Symmetry
INVARIANTS DiscoveryTypeOK Accepted NeverGoesBack
PROPERTIES RoundsPaidFor
CHECK_DEADLOCK FALSE
