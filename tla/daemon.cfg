\* A daemon and a single pass on one node.
SPECIFICATION FairSpec
CONSTANTS
  d1 = d1  o1 = o1  Nobody = Nobody
  Daemons = {d1}
  Onces = {o1}
  Paths <- MCPaths
  MaxEdits = 1
  MaxSignals = 2
INVARIANTS TypeOK OnePassPerInterface LockedByAPass
PROPERTIES NeverKilledOnceAsleep TermEndsDaemon DaemonKeepsTrying OnceEnds
\* When both processes have ended nothing is left to do.
CHECK_DEADLOCK FALSE
