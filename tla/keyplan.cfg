\* Every sequence of topologies and rotations of three nodes.
SPECIFICATION Spec
CONSTANTS
  Width = 3
  ValidHostnames = {1, 2, 3}
  MaxNodes = 3
  MinMtu = 576
  MaxHostLength = 253
  MaxRenderedLines = 20
  DefaultKeepalive = 25
  Bare = 0
  Topologies <- MCTopologies
  RotateFlags <- MCRotateFlags
  MaxRuns = 3
INVARIANTS TypeOK NeverStuck PairsAgree
PROPERTIES KeysSurvive RotationRetires
\* When MaxRuns runs have ended nothing is left to do.
CHECK_DEADLOCK FALSE
