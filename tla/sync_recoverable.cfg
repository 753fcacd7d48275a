\* Every fault that recovery is built for, on an installed node.
SPECIFICATION Spec
CONSTANTS
  None = None  Torn = Torn  c1 = c1  c2 = c2  c3 = c3
  Contents = {c1, c2, c3}
  Nodes = {"installed"}
  Forces = {FALSE, TRUE}
  Risks = { {"discover", "preflight", "backup", "mark", "teardown",
             "install", "device", "link", "finish", "rollback", "settle",
             "probe", "crash", "lost"} }
  Republish = TRUE
  MaxPublications = 3
  MaxFaults = 4
SYMMETRY Symmetry
INVARIANTS Recoverable
