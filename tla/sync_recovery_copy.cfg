\* The copy that recovers from the backup fails.
SPECIFICATION Spec
CONSTANTS
  None = None  Torn = Torn  c1 = c1  c2 = c2  c3 = c3
  Contents = {c1, c2, c3}
  Nodes = {"installed"}
  Forces = {FALSE}
  Risks = { {"crash", "recover"} }
  Republish = FALSE
  MaxPublications = 2
  MaxFaults = 2
SYMMETRY Symmetry
INVARIANTS Recoverable
