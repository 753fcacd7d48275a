\* The device is lost and its restoration stops half way.
SPECIFICATION Spec
CONSTANTS
  None = None  Torn = Torn  c1 = c1  c2 = c2  c3 = c3
  Contents = {c1, c2, c3}
  Nodes = {"installed"}
  Forces = {FALSE}
  Risks = { {"link", "lost"} }
  Republish = FALSE
  MaxPublications = 2
  MaxFaults = 2
SYMMETRY Symmetry
PROPERTIES NoOpExact
