SPECIFICATION Spec
CONSTANTS
  Nodes = {n1, n2}
  Names = {x}
  Clusters = {c1}
  Handlers = {h1}
  None = None
  Torn = Torn
  MaxCreates = 1
  MaxFaults = 1
INVARIANT AckedSurvives
CHECK_DEADLOCK FALSE
