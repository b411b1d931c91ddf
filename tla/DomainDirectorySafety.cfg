SPECIFICATION Spec
CONSTANTS
  Nodes = {n1, n2}
  Names = {x}
  Clusters = {c1, c2}
  Handlers = {h1, h2}
  None = None
  Torn = Torn
  MaxCreates = 2
  MaxFaults = 2
INVARIANTS TypeOK ServesDisk ReadYourCreate
PROPERTY OthersOnlyAtStart
CHECK_DEADLOCK FALSE
SYMMETRY Renamings
