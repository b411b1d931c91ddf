SPECIFICATION FairSpec
CONSTANTS
  Nodes = {n1, n2}
  Asked = {n1}
  Portals = {p, q}
  Garbled = Garbled
  MaxFaults = 2
INVARIANTS TypeOK KeptIsSaved
PROPERTIES FileIsFinal Spreads
CHECK_DEADLOCK FALSE
