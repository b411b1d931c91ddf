SPECIFICATION Spec
CONSTANTS
  Uploads = {u1}
  Downloads = {d1, d2}
  Bits = {x, y, z}
  Parts = {{x}, {y}, {z}}
  Nobody = Nobody
  MaxFiles = 4
  MaxFaults = 1
INVARIANTS OneFileHasAll WaitingIsUpToDate
CHECK_DEADLOCK FALSE
