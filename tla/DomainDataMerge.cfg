SPECIFICATION Spec
CONSTANTS
  Uploads = {u1, u2}
  Downloads = {}
  Bits = {x, y}
  Parts = {{x}, {y}}
  Nobody = Nobody
  MaxFiles = 5
  MaxFaults = 1
INVARIANTS TypeOK Accounted
PROPERTY OrphansStay
CHECK_DEADLOCK FALSE
