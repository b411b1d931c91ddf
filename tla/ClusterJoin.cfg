SPECIFICATION FairSpec
CONSTANTS
  Requests = {r1, r2}
  Members = {m1, m2}
  Ids = {i1, i2}
  MaxFaults = 2
  Absent = Absent
  Torn = Torn
  Mixed = Mixed
INVARIANTS TypeOK LoneJoinIsWhole DamageHasACause
PROPERTY MembersJoin
CHECK_DEADLOCK FALSE
