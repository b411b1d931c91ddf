SPECIFICATION Spec
CONSTANTS
  Callers = {c1, c2}
  Keys = {k1, k2, k3}
  NoKey = NoKey
  Absent = Absent
  Unreadable = Unreadable
  MaxCrashes = 0
INVARIANT IssuedIsSaved
