SPECIFICATION FairSpec
CONSTANTS
  Callers = {c1, c2}
  Keys = {k1, k2, k3, k4, k5, k6}
  NoKey = NoKey
  Absent = Absent
  Unreadable = Unreadable
  MaxCrashes = 2
INVARIANTS TypeOK UnracedIsSaved
PROPERTIES SettledIsFinal SavedIsIssued
