SPECIFICATION Spec
CONSTANTS
  i1 = i1
  i2 = i2
  Isolate <- MCIsolate
  Free = Free
  Absent = Absent
  Partial = Partial
  MaxWrites = 1
  MaxCrashes = 0
INVARIANTS LastCloseCloses
