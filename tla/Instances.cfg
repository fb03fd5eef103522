SPECIFICATION FairSpec
CONSTANTS
  i1 = i1
  i2 = i2
  Isolate <- MCIsolate
  Free = Free
  Absent = Absent
  Partial = Partial
  MaxWrites = 2
  MaxCrashes = 1
INVARIANTS TypeOK HeldMeansRegistered InstanceHasItsFile CommittedSurvives
PROPERTIES AsyncOpenEnds
