SPECIFICATION FairSpec
CONSTANTS
  i1 = i1
  i2 = i2
  Isolate <- MCIsolate
  Nobody = Nobody
  MaxOps = 2
INVARIANTS TypeOK ReturnedMeansAll ThrewMeansNothing WritersHoldMutex HeldMeansRegistered NothingLeftBehind
PROPERTIES WritersGetTheirTurn
CHECK_DEADLOCK FALSE
