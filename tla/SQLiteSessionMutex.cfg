SPECIFICATION Spec
CONSTANTS
  i1 = i1
  i2 = i2
  Isolate <- MCIsolate
  Nobody = Nobody
  MaxOps = 2
INVARIANT MutexBelongsToWriter
CHECK_DEADLOCK FALSE
