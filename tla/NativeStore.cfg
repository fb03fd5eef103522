CONSTANTS
  Id = {1, 2, 3}
  v1 = v1
  v2 = v2
  v3 = v3
  v4 = v4
  k1 = k1
  k2 = k2
  kNull = kNull
  toV2 = toV2
  toV4 = toV4
  Value = {v1, v2, v3, v4}
  None = None
  NumIndexes = 3
  Unique = {1, 2}
  Key = {k1, k2, kNull}
  KeyOf <- MCKeyOf
  HasNull <- MCHasNull
  Update = {toV2, toV4}
  Apply <- MCApply
  MinId <- MCMinId
  MaxId = 4
  MaxBatch = 2
SPECIFICATION Spec
INVARIANTS TypeOK DiskIndexesAgree DiskKeysUnique ViewConsistent CounterAboveIds
PROPERTIES ImplementsTxnMap
