CONSTANTS
  None = None
  Null = Null
  Id = {1, 2}
  Value = {"v"}
  Schemas <- MCSchemas
  Watched <- MCWatched
  Lower <- MCLower
  Refused <- MCRefused
  MaxParams = 4
  MaxObjects = 3
  MaxOpens = 3
  MaxWrites = 3
SPECIFICATION Spec
INVARIANTS RowsAreMeant TablesAsWanted OnlyDuplicatesFail WatchedWritesTold
CHECK_DEADLOCK FALSE
