CONSTANTS
  None = None
  Null = Null
  Id = {1, 2}
  Value = {"v"}
  Schemas <- MCComposite
  Watched <- MCWatched
  Lower <- MCLower
  Refused <- MCRefused
  MaxParams = 4
  MaxObjects = 3
  MaxOpens = 2
  MaxWrites = 3
SPECIFICATION Spec
INVARIANT ReopenSucceeds
CHECK_DEADLOCK FALSE
