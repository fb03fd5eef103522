CONSTANTS
  None = None
  Null = Null
  Panic = Panic
  NullInt = 9
  Collection = {"A", "B"}
  Property = {"x", "y", "s"}
  Id = {1, 2}
  Ints = {3}
  Strings <- MCStrings
  Schemas <- MCSchemas
  Files <- MCFiles
  FileVersion = 3
  MaxOpens = 3
  MaxWrites = 3
SPECIFICATION Spec
INVARIANT NewPropertiesEmpty
CHECK_DEADLOCK FALSE
