CONSTANTS
  a = a
  b = b
  x = x
  y = y
  z = z
  col1 = col1
  col2 = col2
  obj = obj
  query = query
  detail = detail
  detailB = detailB
  Collection = {a}
  Id = {1, 2}
  Value = {x, y, z}
  None = None
  Shown <- MCShown
  Indexed = {a}
  Conflict <- MCConflict
  Watcher = {col1, obj, query, detail}
  Target <- MCTarget
  MaxLog = 2
SPECIFICATION Spec
INVARIANTS TypeOK
PROPERTIES SteadyWatchersTold OnlyWritesTold LogReplays
SYMMETRY MCSymmetry
