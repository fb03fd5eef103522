CONSTANTS
  Id = {1, 2, 3, 4}
  None = None
  Null = Null
  MaxInt = 3
  MaxChar = 5
  Asterisk = 3
  QuestionMark = 4
  End = 99
  Bytes <- MCBytes
  Lower <- MCLower
  Object <- MCObject
  Database <- MCDatabase
  Prop <- MCProp
  Rank <- MCRank
  NullRank <- MCNullRank
  Least <- MCLeast
  Greatest <- MCGreatest
  Filter <- MCFilter
  Accepts <- MCAccepts
  Query <- MCQuery
SPECIFICATION Spec
INVARIANTS TypeOK FiltersExact FindIsWindow SortedFindIsWindow CountAgrees ExtremesAgree SumsAgree
