CONSTANTS
  None = None
  MaxConditions = 3
  MaxDepth = 3
SPECIFICATION Spec
INVARIANTS PrecedenceHolds
CHECK_DEADLOCK FALSE
