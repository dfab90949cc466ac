CONSTANTS
  Val = {0, 1, 2, 3, 4, 5, 6, 7}
  Word = 8
  PageSize = 2
  MaxSegments = 1
  Pages = {0, 1, 2}
  MaxOffset = 5
  Modules <- MCModules
SPECIFICATION Spec
INVARIANTS TypeOK GlobalsInitialized TableFilled DataInBounds
CHECK_DEADLOCK FALSE
