CONSTANTS
  Words = 8
  Base = 2
  PageSize = 4
  Sizes = {1, 2}
  Contents = {0, 1}
  Widths <- MCWidths
  Addresses = {0, 1, 2, 3, 6, 7}
  Offsets = {0, 1, 7}
  Values = {0, 1, 2, 5, 10, 13, 15}
SPECIFICATION Spec
INVARIANT RefusedIffOutside
PROPERTIES StoreThenLoad OthersUntouched
CHECK_DEADLOCK FALSE
