CONSTANTS
  WordBits = 4
  Operands <- MCOperands
  Inf = 1000
  Floats <- MCFloats
SPECIFICATION NumericSpec
INVARIANTS ResultRight DiesWithoutResult
CHECK_DEADLOCK FALSE
