CONSTANTS
  PayloadBits = 3
  IntBits = 4
  Kinds <- MCKinds
SPECIFICATION LebSpec
INVARIANTS ValueDecoded OverlongRefused
CHECK_DEADLOCK FALSE
