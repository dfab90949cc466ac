CONSTANTS
  Val = {0, 1}
  InnerSize = 2
  NoBlock = NoBlock
  Programs <- MCPrograms
  UninitReads = {{}, {"inner", "other"}}
  ReuseAfterTrap = TRUE
  MaxFrames = 6
  MaxInvocations = 2
SPECIFICATION Spec
INVARIANTS TypeOK BottomIsActivation
CHECK_DEADLOCK FALSE
