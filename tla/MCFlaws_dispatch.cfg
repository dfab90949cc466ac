CONSTANTS
  Val = {0, 1}
  Shown = "dispatch"
  NoBlock = NoBlock
  Programs <- MCPrograms
  UninitReads = {{}}
  ReuseAfterTrap = FALSE
  MaxFrames = 8
  MaxInvocations = 1
SPECIFICATION Spec
PROPERTY IndirectTypeChecked
CHECK_DEADLOCK FALSE
