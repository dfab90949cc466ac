CONSTANTS
  Val = {0, 1}
  Shown = "loop_over_table"
  NoBlock = NoBlock
  Programs <- MCPrograms
  UninitReads = {{}}
  ReuseAfterTrap = FALSE
  MaxFrames = 8
  MaxInvocations = 1
SPECIFICATION Spec
INVARIANT LabelsUsable
CHECK_DEADLOCK FALSE
