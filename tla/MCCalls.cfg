CONSTANTS
  Val = {0, 1}
  CallerSize = 5
  CalleeSize = 3
  SharedSize = 4
  StartSize = 3
  NoBlock = NoBlock
  Programs <- MCPrograms
  UninitReads = {{}}
  ReuseAfterTrap = FALSE
  MaxFrames = 4
  MaxInvocations = 2
SPECIFICATION FairSpec
INVARIANTS OperandsMatchTyping LabelsMatchContexts
PROPERTIES ImplementsStructured CallersUntouched EveryCallEnds
CHECK_DEADLOCK FALSE
