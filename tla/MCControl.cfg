CONSTANTS
  Val = {0, 1}
  UnwindSize = 5
  LoopSize = 4
  IfSize = 6
  TableSize = 6
  NoBlock = NoBlock
  Programs <- MCPrograms
  UninitReads = {{}}
  ReuseAfterTrap = FALSE
  MaxFrames = 8
  MaxInvocations = 1
SPECIFICATION FairSpec
INVARIANTS MarkersMatchFrames OperandsMatchTyping
PROPERTIES ImplementsStructured OnlyLoopsRunForever
CHECK_DEADLOCK FALSE
