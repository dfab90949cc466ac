CONSTANTS
  Magic <- MCMagic
  Version <- MCVersion
  Modules <- MCModules
  Inputs <- MCInputs
  MaxInstructions = 2
  MaxSections = 2
SPECIFICATION Spec
INVARIANTS ReadIsEncoded ValidAccepted TruncationSeen LastSectionWins
PROPERTY ParseEnds
CHECK_DEADLOCK FALSE
