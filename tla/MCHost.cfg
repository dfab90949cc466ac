CONSTANTS
  Functions <- MCFunctions
  Commands <- MCCommands
  MaxDepth = 6
  MaxOptions = 4
  Codes = {"parser exception", "interpreter exception"}
  Arguments = {"garbage"}
  Results = {"void", "i32"}
  Work = 3
SPECIFICATION Spec
INVARIANTS JumpsAreSafe ThrowsAreReported ArgumentsAsGiven
PROPERTIES FollowsProtocol Stops
CHECK_DEADLOCK FALSE
