SPECIFICATION Spec
CONSTANTS
  Calls <- MCCalls
  Ask <- MCAsk
  Names <- MCNames
  Paths <- MCPaths
  Starts <- MCStarts
  Chars = {"x", "y"}
  Nul = Nul
  Buffer = 2
  None = None
  Dir = Dir
  MaxSize = 3
  MaxEdits = 3
  MaxFaults = 1
INVARIANTS SuccessIsWhole FailuresHaveAReason
CHECK_DEADLOCK FALSE
