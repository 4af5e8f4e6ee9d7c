SPECIFICATION TestSpec
CONSTANTS
  Images <- CapturingImage
  Numerals <- MCNumerals
  OprTable <- ArithOprs
  Handles <- MCHandles
  RootOps <- AllRootOps
  CalleeOps <- AllCalleeOps
  RootLength = 5
  CalleeLength = 2
  MaxCells = 3
  MaxFrames = 2
  MaxVars = 3
  HostCells = 1
  ReuseAfterFailure = FALSE
INVARIANTS
  BoundReads
CHECK_DEADLOCK FALSE
