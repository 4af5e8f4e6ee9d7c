SPECIFICATION Spec
CONSTANTS
  Images <- MCImages
  Numerals <- MCNumerals
  OprTable <- ArithOprs
  Handles <- MCHandles
  RootOps <- FailingRootOps
  CalleeOps <- FailingCalleeOps
  RootLength = 3
  CalleeLength = 2
  MaxCells = 3
  MaxFrames = 3
  MaxVars = 3
  HostCells = 1
  ReuseAfterFailure = TRUE
INVARIANTS
  FrameAssertions
CHECK_DEADLOCK FALSE
