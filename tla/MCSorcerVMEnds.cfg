SPECIFICATION FairSpec
CONSTANTS
  Images <- MCImages
  Numerals <- MCNumerals
  OprTable <- ArithOprs
  Handles <- MCHandles
  RootOps <- StraightRootOps
  CalleeOps <- StraightCalleeOps
  RootLength = 3
  CalleeLength = 2
  MaxCells = 8
  MaxFrames = 1
  MaxVars = 8
  HostCells = 1
  ReuseAfterFailure = FALSE
PROPERTIES
  Termination
CHECK_DEADLOCK FALSE
