SPECIFICATION Spec
CONSTANTS
  Images <- MCImages
  Numerals <- MCNumerals
  OprTable <- ArithOprs
  Handles <- MCHandles
  RootOps <- AllRootOps
  CalleeOps <- AllCalleeOps
  RootLength = 3
  CalleeLength = 2
  MaxCells = 3
  MaxFrames = 2
  MaxVars = 3
  HostCells = 1
  ReuseAfterFailure = FALSE
INVARIANTS
  TypeOK
  ExactFrames
  OwnVariables
  Ownership
  CleanReturn
  NoIdleFrames
  NoStrayFetch
PROPERTIES
  ImplementsSemantics
CHECK_DEADLOCK FALSE
