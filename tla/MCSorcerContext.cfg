SPECIFICATION ContextSpec
CONSTANTS
  Literals <- MCNone
  Oprs <- MCNone
  Vars <- MCZero
  MaxBlocks = 2
  MaxInsts = 2
  MaxInlined = 2
  MaxCode = 2
  MaxCallees = 1
  Numerals <- MCOne
  Handles <- MCHandles
  MaxCells = 2
  MaxFrames = 2
  MaxVars = 2
  HostCells = 1
  HostKept = 1
INVARIANTS
  SafeUse
  Ownership
CHECK_DEADLOCK FALSE
