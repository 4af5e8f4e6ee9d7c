SPECIFICATION Spec
CONSTANTS
  Literals <- MCOne
  Oprs <- MCOne
  Vars <- MCVars
  MaxBlocks = 2
  MaxInsts = 3
  MaxInlined = 5
  MaxCode = 2
  MaxCallees = 1
INVARIANTS
  TypeOK
  SlotsInOrder
  NamedBlocksCounted
  FreshImage
PROPERTIES
  InlinedReads
CHECK_DEADLOCK FALSE
