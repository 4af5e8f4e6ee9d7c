SPECIFICATION FairProgram
CONSTANTS
  Literals = {1}
  Oprs = {2}
  Vars = {0}
  MaxBlocks = 20
  MaxInsts = 20
  MaxInlined = 0
  MaxCallees = 20
  MaxCode = 0
  Loads <- MCLoads
  DefOf <- MCDefOf
  OprOf <- MCOprOf
  LiteralOf <- MCLiteralOf
  Quoted <- MCQuoted
  AnyLength = 4
  Numerals <- MCNumerals
  Handles <- MCHandles
  MaxCells = 6
  MaxFrames = 4
  MaxVars = 6
INVARIANTS
  LoaderTypeOK
  Faithful
  SafeLoad
  CompiledImage
  ProgramSafe
PROPERTIES
  ProgramEnds
CHECK_DEADLOCK FALSE
