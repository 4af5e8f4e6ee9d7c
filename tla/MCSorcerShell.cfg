SPECIFICATION FairShell
CONSTANTS
  Seconds <- MCSeconds
  MaxChanges = 3
  Inputs <- MCInputs
  MaxText = 4
INVARIANTS
  TypeOK
  NoIdleRuns
PROPERTIES
  DistinctChangesRun
  QuitEnds
  InputRun
CHECK_DEADLOCK FALSE
