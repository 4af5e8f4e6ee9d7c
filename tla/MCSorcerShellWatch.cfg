SPECIFICATION ClockSpec
CONSTANTS
  Seconds <- MCSeconds
  MaxChanges = 3
  Inputs <- MCInputs
  MaxText = 4
PROPERTIES
  ChangesRun
CHECK_DEADLOCK FALSE
