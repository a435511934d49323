\* Ctrl+C and nothing else that goes wrong.
CONSTANTS
  MAX_PROCESS = 2
  Loops = 3
  MaxRuns = 1
  Faults = {"sigint"}
SPECIFICATION FairSpec
PROPERTIES InterruptExits
CHECK_DEADLOCK FALSE
