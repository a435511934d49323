\* A failing execvp and nothing else that goes wrong.
CONSTANTS
  MAX_PROCESS = 2
  Loops = 3
  MaxRuns = 1
  Faults = {"exec"}
SPECIFICATION FairSpec
PROPERTIES CreationFailureExits
CHECK_DEADLOCK FALSE
