\* Two publishers and two subscribers, one run; a crash stands for every
\* failure of a single child.
CONSTANTS
  MAX_PROCESS = 4
  Loops = 1
  MaxRuns = 1
  Faults = {"fork", "exec", "crash"}
SPECIFICATION Spec
PROPERTIES NoRemovalInUse BarrierSpec
CHECK_DEADLOCK FALSE
