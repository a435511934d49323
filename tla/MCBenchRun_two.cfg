\* The configuration of the code (two children) over two consecutive runs.
CONSTANTS
  MAX_PROCESS = 2
  Loops = 3
  MaxRuns = 2
  Faults <- FaultKinds
SPECIFICATION FairSpec
INVARIANTS TypeOK StopAfterAllPublished ChildrenReaped ObjectsRemoved
PROPERTIES NoRemovalInUse ReportStays BarrierSpec Completion
CHECK_DEADLOCK FALSE
