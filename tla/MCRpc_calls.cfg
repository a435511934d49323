\* Three calls, so that a late response meets the next call and the one after.
CONSTANTS
  MaxCalls = 3
  Faults <- AllFaults
SPECIFICATION FairSpec
INVARIANTS TypeOK OwnAnswer AnswersMatch
PROPERTIES RemoteCallSpec CtrlCEnds
CHECK_DEADLOCK FALSE
