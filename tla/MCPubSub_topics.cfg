\* Two rounds, past the wrap of a counter of one bit, with a clock that may
\* move; every call may fail, and Ctrl+C may come at any moment.
CONSTANTS
  CounterMod = 2
  Clock = {0, 1}
  Random = {0}
  MaxRounds = 2
  Faults <- AllFaults
SPECIFICATION FairSpec
INVARIANTS TypeOK RoundsInStep WholeRounds CounterTells ShownWasMade
INVARIANTS AllUnregistered
PROPERTIES CtrlCEnds
CHECK_DEADLOCK FALSE
