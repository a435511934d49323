\* A network that loses nothing and calls that do not fail.
CONSTANTS
  MaxCalls = 2
  Faults = {}
SPECIFICATION Spec
INVARIANTS TimeShown
CHECK_DEADLOCK FALSE
