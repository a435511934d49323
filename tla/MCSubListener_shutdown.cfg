\* Two topics, two rounds.
CONSTANTS
  Uris = {u1, u2}
  Rounds = 2
  Faults = {"register", "unregister"}
SPECIFICATION Spec
INVARIANTS TypeOK DumpKeeps FiguresPrinted
SYMMETRY Symmetric
CHECK_DEADLOCK FALSE
