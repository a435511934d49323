\* Arguments around every boundary; a text has 3 or 4 bytes before its filling.
CONSTANTS
  Loops <- Rounds
  Sizes <- Lengths
  Uris <- Listeners
  Prefixes = {3, 4}
  SizeMod = 64
  Memory = 8
  Faults <- AllFaults
SPECIFICATION Spec
INVARIANTS TypeOK RowsWhole AbortsOnlyWhenFew FillingFits
CHECK_DEADLOCK FALSE
