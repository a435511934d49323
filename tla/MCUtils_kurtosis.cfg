\* Up to four samples.
CONSTANTS
  Sample <- Samples
  Char <- Chars
  Byte <- Bytes
  Figure <- Figures
  MaxSamples = 4
  MaxChars = 2
  MaxBytes = 2
  Processes <- UpToFive
SPECIFICATION Spec
INVARIANTS KurtosisShown
CHECK_DEADLOCK FALSE
