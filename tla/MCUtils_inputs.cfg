\* Up to six samples of four values in every order, five characters, four bytes.
CONSTANTS
  Sample <- Samples
  Char <- Chars
  Byte <- Bytes
  Figure <- Figures
  MaxSamples = 6
  MaxChars = 5
  MaxBytes = 4
  Processes <- UpToFive
SPECIFICATION Spec
INVARIANTS PercentileByRank RowWhole SplitIntoRuns UriSurvives
           PayloadSurvives ConnectsToAll
CHECK_DEADLOCK FALSE
