SPECIFICATION DiagnosisSpec
CONSTANTS
  Size = 3
  MostDeviations = 0
  NoValue = NoValue
  References = {}
  Pairs <- MCScalarsOfWholeChunk
INVARIANT DuplicatesRejected
CHECK_DEADLOCK FALSE
