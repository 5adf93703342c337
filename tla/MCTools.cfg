SPECIFICATION MCSpec
CONSTANTS
  N = 4
  Dtype <- MCDtype
  Originals <- MCOriginals
  Limits = {1, 2, 5, 8, 99}
  Signatures = {f, g}
  NoFailure = NoFailure
  Raised = Raised
  Expected = f
  Size = 3
  MostDeviations = 3
  NoValue = NoValue
  References <- MCReferences
  Pairs <- MCPairs
  Runs <- MCRuns
  Installations <- MCInstallations
  Directories = {"work", "package"}
  TraceNames <- MCTraceNames
  Backends = {"finn.dataflow", "custom.hls"}
  ScalarLimits = {1}
  MaxCommands = 2
  Idle = Idle
  Package = "package"
  Failures <- MCFailures
  Models = {"fixed", "mixed"}
  FileOrder <- MCFileOrder
  GraphOf <- MCGraphOf
  Contents <- MCContents
  Locations <- MCLocations
  Damaged = Damaged
  MaxDamaged = 1
  Nothing = Nothing
  BlobAlignment = 4
  RtlShapes <- MCShapes
INVARIANTS
  CurrentFails SupportIsTracked UnreportedMeansFinished
  MatchMeansEqual DivergenceIsFirst CleanMeansComplete CompleteIsClean FindingsAreTrue
  AcceptedTraceIsItsRun PackageIsWhole RegressionTells
  PackedModelReads
PROPERTIES
  SearchEnds
  ImplementsPublication
CHECK_DEADLOCK FALSE
