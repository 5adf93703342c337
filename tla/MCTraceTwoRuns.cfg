SPECIFICATION RegressionSpec
CONSTANTS
  Runs <- MCRuns
  Installations <- MCInstallations
  Directories = {"work", "package"}
  TraceNames <- MCTraceNames
  Backends = {"finn.dataflow", "custom.hls"}
  ScalarLimits = {1}
  MaxCommands = 2
  Idle = Idle
  Package = "package"
  Failures <- MCFailures
INVARIANT OneRunPerTrace
CHECK_DEADLOCK FALSE
