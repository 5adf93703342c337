SPECIFICATION DeploymentSpec
CONSTANTS
  Channels = 2
  Menu <- MCColumnMenu
  Initializers <- MCColumnInitializers
  Alignment = 12
  Timeouts = {4, 40}
  Stalls = {0, 10, 40}
  ReluName = 0
INVARIANT SemanticsPreserved
CHECK_DEADLOCK FALSE
