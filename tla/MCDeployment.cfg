SPECIFICATION DeploymentSpec
CONSTANTS
  Channels = 2
  Menu <- MCMenu
  Initializers <- MCInitializers
  Alignment = 12
  Timeouts = {4, 40}
  Stalls = {0, 10, 40}
  ReluName = 0
INVARIANTS SemanticsPreserved LineageComplete NeverRefused
  ScratchHoldsValues TimeoutKept
CHECK_DEADLOCK FALSE
