SPECIFICATION MCSpec
CONSTANTS
  a = a
  b = b
  k = k
  Bubble = Bubble
  Lanes = {a, b}
  Settings = {k}
  AccumulatorOverflows <- MCAccumulatorOverflows
  BiasOverflows <- MCBiasOverflows
  MaxBeats = 2
  ACC_WIDTH = 4
  MULTIPLIER_WIDTH = 3
  SHIFT_WIDTH = 4
  OUTPUT_WIDTH = 3
  ProductWidth = 8
  Power <- MCPower
  Biases <- MCBiases
  Accumulators <- MCAccumulators
  Channels <- MCChannels
  NoDivergence = NoDivergence
INVARIANTS ResultIsReference FaultyStageNamed RegressionSeparates
PROPERTY ImplementsSumQueue
