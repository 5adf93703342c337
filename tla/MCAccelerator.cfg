SPECIFICATION FairSpec
CONSTANTS
  IMAGE_WIDTH = 4
  IMAGE_HEIGHT = 4
  INPUT_CHANNELS = 2
  OUTPUT_CHANNELS = 2
  Stale = Stale
  Bubble = Bubble
  Zero = Zero
  AccumulatorOverflows <- NoAccumulatorOverflow
  BiasOverflows <- OneBiasOverflow
  HostWrites <- MCHostWrites
  ConfigRegisters <- MCConfigRegisters
  Counters <- MCCounters
  CounterMax = 200
  LifetimeMax = 1
  CycleModulus = 200
  NoWrite = NoWrite
  NoResponse = NoResponse
INVARIANTS
  StartFindsEngineIdle
  BusySpansRun
  NothingInFlight
  BiasOverflowReported
PROPERTIES
  WholeLayerCounted
  ImplementsLayer
  EveryRunEnds
