SPECIFICATION MCSpec
CONSTANTS
  HostWrites <- MCHostWrites
  ConfigRegisters <- MCConfigRegisters
  Counters = {"OUTPUT_COUNT", "CYCLE_COUNT"}
  CounterMax = 2
  LifetimeMax = 2
  CycleModulus = 1
  NoWrite = NoWrite
  NoResponse = NoResponse
  WordModulus = 2
  NoRead = NoRead
  Unpolled = Unpolled
PROPERTY SoftResetClears
