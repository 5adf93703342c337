SPECIFICATION MCSpec
CONSTANTS
  Depth = 3
  Data = {d1}
  NoBeat = NoBeat
  WeightDepth = 4
  AddressSpace = 4
  w1 = w1
  w2 = w2
  WeightData <- MCWeightData
  Unknown = Unknown
  IMAGE_WIDTH = 4
  IMAGE_HEIGHT = 4
  Frames = 2
  Blank = Blank
  NoWindow = NoWindow
INVARIANTS
  WindowsInOrder
PROPERTIES
  ImplementsQueue
  HeadEventuallyLeaves
  ImplementsPacketStore
CHECK_DEADLOCK TRUE
