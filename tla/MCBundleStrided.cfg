SPECIFICATION BundleSpec
CONSTANTS
  Models = {"strided"}
  FileOrder <- MCFileOrder
  GraphOf <- MCGraphOf
  Contents <- MCContents
  Locations <- MCLocations
  Damaged = Damaged
  MaxDamaged = 0
  Nothing = Nothing
  BlobAlignment = 4
  RtlShapes <- MCShapes
INVARIANT AcceptedRunsAsDeclared
CHECK_DEADLOCK FALSE
