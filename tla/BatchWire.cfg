CHECK_DEADLOCK FALSE
SPECIFICATION FairSpec
CONSTANTS
  Wires <- All
  Item <- Two
  ScanLimit = 1
  Tolerance = 1
  MaxLag = 2
  MaxOthers = 1
  MaxFaults = 1
  MaxCrashes = 1
INVARIANTS
  TypeOK
  WaveIsWhole
  BoughtAgainBlindly
PROPERTIES
  WaveSettles
