CHECK_DEADLOCK FALSE
SPECIFICATION Spec
CONSTANTS
  Wires <- FileWires
  Item <- Two
  ScanLimit = 1
  Tolerance = 1
  MaxLag = 0
  MaxOthers = 0
  MaxFaults = 0
  MaxCrashes = 0
INVARIANTS
  AnswersAreRead
