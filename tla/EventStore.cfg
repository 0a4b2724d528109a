CONSTANTS
  Template = "t"
  Check = "v"
  Planned = {"b"}
  Child = {"a"}
  Answer <- SameAnswer
  Fates <- SomeFates
  NoNode = "none"
  MaxCrashes = 1
  MaxRuns = 2
  MaxDoctors = 1
SPECIFICATION Spec
INVARIANTS
  TypeOK
  TablesAreTheLog
  BlobsAreWhole
  LedgerIsLogged
  JudgedIsCounted
CHECK_DEADLOCK FALSE
