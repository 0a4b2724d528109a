CHECK_DEADLOCK FALSE
SPECIFICATION FairSpec
CONSTANTS
  j1 = j1
  j2 = j2
  Job <- Two
  NoJob = NoJob
  KeepAwake <- One
  Always = FALSE
  WithCli = FALSE
  FastRestart = FALSE
  MaxResumes = 1
  MaxCrashes = 1
  MaxStops = 1
INVARIANTS
  TypeOK
PROPERTIES
  InterruptedIsResumed
  AcceptedIsDriven
