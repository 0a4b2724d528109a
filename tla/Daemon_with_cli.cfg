CHECK_DEADLOCK FALSE
SPECIFICATION Spec
CONSTANTS
  j1 = j1
  j2 = j2
  Job <- Two
  NoJob = NoJob
  KeepAwake <- Two
  Always = TRUE
  WithCli = TRUE
  FastRestart = TRUE
  MaxResumes = 1
  MaxCrashes = 2
  MaxStops = 1
SYMMETRY Interchangeable
INVARIANTS
  OneDriver
  OneInhibitor
  AwakeAsAsked
PROPERTIES
  InhibitorStaysKnown
