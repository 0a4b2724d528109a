CHECK_DEADLOCK FALSE
SPECIFICATION Spec
CONSTANTS
  j1 = j1
  j2 = j2
  Job <- Two
  NoJob = NoJob
  KeepAwake <- One
  Always = FALSE
  WithCli = FALSE
  FastRestart = FALSE
  MaxResumes = 1
  MaxCrashes = 0
  MaxStops = 0
INVARIANTS
  WorktreeIsOwn
