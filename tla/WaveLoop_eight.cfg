SPECIFICATION Spec
CONSTANTS
  Node <- Eight
  Initial <- Eight
  Kind <- EightKind
  Deps <- EightDeps
  StarDeps <- NoSets
  Children <- NoSets
  Group <- EightGroup
  Prompt <- EightPrompt
  ListAnswer <- None
  DiffOf <- Self
  Overlap <- NoSets
  Cached <- EightCached
  MaxWaves = 3
  FindExact = TRUE
  FullFetch = TRUE
  MaxCrashes = 2
  MaxFailed = 2
INVARIANTS
  TypeOK
  NoDoubleSubmit
  PaidOnce
  NoOrphanBatch
  DoneMeansLanded
  AnswersAreReused
  VerifySeesDiffs
PROPERTIES
  SettledIsFinal
  BuysByTheLedger
