SPECIFICATION FairSpec
CONSTANTS
  Node <- Six
  Initial <- FanInitial
  Kind <- FanKind
  Deps <- FanDeps
  StarDeps <- FanStar
  Children <- FanChildren
  Group <- OneGroup
  Prompt <- Self
  ListAnswer <- FanList
  DiffOf <- Self
  Overlap <- NoSets
  Cached <- FanCached
  MaxWaves = 7
  FindExact = TRUE
  FullFetch = FALSE
  MaxCrashes = 2
  MaxFailed = 1
INVARIANTS
  PaidAfterDeps
  BarrierClean
  LandedIsRecovered
  BindingsNeedNoHuman
PROPERTIES
  JobSettles
