SPECIFICATION FairSpec
CONSTANTS
  Node <- One
  Initial <- One
  Kind <- OneDiff
  Deps <- NoSets
  StarDeps <- NoSets
  Children <- NoSets
  Group <- OneGroup
  Prompt <- Self
  ListAnswer <- None
  DiffOf <- Self
  Overlap <- NoSets
  Cached <- None
  MaxWaves = 4
  FindExact = TRUE
  FullFetch = TRUE
  MaxCrashes = 0
  MaxFailed = 2
PROPERTIES
  JobFinishes
