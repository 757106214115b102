SPECIFICATION Spec
CONSTANTS
  pt_levels = 5
  VPages <- ThreePages
  FreeList <- TablesCollide
  NUM_SET <- MCSets
  NUM_WAY <- MCWays
  LruInit = 2
  RQ_SIZE = 2
  MSHR_SIZE = 2
  MAX_READ = 2
  MAX_FILL = 2
  Latency = 0
  minor_fault_penalty = 1
  BlockPTEs = 8
  LowerSize = 2
INVARIANTS TypeOK WalkOnPath AwaitedOrShared MshrSorted EachPageOnce MappingsInjective
