SPECIFICATION Spec
CONSTANTS
  Code <- MCCode
  Handler = 7
  WARMUP_THRESHOLD_1 = 1
  WARMUP_THRESHOLD_2 = 6
  MaxTrace = 7
INVARIANTS TypeOK DeliveredInOrder AllButTwo BranchesAsExecuted AbortsAtMarkers
CHECK_DEADLOCK FALSE
