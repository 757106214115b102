SPECIFICATION Spec
CONSTANTS
  Programs <- MCPrograms
  ROB_SIZE = 5
  LQ_SIZE = 2
  SQ_SIZE = 1
  DISPATCH_WIDTH = 2
  SCHEDULER_SIZE = 3
  EXEC_WIDTH = 1
  LQ_WIDTH = 1
  SQ_WIDTH = 1
  RETIRE_WIDTH = 2
  EXEC_LATENCY = 2
  MAX_READ = 1
  DTLB_SIZE = 1
  L1D_RQ_SIZE = 1
  L1D_WQ_SIZE = 1
INVARIANTS TypeOK RegistersReady LoadsSeeStores SlotsOwned StuckOnlyOnLoads
