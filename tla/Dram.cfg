SPECIFICATION FairSpec
CONSTANTS
  Readers = {llc, l2c}
  Blocks = {1, 2, 7}
  RQ_SIZE = 2
  WQ_SIZE = 3
  DRAM_RANKS = 1
  DRAM_BANKS = 2
  DRAM_COLUMNS = 1
  DRAM_ROWS = 2
  tRP = 1
  tRCD = 0
  tCAS = 1
  TURN_AROUND_TIME = 1
  RETURN_TIME = 1
INVARIANTS TypeOK EachScheduledOnce OneDirection ReadsHeld
PROPERTY ReadsAnswered
