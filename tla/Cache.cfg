SPECIFICATION Spec
CONSTANTS
  Uppers = {l1i, l1d}
  Prefetching = {l1i}
  Addrs = {a1, a2}
  BlockOf <- MCBlockOf
  NUM_WAY = 1
  RQ_SIZE = 1
  WQ_SIZE = 1
  PQ_SIZE = 1
  MSHR_SIZE = 2
  HIT_LATENCY = 0
  FILL_LATENCY = 1
  MAX_READ = 1
  MAX_WRITE = 1
  match_offset_bits = FALSE
  WriteType = "WRITEBACK"
  LowerReads = 2
  LowerWrites = 1
  None = None
SYMMETRY Symmetry
INVARIANTS TypeOK OneReadPerMiss MshrInOrder DemandsHeld WritesKept
