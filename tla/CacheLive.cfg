SPECIFICATION FairSpec
CONSTANTS
  Uppers = {l1d}
  Prefetching = {}
  Addrs = {1, 2}
  BlockOf <- MCBlockOf
  NUM_WAY = 1
  RQ_SIZE = 1
  WQ_SIZE = 1
  PQ_SIZE = 1
  MSHR_SIZE = 1
  HIT_LATENCY = 0
  FILL_LATENCY = 1
  MAX_READ = 1
  MAX_WRITE = 2
  match_offset_bits = TRUE
  WriteType = "RFO"
  LowerReads = 2
  LowerWrites = 1
  None = None
PROPERTY RequestsAnswered
