SPECIFICATION FairSpec
CONSTANTS
  p1 = p1  p2 = p2  insn = insn  nop = nop  None = None
  Producers <- OneProducer
  Events <- BothEvents
  ArgWords <- MCArgWords
  TRACE_BUF_LEN = 6
  UIntRange = 18
  MaxIdxAge = 8
  MaxFinishAge = 6
  MonitorOps = {"set", "flush"}
PROPERTIES BufferWaitEnds FlushReturns
