SPECIFICATION FairSpec
CONSTANTS
  p1 = p1  p2 = p2  insn = insn  nop = nop  None = None
  Producers <- TwoProducers
  Events <- OneEvent
  ArgWords <- MCArgWords
  TRACE_BUF_LEN = 7
  UIntRange = 21
  MaxIdxAge = 9
  MaxFinishAge = 7
  MonitorOps = {"set"}
PROPERTY BufferWaitEnds
