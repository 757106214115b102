SPECIFICATION FairSpec
CONSTANTS
  Size = 4
  Latency = 2
  Items = {x, y}
  Cpus = {c1}
  None = None
INVARIANT TypeOK
PROPERTIES ImplementsDelayFifo FrontReleased
