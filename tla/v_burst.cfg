CONSTANTS
  a = a
  b = b
  c = c
  NumProcs = 2
  Addrs <- OneAddr
  BurstLen = 3
  ReadLatency = 2
  CounterModulus = 8
  SetOf <- OneSet
  LinesPerSet = 1
  ControllerType = "MESI"
  Workload <- AnyTrace
SPECIFICATION Spec
PROPERTY MemoryBurstsAreFullLength
