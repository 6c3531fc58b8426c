CONSTANTS
  a = a
  b = b
  c = c
  NumProcs = 3
  Addrs <- OneAddr
  BurstLen = 2
  ReadLatency = 3
  CounterModulus = 8
  SetOf <- OneSet
  LinesPerSet = 1
  ControllerType = "MESI"
  Workload <- AllWriters
SPECIFICATION FairSpec
PROPERTY InstructionsComplete
