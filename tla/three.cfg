CONSTANTS
  a = a
  b = b
  c = c
  NumProcs = 3
  Addrs <- OneAddr
  BurstLen = 2
  ReadLatency = 1
  CounterModulus = 8
  SetOf <- OneSet
  LinesPerSet = 1
  ControllerType = "MSI"
  Workload <- ReadersAndWriter
SPECIFICATION Spec
INVARIANTS SingleWriter AwaitedDataIsComing AssertionsHold
PROPERTY ImplementsCoherence
