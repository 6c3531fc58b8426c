CONSTANTS
  a = a
  b = b
  c = c
  NumProcs = 1
  Addrs <- ThreeAddrs
  BurstLen = 2
  ReadLatency = 1
  CounterModulus = 8
  SetOf <- OneSet
  LinesPerSet = 2
  ControllerType = "MESI"
  Workload <- AnyTrace
SPECIFICATION Spec
PROPERTY EvictionWritesBack
