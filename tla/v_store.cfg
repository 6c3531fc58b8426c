CONSTANTS
  a = a
  b = b
  c = c
  NumProcs = 2
  Addrs <- OneAddr
  BurstLen = 2
  ReadLatency = 1
  CounterModulus = 8
  SetOf <- OneSet
  LinesPerSet = 1
  ControllerType = "MESI"
  Workload <- AnyTrace
SPECIFICATION Spec
PROPERTY StoreTakesEffect
