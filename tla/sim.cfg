CONSTANTS
  a = a
  b = b
  c = c
  NumProcs = 2
  Addrs <- ThreeAddrs
  BurstLen = 3
  ReadLatency = 2
  CounterModulus = 8
  SetOf <- OneSet
  LinesPerSet = 2
  ControllerType = "MI"
  Workload <- AnyTrace
  TraceFiles <- ShortTraces
  MaxTicks = 60
SPECIFICATION SimSpec
INVARIANTS TraceInOrder EveryOperationCountedOnce MissesWaitForTheBurst MemorySendsWhenBusy AssertionsHold ReadsInOrder AwaitedDataIsComing
PROPERTY ImplementsSystem
CHECK_DEADLOCK FALSE
