CONSTANTS
  Traces <- SomeTraces
  Addresses = {1, 2}
  BufferSlots = 7
  MaxRefs = 5
SPECIFICATION Spec
INVARIANTS ExpandStops TraceIsComplete
CHECK_DEADLOCK FALSE
