SPECIFICATION Spec
CONSTANTS
  w1 = w1
  w2 = w2
  NumPorts = 2
  Config <- MCPairConfig
  Worker <- MCWorker
  BatchSize = 2
  RingRoom = 1
  MaxEvents = 1
INVARIANTS
  PipelinesSeparate
CHECK_DEADLOCK FALSE
