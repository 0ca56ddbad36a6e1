SPECIFICATION Spec
CONSTANTS
  w1 = w1
  w2 = w2
  NumPorts = 1
  Config <- MCConfig
  Worker <- MCWorker
  BatchSize = 2
  RingRoom = 1
  MaxEvents = 2
INVARIANTS
  TypeOK
  EachEventOnce
  SentAfterAllStages
PROPERTIES
  SignalEndsProgram
CHECK_DEADLOCK FALSE
