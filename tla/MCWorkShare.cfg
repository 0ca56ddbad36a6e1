SPECIFICATION Spec
CONSTANTS
  w1 = w1
  w2 = w2
  NumNodes = 2
  Layout <- MCLayout
  CoreCount <- MCCoreCount
  Worker <- MCWorker
  SocketOf <- MCSocketOf
  NumMbufs = 1
  RingSize = 2
  RxBurst = 1
  WorkBurst = 2
  MaxRx <- MCMaxRx
  MaxStarts = 2
INVARIANTS
  TypeOK
  NothingLeaks
  OnePortBursts
  EndsOnlyIfEarly
PROPERTIES
  ServedFifosDrain
CHECK_DEADLOCK FALSE
