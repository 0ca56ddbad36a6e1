SPECIFICATION Spec
CONSTANTS
  Lcore = {1, 2, 3, 4, 5, 6, 7, 8, 9, 11}
  Port = {0, 1, 2}
  LcoreNode <- MCLcoreNode
  PortNode <- MCPortNode
  NoArg = NoArg
  DefaultFifo = 3
  Speeds = {"40G", "10G", "1G"}
  FifoArgs = {2, 3, 4, 257, NoArg}
INVARIANTS
  TypeOK
  OneWorkerPerFifo
PROPERTIES
  LaunchesFindIdleLcores
  BringUpEnds
CHECK_DEADLOCK FALSE
