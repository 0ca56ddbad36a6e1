SPECIFICATION Spec
CONSTANTS
  Lcore = {1, 2, 3, 4, 5, 6, 7, 8, 9, 11}
  Port = {0, 1, 2}
  LcoreNode <- MCLcoreNode
  PortNode <- MCPortNode
  NoArg = NoArg
  DefaultFifo = 3
  Speeds = {"40G"}
  FifoArgs = {2}
INVARIANTS
  PortAsLogged
CHECK_DEADLOCK FALSE
