SPECIFICATION Spec
CONSTANTS
  Port = {0, 1}
  FifoWrk = 2
  RingCap = 2
  TxCap = 1
  RxBurst = 2
  WrkBurst = 2
  a1 = a1
  a2 = a2
  a3 = a3
  b1 = b1
  fl1 = fl1
  fl2 = fl2
  MBuf = {a1, a2, a3, b1}
  Flow = {fl1, fl2}
  NonIp = NonIp
  NoMBuf = NoMBuf
  MaxRx <- MCMaxRx
  Home <- MCHome
  Hash <- MCHash
INVARIANTS
  TypeOK
  AddsNeverOvercount
  StatsAccountForAll
  Ownership
  LateReadIsStable
PROPERTIES
  KeepsFlowOrder
SYMMETRY
  StalePool
CHECK_DEADLOCK FALSE
