SPECIFICATION UFairSpec
CONSTANTS
  Port = {0, 1, 2}
  FifoWrk = 2
  RingCap = 1
  TxCap = 1
  RxBurst = 2
  WrkBurst = 2
  a1 = a1
  a2 = a2
  b1 = b1
  c1 = c1
  fl1 = fl1
  MBuf = {a1, a2, b1, c1}
  Flow = {fl1}
  NonIp = NonIp
  NoMBuf = NoMBuf
  MaxRx <- MCMaxRx
  Home <- MCHome
INVARIANTS
  SearchIsARound
  DropIsChargedHome
  PanicsOnlyAtAFarPort
PROPERTIES
  EveryFrameLeaves
  EveryFifoDrains
CHECK_DEADLOCK FALSE
