SPECIFICATION DSpec
CONSTANTS
  Port = {0, 1}
  FifoWrk = 2
  RingCap = 1
  TxCap = 1
  RxBurst = 2
  WrkBurst = 2
  a1 = a1
  a2 = a2
  b1 = b1
  fl1 = fl1
  MBuf = {a1, a2, b1}
  Flow = {fl1}
  NonIp = NonIp
  NoMBuf = NoMBuf
  MaxRx <- MCMaxRx
  Home <- MCHome
PROPERTIES
  PacketsAreDirected
CHECK_DEADLOCK FALSE
