SPECIFICATION Spec
CONSTANTS
  MaxRule = 2
  TestSlot = 1
  TestMatch = TestMatch
  m1 = m1
  Match <- MCMatch
  Port <- MCPort
  PortAct <- MCPortAct
  FrameIn <- MCFrameIn
  NumMbufs = 3
  NumMeta = 2
  RingSize = 2
  MaxBurst = 2
  MaxRx = 3
INVARIANTS
  TypeOK
  FramesCountOnce
  PoolsAddUp
PROPERTIES
  VerdictFromSlot
  LookupsFollowIpv4
  BurstsEnd
CHECK_DEADLOCK FALSE
