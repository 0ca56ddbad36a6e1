SPECIFICATION CMSpec
CONSTANTS
  MaxRule = 4
  TestSlot = 2
  TestMatch = TestMatch
  s1 = s1
  bad = bad
  r1 = r1
  Match <- MCMatch
  Table <- MCTable
  Ipv4Table <- MCIpv4Table
  AclTable <- MCAclTable
  UdpTable <- MCUdpTable
  DcerpcTable <- MCDcerpcTable
  Size = 3
  Source = {s1, bad}
  BadSource = {bad}
  Rest = {r1}
  Act = {"alert", "drop"}
  RuleNum = {0, 1, 2, 3}
  MaxAdd = 4
  Work <- MCWork
  Entered = {0, 1, 2, 255, 257}
  MaxConf = 3
INVARIANTS
  TypeOK
  ListedRulesWereAdded
  SlotsMatchRules
  StoredRulesReachAcl
  ShownAsAnswered
PROPERTIES
  DeletesTakeOne
  AddsKeepTheList
CHECK_DEADLOCK FALSE
