SPECIFICATION FairSpec
CONSTANTS
  own = own
  p1 = p1
  m0 = m0
  m1 = m1
  Node = {n1, n2}
  NULL = NULL
  IP = {own, p1}
  NoIp = NoIp
  Mac = {m0, m1}
  NoMac = NoMac
  Call = {c1, c2}
  None = None
  NonInet = NonInet
  Fd = {6}
  Backlog = 0
  RcvQueue = 0
  OwnIp = {own}
  MacOf <- MCMacOf
  EthIf = 2
  OtherIf = {}
PROPERTIES RoundEnds BacklogDrains HangupReaped AreqReturns
CHECK_DEADLOCK FALSE
