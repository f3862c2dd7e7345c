SPECIFICATION Spec
CONSTANTS
  own = own
  p1 = p1
  m0 = m0
  m1 = m1
  Node = {n1, n2, n3}
  NULL = NULL
  IP = {own, p1}
  NoIp = NoIp
  Mac = {m0, m1}
  NoMac = NoMac
  Call = {c1, c2}
  None = None
  NonInet = NonInet
  Fd = {6, 7}
  Backlog = 5
  RcvQueue = 1
  OwnIp = {own}
  MacOf <- MCMacOf
  EthIf = 2
  OtherIf = {}
SYMMETRY Symmetry
PROPERTIES RemovesTheEntry
CHECK_DEADLOCK FALSE
