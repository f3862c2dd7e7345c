SPECIFICATION Spec
CONSTANTS
  i1 = i1
  i2 = i2
  m1 = m1
  m2 = m2
  Node = {n1, n2, n3}
  NULL = NULL
  IP = {i1, i2}
  NoIp = NoIp
  Mac = {m1, m2}
  NoMac = NoMac
  Contents <- MCContents
INVARIANTS TypeOK BackLinks NoEntryLost HeapInv
PROPERTIES ImplementsApi UpdateKeepsKey
CHECK_DEADLOCK FALSE
