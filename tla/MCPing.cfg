CONSTANTS
  Base = 3
  ICMP_ECHO = 2
  ICMP_ECHOREPLY = 0
  ICMP_ID = 5
  ICMP_ECHO_DATA <- MCData
  Foreign <- MCForeign
  Options <- MCOptions
  ETH_DATA_LEN = 14
  ETH_FRAME_LEN = 18
  Capacity = 1
SPECIFICATION Spec
INVARIANTS
  TypeOK
  CksumIsOnesComplement
  RequestsValid
  ShowsOnlyIntact
  ShowsEveryAnswer
