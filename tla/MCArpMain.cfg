SPECIFICATION FairSpec
CONSTANTS
  lo = lo
  e1 = e1
  e2 = e2
  Proc = {d1, d2}
  Addr = {lo, e1, e2}
  Eth = {e1, e2}
  Dev = {v1, v2}
  NoDev = NoDev
  Guess = 1
  Increment = 1
  Tables <- MCTables
  MaxChanges = 2
  None = None
  MaxFaults = 1
INVARIANTS TypeOK StaleOnlyAfterAbort UndisturbedServes DevicesTrue MainInv
PROPERTY StartServes
CHECK_DEADLOCK FALSE
