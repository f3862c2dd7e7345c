SPECIFICATION Spec
CONSTANTS
  h1 = h1
  h2 = h2
  h3 = h3
  Host = {h1, h2, h3}
  Starter = {h1, h3}
  Trips <- MCTrips
  Port = {p1, p2}
  NoPort = NoPort
  MaxFaults = 1
SYMMETRY PortSymmetry
INVARIANTS TypeOK PingsPredecessors TourInv
PROPERTIES ImplementsTour
CHECK_DEADLOCK FALSE
