SPECIFICATION Spec
CONSTANTS
  h1 = h1
  h2 = h2
  h3 = h3
  Host = {h1, h2, h3}
  Starter = {h3}
  Trips <- MCTrips
  Port = {p1}
  NoPort = NoPort
  MaxFaults = 1
INVARIANT AlreadyPinging
CHECK_DEADLOCK FALSE
