SPECIFICATION FairSpec
CONSTANTS
  h1 = h1
  h2 = h2
  h3 = h3
  Host = {h1, h2, h3}
  Starter = {h3}
  Trips <- MCShortTrips
  Port = {p1}
  NoPort = NoPort
  MaxFaults = 3
PROPERTIES TourEnds GroupEnds
CHECK_DEADLOCK FALSE
