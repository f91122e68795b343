SPECIFICATION FairSpec
CONSTANTS
  a = a  b = b
  Readers = {a, b}
  SameCall <- Together
  Warmers = {}
  Starts = {0}
  LastBlock = 1
  Size = 2
  Flights = {1, 2, 3, 4}
  NoFlight = 0
  Deletable = FALSE
  MaxFaults = 2
PROPERTIES EveryReadEnds
