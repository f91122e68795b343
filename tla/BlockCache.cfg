SPECIFICATION Spec
CONSTANTS
  a = a  b = b
  Readers = {a, b}
  SameCall <- Apart
  Warmers = {a, b}
  Starts = {0, 1}
  LastBlock = 2
  Size = 2
  Flights = {1, 2, 3}
  NoFlight = 0
  Deletable = TRUE
  MaxFaults = 0
SYMMETRY Alike
INVARIANTS NoHoles OwnersRemain
