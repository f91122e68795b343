SPECIFICATION SpaceSpec
CONSTANTS
  daemon = daemon  counter = counter
  index = index  data = data
  Processes = {daemon, counter}
  Files = {index, data}
  Length <- Lengths
  Object <- Objects
  Metas = {}
  Caps = {4}
INVARIANTS CapHolds
