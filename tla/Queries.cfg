SPECIFICATION QueriesSpec
CONSTANTS
  Calls = {a, b, c, d}
  MaxConcurrent = 2
  Timed = {a, b, c}
  Hung = {a}
  home = home  work = work  x = x  y = y  z = z
  Order <- MCOrder
  Chunks <- MCChunks
  MessageOf <- MCMessage
  ChatOf <- MCChat
  TimeOf <- MCTime
  NoChat = NoChat
  Bodies = {x, y, z}
  Gap = 1
  Tables <- MCTables
  Limit = 2
  FetchK = 3
  MaxWrites = 1
  MaxFaults = 2
  big = big  small = small  other = other  about = about
  Processes = {1}
  Files = {big, small, other, about}
  Length <- Lengths
  Object <- Objects
  Metas = {about}
  Caps = {2, 4, 6}
INVARIANTS NativeBounded NoSlotIdle RankedText BestOfEach FairMerge BooksExact CapHolds
PROPERTIES EveryCallEnds OrphansEnd
