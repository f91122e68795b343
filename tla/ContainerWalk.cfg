SPECIFICATION Spec
CONSTANTS
  o1 = o1  o2 = o2  todo = todo
  Objects = {o1, o2}
  NoObject = NoObject
  LastRecord = 4
  KindOf <- Kind
  Message = message
  Kinds = {message, todo}
  Asks = {{message}, {todo}}
  Limits = {1, 2}
  Containers <- Walked
  MaxParser = 2
  MaxFaults = 1
INVARIANTS NothingPassed WalkComplete
PROPERTIES WalkEnds
