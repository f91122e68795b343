SPECIFICATION Spec
CONSTANTS
  o1 = o1  o2 = o2  m1 = m1  m2 = m2  m3 = m3
  Objects = {o1, o2}
  RawMessages = {m1, m2, m3}
  HttpMessages = {}
  Handlers = {}
  Scanner = scanner
  NoObject = NoObject
  Nobody = Nobody
  Owner <- TwoObjectOwner
  Derived <- TwoObjects
  ChunkCount <- Chunks3
  MaxVersion = 2
  MaxParser = 2
  MaxEdition = 3
  MaxChunks = 2
  BatchSize = 1
  MaxFaults = 2
INVARIANTS RecordedComplete MarksBehindRows
PROPERTY ImplementsObjectIndex
