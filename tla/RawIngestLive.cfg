SPECIFICATION FairSpec
CONSTANTS
  o1 = o1  o2 = o2  m1 = m1  m2 = m2  m3 = m3
  Objects = {o1}
  RawMessages = {m1, m2}
  HttpMessages = {x1}
  Handlers = {h1, h2}
  Scanner = scanner
  NoObject = NoObject
  Nobody = Nobody
  Owner <- OneObjectOwner
  Derived <- GrowingObject
  ChunkCount <- Chunks2
  MaxVersion = 2
  MaxParser = 1
  MaxEdition = 2
  MaxChunks = 2
  BatchSize = 1
  MaxFaults = 1
PROPERTY Converges
INVARIANTS SettledAgree
