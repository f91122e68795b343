SPECIFICATION Spec
CONSTANTS
  o1 = o1  m1 = m1  m2 = m2
  Objects = {o1}
  RawMessages = {m1, m2}
  HttpMessages = {}
  Handlers = {}
  Scanner = scanner
  NoObject = NoObject
  Nobody = Nobody
  Owner <- OneOwner
  Derived <- TitleChangedBack
  ChunkCount <- Chunks2
  MaxVersion = 3
  MaxParser = 1
  MaxEdition = 2
  MaxChunks = 2
  BatchSize = 1
  MaxFaults = 1
INVARIANT RecordedComplete
