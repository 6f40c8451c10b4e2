SPECIFICATION Spec
CONSTANTS
  Start = 12
  SectorSize = 8
  Total = 24
  MaxChunk = 13
INVARIANTS TypeOK StreamKept StreamComplete
PROPERTIES StaysInSectors
