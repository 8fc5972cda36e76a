\* uint16 of 4 bits, uint32 of 5, int of 5, uint64 of 10.
CONSTANTS
  U16Max = 15
  U32Max = 31
  U64Max = 1023
  IntMax = 15
  Framing = 8
  NoBlob = NoBlob
  NoHeader = NoHeader
  NoFile = NoFile
  NoBuilt = NoBuilt
  Sizes = {1, 3}
  OddSizes = {0, 31, 32}
  Contents = {0, 1, 2, 31}
  Bases = {0, 8, 880, 990, 1006, 1014, 1023}
  Blobs <- MCBlobs
  Files <- MCFiles
SPECIFICATION IXSpec
INVARIANTS
  ExtentsDisjoint
  VerdictIsExact
  GridIndexable
  IXInv
  BuiltFromOneRun
  RoundTrip
