\* The same blobs against the size that SPEC.md:107 demands.
CONSTANTS
  U16Max = 15
  U32Max = 31
  U64Max = 1023
  IntMax = 15
  Framing = 8
  NoBlob = NoBlob
  NoHeader = NoHeader
  Contents = {0, 1, 2, 31}
  Bases = {0, 8, 880, 990, 1006, 1014, 1023}
  Blobs <- MCBlobs
SPECIFICATION PSSpec
INVARIANTS
  TileCountExact
