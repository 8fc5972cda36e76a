\* int of 5 bits, int64 of 6, size_t of 6 (the calls reach both ends).
CONSTANTS
  U16Max = 15
  U32Max = 31
  U64Max = 63
  IntMax = 15
  I64Max = 31
  Framing = 8
  Workers = {w1, w2}
  NoCall = NoCall
  NoJob = NoJob
  Calls <- MCAllCalls
  NoRaster = NoRaster
  NoRequest = NoRequest
  Rasters <- MCRasters
  Requests <- MCRequests
SPECIFICATION FESpec
INVARIANTS
  PlanTypeOK
  TasksDisjoint
  WritesInside
  ReadComplete
  DRTypeOK
  StagingCovers
  DriverWritesInside
  DriverReadExact
  BlockIsTile
