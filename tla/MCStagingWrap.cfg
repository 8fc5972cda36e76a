\* int of 5 bits, size_t of 6.
CONSTANTS
  U16Max = 15
  U32Max = 31
  U64Max = 63
  IntMax = 15
  Framing = 8
  Workers = {w1}
  NoJob = NoJob
  NoRaster = NoRaster
  NoRequest = NoRequest
  Rasters <- MCRasters
  Requests <- MCRequests
SPECIFICATION DRSpec
INVARIANT
  DriverWritesInside
