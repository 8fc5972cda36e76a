\* int ends at 7, where the image ends: the last tile reaches beyond it.
CONSTANTS
  U16Max = 7
  U32Max = 31
  U64Max = 63
  IntMax = 7
  I64Max = 31
  Framing = 8
  Workers = {w1, w2}
  NoCall = NoCall
  NoJob = NoJob
  Calls <- EdgeCalls
SPECIFICATION RDSpec
INVARIANT ReadComplete
