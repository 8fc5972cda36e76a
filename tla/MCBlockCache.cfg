\* Two threads read in a block and find it there, a third flushes it or
\* locks another one.
CONSTANTS
  Threads = {t1, t2, t3}
  Blocks = {b1, b2}
  NoThread = NoThread
SPECIFICATION BCSpec
INVARIANTS
  RefIsDecoded
  FreshIsBeingRead
PROPERTIES
  EveryGetReturns
