\* Two callers, two workers, plans of up to two tiles, every interleaving.
CONSTANTS
  Workers = {w1, w2}
  Callers = {c1, c2}
  MaxJobs = 2
  NoOne = NoOne
  NoJob = NoJob
SPECIFICATION ExSpec
SYMMETRY Symmetry
INVARIANTS
  SuccessMeansComplete
  FailureIsOwn
  ExInv
PROPERTIES
  RunSpec
