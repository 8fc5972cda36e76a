\* Two callers share a pool of up to two workers, with batches of up to two
\* jobs.  No symmetry: liveness is checked on the same graph.
CONSTANTS
  Workers = {w1, w2}
  Callers = {c1, c2}
  MaxJobs = 2
  NoOne = NoOne
  NoJob = NoJob
SPECIFICATION TPFairSpec
INVARIANTS
  NoUseAfterReturn
  WaitIsBarrier
  JobTakenOnce
  EveryJobHasAWaker
  BlockedIsPending
  ShutdownDrains
PROPERTIES
  EveryBatchReturns
  PoolComesDown
