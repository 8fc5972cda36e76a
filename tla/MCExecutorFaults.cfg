\* One worker and one caller are enough for a job to outlive its batch.
CONSTANTS
  Workers = {w1}
  Callers = {c1}
  MaxJobs = 2
  NoOne = NoOne
  NoJob = NoJob
SPECIFICATION FaultSpec
INVARIANT NoUseAfterReturn
