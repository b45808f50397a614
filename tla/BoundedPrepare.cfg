SPECIFICATION Spec
CONSTANTS
  MaxJobs = 4
  MaxWorkers = 3
  MaxCount = 5
  MaxRequest = 4
INVARIANTS
  JobsRunOnce
  ResultIsSequential
