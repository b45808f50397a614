SPECIFICATION Spec
CONSTANTS
  MaxAttempt = 4
  Accepts <- MCNewFile
  Misreads = TRUE
INVARIANTS
  FailureKeepsRecovered
  OutcomeTellsTheOutput
PROPERTY ImplementsAtomicOutput
