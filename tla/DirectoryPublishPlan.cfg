SPECIFICATION Spec
CONSTANTS
  MaxAttempt = 3
  Accepts <- MCNewFile
  Misreads = FALSE
INVARIANT FailureKeepsLastGood
