SPECIFICATION FairSpec
CONSTANTS
  Process = {a}
  Path = {1, 2, 3}
  Document = {1}
  Present = {1, 2}
  Mutation = {1, 2}
  Plan <- MCPlan
  MaxTrouble = 2
  MaxSave = 1
INVARIANTS
  AtMostOneUnfinished
PROPERTIES
  ForeignBytesKept
  OutcomeIsFinal
  RecoverySettlesAll
  ImplementsAtomicProject
  OperationEnds
CHECK_DEADLOCK FALSE
