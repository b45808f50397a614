SPECIFICATION Spec
CONSTANTS
  Process = {a}
  Path = {1, 2, 3}
  Document = {1}
  Present = {1, 2}
  Mutation = {1}
  Plan <- MCPlanOfOne
  MaxTrouble = 1
  MaxSave = 0
INVARIANTS
  NoSilentHalfRollback
CHECK_DEADLOCK FALSE
