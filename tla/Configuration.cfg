SPECIFICATION Spec
CONSTANTS
  Files <- MCFiles
  Envs <- MCEnvs
  Policies <- MCPolicies
  MaxCuts = 1
INVARIANTS
  RunsInRange
  SavedPolicyReturns
PROPERTIES
  SaveKeepsTheRest
CHECK_DEADLOCK FALSE
