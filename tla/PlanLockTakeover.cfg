SPECIFICATION Spec
CONSTANTS
  p1 = p1
  p2 = p2
  plan = plan
  implement = implement
  Procs <- MCProcs
  Tools <- MCTools
  ToolOf <- MCToolOf
  Takeovers <- MCTakeovers
  Remote = {}
  MaxAttempts = 3
  ResidueThreshold = 4
  MaxDeaths = 1
INVARIANT
  MutualExclusion
CHECK_DEADLOCK FALSE
