SPECIFICATION FairSpec
CONSTANTS
  p1 = p1
  p2 = p2
  plan = plan
  implement = implement
  Procs <- MCProcs
  Tools <- MCTools
  ToolOf <- MCToolOf
  Takeovers <- MCTakeovers
  Remote = {}
  MaxAttempts = 3
  ResidueThreshold = 2
  MaxDeaths = 1
INVARIANTS
  ExclusiveUnlessRobbed
  LockGivenBack
  StatusTold
PROPERTIES
  DeadLockReplaced
CHECK_DEADLOCK FALSE
