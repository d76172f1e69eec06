\* Four requests share two proxies: full slots, queued and woken acquirers.
CONSTANTS
  Requests = {r1, r2, r3, r4}
  Size = 2
  None = None
SPECIFICATION PoolFairSpec
INVARIANTS Serialized NoLostWakeup
PROPERTY ImplementsLedger
