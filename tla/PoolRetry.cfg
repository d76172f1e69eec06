\* Three requests of both kinds rotate over two proxies.
CONSTANTS
  Requests = {r1, r2, r3}
  Size = 2
  None = None
  EmptyRetryMax = 1
  MaxConcurrency = 1
  Kinds = {"stream", "json"}
SPECIFICATION Spec
SYMMETRY AnyOrder
INVARIANTS SlotPerRequest AttemptsBounded
