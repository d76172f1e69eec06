\* Three requests share one proxy, or none, and one permit; empty completions are retried inline.
CONSTANTS
  Requests = {r1, r2, r3}
  Size = 1
  None = None
  EmptyRetryMax = 1
  MaxConcurrency = 1
  Kinds = {"stream", "json"}
SPECIFICATION FairSpec
PROPERTY EveryRequestEnds
