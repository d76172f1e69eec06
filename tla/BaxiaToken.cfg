\* Three callers, two proxies, the direct key and two tokens: hits, joins, burns, failed mints.
CONSTANTS
  Callers = {c1, c2, c3}
  Proxies = {p1, p2}
  Direct = Direct
  None = None
  MaxMints = 2
SPECIFICATION FairSpec
INVARIANTS TokenAffine SingleFlight
PROPERTIES BurnedStaysOut AnsweredUnlessMintHangs
