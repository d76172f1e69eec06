\* Two machines, two packages (one the companion of the other), two edits, one fault.
CONSTANTS
  None = None
  Unknown = Unknown
  a = a
  b = b
  v1 = v1
  v2 = v2
  m1 = m1
  m2 = m2
  g1 = g1
  g2 = g2
  Machines = {m1, m2}
  Names = {a, b}
  Versions = {v1}
  Gists = {g1, g2}
  Profiles = {"default"}
  Sources <- TwoSources
  AddArgs <- TwoAddArgs
  ScopeSources <- TwoScope
  Companions <- HasCompanions
  MaxEdits = 2
  MaxFaults = 1
SPECIFICATION FairSpec
PROPERTY SyncConverges
