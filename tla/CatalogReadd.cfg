\* Two machines, one package: a re-added package is dropped by the next sync.
CONSTANTS
  None = None
  Unknown = Unknown
  a = a
  b = b
  v1 = v1
  v2 = v2
  m1 = m1
  m2 = m2
  g1 = g1
  g2 = g2
  Machines = {m1, m2}
  Names = {a}
  Versions = {v1, v2}
  Gists = {g1, g2}
  Profiles = {"default"}
  Sources <- OneSources
  AddArgs <- OneAddArgs
  ScopeSources <- OneScope
  Companions <- NoCompanions
  MaxEdits = 3
  MaxFaults = 1
SPECIFICATION Spec
SYMMETRY AnyOrder
INVARIANT LocalOnlyPreserved
