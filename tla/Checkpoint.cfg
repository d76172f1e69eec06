SPECIFICATION Spec
CONSTANTS
  s1 = s1
  s2 = s2
  v = v
  i1 = i1
  i2 = i2
  TextSteps <- MCTextSteps
  VoidSteps <- MCVoidSteps
  InputsOf <- MCInputsOf
INVARIANTS
  ReturnedIsRecorded
  CompletedHasArtifact
PROPERTY
  EveryCallEnds
CHECK_DEADLOCK FALSE
