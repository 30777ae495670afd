SPECIFICATION Spec
CONSTANTS
  Pods = {p1}
  WithArtifact = {p1}
  SbomGeneration = FALSE
  OddPhases = {}
  FreshReads = FALSE
  MaxLag = 1
  MaxFaults <- NoFaults
  p1 = p1
INVARIANTS
  SkippedDidNotSucceed
