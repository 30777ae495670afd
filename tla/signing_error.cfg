SPECIFICATION Spec
CONSTANTS
  Pods = {p1, p2}
  WithArtifact = {p1}
  SbomGeneration = FALSE
  OddPhases = {}
  FreshReads = TRUE
  MaxLag = 1
  MaxFaults <- NoFaults
  p1 = p1
  p2 = p2
INVARIANTS
  CompletedHasNoErrorPod
