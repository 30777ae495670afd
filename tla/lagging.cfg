SPECIFICATION Spec
CONSTANTS
  Pods = {p1, p2}
  WithArtifact = {p1}
  SbomGeneration = FALSE
  OddPhases = {}
  FreshReads = FALSE
  MaxLag = 1
  MaxFaults <- OneCrash
  p1 = p1
  p2 = p2
INVARIANTS
  CompletedPodIsSigned
  PublishedIsRecorded
PROPERTIES
  CompletionCoversPods
