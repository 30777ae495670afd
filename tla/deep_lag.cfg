SPECIFICATION FairSpec
CONSTANTS
  Pods = {p1}
  WithArtifact = {p1}
  SbomGeneration = FALSE
  OddPhases = {}
  FreshReads = FALSE
  MaxLag = 2
  MaxFaults <- CrashAndCall
  p1 = p1
INVARIANTS
  QuiescentIsDecided
PROPERTIES
  EventuallyDecided
