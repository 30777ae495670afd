SPECIFICATION FairSpec
CONSTANTS
  Pods = {p1, p2}
  WithArtifact = {p1, p2}
  SbomGeneration = TRUE
  OddPhases = {}
  FreshReads = TRUE
  MaxLag = 1
  MaxFaults <- OneCrash
  p1 = p1
  p2 = p2
PROPERTIES
  EventuallySettled
  ImplementsLedger
