SPECIFICATION Spec
CONSTANTS
  Pods = {p1}
  WithArtifact = {p1}
  SbomGeneration = TRUE
  OddPhases = {"Omitted", "Unknown"}
  FreshReads = FALSE
  MaxLag = 1
  MaxFaults <- AllFaults
  p1 = p1
INVARIANTS
  TypeOK
  PublishedIsRecorded
  AttachedIsAttested
PROPERTIES
  CompletedSawEveryPod
  ErrorHasFailedPod
CHECK_DEADLOCK FALSE
