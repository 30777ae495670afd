SPECIFICATION Spec
CONSTANTS
  Pods = {p1, p2}
  Digests = {"digest1", "digest2"}
  OutputLists <- Lists
  ArgumentLists <- Arguments
  FinalOutputs <- Ends
  Labels = {"status", "enable", "team"}
  Own = {"status"}
  MaxLag = 1
  MaxFaults = 1
  p1 = p1
  p2 = p2
INVARIANTS
  SignsNamedReference
  DescribesWhatWasRead
  RepeatsAreExplained
CHECK_DEADLOCK FALSE
