SPECIFICATION FairSpec
CONSTANTS
  Keys = {mine, theirs}
  Values = {v1, v2}
  Foreign = {theirs}
  Own = {mine}
  MaxLag = 2
  mine = mine
  theirs = theirs
  v1 = v1
  v2 = v2
INVARIANTS
  ConflictChangedNothing
PROPERTIES
  OnlyOwnKeyChanges
  SuccessWasStored
  CallReturns

  ImplementsCall
