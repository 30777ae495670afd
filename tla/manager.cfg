SPECIFICATION FairSpec
CONSTANTS
  Managers = {m1, m2}
  Nobody = nobody
  Ended = ended
  LeaseDuration = 3
  RenewDeadline = 2
  MaxFaults = 2
  m1 = m1
  m2 = m2
INVARIANTS
  OneActive
PROPERTIES
  UpdatesComplete
  AlwaysActiveAgain
