SPECIFICATION Spec
CONSTANTS
  Callers = {g1, g2}
  Certs <- Chain
  Files <- SomeFiles
  Unset = "unset"
  Unreadable = "unreadable"
  MaxReInits = 1
  g1 = g1
  g2 = g2
INVARIANTS
  OneReading
