SPECIFICATION FairSpec
CONSTANTS
  s1 = s1
  s2 = s2
  c1 = c1
  NoConn = NoConn
  Turns = {1, 2}
  Sessions = {s1, s2}
  Conns = {c1}
  ConnSession <- MCConnSession
  MaxFaults = 2
  MaxCrashes = 1
CHECK_DEADLOCK FALSE
INVARIANTS
  TypeOK
  SeqContiguous
PROPERTIES
  ImplementsLog
  TurnsEnd
