SPECIFICATION Spec
CONSTANTS
  s1 = s1
  s2 = s2
  c1 = c1
  NoConn = NoConn
  Turns = {1, 2, 3}
  Sessions = {s1}
  Conns = {c1}
  ConnSession <- MCConnSession
  MaxFaults = 1
  MaxCrashes = 0
CHECK_DEADLOCK FALSE
INVARIANTS
  TimeOrdered
  HistoryIsPrefix
  SeesAnsweredTurns
  SerialConnectionKeepsEvents
