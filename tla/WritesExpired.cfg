SPECIFICATION Spec
CONSTANTS
  None = None
  o1 = o1
  o2 = o2
  k1 = k1
  k2 = k2
  p1 = p1
  good = good
  bad = bad
  Tasks = {1, 2}
  Orgs = {o1, o2}
  Keys = {k1}
  Proposals = {p1}
  Vals = {good, bad}
  Bad = bad
  MaxCreates = 2
  MaxFaults = 0
SYMMETRY Symmetry
CHECK_DEADLOCK FALSE
INVARIANT ExpiredNotWritten
