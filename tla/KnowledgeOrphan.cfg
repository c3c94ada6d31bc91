SPECIFICATION Spec
CONSTANTS
  None = None
  Reqs = {1, 2, 3}
  Kinds = {"create", "delete"}
  MaxTries = 1
  MaxFaults = 0
  MaxRestarts = 1
CHECK_DEADLOCK FALSE
INVARIANT DeleteCascades
