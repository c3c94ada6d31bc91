SPECIFICATION Spec
CONSTANTS
  None = None
  Reqs = {1, 2, 3}
  Kinds = {"create", "update"}
  MaxTries = 1
  MaxFaults = 0
  MaxRestarts = 0
CHECK_DEADLOCK FALSE
INVARIANT SyncedMeansFresh
