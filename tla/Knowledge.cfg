SPECIFICATION Spec
CONSTANTS
  None = None
  Reqs = {1, 2, 3}
  Kinds = {"create", "update", "delete", "import_create", "import_update", "import_delete"}
  MaxTries = 2
  MaxFaults = 3
  MaxRestarts = 1
CHECK_DEADLOCK FALSE
INVARIANTS
  TypeOK
  GraphFirst
  CreatedIsSearchable
  PendingIsMarked
  PointsTracked
  FreshOrPending
  DeletedOnce
