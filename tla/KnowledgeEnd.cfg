SPECIFICATION FairSpec
CONSTANTS
  None = None
  Reqs = {1, 2}
  Kinds = {"create", "update", "delete", "import_create", "import_update", "import_delete"}
  MaxTries = 3
  MaxFaults = 4
  MaxRestarts = 1
CHECK_DEADLOCK FALSE
PROPERTY RequestsEnd
