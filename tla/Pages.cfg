SPECIFICATION PagesSpec
CONSTANTS
  MaxSockets = 3
  MaxAttempts = 2
  MaxMessages = 2
  MaxCalls = 2
  Chats = {a1, a2}
  MaxQuestions = 3
  MaxSessions = 2
  Filters = {"all", "brand"}
  MaxFetches = 3
  EntryIds <- MCEntryIds
  Listed = 2
  PageSize = 2
  MaxBulk = 2
  MaxTurns = 2
  ReviewIds = {"i1", "i2"}
  MaxReviews = 3
  OrgIds = {1, 2, 3, 4}
  OrgNames = {"", "n1"}
  MaxSaves = 2
  MaxFlash = 6
  MaxFiles = 3
  Admins = {"root", "ops"}
  MaxLogins = 4
CHECK_DEADLOCK FALSE
INVARIANTS
  RetrievalDecides
  AccessDecides
  ContentDecides
  ClientHolds
