SPECIFICATION Spec
CONSTANTS
  Workers = {w1, w2}
  Owners <- MCOwners
  NoOrg = NoOrg
  TopK = 1
  MaxItems = 3
  Pollers = {p1, p2}
  MaxEvents = 3
  MaxRetries = 2
  MaxTasks = 4
  Retention = 2
  MaxTrail = 8
  SkillIds = {"merchandising", "content"}
  Intents = {"i1", "i2"}
  IntentsOf <- MCIntentsOf
  Callers = {c1, c2}
  MaxVersion = 2
  Emails = {"e1"}
  Companies = {"o1", "o2"}
  RoleNames = {"admin"}
  Sessions = {s1, s2}
  Window = 6
  TicksPerSecond = 2
  PerWindow = 2
  MaxClock = 20
  Tokens = 5
  Charges = {1, 2, 3}
  Requests = {r1, r2}
  Threshold = 3
  MaxNegative = 5
  Clients = {b1, b2}
  Tenants = {"o1", "o2"}
  MaxPublished = 2
  MaxLeaks = 1
  MaxUploads = 2
  Hours = {0, 1, 2}
  Minutes = {0, 1}
  MaxSize = 1
  RowTables = {"organizations", "users", "audit_events", "memory_items", "memory_receipts", "tool_usage_records"}
  MaxRows = 4
  MaxMoves = 8
  NewTypes = {"StoreVisit"}
  TypeOwners = {"core", "skill:a", "skill:b"}
  MaxTypeChanges = 4
  KnowledgeOf <- MCKnowledgeOf
  ResolveLimit = 2
  PointLimit = 1
  MaxPoints = 2
  MaxStoreChanges = 2
  BuiltIn = {"content_writer", "merchandising"}
  Entries = {"k1", "k2"}
  Connections = {n1, n2}
  DbSessions = {q1, q2}
  DbOrgs = {"o1", "o2"}
  MaxQueries = 6
  CacheKeys = {"k1", "k2"}
  MaxCacheSteps = 5
  HttpRequests = {h1, h2}
  Threads = {t1, t2}
  Subjects = {i1, i2}
  EntryTypes = {"Product", "BrandTone"}
  MaxTwinCalls = 4
CHECK_DEADLOCK FALSE
INVARIANTS
  ServicesTypeOK
  AnswersScoped
  MemoryKept
  DeferredHolds
  GrantsHold
  UseIsBounded
  DeliveredInOrder
  SchemaHolds
