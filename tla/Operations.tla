----------------------------- MODULE Operations -----------------------------
(* What runs the program: its start and stop with or without the knowledge
   stores, the database sessions that carry an organisation, the cache, and the
   measuring and tracing around a request.

   Covered: build_app's lifespan and the adapters' connect and close, get_db_session
   and the plain sessions the stores open, RedisStorageAdapter,
   golden_signals_middleware, trace_context, BrainSLI.timer.
   Not covered: what the stores do once connected (module KnowledgeSync), the
   wiring that has no step of its own.  Connection pool, policies of PostgreSQL
   and expiry of Redis are external. *)
EXTENDS Integers, FiniteSets, Sequences, SequencesExt

CONSTANTS BuiltIn,        \* the skills main.py registers
          Entries,        \* knowledge written through the admin API
          Connections,    \* connections of the pool
          DbSessions,     \* sessions that are open at a time
          DbOrgs,         \* organisations
          MaxQueries,     \* bound: steps of the sessions
          CacheKeys,      \* keys of the cache
          MaxCacheSteps,  \* bound: puts, deletes and ticks
          HttpRequests    \* requests being measured

ASSUME OperationsAssumption ==
    /\ IsFiniteSet(HttpRequests) /\ IsFiniteSet(Connections)
    /\ "none" \notin DbSessions
    /\ DbOrgs \intersect {"none", "not set", "refused", "error"} = {}

VARIABLES service,   \* one process of the service, from start to stop
          held,      \* connection -> the session that has it
          setting,   \* connection -> app.current_org_id
          sessions,  \* session -> its state and its last result
          steps,     \* steps of the sessions so far
          cache,     \* Redis, with the last call on each key
          signals,   \* the gauge and the counters
          measured   \* request -> where it is, its trace scopes, its timers

operationVars == <<service, held, setting, sessions, steps, cache, signals, measured>>
sessionVars == <<held, setting, sessions, steps>>

-----------------------------------------------------------------------------
(* Start and stop.  build_app refuses to go on without a secret, gives the
   writer both stores and reads whether they are required.  A client exists from the first line of connect on, also when
   the store does not answer; the exception ends the first connect that fails.
   The writer loses its stores then, the resolver keeps them. *)
ServiceInit ==
    \E old \in SUBSET {"old"}, collection \in BOOLEAN :
        service = [phase |-> "build", mode |-> "optional", graph |-> "none", vector |-> "none",
                   collection |-> collection, writer |-> "none", skills |-> {},
                   stored |-> old, inMemory |-> {}, found |-> {}, closed |-> {}]

BuildApp(secret, mode) ==
    /\ service.phase = "build"
    /\ service' = IF secret
                  THEN [service EXCEPT !.mode = mode, !.writer = "stores", !.phase = "graph"]
                  ELSE [service EXCEPT !.phase = "aborted"]

ConnectGraph(client) ==
    /\ service.phase = "graph"
    /\ service' = [service EXCEPT !.graph = client,
                                  !.phase = IF client = "open" THEN "vector" ELSE "failed"]
ConnectVector(client, created) ==
    /\ service.phase = "vector"
    /\ client = "open" => created
    /\ client = "none" => ~created
    /\ service' = [service EXCEPT !.vector = client, !.collection = @ \/ created,
                                  !.phase = IF client = "open" THEN "boot" ELSE "failed"]

AbortStartup ==
    /\ service.phase = "failed" /\ service.mode = "required"
    /\ service' = [service EXCEPT !.phase = "aborted"]
Degrade ==
    /\ service.phase = "failed" /\ service.mode # "required"
    /\ service' = [service EXCEPT !.writer = "memory", !.phase = "boot"]
BootstrapSkillRegistry ==
    /\ service.phase = "boot"
    /\ service' = [service EXCEPT !.skills = BuiltIn, !.phase = "serving"]

WriteEntry(e) ==
    /\ service.phase = "serving" /\ e \notin service.stored \union service.inMemory
    /\ service' = IF service.writer = "memory"
                  THEN [service EXCEPT !.inMemory = @ \union {e}]
                  ELSE [service EXCEPT !.stored = @ \union {e}]
(* The graph may have come up since; a client that was made then works. *)
ResolveEntries(reachable) ==
    /\ service.phase = "serving"
    /\ reachable => service.graph # "none"
    /\ service' = [service EXCEPT !.found = IF reachable THEN service.stored ELSE {}]

Stop ==
    /\ service.phase = "serving"
    /\ service' = [service EXCEPT !.phase = "close_graph"]
CloseGraph(raises) ==
    /\ service.phase = "close_graph"
    /\ raises => service.graph # "none"
    /\ service' = [service EXCEPT !.graph = IF raises THEN @ ELSE "none",
                                  !.closed = @ \union {"graph"}, !.phase = "close_vector"]
CloseVector(raises) ==
    /\ service.phase = "close_vector"
    /\ raises => service.vector # "none"
    /\ service' = [service EXCEPT !.vector = IF raises THEN @ ELSE "none",
                                  !.closed = @ \union {"vector"}, !.phase = "stopped"]

AdapterStates == {"none", "made", "open"}
ServiceNext ==
    /\ \/ \E secret \in BOOLEAN, mode \in {"required", "optional"} : BuildApp(secret, mode)
       \/ \E c \in AdapterStates : ConnectGraph(c)
       \/ \E c \in AdapterStates, created \in BOOLEAN : ConnectVector(c, created)
       \/ AbortStartup
       \/ Degrade
       \/ BootstrapSkillRegistry
       \/ \E e \in Entries : WriteEntry(e)
       \/ \E reachable \in BOOLEAN : ResolveEntries(reachable)
       \/ Stop
       \/ \E raises \in BOOLEAN : CloseGraph(raises) \/ CloseVector(raises)
    /\ UNCHANGED <<sessionVars, cache, signals, measured>>

(* A required store is there or the service is not; a writer has both stores or
   none, never one; what one process wrote is in one place, and what was
   resolved came from the graph; it serves with all its skills, and a close that
   fails keeps no other from being tried (main.py _lifespan). *)
ServiceWhole ==
    /\ service.phase \in {"serving", "close_graph", "close_vector", "stopped"} =>
         /\ service.mode = "required" => service.writer = "stores"
         /\ service.writer # "none" /\ service.skills = BuiltIn
    /\ service.phase = "serving" /\ service.writer = "stores" =>
         service.graph = "open" /\ service.vector = "open" /\ service.collection
    /\ service.inMemory = {} \/ service.stored \subseteq {"old"}
    /\ service.found \subseteq service.stored
    /\ service.phase = "stopped" => service.closed = {"graph", "vector"}

-----------------------------------------------------------------------------
(* Database sessions.  SET LOCAL lasts until the transaction ends; the policies
   read the setting and raise when there is none.  The stores of this program
   open plain sessions, which set nothing. *)
NoSession == "none"
NotSet == "not set"
Free(c) == held[c] = NoSession
ClosedSession == [state |-> "closed", org |-> NotSet, scoped |-> FALSE,
                  committed |-> FALSE, result |-> "none"]

SessionsInit ==
    /\ held = [c \in Connections |-> NoSession]
    /\ setting = [c \in Connections |-> NotSet]
    /\ sessions = [s \in DbSessions |-> ClosedSession]
    /\ steps = 0

SessionStep ==
    /\ steps < MaxQueries /\ steps' = steps + 1
    /\ UNCHANGED <<service, cache, signals, measured>>

(* The setting is local to the transaction that makes it. *)
SetLocal(c, org) == setting' = [setting EXCEPT ![c] = org]
(* The end of a transaction: the connection goes back, without its setting. *)
EndTransaction(s) ==
    /\ held' = [c \in Connections |-> IF held[c] = s THEN NoSession ELSE held[c]]
    /\ setting' = [c \in Connections |-> IF held[c] = s THEN NotSet ELSE setting[c]]

GetDbSession(s, org) ==
    /\ sessions[s].state = "closed"
    /\ \E c \in Connections :
         /\ Free(c)
         /\ SetLocal(c, org)
         /\ held' = [held EXCEPT ![c] = s]
    /\ sessions' = [sessions EXCEPT ![s] = [ClosedSession EXCEPT !.state = "open",
                                              !.org = org, !.scoped = TRUE]]
    /\ SessionStep
RefuseSession(s) ==
    /\ sessions[s].state = "closed"
    /\ sessions' = [sessions EXCEPT ![s] = [ClosedSession EXCEPT !.result = "refused"]]
    /\ UNCHANGED <<held, setting>> /\ SessionStep
CreateSession(s, org) ==
    /\ sessions[s].state = "closed"
    /\ sessions' = [sessions EXCEPT ![s] = [ClosedSession EXCEPT !.state = "open", !.org = org]]
    /\ UNCHANGED <<held, setting>> /\ SessionStep

QueryRows(s) ==
    /\ sessions[s].state = "open"
    /\ \E c \in Connections :
         /\ held[c] = s \/ (Free(c) /\ s \notin {held[d] : d \in Connections})
         /\ held' = [held EXCEPT ![c] = s]
         /\ sessions' = [sessions EXCEPT ![s].result =
                           IF setting[c] = NotSet THEN "error" ELSE setting[c]]
    /\ UNCHANGED setting /\ SessionStep
CommitSession(s) ==
    /\ sessions[s].state = "open"
    /\ sessions' = [sessions EXCEPT ![s].committed = TRUE]
    /\ EndTransaction(s) /\ SessionStep
CloseSession(s) ==
    /\ sessions[s].state = "open"
    /\ sessions' = [sessions EXCEPT ![s].state = "closed"]
    /\ EndTransaction(s) /\ SessionStep

SessionsNext ==
    \E s \in DbSessions :
        \/ \E org \in DbOrgs : GetDbSession(s, org) \/ CreateSession(s, org)
        \/ RefuseSession(s)
        \/ QueryRows(s)
        \/ CommitSession(s)
        \/ CloseSession(s)

(* A query answers with the rows of the organisation its session was opened for
   or with an error, whatever connection it gets and whoever had it before; the
   error comes only to a session without a setting or after its commit; and no
   connection goes back to the pool with an organisation on it (get_db_session,
   the policies on app.current_org_id). *)
SessionsScoped ==
    /\ \A s \in DbSessions :
         /\ sessions[s].result \in {"none", "refused", "error", sessions[s].org}
         /\ sessions[s].result \in DbOrgs => sessions[s].scoped
         /\ sessions[s].scoped /\ ~sessions[s].committed => sessions[s].result # "error"
         /\ Cardinality({c \in Connections : held[c] = s}) <= 1
         /\ sessions[s].state = "closed" => \A c \in Connections : held[c] # s
    /\ \A c \in Connections : Free(c) => setting[c] = NotSet

-----------------------------------------------------------------------------
(* The cache.  A value is stored as JSON: a tuple comes back as a list, and what
   has no JSON is refused before Redis is asked; Redis refuses a TTL of zero. *)
Forever == -1     \* no expiry
Absent == "absent"
Encoded(v) == IF v = "tuple" THEN "list" ELSE v

CacheInit ==
    cache = [now |-> 0, steps |-> 0,
             redis |-> [k \in CacheKeys |-> [value |-> Absent, until |-> Forever]],
             last |-> [k \in CacheKeys |-> [value |-> Absent, at |-> 0, ttl |-> Forever]]]

Unexpired(entry) == entry.value # Absent /\ (entry.until = Forever \/ entry.until > cache.now)
CacheStep(c) ==
    /\ cache.steps < MaxCacheSteps
    /\ cache' = [c EXCEPT !.steps = @ + 1]
    /\ UNCHANGED <<service, sessionVars, signals, measured>>

(* last is what the caller of the last successful call said. *)
CachePut(k, v, ttl) ==
    /\ v # "object" /\ ttl # 0
    /\ CacheStep([cache EXCEPT
         !.redis[k] = [value |-> Encoded(v),
                       until |-> IF ttl = Forever THEN Forever ELSE cache.now + ttl],
         !.last[k] = [value |-> v, at |-> cache.now, ttl |-> ttl]])
CacheRefuses(v, ttl) == (v = "object" \/ ttl = 0) /\ CacheStep(cache)
CacheDelete(k) ==
    CacheStep([cache EXCEPT
         !.redis[k] = [value |-> Absent, until |-> Forever],
         !.last[k] = [value |-> Absent, at |-> cache.now, ttl |-> Forever]])
CacheTick == CacheStep([cache EXCEPT !.now = @ + 1])
CacheGet(k) == IF Unexpired(cache.redis[k]) THEN cache.redis[k].value ELSE Absent
ListKeys == {k \in CacheKeys : Unexpired(cache.redis[k])}

CacheNext ==
    \/ \E v \in {"text", "tuple", "object"}, ttl \in {Forever, 0, 1, 2} :
        CacheRefuses(v, ttl) \/ \E k \in CacheKeys : CachePut(k, v, ttl)
    \/ \E k \in CacheKeys : CacheDelete(k)
    \/ CacheTick

(* What a key gives, and whether it is listed, is what the last successful put
   since its deletion said, as JSON keeps it, until that put's own TTL has passed:
   an earlier TTL neither cuts a later value short nor keeps it, a refused put
   changes nothing (RedisStorageAdapter). *)
CacheTruthful ==
    \A k \in CacheKeys :
        LET put == cache.last[k]
            due == IF put.ttl # Forever /\ cache.now >= put.at + put.ttl THEN Absent
                   ELSE IF put.value = "tuple" THEN "list" ELSE put.value
        IN CacheGet(k) = due /\ (k \in ListKeys <=> due # Absent)

-----------------------------------------------------------------------------
(* One measured request after another, and several at a time.  An Exception is
   counted as a 500 and raised on; a cancellation is neither, and leaves only
   the gauge. *)
SignalsInit ==
    /\ signals = [active |-> 0, total |-> 0, errors |-> 0, observed |-> 0]
    /\ measured = [r \in HttpRequests |-> [at |-> "before", traces |-> <<>>, scopes |-> 0]]

SignalStep == UNCHANGED <<service, sessionVars, cache>>

EnterRequest(r, exempt) ==
    /\ measured[r].at = "before"
    /\ measured' = [measured EXCEPT ![r].at = IF exempt THEN "unmeasured" ELSE "inside"]
    /\ signals' = [signals EXCEPT !.active = @ + (IF exempt THEN 0 ELSE 1)]
    /\ SignalStep
(* A scope of trace_context with a timer of BrainSLI around the same block: its
   identifier, given or new, is the one of the records logged inside, and the
   one before it comes back when it ends. *)
EnterScope(r, given) ==
    /\ measured[r].at = "inside" /\ Len(measured[r].traces) < 2
    /\ measured' = [measured EXCEPT
         ![r].traces = Append(@, IF given = "" THEN "new" ELSE given),
         ![r].scopes = @ + 1]
    /\ UNCHANGED signals /\ SignalStep
LeaveScope(r) ==
    /\ measured[r].traces # <<>>
    /\ measured' = [measured EXCEPT ![r].traces = Front(@)]
    /\ signals' = [signals EXCEPT !.observed = @ + 1]
    /\ SignalStep

CountRequest(error) ==
    [signals EXCEPT !.active = @ - 1, !.total = @ + 1, !.errors = @ + (IF error THEN 1 ELSE 0)]
LeaveRequest(r, status) ==
    /\ measured[r].at = "inside" /\ measured[r].traces = <<>>
    /\ measured' = [measured EXCEPT ![r].at = status]
    /\ signals' = IF status = "cancelled" THEN [signals EXCEPT !.active = @ - 1]
                  ELSE CountRequest(status \in {"raised", "5xx"})
    /\ SignalStep

SignalsNext ==
    \E r \in HttpRequests :
        \/ \E exempt \in BOOLEAN : EnterRequest(r, exempt)
        \/ \E given \in {"", "t"} : measured[r].scopes < 3 /\ EnterScope(r, given)
        \/ LeaveScope(r)
        \/ \E status \in {"2xx", "5xx", "raised", "cancelled"} : LeaveRequest(r, status)

(* The gauge counts the requests that are inside at every moment, each request
   that ended otherwise than by a cancellation is counted once and as an error
   iff it was one, and every scope that was left was timed, whatever it raised
   (golden_signals_middleware, BrainSLI.timer). *)
ScopesLeft(r) == {r} \X (1..(measured[r].scopes - Len(measured[r].traces)))
SignalsAddUp ==
    LET At(places) == {r \in HttpRequests : measured[r].at \in places} IN
    /\ signals.active = Cardinality(At({"inside"}))
    /\ signals.total = Cardinality(At({"2xx", "5xx", "raised"}))
    /\ signals.errors = Cardinality(At({"5xx", "raised"}))
    /\ signals.observed = Cardinality(UNION {ScopesLeft(r) : r \in HttpRequests})

-----------------------------------------------------------------------------
OperationsTypeOK ==
    /\ service.graph \in AdapterStates /\ service.vector \in AdapterStates
    /\ service.writer \in {"none", "stores", "memory"}
    /\ service.inMemory \subseteq Entries /\ service.stored \subseteq Entries \union {"old"}
    /\ held \in [Connections -> DbSessions \union {NoSession}]
    /\ setting \in [Connections -> DbOrgs \union {NotSet}]
    /\ \A s \in DbSessions : sessions[s].state \in {"open", "closed"}
    /\ cache.now \in Nat /\ \A k \in CacheKeys : cache.redis[k].value \in {Absent, "text", "list"}
    /\ signals.active \in Nat /\ signals.errors <= signals.total
    /\ \A r \in HttpRequests :
         measured[r].at \in {"before", "unmeasured", "inside", "2xx", "5xx", "raised", "cancelled"}
=============================================================================
