# DIYU Agent: specifications, model checking, proofs

TLA+ specifications of the parts of this repository whose correctness depends
on the order in which things happen: concurrent conversation turns over one
event store, knowledge entries kept in two stores at once, idempotent writes and
approvals above them, calls to language models behind circuit breakers, the
services around them (memory, deletion, skills, accounts, limits, events, schema,
start and stop), the pages of the two browser clients, and the decisions that
one request passes. TLC checks each specification on small instances; TLAPS proves
the safety properties of turns, stores, providers, services and pages for every value
of the constants.

Paths below are relative to the Python package `src/` of the repository; those that
begin with `web/`, `admin/` or `migrations/` to `frontend/apps/` or to the repository.

## 1. Inventory

The backend is one asyncio process (FastAPI under uvicorn). Between two `await`s
a handler runs undisturbed; at every `await` any other handler may run. Shared
state is therefore of three kinds: PostgreSQL, Neo4j and Qdrant, which survive a
restart; and plain Python dictionaries, which do not. Nothing takes a lock.

| component | state | operations | interacts with |
|---|---|---|---|
| Conversation turns: `gateway/api/conversations.py`, `gateway/ws/conversation.py`, `brain/engine/ws_handler.py`, `brain/engine/conversation.py` | one task per POST or per WebSocket connection; metadata dictionary | load history, classify, run a skill or the LLM, append two events, run the memory pipeline, answer | event store, skills, LLM, memory, knowledge |
| Event store: `memory/events.py`, table in `infra/models.py` | `conversation_events`, unique (session, sequence number) | append (count, then insert), read in order | conversation turns |
| Knowledge double write: `knowledge/sync/fk_registry.py`, `knowledge/api/write_adapter.py`, the Neo4j and Qdrant adapters | nodes, vector points, node to vector mapping in memory | create, update, delete, mark pending | admin API, changesets, controlled writes |
| Controlled writes: `knowledge/api/write.py`, `knowledge/importer/changeset.py`, `memory/promotion/pipeline.py` | receipts by idempotency key, processed keys, proposals | write, process a changeset, propose, approve | double write |
| Memory items: `memory/items.py`, `memory/pg_adapter.py`, `memory/receipt.py`, `brain/memory/pipeline.py`, `memory/evolution/pipeline.py` | item versions linked by `superseded_by`, receipts | add, update, supersede, write observation with receipt | conversation turns, retrieval |
| Retrieval and context: `memory/vector_search.py`, `brain/engine/context_assembler.py`, `brain/budget/allocator.py`, `brain/context/truncation.py` | none | fuse rankings, assemble, allocate tokens, truncate | memory, knowledge |
| Deletion, outbox, tasks: `memory/deletion/fsm.py`, `infra/events/outbox.py`, `infra/tasks/celery_app.py` | deletion requests, events, task results | transitions, poll and mark, run and retry | each other by convention |
| Providers: `tool/llm/model_registry.py`, `skill/resilience/circuit_breaker.py`, `tool/resilience/retry.py` | circuit per provider, failure counts, clock | call along the chain, probe, open, close | conversation turns, skills |
| Token budget: `infra/billing/budget.py`, `gateway/middleware/budget.py` | budgets | check before, deduct after a request | gateway |
| Skills: `skill/registry/lifecycle.py`, `brain/skill/orchestrator.py` | definitions, implementations | register, change status, find, execute | conversation turns |
| Gateway: `gateway/sse/events.py`, `gateway/middleware/rate_limit.py`, `gateway/api/upload.py` | subscriber queues, request times, upload slots | subscribe, publish, admit, reserve, confirm | browsers |
| Accounts and access: `gateway/api/auth.py`, `gateway/app.py`, `gateway/middleware/`, `infra/auth/rbac.py`, `gateway/security/`, `brain/sanitizer/` | `users`, `org_members`; none in the checks | register, log in, check token, role, organisation, content | everything behind the gateway |
| Entity types and resolver: `knowledge/registry/`, `knowledge/resolver/`, `knowledge/graph/` | type table, graph, vectors | register and deprecate types, resolve a profile, apply schema, seed | conversation turns, double write |
| Schema: `migrations/versions/`, `infra/models.py` | tables, rows | upgrade, downgrade, insert, delete with cascades | every store in PostgreSQL |
| Operations: `main.py`, `infra/db.py`, `infra/cache/redis.py`, `gateway/metrics/` | adapters, sessions on a pool, cache, gauges | start, degrade, stop; open and commit; put and get; measure | all |
| Decisions of a turn: `brain/intent/`, `brain/persona/`, `skill/implementations/`, `tool/`, `infra/org/settings.py` | none | classify, choose, answer or fail, inherit settings | conversation turns |
| Web client: `web/lib/ws/connection.ts`, `web/app/`, `web/providers/AuthProvider.tsx` | socket state, unsent messages, timer; pages, token | connect, send, reconnect, dispose; ask, switch, fetch | gateway |
| Admin client: `admin/app/`, `admin/components/DataTable.tsx` | lists, selections, forms, timers | edit, publish, review, toggle, save, log in | admin API |
| Scripts: `scripts/` | none | checks of the repository's own documents | nothing that runs |

What makes these hard, and what each has to get right:

* **Turns.** Two requests of one session run at once, each between its read of
  the history and its two appends; an append counts rows in one statement and
  inserts in another; the engine swallows failures; the process can stop
  between the two appends. Right means: numbers without gaps or duplicates,
  a log to which messages are only added, histories that stay prefixes, turns
  that end.
* **Double write.** Two stores without a transaction, retries of a call that may
  have taken effect, bookkeeping in memory that is read before and written
  after an `await`. Right means: no vector without a node, no entry that is
  silently unfindable, at most one successful delete, vectors that match their
  nodes or are marked.
* **Controlled writes.** A key looked up before and stored after the write it
  guards. Right means: one node per key, and receipts and proposals that name
  nodes that exist.
* **Memory items.** Versions chained by two rows written together, but read
  before. Right means: one current version per item.
* **Deletion, outbox, providers, budgets, skills, gateway.** Small state
  machines whose callers interleave, stop half way or answer late. Right means:
  a claim held by one, a use that stays within its bound, a grant that was
  earned, an event once and in order.
* **Schema and operations.** Every cut of a migration, a bootstrap or a start
  leaves something; what is left must be whole, and a session must not see the
  rows of the organisation that used its connection before.
* **Pages.** One handler at a time, but answers, timers and socket events come in
  any order between clicks. Right means: what is shown or reported as saved is
  what was asked and sent, or a failure says why it is not.

`PROJECT.json` lists every component with its status, and the hazards that matter
most, each at its line with the properties that would catch it. Further ones, with
what covers them:

| hazard | covered by |
|---|---|
| `gateway/middleware/rate_limit.py:77`: the promised wait is truncated to whole seconds | `RateRespected` |
| `gateway/api/auth.py:116`: a login's two lookups, a membership that changes between them | `TokensAreEarned` |
| `gateway/api/upload.py:191`: an upload confirmed twice, or by another organisation | `UploadsConfirmedOnce` |
| `memory/deletion/fsm.py:157`: a purge that fails and is queued again, any number of times | `DeletionTrail` |
| `infra/cache/redis.py:45`: a value put again with another expiry | `CacheTruthful` |
| `memory/events.py:117`: the double's counter against the table's rows after a deletion | `TwinsAgree` |
| `gateway/metrics/golden_signals.py:93`: a cancellation between error count and gauge | `SignalsAddUp` |
| `migrations/versions/005_add_user_password_hash.py:34`: up and down in any order | `SchemaAsDeclared` |
| `knowledge/graph/schema.py:311`: a bootstrap cut, and begun again over what is there | `SeedSound` |
| `knowledge/registry/entity_type.py:166`: a type registered by two owners | `TypesOwned` |
| `brain/context/truncation.py:65`: equal priorities, equal names where tokens run out | `TruncationByPriority` |
| `infra/org/settings.py:64`: what stands below a lock | `ContentDecides` |
| `web/app/knowledge/page.tsx:64`: a late answer overwrites a newer one | `ShowsSelection` |
| `admin/app/knowledge/review/page.tsx:86`: a failed decision treated as done | `QueueTracked` |
| `admin/components/DataTable.tsx:58`: a selection that outlives its rows, under bulk actions | `EditorTruthful` |
| `admin/app/organizations/page.tsx:54`: a late answer and the form of another organisation | `OrgsAsSaved` |
| `admin/app/permissions/page.tsx:103`: toggles while a save is under way | `MatrixSaved` |
| `admin/app/settings/page.tsx:58`: overlapping timers | `FlashPasses` |
| `admin/app/login/page.tsx:36`: a code kept for another account | `LoginTruthful` |
| `knowledge/sync/fk_registry.py:266`: `get_pending_sync` lists nodes deleted meanwhile | none: a leftover entry is harmless to the stores, nothing reads the list |
| `knowledge/api/write.py:124`: the receipt of a deleted node answers a repeated write | none: what a repeat should answer then is nowhere said |
| `tool/llm/model_registry.py:152`: a half open circuit lets every call through | none: `Breaker` allows it, for the code does |

## 2. Modules

| module | models |
|---|---|
| `SessionLog` | what the event store promises: one log per session, messages only added at the end, none twice, no answer before its question |
| `ConversationTurns` | turns by POST and WebSocket over the event store |
| `MCConversationTurns` | the connection table of the checked instances |
| `ConversationTurns_proofs` | theorems about `ConversationTurns` |
| `KnowledgeSync` | admin and changeset requests over Neo4j and Qdrant |
| `KnowledgeSync_proofs` | theorems about `KnowledgeSync` |
| `KnowledgeWrite` | idempotent writes, changesets and approved proposals over the graph |
| `MCKnowledgeWrite` | the model values and the symmetry of the checked instances |
| `KnowledgeWrite_proofs` | theorems about `KnowledgeWrite` |
| `Breaker` | what a circuit breaker promises |
| `ModelRegistry` | overlapping calls along a chain of providers, each behind a circuit |
| `MCModelRegistry` | the chain of the checked instance |
| `ModelRegistry_proofs` | theorems about `ModelRegistry` |
| `MemoryItems` | versions, receipts and retrieval of memory items |
| `DeferredWork` | deletion machine, outbox with pollers, background tasks |
| `Skills` | the skill registry under conversations that resolve, wait and execute |
| `Accounts` | registration and login, statement by statement |
| `Limits` | rate window, token budget, negation fuse |
| `Delivery` | event streams with their browsers, uploads |
| `Schema` | migrations, ORM models, rows and their deletion |
| `Entities` | entity types, the resolver over changing stores, schema and seed of the graph |
| `Operations` | start and stop, database sessions on a pool, cache, golden signals |
| `Twins` | three stores kept in memory beside their tables, and the graph and index |
| `MCServices` | composes the ten above |
| `MCServices_proofs` | theorems about `DeferredWork`, `Skills`, `Accounts`, the entity types, `Delivery`, `Limits` and the golden signals |
| `Stores_proofs` | theorems about `MemoryItems`, the resolver, sessions, cache, `Twins`, `Schema`, the seed and the start of the service; the types of all services |
| `Lists` | lists said by places: what stands at some of them, a list sorted, a sum |
| `WebClient` | the reconnecting socket, chat page, knowledge page, token |
| `AdminClient` | editor, review queue, organisations, permissions, timed messages, uploads, login |
| `Retrieval`, `Access`, `Content`, `Support` | what one call decides, as operators: context and ranking; gateway, roles and filters; persona, intent, skills, tools, settings; shared helpers |
| `MCDecisions`, `MCPages` | ask those operators bounded questions; compose them with the pages |
| `Decisions_proofs` | theorems about `Retrieval`, `Access`, `Support` and the turns, parameters and tools of `Content`, for inputs of any size |
| `Pages_proofs` | theorems about `WebClient` and `AdminClient`, and about the rest of `Content` and the markup of `Support` |

### ConversationTurns

A turn is an element of `Turns`, numbered in the order of arrival. `pc[t]` says
which stretch of code comes next; a stretch ends where the code awaits:

| action | code |
|---|---|
| `LoadHistory`, `LoadHistoryFails` | `send_message`, or the receive loop and `handle_message` up to `get_session_history` |
| `StreamStart` | `sender.send(stream_start)` |
| `Think` | steps 1 to 6 of `process_message`; for the store they answer or raise |
| `CountEvents` | the `SELECT count(*)` of `append_event`; `created_at` is computed right after it |
| `InsertEvent`, `InsertRefused`, `AppendFails` | the `INSERT` and `COMMIT`; refused by the unique constraint; failing, with or without effect |
| `Reply` | the two sends, or the response of the POST |
| `Disconnect`, `EndConnection`, `Crash` | the client, the end of the receive loop, a restart |

`InsertRefused` and `AppendFails` go to `reply`: the `except` around both appends
skips what is left of them and the turn is answered all the same. A WebSocket
connection reads its next message only after the handler of the last one
returned (`MayBegin`); POSTs, and different connections, know no order.

The rows hold the turn and role instead of text. `clock` gives every append its
own `created_at`; equal timestamps would need two counts within a microsecond.
The history limit is left out: `get_session_history` passes none.

### KnowledgeSync

A request is an element of `Reqs`, which also names the node and the vector
point it creates (the code draws a UUID for each). `pc[r]` is the store call the
request awaits. `Serve(r)` is the store executing it and fixing the answer; the
`After...` actions are the code from the answer to the next call. Both sides of
a call are separate steps, so other requests run before the store acts and
before its answer is used, and a request may be cut off in either half.

`graph[n].val` is the set of requests whose properties were merged into node `n`;
`points[p].val` is the set its embedding was computed from. A vector is fresh
when the two are equal. `mapping` is `FKRegistry._mappings`, lost on `Restart`.

| action | code |
|---|---|
| `Begin` | the six ways in: `create_entry`, `update_entry` (also status and review), `delete_entry`, and the create, update and delete entries of a changeset |
| `AfterCreate`, `AfterUpsert`, `UpsertRaises`, `AfterMark` | `write_with_fk` and the same loop in `update_with_fk` |
| `AfterGetForUpdate`, `AfterSet` | `update_entry`, `update_with_fk`, `_process_update` |
| `AfterGetForDelete`, `AfterDeletePoint`, `AfterDeleteNode` | `delete_entry`, `delete_with_fk`, `_process_delete` |
| `NotFound`, `CallRaises` | 404s, false returns and ValueErrors; exceptions of a store |
| `Restart` | the process stops; stores stay, memory goes |

The ghost `disturbed[n]` records whether requests on `n` overlapped, failed or saw
a restart, so that properties of undisturbed use can be stated next to those
that hold always.

### KnowledgeWrite

A task is one call of `KnowledgeWriteService.write`, `ChangeSetProcessor.process`
or `PromotionPipeline.approve_proposal`; `todo[t]` holds its entries, creates before
deletes, as `process` orders them. A task whose `pc` is "ready" holds the event
loop (`LoopFree` guards everything else that runs in the process); it lets go in
the call of the graph, which is one step here because these callers pass no
embedding: without one, `write_with_fk` is a single `CREATE`, and the whole
interplay with Qdrant is `KnowledgeSync`'s.

| action | code |
|---|---|
| `BeginWrite`, `BeginImport`, `BeginApprove` | the three ways in; an approval after the window expires its proposal there and then, and one by a pipeline without a writer (`Decide`) approves it with nothing written |
| `SkipRepeated` | the entry's key is in `_processed_keys` |
| `ReturnCached`, `KeyConflict`, `Invalid` | the three early ends of `write`: same key and content, same key and another content, missing property |
| `CallCreate`, `CreateNode`, `AfterCreate` | the awaited `write_with_fk`, the graph, and the receipt stored after it |
| `CallDelete`, `DeleteNode`, `AfterDelete` | `_process_delete` |
| `CreateRaises`, `DeleteRaises` | exceptions, before or after the effect |
| `Propose`, `WindowPasses`, `Restart` | a proposal is made, its seven days pass, the process restarts |

Contents are `good` or `bad` (no required property). Left out: entity types (one
writable type; a `PermissionError` changes nothing), updates of a changeset (in
`KnowledgeSync`), audit counters, the lists of promotion receipts, and the
similarity check, which only decides whether a proposal is made; the sanitizer, which
decides its text, is in `Access`.
`_processed_keys` is kept per key, receipts per organisation and key, as in the
code; so a changeset may skip an entry whose key another organisation used.
`PromotionPipeline` takes its writer as an option (default `None`), so whether a
proposal's pipeline has one is chosen when it is proposed (`writes`). `ApprovedIsWritten`
says what each of the two owes: with a writer, approved means written as proposed;
without, approved says nothing of the graph, and the proposal names no node.

### ModelRegistry

`pc[c]` says whether caller `c` awaits the adapter, `at[c]` for which place of the
chain. Everything from one outcome to the next await is one step, as the event
loop makes it: `Fail` records the failure and goes on along the chain (`Walk`) until a
circuit lets the call in or the call raises. `live[c]` is false once `Reset` has
replaced the circuit object that the call fetched before its await; its outcome
then changes nothing. Instead of `last_failure_time` the model keeps the ticks since
then, up to `Cooldown`, which is all that `_is_available` compares.

| action | code |
|---|---|
| `Begin` | `call` up to its first await, or to the RuntimeError when every circuit is open |
| `Answer`, `Fail` | the adapter returns or raises; `_record_success`, `_record_failure`, the rest of the loop |
| `Query` | `is_provider_available`, which half-opens a circuit as a side effect |
| `Reset` | `reset_circuit` |
| `Tick`, `Flip` | time; a provider breaks down or recovers |

`Breaker` has no states and no time stamp: it counts failures since the last
success and, from the threshold on, shuts for a cooldown after each. The
refinement maps a circuit to it by `WaitOf` and the calls whose outcome still counts
by `OutAt`, for one provider, `Focus`, which may be any. So the three states of the
code carry no more than count and clock do. A half open circuit lets every
concurrent call through: the comment in `_is_available` speaks of one probe, and
nothing counts probes. The breaker of the skill layer, a class without callers
yet, does the same. The model name is left out; note that the engine passes
one to `call`, and a name passed in is used for the fallback providers too.

The ghost `good[c]` holds the providers that let calls in when the call began and
have been up since; it is what failover owes the caller.

### The services

`MCServices` explores one part at a time: `part` is chosen at the start, the actions
of that part move, and the variables of the others keep their initial values. The
parts share no state in the code (the two that do, limits and skills with turns,
meet only in an answer), so their product would add interleavings that nothing
tells apart; each property is asked of the part it is about. Inside a part the actors
interleave freely:

* **`MemoryItems`**: `Workers` requests, cut at every statement: `update_item` reads,
  then commits successor and retirement together; `hybrid_search` is two queries
  and a third by id; the write pipeline commits an item and then its receipt, and
  either commit may raise before or after it took effect. So `ReceiptsMatchReports`
  says: what is reported as created has its receipt, what has a receipt is reported,
  nothing both ways; an item reported as an error may be there, with its receipt.
  Both implementations, `store = "pg"` and `"memory"`. `VersionChains` says what racing
  updates leave: chains may fork (two rows of version 2), and no row loses its
  successor, owner or place; in memory, where `chains` is kept beside the items, the
  history has every version and the user's active items its last one only. `RetrievalScoped` says of an answer that it belongs to
  the user and organisation asked for and was current when the search began.
* **`DeferredWork`**: `DeletionTrail` (no purge without a tombstone and an archive, and a
  trail without gaps however often a purge fails), `ClaimsExclusive` (two pollers
  that fetched the same events; a poller may let go of what it holds without
  settling it).
* **`Skills`**: a caller resolves, awaits knowledge and executes while the registry
  changes: `ActiveSkillsRun`. **`Accounts`**: two sessions race through the statements
  of registration and login: `TokensAreEarned`.
* **`Limits`**: `RateRespected` (any window, not only those that begin with a request;
  and a client that waits as long as it was told, plus the second that the truncation
  cuts off, is let in), `BudgetHolds` (several requests that passed the check before
  the first was charged), `FuseHolds`.
* **`Delivery`**: `StreamsInOrder` relates what was published since a subscription to
  what is queued, sent and received, with generators that start late, clients that
  go and a shutdown; `UploadsConfirmedOnce`.
* **`Schema`**: each migration is a function of tables to tables; rows are inserted,
  superseded and deleted between migrations. `SchemaAsDeclared` compares any
  revision with the one reached from nothing and the last with `infra/models.py`;
  `RowsConnected` follows every reference, also `superseded_by`, which has no
  foreign key.
* **`Entities`**: `TypesOwned`, `BundleScoped` (nodes and points change between the
  resolver's queries) and `SeedSound`: a bootstrap is cut at any statement and begun
  again any number of times, over the same data or over demo data with new ids. A
  cut may leave a graph whose relationships are half made; what the property claims
  is that vectors come only after all of them, that a repeat over the same data is
  stopped by the constraint of its first label before it makes anything, and that
  nodes exist twice only under the one label whose constraint could not be made.
* **`Operations`**: `ServiceWhole`, `SessionsScoped` (the setting ends with its
  transaction, the connection goes on), `CacheTruthful`, `SignalsAddUp`.
* **`Twins`**: the same calls to double and table: `TwinsAgree`, and how they part once
  a cascade has deleted under the table. `EntriesAgree` puts the knowledge writer's
  own dictionary beside graph and index: the entries an organisation finds, their
  merged properties, the length of a page, and the text each point was embedded from.

### The pages and the decisions

`MCPages` does the same for the pages: clicks, answers, failures, timers and socket
events of one page interleave. `WebClient` numbers every socket, question and fetch,
so that an answer can be related to what asked for it. `SocketHolds` says where each
message is, pending, on the wire or lost, and, however often `connect()` is called, that
the connection never comes to rest while it has attempts left (`NeverIdle`); while the
page calls it once, also that one socket lives, that the state tells the truth and that
no queued message is lost (`OneConnection`). `AnswersInPlace` compares what is on the
screen with the conversation that is selected; `mixed` records that another one was
selected over it, after which messages and late answers stand under the wrong one.
A request outlives its page (`left`), and `SessionsApart` says which token its 401 can
meet: after a login the new one, until the new document is loaded. `ShowsSelection` is
the knowledge page's. `AdminClient` keeps page and server side by side: `EditorTruthful`,
`QueueTracked`, `OrgsAsSaved`, `MatrixSaved`, `FlashPasses`, `FilesTruthful`,
`LoginTruthful`. Each states when the page is right, exceptions included that
the code makes (a failed POST of a review, a late list, a message hidden early); the
exceptions are listed under the observations below.

The part "questions" is the pure code: `MCDecisions` puts a bounded set of inputs to
each operator, and the answer is compared with a definition of another form: a
fused ranking with the order its scores impose, an allocation with its sum (of
any total, also one below the floors), a
truncation with priorities, the prompt with what the search was rewritten from, a gateway answer with the set of the checks it had to
pass (and, where a handler crashed, without the headers and the trace that the
middleware would have added), an inherited setting with the nearest value above no lock, an escaped text with what
a browser would read.

## 3. Runs

| run | instance | shows |
|---|---|---|
| `turns` | 2 turns, 2 sessions, 1 connection; 2 failures, 1 restart; fair | types, numbering, the refinement of `SessionLog`, and that turns end |
| `turns_three` | 3 turns, 1 session, 1 connection; 1 failure | time order, prefixes, what a later turn sees, the serial connection |
| `turns_race` | 2 turns of one session, no failure | `PersistedBeforeReply` fails: see findings |
| `knowledge` | 3 requests of all six kinds; 2 attempts per upsert, 3 failures, 1 restart | the seven invariants |
| `knowledge_end` | 2 requests, the real 3 attempts, 4 failures, 1 restart; fair | every request ends |
| `knowledge_stale` | 3 creates and updates, nothing fails | `SyncedMeansFresh` fails |
| `knowledge_orphan` | 3 creates and deletes, a restart, nothing fails | `DeleteCascades` fails |
| `writes` | 3 tasks, 2 organisations, 1 key, 1 proposal, changesets of 2 creates and a delete; 1 failure or restart | the six invariants |
| `writes_expired` | 2 tasks, nothing fails | `ExpiredNotWritten` fails |
| `registry` | 2 callers, 2 providers, the threshold of 3, a cooldown of 2 ticks; fair | circuits in step, failover, the fallback's circuit as a `Breaker`, calls end, a recovered primary is used again |
| `services` | the parts of `MCServices`: 2 workers, pollers, callers, sessions, clients, connections; 3 items, 3 events, 4 tasks, 4 rows, 8 migrations | its seven invariants on top of the types |
| `pages` | the parts of `MCPages`: 3 sockets, 2 messages, 2 calls of `connect()`, 3 questions and fetches, 2 logins to the web client and 4 to the admin's, 3 entries; and every question of `MCDecisions` | its four invariants |

**Bounds.** Two turns are enough for every race of an append, because a race
needs one turn to insert between the count and the insert of another, and each
turn appends twice; two sessions show that they do not disturb each other; two
failures can hit both appends of a turn or one of each turn. A history that
goes wrong takes a third turn: one that holds a stale count, one that stores
its messages meanwhile, and one that reads them before the stale insert. Three requests are
a creation with two requests that race on its entry, which is what every
guard of the registry is about; 3 failures exhaust an upsert (2 attempts) and
then fail the marking. `knowledge_end` keeps the constant `_MAX_RETRIES = 3` of the
code; the safety run uses 2, the loop being the same. In `writes` two tasks race
on a key and the third meets what they left in the tables; a changeset that
repeats a key within itself needs two creates. Organisations are symmetric. In `registry` two callers overlap on a
provider, one with an outcome that comes late, while the other drives the circuit
through all its states; two ticks tell an elapsed cooldown from one under way. In
`services` every race is one of two actors over one row, event, skill, address,
budget or connection; three items hold a fork (one row, two successors) and
the row of another owner; four rows hold an organisation, a user and two versions of an item;
eight migrations go up to the last and back past those that have rows. A window
of 2 requests and 20 half seconds holds the request that leaves while another
enters, and the truncated second. In `pages` three sockets are a first one, the one
a second `connect` opens and the one a timer opens; two logins let the request of one
session be answered in the other; three fetches let the middle one be
overtaken by both. The real constants of the code (threshold 3, RRF's 60, token
ratios, page sizes where they matter) are kept.
Every bound is a constant
in a guard (`MaxFaults`, `MaxCrashes`, `MaxRestarts`, `MaxCreates`). Deadlock is not checked
where all requests may be over; it is in `registry`.

**Fairness.** The event loop runs every ready task, and each awaited call returns
or raises (drivers have timeouts), so every turn and request is weakly fair.
In `registry` the adapter passes a timeout to LiteLLM and re-raises, so each call
comes back, and time passes. Nothing makes the environment act: arrivals,
disconnects, failures, recoveries and restarts are never fair; `PrimaryRecovers`
assumes what it needs, that the primary stays up and calls keep being made.

### Findings

* `turns_race`: two POSTs of one session count the same rows. The second
  insert is refused, the engine swallows the exception, and the client gets an
  answer of which nothing was stored; `brain/engine/ws_handler.py:85` says the
  turn is persisted by then.
* `knowledge_stale`: two overlapping updates leave a node that merged both, marked
  synced, with a vector computed from the one that wrote last; the design
  (`docs/architecture/02-Knowledge层.md`, section 7.3) asks for a version beside
  the vector, which the code does not write.
* `knowledge_orphan`: after a restart the registry no longer knows which vectors
  belong to a node, so a delete leaves them; the same section promises the
  cascade.
* `writes_expired`: `approve_proposal` looks at the time before anything else. Approved
  once more after the window, a proposal that an earlier approval wrote (or is
  writing) turns expired; section 7.2 of the same document says that an expired
  proposal is not written.

### Observations

Met while modelling; the models contain them, and the properties are stated
around them. They are not runs because no document or test says otherwise in so many
words, or because they are about wiring.

*Backend.*
* `gateway/api/upload.py:145` builds `hour + 1` and raises in the last hour of a day.
* A client that leaves before its event generator starts leaves a subscription
  behind (`gateway/sse/events.py:149`); the queues have no limit.
* Two registrations of one address: the loser gets a 503 (constraint), the later one a 500
  (`ConflictError` has no handler of its own).
* `get_db_session` is used nowhere, though the docstrings of four stores leave the
  RLS setting to it; within it, the setting is gone after a commit.
* `process_message` gives the orchestrator no `params`: both built-in skills fail their
  validation and fall back to the model. `main.py` passes no receipt store.
* `ContextAssembler` reads `content` where the resolver's contents have `text`. The
  gateway sets no `org_chain`, so an organisation's own nodes are found only when shared,
  and "brand" nodes of every organisation are.
* A degraded start clears the stores of the writer, not those of the resolver.
* Two knowledge entries are what two overlapping writes of one key leave, or a write that
  raised after it took effect and is repeated, or a restart between two writes
  (`knowledge/api/write.py:121`, `:143`, `:80`); `OneNodePerKey` excuses these and nothing else.
  A changeset update leaves the vector of the old properties, and when the marking of a
  node fails after its last upsert did, the node stays "synced" without a vector and the
  caller gets the exception.
* `approve_proposal` without a writer sets "approved" with nothing written
  (`memory/promotion/pipeline.py:259`, `:287`), as `tests/unit/memory/test_promotion.py:131` expects.
* A bootstrap begun again over the same data stops at its first node, which the constraint
  refuses, and so completes nothing; over demo data, which is generated with new ids,
  it makes a second demo graph beside the first.
* `BudgetAllocator` exceeds a total whose rest is below its floor of 128 (100 gives 153);
  `FixedPriorityPolicy` keeps its grants by name, so equal names share one.
* A review sets no status back: approved and rejected items return to the queue.
* Error responses made before the CORS middleware carry none of its headers. The
  comment at `gateway/app.py:191` says "Security headers applied to ALL responses"; an
  exception that no handler takes escapes `jwt_auth_middleware`, and that 500 has
  neither these headers nor `X-Trace-ID`.
* Migration 006 enables row level security without forcing it, unlike the others;
  deleting an organisation takes its "immutable" audit events with it.
* `create_relationship` creates nothing and says nothing when an end is missing.
* `sanitize_content` of a promotion knows ten digit phone numbers and sixteen digit cards only;
  what `PatternSanitizer` masks besides goes into a proposal.
* Confidence decays from `last_validated_at` also when that is the older time;
  redaction does not enter lists; a cancelled request is not counted.
* Doubles in memory never learn of cascades; an author is a property of an entry in the
  graph and not in memory; for the empty type the graph lists everything and memory nothing (`Twins`).
* Libraries that nothing wires: the content check, sanitizer, truncation and
  allocation, organisation context, vector engine in memory, type registry, S3 adapter,
  golden signals, structured errors, retry, the controlled writes.

*Clients.*
* `web/lib/ws/connection.ts:7` promises "Message queue during disconnect (no message loss)".
  What is queued is not lost while `connect()` is called once; a message sent into a
  socket that is closing, before its close event, is dropped (line 98), and what is
  queued when the attempts are used up stays queued for ever. A second `connect()` lets a late
  `onopen` flush through a socket that is still connecting (it throws, and the message
  it had taken from the queue is lost) or, after `disconnect()`, loop.
* The chat page keeps the messages of the conversation it leaves, and puts a late answer
  below them (`web/app/chat/page.tsx:146`). The 401 of a request whose page was left removes
  whatever token is stored (lines 91 to 94), between a login and the new document that of
  the login. The knowledge page shows whichever answer came last.
* The review page treats a failed POST as done, and an answer clears the selection that
  was there when its request began. The form of the organisations is cleared by
  late answers. Overlapping timers hide "saved" early.
* `DataTable`: the selection outlives search, paging and its rows; "all" compares sizes.
* An upload whose callback throws is shown as failed at 100 %.
* `error-reporting.ts` lower-cases a key before it looks for `apiKey`: never redacted.
* The admin login keeps a code when the account is changed; the permissions page
  reads another token than the login stores; the routes the admin pages call for
  organisations, users, audit, permissions and settings do not exist here. The login's
  does (`gateway/api/admin/auth.py`, in `Accounts`) and never asks for a second factor,
  for which the page is ready.

## 4. Proofs

`ConversationTurns_proofs` proves, for any sets of turns, sessions and
connections and any number of failures and restarts:

* `TypeCorrect`, `Contiguous` (`SeqContiguous`). The numbering is not inductive
  alone: that the next number is free, and is exactly the next one, needs that
  the table is finite, that no two rows of a session share a number, and that a
  turn about to insert counted no more rows than there are now
  (`CountedWithinReach`). A stale count then names a number that is taken, and
  the constraint refuses it; a count that still holds names `n + 1`.
* `HistoryPrefix`: from contiguity, rows that are inserted get numbers above any
  number a turn has read.
* `TimeOrder`: strengthened with the facts that no row or pending append has a
  time the clock has not reached, and that a pending append whose number is
  still free counted after every row of its session was timed.
* `SeesAnswered`: an answered turn inserts no more.

`KnowledgeSync_proofs` proves one inductive invariant `Inv` for any requests,
attempts, failures and restarts, whose parts are: which calls a kind of request
can await and what it then holds (`CallsOf`), which point a request may write
(`Ownership`), that calls are made on nodes that exist or existed (`Existence`),
that a pending mapping or a marking under way agrees with the graph (`Marking`),
that a created entry is searchable or on its way (`Search`), and that a node has
one successful delete (`Winners`). `GraphFirst`, `PendingIsMarked`,
`CreatedIsSearchable` and `DeletedOnce` follow.

`KnowledgeWrite_proofs` proves all six invariants of the run for any tasks,
organisations, keys, proposals, failures and restarts. Its actions fall into
eight kinds of step (`Steps`), and each part of `Inv` is proved against the kinds.
The parts that carry the argument: no id is drawn twice (`IdsBehind`); receipts and
processed keys name nodes that exist (`ReceiptsTrue`, `ProcessedTrue`); a node whose
writer has not resumed is known to nobody (`Unanswered`); a receipt whose node some
changeset reports has its key among the processed ones (`Claimed`), which is why a
second changeset skips it; and, for a pair of organisation and key that is not
excused, there is one writer, it found no receipt, and every node has a receipt
or a writer about to store one (`OneWriter`, `NoReceiptYet`, `Receipted`). For
`ApprovedIsWritten` a task that approves must be of a pipeline with a writer, for the
other kind of approval is over in one step and calls nothing.

`ModelRegistry_proofs` proves the three invariants of the run and the refinement of
`Breaker`, for any callers, chain, threshold and cooldown. `RaisedInNeed` needs
`GoodAhead`: the providers owed to a call are up, would let it in, and lie at or
behind its place in the chain. The refinement (`BreakerCorrect`) goes action by
action; `CircuitsAgree` supplies that a failure which leaves a circuit closed left it
below the threshold, and the chain naming each provider once that a failing
call does not enter the same circuit in the same step.

`ConversationTurns_proofs` has two more. `SerialKeeps` (`SerialConnectionKeepsEvents`):
of the turns of one connection at most one has begun and not ended, and its session
is used by no other connection, so what it counted is what it inserts behind
(`SerialInv`). `LogImplemented` (`ImplementsLog`): the rows of a session, which are
numbered without gaps, are a sequence, and an insertion is `Log!AddMessage` on it;
every other action leaves the rows alone (`MessagesInv`).

`KnowledgeSync_proofs` has `RegistryIsExact` (`PointsTracked`) and `VectorsAreFresh`
(`FreshOrPending`). Both speak of nodes that nothing disturbed, so both need that
such a node is used by one request at a time and that this request knows of it what
the stores have (`Bookkeeping`); then a node's point is the one mapped to it or the
one its only request is about to map (`Tracking`), and its vector was computed from
its properties, or it is marked, or its request carries the merged properties to the
next call (`Freshness`).

**The services.** `PartMoves` is shared by all: a step moves one part and leaves the
variables of the others alone, so that each part has an invariant of its own.

* `DeferredWorkHolds`. `DeletionInv` adds to the trail that each state but the first
  is the end of an entry and each entry the beginning of the next, and what lies
  behind the state reached. `OutboxInv`: an event that is processing is held by one
  poller, and what a poller saw and has not claimed it does not work on.
* `GrantsAreKept`. `SkillsInv`; `AccountsInv`, which says for each of the places of a
  request what it holds: a user that exists, an organisation of that user, a role that
  was granted in it; `TypesInv`, which relates each type to its last change in the log.
* `AllDelivered`. `StreamsInv` (`Flows`): from its subscription on, what a stream was sent
  followed by what is queued are consecutive events of its tenant up to the last one
  published, as long as its queue is registered; and what a client got rises.
  `UploadsInv`: an upload is confirmed at most once, by its owner.
* `UseStaysBounded`. `RateInv`: the window is what was admitted within the last minute,
  for entries that expire expire for ever, and the promise made to a refused client is
  the time its oldest entry leaves, rounded down (`RoundedDown`, from the definition of
  integer division). `BudgetInv`: the sum of receipts grows by what is
  deducted (`OneMoreReceipt`). `FuseInv`. `SignalsInv`: the gauge is the number of requests
  inside, by the cardinality of that set.
* `AnswersStayScoped`. `ReadsInv`: what a search read stays true of the rows until it is
  used, since rows keep their owner and successors only appear (`Grows`). `SessionsInv`: a
  connection carries the organisation of the transaction that is open on it and of
  no other. `QueryInv`: a node found is of the profile asked for and visible to the
  organisation asking, at the time it was found.
* `MemoryStaysKept`. `ChainsInv`: in memory the chain of a root is numbered from 1 and links
  neighbours. `CacheInv`: a key has what was put last, or nothing. `TwinsInv`: index, counter
  and log of the doubles against the rows, for as long as nothing was deleted under them.
  `EntriesInv`: dictionary, graph and index have the same entries; that a page is sorted
  and complete in each rests on `SortedListsAll`: the rank of an element is a bijection.
* `SchemaKept`. `SchemaInv`: the tables are those of a fresh database at this revision
  (`UpIsFresh`, `DownIsFresh`), and every row has its table, and its required references
  name rows of the table they refer to. `SeedInv`: what the present run made is a beginning of the
  list, each relationship of the list has its ends among the nodes (`DemoFits`, `DiskFits`), and a
  run gets past a node that earlier runs made only where the constraint of its label is the missing one.
  `ServiceInv`: what each phase of a start has built.

**The pages.** `Pages_proofs` proves `ClientHolds`, with `PagesMove` in the role of
`PartMoves`, for any number of sockets, chats, questions, entries, organisations, files
and clicks.

* `SocketInv`. `InOnePlace`: a message is pending, on the wire or lost; five lemmas say
  how `send`, a flush, its failure and a drop keep it so. `OneSocket`: while `connect()` was
  called once, all sockets but the newest are closed, and a timer waits only
  when none lives; that an open state has nothing queued is why a flush loses nothing.
  `GoesOn`, for any number of calls: what a connection waits for.
* `ChatInv`: an answer that is on its way carries the number of its question, and the
  messages shown are of one conversation (`AllOf`), the selected one, until another is
  selected over them; a request that is out is of the session stored, or, after a login,
  of an older one (`LeftOf`).
  `BrowseInv`: what is shown is the last answer that came, and what is loading is in flight.
* `EditorInv`: a bulk request that was answered took effect, removal is for ever, and only
  what the last bulk action changed is ahead of what is shown (`UpToDate`), as long as
  actions follow each other and none failed. That filtering keeps the order, and each
  entry once, is `KeptListsAll`, again by rank.
* `ReviewInv`: each answer that arrives was given since the visit it belongs to. `OrgsInv`
  (`Balanced`): the server has what is listed, less what was just deleted, plus what was
  just created. `MatrixInv`, `FilesInv`, `FlashInv`, `LoginInv`.

**Types.** `ServicesTypesKept` (`ServicesTypeOK`) puts the invariants of the parts together. A type
with a bound in it (the numbers of items, events and publications, the clock) needs
that the guard which stops the growth holds wherever it grows, and a counter that
goes down, that it was above zero.

**The decisions.** What is computed in one go has no history, so an invariant
says no more than its run; what is proved is each decision for inputs of any size, and
`AccessIsRight` (`AccessDecides`), `RetrievalIsRight` (`RetrievalDecides`) and `ContentIsRight`
(`ContentDecides`) follow from them, action by action. The last, and the theorems it needs
from `EveryPersonaFits` on, are in `Pages_proofs`, the others in `Decisions_proofs`.

* `EveryRequestGuarded`, `EverySocketGuarded`, `EveryTextFiltered`, `RolesAreOrdered`: tokens,
  roles, paths and budgets of any names, texts of any length. The idempotence
  of the sanitizers goes word by word: what they write is no word they take.
* `EveryLabelFew`: by the last part of a path that is not empty (`PathEnds`), two paths with the
  same parts up to identifiers have one label (`SameLabel`). `EveryAuditFiltered` and the
  lists of the pages rest on `ChosenListsAll` and `ChosenTwice`: what is chosen of a list keeps
  its order, and choosing twice is choosing once. Both come from `NthIsNth`: of a
  finite set of numbers, the one with n below it is one and only one.
* `EveryRecordSafe`, `EveryBatchReported`, `EveryDecayOrdered` (up to four half-lives, for the prover
  knows powers of literal exponents only), `EveryHeaderFits`, `EveryRetryBounded`,
  `EveryReportSafe`, `EveryTurnHolds`, `EveryParamChecked`, `EveryToolGuarded`,
  `EveryAllocationWhole` (any total, any need), `EveryContextComplete`.
* `EverySearchFinds`, `EveryFusionFair`: sorting goes by the number of places ahead of a place, which
  is a bijection (`PlaceIsPlace`), so a sorted list has what the list has and falls along its
  key (`SortedHas`, `KeySorted`). Scores are fractions; that they are comparable as numbers are
  is `FractionsKey`. That an item in both lists stands before one that is in one list only holds up
  to rank 61 and not beyond (`BothWorthMore`: `2 / (60 + r) > 1 / 61` for `r` up to 61), so the
  theorem says lists of up to 61 items.
* `EveryTruncationByPriority`: what is left of a budget is defined by the loop of the code
  (`Remaining`); that this has a solution, and only one, is `RemainingIs`, by the shortest list on
  which two would differ. A sum is the number of units it counts, so it does not depend on
  the order (`CountMoved`), and what is given adds up to the budget or to what is asked
  (`TakenWhole`).
* `EveryRewriteKeeps`: the greatest of a set of places are the last of it (`LastOfAll`).
* `EveryPersonaFits`, `EveryMessageKept`, and `EverySelectionBest`: a list sorted by a key and cut keeps
  the best (`CombinationsSelect`). `EveryPromptHolds`: what the model reads of the history is its end, and the
  search is made from words of that history (`RewrittenFrom`).
* `EveryMarkupHarmless`. A replacement lays out the text with an entity behind each character replaced
  (`ReplaceLays`). Reading a text back after "&" was replaced gives the text (`AmpersandEscaped`); each of
  the other four leaves unchanged what is read back (`CharacterEscaped`), and brings back nothing that
  went before (`CharacterGone`). That "&" goes first is what `AmpersandEscaped` rests on.
* `EveryMeteringWhole`: sums over the places of a list, split by owner (`TotalByOwner`), and two sums over the
  same places are one (`CountPlus`).
* `EverySettingsLocked`: `InForce` says in one go which organisation decides (the highest that sets and locks,
  else the lowest that sets), and the loop of `resolve_settings` and the merging of `merge_settings` both compute
  it (`AppliedIs`, `MergedIs`): the shortest chain on which they would differ has no last organisation to
  differ at (`ForceStep`). Both are recursive functions, which a proof can speak of.

`SmallestOf` (a set of numbers has a least one) is the one place where induction enters: it
is the minimal element of a well-founded relation, which the library states for a
set and not for an operator. That is why these definitions pick the first or last
place with a property; only the settings recur, along their chain.

**Assumptions.** A module names what its proofs assume of its constants, and TLC
evaluates it in every run. Nothing is assumed of the program: where the code has a
number, the assumption says what kind of number. `ConstantsAssumption` of the four core
modules; `DeferredAssumption` (one attempt at least, a retention of whole days);
`ItemsAssumption` (a number of items); `LimitsAssumption` (a window, a limit, a threshold and a budget
of at least one, charges and bounds that are numbers); `DeliveryAssumption` (hours and minutes are numbers,
hours from 0 on, bounds that are numbers);
`SkillsAssumption` and `EntitiesAssumption` (bounds and limits that are numbers, a finite
graph, "core" among the owners of types); `OperationsAssumption` (a finite pool and finitely many requests, and an organisation whose
name is none of the words that stand for no answer); `TwinsAssumption` (an organisation is not an item:
two columns with keys of different tables); `ClientAssumption` and `AdminAssumption` (a retry limit that is
a number, the placeholders "no chat", "nobody", "removed" outside the sets they stand beside).

**Model-checked only.** Every invariant and action property that a run checks is a theorem. What stays with
TLC is liveness under fairness and ENABLED, which the provers cannot reason about: what must
eventually happen is checked on the instances of section 3 and no more. Induction over data is out of
reach where the library states it for an operator, which the provers cannot instantiate; where a
proof needs it, it goes by the least counterexample instead (`SmallestOf`, below lists, chains and
sums).

## 5. Not modelled

* Overlapping calls of the knowledge writer's mode in memory, which awaits nothing
  (its answers are in `Twins`, its choice at the start in `Operations`); an upsert that takes effect after its caller stopped
  waiting; `PgMemoryItemStore.supersede_item`, which nothing calls.
* Texts, embeddings, hashes, signatures and regular expressions as such:
  what a pattern or a check says is an input.
* `scripts/`: one-shot checks of the repository's own documents, without state
  or concurrency. They are close to a third of the lines the coverage counts.
* Components that show what they are given: history, memory and artifact panels,
  organisation switcher, error boundary, the users page; the fetch wrappers; DOMPurify.
* Uploading and downloading of bytes, connection strings, formatting.
* The 401 of the web client's knowledge page (`web/app/knowledge/page.tsx:63`), which removes the
  token as the chat page's does, is taken for a failed request.
* A graph in which more than one constraint is missing when the seed runs.
* Liveness of the services: pollers, timers and clients are driven by nobody in this
  repository, so no fairness is justified for them; an outbox event whose poller
  stopped stays "processing" for ever, as the code has it.

## 6. What would come next

The plan of this project is done: every component of section 1 but the scripts is modelled, and what its
runs check of safety is proved. What a next step would change: a fairness for the services, should the
repository come to drive their pollers and timers, with the liveness it would justify; and a decay of
confidence proved beyond four half-lives, for which the provers lack a theory of powers.
