---------------------------- MODULE MemoryItems ----------------------------
(* The personal memory of one user base: the versioned rows of memory_items,
   the receipts that say why an item was written or used, and the requests
   that work on them.  A request that leaves the process (a query, a commit)
   is cut there, so two requests interleave between their statements.

   Covered: PgMemoryItemStore, PgMemoryCoreAdapter, PgReceiptStore, the
   memory write pipeline and the evolution rules it runs, the in-memory
   MemoryItemStore, the other implementation of the versioned items.
   Not covered: the text of an item, its embedding vector, its timestamps.
   What a query matches is chosen freely; ranking is in module Retrieval. *)
EXTENDS Naturals, FiniteSets, Sequences, FiniteSetsExt, SequencesExt

CONSTANTS Workers,     \* requests in progress at once
          Owners,      \* <<user, org>> pairs that own items
          NoOrg,       \* the org_id = None of a read
          TopK,        \* rows a read may answer with
          MaxItems     \* bound: rows of memory_items

ASSUME ItemsAssumption == MaxItems \in Nat

VARIABLES store,       \* which implementation keeps the items: "pg" or "memory"
          items,       \* row id -> row; ids are given in insertion order
          chains,      \* in memory: first id of an item -> ids of its versions
          receipts,    \* row ids with an injection receipt
          request,     \* worker -> what it has read so far
          reports      \* row ids the pipeline reported as "created" / "error"

itemVars == <<store, items, chains, receipts, request, reports>>

Ids == DOMAIN items
Users == {o[1] : o \in Owners}
Orgs == {o[2] : o \in Owners}
Idle == [op |-> "idle"]

(* How it could go wrong: versions counted from zero, against the CHECK. *)
RowFromZero(owner, version) == [owner |-> owner, version |-> version - 1, next |-> 0]

(* invalid_at and superseded_by are set in the same statement everywhere, so
   one field says both: the id of the successor, 0 while the row is current. *)
Row(owner, version) == [owner |-> owner, version |-> version, next |-> 0]
Current(id) == items[id].next = 0
OfUser(id, user) == items[id].owner[1] = user

-----------------------------------------------------------------------------
(* Observer, Analyzer and Evolver: which observations a user message yields,
   and with what confidence (in hundredths).  A message is the set of the
   signal groups found in its text. *)
Signals == {"preference", "fact"}
Observe(message) ==
    {[type |-> IF s = "preference" THEN "preference" ELSE "observation",
      conf |-> IF s = "preference" THEN 50 ELSE 60] : s \in message}
Analyze(o) == Min({(o.conf * 12) \div 10, 80})
Evolve(o) == IF Analyze(o) < 30 THEN "skipped" ELSE "created"
ProcessSession(message) == [o \in Observe(message) |-> Evolve(o)]

-----------------------------------------------------------------------------
ItemsInit ==
    /\ store \in {"pg", "memory"}
    /\ items = <<>>
    /\ chains = <<>>
    /\ receipts = {}
    /\ request = [w \in Workers |-> Idle]
    /\ reports = [created |-> {}, error |-> {}]

MayInsert == Len(items) < MaxItems
NewId == Len(items) + 1
IsIdle(w) == request[w].op = "idle"
Step(w, r) == request' = [request EXCEPT ![w] = r]

BeginChain(id) ==
    [root \in DOMAIN chains \union {id} |-> IF root = id THEN <<id>> ELSE chains[root]]

(* add_item, MemoryItemStore.create: version 1 of a new item, which begins a
   chain in memory. *)
InsertFirst(o) == items' = Append(items, Row(o, 1))
AddItem ==
    /\ MayInsert
    /\ \E o \in Owners : InsertFirst(o)
    /\ chains' = IF store = "memory" THEN BeginChain(NewId) ELSE chains
    /\ UNCHANGED <<store, receipts, request, reports>>

(* How it could go wrong: the successor inserted, the old row left current. *)
SucceedOnly(id, version) ==
    items' = Append(items, Row(items[id].owner, version + 1))

(* The successor of row id is inserted and the row retired, in one commit. *)
Succeed(id, version) ==
    items' = Append([items EXCEPT ![id].next = NewId],
                    Row(items[id].owner, version + 1))

(* update_item: the row is read, and nothing is read again before the commit:
   two updates of one row both succeed it. *)
ReadForUpdate(w, id) ==
    /\ store = "pg"
    /\ IsIdle(w)
    /\ Step(w, [op |-> "update", id |-> id, version |-> items[id].version])
    /\ UNCHANGED <<store, items, chains, receipts, reports>>

CommitUpdate(w) ==
    /\ request[w].op = "update"
    /\ MayInsert
    /\ Succeed(request[w].id, request[w].version)
    /\ Step(w, Idle)
    /\ UNCHANGED <<store, chains, receipts, reports>>

(* MemoryItemStore.update: the same at once, refused for a superseded item; the
   chain that the id is in grows. *)
FindRoot(id) ==
    LET roots == {root \in DOMAIN chains : id \in Range(chains[root])} IN
    IF roots = {} THEN id ELSE CHOOSE root \in roots : TRUE
UpdateInMemory(id) ==
    /\ store = "memory"
    /\ MayInsert
    /\ Current(id)
    /\ Succeed(id, items[id].version)
    /\ chains' = [chains EXCEPT ![FindRoot(id)] = Append(@, NewId)]
    /\ UNCHANGED <<store, receipts, request, reports>>

(* What MemoryItemStore answers for the id of any version. *)
GetVersionHistory(id) == chains[FindRoot(id)]
GetLatest(id) == Last(GetVersionHistory(id))
ListActive(user) == {id \in Ids : OfUser(id, user) /\ Current(id)}

-----------------------------------------------------------------------------
(* process_turn, for one of the turn's observations: the item is committed,
   its receipt is a second commit, and an exception of either is reported.  A
   commit may also raise when it has taken effect, its answer lost. *)
WriteObservation(w) ==
    /\ store = "pg"
    /\ IsIdle(w)
    /\ MayInsert
    /\ \E o \in Owners, message \in SUBSET Signals :
         /\ "created" \in Range(ProcessSession(message))
         /\ InsertFirst(o)
    /\ Step(w, [op |-> "receipt", id |-> NewId])
    /\ UNCHANGED <<store, chains, receipts, reports>>

ObservationFails(w) ==
    /\ store = "pg"
    /\ IsIdle(w)
    /\ MayInsert
    /\ \E o \in Owners : InsertFirst(o)
    /\ reports' = [reports EXCEPT !.error = @ \union {NewId}]
    /\ UNCHANGED <<store, chains, receipts, request>>

RecordInjection(w) ==
    /\ request[w].op = "receipt"
    /\ receipts' = receipts \union {request[w].id}
    /\ reports' = [reports EXCEPT !.created = @ \union {request[w].id}]
    /\ Step(w, Idle)
    /\ UNCHANGED <<store, items, chains>>

InjectionFails(w) ==
    /\ request[w].op = "receipt"
    /\ receipts' \in {receipts, receipts \union {request[w].id}}
    /\ reports' = [reports EXCEPT !.error = @ \union {request[w].id}]
    /\ Step(w, Idle)
    /\ UNCHANGED <<store, items, chains>>

-----------------------------------------------------------------------------
(* The filters of the three queries.  Which of the rows a filter lets through
   have an embedding near the query, or its words, is left open. *)
InOrg(id, org) == items[id].owner[2] = org
(* How it could go wrong: a vector search without "invalid_at IS NULL". *)
EveryVectorMatch(user, org) == {id \in Ids : InOrg(id, org) /\ OfUser(id, user)}

VectorMatches(user, org) ==
    {id \in Ids : InOrg(id, org) /\ OfUser(id, user) /\ Current(id)}
KeywordMatches(user, org) ==
    {id \in Ids : InOrg(id, org) /\ OfUser(id, user) /\ Current(id)}
FallbackMatches(user, org) ==
    {id \in Ids : /\ OfUser(id, user) /\ Current(id)
                  /\ org = NoOrg \/ InOrg(id, org)}

(* hybrid_search runs two statements and read_personal_memories then fetches
   the rows it named, by id alone: the answer holds what was found, retired
   since or not.  "gone" is what was retired when the search began. *)
Retired == {id \in Ids : ~Current(id)}
UpTo(k, S) == {found \in SUBSET S : Cardinality(found) <= k}
SearchByEmbedding(w) ==
    /\ store = "pg"
    /\ IsIdle(w)
    /\ \E u \in Users, o \in Orgs : \E found \in UpTo(2 * TopK, VectorMatches(u, o)) :
         Step(w, [op |-> "keyword", user |-> u, org |-> o, found |-> found,
                  gone |-> Retired])
    /\ UNCHANGED <<store, items, chains, receipts, reports>>

SearchByKeywordAndFetch(w) ==
    /\ request[w].op = "keyword"
    /\ \E found \in UpTo(2 * TopK, KeywordMatches(request[w].user, request[w].org)) :
         \E fused \in UpTo(TopK, request[w].found \union found) :
           Step(w, [request[w] EXCEPT !.op = "answer", !.found = fused])
    /\ UNCHANGED <<store, items, chains, receipts, reports>>

(* Without an engine, an embedder, an org or a query, and after any exception
   of the hybrid path: one keyword query, whose org filter is optional. *)
KeywordRetrieval(w) ==
    /\ store = "pg"
    /\ IsIdle(w)
    /\ \E u \in Users, o \in Orgs \union {NoOrg} :
         \E found \in UpTo(TopK, FallbackMatches(u, o)) :
           Step(w, [op |-> "answer", user |-> u, org |-> o, found |-> found,
                    gone |-> Retired])
    /\ UNCHANGED <<store, items, chains, receipts, reports>>

HybridFails(w) ==
    /\ request[w].op = "keyword"
    /\ \E found \in UpTo(TopK, FallbackMatches(request[w].user, request[w].org)) :
         Step(w, [request[w] EXCEPT !.op = "answer", !.found = found])
    /\ UNCHANGED <<store, items, chains, receipts, reports>>

(* _record_retrieval_receipts adds a receipt per answered row and swallows
   every failure; nothing reads them, so they are not kept here. *)
Answer(w) ==
    /\ request[w].op = "answer"
    /\ Step(w, Idle)
    /\ UNCHANGED <<store, items, chains, receipts, reports>>

-----------------------------------------------------------------------------
ItemsNext ==
    \/ AddItem
    \/ \E id \in Ids : UpdateInMemory(id)
    \/ \E w \in Workers :
         \/ \E id \in Ids : ReadForUpdate(w, id)
         \/ CommitUpdate(w)
         \/ WriteObservation(w)
         \/ ObservationFails(w)
         \/ RecordInjection(w)
         \/ InjectionFails(w)
         \/ SearchByEmbedding(w)
         \/ SearchByKeywordAndFetch(w)
         \/ KeywordRetrieval(w)
         \/ HybridFails(w)
         \/ Answer(w)

-----------------------------------------------------------------------------
ItemsTypeOK ==
    /\ items \in Seq([owner : Owners, version : 1..MaxItems, next : 0..MaxItems])
    /\ receipts \subseteq Ids
    /\ \A w \in Workers :
         request[w].op \in {"idle", "update", "receipt", "keyword", "answer"}
    /\ reports \in [created : SUBSET Ids, error : SUBSET Ids]

(* A retrieval answers with rows of the user it was asked for, of the
   organisation it was asked for, and with no row that was superseded when it
   began, whatever is superseded between its queries. *)
RetrievalScoped ==
    \A w \in Workers : request[w].op \in {"keyword", "answer"} =>
        \A id \in request[w].found :
            /\ OfUser(id, request[w].user)
            /\ request[w].org # NoOrg => InOrg(id, request[w].org)
            /\ id \notin request[w].gone

(* Updates race, but each leaves a chain behind it: a superseded row leads to
   a row of the same owner with the next version, and every later version has
   a superseded predecessor.  In memory a row has one predecessor at most, the
   history asked for by any version has all versions from 1 to the one that is
   current, and of each item a user's active ones have that one only. *)
VersionChains ==
    /\ \A id \in Retired :
         /\ items[id].next \in Ids
         /\ items[items[id].next].owner = items[id].owner
         /\ items[items[id].next].version = items[id].version + 1
    /\ \A id \in Ids : items[id].version > 1 =>
         \E p \in Retired : /\ items[p].owner = items[id].owner
                            /\ items[p].version + 1 = items[id].version
    /\ store = "memory" => \A p, q \in Retired :
                             items[p].next = items[q].next => p = q
    /\ store = "memory" => \A id \in Ids :
         LET history == GetVersionHistory(id) IN
         /\ id \in Range(history)
         /\ \A v \in DOMAIN history : items[history[v]].version = v
         /\ ListActive(items[id].owner[1]) \intersect Range(history) = {GetLatest(id)}

(* An item the pipeline reports as created has its receipt, whatever the other
   turns meet; a receipt is of an item it has reported, never of one still
   waiting for its receipt; and no item is reported both ways.  An item
   reported as an error may yet have a receipt: its commit was heard of no
   more. *)
ReceiptsMatchReports ==
    /\ reports.created \subseteq receipts
    /\ receipts \subseteq reports.created \union reports.error
    /\ reports.created \intersect reports.error = {}
=============================================================================
