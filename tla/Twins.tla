------------------------------- MODULE Twins -------------------------------
(* Three stores have a double in memory: the event store of a conversation, the
   store of memory receipts, and the entries of the knowledge writer, which it
   keeps itself while there is no graph.  Here both of a pair get the same
   calls, one call after the other, and are asked the same questions;
   organisations and memory items are deleted under the tables, whose foreign
   keys cascade, while a double never hears of it.

   Covered: ConversationEventStore and PgConversationEventStore, ReceiptStore
   and PgReceiptStore, KnowledgeWriteAdapter with and without its stores.
   Not covered: contents, scores and reasons; calls that overlap or fail (the
   modules ConversationTurns and KnowledgeSync have those); MemoryItemStore,
   which module MemoryItems has. *)
EXTENDS Naturals, Sequences, FiniteSets, FiniteSetsExt, SequencesExt, Functions

CONSTANTS Threads,     \* session ids
          Subjects,    \* memory items
          EntryTypes,  \* entity types of knowledge entries
          MaxTwinCalls \* bound: calls

Owner == "org"    \* the organisation of the events and receipts

(* The foreign keys of the two tables lead to different rows. *)
ASSUME TwinsAssumption == MaxTwinCalls \in Nat /\ Owner \notin Subjects

VARIABLES double,      \* the two stores in memory
          table,       \* conversation_events and memory_receipts
          gone,        \* organisations and items that were deleted
          instant,     \* the clock of created_at
          entries,     \* the knowledge entries in memory, and in graph and index
          calls

twinVars == <<double, table, gone, instant, entries, calls>>

TwinsInit ==
    /\ double = [events |-> {}, index |-> [s \in Threads |-> <<>>],
                 counter |-> [s \in Threads |-> 0],
                 receipts |-> [m \in Subjects |-> <<>>]]
    /\ table = [events |-> {}, receipts |-> {}]
    /\ entries = [memory |-> <<>>, graph |-> <<>>, points |-> <<>>]
    /\ gone = {} /\ instant = 1 /\ calls = 0

Called == calls < MaxTwinCalls /\ calls' = calls + 1

-----------------------------------------------------------------------------
(* Conversation events.  An event is named by the call that wrote it. *)
Stored(s) == {e \in table.events : e.session = s}
CountSessionEvents(s) == Cardinality(Stored(s))

(* append_event of both: the double counts on, the table is counted. *)
AppendToBoth(s) ==
    /\ Owner \notin gone /\ Called
    /\ LET event(seq) == [id |-> calls, session |-> s, seq |-> seq] IN
       /\ double' = [double EXCEPT
            !.counter[s] = @ + 1,
            !.events = @ \union {event(double.counter[s] + 1)},
            !.index[s] = Append(@, calls)]
       /\ table' = [table EXCEPT !.events = @ \union {event(CountSessionEvents(s) + 1)}]
    /\ UNCHANGED <<gone, instant, entries>>

Cut(list, limit) == IF limit = 0 THEN list ELSE SubSeq(list, 1, Min({limit, Len(list)}))
(* The members of S by rank, the lowest first. *)
Sorted(S, Rank(_)) ==
    [i \in 1..Cardinality(S) |->
        CHOOSE e \in S : Cardinality({f \in S : Rank(f) < Rank(e)}) = i - 1]
Ordered(events) == Sorted(events, LAMBDA e : e.seq)
(* get_session_events; a limit of 0 stands for None. *)
DoubleEvents(s, limit) ==
    Cut(Ordered({e \in double.events : e.id \in Range(double.index[s])}), limit)
TableEvents(s, limit) == Cut(Ordered(Stored(s)), limit)

(* delete_session: the double forgets events, index and counter. *)
ForgetSession(d, s) ==
    [d EXCEPT !.events = {e \in @ : e.id \notin Range(d.index[s])},
              !.index[s] = <<>>, !.counter[s] = 0]
DeleteSession(s) ==
    /\ Called
    /\ double' = ForgetSession(double, s)
    /\ table' = [table EXCEPT !.events = @ \ Stored(s)]
    /\ UNCHANGED <<gone, instant, entries>>

-----------------------------------------------------------------------------
(* Receipts: both stores take their time from the clock before they store, and
   two receipts may have the same. *)
RecordReceipt(m, type) ==
    /\ m \notin gone /\ Owner \notin gone /\ Called
    /\ LET receipt == [id |-> calls, item |-> m, type |-> type, at |-> instant] IN
       /\ double' = [double EXCEPT !.receipts[m] = Append(@, receipt)]
       /\ table' = [table EXCEPT !.receipts = @ \union {receipt}]
    /\ \E later \in BOOLEAN : instant' = IF later THEN instant + 1 ELSE instant
    /\ UNCHANGED <<gone, entries>>

TwinInjection(m) == RecordReceipt(m, "injection")
TwinRetrieval(m) == RecordReceipt(m, "retrieval")

(* get_receipts_for_item: by time in the table, those of one instant in any order. *)
ReceiptsOf(m) == {r \in table.receipts : r.item = m}
TableMayAnswer(m, list) ==
    /\ Range(list) = ReceiptsOf(m) /\ Len(list) = Cardinality(ReceiptsOf(m))
    /\ \A i, j \in DOMAIN list : i < j => list[i].at <= list[j].at
(* count_by_type. *)
CountByType(receipts, type) == Cardinality({r \in receipts : r.type = type})

-----------------------------------------------------------------------------
(* Knowledge entries.  Properties map a key to the call that set it.  The stores
   keep the author among the properties, memory keeps it beside them; the
   vector index has, per node, the text that it was embedded from. *)
Brands == {Owner, "other"}
Keys == {"name", "tone"}
Authors == {"created_by", "updated_by"}
Over(new, old) ==
    [k \in DOMAIN new \union DOMAIN old |-> IF k \in DOMAIN new THEN new[k] ELSE old[k]]
WithoutAuthors(properties) == Restrict(properties, DOMAIN properties \ Authors)
SemanticText(type, properties) == <<type, WithoutAuthors(properties)>>
Given(keys) == [k \in keys |-> calls]

(* create_entry. *)
CreateInBoth(org, type) ==
    /\ Called
    /\ LET entry(properties) == [org |-> org, type |-> type, properties |-> properties]
           With(store, what) == Over([id \in {calls} |-> what], store)
       IN entries' =
            [memory |-> With(entries.memory, entry(Given({"name"}))),
             graph |-> With(entries.graph, entry(Given({"name", "created_by"}))),
             points |-> With(entries.points, SemanticText(type, Given({"name"})))]
    /\ UNCHANGED <<double, table, gone, instant>>

(* get_entry of either store, for an entry of another organisation as for none. *)
NoEntry == <<>>
Answered(e) == [e EXCEPT !.properties = WithoutAuthors(@)]
Get(store, org, id) ==
    IF id \in DOMAIN store /\ store[id].org = org THEN store[id] ELSE NoEntry
GetFromMemory(org, id) == Get(entries.memory, org, id)
GetFromStores(org, id) == Get(entries.graph, org, id)

(* update_entry: the changes go over what is there, and the text of the point
   is made from all of it. *)
UpdateInBoth(org, id, key) ==
    /\ Called
    /\ LET old == GetFromStores(org, id) IN
       entries' =
         [memory |-> IF GetFromMemory(org, id) = NoEntry THEN entries.memory
                     ELSE [entries.memory EXCEPT ![id].properties = Over(Given({key}), @)],
          graph |-> IF old = NoEntry THEN entries.graph
                    ELSE [entries.graph EXCEPT ![id].properties =
                             Over(Given({key, "updated_by"}), @)],
          points |-> IF old = NoEntry THEN entries.points
                     ELSE [entries.points EXCEPT ![id] =
                             SemanticText(old.type, Over(Given({key}), old.properties))]]
    /\ UNCHANGED <<double, table, gone, instant>>

(* delete_entry. *)
DeleteInBoth(org, id) ==
    /\ Called
    /\ LET Without(store) == Restrict(store, DOMAIN store \ {id})
           inStores == GetFromStores(org, id) # NoEntry
       IN entries' =
            [memory |-> IF GetFromMemory(org, id) # NoEntry THEN Without(entries.memory)
                        ELSE entries.memory,
             graph |-> IF inStores THEN Without(entries.graph) ELSE entries.graph,
             points |-> IF inStores THEN Without(entries.points) ELSE entries.points]
    /\ UNCHANGED <<double, table, gone, instant>>

(* list_entries, by the names of the entries: memory answers in the order of
   creation, the graph in any, cut before it answers and again after.  (For ""
   as the type the graph lists all, memory none.) *)
AnyType == "any"
Page(list, offset, limit) == SubSeq(list, offset + 1, Min({offset + limit, Len(list)}))
Listed(store, org, type) ==
    {id \in DOMAIN store : store[id].org = org /\ type \in {AnyType, store[id].type}}
ListFromMemory(org, type, offset, limit) ==
    Page(Sorted(Listed(entries.memory, org, type), LAMBDA id : id), offset, limit)
FindByOrg(org, type, limit) ==
    {Page(order, 0, limit) : order \in SetToSeqs(Listed(entries.graph, org, type))}
ListFromStores(org, type, offset, limit) ==
    {Page(list, offset, limit) : list \in FindByOrg(org, type, offset + limit)}

-----------------------------------------------------------------------------
(* A row is deleted and the rows that refer to it go with it. *)
DeleteItem(m) ==
    /\ m \notin gone /\ Called
    /\ gone' = gone \union {m}
    /\ table' = [table EXCEPT !.receipts = @ \ ReceiptsOf(m)]
    /\ UNCHANGED <<double, instant, entries>>
DeleteOwner ==
    /\ Owner \notin gone /\ Called
    /\ gone' = gone \union {Owner}
    /\ table' = [events |-> {}, receipts |-> {}]
    /\ UNCHANGED <<double, instant, entries>>

TwinsNext ==
    \/ \E s \in Threads : AppendToBoth(s) \/ DeleteSession(s)
    \/ \E m \in Subjects : TwinInjection(m) \/ TwinRetrieval(m) \/ DeleteItem(m)
    \/ DeleteOwner
EntriesNext ==
    \E org \in Brands :
        \/ \E type \in EntryTypes : CreateInBoth(org, type)
        \/ \E id \in 0..MaxTwinCalls : DeleteInBoth(org, id)
        \/ \E id \in 0..MaxTwinCalls, key \in Keys : UpdateInBoth(org, id, key)

-----------------------------------------------------------------------------
TwinsTypeOK ==
    /\ DOMAIN double.index = Threads /\ DOMAIN double.counter = Threads
    /\ \A m \in Subjects : \A r \in Range(double.receipts[m]) : r.item = m /\ r.at <= instant
    /\ \A id \in DOMAIN entries.memory : /\ entries.memory[id].org \in Brands
                                         /\ entries.memory[id].type \in EntryTypes
    /\ DOMAIN entries.points = DOMAIN entries.graph
    /\ gone \subseteq Subjects \union {Owner}
    /\ calls \in 0..MaxTwinCalls

(* Until something is deleted under the tables, a double gives the answers of the
   table it stands for: the same events in the same order with the same numbers
   from 1, also after a session was deleted and begun again, and the same
   receipts, in the order of their time.  After that the table has nothing of what is gone.
   (ConversationEventStore and PgConversationEventStore, ReceiptStore and
   PgReceiptStore.) *)
TwinsAgree ==
    /\ Owner \notin gone =>
         \A s \in Threads :
            /\ \A limit \in 0..2 : DoubleEvents(s, limit) = TableEvents(s, limit)
            /\ Len(double.index[s]) = CountSessionEvents(s)
            /\ \A i \in DOMAIN TableEvents(s, 0) : TableEvents(s, 0)[i].seq = i
    /\ \A m \in Subjects :
         /\ {m, Owner} \intersect gone = {} =>
              /\ TableMayAnswer(m, double.receipts[m])
              /\ \A type \in {"injection", "retrieval"} :
                    CountByType(Range(double.receipts[m]), type) = CountByType(ReceiptsOf(m), type)
         /\ {m, Owner} \intersect gone # {} => ReceiptsOf(m) = {}
    /\ Owner \in gone => table.events = {}

(* Without its stores the knowledge writer answers as with them, but for the
   author: each organisation finds its own entries and nobody else's, with the
   same properties; a page is as long; a first page that holds them all lists
   the same; and a search by text would find what the entry says now.
   (KnowledgeWriteAdapter, Neo4jAdapter.find_by_org.) *)
EntriesAgree ==
    \A org \in Brands :
        /\ \A id \in 0..MaxTwinCalls :
             LET inMemory == GetFromMemory(org, id)
                 inStores == GetFromStores(org, id)
             IN IF inMemory = NoEntry THEN inStores = NoEntry
                ELSE /\ inStores # NoEntry /\ Answered(inStores) = inMemory
                     /\ entries.points[id] = SemanticText(inMemory.type, inMemory.properties)
        /\ \A type \in EntryTypes \union {AnyType}, offset \in 0..2, limit \in {1, MaxTwinCalls} :
             LET inMemory == ListFromMemory(org, type, offset, limit) IN
             \A inStores \in ListFromStores(org, type, offset, limit) :
                /\ Len(inStores) = Len(inMemory)
                /\ offset = 0 /\ limit = MaxTwinCalls => Range(inStores) = Range(inMemory)
=============================================================================
