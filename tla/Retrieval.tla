------------------------------ MODULE Retrieval ------------------------------
(* What goes into the context of a model call: the fusion of two ranked
   searches, the token budget split over the parts of the context, the
   truncation to that budget, and the assembly that goes on without knowledge.

   Covered: rrf_fuse and the in-memory VectorSearchEngine, BudgetAllocator,
   FixedPriorityPolicy, ContextAssembler.
   Not covered: the texts, the cosine of two vectors (a similarity is a rank
   here), metrics. *)
EXTENDS Integers, FiniteSets, Sequences, FiniteSetsExt, SequencesExt, Functions, Lists


-----------------------------------------------------------------------------
(* rrf_fuse.  A list names an item once at most, so its part of the score is
   1 / (k + rank), 0 where it is not named.  A score is a fraction [of, over]. *)
RrfK == 60
RankIn(list, id) == IF id \in Range(list) THEN CHOOSE r \in DOMAIN list : list[r] = id ELSE 0
Part(rank) == [of |-> IF rank = 0 THEN 0 ELSE 1, over |-> RrfK + rank]
Plus(x, y) == [of |-> x.of * y.over + y.of * x.over, over |-> x.over * y.over]
Exceeds(x, y) == x.of * y.over > y.of * x.over
RrfScore(vector, keyword, id) == Plus(Part(RankIn(vector, id)), Part(RankIn(keyword, id)))
ByScore(vector, keyword, ids) ==
    {p \in PlacePairs(ids) : Exceeds(RrfScore(vector, keyword, ids[p[1]]),
                                RrfScore(vector, keyword, ids[p[2]]))}
FoundBy(vector, keyword) ==
    vector \o Chosen(keyword, {i \in DOMAIN keyword : keyword[i] \notin Range(vector)})
RrfFuse(vector, keyword, topN) ==
    LET found == FoundBy(vector, keyword)
        sorted == First(topN, Sorted(found, ByScore(vector, keyword, found)))
    IN [i \in DOMAIN sorted |-> [id |-> sorted[i],
                                 vectorRank |-> RankIn(vector, sorted[i]),
                                 keywordRank |-> RankIn(keyword, sorted[i])]]

(* The in-memory engine, over its items in insertion order: every item has a
   similarity; the keyword search leaves out what the query is not in. *)
ByKey(ids, key) == {p \in PlacePairs(ids) : key[ids[p[1]]] > key[ids[p[2]]]}
SearchVector(order, similarity, topK) ==
    First(topK, Sorted(order, ByKey(order, similarity)))
SearchKeyword(order, frequency, topK) ==
    LET found == Chosen(order, {i \in DOMAIN order : frequency[order[i]] > 0})
    IN First(topK, Sorted(found, ByKey(found, frequency)))
HybridSearch(order, similarity, frequency, topK) ==
    RrfFuse(SearchVector(order, similarity, 2 * topK),
            SearchKeyword(order, frequency, 2 * topK), topK)

-----------------------------------------------------------------------------
(* BudgetAllocator.allocate.  A count of Unknown is the None of the code; the
   ratios are percentages, and int() rounds down. *)
Unknown == -1
MinSystemPrompt == 128
Percent(n, amount) == (amount * n) \div 100
Shares(available, knowledge) ==
    IF knowledge
    THEN [memories |-> Percent(40, available), knowledge |-> Percent(30, available),
          history |-> Percent(30, available)]
    ELSE [memories |-> Percent(55, available), knowledge |-> 0,
          history |-> Percent(45, available)]
CapTo(share, count) == IF count # Unknown /\ count < share THEN count ELSE share

Allocate(total, historyCount, memoryCount, knowledge) ==
    LET reserve == Percent(25, total)
        shares == Shares(Max({0, total - reserve - MinSystemPrompt}), knowledge)
        memories == CapTo(shares.memories, memoryCount)
        history == CapTo(shares.history, historyCount)
        surplus == (shares.memories - memories) + (shares.history - history)
        takes == CASE shares.knowledge > 0 -> "knowledge"
                   [] shares.knowledge = 0 /\ memoryCount = Unknown -> "memories"
                   [] shares.knowledge = 0 /\ memoryCount # Unknown
                        /\ historyCount = Unknown -> "history"
                   [] OTHER -> "response"
        Surplus(part) == IF takes = part THEN surplus ELSE 0
    IN [system |-> MinSystemPrompt,
        memories |-> memories + Surplus("memories"),
        knowledge |-> shares.knowledge + Surplus("knowledge"),
        history |-> history + Surplus("history"),
        response |-> reserve + Surplus("response")]
Allocated(b) == b.system + b.memories + b.knowledge + b.history + b.response

-----------------------------------------------------------------------------
(* What is left of a budget, the first number, when each of the others has taken
   what it asks, or all that is left. *)
Remaining[s \in Seq(Nat)] ==
    IF Len(s) <= 1 THEN s[1]
    ELSE LET left == Remaining[SubSeq(s, 1, Len(s) - 1)] IN left - Min({s[Len(s)], left})
TakenBy(asks, budget) ==
    [n \in DOMAIN asks |->
        Min({asks[n], Remaining[<<budget>> \o SubSeq(asks, 1, n - 1)]})]

(* How it could go wrong: first come, first served. *)
InOrder(blocks) == {}

(* FixedPriorityPolicy.truncate: greedy, by priority.  What a block was given
   is kept under its name, so two blocks of one name get what the last got. *)
ByPriority(blocks) ==
    {p \in PlacePairs(blocks) : blocks[p[1]].priority > blocks[p[2]].priority}
Truncate(blocks, maxTokens) ==
    LET sorted == Sorted(blocks, ByPriority(blocks))
        given == TakenBy([n \in DOMAIN sorted |-> sorted[n].tokens], Max({0, maxTokens}))
        Allocation(name) == given[Max({n \in DOMAIN sorted : sorted[n].name = name})]
    IN [i \in DOMAIN blocks |-> [blocks[i] EXCEPT !.tokens = Allocation(blocks[i].name)]]
TokensOf(blocks) == Total([i \in DOMAIN blocks |-> blocks[i].tokens])

-----------------------------------------------------------------------------
(* ContextAssembler.  Knowledge is a soft dependency: without a port, without
   an organisation and after any exception the context is degraded.  A bundle
   is the number of its entries, NoBundle when there is none. *)
NoBundle == -1
FetchKnowledge(port, hasOrg, entries) ==
    CASE port = "missing" -> [bundle |-> NoBundle, reason |-> "not_configured"]
      [] port # "missing" /\ ~hasOrg -> [bundle |-> NoBundle, reason |-> "no_org_context"]
      [] port = "fails" /\ hasOrg -> [bundle |-> NoBundle, reason |-> "unavailable"]
      [] port = "answers" /\ hasOrg -> [bundle |-> entries, reason |-> "none"]

(* The last two user messages among the last three of the history are put
   before the query; a message without content does not count. *)
SaidBy(history, places) ==
    Chosen(history, {i \in places : history[i].role = "user" /\ history[i].content # ""})
RewriteQuery(query, history) ==
    LET said == SaidBy(history, {i \in DOMAIN history : i > Len(history) - 3})
        last == SubSeq(said, Max({1, Len(said) - 1}), Len(said))
    IN Append([i \in DOMAIN last |-> last[i].content], query)

(* One receipt per memory with its position; each may fail on its own. *)
RetrievalReceipts(memories, hasStore, hasOrg, failing) ==
    IF hasStore /\ hasOrg THEN (1..memories) \ failing ELSE {}

Assemble(c) ==
    LET knowledge == FetchKnowledge(c.port, c.hasOrg, c.entries) IN
    [memories |-> c.memories,
     bundle |-> knowledge.bundle,
     degraded |-> knowledge.reason # "none",
     reason |-> knowledge.reason,
     receipts |-> RetrievalReceipts(c.memories, c.hasStore, c.hasOrg, c.failing),
     promptMemories |-> Min({c.memories, 5}),
     promptEntries |-> Max({0, Min({knowledge.bundle, 3})})]

-----------------------------------------------------------------------------
(* The fusion returns what the searches found, each once, the best of them: an
   item both found stands before one that only one found, an item that is
   behind another in neither list is not behind it, and what is left out is
   behind all that is returned. *)
FusionFair(vector, keyword, topN, result) ==
    LET ids == [i \in DOMAIN result |-> result[i].id]
        all == Range(vector) \union Range(keyword)
        both == Range(vector) \intersect Range(keyword)
        Place(list, id) == IF id \in Range(list) THEN RankIn(list, id) ELSE Len(list) + 1
        Dominates(a, b) == /\ Place(vector, a) <= Place(vector, b)
                           /\ Place(keyword, a) <= Place(keyword, b)
                           /\ Place(vector, a) < Place(vector, b)
                                \/ Place(keyword, a) < Place(keyword, b)
    IN /\ Range(ids) \subseteq all
       /\ Cardinality(Range(ids)) = Len(ids)
       /\ Len(ids) = Min({topN, Cardinality(all)})
       /\ \A b \in Range(ids), a \in all :
            Dominates(a, b) \/ (a \in both /\ b \notin both) =>
                a \in Range(ids) /\ RankIn(ids, a) < RankIn(ids, b)

(* A budget is handed out whole but for the tokens lost in rounding, two at
   most, and is never exceeded, unless it is so small that the response's
   quarter leaves less than the system prompt's floor: then it is exceeded by
   just what the floor lacks, and the other parts get nothing.  A part whose
   need is known gets no more than that, and what it leaves is not lost. *)
AllocationWhole(total, historyCount, memoryCount, b) ==
    /\ \A part \in DOMAIN b : b[part] >= 0
    /\ LET whole == Max({total, Percent(25, total) + MinSystemPrompt})
       IN /\ Allocated(b) \in (whole - 2)..whole
          /\ whole > total => b.memories + b.knowledge + b.history = 0
    /\ memoryCount # Unknown => b.memories <= memoryCount
    /\ historyCount # Unknown => b.history <= historyCount

(* Blocks of different names are cut to the budget, none of them grows, the
   budget is used as far as there is something to use it for, and a block is
   cut only when nothing of a lower priority is kept. *)
TruncationByPriority(blocks, maxTokens, result) ==
    /\ Len(result) = Len(blocks)
    /\ TokensOf(result) = Min({Max({0, maxTokens}), TokensOf(blocks)})
    /\ \A i \in DOMAIN blocks :
         /\ result[i].name = blocks[i].name
         /\ result[i].tokens <= blocks[i].tokens
         /\ result[i].tokens < blocks[i].tokens =>
              \A j \in DOMAIN blocks : blocks[j].priority < blocks[i].priority =>
                result[j].tokens = 0

(* A context is degraded exactly when it has no knowledge, and then says why;
   every memory of an organisation leaves its receipt or is a failure of its
   own, whether knowledge was there or not. *)
ContextComplete(c, a) ==
    /\ a.degraded <=> a.bundle = NoBundle
    /\ a.degraded <=> c.port # "answers" \/ ~c.hasOrg
    /\ c.hasStore /\ c.hasOrg => a.receipts \union (c.failing \intersect 1..c.memories) = 1..c.memories
    /\ a.degraded => a.promptEntries = 0
    /\ a.promptMemories <= a.memories
=============================================================================
