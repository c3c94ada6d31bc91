----------------------------- MODULE MCDecisions -----------------------------
(* The decisions that are computed in one go: every action asks one question,
   with inputs from small sets, and notes the answer the code computes; the
   properties compare each answer with what it should be. *)
EXTENDS Retrieval, Access, Content, Support, TLC

VARIABLES question, answer

Ask(kind, input, result) ==
    question' = [kind |-> kind, in |-> input] /\ answer' = result
Fresh == question.kind = "none"

Init == question = [kind |-> "none", in |-> <<>>] /\ answer = <<>>

-----------------------------------------------------------------------------
(* Retrieval and context. *)
Docs == {"a", "b", "c", "d"}
Rankings == UNION {{s \in [1..n -> Docs] : IsInjective(s)} : n \in 0..3}
AskFusion ==
    /\ Fresh
    /\ \E vector, keyword \in Rankings, topN \in {2, 4} :
         Ask("fusion", [vector |-> vector, keyword |-> keyword, topN |-> topN],
             RrfFuse(vector, keyword, topN))

Inserted == <<"a", "b", "c">>
AskSearch ==
    /\ Fresh
    /\ \E similarity, frequency \in [Range(Inserted) -> 0..2], topK \in {1, 2} :
         Ask("search",
             [vector |-> SearchVector(Inserted, similarity, 2 * topK),
              keyword |-> SearchKeyword(Inserted, frequency, 2 * topK), topN |-> topK,
              similarity |-> similarity, frequency |-> frequency],
             HybridSearch(Inserted, similarity, frequency, topK))

Needs == {Unknown, 0, 5, 100, 5000}
AskAllocation ==
    /\ Fresh
    /\ \E total \in {0, 100, 160, 170, 171, 172, 173, 400, 1001, 4096},
          history, memories \in Needs, knowledge \in BOOLEAN :
         Ask("allocation", [total |-> total, history |-> history, memories |-> memories],
             Allocate(total, history, memories, knowledge))

Blocks == [name : {"memory", "knowledge", "history"}, tokens : {1, 2}, priority : {10, 20, 40}]
AskTruncation ==
    /\ Fresh
    /\ \E n \in 0..3 : \E blocks \in [1..n -> Blocks], most \in -1..5 :
         /\ \A i, j \in 1..n : i # j => blocks[i].name # blocks[j].name
         /\ Ask("truncation", [blocks |-> blocks, most |-> most], Truncate(blocks, most))

Histories == UNION {[1..n -> [role : {"user", "assistant"}, content : {"x", "y", ""}]] : n \in 0..4}
AskContext ==
    /\ Fresh
    /\ \/ \E c \in [memories : {0, 2, 6}, entries : {0, 2, 4},
                    port : {"missing", "fails", "answers"}, hasOrg : BOOLEAN,
                    hasStore : BOOLEAN, failing : SUBSET {1, 2}] :
            Ask("context", c, Assemble(c))
       \/ \E history \in Histories :
            Ask("rewrite", [history |-> history], RewriteQuery("query", history))

(* A search finds the best of each kind before it fuses them. *)
SearchFinds(order, q) ==
    /\ \A i, j \in DOMAIN q.vector : i < j =>
         q.similarity[q.vector[i]] >= q.similarity[q.vector[j]]
    /\ \A id \in Range(q.keyword) : q.frequency[id] > 0
    /\ \A i, j \in DOMAIN q.keyword : i < j =>
         q.frequency[q.keyword[i]] >= q.frequency[q.keyword[j]]
    /\ Len(q.vector) = Min({2 * q.topN, Len(order)})

(* The query itself comes last, at most two messages come before it, they are
   what the user said last, and a word just said by the user is among them. *)
RewriteKeeps(query, history, rewritten) ==
    LET said == SaidBy(history, DOMAIN history)
        before == Len(rewritten) - 1
    IN /\ before \in 0..Min({2, Len(said)}) /\ Last(rewritten) = query
       /\ \A i \in 1..before : rewritten[i] = said[Len(said) - before + i].content
       /\ history # <<>> /\ Last(history).role = "user" /\ Last(history).content # "" =>
            before > 0

(* The context a model sees: searches are fused fairly, the token budget is
   handed out and cut by priority, and what is missing is said to be missing
   (rrf_fuse, BudgetAllocator, FixedPriorityPolicy, ContextAssembler). *)
RetrievalDecides ==
    LET q == question.in IN
    /\ question.kind \in {"fusion", "search"} =>
         FusionFair(q.vector, q.keyword, q.topN, answer)
    /\ question.kind = "search" => SearchFinds(Inserted, q)
    /\ question.kind = "allocation" => AllocationWhole(q.total, q.history, q.memories, answer)
    /\ question.kind = "truncation" => TruncationByPriority(q.blocks, q.most, answer)
    /\ question.kind = "context" => ContextComplete(q, answer)
    /\ question.kind = "rewrite" => RewriteKeeps("query", q.history, answer)

-----------------------------------------------------------------------------
(* The gateway. *)
TokensMade == {NoToken, EmptyToken,
               [made |-> "forged", ids |-> TRUE, role |-> "admin"],
               [made |-> "expired", ids |-> TRUE, role |-> "admin"],
               [made |-> "signed", ids |-> FALSE, role |-> "admin"]}
              \union {EncodeToken(role) : role \in {"admin", "member", "viewer", "absent", "org_admin"}}
QueryTokens == {NoToken, EncodeToken("member"), EncodeToken("admin")}
Outcomes == {"returns", "authentication", "not_found", "unavailable", "conflict", "crash"}
AskGateway ==
    /\ Fresh
    /\ \E r \in [bearer : TokensMade, query : QueryTokens, path : Paths,
                 method : {"OPTIONS", "GET"}, room : BOOLEAN,
                 budget : {"none", "active", "exhausted"}, outcome : Outcomes,
                 trace : {Blank, "t1"}] :
         Ask("gateway", r, Respond(r))

AskSocket ==
    /\ Fresh
    /\ \E inQuery, first, second \in TokensMade :
         Ask("socket", [query |-> inQuery, offered |-> <<first, second>>],
             AcceptSocket(inQuery, <<first, second>>))

Numbers == {[is |-> "number", digits |-> d, x |-> x, a |-> a, b |-> 3] :
              d \in {6, 10, 11, 13, 15, 16, 17, 18, 19, 20}, x \in BOOLEAN, a \in {0, 1, 4, 6}}
Words == Numbers \union {Email, Mark("word")}
AskFilters ==
    /\ Fresh
    /\ \/ \E matches \in SUBSET Range(Layers) :
            Ask("content", [matches |-> matches, text |-> <<>>, injected |-> FALSE],
                [check |-> CheckContent(matches), out |-> Sanitize(<<>>, FALSE),
                 promoted |-> SanitizeContent(<<>>)])
       \/ \E one, two \in Words, injected \in BOOLEAN :
            Ask("content", [matches |-> {}, text |-> <<one, two>>, injected |-> injected],
                [check |-> CheckContent({}), out |-> Sanitize(<<one, two>>, injected),
                 promoted |-> SanitizeContent(<<one, two>>)])

(* A socket opens only with a token the gateway signed; a token in the query
   is the one that counts, and else the first that the client offers. *)
SocketGuarded(q, code) ==
    /\ code = 101 => \E t \in {q.query} \union Range(q.offered) : DecodeToken(t) # Refused
    /\ code = 4001 /\ DecodeToken(q.query) # Refused => FALSE
    /\ q.query.made \notin {"absent", "empty"} =>
         (code = 101 <=> DecodeToken(q.query) # Refused)

(* The gateway's checks, the roles behind them and the filters of what a
   message may say (create_app, the middlewares, the two RBAC tables,
   ContentSecurityChecker, PatternSanitizer, sanitize_content). *)
GatewayDecides ==
    LET q == question.in IN
    /\ question.kind = "gateway" => GatewayGuards(q, answer)
    /\ question.kind = "socket" => SocketGuarded(q, answer)
    /\ question.kind = "content" =>
         /\ FiltersHold(q.matches, answer.check, q.text, q.injected, answer.out)
         /\ PromotionClean(q.text, answer.promoted)
    /\ Fresh => RolesOrdered

-----------------------------------------------------------------------------
(* Turns, skills, tools, metering and settings. *)
RuleNames == {"", "brand_hq", "franchise_store", "kiosk"}
Rules == [orgTier : RuleNames, roleKey : {"", "brand_hq"}, tone : {"", "warm"}]
CustomPersonas == {<<>>, [brand_hq |-> Persona("house", "warm", 2, "concise")]}
AskPersona ==
    /\ Fresh
    /\ \E tier \in Tiers \union {NoTier, "kiosk"}, custom \in CustomPersonas, n \in 0..2 :
         \E rules \in [1..n -> Rules] :
            Ask("persona", [tier |-> tier, rules |-> rules, custom |-> custom],
                ResolvePersona(tier, rules, custom))

Messages == {{}, {"merchandising"}, {"product description", "create article"},
             {"write product", "merchandising"}}
AskTurn ==
    /\ Fresh
    /\ \E c \in [classifier : BOOLEAN, message : Messages, memory : {"works", "fails"},
                 skill : {"none", "unrouted", "succeeds", "fails", "raises"},
                 model : {"answers", "silent", "fails"}, tracker : BOOLEAN,
                 store : {"none", "works", "half", "fails"},
                 pipeline : {"none", "works", "fails"}] :
         Ask("turn", c, Turn(c))

(* Long histories, all of the user but for a few answers and blanks. *)
Talk(n, answers, blanks) ==
    [i \in 1..n |-> [role |-> IF i \in answers THEN "assistant" ELSE "user",
                     content |-> IF i \in blanks THEN "" ELSE ToString(i)]]
SystemPrompts == {"", "system"}
AskPrompt ==
    /\ Fresh
    /\ \E n \in {0, 2, 10, 11, 13}, system \in SystemPrompts,
          answers, blanks \in SUBSET {2, 10, 11, 13} :
         LET history == Talk(n, answers, blanks) IN
         Ask("prompt", [history |-> history, system |-> system],
             BuildPrompt(system, history, "query"))

AskParams ==
    /\ Fresh
    /\ \E params \in [{"topic", "platform", "persona", "max_length"} ->
                         {"absent", "blank", "text", "number"}] :
         Ask("params", [params |-> params, required |-> WriterRequired, specs |-> WriterSpecs],
             ValidateParams(params, WriterRequired, WriterSpecs))
    \/ /\ Fresh
       /\ \E params \in [{"sku_id", "max_combinations"} -> {"absent", "blank", "text", "number"}] :
            Ask("params", [params |-> params, required |-> MerchandisingRequired,
                           specs |-> MerchandisingSpecs],
                ValidateParams(params, MerchandisingRequired, MerchandisingSpecs))

OutfitRules == [source : {"s", "t"}, score : {5, 6, 9}, category : {"", "shoes", "hats"}]
Categories == {"", "shoes"}
AskOutfits ==
    /\ Fresh
    /\ \E n \in 0..3, category \in Categories, maximum \in {0, 1, 5} :
         \E rules \in [1..n -> OutfitRules] :
            Ask("outfits", [rules |-> rules, sku |-> "s", category |-> category,
                            minScore |-> 6, maximum |-> maximum],
                GenerateCombinations(rules, "s", category, 6, maximum))

AskTool ==
    /\ Fresh
    /\ \/ \E q \in [tool : {"image_analyze", "audio_transcribe"},
                    source : AllowedSources \union {"none", "ftp"},
                    storage : {"none", "answers", "fails"}, size : {10, 11, 25, 26},
                    backend : {"none", "answers", "fails"}] :
            Ask("media", q, ReadMedia(q.tool, q.source, q.storage, q.size, q.backend))
       \/ \E q \in [query : BOOLEAN, topK : {1, 10}, backend : {"none", "answers", "fails"},
                    found : {0, 3, 20}] :
            Ask("web", q, SearchWeb(q.query, q.topK, q.backend, q.found))

ModelNames == [name : {"", "m"}, provider : {"", "own"}]
DefaultModels == [name : {"d"}, provider : {"", "own"}]
AskModel ==
    /\ Fresh
    /\ \E given \in ModelNames, default \in DefaultModels,
          ownUrl, prompt \in BOOLEAN, n \in 0..3 :
         \E parts \in [1..n -> {"image", "text", "image_without_media"}] :
            Ask("model", [given |-> given, default |-> default, ownUrl |-> ownUrl,
                          prompt |-> prompt \/ parts = <<>>, parts |-> parts],
                [model |-> RequestedModel(given, default, ownUrl),
                 blocks |-> BuildMessages(prompt \/ parts = <<>>, parts)])

AskUsage ==
    /\ Fresh
    /\ \E n \in 0..3 :
         \E used \in [1..n -> [org : {"o1", "o2"}, input : {0, 2}, output : {1, 3}]],
            limit \in {NoLimit, 0, 5}, estimate \in {0, 1} :
            LET records == [i \in 1..n |-> [at |-> i, org |-> used[i].org,
                                            input |-> used[i].input, output |-> used[i].output]]
            IN Ask("usage", [records |-> records, limit |-> limit, estimate |-> estimate],
                   OrgSummary(records, "o1"))

AskSettings ==
    /\ Fresh
    /\ \E n \in 0..4 : \E chain \in [1..n -> [value : {Unset, 1, 2}, locks : BOOLEAN]] :
         Ask("settings", chain, ResolveSettings(chain))

Markup == {"<", ">", "&", "a"}
Quoted == <<"'", "quote", "amp;", "&">>
Short == UNION {[1..n -> Markup] : n \in 0..5}
Texts == Short \union {Quoted}
AskMarkup ==
    /\ Fresh
    /\ \E text \in Texts :
         Ask("markup", text, [stripped |-> StripTags(text), escaped |-> EscapeHTML(text)])

(* A search keeps the backend's first results and no more than asked for. *)
WebAnswers(q, result) ==
    /\ result.results <= Min({q.topK, q.found})
    /\ result.status = "error" <=> ~q.query \/ q.backend = "fails"
    /\ ~q.query => ~result.reached

(* The model reads the message last and the system prompt first; of a long
   history it reads an unbroken end; and whatever the search for context was
   rewritten from is among what it reads. *)
PromptHolds(history, system, prompt) ==
    LET told == IF system = "" THEN prompt ELSE Tail(prompt) IN
    /\ Last(prompt) = [role |-> "user", content |-> "query"]
    /\ system # "" => Head(prompt).role = "system"
    /\ Len(told) = Min({Len(history), HistoryShown}) + 1
    /\ \A i \in DOMAIN Front(told) : told[i] = history[Len(history) - Len(Front(told)) + i]
    /\ Range(RewriteQuery("query", history)) \subseteq
         {m.content : m \in {e \in Range(prompt) : e.role = "user"}}

(* One turn and what its parts compute: voice, intent, skills, tools, the
   model's input, metering, inherited settings and the markup of what is shown
   (RoleAdapter, ConversationEngine.process_message, the skills and tools,
   UsageTracker, resolve_settings, stripTags and escapeHTML). *)
ContentDecides ==
    LET q == question.in IN
    /\ question.kind = "persona" => PersonaFits(q.tier, q.rules, q.custom, answer)
    /\ question.kind = "turn" => TurnHolds(q, answer)
    /\ question.kind = "prompt" => PromptHolds(q.history, q.system, answer)
    /\ question.kind = "params" => ParamsChecked(q.params, q.required, q.specs, answer)
    /\ question.kind = "outfits" =>
         SelectionBest(q.rules, q.sku, q.category, q.minScore, q.maximum, answer)
    /\ question.kind = "media" =>
         MediaGuarded(q.tool, q.source, q.storage, q.size, q.backend, answer)
    /\ question.kind = "web" => WebAnswers(q, answer)
    /\ question.kind = "model" =>
         MessageKept(q.given, q.default, q.ownUrl, q.prompt, q.parts,
                     answer.model, answer.blocks)
    /\ question.kind = "usage" =>
         /\ MeteringWhole(q.records, "o1", q.limit, q.estimate)
         /\ answer = OrgSummary(q.records, "o1")
    /\ question.kind = "settings" => SettingsLocked(q, answer)
    /\ question.kind = "markup" => MarkupHarmless(q, answer.stripped, answer.escaped)

-----------------------------------------------------------------------------
(* Shared helpers. *)
Leaves == UNION {[1..n -> {"key", "secret_key", "item"}] : n \in 1..3}
AskRedaction ==
    /\ Fresh
    /\ \E one, two \in Leaves, given, own \in {Blank, "E1"} : LET context == {one, two} IN
         Ask("redaction", context, StructuredError(given, own, "ValueError", context))

AskLabel ==
    /\ Fresh
    /\ \E n \in 1..5 : \E parts \in [1..n -> PathPart] :
         /\ parts[1] = Blank
         /\ Ask("label", parts, NormalizePath(parts))

Objects == {"k1", "k2", "k3"}
AskStorage ==
    /\ Fresh
    /\ \/ \E connected \in BOOLEAN, objects, keys, failing \in SUBSET Objects :
            Ask("batch", [objects |-> objects, keys |-> keys],
                DeleteObjects(connected, objects, keys, failing))
       \/ \E connected \in BOOLEAN,
             object \in {"missing", "forbidden", "unreachable", "with_sha256", "with_etag"} :
            Ask("head", object, HeadObject(connected, object))

AskConfidence ==
    /\ Fresh
    /\ \E base \in {0, 20, 30, 60, 90}, validAt, now \in 1..4, validatedAt \in 0..4,
          threshold \in {0, 30} :
         Ask("confidence", [base |-> base, validAt |-> validAt, validatedAt |-> validatedAt,
                            now |-> now, threshold |-> threshold],
             IsStale(base, validAt, validatedAt, now, threshold))

AuditLogs == UNION {[1..n -> [action : {"login", "update"}, user : {"a", "b"}, at : {1, 2, 3, 4, 5}]] :
                      n \in 0..2}
AskAudit ==
    /\ Fresh
    /\ \E log \in AuditLogs,
          f \in [action : {"all", "login"}, user : {Blank, "a"}, from : {NoDay, 1}, to : {NoDay, 0, 1}] :
         Ask("audit", [log |-> log, filters |-> f], FilterAudit(log, f))

AskRetry ==
    /\ Fresh
    /\ \E most \in 0..3 : \E outcomes \in [1..(1 + most) -> {"returns", "retriable", "fatal"}] :
         Ask("retry", [outcomes |-> outcomes, most |-> most], RetryWithBackoff(outcomes, most))

TokenCalls == UNION {[1..n -> [mode : {"saas", "private"}, token : {Blank, "t1", "t2"}]] : n \in 0..3}
AskHeader ==
    /\ Fresh
    /\ \E given \in {"unset", "saas", "private"}, deployMode \in {Blank, "saas", "SaaS"}, calls \in TokenCalls :
         LET mode == CreateTokenStore(given, deployMode) IN
         Ask("header", [mode |-> mode, calls |-> calls], GetAuthHeader(mode, calls))

AskReport ==
    /\ Fresh
    /\ \E context \in SUBSET {"Token", "token", "apiKey", "apikey", "userId"},
          endpoint, production \in BOOLEAN :
         Ask("report", [context |-> context, endpoint |-> endpoint, production |-> production],
             ReportError(context, endpoint, production))

(* Records without secrets, labels that do not multiply, batches that report
   what happened, items that age, logs that show what was chosen, retries that end, headers
   and reports that give nothing away (StructuredError, _normalize_path,
   S3Adapter, confidence_effective, AuditPage, retry_with_backoff, the token
   stores, reportError). *)
HelpersDecide ==
    LET q == question.in IN
    /\ question.kind = "redaction" => RecordSafe(q, answer)
    /\ question.kind = "label" => LabelsFew(q, answer)
    /\ question.kind = "batch" => BatchReported(q.objects, q.keys, answer)
    /\ question.kind = "head" => (answer = "FileNotFoundError" => q = "missing")
    /\ question.kind = "confidence" => DecayOrdered(q)
    /\ question.kind = "audit" => AuditFiltered(q.log, q.filters, answer)
    /\ question.kind = "retry" => RetryBounded(q.outcomes, q.most, answer)
    /\ question.kind = "header" => HeaderFits(q.mode, q.calls, answer)
    /\ question.kind = "report" => ReportSafe(q.context, q.endpoint, q.production, answer)

(* What stands at the edge of the program: who is let in, what may be said, and
   what is noted of it all. *)
AccessDecides == GatewayDecides /\ HelpersDecide

-----------------------------------------------------------------------------
Next ==
    \/ AskFusion \/ AskSearch \/ AskAllocation \/ AskTruncation \/ AskContext
    \/ AskGateway \/ AskSocket \/ AskFilters
    \/ AskPersona \/ AskTurn \/ AskPrompt \/ AskParams \/ AskOutfits \/ AskTool \/ AskModel
    \/ AskUsage \/ AskSettings \/ AskMarkup
    \/ AskRedaction \/ AskLabel \/ AskStorage \/ AskConfidence \/ AskAudit
    \/ AskRetry \/ AskHeader \/ AskReport

Spec == Init /\ [][Next]_<<question, answer>>
=============================================================================
