------------------------------- MODULE Content -------------------------------
(* What one turn of a conversation decides, and what its parts compute: the
   persona, the intent, the way from a message to its answer, the built-in
   skills and tools, the call of a model, what is metered, and the settings an
   organisation inherits.

   Covered: RoleAdapter, IntentClassifier, process_message, the two skills and
   validate_params, the three tools, LiteLLMGatewayAdapter, UsageTracker,
   resolve_settings and merge_settings, AuditEventWriter.
   Not covered: wording, scores other than their order. *)
EXTENDS Integers, FiniteSets, Sequences, FiniteSetsExt, SequencesExt, Functions, Lists

-----------------------------------------------------------------------------
(* resolve_persona: a rule of the knowledge for this tier, a custom persona,
   the built-in one, the fallback.  Custom personas replace whole tiers. *)
Persona(key, tone, formality, style) ==
    [key |-> key, tone |-> tone, formality |-> formality, style |-> style]
DefaultPersonas ==
    [platform |-> Persona("platform", "professional", 4, "detailed"),
     brand_hq |-> Persona("brand_hq", "professional", 4, "detailed"),
     brand_dept |-> Persona("brand_dept", "professional", 3, "concise"),
     regional_agent |-> Persona("regional_agent", "friendly", 2, "concise"),
     franchise_store |-> Persona("franchise_store", "casual", 1, "storytelling")]
Tiers == DOMAIN DefaultPersonas
FallbackPersona == Persona("default", "professional", 3, "concise")
NoTier == "no organisation"

(* A rule names its tier as org_tier or, when that is empty, as role_key; what
   else it does not say is taken from the defaults of a rule. *)
RuleTier(rule) == IF rule.orgTier # "" THEN rule.orgTier ELSE rule.roleKey
RulePersona(tier, rule) ==
    Persona(tier, IF rule.tone # "" THEN rule.tone ELSE "professional", 3, "concise")
ResolvePersona(tier, rules, custom) ==
    LET known == {n \in DOMAIN rules : RuleTier(rules[n]) = tier}
    IN IF tier = NoTier THEN FallbackPersona
       ELSE IF known # {} THEN RulePersona(tier, rules[Min(known)])
       ELSE IF tier \in DOMAIN custom THEN custom[tier]
       ELSE IF tier \in Tiers THEN DefaultPersonas[tier]
       ELSE FallbackPersona

-----------------------------------------------------------------------------
(* classify_detailed: the first trigger, in the order of the table, that the
   message contains; a message is the set of the triggers in it. *)
Triggers == << <<"generate content", "content_writing">>,
               <<"create article", "content_writing">>,
               <<"write product", "content_writing">>,
               <<"merchandising", "merchandising">>,
               <<"product description", "product_recommendation">> >>
Classify(message) ==
    LET contained == {n \in DOMAIN Triggers : Triggers[n][1] \in message} IN
    IF contained = {} THEN [intent |-> "chat", skill |-> "none"]
    ELSE [intent |-> "skill", skill |-> Triggers[Min(contained)][2]]

(* process_message.  c says how every collaborator behaves in this turn; "none"
   is one that was not given.  Only the assembler's memory and the model are
   hard dependencies: their failure ends the turn with nothing recorded. *)
BySkill(c) ==
    /\ c.classifier /\ Classify(c.message).intent = "skill"
    /\ c.skill = "succeeds"
TurnFails(c) == c.memory = "fails" \/ (~BySkill(c) /\ c.model = "fails")
NoTurn == [by |-> "nobody", metered |-> FALSE, events |-> <<>>, remembered |-> FALSE]
Turn(c) ==
    IF TurnFails(c) THEN NoTurn
    ELSE [by |-> IF BySkill(c) THEN "skill" ELSE "model",
          metered |-> c.tracker /\ ~BySkill(c) /\ c.model = "answers",
          events |-> CASE c.store = "works" -> <<"user_message", "assistant_message">>
                       [] c.store = "half" -> <<"user_message">>
                       [] OTHER -> <<>>,
          remembered |-> c.pipeline = "works"]

(* What the model is given to read: the system prompt if there is one, the end
   of the history, the message. *)
HistoryShown == 10
BuildPrompt(system, history, message) ==
    (IF system = "" THEN <<>> ELSE <<[role |-> "system", content |-> system]>>)
    \o SubSeq(history, Max({1, Len(history) - HistoryShown + 1}), Len(history))
    \o <<[role |-> "user", content |-> message]>>

-----------------------------------------------------------------------------
(* validate_params: what is required is there and not blank; then the types of
   what is given.  A parameter is "absent", "blank", "text" or "number". *)
ValueOf(params, p) == IF p \in DOMAIN params THEN params[p] ELSE "absent"
ValidateRequired(params, required) ==
    {p \in required : ValueOf(params, p) \in {"absent", "blank"}}
ValidateTypes(params, specs) ==
    {p \in DOMAIN specs : LET v == ValueOf(params, p) IN
        v # "absent" /\ (IF v = "number" THEN "int" ELSE "str") # specs[p]}
ValidateParams(params, required, specs) ==
    IF ValidateRequired(params, required) # {} THEN ValidateRequired(params, required)
    ELSE ValidateTypes(params, specs)

WriterRequired == {"topic", "platform"}
WriterSpecs == [topic |-> "str", platform |-> "str", persona |-> "str",
                max_length |-> "int"]
MerchandisingRequired == {"sku_id"}
MerchandisingSpecs == [sku_id |-> "str", category |-> "str", max_combinations |-> "int"]

(* The content writer names the first three of the entities that have a name,
   and cuts the topic, here its length. *)
WriteContent(names, topic, maxLength) ==
    LET Named(n) == n # ""
        given == SelectSeq(names, Named)
    IN [brands |-> SubSeq(given, 1, Min({3, Len(given)})),
        topic |-> Min({topic, maxLength}), used |-> Len(names)]

(* Outfit combinations: the rules that start at the SKU, score enough and are
   of the category or of none, the best first, equals in the rules' order. *)
Fitting(rule, sku, category, minScore) ==
    /\ rule.source = sku
    /\ rule.score >= minScore
    /\ category = "" \/ rule.category = "" \/ rule.category = category
ByRuleScore(rules) == {p \in PlacePairs(rules) : rules[p[1]].score > rules[p[2]].score}
GenerateCombinations(rules, sku, category, minScore, maximum) ==
    LET fitting == Chosen(rules, {n \in DOMAIN rules :
                                    Fitting(rules[n], sku, category, minScore)})
    IN First(maximum, Sorted(fitting, ByRuleScore(fitting)))

-----------------------------------------------------------------------------
(* The tools.  Each failure is an answer of its own; "reached" is whether the
   backend was asked.  Sizes are in megabytes. *)
ToolError(reached) == [status |-> "error", results |-> 0, reached |-> reached]
SearchWeb(query, topK, backend, found) ==
    IF ~query THEN ToolError(FALSE)
    ELSE IF backend = "fails" THEN ToolError(TRUE)
    ELSE [status |-> "success", reached |-> backend # "none",
          results |-> IF backend = "none" THEN 0 ELSE Min({topK, found})]

MaxImageSize == 10
MaxAudioSize == 25
SizeLimit(tool) == IF tool = "image_analyze" THEN MaxImageSize ELSE MaxAudioSize
AllowedSources == {"https", "localhost", "minio"}
ReadMedia(tool, source, storage, size, backend) ==
    IF source \notin AllowedSources THEN ToolError(FALSE)
    ELSE IF storage = "fails" THEN ToolError(FALSE)
    ELSE IF storage = "answers" /\ size > SizeLimit(tool) THEN ToolError(FALSE)
    ELSE IF backend = "fails" THEN ToolError(TRUE)
    ELSE [status |-> "success", results |-> 1, reached |-> backend # "none"]

(* The call of a model: the name, with a provider where the API is one's own,
   and one message with the prompt or with a block for every part. *)
RequestedModel(given, default, ownUrl) ==
    LET model == IF given.name # "" THEN given ELSE default IN
    [model EXCEPT !.provider = IF ownUrl /\ @ = "" THEN "openai" ELSE @]
BuildBlock(part) ==
    CASE part = "image" -> "image_url"
      [] part = "text" -> "text"
      [] OTHER -> "text_fallback"
BuildMessages(prompt, parts) ==
    IF parts = <<>> THEN <<"prompt">>
    ELSE (IF prompt THEN <<"prompt">> ELSE <<>>) \o [i \in DOMAIN parts |-> BuildBlock(parts[i])]

-----------------------------------------------------------------------------
(* The usage records, in the order of recording. *)
RecordsOf(records, org) == Chosen(records, {i \in DOMAIN records : records[i].org = org})
OrgSummary(records, org) ==
    LET own == RecordsOf(records, org) IN
    [input |-> Total([i \in DOMAIN own |-> own[i].input]),
     output |-> Total([i \in DOMAIN own |-> own[i].output]),
     count |-> Len(own)]
NoLimit == -1
CheckBudget(records, org, limit, estimate) ==
    LET summary == OrgSummary(records, org) IN
    limit = NoLimit \/ summary.input + summary.output + estimate <= limit
RecordsForOrg(records, org, limit) ==
    LET newest == Reverse(RecordsOf(records, org)) IN
    IF limit = NoLimit THEN newest ELSE First(limit, newest)

(* The settings of one key, from the root of the organisations to the leaf: a
   node sets a value or not, and locks the key or not. *)
Unset == 0
NoEntry == [value |-> Unset, locked |-> FALSE, source |-> 0]
EntryOf(node, org) == [value |-> node.value, locked |-> node.locks, source |-> org]
(* How it could go wrong: the lock of an ancestor forgotten. *)
ApplyOverLock(acc, node, org) ==
    IF node.value = Unset THEN acc
    ELSE [entry |-> EntryOf(node, org), closed |-> node.locks]

ApplyNode(acc, node, org) ==
    IF node.value = Unset \/ acc.closed THEN acc
    ELSE [entry |-> EntryOf(node, org), closed |-> node.locks]
Settings == [value : Nat, locks : BOOLEAN]
NothingApplied == [entry |-> NoEntry, closed |-> FALSE]
Applied[chain \in Seq(Settings)] ==
    IF chain = <<>> THEN NothingApplied
    ELSE ApplyNode(Applied[Front(chain)], Last(chain), Len(chain))
ResolveSettings(chain) == Applied[chain].entry

(* The same, level by level: what a node adds to the settings of its parent. *)
MergeSettings(parent, node, org) ==
    IF node.value = Unset \/ (parent # NoEntry /\ parent.locked) THEN parent
    ELSE EntryOf(node, org)
Merged[chain \in Seq(Settings)] ==
    IF chain = <<>> THEN NoEntry
    ELSE MergeSettings(Merged[Front(chain)], Last(chain), Len(chain))

(* An audit event is written with an organisation and an action that is not
   blank, or not at all. *)
WriteAudit(events, hasOrg, action) ==
    IF hasOrg /\ action # "blank" THEN Append(events, action) ELSE events

-----------------------------------------------------------------------------
(* A tier is spoken to in its own voice: by a rule of the knowledge for this
   very tier where there is one, never by another's; a custom persona stands
   in only where the knowledge is silent; nobody is left without one. *)
PersonaFits(tier, rules, custom, persona) ==
    LET own == {i \in DOMAIN rules : RuleTier(rules[i]) = tier} IN
    /\ tier # NoTier /\ own # {} =>
         persona = RulePersona(tier, rules[CHOOSE i \in own : \A j \in own : i <= j])
    /\ tier # NoTier /\ own = {} /\ tier \in DOMAIN custom => persona = custom[tier]
    /\ tier \in Tiers => persona.key \in {tier} \union {custom[t].key : t \in DOMAIN custom}
    /\ tier \notin Tiers \union DOMAIN custom /\ own = {} => persona.key = "default"
    /\ persona.formality \in 1..5

(* Whatever fails in a turn: somebody answers or nothing is kept; a skill that
   cannot answer leaves the turn to the model; only a model's answer is metered;
   an answer is never on record without its question; and the best effort parts
   change nothing of the answer. *)
TurnHolds(c, t) ==
    /\ t.by = "nobody" => t = NoTurn
    /\ t.by = "skill" => c.message # {} /\ ~t.metered
    /\ c.memory = "works" /\ (c.skill # "succeeds" \/ c.message = {}) =>
         (t.by = "model" <=> c.model # "fails")
    /\ t.by = "model" /\ c.tracker /\ c.model = "answers" => t.metered
    /\ "assistant_message" \in Range(t.events) => t.events[1] = "user_message"
    /\ t.by = Turn([c EXCEPT !.store = "none", !.pipeline = "none", !.tracker = FALSE]).by

(* A skill runs with all it requires, and what it chose is the best there is:
   no rule left out beats one that was taken, none is taken twice. *)
SelectionBest(rules, sku, category, minScore, maximum, chosen) ==
    LET fitting == {i \in DOMAIN rules : Fitting(rules[i], sku, category, minScore)}
        times(r) == Cardinality({i \in DOMAIN chosen : chosen[i] = r})
    IN /\ Len(chosen) = Min({maximum, Cardinality(fitting)})
       /\ \A i, j \in DOMAIN chosen : i < j => chosen[i].score >= chosen[j].score
       /\ \A i \in DOMAIN chosen :
            times(chosen[i]) <= Cardinality({k \in fitting : rules[k] = chosen[i]})
       /\ \A k \in fitting : times(rules[k]) = 0 =>
            \A i \in DOMAIN chosen : rules[k].score <= chosen[i].score
ParamsChecked(params, required, specs, errors) ==
    errors = {} <=>
        /\ \A p \in required : ValueOf(params, p) \in {"text", "number"}
        /\ \A p \in DOMAIN specs : ValueOf(params, p) = "number" => specs[p] = "int"
        /\ \A p \in DOMAIN specs : ValueOf(params, p) \in {"text", "blank"} => specs[p] = "str"

(* A backend sees no file from elsewhere and none that is too large, and a
   success was not answered by a backend that failed. *)
MediaGuarded(tool, source, storage, size, backend, result) ==
    /\ result.reached => source \in AllowedSources /\ storage # "fails"
    /\ result.reached /\ storage = "answers" => size <= SizeLimit(tool)
    /\ result.status = "success" => backend # "fails" /\ source # "none"

(* Every part of a message reaches the model, in order and as one block; the
   name of a model has one provider at most, the caller's own if it has one. *)
MessageKept(given, default, ownUrl, prompt, parts, model, blocks) ==
    LET asked == IF given.name # "" THEN given ELSE default IN
    /\ model.name = asked.name
    /\ model.provider = IF asked.provider = "" /\ ownUrl THEN "openai" ELSE asked.provider
    /\ Len(blocks) = Max({1, Len(parts) + (IF prompt THEN 1 ELSE 0)})
    /\ \A i \in DOMAIN parts :
         parts[i] = "image" <=> blocks[Len(blocks) - Len(parts) + i] = "image_url"

(* What is metered is accounted to one organisation, all of it, and read back
   newest first; a budget is refused exactly when the estimate passes it. *)
MeteringWhole(records, org, limit, estimate) ==
    LET orgs == {records[i].org : i \in DOMAIN records}
        Tokens(o) == OrgSummary(records, o).input + OrgSummary(records, o).output
        all == Total([i \in DOMAIN records |-> records[i].input + records[i].output])
        others == Total([o \in orgs \ {org} |-> Tokens(o)])
        read == RecordsForOrg(records, org, NoLimit)
    IN /\ Total([o \in orgs |-> Tokens(o)]) = all
       /\ Len(read) = OrgSummary(records, org).count
       /\ \A i, j \in DOMAIN read : i < j => read[i].at > read[j].at
       /\ \A n \in 0..Len(read) : IsPrefix(RecordsForOrg(records, org, n), read)
       /\ limit # NoLimit =>
            (CheckBudget(records, org, limit, estimate) <=> all - others + estimate <= limit)

(* The value of the highest organisation that sets and locks it holds for all
   below; without a lock the lowest that sets it decides; a lock on what is not
   set locks nothing; and merging level by level gives the same. *)
SettingsLocked(chain, entry) ==
    LET setters == {i \in DOMAIN chain : chain[i].value # Unset}
        lockers == {i \in setters : chain[i].locks}
    IN /\ setters = {} <=> entry = NoEntry
       /\ lockers # {} => entry.source = Min(lockers) /\ entry.locked
       /\ lockers = {} /\ setters # {} => entry.source = Max(setters) /\ ~entry.locked
       /\ setters # {} => entry.value = chain[entry.source].value
       /\ Merged[chain] = entry
=============================================================================
