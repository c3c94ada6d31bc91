----------------------------- MODULE MCServices -----------------------------
(* The services around the conversation, each explored on its own: "part" says
   which one moves, and the variables of the others keep their initial value. *)
EXTENDS MemoryItems, DeferredWork, Skills, Accounts, Limits, Delivery,
        Schema, Entities, Operations, Twins

VARIABLE part

MCOwners == {<<"u1", "o1">>, <<"u2", "o2">>}
MCKnowledgeOf ==
    [rule |-> [type |-> "RoleAdaptationRule", org |-> "other", visibility |-> "global"],
     own |-> [type |-> "BrandKnowledge", org |-> "mine", visibility |-> "store"],
     shared |-> [type |-> "BrandKnowledge", org |-> "other", visibility |-> "brand"],
     public |-> [type |-> "BrandKnowledge", org |-> "other", visibility |-> "global"],
     foreign |-> [type |-> "BrandKnowledge", org |-> "other", visibility |-> "store"]]
MCIntentsOf == [s \in SkillIds |-> IF s = "merchandising" THEN {"i1"} ELSE {"i1", "i2"}]

serviceVars == <<itemVars, deferredVars, skillVars, accountVars, limitVars,
                 deliveryVars, schemaVars, entityVars, operationVars,
                 twinVars, part>>
Others(p) ==
    /\ UNCHANGED part
    /\ p # "items" => UNCHANGED itemVars
    /\ p # "deferred" => UNCHANGED deferredVars
    /\ p # "skills" => UNCHANGED skillVars
    /\ p # "accounts" => UNCHANGED accountVars
    /\ p # "limits" => UNCHANGED limitVars
    /\ p # "delivery" => UNCHANGED deliveryVars
    /\ p # "schema" => UNCHANGED schemaVars
    /\ p # "entities" => UNCHANGED entityVars
    /\ p # "operations" => UNCHANGED operationVars
    /\ p # "twins" => UNCHANGED twinVars

Init ==
    /\ part \in {"items", "deletion", "outbox", "tasks", "skills", "accounts",
                 "rate", "budget", "fuse", "streams", "uploads", "schema",
                 "types", "resolver", "seeding",
                 "service", "sessions", "cache", "signals", "twins",
                 "entries"}
    /\ ItemsInit /\ (store = "pg" \/ part = "items")
    /\ DeletionInit /\ (deletion.first = "active" \/ part = "deletion")
    /\ OutboxInit /\ TasksInit /\ SkillsInit /\ AccountsInit
    /\ RateInit /\ BudgetInit /\ FuseInit
    /\ StreamsInit /\ UploadsInit /\ (now[1] + now[2] = 0 \/ part = "uploads")
    /\ SchemaInit
    /\ TypesInit /\ ResolverInit
    /\ SeedingInit /\ (~seeding.disk \/ part = "seeding")
    /\ ServiceInit
    /\ (service.stored = {} /\ ~service.collection) \/ part = "service"
    /\ SessionsInit /\ CacheInit /\ SignalsInit /\ TwinsInit

Next ==
    \/ part = "items" /\ ItemsNext /\ Others("items")
    \/ part = "deletion" /\ DeletionNext /\ Others("deferred")
    \/ part = "outbox" /\ OutboxNext /\ Others("deferred")
    \/ part = "tasks" /\ TasksNext /\ Others("deferred")
    \/ part = "skills" /\ SkillsNext /\ Others("skills")
    \/ part = "accounts" /\ AccountsNext /\ Others("accounts")
    \/ part = "rate" /\ RateNext /\ Others("limits")
    \/ part = "budget" /\ BudgetNext /\ Others("limits")
    \/ part = "fuse" /\ FuseNext /\ Others("limits")
    \/ part = "streams" /\ StreamsNext /\ Others("delivery")
    \/ part = "uploads" /\ UploadsNext /\ Others("delivery")
    \/ part = "schema" /\ SchemaNext /\ Others("schema")
    \/ part = "types" /\ TypesNext /\ Others("entities")
    \/ part = "resolver" /\ ResolverNext /\ Others("entities")
    \/ part = "seeding" /\ SeedingNext /\ Others("entities")
    \/ part = "service" /\ ServiceNext /\ Others("operations")
    \/ part = "sessions" /\ SessionsNext /\ Others("operations")
    \/ part = "cache" /\ CacheNext /\ Others("operations")
    \/ part = "signals" /\ SignalsNext /\ Others("operations")
    \/ part = "twins" /\ TwinsNext /\ Others("twins")
    \/ part = "entries" /\ EntriesNext /\ Others("twins")

Spec == Init /\ [][Next]_serviceVars

-----------------------------------------------------------------------------
(* While a part moves, the others are in their initial states, which the
   behaviours of their own begin with: a property is asked of the part it is
   about. *)
Of(parts, holds) == part \in parts => holds

(* Each service keeps its types. *)
ServicesTypeOK ==
    /\ Of({"items"}, ItemsTypeOK)
    /\ Of({"deletion", "outbox", "tasks"}, DeferredTypeOK)
    /\ Of({"skills"}, SkillsTypeOK)
    /\ Of({"accounts"}, AccountsTypeOK)
    /\ Of({"rate", "budget", "fuse"}, LimitsTypeOK)
    /\ Of({"streams", "uploads"}, DeliveryTypeOK)
    /\ Of({"schema"}, SchemaTypeOK)
    /\ Of({"types", "resolver", "seeding"}, EntitiesTypeOK)
    /\ Of({"service", "sessions", "cache", "signals"}, OperationsTypeOK)
    /\ Of({"twins", "entries"}, TwinsTypeOK)

(* What is read for a user or an organisation is theirs or shared, and of the
   time the reading began, whatever changes between its queries: memories
   (PgMemoryCoreAdapter), knowledge (DiyuResolver), rows behind the policies
   (get_db_session). *)
AnswersScoped ==
    /\ Of({"items"}, RetrievalScoped)
    /\ Of({"resolver"}, BundleScoped)
    /\ Of({"sessions"}, SessionsScoped)

(* Racing updates leave version chains that tell the truth, and an item that a
   pipeline reports as created has its receipt, also when commits fail or their
   answers are lost (PgMemoryItemStore, MemoryWritePipeline); what the cache
   gives was put there and has not expired (RedisStorageAdapter); and what a
   store in memory answers is what the stores it stands for do (module Twins). *)
MemoryKept ==
    /\ Of({"items"}, VersionChains /\ ReceiptsMatchReports)
    /\ Of({"cache"}, CacheTruthful)
    /\ Of({"twins"}, TwinsAgree)
    /\ Of({"entries"}, EntriesAgree)

(* Work put off is neither skipped nor done by two (DeletionFSM, OutboxPoller). *)
DeferredHolds ==
    /\ Of({"deletion"}, DeletionTrail)
    /\ Of({"outbox"}, ClaimsExclusive)

(* Who may act: a skill that is active when it starts, a role that was granted,
   an entity type's first owner (LifecycleRegistry, the auth API,
   EntityTypeRegistry). *)
GrantsHold ==
    /\ Of({"skills"}, ActiveSkillsRun)
    /\ Of({"accounts"}, TokensAreEarned)
    /\ Of({"types"}, TypesOwned)

(* Rate, budget and fuse bound what they promise to bound, also for requests
   that were checked before others were charged; and what is measured of
   requests that overlap adds up (golden_signals_middleware). *)
UseIsBounded ==
    /\ Of({"rate"}, RateRespected)
    /\ Of({"budget"}, BudgetHolds)
    /\ Of({"fuse"}, FuseHolds)
    /\ Of({"signals"}, SignalsAddUp)

(* Events reach a browser in order and once, an upload is confirmed once and by
   its tenant (SSEBroadcaster, the upload API). *)
DeliveredInOrder ==
    /\ Of({"streams"}, StreamsInOrder)
    /\ Of({"uploads"}, UploadsConfirmedOnce)

(* However migrations, deletions, a bootstrap or a start of the service were cut
   or repeated: one schema per revision, no reference to what is gone, vectors
   only in a graph whose relationships are made and a repeated bootstrap stopped
   by its first constraint, no service that has half of what it needs. *)
SchemaHolds ==
    /\ Of({"schema"}, SchemaAsDeclared /\ RowsConnected)
    /\ Of({"seeding"}, SeedSound)
    /\ Of({"service"}, ServiceWhole)
=============================================================================
