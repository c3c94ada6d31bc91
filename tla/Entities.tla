------------------------------- MODULE Entities -------------------------------
(* What the knowledge layer knows of its entities: the registry of their types,
   the resolver that answers from the graph and then asks the vectors of every
   node it found, and the schema and seed data of a new graph.

   Covered: EntityTypeRegistry, DiyuResolver, apply_schema, the demo and the
   disk seed, seed_graph, seed_vectors.
   Not covered: properties of nodes, scores and texts of points. *)
EXTENDS Naturals, FiniteSets, Sequences, FiniteSetsExt, SequencesExt

CONSTANTS NewTypes,       \* entity types skills register
          TypeOwners,     \* who registers: "core" and skills
          MaxTypeChanges, \* bound: successful changes of the registry
          KnowledgeOf,    \* node -> [type, org, visibility]
          ResolveLimit,   \* limit of a profile (20)
          PointLimit,     \* points asked for per node (5)
          MaxPoints,      \* bound: points of one node
          MaxStoreChanges \* bound: changes of the stores around a query

ASSUME EntitiesAssumption ==
    /\ IsFiniteSet(DOMAIN KnowledgeOf) /\ "core" \in TypeOwners
    /\ ResolveLimit \in Nat /\ PointLimit \in Nat /\ MaxPoints \in Nat

VARIABLES types,    \* type id -> [by, status]
          typeLog,  \* successful changes: <<"register" | "deprecate", id, by>>
          stores,   \* [graph, points, changes]: Neo4j's nodes, Qdrant's points
          query,    \* one resolution in progress or answered
          seeding   \* the bootstrap of an empty graph, cut and repeated

entityVars == <<types, typeLog, stores, query, seeding>>

-----------------------------------------------------------------------------
(* The registry of entity types. *)
CoreTypes == {"Organization", "OrgMember", "RoleAdaptationRule", "BrandTone",
              "BrandKnowledge", "GlobalKnowledge", "StoreInsight",
              "EvolutionProposal"}
CoreSample == {"BrandTone"}   \* the core type a caller names; the eight are alike

TypesInit ==
    /\ types = [t \in CoreTypes |-> [by |-> "core", status |-> "active"]]
    /\ typeLog = <<>>

LogType(change) ==
    /\ Len(typeLog) < MaxTypeChanges
    /\ typeLog' = Append(typeLog, change)
    /\ UNCHANGED <<stores, query, seeding>>

RegisterType(t, by) ==
    /\ t \in CoreTypes => by = "core"
    /\ t \in DOMAIN types => types[t].by = by
    /\ types' = [u \in DOMAIN types \union {t} |->
                   IF u = t THEN [by |-> by, status |-> "active"] ELSE types[u]]
    /\ LogType(<<"register", t, by>>)

DeprecateType(t) ==
    /\ t \in DOMAIN types \ CoreTypes
    /\ types' = [types EXCEPT ![t].status = "deprecated"]
    /\ LogType(<<"deprecate", t, types[t].by>>)

IsWritable(t) == t \in DOMAIN types /\ types[t].status = "active"

TypesNext ==
    \E t \in NewTypes \union CoreSample :
        \/ \E by \in TypeOwners : RegisterType(t, by)
        \/ DeprecateType(t)

-----------------------------------------------------------------------------
(* The resolver.  "default" is another name of brand_context; the last two
   profiles are registered by a caller. *)
Profiles ==
    [role_adaptation |-> [strategy |-> "none", label |-> "RoleAdaptationRule",
                          visible |-> {"global"}],
     brand_context |-> [strategy |-> "graph_first", label |-> "BrandKnowledge",
                        visible |-> {"global", "brand"}],
     by_vector |-> [strategy |-> "vector_first", label |-> "BrandKnowledge",
                    visible |-> {"global", "brand"}],
     both |-> [strategy |-> "parallel", label |-> "BrandKnowledge",
               visible |-> {"global", "brand"}]]
Knowledge == DOMAIN KnowledgeOf
NoQuery == [at |-> "idle", profile |-> "none", chain |-> {}, found |-> {},
            left |-> {}, contents |-> <<>>, failed |-> {}]

ResolverInit ==
    /\ stores = [graph |-> Knowledge, points |-> [n \in Knowledge |-> MaxPoints],
                 changes |-> 0]
    /\ query = NoQuery

(* Both stores change under a resolution, and not together. *)
ChangeStores ==
    /\ stores.changes < MaxStoreChanges
    /\ \/ \E n \in stores.graph :
            stores' = [stores EXCEPT !.graph = @ \ {n}, !.changes = @ + 1]
       \/ \E n \in Knowledge \ stores.graph :
            stores' = [stores EXCEPT !.graph = @ \union {n}, !.changes = @ + 1]
       \/ \E n \in Knowledge, p \in 0..MaxPoints :
            stores' = [stores EXCEPT !.points[n] = p, !.changes = @ + 1]
    /\ UNCHANGED <<types, typeLog, query, seeding>>

(* The graph query: any "limit" of the nodes of the label that belong to the
   chain of organisations or are visible to all. *)
Matching(profile, chain) ==
    {n \in stores.graph : /\ KnowledgeOf[n].type = profile.label
                          /\ \/ KnowledgeOf[n].org \in chain
                             \/ KnowledgeOf[n].visibility \in profile.visible}
ExecuteGraphQuery(name, chain) ==
    /\ query.at # "enriching"
    /\ Profiles[name].strategy \in {"none", "graph_first"}
    /\ LET nodes == Matching(Profiles[name], chain) IN
       \E found \in kSubset(Min({ResolveLimit, Cardinality(nodes)}), nodes) :
          query' = [NoQuery EXCEPT
                      !.at = "enriching", !.profile = name, !.chain = chain,
                      !.found = found,
                      !.left = IF Profiles[name].strategy = "none" THEN {} ELSE found]
    /\ UNCHANGED <<types, typeLog, stores, seeding>>

(* vector_first answers an empty bundle; a strategy that is none of the three
   raises, as does a profile that is not known, and changes nothing. *)
ResolveVectorFirst(name, chain) ==
    /\ query.at # "enriching"
    /\ Profiles[name].strategy = "vector_first"
    /\ query' = [NoQuery EXCEPT !.at = "answered", !.profile = name, !.chain = chain]
    /\ UNCHANGED <<types, typeLog, stores, seeding>>

(* The points of one node, one query per node; a failure costs the contents of
   that node and no other. *)
EnrichNode(n) ==
    /\ query.at = "enriching" /\ n \in query.left
    /\ query' = [query EXCEPT
                   !.left = @ \ {n},
                   !.contents = @ \o [p \in 1..Min({PointLimit, stores.points[n]}) |-> n]]
    /\ UNCHANGED <<types, typeLog, stores, seeding>>

EnrichmentFails(n) ==
    /\ query.at = "enriching" /\ n \in query.left
    /\ query' = [query EXCEPT !.left = @ \ {n}, !.failed = @ \union {n}]
    /\ UNCHANGED <<types, typeLog, stores, seeding>>

AnswerBundle ==
    /\ query.at = "enriching" /\ query.left = {}
    /\ query' = [query EXCEPT !.at = "answered"]
    /\ UNCHANGED <<types, typeLog, stores, seeding>>

GroupByType(nodes) ==
    [t \in {KnowledgeOf[n].type : n \in nodes} |->
        {n \in nodes : KnowledgeOf[n].type = t}]
Bundle == [entities |-> GroupByType(query.found),
           contents |-> query.contents,
           graphHits |-> Cardinality(query.found),
           vectorHits |-> Len(query.contents),
           complete |-> query.found # {}]

ResolverNext ==
    \/ ChangeStores
    \/ \E name \in DOMAIN Profiles, chain \in {{}, {"mine"}} :
         ExecuteGraphQuery(name, chain) \/ ResolveVectorFirst(name, chain)
    \/ \E n \in query.left : EnrichNode(n) \/ EnrichmentFails(n)
    \/ AnswerBundle

-----------------------------------------------------------------------------
(* The bootstrap: the schema, then nodes, then relationships, then vectors.
   SCHEMA_CONSTRAINTS: ten labels with a unique id, three with an index. *)
UniqueLabels == <<"Product", "Category", "StylingRule", "BrandKnowledge",
                  "GlobalKnowledge", "Organization", "StoreInsight",
                  "EvolutionProposal", "RoleAdaptationRule", "BrandTone">>
IndexedLabels == <<"Product", "Category", "BrandKnowledge">>
Constraints == Len(UniqueLabels) + Len(IndexedLabels)

(* The demo data: 5 categories, 25 products, 10 rules, 5 + 5 + 5 others. *)
DemoNodes ==
    [i \in 1..55 |-> CASE i <= 5 -> "Category"
                       [] i \in 6..30 -> "Product"
                       [] i \in 31..40 -> "StylingRule"
                       [] i \in 41..45 -> "BrandKnowledge"
                       [] i \in 46..50 -> "GlobalKnowledge"
                       [] i >= 51 -> "RoleAdaptationRule"]
DemoProduct(i) == 6 + (i % 25)
DemoRelationships ==
    [p \in 1..25 |-> <<5 + p, ((p - 1) \div 5) + 1, "BELONGS_TO">>]
      \o [k \in 1..20 |->
            LET rule == (k - 1) \div 2 IN
            <<31 + rule, DemoProduct(rule + 5 * ((k - 1) % 2)), "RECOMMENDS">>]

(* The data on disk, a node of each kind; only the products' file must exist. *)
SeedFiles == {"categories", "styling_rules", "relationships"}
DiskNodes(files) ==
    <<"Product">> \o (IF "categories" \in files THEN <<"Category">> ELSE <<>>)
                  \o (IF "styling_rules" \in files THEN <<"StylingRule">> ELSE <<>>)
DiskRelationships(files) ==
    LET place(type) == IF type \in Range(DiskNodes(files))
                       THEN CHOOSE i \in DOMAIN DiskNodes(files) : DiskNodes(files)[i] = type
                       ELSE 0
    IN IF "relationships" \in files
       THEN <<<<place("Product"), place("Category"), "BELONGS_TO">>,
              <<place("StylingRule"), place("Product"), "RECOMMENDS">>>>
       ELSE <<>>
SeedNodes(s) == IF s.disk THEN DiskNodes(s.files) ELSE DemoNodes
SeedRelationships(s) == IF s.disk THEN DiskRelationships(s.files) ELSE DemoRelationships

(* One set of data, and the run that seeds it.  "known" of its nodes are in the
   graph from earlier runs, the first "twice" of them more than once; "failed" is
   the constraint the graph lacks (bound: one), which cannot be made while ids
   clash. *)
SeedingInit ==
    \E disk \in BOOLEAN, files \in SUBSET SeedFiles :
        /\ ~disk => files = {}
        /\ seeding = [disk |-> disk, files |-> files, at |-> 1, failed |-> 0,
                      again |-> FALSE, clash |-> FALSE, known |-> 0, twice |-> 0,
                      nodes |-> 0, joined |-> {}, tried |-> 0,
                      vectors |-> 0, stopped |-> FALSE]

(* apply_schema: a constraint that cannot be made is logged and skipped, and one
   that exists is left alone (IF NOT EXISTS). *)
ApplyConstraint ==
    /\ ~seeding.stopped /\ seeding.at <= Constraints
    /\ \/ /\ seeding.at = seeding.failed => seeding.twice = 0 /\ ~seeding.clash
          /\ seeding' = [seeding EXCEPT !.at = @ + 1,
                          !.failed = IF @ = seeding.at THEN 0 ELSE @]
       \/ /\ seeding.failed \in {0, seeding.at}
          /\ seeding.again => seeding.failed = seeding.at
          /\ seeding' = [seeding EXCEPT !.at = @ + 1, !.failed = seeding.at]
    /\ UNCHANGED <<types, typeLog, stores, query>>

(* create_node is a CREATE: an id that is there is refused by the constraint of
   its label, and written again without it. *)
Unguarded(label) ==
    seeding.failed \in DOMAIN UniqueLabels /\ UniqueLabels[seeding.failed] = label
SeedNode ==
    /\ ~seeding.stopped /\ seeding.at > Constraints
    /\ seeding.nodes < Len(SeedNodes(seeding))
    /\ LET next == seeding.nodes + 1
       IN /\ next <= seeding.known => Unguarded(SeedNodes(seeding)[next])
          /\ seeding' = [seeding EXCEPT !.nodes = next,
                          !.twice = IF next <= seeding.known /\ @ < next THEN next ELSE @]
    /\ UNCHANGED <<types, typeLog, stores, query>>

(* A relationship of an end that is not there is not made, silently. *)
SeedRelationship ==
    /\ ~seeding.stopped /\ seeding.at > Constraints
    /\ seeding.nodes = Len(SeedNodes(seeding))
    /\ seeding.tried < Len(SeedRelationships(seeding))
    /\ LET next == seeding.tried + 1
           rel == SeedRelationships(seeding)[next]
           joins == rel[1] \in 1..seeding.nodes /\ rel[2] \in 1..seeding.nodes
       IN seeding' = [seeding EXCEPT !.tried = next,
                                     !.joined = IF joins THEN @ \union {rel} ELSE @]
    /\ UNCHANGED <<types, typeLog, stores, query>>

(* seed_vectors: one vector for each node, with its id. *)
SeedVector ==
    /\ ~seeding.stopped /\ seeding.tried = Len(SeedRelationships(seeding))
    /\ seeding.at > Constraints /\ seeding.nodes = Len(SeedNodes(seeding))
    /\ seeding.vectors < seeding.nodes
    /\ seeding' = [seeding EXCEPT !.vectors = @ + 1]
    /\ UNCHANGED <<types, typeLog, stores, query>>

(* An exception of the adapter ends the bootstrap where it is. *)
SeedingFails ==
    /\ ~seeding.stopped /\ seeding.at > Constraints
    /\ seeding.vectors < Len(SeedNodes(seeding))
    /\ seeding' = [seeding EXCEPT !.stopped = TRUE]
    /\ UNCHANGED <<types, typeLog, stores, query>>

(* The caller begins again, after a cut or a full run, with the same data or with
   demo data of new ids: the nodes stay, the constraints are asked for again, and
   the relationships and the vectors (of new ids) of the new run are its own. *)
RepeatSeeding(same) ==
    /\ seeding.stopped \/ seeding.vectors = Len(SeedNodes(seeding))
    /\ seeding.disk => same
    /\ seeding' = [seeding EXCEPT
         !.at = 1, !.again = TRUE, !.stopped = FALSE,
         !.known = CASE ~same -> 0
                     [] same /\ @ >= seeding.nodes -> @
                     [] same /\ @ < seeding.nodes -> seeding.nodes,
         !.twice = IF same THEN @ ELSE 0,
         !.clash = @ \/ (~same /\ seeding.twice > 0),
         !.nodes = 0, !.joined = {}, !.tried = 0, !.vectors = 0]
    /\ UNCHANGED <<types, typeLog, stores, query>>

SeedingNext ==
    \/ ApplyConstraint \/ SeedNode \/ SeedRelationship \/ SeedVector \/ SeedingFails
    \/ \E same \in BOOLEAN : RepeatSeeding(same)

-----------------------------------------------------------------------------
EntitiesTypeOK ==
    /\ \A t \in DOMAIN types : types[t].by \in TypeOwners
                               /\ types[t].status \in {"active", "deprecated"}
    /\ stores.graph \subseteq Knowledge
    /\ stores.points \in [Knowledge -> 0..MaxPoints]
    /\ query.at \in {"idle", "enriching", "answered"}
    /\ query.left \subseteq query.found /\ query.failed \subseteq query.found
    /\ seeding.at <= Constraints + 1 /\ seeding.failed <= Constraints
    /\ seeding.vectors <= seeding.nodes /\ seeding.twice <= seeding.known

(* A type belongs to whoever registered it first, the core types to the core;
   a core type takes writes for ever, any other exactly when its last change
   was a registration. *)
TypesOwned ==
    LET changes(t) == {i \in DOMAIN typeLog : typeLog[i][2] = t} IN
    /\ \A t \in DOMAIN types \ CoreTypes :
         /\ Cardinality({typeLog[i][3] : i \in changes(t)}) = 1
         /\ IsWritable(t) <=> typeLog[Max(changes(t))][1] = "register"
    /\ \A t \in CoreTypes : IsWritable(t) /\ types[t].by = "core"
    /\ \A c \in Range(typeLog) : c[2] \in CoreTypes => c[3] = "core"

(* Whatever changes in the stores between the graph query and the last vector
   query: a bundle has nodes of its profile only, its own organisation's or
   shared ones, within the limit; every content hangs on a node of the bundle,
   and a node whose vectors could not be read is still in it; what the bundle
   says it holds it holds. *)
BundleScoped ==
    query.at = "answered" =>
      LET nodes == UNION {Bundle.entities[t] : t \in DOMAIN Bundle.entities}
          role == query.profile = "role_adaptation"
      IN /\ \A n \in nodes :
              /\ KnowledgeOf[n].type = IF role THEN "RoleAdaptationRule" ELSE "BrandKnowledge"
              /\ KnowledgeOf[n].org \notin query.chain =>
                   KnowledgeOf[n].visibility \in {"global", "brand"}
         /\ Cardinality(nodes) = Bundle.graphHits /\ Bundle.graphHits <= ResolveLimit
         /\ Range(Bundle.contents) \subseteq nodes \ query.failed
         /\ query.failed \subseteq nodes
         /\ Bundle.vectorHits <= PointLimit * (Bundle.graphHits - Cardinality(query.failed))
         /\ Bundle.complete <=> nodes # {}
         /\ role => Bundle.contents = <<>>

(* However often a bootstrap is cut and begun again: a run that reached the
   vectors has made every relationship of the data whose ends exist, and one cut
   before has made its first ones or none, and no vector; a relationship joins
   nodes that are there.  A run over data that is partly there creates nothing,
   so completes nothing, while the constraint of its first label stands; nodes
   exist twice only under the label that has none.  In a demo graph seeded
   without such copies a product has one category and a rule two products. *)
SeedSound ==
    LET labels == Range(SeedNodes(seeding))
        rels == SeedRelationships(seeding)
        Of(i) == SeedNodes(seeding)[i]
        ends(r, i) == r[i] \in 1..Len(SeedNodes(seeding))
    IN /\ \A r \in seeding.joined :
            /\ r[1] <= seeding.nodes /\ r[2] <= seeding.nodes
            /\ r[3] = "BELONGS_TO" => Of(r[1]) = "Product" /\ Of(r[2]) = "Category"
            /\ r[3] = "RECOMMENDS" => Of(r[1]) = "StylingRule" /\ Of(r[2]) = "Product"
       /\ seeding.vectors > 0 =>
            /\ \A r \in Range(rels) : ends(r, 1) /\ ends(r, 2) => r \in seeding.joined
            /\ ~seeding.disk /\ seeding.twice = 0 => \A i \in 1..55 :
                 /\ Of(i) = "Product" =>
                      Cardinality({r \in seeding.joined : r[1] = i}) = 1
                 /\ Of(i) = "StylingRule" =>
                      Cardinality({r \in seeding.joined : r[1] = i}) = 2
       /\ seeding.known > 0 /\ seeding.nodes > 0 => Unguarded(Of(1))
       /\ \A i \in 1..seeding.twice : Unguarded(Of(i))
       /\ labels \subseteq Range(UniqueLabels)
=============================================================================
