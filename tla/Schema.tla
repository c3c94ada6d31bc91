------------------------------- MODULE Schema -------------------------------
(* The relational schema: what each migration creates and drops, what the ORM
   models expect, and what deleting an organisation or a user takes with it.

   Covered: migrations 001 to 006 with their downgrades, infra/models.py, the
   foreign keys and their ON DELETE rules.
   Not covered: column types, defaults, comments, indexes that are not unique.
   PostgreSQL runs each migration in a transaction: it happens or it does not. *)
EXTENDS Naturals, FiniteSets, Sequences, Functions

CONSTANTS RowTables,  \* tables that rows are inserted into
          MaxRows,    \* bound: rows ever inserted
          MaxMoves    \* bound: migrations run

VARIABLES revision,   \* the applied migrations are 1..revision
          database,   \* existing table -> its definition
          moves,      \* migrations run so far
          rows        \* row number -> [table, refs, next], or Gone

schemaVars == <<revision, database, moves, rows>>

(* A table: required and nullable columns, unique keys, foreign keys with their
   ON DELETE rule, and row level security. *)
Table(required, optional, unique, references, rls) ==
    [required |-> required, optional |-> optional, unique |-> unique,
     references |-> references, rls |-> rls]
Ref(column, table, rule) == <<column, table, rule>>
OwnedBy(table) == Ref("org_id", table, "cascade")

OrganizationsTable ==
    Table({"id", "name", "slug", "tier", "org_path", "is_active", "created_at", "updated_at"},
          {"parent_id"}, {{"slug"}},
          {Ref("parent_id", "organizations", "refuse")}, "forced")
UsersTable ==
    Table({"id", "email", "is_active", "created_at", "updated_at"},
          {"display_name"}, {{"email"}}, {}, "none")
OrgMembersTable ==
    Table({"id", "org_id", "user_id", "role", "permissions", "is_active",
           "created_at", "updated_at"},
          {}, {{"org_id", "user_id"}},
          {OwnedBy("organizations"), Ref("user_id", "users", "cascade")}, "forced")
OrgSettingsTable ==
    Table({"id", "org_id", "settings", "model_access", "inherit_parent", "updated_at"},
          {}, {{"org_id"}}, {OwnedBy("organizations")}, "forced")
AuditEventsTable ==
    Table({"id", "org_id", "action", "detail", "created_at"},
          {"user_id", "resource_type", "resource_id", "ip_address", "user_agent"}, {},
          {OwnedBy("organizations"), Ref("user_id", "users", "forget")}, "forced")
ConversationEventsTable ==
    Table({"id", "org_id", "session_id", "event_type", "role", "content",
           "content_schema_version", "sequence_number", "metadata", "created_at"},
          {"user_id", "parent_event_id"}, {{"session_id", "sequence_number"}},
          {OwnedBy("organizations"), Ref("user_id", "users", "forget")}, "forced")
MemoryItemsTable ==
    Table({"id", "org_id", "user_id", "memory_type", "content", "confidence",
           "epistemic_type", "version", "source_sessions", "valid_at",
           "created_at", "updated_at"},
          {"superseded_by", "provenance", "invalid_at", "last_validated_at", "embedding"}, {},
          {OwnedBy("organizations"), Ref("user_id", "users", "cascade")}, "forced")
MemoryReceiptsTable ==
    Table({"id", "org_id", "memory_item_id", "receipt_type", "guardrail_hit", "created_at"},
          {"candidate_score", "decision_reason", "policy_version", "context_position"}, {},
          {OwnedBy("organizations"), Ref("memory_item_id", "memory_items", "cascade")}, "forced")
ToolUsageRecordsTable ==
    Table({"id", "org_id", "user_id", "tool_name", "tool_version", "cost_amount",
           "billing_unit", "status", "created_at"},
          {"brand_id", "skill_id", "input_summary", "duration_ms"}, {},
          {Ref("org_id", "organizations", "refuse")}, "enabled")

-----------------------------------------------------------------------------
(* The migrations. *)
Creates ==
    << [organizations |-> OrganizationsTable, users |-> UsersTable,
        org_members |-> OrgMembersTable, org_settings |-> OrgSettingsTable],
       [audit_events |-> AuditEventsTable],
       [conversation_events |-> ConversationEventsTable],
       [memory_items |-> MemoryItemsTable, memory_receipts |-> MemoryReceiptsTable],
       << >>,
       [tool_usage_records |-> ToolUsageRecordsTable] >>
LastRevision == Len(Creates)
AddsPassword == 5

WithTables(db, new) ==
    [t \in DOMAIN db \union DOMAIN new |-> IF t \in DOMAIN new THEN new[t] ELSE db[t]]
WithPassword(def) == [def EXCEPT !.optional = @ \union {"password_hash"}]
WithoutPassword(def) == [def EXCEPT !.optional = @ \ {"password_hash"}]
Up(r, db) ==
    IF r = AddsPassword THEN [db EXCEPT !.users = WithPassword(@)]
    ELSE WithTables(db, Creates[r])
(* How it could go wrong: a downgrade that drops tables and leaves columns. *)
DownTablesOnly(r, db) ==
    IF r = AddsPassword THEN db ELSE Restrict(db, DOMAIN db \ DOMAIN Creates[r])

Down(r, db) ==
    IF r = AddsPassword THEN [db EXCEPT !.users = WithoutPassword(@)]
    ELSE Restrict(db, DOMAIN db \ DOMAIN Creates[r])

(* The ORM models, as the application declares them.  The embedding is not
   among them: the vector search names it in SQL of its own. *)
Model(required, optional, unique, references) ==
    Table(required, optional, unique, references, "declared elsewhere")
OrganizationModel ==
    Model({"id", "name", "slug", "tier", "org_path", "is_active", "created_at",
           "updated_at"}, {"parent_id"}, {{"slug"}},
          {Ref("parent_id", "organizations", "refuse")})
UserModel ==
    Model({"id", "email", "is_active", "created_at", "updated_at"},
          {"password_hash", "display_name"}, {{"email"}}, {})
OrgMemberModel ==
    Model({"id", "org_id", "user_id", "role", "permissions", "is_active",
           "created_at", "updated_at"}, {}, {{"org_id", "user_id"}},
          {OwnedBy("organizations"), Ref("user_id", "users", "cascade")})
OrgSettingsModel ==
    Model({"id", "org_id", "settings", "model_access", "inherit_parent",
           "updated_at"}, {}, {{"org_id"}}, {OwnedBy("organizations")})
AuditEventModel ==
    Model({"id", "org_id", "action", "detail", "created_at"},
          {"user_id", "resource_type", "resource_id", "ip_address", "user_agent"},
          {}, {OwnedBy("organizations"), Ref("user_id", "users", "forget")})
ConversationEventModel ==
    Model({"id", "org_id", "session_id", "event_type", "role", "content",
           "content_schema_version", "sequence_number", "metadata", "created_at"},
          {"user_id", "parent_event_id"}, {{"session_id", "sequence_number"}},
          {OwnedBy("organizations"), Ref("user_id", "users", "forget")})
MemoryItemModel ==
    Model({"id", "org_id", "user_id", "memory_type", "content", "confidence",
           "epistemic_type", "version", "source_sessions", "valid_at",
           "created_at", "updated_at"},
          {"superseded_by", "provenance", "invalid_at", "last_validated_at"},
          {}, {OwnedBy("organizations"), Ref("user_id", "users", "cascade")})
MemoryReceiptModel ==
    Model({"id", "org_id", "memory_item_id", "receipt_type", "guardrail_hit",
           "created_at"},
          {"candidate_score", "decision_reason", "policy_version", "context_position"},
          {}, {OwnedBy("organizations"), Ref("memory_item_id", "memory_items", "cascade")})
Models ==
    [organizations |-> OrganizationModel, users |-> UserModel,
     org_members |-> OrgMemberModel, org_settings |-> OrgSettingsModel,
     audit_events |-> AuditEventModel, conversation_events |-> ConversationEventModel,
     memory_items |-> MemoryItemModel, memory_receipts |-> MemoryReceiptModel]
NamedInSql == [memory_items |-> {"embedding"}]

(* The tables that must be isolated, as get_rls_tables lists them: those of
   the first phase, in which no later table was ever added. *)
RlsTables == {"organizations", "org_members", "org_settings", "audit_events"}

-----------------------------------------------------------------------------
(* Migrations and rows.  A dropped table takes its rows with it. *)
Gone == [table |-> "gone", refs |-> << >>, next |-> 0]
SchemaInit == revision = 0 /\ database = << >> /\ moves = 0 /\ rows = << >>

MoveTo(r, db) ==
    /\ moves < MaxMoves
    /\ moves' = moves + 1
    /\ revision' = r /\ database' = db
    /\ rows' = [i \in DOMAIN rows |-> IF rows[i].table \in DOMAIN db THEN rows[i] ELSE Gone]
Upgrade == revision < LastRevision /\ MoveTo(revision + 1, Up(revision + 1, database))
Downgrade == revision > 0 /\ MoveTo(revision - 1, Down(revision, database))

In(table) == {i \in DOMAIN rows : rows[i].table = table}
Columns(t) == {ref[1] : ref \in database[t].references}
Allowed(t, c) ==
    (IF c \in database[t].optional THEN {0} ELSE {})
    \union UNION {In(ref[2]) : ref \in {r \in database[t].references : r[1] = c}}

Insert(t) ==
    /\ t \in DOMAIN database /\ Len(rows) < MaxRows
    /\ \E refs \in [Columns(t) -> 0..MaxRows] :
         /\ \A c \in Columns(t) : refs[c] \in Allowed(t, c)
         /\ rows' = Append(rows, [table |-> t, refs |-> refs, next |-> 0])
    /\ UNCHANGED <<revision, database, moves>>

(* A new version of a memory item, with the owner of the old one. *)
Supersede(i) ==
    /\ rows[i].table = "memory_items" /\ Len(rows) < MaxRows
    /\ rows' = Append([rows EXCEPT ![i].next = Len(rows) + 1],
                      [rows[i] EXCEPT !.next = 0])
    /\ UNCHANGED <<revision, database, moves>>

(* Deleting a row takes the rows that refer to it with "cascade", which here
   nest twice at most; a row left over that must refer to one of them refuses
   it, one that may forget it does. *)
Rule(t, c) == (CHOOSE ref \in database[t].references : ref[1] = c)[3]
PointsInto(i, S, rule) ==
    \E c \in DOMAIN rows[i].refs : rows[i].refs[c] \in S /\ Rule(rows[i].table, c) = rule
Taken(S) == S \union {i \in DOMAIN rows : PointsInto(i, S, "cascade")}
DeleteRow(i) ==
    /\ rows[i].table \in {"organizations", "users"}
    /\ LET all == Taken(Taken(Taken({i}))) IN
       /\ \A j \in DOMAIN rows \ all : ~PointsInto(j, all, "refuse")
       /\ rows' = [j \in DOMAIN rows |->
            IF j \in all THEN Gone
            ELSE [rows[j] EXCEPT !.refs =
                    [c \in DOMAIN @ |-> IF @[c] \in all THEN 0 ELSE @[c]]]]
    /\ UNCHANGED <<revision, database, moves>>

SchemaNext ==
    \/ Upgrade \/ Downgrade
    \/ \E t \in RowTables : Insert(t)
    \/ \E i \in DOMAIN rows : Supersede(i) \/ DeleteRow(i)

-----------------------------------------------------------------------------
SchemaTypeOK ==
    /\ revision \in 0..LastRevision
    /\ \A i \in DOMAIN rows : rows[i].table \in DOMAIN database \union {"gone"}

(* However the migrations went up and down, a revision has the one schema of a
   fresh database; at the last one every model finds its table with exactly its
   columns, keys and references; whatever belongs to an organisation is under
   row level security, and what the registry of isolated tables lists is so
   for the tables' owner too. *)
Created(t) == Creates[CHOOSE k \in 1..LastRevision : t \in DOMAIN Creates[k]][t]
Fresh(r) ==
    [t \in UNION {DOMAIN Creates[k] : k \in 1..r} |->
        IF t = "users" /\ r >= AddsPassword THEN WithPassword(Created(t)) ELSE Created(t)]
SchemaAsDeclared ==
    /\ database = Fresh(revision)
    /\ revision = LastRevision => \A t \in DOMAIN Models :
         LET named == IF t \in DOMAIN NamedInSql THEN NamedInSql[t] ELSE {} IN
         /\ t \in DOMAIN database
         /\ database[t].required = Models[t].required
         /\ database[t].optional = Models[t].optional \union named
         /\ database[t].unique = Models[t].unique
         /\ database[t].references = Models[t].references
    /\ \A t \in DOMAIN database : "org_id" \in database[t].required =>
         database[t].rls # "none"
    /\ \A t \in DOMAIN database \intersect RlsTables : database[t].rls = "forced"
    /\ revision = LastRevision => RlsTables \subseteq DOMAIN database

(* No row points at one that is gone, and none lacks a reference it must have:
   the foreign keys see to their columns, and superseded_by, which has none,
   leads to a row of the same owner, since whatever deletes a memory item
   deletes all versions of it. *)
RowsConnected ==
    \A i \in DOMAIN rows :
        /\ \A c \in DOMAIN rows[i].refs :
             IF rows[i].refs[c] = 0 THEN c \in database[rows[i].table].optional
             ELSE LET to == rows[rows[i].refs[c]].table IN
                  \E rule \in {"cascade", "forget", "refuse"} :
                      Ref(c, to, rule) \in database[rows[i].table].references
        /\ rows[i].next # 0 => /\ rows[rows[i].next].table = "memory_items"
                               /\ rows[rows[i].next].refs = rows[i].refs
=============================================================================
