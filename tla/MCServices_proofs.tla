--------------------------- MODULE MCServices_proofs ---------------------------
(***************************************************************************)
(* Proofs about the services of MCServices, for any number of callers and  *)
(* bounds of any size.  One service moves and the others keep their        *)
(* initial values (PartMoves), so an invariant of a service is proved of   *)
(* its own steps.  First the work put off and who may act; then what the   *)
(* gateway lets through and delivers: event streams, uploads, the rate     *)
(* limit, the token budget, the fuse and the golden signals.               *)
(***************************************************************************)
EXTENDS MCServices, SequenceTheorems, FiniteSetTheorems, WellFoundedInduction, TLAPS

\* A step of the whole is a step of the service that moves, or none of it.
LEMMA PartMoves ==
    ASSUME [Next]_serviceVars
    PROVE  /\ part' = part
           /\ part = "items" => [ItemsNext]_itemVars
           /\ part = "deletion" => [DeletionNext]_deferredVars
           /\ part = "outbox" => [OutboxNext]_deferredVars
           /\ part = "tasks" => [TasksNext]_deferredVars
           /\ part = "skills" => [SkillsNext]_skillVars
           /\ part = "accounts" => [AccountsNext]_accountVars
           /\ part = "rate" => [RateNext]_limitVars
           /\ part = "budget" => [BudgetNext]_limitVars
           /\ part = "fuse" => [FuseNext]_limitVars
           /\ part = "streams" => [StreamsNext]_deliveryVars
           /\ part = "uploads" => [UploadsNext]_deliveryVars
           /\ part = "schema" => [SchemaNext]_schemaVars
           /\ part = "types" => [TypesNext]_entityVars
           /\ part = "resolver" => [ResolverNext]_entityVars
           /\ part = "seeding" => [SeedingNext]_entityVars
           /\ part = "service" => [ServiceNext]_operationVars
           /\ part = "sessions" => [SessionsNext]_operationVars
           /\ part = "cache" => [CacheNext]_operationVars
           /\ part = "signals" => [SignalsNext]_operationVars
           /\ part = "twins" => [TwinsNext]_twinVars
           /\ part = "entries" => [EntriesNext]_twinVars
BY DEF Next, Others, serviceVars

-----------------------------------------------------------------------------
(* The deletion of a memory item                                           *)

DeletionPath == Seq(DeletionStates \X DeletionStates)
DeletionType ==
    deletion \in [state : DeletionStates, first : DeletionStates,
                  age : 0..NoTombstone, trail : DeletionPath]

Passed(s) == deletion.first = s \/ \E i \in DOMAIN deletion.trail : deletion.trail[i][2] = s

\* The states behind a deletion of an active item.
DeletionBehind ==
    /\ deletion.state = "tombstone" => Passed("tombstone")
    /\ deletion.first = "active"
         /\ deletion.state \in {"archived", "purge_queued", "purging", "purged", "failed"}
         => Passed("tombstone") /\ Passed("archived")
    /\ deletion.age # NoTombstone =>
         \E i \in DOMAIN deletion.trail : deletion.trail[i][2] = "tombstone"

DeletionTrace ==
    LET trail == deletion.trail IN
    /\ trail = <<>> => deletion.state = deletion.first
    /\ trail # <<>> => trail[1][1] = deletion.first /\ trail[Len(trail)][2] = deletion.state
    /\ \A i \in 1..(Len(trail) - 1) : trail[i][2] = trail[i + 1][1]

DeletionInv == DeletionType /\ DeletionBehind /\ DeletionTrace

LEMMA DeletionStart == DeletionInit => DeletionInv
BY DeferredAssumption
   DEF DeletionInit, DeletionInv, DeletionType, DeletionBehind, DeletionTrace, DeletionPath,
       Passed, NoTombstone

LEMMA DeletionStep == DeletionInv /\ [DeletionNext]_deferredVars => DeletionInv'
<1> SUFFICES ASSUME DeletionInv, [DeletionNext]_deferredVars PROVE DeletionInv'
  OBVIOUS
<1>0. DeletionType
  BY DEF DeletionInv
<1>1. ASSUME Day PROVE DeletionInv'
  <2>1. deletion' = [deletion EXCEPT !.age = @ + 1] /\ deletion.age < Retention
    BY <1>1 DEF Day
  <2>2. /\ deletion'.state = deletion.state /\ deletion'.first = deletion.first
        /\ deletion'.trail = deletion.trail /\ deletion'.age = deletion.age + 1
    BY <1>0, <2>1 DEF DeletionType
  <2>3. DeletionType'
    BY <1>0, <2>1, DeferredAssumption DEF DeletionType, NoTombstone
  <2>4. deletion.age # NoTombstone
    BY <1>0, <2>1, DeferredAssumption DEF DeletionType, NoTombstone
  <2> QED BY <2>2, <2>3, <2>4 DEF DeletionInv, DeletionBehind, DeletionTrace, Passed
<1>2. ASSUME NEW to \in DeletionStates, Transition(to) PROVE DeletionInv'
  <2> DEFINE step == <<deletion.state, to>>
  <2>1. /\ step \in Transitions /\ step \in DeletionStates \X DeletionStates
        /\ deletion'.state = to /\ deletion'.first = deletion.first
        /\ deletion'.trail = Append(deletion.trail, step)
        /\ deletion'.age = IF to = "tombstone" THEN 0 ELSE deletion.age
        /\ deletion' = [deletion EXCEPT !.state = to, !.trail = Append(@, step),
                                        !.age = IF to = "tombstone" THEN 0 ELSE @]
    BY <1>0, <1>2 DEF Transition, DeletionType
  <2> DEFINE n == Len(deletion.trail)
  <2>2. /\ deletion.trail \in DeletionPath /\ n \in Nat
        /\ Append(deletion.trail, step) \in DeletionPath
        /\ Len(Append(deletion.trail, step)) = n + 1
        /\ \A i \in 1..n : Append(deletion.trail, step)[i] = deletion.trail[i]
        /\ Append(deletion.trail, step)[n + 1] = step
        /\ DOMAIN deletion.trail = 1..n /\ DOMAIN deletion'.trail = 1..(n + 1)
    BY <1>0, <2>1 DEF DeletionType, DeletionPath
  <2>3. DeletionType'
    <3> HIDE DEF step, n
    <3>1. deletion'.age \in 0..NoTombstone /\ deletion'.state \in DeletionStates
          /\ deletion'.first \in DeletionStates /\ deletion'.trail \in DeletionPath
      BY <1>0, <2>1, <2>2, DeferredAssumption DEF DeletionType, NoTombstone
    <3>2. deletion' = [state |-> deletion'.state, first |-> deletion'.first,
                       age |-> deletion'.age, trail |-> deletion'.trail]
      BY <1>0, <2>1 DEF DeletionType
    <3> QED BY <3>1, <3>2 DEF DeletionType
  <2>4. \A s : Passed(s) => Passed(s)'
    BY <2>1, <2>2 DEF Passed
  <2>5. Passed(to)'
    BY <2>1, <2>2 DEF Passed
  <2>6. DeletionBehind'
    <3>1. to = "tombstone" => \E i \in DOMAIN deletion'.trail : deletion'.trail[i][2] = "tombstone"
      BY <2>1, <2>2
    <3>2. deletion.age # NoTombstone
            => \E i \in DOMAIN deletion'.trail : deletion'.trail[i][2] = "tombstone"
      BY <2>1, <2>2 DEF DeletionInv, DeletionBehind
    <3>3. \/ to \notin {"archived", "purge_queued", "purging", "purged", "failed"}
          \/ to = "archived" /\ deletion.state = "tombstone"
          \/ deletion.state \in {"archived", "purge_queued", "purging", "failed"}
      BY <2>1 DEF Transitions
    <3> QED BY <2>1, <2>4, <2>5, <3>1, <3>2, <3>3 DEF DeletionInv, DeletionBehind
  <2>7. DeletionTrace'
    <3>1. deletion'.trail # <<>> /\ deletion'.trail[Len(deletion'.trail)][2] = to
      BY <2>1, <2>2
    <3>2. deletion'.trail[1][1] = deletion.first
      <4>1. CASE n = 0
        BY <2>1, <2>2, <4>1 DEF DeletionInv, DeletionTrace
      <4>2. CASE n # 0
        BY <2>1, <2>2, <4>2 DEF DeletionInv, DeletionTrace
      <4> QED BY <4>1, <4>2
    <3>3. \A i \in 1..n : deletion'.trail[i][2] = deletion'.trail[i + 1][1]
      <4> TAKE i \in 1..n
      <4>1. CASE i = n
        BY <2>1, <2>2, <4>1 DEF DeletionInv, DeletionTrace
      <4>2. CASE i # n
        BY <2>1, <2>2, <4>2 DEF DeletionInv, DeletionTrace
      <4> QED BY <4>1, <4>2
    <3> QED BY <2>1, <2>2, <3>1, <3>2, <3>3 DEF DeletionTrace
  <2> QED BY <2>3, <2>6, <2>7 DEF DeletionInv
<1>3. CASE UNCHANGED deferredVars
  BY <1>3 DEF deferredVars, DeletionInv, DeletionType, DeletionBehind, DeletionTrace, Passed
<1> QED BY <1>1, <1>2, <1>3 DEF DeletionNext

LEMMA DeletionMeaning == DeletionInv => DeletionTrail
<1> SUFFICES ASSUME DeletionInv PROVE DeletionTrail
  OBVIOUS
<1>1. PurgeEligible => \E i \in DOMAIN deletion.trail : deletion.trail[i][2] = "tombstone"
  BY DeferredAssumption DEF PurgeEligible, DeletionInv, DeletionBehind, NoTombstone
<1>2. deletion.first = "active" /\ deletion.state \in {"purging", "purged"} =>
        {"tombstone", "archived"} \subseteq
           {deletion.first} \union {deletion.trail[i][2] : i \in DOMAIN deletion.trail}
  BY DEF DeletionInv, DeletionBehind, Passed
<1> QED BY <1>1, <1>2 DEF DeletionTrail, DeletionInv, DeletionTrace

-----------------------------------------------------------------------------
(* The outbox                                                              *)

EventType == [status : {"pending", "processing", "delivered", "failed"},
              retries : 0..MaxRetries]
OutboxType ==
    /\ outbox \in Seq(EventType)
    /\ poller \in [Pollers -> [seen : SUBSET (1..Len(outbox)), holds : 0..Len(outbox)]]

OutboxInv == OutboxType /\ ClaimsExclusive

LEMMA OutboxStart == OutboxInit => OutboxInv
BY DEF OutboxInit, OutboxInv, OutboxType, ClaimsExclusive, Events, IdlePoller

LEMMA OutboxStep == OutboxInv /\ [OutboxNext]_deferredVars => OutboxInv'
<1> SUFFICES ASSUME OutboxInv, [OutboxNext]_deferredVars PROVE OutboxInv'
  OBVIOUS
<1> DEFINE n == Len(outbox)
<1>0. /\ outbox \in Seq(EventType) /\ n \in Nat /\ DOMAIN outbox = 1..n /\ Events = 1..n
      /\ poller \in [Pollers -> [seen : SUBSET (1..n), holds : 0..n]]
      /\ outbox \in [1..n -> EventType]
  BY DEF OutboxInv, OutboxType, Events
<1>e. ASSUME NEW e \in 1..n, NEW v \in EventType, outbox' = [outbox EXCEPT ![e] = v]
      PROVE  /\ outbox' \in Seq(EventType) /\ Len(outbox') = n /\ Events' = 1..n
             /\ \A f \in 1..n : outbox'[f] = IF f = e THEN v ELSE outbox[f]
  BY <1>0, <1>e DEF Events
<1>1. ASSUME AppendEvent PROVE OutboxInv'
  <2> DEFINE new == [status |-> "pending", retries |-> 0]
  <2>1. outbox' = Append(outbox, new) /\ poller' = poller /\ new \in EventType
    BY <1>1, DeferredAssumption DEF AppendEvent, EventType
  <2>2. /\ outbox' \in Seq(EventType) /\ Len(outbox') = n + 1 /\ Events' = 1..(n + 1)
        /\ \A e \in 1..n : outbox'[e] = outbox[e]
        /\ outbox'[n + 1] = new
    BY <1>0, <2>1 DEF Events
  <2>3. poller' \in [Pollers -> [seen : SUBSET (1..(n + 1)), holds : 0..(n + 1)]]
    BY <1>0, <2>1
  <2> QED BY <1>0, <2>1, <2>2, <2>3, DeferredAssumption
          DEF OutboxInv, OutboxType, ClaimsExclusive
<1>2. ASSUME NEW p \in Pollers, NEW limit, GetPending(p, limit) PROVE OutboxInv'
  <2>1. PICK oldest \in SUBSET (1..n) : poller' = [poller EXCEPT ![p].seen = oldest]
    BY <1>0, <1>2 DEF GetPending
  <2>2. outbox' = outbox
    BY <1>2 DEF GetPending
  <2> QED BY <1>0, <2>1, <2>2 DEF OutboxInv, OutboxType, ClaimsExclusive, Events
<1>3. ASSUME NEW p \in Pollers, NEW e \in Events, MarkProcessing(p, e) PROVE OutboxInv'
  <2>1. CASE outbox[e].status = "pending"
    <3> DEFINE v == [outbox[e] EXCEPT !.status = "processing"]
    <3>1. /\ outbox' = [outbox EXCEPT ![e] = v]
          /\ poller' = [poller EXCEPT ![p] = [seen |-> poller[p].seen \ {e}, holds |-> e]]
      BY <1>0, <1>3, <2>1 DEF MarkProcessing
    <3>2. v \in EventType /\ v.status = "processing" /\ v.retries = outbox[e].retries
      BY <1>0 DEF EventType
    <3>3. /\ outbox' \in Seq(EventType) /\ Len(outbox') = n /\ Events' = 1..n
          /\ \A f \in 1..n : outbox'[f] = IF f = e THEN v ELSE outbox[f]
      BY <1>0, <1>e, <3>1, <3>2
    <3>4. poller' \in [Pollers -> [seen : SUBSET (1..n), holds : 0..n]]
      BY <1>0, <3>1
    <3>5. \A q \in Pollers : poller[q].holds # e
      BY <1>0, <2>1 DEF OutboxInv, ClaimsExclusive
    <3> QED BY <1>0, <2>1, <3>1, <3>2, <3>3, <3>4, <3>5 DEF OutboxInv, OutboxType, ClaimsExclusive
  <2>2. CASE outbox[e].status # "pending"
    <3>1. outbox' = outbox /\ poller' = [poller EXCEPT ![p].seen = @ \ {e}]
      BY <1>3, <2>2 DEF MarkProcessing
    <3> QED BY <1>0, <3>1 DEF OutboxInv, OutboxType, ClaimsExclusive, Events
  <2> QED BY <2>1, <2>2
<1>s. ASSUME NEW p \in Pollers, poller[p].holds # 0, NEW v \in EventType,
             outbox' = [outbox EXCEPT ![poller[p].holds] = v], Release(p),
             v.status = "failed" <=> v.retries = MaxRetries
      PROVE  OutboxInv'
  <2>1. poller[p].holds \in 1..n
    BY <1>0, <1>s
  <2>2. /\ outbox' \in Seq(EventType) /\ Len(outbox') = n /\ Events' = 1..n
        /\ \A f \in 1..n : outbox'[f] = IF f = poller[p].holds THEN v ELSE outbox[f]
    BY <1>e, <1>s, <2>1
  <2>3. poller' = [poller EXCEPT ![p].holds = 0]
    BY <1>s DEF Release
  <2>4. poller' \in [Pollers -> [seen : SUBSET (1..n), holds : 0..n]]
    <3> DEFINE Holds == 0..n
    <3>1. poller \in [Pollers -> [seen : SUBSET (1..n), holds : Holds]] /\ 0 \in Holds
      BY <1>0
    <3> HIDE DEF Holds
    <3>2. poller' \in [Pollers -> [seen : SUBSET (1..n), holds : Holds]]
      BY <2>3, <3>1
    <3> QED BY <3>2 DEF Holds
  <2>5. \A q \in Pollers : poller'[q].holds = IF q = p THEN 0 ELSE poller[q].holds
    BY <1>0, <2>3
  <2> QED BY <1>0, <1>s, <2>1, <2>2, <2>4, <2>5 DEF OutboxInv, OutboxType, ClaimsExclusive
<1>4. ASSUME NEW p \in Pollers, MarkDelivered(p) PROVE OutboxInv'
  <2> DEFINE v == [outbox[poller[p].holds] EXCEPT !.status = "delivered"]
  <2>1. poller[p].holds \in 1..n /\ outbox[poller[p].holds].status = "processing"
    BY <1>0, <1>4 DEF MarkDelivered
  <2>2. v \in EventType /\ v.status = "delivered" /\ v.retries = outbox[poller[p].holds].retries
    BY <1>0, <2>1 DEF EventType
  <2>3. v.retries # MaxRetries
    BY <1>0, <2>1, <2>2 DEF OutboxInv, ClaimsExclusive
  <2>4. outbox' = [outbox EXCEPT ![poller[p].holds] = v]
    BY <1>0, <1>4, <2>1 DEF MarkDelivered
  <2> QED BY <1>4, <1>s, <2>2, <2>3, <2>4 DEF MarkDelivered
<1>5. ASSUME NEW p \in Pollers, MarkFailed(p) PROVE OutboxInv'
  <2> DEFINE old == outbox[poller[p].holds]
  <2>1. poller[p].holds \in 1..n /\ old.status = "processing"
    BY <1>0, <1>5 DEF MarkFailed
  <2>2. old.retries \in 0..MaxRetries /\ old.retries # MaxRetries
    BY <1>0, <2>1 DEF OutboxInv, ClaimsExclusive, EventType
  <2>3. Failed(old) \in EventType /\ (Failed(old).status = "failed" <=> Failed(old).retries = MaxRetries)
    BY <2>2, DeferredAssumption DEF Failed, EventType
  <2>4. outbox' = [outbox EXCEPT ![poller[p].holds] = Failed(old)]
    BY <1>5 DEF MarkFailed
  <2> QED BY <1>5, <1>s, <2>3, <2>4 DEF MarkFailed
<1>6. ASSUME NEW p \in Pollers, PollerStops(p) PROVE OutboxInv'
  BY <1>0, <1>6 DEF PollerStops, IdlePoller, OutboxInv, OutboxType, ClaimsExclusive, Events
<1>7. CASE UNCHANGED deferredVars
  BY <1>7 DEF deferredVars, OutboxInv, OutboxType, ClaimsExclusive, Events
<1> QED BY <1>1, <1>2, <1>3, <1>4, <1>5, <1>6, <1>7 DEF OutboxNext

\* Work put off is neither skipped nor done by two: a deletion's audit trail is
\* a path of the state machine, and no two pollers of the outbox hold one event
\* (deletion_fsm.py, DeletionFSM; outbox.py, OutboxPoller).
THEOREM DeferredWorkHolds == Spec => []DeferredHolds
<1> DEFINE Inv == (part = "deletion" => DeletionInv) /\ (part = "outbox" => OutboxInv)
<1>1. Init => Inv
  BY DeletionStart, OutboxStart DEF Init
<1>2. Inv /\ [Next]_serviceVars => Inv'
  BY PartMoves, DeletionStep, OutboxStep
<1>3. Inv => DeferredHolds
  BY DeletionMeaning DEF DeferredHolds, Of, OutboxInv
<1> QED BY <1>1, <1>2, <1>3, PTL DEF Spec

-----------------------------------------------------------------------------
(* Skills                                                                  *)

SkillsType ==
    /\ definitions \in [SkillIds -> [status : Statuses \union {"none"}, version : 0..MaxVersion]]
    /\ implementations \in [SkillIds -> 0..MaxVersion]
    /\ call \in [Callers -> [at : {"idle", "resolving", "running"}, skill : SkillIds \union {"-"},
                             started : Statuses \union {"none", "-"}]]
SkillsInv == SkillsType /\ ActiveSkillsRun

LEMMA SkillsStart == SkillsInit => SkillsInv
BY SkillsAssumption
   DEF SkillsInit, SkillsInv, SkillsType, ActiveSkillsRun, Registered, NotCalling, Statuses

LEMMA SkillsStep == SkillsInv /\ [SkillsNext]_skillVars => SkillsInv'
<1> SUFFICES ASSUME SkillsInv, [SkillsNext]_skillVars PROVE SkillsInv'
  OBVIOUS
<1>0. SkillsType /\ ActiveSkillsRun
  BY DEF SkillsInv
<1> USE SkillsAssumption
<1>1. ASSUME NEW s \in SkillIds, Register(s) PROVE SkillsInv'
  BY <1>0, <1>1 DEF Register, SkillsInv, SkillsType, ActiveSkillsRun, Registered, Statuses
<1>2. ASSUME NEW s \in SkillIds, Deregister(s) PROVE SkillsInv'
  BY <1>0, <1>2 DEF Deregister, SkillsInv, SkillsType, ActiveSkillsRun, Registered
<1>3. ASSUME NEW s \in SkillIds, NEW status \in Statuses, UpdateStatus(s, status) PROVE SkillsInv'
  BY <1>0, <1>3 DEF UpdateStatus, SkillsInv, SkillsType, ActiveSkillsRun, Registered, Statuses,
     ValidTransitions
<1>4. ASSUME NEW s \in SkillIds, BindImplementation(s) PROVE SkillsInv'
  BY <1>0, <1>4 DEF BindImplementation, SkillsInv, SkillsType, ActiveSkillsRun, Registered
<1>c. ASSUME NEW c \in Callers, NEW v, UNCHANGED <<definitions, implementations>>,
             v \in [at : {"idle", "resolving", "running"}, skill : SkillIds \union {"-"},
                    started : Statuses \union {"none", "-"}],
             v.at = "running" => v.started = "active",
             call' = [call EXCEPT ![c] = v]
      PROVE  SkillsInv'
  BY <1>0, <1>c DEF SkillsInv, SkillsType, ActiveSkillsRun, Registered
<1>5. ASSUME NEW c \in Callers, NEW i \in Intents, Route(c, i) PROVE SkillsInv'
  BY <1>5, <1>c DEF Route, FindSkill
<1>6. ASSUME NEW c \in Callers, NEW s \in SkillIds, CallById(c, s) PROVE SkillsInv'
  BY <1>6, <1>c DEF CallById
<1>7. ASSUME NEW c \in Callers, Refuse(c) \/ Finish(c) PROVE SkillsInv'
  BY <1>7, <1>c DEF Refuse, Finish, NotCalling
<1>8. ASSUME NEW c \in Callers, Execute(c) PROVE SkillsInv'
  <2> DEFINE v == [call[c] EXCEPT !.at = "running", !.started = definitions[call[c].skill].status]
  <2>1. v \in [at : {"idle", "resolving", "running"}, skill : SkillIds \union {"-"},
               started : Statuses \union {"none", "-"}]
        /\ v.started = "active"
    BY <1>0, <1>8 DEF Execute, MayExecute, Active, SkillsType, Statuses
  <2>2. call' = [call EXCEPT ![c] = v]
    BY <1>0, <1>8 DEF Execute, SkillsType
  <2> QED BY <1>8, <1>c, <2>1, <2>2 DEF Execute
<1>9. CASE UNCHANGED skillVars
  BY <1>0, <1>9 DEF skillVars, SkillsInv, SkillsType, ActiveSkillsRun, Registered
<1> QED BY <1>1, <1>2, <1>3, <1>4, <1>5, <1>6, <1>7, <1>8, <1>9 DEF SkillsNext

-----------------------------------------------------------------------------
(* Accounts                                                                *)

AuthPlaces == {"idle", "insert", "org", "role", "done"}
UserNames == Emails \union {"-"}
OrgNames == Emails \union Companies \union {"-"}
RolesOrNone == RoleNames \union {"-", "member"}
AuthAnswers == {0, 200, 201, 401, 500, 503}
AuthType == [at : AuthPlaces, user : UserNames, org : OrgNames, role : RolesOrNone,
             answer : AuthAnswers]
AuthNames ==
    /\ "done" \in AuthPlaces /\ "org" \in AuthPlaces /\ "role" \in AuthPlaces
    /\ "insert" \in AuthPlaces
    /\ \A e \in Emails : e \in UserNames /\ e \in OrgNames
    /\ \A o \in Companies : o \in OrgNames
    /\ "member" \in RolesOrNone /\ \A r \in RoleNames : r \in RolesOrNone
    /\ 0 \in AuthAnswers /\ 200 \in AuthAnswers /\ 201 \in AuthAnswers
    /\ 401 \in AuthAnswers /\ 500 \in AuthAnswers /\ 503 \in AuthAnswers
NoAuthNames == NoAuth \in AuthType /\ NoAuth.answer = 0 /\ NoAuth.at = "idle"
AccountsType ==
    /\ users \in [Emails -> {"none", "active", "disabled"}]
    /\ members \in [Emails \X Companies -> RoleNames \union {"none"}]
    /\ auth \in [Sessions -> AuthType]

\* The organisation of request s is its user's own, or was once joined.
OrgEarned(s) ==
    \/ auth[s].org = auth[s].user
    \/ \E r \in RoleNames : <<auth[s].user, auth[s].org, r>> \in granted

AuthInv(s) ==
    /\ auth[s].at \in {"insert", "org", "role"} =>
         auth[s].user \in Emails /\ auth[s].answer = 0
    /\ auth[s].at \in {"org", "role"} => users[auth[s].user] # "none"
    /\ auth[s].at = "role" => OrgEarned(s)
    /\ auth[s].answer \in {200, 201} =>
         /\ auth[s].user \in Emails /\ users[auth[s].user] # "none" /\ OrgEarned(s)
         /\ auth[s].role = "member" \/ <<auth[s].user, auth[s].org, auth[s].role>> \in granted

AccountsInv ==
    /\ AccountsType
    /\ \A u \in Emails, o \in Companies :
          members[<<u, o>>] # "none" =>
             members[<<u, o>>] \in RoleNames /\ <<u, o, members[<<u, o>>]>> \in granted
    /\ \A s \in Sessions : AuthInv(s)

LEMMA AuthNamesHold == AuthNames /\ NoAuthNames
BY DEF AuthNames, NoAuthNames, AuthPlaces, UserNames, OrgNames, RolesOrNone, AuthAnswers, AuthType, NoAuth

\* Every update of a request keeps the type of the requests.
LEMMA AuthUpdates ==
    ASSUME auth \in [Sessions -> AuthType]
    PROVE  /\ \A b \in AuthType, p \in AuthPlaces, u \in UserNames :
                [b EXCEPT !.at = p, !.user = u] \in AuthType
           /\ \A b \in AuthType, p \in AuthPlaces, u \in UserNames, c \in AuthAnswers :
                [b EXCEPT !.at = p, !.user = u, !.answer = c] \in AuthType
           /\ \A s \in Sessions, p \in AuthPlaces, c \in AuthAnswers :
                [auth EXCEPT ![s].at = p, ![s].answer = c] \in [Sessions -> AuthType]
           /\ \A s \in Sessions, p \in AuthPlaces, o \in OrgNames :
                [auth EXCEPT ![s].at = p, ![s].org = o] \in [Sessions -> AuthType]
           /\ \A s \in Sessions, p \in AuthPlaces, c \in AuthAnswers, l \in RolesOrNone :
                [auth EXCEPT ![s].at = p, ![s].answer = c, ![s].role = l] \in [Sessions -> AuthType]
           /\ \A s \in Sessions, p \in AuthPlaces, c \in AuthAnswers,
             o \in OrgNames, l \in RolesOrNone :
                [auth EXCEPT ![s].at = p, ![s].answer = c, ![s].org = o, ![s].role = l]
                \in [Sessions -> AuthType]
<1>1. ASSUME NEW b \in AuthType, NEW p \in AuthPlaces, NEW u \in UserNames
      PROVE  [b EXCEPT !.at = p, !.user = u] \in AuthType
  BY DEF AuthType
<1>2. ASSUME NEW b \in AuthType, NEW p \in AuthPlaces, NEW u \in UserNames, NEW c \in AuthAnswers
      PROVE  [b EXCEPT !.at = p, !.user = u, !.answer = c] \in AuthType
  BY DEF AuthType
<1>3. ASSUME NEW s \in Sessions, NEW p \in AuthPlaces, NEW c \in AuthAnswers
      PROVE  [auth EXCEPT ![s].at = p, ![s].answer = c] \in [Sessions -> AuthType]
  BY DEF AuthType
<1>4. ASSUME NEW s \in Sessions, NEW p \in AuthPlaces, NEW o \in OrgNames
      PROVE  [auth EXCEPT ![s].at = p, ![s].org = o] \in [Sessions -> AuthType]
  BY DEF AuthType
<1>5. ASSUME NEW s \in Sessions, NEW p \in AuthPlaces, NEW c \in AuthAnswers, NEW l \in RolesOrNone
      PROVE  [auth EXCEPT ![s].at = p, ![s].answer = c, ![s].role = l] \in [Sessions -> AuthType]
  BY DEF AuthType
<1>6. ASSUME NEW s \in Sessions, NEW p \in AuthPlaces, NEW c \in AuthAnswers,
              NEW o \in OrgNames, NEW l \in RolesOrNone
      PROVE  [auth EXCEPT ![s].at = p, ![s].answer = c, ![s].org = o, ![s].role = l]
                \in [Sessions -> AuthType]
  BY DEF AuthType
<1> QED BY <1>1, <1>2, <1>3, <1>4, <1>5, <1>6

LEMMA AccountsStart == AccountsInit => AccountsInv
BY AuthNamesHold DEF NoAuthNames, AccountsInit, AccountsInv, AccountsType, AuthInv

LEMMA AccountsStep == AccountsInv /\ [AccountsNext]_accountVars => AccountsInv'
<1> SUFFICES ASSUME AccountsInv, [AccountsNext]_accountVars PROVE AccountsInv'
  OBVIOUS
<1>0. /\ AccountsType /\ auth \in [Sessions -> AuthType]
      /\ users \in [Emails -> {"none", "active", "disabled"}]
      /\ members \in [Emails \X Companies -> RoleNames \union {"none"}]
      /\ \A s \in Sessions : AuthInv(s)
  BY DEF AccountsInv, AccountsType
<1>a. auth \in [Sessions -> AuthType]
  BY <1>0
<1>n. AuthNames
  BY AuthNamesHold
<1>m. NoAuth \in AuthType /\ NoAuth.answer = 0 /\ NoAuth.at = "idle"
  BY AuthNamesHold DEF NoAuthNames
\* A step of one request.
<1>s. ASSUME NEW s \in Sessions, auth' \in [Sessions -> AuthType],
             \A t \in Sessions : t # s => auth'[t] = auth[t],
             UNCHANGED <<members, granted>>,
             users' \in [Emails -> {"none", "active", "disabled"}],
             \A u \in Emails : users[u] # "none" => users'[u] # "none",
             AuthInv(s)'
      PROVE  AccountsInv'
  <2>2. ASSUME NEW t \in Sessions, t # s PROVE AuthInv(t)'
    <3>1. auth'[t] = auth[t] /\ granted' = granted /\ AuthInv(t)
      BY <1>0, <1>s, <2>2
    <3>2. OrgEarned(t)' <=> OrgEarned(t)
      BY <3>1 DEF OrgEarned
    <3>3. auth[t].user \in Emails /\ users[auth[t].user] # "none" => users'[auth[t].user] # "none"
      BY <1>s
    <3> QED BY <3>1, <3>2, <3>3 DEF AuthInv
  <2> QED BY <1>0, <1>s, <2>2 DEF AccountsInv, AccountsType
<1>p. /\ "done" \in AuthPlaces /\ "org" \in AuthPlaces /\ "role" \in AuthPlaces
      /\ 200 \in AuthAnswers /\ 201 \in AuthAnswers /\ 401 \in AuthAnswers /\ 503 \in AuthAnswers
      /\ "member" \in RolesOrNone /\ \A e \in Emails : e \in UserNames
  BY <1>n DEF AuthNames
<1>1. ASSUME NEW s \in Sessions, NEW e \in Emails, CheckDuplicate(s, e) PROVE AccountsInv'
  <2> DEFINE at == IF users[e] = "none" THEN "insert" ELSE "done"
             answer == IF users[e] = "none" THEN 0 ELSE 500
  <2>1. /\ at \in AuthPlaces /\ answer \in AuthAnswers /\ e \in UserNames
        /\ at = "insert" => answer = 0
        /\ at \notin {"org", "role"} /\ answer \notin {200, 201}
    BY <1>n DEF AuthNames
  <2>2. auth' = [auth EXCEPT ![s] = [NoAuth EXCEPT !.user = e, !.at = at, !.answer = answer]]
        /\ UNCHANGED <<users, members, granted>>
    BY <1>1 DEF CheckDuplicate
  <2> HIDE DEF at, answer
  <2>3. /\ auth' \in [Sessions -> AuthType]
        /\ \A t \in Sessions : t # s => auth'[t] = auth[t]
        /\ auth'[s].at = at /\ auth'[s].user = e /\ auth'[s].answer = answer
    <3>1. auth' \in [Sessions -> AuthType]
      BY <1>a, <1>m, <2>1, <2>2 DEF AuthType
    <3>2. \A t \in Sessions : t # s => auth'[t] = auth[t]
      BY <1>0, <2>1, <2>2
    <3>3. /\ auth'[s].at = at /\ auth'[s].user = e /\ auth'[s].answer = answer
      BY <1>0, <1>m, <2>1, <2>2 DEF AuthType
    <3> QED BY <3>1, <3>2, <3>3
  <2>4. AuthInv(s)'
    BY <2>1, <2>3 DEF AuthInv
  <2> QED BY <1>0, <1>s, <2>2, <2>3, <2>4
<1>2. ASSUME NEW s \in Sessions, NEW e \in Emails, FindUser(s, e) PROVE AccountsInv'
  <2>1. PICK matches \in BOOLEAN : auth' = [auth EXCEPT ![s] =
           IF users[e] = "active" /\ matches
           THEN [NoAuth EXCEPT !.at = "org", !.user = e]
           ELSE [NoAuth EXCEPT !.at = "done", !.user = e, !.answer = 401]]
    BY <1>2 DEF FindUser
  <2>2. UNCHANGED <<users, members, granted>>
    BY <1>2 DEF FindUser
  <2>3. CASE users[e] = "active" /\ matches
    <3>1. auth' = [auth EXCEPT ![s] = [NoAuth EXCEPT !.at = "org", !.user = e]]
      BY <2>1, <2>3
    <3>2. /\ auth' \in [Sessions -> AuthType]
          /\ \A t \in Sessions : t # s => auth'[t] = auth[t]
          /\ auth'[s].at = "org" /\ auth'[s].user = e /\ auth'[s].answer = 0
      <4>1. auth' \in [Sessions -> AuthType]
        <5>1. "org" \in AuthPlaces /\ e \in UserNames
          BY <1>p
        <5>2. \A p \in AuthPlaces : [NoAuth EXCEPT !.at = p, !.user = e] \in AuthType
          BY <1>a, <1>m, <5>1, AuthUpdates
        <5>3. [NoAuth EXCEPT !.at = "org", !.user = e] \in AuthType
          BY <5>1, <5>2, Zenon
        <5> QED BY <1>a, <3>1, <5>3
      <4>2. \A t \in Sessions : t # s => auth'[t] = auth[t]
        BY <1>0, <3>1
      <4>3. /\ auth'[s].at = "org" /\ auth'[s].user = e /\ auth'[s].answer = 0
        BY <1>0, <1>m, <1>p, <3>1 DEF AuthType
      <4> QED BY <4>1, <4>2, <4>3
    <3>3. AuthInv(s)'
      BY <2>2, <2>3, <3>2 DEF AuthInv
    <3> QED BY <1>0, <1>s, <2>2, <3>2, <3>3
  <2>4. CASE ~(users[e] = "active" /\ matches)
    <3>1. auth' = [auth EXCEPT ![s] = [NoAuth EXCEPT !.at = "done", !.user = e, !.answer = 401]]
      BY <2>1, <2>4
    <3>2. /\ auth' \in [Sessions -> AuthType]
          /\ \A t \in Sessions : t # s => auth'[t] = auth[t]
          /\ auth'[s].at = "done" /\ auth'[s].answer = 401
      <4>1. auth' \in [Sessions -> AuthType]
        <5>1. "done" \in AuthPlaces /\ 401 \in AuthAnswers /\ e \in UserNames
          BY <1>p
        <5>2. \A p \in AuthPlaces, c \in AuthAnswers :
                [NoAuth EXCEPT !.at = p, !.user = e, !.answer = c] \in AuthType
          BY <1>a, <1>m, <5>1, AuthUpdates
        <5>3. [NoAuth EXCEPT !.at = "done", !.user = e, !.answer = 401] \in AuthType
          BY <5>1, <5>2, Zenon
        <5> QED BY <1>a, <3>1, <5>3
      <4>2. \A t \in Sessions : t # s => auth'[t] = auth[t]
        BY <1>0, <3>1
      <4>3. /\ auth'[s].at = "done" /\ auth'[s].answer = 401
        BY <1>0, <1>m, <1>p, <3>1 DEF AuthType
      <4> QED BY <4>1, <4>2, <4>3
    <3>3. AuthInv(s)'
      BY <3>2 DEF AuthInv
    <3> QED BY <1>0, <1>s, <2>2, <3>2, <3>3
  <2> QED BY <2>3, <2>4
<1>r. ASSUME NEW s \in Sessions, Reply(s, 503), UNCHANGED <<users, members, granted>>
      PROVE  AccountsInv'
  <2>1. auth' = [auth EXCEPT ![s].at = "done", ![s].answer = 503]
    BY <1>r DEF Reply
  <2>2. /\ auth' \in [Sessions -> AuthType]
        /\ \A t \in Sessions : t # s => auth'[t] = auth[t]
        /\ auth'[s].at = "done" /\ auth'[s].answer = 503
    <3>1. auth' \in [Sessions -> AuthType]
      <4>1. "done" \in AuthPlaces /\ 503 \in AuthAnswers
      BY <1>p
    <4>2. \A p \in AuthPlaces, c \in AuthAnswers :
            [auth EXCEPT ![s].at = p, ![s].answer = c] \in [Sessions -> AuthType]
      BY <1>a, AuthUpdates
    <4> QED BY <2>1, <4>1, <4>2, Zenon
    <3>2. \A t \in Sessions : t # s => auth'[t] = auth[t]
      BY <1>0, <2>1
    <3>3. /\ auth'[s].at = "done" /\ auth'[s].answer = 503
      BY <1>0, <2>1 DEF AuthType
    <3> QED BY <3>1, <3>2, <3>3
  <2>3. AuthInv(s)'
    BY <2>2 DEF AuthInv
  <2> QED BY <1>0, <1>r, <1>s, <2>2, <2>3
<1>3. ASSUME NEW s \in Sessions, InsertUser(s) PROVE AccountsInv'
  <2>0. auth[s].user \in Emails
    BY <1>0, <1>3 DEF InsertUser, AuthInv
  <2>1. CASE users[auth[s].user] = "none"
    <3>1. /\ auth' = [auth EXCEPT ![s].at = "done", ![s].answer = 201,
                                   ![s].org = auth[s].user, ![s].role = "member"]
          /\ users' = [users EXCEPT ![auth[s].user] = "active"]
          /\ UNCHANGED <<members, granted>>
      BY <1>3, <2>1 DEF InsertUser
    <3>0. auth[s].user \in OrgNames
      BY <1>n, <2>0 DEF AuthNames
    <3>2. /\ auth' \in [Sessions -> AuthType]
          /\ \A t \in Sessions : t # s => auth'[t] = auth[t]
          /\ auth'[s].at = "done" /\ auth'[s].user = auth[s].user
          /\ auth'[s].org = auth[s].user /\ auth'[s].role = "member"
      <4>1. auth' \in [Sessions -> AuthType]
        <5>1. /\ "done" \in AuthPlaces /\ 201 \in AuthAnswers /\ "member" \in RolesOrNone
              /\ auth[s].user \in OrgNames
          BY <1>p, <3>0
        <5>2. \A p \in AuthPlaces, c \in AuthAnswers, o \in OrgNames, l \in RolesOrNone :
                [auth EXCEPT ![s].at = p, ![s].answer = c, ![s].org = o, ![s].role = l]
                  \in [Sessions -> AuthType]
          BY <1>a, AuthUpdates
        <5> QED BY <3>1, <5>1, <5>2, Zenon
      <4>2. \A t \in Sessions : t # s => auth'[t] = auth[t]
        BY <1>0, <2>0, <3>1
      <4>3. /\ auth'[s].at = "done" /\ auth'[s].user = auth[s].user
            /\ auth'[s].org = auth[s].user /\ auth'[s].role = "member"
        BY <1>0, <2>0, <3>1 DEF AuthType
      <4> QED BY <4>1, <4>2, <4>3
    <3>3. AuthInv(s)'
      BY <1>0, <2>0, <3>1, <3>2 DEF AuthInv, OrgEarned
    <3> QED BY <1>0, <1>s, <2>0, <3>1, <3>2, <3>3
  <2>2. CASE users[auth[s].user] # "none"
    BY <1>3, <1>r, <2>2 DEF InsertUser
  <2> QED BY <2>1, <2>2
<1>4. ASSUME NEW s \in Sessions, FirstOrg(s) PROVE AccountsInv'
  <2>0. auth[s].user \in Emails /\ users[auth[s].user] # "none" /\ auth[s].answer = 0
    BY <1>0, <1>4 DEF FirstOrg, AuthInv
  <2>1. PICK o \in IF OrgsOf(auth[s].user) = {} THEN {auth[s].user} ELSE OrgsOf(auth[s].user) :
           auth' = [auth EXCEPT ![s].at = "role", ![s].org = o]
    BY <1>4 DEF FirstOrg
  <2>2. o = auth[s].user \/ \E r \in RoleNames : <<auth[s].user, o, r>> \in granted
    BY <2>0, <2>1 DEF OrgsOf, AccountsInv
  <2>3. o \in OrgNames
    BY <1>n, <2>0, <2>1 DEF OrgsOf, AuthNames
  <2>4. UNCHANGED <<users, members, granted>>
    BY <1>4 DEF FirstOrg
  <2>5. /\ auth' \in [Sessions -> AuthType]
        /\ \A t \in Sessions : t # s => auth'[t] = auth[t]
        /\ auth'[s].at = "role" /\ auth'[s].user = auth[s].user
        /\ auth'[s].org = o /\ auth'[s].answer = auth[s].answer
    <3>1. auth' \in [Sessions -> AuthType]
      <4>1. "role" \in AuthPlaces
      BY <1>p
    <4>2. \A p \in AuthPlaces, b \in OrgNames :
            [auth EXCEPT ![s].at = p, ![s].org = b] \in [Sessions -> AuthType]
      BY <1>a, AuthUpdates
    <4> QED BY <2>1, <2>3, <4>1, <4>2, Zenon
    <3>2. \A t \in Sessions : t # s => auth'[t] = auth[t]
      BY <1>0, <2>1, <2>3
    <3>3. /\ auth'[s].at = "role" /\ auth'[s].user = auth[s].user
          /\ auth'[s].org = o /\ auth'[s].answer = auth[s].answer
      BY <1>0, <2>1, <2>3 DEF AuthType
    <3> QED BY <3>1, <3>2, <3>3
  <2>6. AuthInv(s)'
    BY <2>0, <2>2, <2>4, <2>5 DEF AuthInv, OrgEarned
  <2> QED BY <1>0, <1>s, <2>4, <2>5, <2>6
<1>5. ASSUME NEW s \in Sessions, OrgRole(s) PROVE AccountsInv'
  <2>0. auth[s].user \in Emails /\ users[auth[s].user] # "none" /\ OrgEarned(s)
    BY <1>0, <1>5 DEF OrgRole, AuthInv
  <2> DEFINE role == RoleIn(auth[s].user, auth[s].org)
  <2>1. \/ role = "member"
        \/ role \in RoleNames /\ <<auth[s].user, auth[s].org, role>> \in granted
    BY <2>0 DEF RoleIn, AccountsInv
  <2>2. auth' = [auth EXCEPT ![s].at = "done", ![s].answer = 200, ![s].role = role]
        /\ UNCHANGED <<users, members, granted>>
    BY <1>5 DEF OrgRole
  <2>r. role \in RolesOrNone
    BY <1>n, <2>1 DEF AuthNames
  <2> HIDE DEF role
  <2>3. /\ auth' \in [Sessions -> AuthType]
        /\ \A t \in Sessions : t # s => auth'[t] = auth[t]
        /\ auth'[s].at = "done" /\ auth'[s].user = auth[s].user
        /\ auth'[s].org = auth[s].org /\ auth'[s].role = role
    <3>1. auth' \in [Sessions -> AuthType]
      <4>1. "done" \in AuthPlaces /\ 200 \in AuthAnswers
      BY <1>p
    <4>2. \A p \in AuthPlaces, c \in AuthAnswers, l \in RolesOrNone :
            [auth EXCEPT ![s].at = p, ![s].answer = c, ![s].role = l] \in [Sessions -> AuthType]
      BY <1>a, AuthUpdates
    <4> QED BY <2>2, <2>r, <4>1, <4>2, Zenon
    <3>2. \A t \in Sessions : t # s => auth'[t] = auth[t]
      BY <1>0, <2>1, <2>2
    <3>3. /\ auth'[s].at = "done" /\ auth'[s].user = auth[s].user
          /\ auth'[s].org = auth[s].org /\ auth'[s].role = role
      BY <1>0, <2>1, <2>2 DEF AuthType
    <3> QED BY <3>1, <3>2, <3>3
  <2>4. AuthInv(s)'
    BY <2>0, <2>1, <2>2, <2>3 DEF AuthInv, OrgEarned
  <2> QED BY <1>0, <1>s, <2>2, <2>3, <2>4
<1>6. ASSUME NEW s \in Sessions, DatabaseFails(s) PROVE AccountsInv'
  BY <1>6, <1>r DEF DatabaseFails
<1>7. ASSUME NEW s \in Sessions, EndAuth(s) PROVE AccountsInv'
  <2>1. auth' = [auth EXCEPT ![s] = NoAuth] /\ UNCHANGED <<users, members, granted>>
    BY <1>7 DEF EndAuth
  <2>2. /\ auth' \in [Sessions -> AuthType] /\ auth'[s] = NoAuth
        /\ \A t \in Sessions : t # s => auth'[t] = auth[t]
    BY <1>0, <1>m, <2>1
  <2>3. AuthInv(s)'
    BY <1>m, <2>2 DEF AuthInv
  <2> QED BY <1>0, <1>s, <2>1, <2>2, <2>3
<1>8. ASSUME NEW u \in Emails, SetEnabled(u) PROVE AccountsInv'
  <2>1. users' \in [Emails -> {"none", "active", "disabled"}]
        /\ \A e \in Emails : users[e] # "none" => users'[e] # "none"
    BY <1>0, <1>8 DEF SetEnabled
  <2>2. \A s \in Sessions : AuthInv(s)'
    BY <1>0, <1>8, <2>1 DEF SetEnabled, AuthInv, OrgEarned
  <2> QED BY <1>0, <1>8, <2>1, <2>2 DEF SetEnabled, AccountsInv, AccountsType
<1>9. ASSUME NEW u \in Emails, NEW o \in Companies, NEW r \in RoleNames \union {"none"},
             SetMembership(u, o, r)
      PROVE  AccountsInv'
  <2>1. granted \subseteq granted' /\ (r # "none" => <<u, o, r>> \in granted')
        /\ UNCHANGED <<users, auth>>
        /\ members' = [members EXCEPT ![<<u, o>>] = r]
    BY <1>9 DEF SetMembership
  <2>2. ASSUME NEW s \in Sessions PROVE AuthInv(s)'
    <3>1. AuthInv(s) /\ auth' = auth /\ users' = users
      BY <1>0, <2>1
    <3>2. OrgEarned(s) => OrgEarned(s)'
      BY <2>1 DEF OrgEarned
    <3> QED BY <2>1, <3>1, <3>2 DEF AuthInv
  <2>3. \A e \in Emails, c \in Companies :
           members'[<<e, c>>] = IF e = u /\ c = o THEN r ELSE members[<<e, c>>]
    BY <1>0, <2>1
  <2>4. members' \in [Emails \X Companies -> RoleNames \union {"none"}]
    BY <1>0, <2>1
  <2> QED BY <1>0, <2>1, <2>2, <2>3, <2>4 DEF AccountsInv, AccountsType
<1>10. CASE UNCHANGED accountVars
  BY <1>0, <1>10 DEF accountVars, AccountsInv, AccountsType, AuthInv, OrgEarned
<1> QED BY <1>1, <1>2, <1>3, <1>4, <1>5, <1>6, <1>7, <1>8, <1>9, <1>10 DEF AccountsNext

-----------------------------------------------------------------------------
(* The registry of entity types                                            *)

ChangesOf(t) == {i \in DOMAIN typeLog : typeLog[i][2] = t}
LastChange(t, i) == i \in ChangesOf(t) /\ \A j \in ChangesOf(t) : j <= i

TypesInv ==
    /\ typeLog \in Seq({"register", "deprecate"} \X (NewTypes \union CoreSample) \X TypeOwners)
    /\ CoreTypes \subseteq DOMAIN types
    /\ types \in [DOMAIN types -> [by : TypeOwners \union {"core"}, status : {"active", "deprecated"}]]
    /\ \A t \in CoreTypes : types[t].by = "core" /\ types[t].status = "active"
    /\ \A i \in DOMAIN typeLog :
         typeLog[i][2] \in DOMAIN types /\ typeLog[i][3] = types[typeLog[i][2]].by
    /\ \A t \in DOMAIN types \ CoreTypes :
         \E i \in DOMAIN typeLog :
            LastChange(t, i) /\ (types[t].status = "active" <=> typeLog[i][1] = "register")

LEMMA TypesStart == TypesInit => TypesInv
BY DEF TypesInit, TypesInv

LEMMA TypesStep == TypesInv /\ [TypesNext]_entityVars => TypesInv'
<1> SUFFICES ASSUME TypesInv, [TypesNext]_entityVars PROVE TypesInv'
  OBVIOUS
<1> DEFINE Change == {"register", "deprecate"} \X (NewTypes \union CoreSample) \X TypeOwners
           Entry == [by : TypeOwners \union {"core"}, status : {"active", "deprecated"}]
           n == Len(typeLog)
<1>0. /\ typeLog \in Seq(Change) /\ n \in Nat /\ DOMAIN typeLog = 1..n
      /\ types \in [DOMAIN types -> Entry] /\ CoreTypes \subseteq DOMAIN types
  BY DEF TypesInv
<1>c. ASSUME NEW t \in NewTypes \union CoreSample, NEW what \in {"register", "deprecate"},
             NEW by \in TypeOwners, LogType(<<what, t, by>>), NEW v \in Entry, v.by = by,
             types' = [u \in DOMAIN types \union {t} |-> IF u = t THEN v ELSE types[u]],
             v.status = "active" <=> what = "register",
             t \in CoreTypes => by = "core" /\ what = "register",
             t \in DOMAIN types => types[t].by = by
      PROVE  TypesInv'
  <2>1. /\ typeLog' = Append(typeLog, <<what, t, by>>) /\ typeLog' \in Seq(Change)
        /\ Len(typeLog') = n + 1 /\ DOMAIN typeLog' = 1..(n + 1)
        /\ typeLog'[n + 1] = <<what, t, by>>
        /\ \A i \in 1..n : typeLog'[i] = typeLog[i]
    BY <1>0, <1>c DEF LogType
  <2>2. /\ DOMAIN types' = DOMAIN types \union {t} /\ types' \in [DOMAIN types' -> Entry]
        /\ CoreTypes \subseteq DOMAIN types' /\ types'[t] = v
        /\ \A u \in DOMAIN types : u # t => types'[u] = types[u]
    BY <1>0, <1>c
  <2>3. \A u \in CoreTypes : types'[u].by = "core" /\ types'[u].status = "active"
    BY <1>c, <2>2 DEF TypesInv
  <2>4. \A i \in DOMAIN typeLog' :
           typeLog'[i][2] \in DOMAIN types' /\ typeLog'[i][3] = types'[typeLog'[i][2]].by
    <3> TAKE i \in DOMAIN typeLog'
    <3>1. CASE i = n + 1
      BY <1>c, <2>1, <2>2, <3>1
    <3>2. CASE i # n + 1
      <4>1. i \in DOMAIN typeLog /\ typeLog'[i] = typeLog[i]
        BY <1>0, <2>1, <3>2
      <4>2. typeLog[i][2] \in DOMAIN types /\ typeLog[i][3] = types[typeLog[i][2]].by
        BY <4>1 DEF TypesInv
      <4> QED BY <1>c, <2>2, <4>1, <4>2
    <3> QED BY <3>1, <3>2
  <2>5. ASSUME NEW u \in DOMAIN types' \ CoreTypes
        PROVE  \E i \in DOMAIN typeLog' :
                  LastChange(u, i)' /\ (types'[u].status = "active" <=> typeLog'[i][1] = "register")
    <3>1. CASE u = t
      <4>1. n + 1 \in DOMAIN typeLog' /\ \A j \in DOMAIN typeLog' : j <= n + 1
        BY <1>0, <2>1
      <4>2. typeLog'[n + 1][2] = u /\ typeLog'[n + 1][1] = what
        BY <2>1, <3>1
      <4>3. PICK k \in DOMAIN typeLog' : k = n + 1
        BY <4>1
      <4>4. LastChange(u, k)'
        BY <4>1, <4>2, <4>3 DEF LastChange, ChangesOf
      <4> QED BY <1>c, <2>2, <3>1, <4>2, <4>3, <4>4
    <3>2. CASE u # t
      <4>1. u \in DOMAIN types \ CoreTypes /\ types'[u] = types[u]
        BY <2>2, <2>5, <3>2
      <4>2. PICK i \in DOMAIN typeLog :
               LastChange(u, i) /\ (types[u].status = "active" <=> typeLog[i][1] = "register")
        BY <4>1 DEF TypesInv
      <4>3. ChangesOf(u)' = ChangesOf(u)
        BY <1>0, <2>1, <3>2 DEF ChangesOf
      <4>4. LastChange(u, i)' /\ typeLog'[i] = typeLog[i] /\ i \in DOMAIN typeLog'
        BY <1>0, <2>1, <4>2, <4>3 DEF LastChange
      <4> QED BY <4>1, <4>2, <4>4
    <3> QED BY <3>1, <3>2
  <2> QED BY <2>1, <2>2, <2>3, <2>4, <2>5 DEF TypesInv
<1>1. ASSUME NEW t \in NewTypes \union CoreSample, NEW by \in TypeOwners, RegisterType(t, by)
      PROVE  TypesInv'
  <2> DEFINE v == [by |-> by, status |-> "active"]
  <2>1. v \in Entry
    OBVIOUS
  <2> QED BY <1>1, <1>c, <2>1 DEF RegisterType
<1>2. ASSUME NEW t \in NewTypes \union CoreSample, DeprecateType(t) PROVE TypesInv'
  <2> DEFINE v == [types[t] EXCEPT !.status = "deprecated"]
  <2>1. t \in DOMAIN types \ CoreTypes /\ LogType(<<"deprecate", t, types[t].by>>)
        /\ types' = [types EXCEPT ![t].status = "deprecated"]
    BY <1>2 DEF DeprecateType
  <2>2. v \in Entry /\ v.by = types[t].by /\ v.status = "deprecated"
    BY <1>0, <2>1
  <2>3. types' = [u \in DOMAIN types \union {t} |-> IF u = t THEN v ELSE types[u]]
    BY <1>0, <2>1
  <2>4. types[t].by \in TypeOwners
    <3>1. PICK i \in DOMAIN typeLog : LastChange(t, i)
      BY <2>1 DEF TypesInv
    <3>2. typeLog[i][2] = t /\ typeLog[i][3] = types[t].by
      BY <3>1 DEF LastChange, ChangesOf, TypesInv
    <3> QED BY <1>0, <3>2
  <2> QED BY <1>c, <2>1, <2>2, <2>3, <2>4
<1>3. CASE UNCHANGED entityVars
  BY <1>3 DEF entityVars, TypesInv, LastChange, ChangesOf
<1> QED BY <1>1, <1>2, <1>3 DEF TypesNext

LEMMA TypesMeaning == TypesInv => TypesOwned
<1> SUFFICES ASSUME TypesInv PROVE TypesOwned
  OBVIOUS
<1>0. typeLog \in Seq({"register", "deprecate"} \X (NewTypes \union CoreSample) \X TypeOwners)
      /\ DOMAIN typeLog \subseteq Nat
  BY DEF TypesInv
<1>1. ASSUME NEW t \in DOMAIN types \ CoreTypes
      PROVE  /\ Cardinality({typeLog[i][3] : i \in ChangesOf(t)}) = 1
             /\ IsWritable(t) <=> typeLog[Max(ChangesOf(t))][1] = "register"
  <2>1. PICK i \in DOMAIN typeLog :
           LastChange(t, i) /\ (types[t].status = "active" <=> typeLog[i][1] = "register")
    BY DEF TypesInv
  <2>2. i \in ChangesOf(t) /\ \A j \in ChangesOf(t) : typeLog[j][3] = types[t].by
    BY <2>1 DEF LastChange, ChangesOf, TypesInv
  <2>3. {typeLog[j][3] : j \in ChangesOf(t)} = {types[t].by}
    BY <2>2
  <2>4. Cardinality({types[t].by}) = 1
    BY FS_Singleton
  <2>5. \A k \in ChangesOf(t) : (\A j \in ChangesOf(t) : k >= j) => k = i
    BY <1>0, <2>1 DEF LastChange, ChangesOf
  <2>6. \A j \in ChangesOf(t) : i >= j
    BY <1>0, <2>1 DEF LastChange, ChangesOf
  <2>7. Max(ChangesOf(t)) = i
    BY <2>2, <2>5, <2>6 DEF Max
  <2> QED BY <2>1, <2>3, <2>4, <2>7 DEF IsWritable
<1>2. \A t \in CoreTypes : IsWritable(t) /\ types[t].by = "core"
  BY DEF TypesInv, IsWritable
<1>3. \A c \in Range(typeLog) : c[2] \in CoreTypes => c[3] = "core"
  BY DEF TypesInv, Range
<1> QED BY <1>1, <1>2, <1>3 DEF TypesOwned, ChangesOf

\* Who may act was given the right: only an active skill starts, whatever the
\* registry does between routing and execution (LifecycleRegistry,
\* SkillOrchestrator); a token names a role and an organisation its user was
\* given (the auth API); an entity type stays its first owner's
\* (EntityTypeRegistry).
THEOREM GrantsAreKept == Spec => []GrantsHold
<1> DEFINE GInv == /\ part = "skills" => SkillsInv
                   /\ part = "accounts" => AccountsInv
                   /\ part = "types" => TypesInv
<1>1. Init => GInv
  BY SkillsStart, AccountsStart, TypesStart DEF Init
<1>2. GInv /\ [Next]_serviceVars => GInv'
  BY PartMoves, SkillsStep, AccountsStep, TypesStep
<1>3. AccountsInv => TokensAreEarned
  BY DEF AccountsInv, AuthInv, OrgEarned, TokensAreEarned
<1>4. GInv => GrantsHold
  BY <1>3, TypesMeaning DEF GrantsHold, Of, SkillsInv
<1> QED BY <1>1, <1>2, <1>4, PTL DEF Spec

-----------------------------------------------------------------------------
(* The event streams                                                       *)

StreamPlaces == {"closed", "subscribed", "streaming"}
TenantNames == Tenants \union {"-"}
EventSeqs == Seq(Nat)
StreamRecord == [at : StreamPlaces, tenant : TenantNames, from : Nat,
                 queue : EventSeqs, sent : EventSeqs, got : EventSeqs]

\* How many events wait in a queue: all entries of a registered one, all but
\* the sentinel of one that a shutdown forgot.
Waiting(queue, known) == IF known THEN Len(queue) ELSE Len(queue) - 1

\* A client got its events in rising order, none later than the first n.
Rising(got, n) ==
    /\ \A i, j \in 1..Len(got) : i < j => got[i] < got[j]
    /\ \A i \in 1..Len(got) : got[i] <= n

\* An open stream that was subscribed after event "from" of its tenant, which
\* has published n by now.
Flows(from, queue, sent, known, n) ==
    /\ \A i \in 1..Len(sent) : sent[i] = from + i
    /\ \A i \in 1..Waiting(queue, known) : queue[i] = from + Len(sent) + i
    /\ from + Len(sent) + Waiting(queue, known) <= n
    /\ known => from + Len(sent) + Waiting(queue, known) = n
    /\ ~known => queue # <<>> /\ queue[Len(queue)] = End

\* Where stream s of one client stands, when the tenants have published "pub".
StreamOk(s, known, pub) ==
    /\ s.at # "closed" \/ s.got # <<>> => s.tenant \in Tenants
    /\ known => s.at # "closed"
    /\ s.at = "closed" => s.got = <<>> \/ Rising(s.got, pub[s.tenant])
    /\ s.at # "closed" =>
         /\ Rising(s.got, s.from + Len(s.sent))
         /\ Flows(s.from, s.queue, s.sent, known, pub[s.tenant])

StreamsType ==
    /\ published \in [Tenants -> Nat]
    /\ stream \in [Clients -> StreamRecord]
    /\ registered \subseteq Clients
StreamsInv ==
    /\ StreamsType
    /\ \A c \in Clients : StreamOk(stream[c], c \in registered, published)

LEMMA NoStreamType == NoStream \in StreamRecord /\ NoStream.got = <<>> /\ NoStream.at = "closed"
BY DEF NoStream, StreamRecord, StreamPlaces, TenantNames, EventSeqs

LEMMA StreamsStart == StreamsInit => StreamsInv
<1> SUFFICES ASSUME StreamsInit PROVE StreamsInv
  OBVIOUS
<1>1. StreamsType
  BY NoStreamType DEF StreamsInit, StreamsType
<1>2. ASSUME NEW c \in Clients PROVE StreamOk(stream[c], c \in registered, published)
  BY NoStreamType DEF StreamsInit, StreamOk
<1> QED BY <1>1, <1>2 DEF StreamsInv

LEMMA RisingLater ==
    ASSUME NEW got \in Seq(Nat), NEW n \in Nat, NEW m \in Nat, n <= m, Rising(got, n)
    PROVE  Rising(got, m)
BY DEF Rising

LEMMA FlowsToYield ==
    ASSUME NEW from \in Nat, NEW queue \in Seq(Nat), NEW sent \in Seq(Nat), NEW got \in Seq(Nat),
           NEW known \in BOOLEAN, NEW n \in Nat, queue # <<>>, Head(queue) # End,
           Flows(from, queue, sent, known, n), Rising(got, from + Len(sent))
    PROVE  /\ Flows(from, Tail(queue), Append(sent, Head(queue)), known, n)
           /\ Rising(Append(got, Head(queue)), from + Len(Append(sent, Head(queue))))
<1> DEFINE e == Head(queue)
           m == Len(sent)
           q == Len(queue)
           g == Len(got)
<1>1. m \in Nat /\ q \in Nat /\ g \in Nat /\ q >= 1 /\ e \in Nat /\ e = queue[1]
  OBVIOUS
<1>2. Waiting(queue, known) \in Nat /\ Waiting(queue, known) >= 1
  BY <1>1 DEF Waiting, Flows
<1>3. e = from + m + 1
  BY <1>1, <1>2 DEF Flows
<1>4. /\ Tail(queue) \in Seq(Nat) /\ Len(Tail(queue)) = q - 1
      /\ \A i \in 1..(q - 1) : Tail(queue)[i] = queue[i + 1]
  BY <1>1
<1>5. /\ Append(sent, e) \in Seq(Nat) /\ Len(Append(sent, e)) = m + 1
      /\ \A i \in 1..(m + 1) : Append(sent, e)[i] = IF i = m + 1 THEN e ELSE sent[i]
  BY <1>1
<1>6. /\ Append(got, e) \in Seq(Nat) /\ Len(Append(got, e)) = g + 1
      /\ \A i \in 1..(g + 1) : Append(got, e)[i] = IF i = g + 1 THEN e ELSE got[i]
  BY <1>1
<1>7. Waiting(Tail(queue), known) = Waiting(queue, known) - 1
  BY <1>1, <1>4 DEF Waiting
<1>8. ASSUME NEW i \in 1..Waiting(Tail(queue), known)
      PROVE  Tail(queue)[i] = from + Len(Append(sent, e)) + i
  <2>1. i \in 1..(q - 1) /\ i + 1 \in 1..Waiting(queue, known)
    BY <1>1, <1>2, <1>7 DEF Waiting
  <2>2. queue[i + 1] = from + m + (i + 1)
    BY <2>1 DEF Flows
  <2> QED BY <1>1, <1>4, <1>5, <2>1, <2>2
<1>9. ~known => Tail(queue) # <<>> /\ Tail(queue)[Len(Tail(queue))] = End
  <2> SUFFICES ASSUME ~known PROVE Tail(queue) # <<>> /\ Tail(queue)[Len(Tail(queue))] = End
    OBVIOUS
  <2>1. q >= 2 /\ queue[q] = End
    BY <1>1, <1>2 DEF Waiting, Flows
  <2>2. PICK k \in Nat : q = k + 1 /\ k >= 1
    <3>1. q - 1 \in Nat /\ q = (q - 1) + 1 /\ q - 1 >= 1
      BY <1>1, <2>1
    <3> QED BY <3>1
  <2>3. Len(Tail(queue)) = k /\ k \in 1..(q - 1)
    BY <1>4, <2>2
  <2>4. Tail(queue)[k] = queue[k + 1]
    BY <1>4, <2>3
  <2>5. Tail(queue)[Len(Tail(queue))] = End
    BY <2>1, <2>2, <2>3, <2>4, Zenon
  <2>6. Tail(queue) # <<>>
    <3>1. Len(<<>>) # k
      BY <2>2
    <3> QED BY <2>3, <3>1, Zenon
  <2> QED BY <2>5, <2>6, Zenon
<1>10. Flows(from, Tail(queue), Append(sent, e), known, n)
  <2>1. \A i \in 1..Len(Append(sent, e)) : Append(sent, e)[i] = from + i
    <3>1. \A i \in 1..m : sent[i] = from + i
      BY DEF Flows
    <3> HIDE DEF e, m
    <3>2. from \in Nat /\ m \in Nat
      BY <1>1
    <3> TAKE i \in 1..Len(Append(sent, e))
    <3>3. i \in 1..(m + 1) /\ Append(sent, e)[i] = IF i = m + 1 THEN e ELSE sent[i]
      BY <1>5
    <3>4. CASE i = m + 1
      BY <1>3, <3>2, <3>3, <3>4
    <3>5. CASE i # m + 1
      <4>1. i \in 1..m
        BY <3>2, <3>3, <3>5
      <4> QED BY <3>1, <3>3, <3>5, <4>1
    <3> QED BY <3>4, <3>5
  <2>2. from + Len(Append(sent, e)) + Waiting(Tail(queue), known) = from + m + Waiting(queue, known)
    BY <1>1, <1>2, <1>5, <1>7
  <2>3. /\ from + m + Waiting(queue, known) <= n
        /\ known => from + m + Waiting(queue, known) = n
    BY DEF Flows
  <2> HIDE DEF e, m, q
  <2> QED BY <1>8, <1>9, <2>1, <2>2, <2>3 DEF Flows
<1>11. Rising(Append(got, e), from + Len(Append(sent, e)))
  <2>1. \A i \in 1..g : got[i] < e /\ got[i] \in Nat
    BY <1>1, <1>3 DEF Rising
  <2>2. \A i, j \in 1..g : i < j => got[i] < got[j]
    BY DEF Rising
  <2>3. from + Len(Append(sent, e)) = e
    BY <1>1, <1>3, <1>5
  <2> HIDE DEF e, m, q, g
  <2>4. \A i, j \in 1..(g + 1) : i < j => Append(got, e)[i] < Append(got, e)[j]
    <3> TAKE i, j \in 1..(g + 1)
    <3> HAVE i < j
    <3>1. i \in 1..g /\ Append(got, e)[i] = got[i]
      BY <1>1, <1>6
    <3>2. CASE j = g + 1
      BY <1>6, <2>1, <3>1, <3>2
    <3>3. CASE j # g + 1
      <4>1. j \in 1..g /\ Append(got, e)[j] = got[j]
        BY <1>1, <1>6, <3>3
      <4> QED BY <2>2, <3>1, <4>1
    <3> QED BY <3>2, <3>3
  <2>5. \A i \in 1..(g + 1) : Append(got, e)[i] <= e
    BY <1>1, <1>6, <2>1
  <2> QED BY <1>6, <2>3, <2>4, <2>5 DEF Rising
<1> QED BY <1>10, <1>11

\* The next event of its tenant, at the end of a registered queue.
LEMMA FlowsToPublish ==
    ASSUME NEW from \in Nat, NEW queue \in Seq(Nat), NEW sent \in Seq(Nat), NEW n \in Nat,
           Flows(from, queue, sent, TRUE, n)
    PROVE  Flows(from, Append(queue, n + 1), sent, TRUE, n + 1)
<1>1. Len(queue) \in Nat /\ Len(sent) \in Nat /\ from + Len(sent) + Len(queue) = n
  BY DEF Flows, Waiting
<1>2. /\ Append(queue, n + 1) \in Seq(Nat) /\ Len(Append(queue, n + 1)) = Len(queue) + 1
      /\ \A i \in 1..(Len(queue) + 1) :
           Append(queue, n + 1)[i] = IF i = Len(queue) + 1 THEN n + 1 ELSE queue[i]
  OBVIOUS
<1>3. \A i \in 1..Len(queue) : queue[i] = from + Len(sent) + i
  BY DEF Flows, Waiting
<1>4. \A i \in 1..(Len(queue) + 1) : Append(queue, n + 1)[i] = from + Len(sent) + i
  BY <1>1, <1>2, <1>3
<1>5. from + Len(sent) + (Len(queue) + 1) = n + 1
  BY <1>1
<1>6. \A i \in 1..Len(sent) : sent[i] = from + i
  BY DEF Flows
<1> QED BY <1>2, <1>4, <1>5, <1>6 DEF Flows, Waiting

\* The sentinel of a shutdown, after which the broadcaster knows the queue no more.
LEMMA FlowsToEnd ==
    ASSUME NEW from \in Nat, NEW queue \in Seq(Nat), NEW sent \in Seq(Nat), NEW n \in Nat,
           Flows(from, queue, sent, TRUE, n)
    PROVE  Flows(from, Append(queue, End), sent, FALSE, n)
<1>1. Len(queue) \in Nat /\ Len(sent) \in Nat /\ End \in Nat
  BY DEF End
<1>2. /\ Append(queue, End) \in Seq(Nat) /\ Len(Append(queue, End)) = Len(queue) + 1
      /\ \A i \in 1..Len(queue) : Append(queue, End)[i] = queue[i]
      /\ Append(queue, End)[Len(queue) + 1] = End
  BY <1>1
<1> QED BY <1>1, <1>2 DEF Flows, Waiting

\* A stream that is ended had got nothing its tenant had not published.
LEMMA FlowsToClosed ==
    ASSUME NEW from \in Nat, NEW queue \in Seq(Nat), NEW sent \in Seq(Nat), NEW got \in Seq(Nat),
           NEW known \in BOOLEAN, NEW n \in Nat,
           Flows(from, queue, sent, known, n), Rising(got, from + Len(sent))
    PROVE  Rising(got, n)
<1>1. Len(queue) \in Nat /\ Len(sent) \in Nat
  OBVIOUS
<1>2. Waiting(queue, known) \in Nat
  <2>1. CASE known
    BY <1>1, <2>1 DEF Waiting
  <2>2. CASE ~known
    BY <1>1, <2>2 DEF Waiting, Flows
  <2> QED BY <2>1, <2>2
<1> QED BY <1>1, <1>2, RisingLater DEF Flows

LEMMA FlowsStill ==
    ASSUME NEW from \in Nat, NEW queue \in Seq(Nat), NEW sent \in Seq(Nat),
           NEW n \in Nat, NEW m \in Nat, n <= m,
           Flows(from, queue, sent, FALSE, n)
    PROVE  Flows(from, queue, sent, FALSE, m)
BY DEF Flows, Waiting

-----------------------------------------------------------------------------
(* What a step makes of a client's record                                  *)

LEMMA RecordParts ==
    ASSUME NEW s \in StreamRecord
    PROVE  /\ s.from \in Nat /\ s.queue \in Seq(Nat) /\ s.sent \in Seq(Nat) /\ s.got \in Seq(Nat)
           /\ s.tenant \in TenantNames /\ s.at \in StreamPlaces
BY DEF StreamRecord, EventSeqs

LEMMA RecordUpdates ==
    ASSUME NEW s \in StreamRecord, NEW p \in StreamPlaces, NEW t \in TenantNames, NEW n \in Nat,
           NEW a \in EventSeqs, NEW b \in EventSeqs, NEW c \in EventSeqs
    PROVE  /\ [s EXCEPT !.at = p, !.queue = a] \in StreamRecord
           /\ [s EXCEPT !.queue = a, !.sent = b, !.got = c] \in StreamRecord
           /\ [s EXCEPT !.at = p, !.tenant = t, !.from = n, !.got = c] \in StreamRecord
<1> DEFINE Numbers == Nat
<1>0. StreamRecord = [at : StreamPlaces, tenant : TenantNames, from : Numbers,
                      queue : EventSeqs, sent : EventSeqs, got : EventSeqs] /\ n \in Numbers
  BY DEF StreamRecord
<1> HIDE DEF Numbers
<1>1. [s EXCEPT !.at = p, !.queue = a] \in StreamRecord
  BY <1>0
<1>2. [s EXCEPT !.queue = a, !.sent = b, !.got = c] \in StreamRecord
  BY <1>0
<1>3. [s EXCEPT !.at = p, !.tenant = t, !.from = n, !.got = c] \in StreamRecord
  BY <1>0
<1> QED BY <1>1, <1>2, <1>3

-----------------------------------------------------------------------------
(* The streams of all clients                                              *)

LEMMA StreamsStep == StreamsInv /\ [StreamsNext]_deliveryVars => StreamsInv'
<1> SUFFICES ASSUME StreamsInv, [StreamsNext]_deliveryVars PROVE StreamsInv'
  OBVIOUS
<1>0. /\ published \in [Tenants -> Nat] /\ stream \in [Clients -> StreamRecord]
      /\ registered \subseteq Clients
      /\ \A c \in Clients : StreamOk(stream[c], c \in registered, published)
  BY DEF StreamsInv, StreamsType
\* A step of one client.
<1>c. ASSUME NEW c \in Clients, NEW r \in StreamRecord, NEW known \in BOOLEAN,
             stream' = [stream EXCEPT ![c] = r], published' = published,
             \A d \in Clients : d # c => (d \in registered' <=> d \in registered),
             registered' \subseteq Clients, c \in registered' <=> known,
             StreamOk(r, known, published)
      PROVE  StreamsInv'
  <2>1. stream' \in [Clients -> StreamRecord] /\ stream'[c] = r
        /\ \A d \in Clients : d # c => stream'[d] = stream[d]
    BY <1>0, <1>c
  <2>2. ASSUME NEW d \in Clients PROVE StreamOk(stream'[d], d \in registered', published')
    <3>1. CASE d = c
      <4>1. StreamOk(stream'[d], c \in registered', published')
        BY <1>c, <2>1, <3>1 DEF StreamOk, Flows, Waiting
      <4> QED BY <3>1, <4>1
    <3>2. CASE d # c
      <4>1. StreamOk(stream[d], d \in registered, published)
        BY <1>0
      <4>2. stream'[d] = stream[d] /\ (d \in registered' <=> d \in registered)
        BY <1>c, <2>1, <3>2
      <4> QED BY <1>c, <4>1, <4>2 DEF StreamOk, Flows, Waiting
    <3> QED BY <3>1, <3>2
  <2> QED BY <1>0, <1>c, <2>1, <2>2 DEF StreamsInv, StreamsType
<1>1. ASSUME NEW c \in Clients, NEW t \in Tenants, Subscribe(c, t) PROVE StreamsInv'
  <2> DEFINE s == stream[c]
             r == [NoStream EXCEPT !.at = "subscribed", !.tenant = t,
                                   !.from = published[t], !.got = s.got]
  <2>1. /\ s \in StreamRecord /\ s.at = "closed" /\ StreamOk(s, c \in registered, published)
        /\ s.got # <<>> => t = s.tenant
        /\ stream' = [stream EXCEPT ![c] = r] /\ published' = published
        /\ registered' = registered \union {c}
    BY <1>0, <1>1 DEF Subscribe
  <2>2. s.got \in Seq(Nat) /\ published[t] \in Nat
    BY <1>0, <2>1, RecordParts
  <2>3. r \in StreamRecord
    <3> DEFINE p == "subscribed"
    <3>1. p \in StreamPlaces /\ t \in TenantNames /\ s.got \in EventSeqs /\ <<>> \in EventSeqs
      BY <2>2 DEF StreamPlaces, TenantNames, EventSeqs
    <3> HIDE DEF p
    <3>2. [NoStream EXCEPT !.at = p, !.tenant = t, !.from = published[t], !.got = s.got]
             \in StreamRecord
      BY <2>2, <3>1, NoStreamType, RecordUpdates
    <3> QED BY <3>2 DEF p
  <2>4. /\ r.at = "subscribed" /\ r.tenant = t /\ r.from = published[t] /\ r.queue = <<>>
        /\ r.sent = <<>> /\ r.got = s.got
    BY DEF NoStream
  <2>5. Rising(s.got, published[t])
    <3>1. CASE s.got = <<>>
      BY <3>1 DEF Rising
    <3>2. CASE s.got # <<>>
      BY <2>1, <3>2 DEF StreamOk
    <3> QED BY <3>1, <3>2
  <2>6. Flows(published[t], <<>>, <<>>, TRUE, published[t])
    BY <2>2 DEF Flows, Waiting
  <2>7. published[t] + Len(<<>>) = published[t]
    BY <2>2
  <2> HIDE DEF s, r
  <2>8. StreamOk(r, TRUE, published)
    BY <2>4, <2>5, <2>6, <2>7 DEF StreamOk
  <2> QED BY <1>0, <1>c, <2>1, <2>3, <2>8
<1>2. ASSUME NEW c \in Clients, StartStream(c) PROVE StreamsInv'
  <2> DEFINE s == stream[c]
             r == [s EXCEPT !.at = "streaming"]
  <2>1. /\ s \in StreamRecord /\ s.at = "subscribed" /\ StreamOk(s, c \in registered, published)
        /\ stream' = [stream EXCEPT ![c] = r] /\ published' = published
        /\ registered' = registered
    BY <1>0, <1>2 DEF StartStream
  <2>2. r \in StreamRecord
    BY <2>1 DEF StreamRecord, StreamPlaces
  <2>3. /\ r.at = "streaming" /\ r.tenant = s.tenant /\ r.from = s.from /\ r.queue = s.queue
        /\ r.sent = s.sent /\ r.got = s.got
    BY <2>1 DEF StreamRecord
  <2> HIDE DEF s, r
  <2>4. StreamOk(r, c \in registered, published)
    BY <2>1, <2>3 DEF StreamOk
  <2> DEFINE known == c \in registered
  <2>5. known \in BOOLEAN /\ (c \in registered' <=> known) /\ StreamOk(r, known, published)
    BY <2>1, <2>4
  <2> HIDE DEF known
  <2> QED BY <1>0, <1>c, <2>1, <2>2, <2>5
\* A stream that ends, by its sentinel or because its client went away.
<1>e. ASSUME NEW c \in Clients, stream[c].at # "closed",
             stream' = [stream EXCEPT ![c].at = "closed", ![c].queue = <<>>],
             registered' = registered \ {c}, published' = published
      PROVE  StreamsInv'
  <2> DEFINE s == stream[c]
             r == [s EXCEPT !.at = "closed", !.queue = <<>>]
  <2>1. /\ s \in StreamRecord /\ s.at # "closed" /\ StreamOk(s, c \in registered, published)
        /\ stream' = [stream EXCEPT ![c] = r]
    BY <1>0, <1>e
  <2>2. r \in StreamRecord
    <3> DEFINE p == "closed"
    <3>1. p \in StreamPlaces /\ <<>> \in EventSeqs
      BY DEF StreamPlaces, EventSeqs
    <3> HIDE DEF p
    <3>2. [s EXCEPT !.at = p, !.queue = <<>>] \in StreamRecord
      <4>1. \A a \in EventSeqs : [s EXCEPT !.at = p, !.queue = a] \in StreamRecord
        <5>1. "-" \in TenantNames /\ 0 \in Nat
          BY DEF TenantNames
        <5> QED BY <2>1, <3>1, <5>1, RecordUpdates
      <4> QED BY <3>1, <4>1
    <3> QED BY <3>2 DEF p
  <2>3. r.at = "closed" /\ r.tenant = s.tenant /\ r.got = s.got
    BY <2>1 DEF StreamRecord
  <2>4. /\ s.tenant \in Tenants /\ published[s.tenant] \in Nat
        /\ Rising(s.got, s.from + Len(s.sent))
        /\ Flows(s.from, s.queue, s.sent, c \in registered, published[s.tenant])
    BY <1>0, <2>1 DEF StreamOk
  <2>5. Rising(s.got, published[s.tenant])
    <3> DEFINE known == c \in registered
    <3>1. known \in BOOLEAN /\ Flows(s.from, s.queue, s.sent, known, published[s.tenant])
      BY <2>4
    <3>2. /\ s.from \in Nat /\ s.queue \in Seq(Nat) /\ s.sent \in Seq(Nat) /\ s.got \in Seq(Nat)
      BY <2>1, RecordParts
    <3> HIDE DEF known, s
    <3> QED BY <2>4, <3>1, <3>2, FlowsToClosed
  <2> HIDE DEF s, r
  <2>6. StreamOk(r, FALSE, published)
    BY <2>3, <2>4, <2>5 DEF StreamOk
  <2> QED BY <1>0, <1>c, <1>e, <2>1, <2>2, <2>6
<1>3. ASSUME NEW c \in Clients, Yield(c) PROVE StreamsInv'
  <2> DEFINE s == stream[c]
             event == Head(s.queue)
  <2>1. /\ s \in StreamRecord /\ s.at = "streaming" /\ s.queue # <<>>
        /\ StreamOk(s, c \in registered, published) /\ published' = published
    BY <1>0, <1>3 DEF Yield
  <2>2. CASE event = End
    <3>1. /\ stream' = [stream EXCEPT ![c].at = "closed", ![c].queue = <<>>]
          /\ registered' = registered \ {c}
      BY <1>3, <2>2 DEF Yield
    <3> QED BY <1>e, <2>1, <3>1
  <2>3. CASE event # End
    <3> DEFINE r == [s EXCEPT !.queue = Tail(s.queue), !.sent = Append(s.sent, event),
                              !.got = Append(s.got, event)]
    <3>1. stream' = [stream EXCEPT ![c] = r] /\ registered' = registered
      BY <1>0, <1>3, <2>3 DEF Yield
    <3>2. /\ s.from \in Nat /\ s.queue \in Seq(Nat) /\ s.sent \in Seq(Nat) /\ s.got \in Seq(Nat)
          /\ event \in Nat
      BY <2>1, RecordParts
    <3>3. r \in StreamRecord
      <4>1. Tail(s.queue) \in EventSeqs /\ Append(s.sent, event) \in EventSeqs
            /\ Append(s.got, event) \in EventSeqs
        BY <2>1, <3>2 DEF EventSeqs
      <4>2. \A a \in EventSeqs, b \in EventSeqs, d \in EventSeqs :
               [s EXCEPT !.queue = a, !.sent = b, !.got = d] \in StreamRecord
        <5>1. "closed" \in StreamPlaces /\ "-" \in TenantNames /\ 0 \in Nat
          BY DEF StreamPlaces, TenantNames
        <5> QED BY <2>1, <5>1, RecordUpdates
      <4> HIDE DEF s, event
      <4> QED BY <4>1, <4>2
    <3>4. /\ r.at = s.at /\ r.tenant = s.tenant /\ r.from = s.from /\ r.queue = Tail(s.queue)
          /\ r.sent = Append(s.sent, event) /\ r.got = Append(s.got, event)
      BY <2>1 DEF StreamRecord
    <3>5. /\ s.tenant \in Tenants /\ published[s.tenant] \in Nat
          /\ Rising(s.got, s.from + Len(s.sent))
          /\ Flows(s.from, s.queue, s.sent, c \in registered, published[s.tenant])
      BY <1>0, <2>1 DEF StreamOk
    <3> DEFINE known == c \in registered
    <3>6. known \in BOOLEAN /\ (c \in registered' <=> known)
          /\ Flows(s.from, s.queue, s.sent, known, published[s.tenant])
      BY <3>1, <3>5
    <3> HIDE DEF s, known
    <3>7. /\ Flows(s.from, Tail(s.queue), Append(s.sent, event), known, published[s.tenant])
          /\ Rising(Append(s.got, event), s.from + Len(Append(s.sent, event)))
      BY <2>1, <2>3, <3>2, <3>5, <3>6, FlowsToYield
    <3> HIDE DEF r, event
    <3>8. StreamOk(r, known, published)
      BY <2>1, <3>4, <3>5, <3>7 DEF StreamOk
    <3> QED BY <1>0, <1>c, <2>1, <3>1, <3>3, <3>6, <3>8 DEF s
  <2> QED BY <2>2, <2>3
<1>4. ASSUME NEW c \in Clients, Disconnect(c) PROVE StreamsInv'
  BY <1>4, <1>e DEF Disconnect
<1>5. ASSUME NEW t \in Tenants, Publish(t) PROVE StreamsInv'
  <2> DEFINE n == published[t]
  <2>1. /\ n \in Nat /\ n + 1 \in Nat
        /\ published' = [published EXCEPT ![t] = n + 1] /\ registered' = registered
        /\ published' \in [Tenants -> Nat] /\ published'[t] = n + 1
        /\ \A u \in Tenants : u # t => published'[u] = published[u]
    BY <1>0, <1>5 DEF Publish
  <2>2. stream' = [c \in Clients |->
           IF c \in registered /\ stream[c].tenant = t
           THEN [stream[c] EXCEPT !.queue = Append(stream[c].queue, n + 1)] ELSE stream[c]]
    BY <1>5 DEF Publish
  <2> HIDE DEF n
  <2>3. ASSUME NEW c \in Clients
        PROVE  stream'[c] \in StreamRecord /\ StreamOk(stream'[c], c \in registered, published')
    <3> DEFINE s == stream[c]
    <3>1. s \in StreamRecord /\ StreamOk(s, c \in registered, published)
      BY <1>0
    <3>2. /\ s.from \in Nat /\ s.queue \in Seq(Nat) /\ s.sent \in Seq(Nat) /\ s.got \in Seq(Nat)
      BY <3>1, RecordParts
    <3>3. CASE c \in registered /\ s.tenant = t
      <4> DEFINE r == [s EXCEPT !.queue = Append(s.queue, n + 1)]
      <4>1. stream'[c] = r
        BY <2>2, <3>3
      <4>2. /\ r.at = s.at /\ r.tenant = s.tenant /\ r.from = s.from /\ r.got = s.got
            /\ r.queue = Append(s.queue, n + 1) /\ r.sent = s.sent
        BY <3>1 DEF StreamRecord
      <4>3. Append(s.queue, n + 1) \in EventSeqs
        BY <2>1, <3>2 DEF EventSeqs
      <4>4. r \in StreamRecord
        BY <3>1, <4>3 DEF StreamRecord
      <4>5. /\ s.at # "closed" /\ Rising(s.got, s.from + Len(s.sent))
            /\ Flows(s.from, s.queue, s.sent, TRUE, n)
        BY <3>1, <3>3 DEF StreamOk, Flows, Waiting, n
      <4>6. Flows(s.from, Append(s.queue, n + 1), s.sent, TRUE, n + 1)
        BY <2>1, <3>2, <4>5, FlowsToPublish
      <4> HIDE DEF s, r
      <4>7. StreamOk(r, TRUE, published')
        BY <2>1, <3>3, <4>2, <4>5, <4>6 DEF StreamOk
      <4> QED BY <3>3, <4>1, <4>4, <4>7 DEF StreamOk, Flows, Waiting
    <3>4. CASE ~(c \in registered /\ s.tenant = t)
      <4>1. stream'[c] = s
        BY <2>2, <3>4
      <4>2. CASE s.tenant # t \/ (s.at = "closed" /\ s.got = <<>>)
        <5> HIDE DEF s
        <5>1. s.tenant \in Tenants /\ s.tenant # t => published'[s.tenant] = published[s.tenant]
          BY <2>1
        <5> QED BY <3>1, <4>1, <4>2, <5>1 DEF StreamOk
      <4>3. CASE s.tenant = t /\ s.at = "closed" /\ s.got # <<>>
        <5> HIDE DEF s
        <5>1. n <= n + 1 /\ Rising(s.got, n)
          BY <2>1, <3>1, <4>3 DEF StreamOk, n
        <5>2. Rising(s.got, n + 1)
          BY <2>1, <3>2, <5>1, RisingLater
        <5>3. c \notin registered
          BY <3>1, <4>3 DEF StreamOk
        <5> QED BY <2>1, <3>1, <4>1, <4>3, <5>2, <5>3 DEF StreamOk
      <4>4. CASE s.tenant = t /\ s.at # "closed"
        <5>1. c \notin registered
          BY <3>4, <4>4
        <5> HIDE DEF s
        <5>2. Flows(s.from, s.queue, s.sent, FALSE, n) /\ Rising(s.got, s.from + Len(s.sent))
          BY <3>1, <4>4, <5>1 DEF StreamOk, Flows, Waiting, n
        <5>3. n <= n + 1
          BY <2>1
        <5>4. Flows(s.from, s.queue, s.sent, FALSE, n + 1)
          BY <2>1, <3>2, <5>2, <5>3, FlowsStill
        <5>5. StreamOk(s, FALSE, published')
          BY <2>1, <4>4, <5>2, <5>4 DEF StreamOk
        <5> QED BY <3>1, <4>1, <5>1, <5>5 DEF StreamOk, Flows, Waiting
      <4> QED BY <4>2, <4>3, <4>4
    <3> QED BY <3>3, <3>4
  <2>4. stream' \in [Clients -> StreamRecord]
    BY <2>2, <2>3
  <2> QED BY <1>0, <2>1, <2>3, <2>4 DEF StreamsInv, StreamsType
<1>6. ASSUME Shutdown PROVE StreamsInv'
  <2>1. /\ published' = published /\ registered' = {}
        /\ stream' = [c \in Clients |-> IF c \in registered
                                        THEN [stream[c] EXCEPT !.queue = Append(stream[c].queue, End)]
                                        ELSE stream[c]]
    BY <1>6 DEF Shutdown
  <2>2. ASSUME NEW c \in Clients
        PROVE  stream'[c] \in StreamRecord /\ StreamOk(stream'[c], FALSE, published)
    <3> DEFINE s == stream[c]
    <3>1. s \in StreamRecord /\ StreamOk(s, c \in registered, published)
      BY <1>0
    <3>2. /\ s.from \in Nat /\ s.queue \in Seq(Nat) /\ s.sent \in Seq(Nat) /\ s.got \in Seq(Nat)
      BY <3>1, RecordParts
    <3>3. CASE c \in registered
      <4> DEFINE r == [s EXCEPT !.queue = Append(s.queue, End)]
      <4>1. stream'[c] = r
        BY <2>1, <3>3
      <4>2. /\ r.at = s.at /\ r.tenant = s.tenant /\ r.from = s.from /\ r.got = s.got
            /\ r.queue = Append(s.queue, End) /\ r.sent = s.sent
        BY <3>1 DEF StreamRecord
      <4>3. Append(s.queue, End) \in EventSeqs
        BY <3>2 DEF EventSeqs, End
      <4>4. r \in StreamRecord
        BY <3>1, <4>3 DEF StreamRecord
      <4>5. /\ s.at # "closed" /\ s.tenant \in Tenants /\ published[s.tenant] \in Nat
            /\ Rising(s.got, s.from + Len(s.sent))
            /\ Flows(s.from, s.queue, s.sent, TRUE, published[s.tenant])
        BY <1>0, <3>1, <3>3 DEF StreamOk, Flows, Waiting
      <4>6. Flows(s.from, Append(s.queue, End), s.sent, FALSE, published[s.tenant])
        BY <3>2, <4>5, FlowsToEnd
      <4> HIDE DEF s, r
      <4>7. StreamOk(r, FALSE, published)
        BY <4>2, <4>5, <4>6 DEF StreamOk
      <4> QED BY <4>1, <4>4, <4>7
    <3>4. CASE c \notin registered
      <4>1. stream'[c] = s
        BY <2>1, <3>4
      <4> QED BY <3>1, <3>4, <4>1 DEF StreamOk, Flows, Waiting
    <3> QED BY <3>3, <3>4
  <2>3. stream' \in [Clients -> StreamRecord]
    BY <2>1, <2>2
  <2>4. ASSUME NEW c \in Clients PROVE StreamOk(stream'[c], c \in registered', published')
    <3>1. c \notin registered' /\ StreamOk(stream'[c], FALSE, published')
      BY <2>1, <2>2
    <3> QED BY <3>1 DEF StreamOk, Flows, Waiting
  <2>5. StreamsType'
    BY <1>0, <2>1, <2>3 DEF StreamsType
  <2> QED BY <2>4, <2>5 DEF StreamsInv
<1>7. CASE UNCHANGED deliveryVars
  BY <1>0, <1>7 DEF deliveryVars, streamVars, StreamsInv, StreamsType
<1> QED BY <1>1, <1>2, <1>3, <1>4, <1>5, <1>6, <1>7 DEF StreamsNext

\* What the invariant says of a stream is what StreamsInOrder asks.
LEMMA FlowsMeaning ==
    ASSUME NEW from \in Nat, NEW queue \in Seq(Nat), NEW sent \in Seq(Nat),
           NEW known \in BOOLEAN, NEW n \in Nat, Flows(from, queue, sent, known, n)
    PROVE  LET all == sent \o EventsIn(queue)
               due == [i \in 1..(n - from) |-> from + i]
           IN /\ known => all = due /\ End \notin Range(queue)
              /\ IsPrefix(all, due)
<1> DEFINE m == Len(sent)
           q == Len(queue)
           w == Waiting(queue, known)
           all == sent \o EventsIn(queue)
           due == [i \in 1..(n - from) |-> from + i]
<1>1. m \in Nat /\ q \in Nat
  OBVIOUS
<1>2. w \in Nat /\ from + m + w <= n /\ (known => from + m + w = n)
  <2>1. CASE known
    BY <1>1, <2>1 DEF Waiting, Flows
  <2>2. CASE ~known
    BY <1>1, <2>2 DEF Waiting, Flows
  <2> QED BY <2>1, <2>2
<1>3. \A i \in 1..w : queue[i] = from + m + i
  BY DEF Flows
<1>4. EventsIn(queue) \in Seq(Nat) /\ Len(EventsIn(queue)) = w
      /\ \A i \in 1..w : EventsIn(queue)[i] = queue[i]
  <2>1. CASE known
    <3>1. w = q
      BY <2>1 DEF Waiting
    <3>2. ~(queue # <<>> /\ queue[q] = End)
      <4> SUFFICES ASSUME queue # <<>> PROVE queue[q] # End
        OBVIOUS
      <4>1. q \in 1..w
        BY <1>1, <3>1
      <4> QED BY <1>1, <1>3, <4>1 DEF End
    <3>3. EventsIn(queue) = queue
      BY <3>2 DEF EventsIn, Last
    <3> QED BY <3>1, <3>3
  <2>2. CASE ~known
    <3>1. queue # <<>> /\ queue[q] = End /\ w = q - 1
      BY <2>2 DEF Flows, Waiting
    <3>2. EventsIn(queue) = SubSeq(queue, 1, q - 1)
      BY <3>1 DEF EventsIn, Last, Front
    <3>3. q >= 1 /\ q - 1 \in Nat
      BY <1>2, <3>1
    <3>4. /\ SubSeq(queue, 1, q - 1) \in Seq(Nat) /\ Len(SubSeq(queue, 1, q - 1)) = q - 1
          /\ \A i \in 1..(q - 1) : SubSeq(queue, 1, q - 1)[i] = queue[i]
      <4>1. \A i \in 1..(q - 1) : i \in 1..q
        BY <1>1
      <4>2. SubSeq(queue, 1, q - 1) = [i \in 1..(q - 1) |-> queue[i]]
        BY <1>1, <3>3
      <4>3. \A i \in 1..(q - 1) : queue[i] \in Nat
        BY <4>1
      <4> DEFINE d == q - 1
                 front == [i \in 1..d |-> queue[i]]
      <4>4. d \in Nat /\ front \in [1..d -> Nat]
        BY <3>3, <4>3
      <4> HIDE DEF d
      <4>5. front \in Seq(Nat) /\ Len(front) = d /\ \A i \in 1..d : front[i] = queue[i]
        BY <4>4
      <4> QED BY <4>2, <4>5 DEF d
    <3> QED BY <3>1, <3>2, <3>4
  <2> QED BY <2>1, <2>2
<1> HIDE DEF w
<1>5. /\ all \in Seq(Nat) /\ Len(all) = m + w
      /\ \A i \in 1..(m + w) : all[i] = IF i <= m THEN sent[i] ELSE EventsIn(queue)[i - m]
  BY <1>1, <1>2, <1>4, ConcatProperties
<1>6. \A i \in 1..m : sent[i] = from + i
  BY DEF Flows
<1>7. ASSUME NEW i \in 1..(m + w) PROVE all[i] = from + i
  <2>1. CASE i <= m
    <3>1. i \in 1..m
      BY <1>1, <1>2, <2>1
    <3> QED BY <1>5, <1>6, <2>1, <3>1
  <2>2. CASE ~(i <= m)
    <3>1. i - m \in 1..w /\ i \in Nat
      BY <1>1, <1>2, <2>2
    <3>2. queue[i - m] = from + m + (i - m)
      BY <1>3, <3>1
    <3> QED BY <1>1, <1>4, <1>5, <2>2, <3>1, <3>2
  <2> QED BY <2>1, <2>2
<1>8. n - from \in Nat /\ m + w \in Nat /\ m + w <= n - from /\ (known => m + w = n - from)
  BY <1>1, <1>2
<1> DEFINE d == n - from
           k == m + w
<1>9. /\ due \in Seq(Nat) /\ Len(due) = d /\ \A i \in 1..d : due[i] = from + i
  <2>1. due \in [1..d -> Nat] /\ d \in Nat
    BY <1>8
  <2> QED BY <2>1
<1> HIDE DEF all, due, d, k, m
<1>10. known => all = due
  <2> SUFFICES ASSUME known PROVE all = due
    OBVIOUS
  <2>1. Len(all) = d /\ \A i \in 1..d : all[i] = due[i]
    BY <1>5, <1>7, <1>8, <1>9 DEF d, k
  <2> QED BY <1>5, <1>9, <2>1, SeqEqual
<1>11. IsPrefix(all, due)
  <2>1. k \in Nat /\ k <= d /\ Len(all) = k /\ d \in Nat
    BY <1>5, <1>8 DEF d, k
  <2>2. \A i \in 1..k : all[i] = due[i]
    BY <1>7, <1>9, <2>1 DEF k
  <2>3. SubSeq(all, 1, k) = [i \in 1..k |-> all[i]] /\ SubSeq(due, 1, k) = [i \in 1..k |-> due[i]]
    BY <1>5, <1>9, <2>1
  <2> QED BY <1>9, <2>1, <2>2, <2>3 DEF IsPrefix
<1>12. known => End \notin Range(queue)
  <2> SUFFICES ASSUME known PROVE \A i \in DOMAIN queue : queue[i] # End
    BY DEF Range
  <2>1. \A i \in 1..q : queue[i] = from + m + i
    BY <1>3 DEF w, Waiting
  <2> QED BY <1>1, <2>1 DEF End, m
<1> QED BY <1>10, <1>11, <1>12 DEF all, due

LEMMA StreamsMeaning == StreamsInv => StreamsInOrder
<1> SUFFICES ASSUME StreamsInv PROVE StreamsInOrder
  OBVIOUS
<1>1. \A c \in registered : stream[c].at # "closed"
  BY DEF StreamsInv, StreamsType, StreamOk
<1>2. ASSUME NEW c \in Clients, stream[c].at # "closed"
      PROVE  LET s == stream[c]
                 all == s.sent \o EventsIn(s.queue)
                 due == [i \in 1..(published[s.tenant] - s.from) |-> s.from + i]
             IN /\ c \in registered => all = due /\ End \notin Range(s.queue)
                /\ IsPrefix(all, due)
                /\ \A i, j \in DOMAIN s.got : i < j => s.got[i] < s.got[j]
  <2> DEFINE s == stream[c]
             known == c \in registered
  <2>1. s \in StreamRecord /\ known \in BOOLEAN
    BY DEF StreamsInv, StreamsType
  <2>2. s.from \in Nat /\ s.queue \in Seq(Nat) /\ s.sent \in Seq(Nat) /\ s.got \in Seq(Nat)
    BY <2>1, RecordParts
  <2>3. /\ published[s.tenant] \in Nat
        /\ Rising(s.got, s.from + Len(s.sent))
        /\ Flows(s.from, s.queue, s.sent, known, published[s.tenant])
    BY <1>2 DEF StreamsInv, StreamsType, StreamOk
  <2>4. \A i, j \in DOMAIN s.got : i < j => s.got[i] < s.got[j]
    <3> HIDE DEF s
    <3>1. DOMAIN s.got = 1..Len(s.got)
      BY <2>2
    <3> QED BY <2>3, <3>1 DEF Rising
  <2> HIDE DEF s, known
  <2>5. LET all == s.sent \o EventsIn(s.queue)
            due == [i \in 1..(published[s.tenant] - s.from) |-> s.from + i]
        IN /\ known => all = due /\ End \notin Range(s.queue)
           /\ IsPrefix(all, due)
    BY <2>1, <2>2, <2>3, FlowsMeaning
  <2> QED BY <2>4, <2>5 DEF s, known
<1> QED BY <1>1, <1>2 DEF StreamsInOrder

-----------------------------------------------------------------------------
(* The uploads                                                             *)

Clock == Hours \X Minutes
UploadOk(u) ==
    /\ u.status \in {"pending", "completed"}
    /\ u.confirmed = IF u.status = "completed" THEN <<u.tenant>> ELSE <<>>
    /\ Before(u.created, u.expires)
    /\ ValidSize(u.size)
    /\ u.created[1] + 1 \in Hours /\ u.created[1] \in Hours
UploadStates == {"pending", "completed"}
Sizes == 0..(MaxSize + 1)
Expiries == Nat \X {0}
Confirmations == Seq(Tenants)
UploadRecord == [tenant : Tenants, status : UploadStates, size : Sizes,
                 created : Clock, expires : Expiries, confirmed : Confirmations]
UploadsInv ==
    /\ now \in Clock
    /\ uploads \in Seq(UploadRecord)
    /\ \A id \in 1..Len(uploads) : UploadOk(uploads[id])

LEMMA UploadsStart == UploadsInit => UploadsInv
BY DEF UploadsInit, UploadsInv, Clock

LEMMA UploadsStep == UploadsInv /\ [UploadsNext]_deliveryVars => UploadsInv'
<1> SUFFICES ASSUME UploadsInv, [UploadsNext]_deliveryVars PROVE UploadsInv'
  OBVIOUS
<1>0. /\ now \in Clock /\ uploads \in Seq(UploadRecord) /\ Len(uploads) \in Nat
      /\ DOMAIN uploads = 1..Len(uploads)
      /\ \A id \in 1..Len(uploads) : UploadOk(uploads[id])
  BY DEF UploadsInv
<1>t. now[1] \in Hours /\ now[1] \in Nat /\ now[2] \in Nat
  BY <1>0, DeliveryAssumption DEF Clock
<1>1. ASSUME NEW t \in Tenants, NEW size \in 0..(MaxSize + 1), InitUpload(t, size)
      PROVE  UploadsInv'
  <2> DEFINE u == [tenant |-> t, status |-> "pending", size |-> size,
                   created |-> now, expires |-> NextHour, confirmed |-> <<>>]
  <2>1. /\ uploads' = Append(uploads, u) /\ now' = now
        /\ ValidSize(size) /\ now[1] + 1 \in Hours
    BY <1>1 DEF InitUpload, NextHour
  <2>2. u \in UploadRecord
    BY <1>0, <1>t DEF UploadRecord, NextHour, UploadStates, Sizes, Expiries, Confirmations
  <2>3. Before(now, NextHour)
    BY <1>t DEF Before, NextHour
  <2>4. UploadOk(u)
    BY <1>t, <2>1, <2>3 DEF UploadOk
  <2> HIDE DEF u
  <2> QED BY <1>0, <2>1, <2>2, <2>4 DEF UploadsInv
<1>2. ASSUME NEW t \in Tenants, NEW id \in DOMAIN uploads, CompleteUpload(t, id)
      PROVE  UploadsInv'
  <2> DEFINE u == uploads[id]
             done == "completed"
             by == Append(u.confirmed, t)
             r == [u EXCEPT !.status = done, !.confirmed = by]
  <2>1. u \in UploadRecord /\ UploadOk(u) /\ u.tenant = t /\ u.status = "pending" /\ now' = now
    BY <1>0, <1>2 DEF CompleteUpload
  <2>2. u.confirmed = <<>> /\ by = <<t>> /\ by \in Confirmations /\ done \in UploadStates
    BY <2>1 DEF UploadOk, Confirmations, UploadStates
  <2> HIDE DEF done, by
  <2>3. r \in UploadRecord
    BY <2>1, <2>2 DEF UploadRecord
  <2>4. uploads' = [uploads EXCEPT ![id] = r]
    <3>1. uploads' = [uploads EXCEPT ![id].status = done, ![id].confirmed = by]
      BY <1>2 DEF CompleteUpload, done, by
    <3> QED BY <1>0, <2>1, <3>1 DEF UploadRecord
  <2>5. /\ r.tenant = u.tenant /\ r.size = u.size /\ r.status = done /\ r.confirmed = by
        /\ r.created = u.created /\ r.expires = u.expires
    BY <2>1 DEF UploadRecord
  <2>6. UploadOk(r)
    BY <2>1, <2>2, <2>5 DEF UploadOk, done
  <2> HIDE DEF u, r
  <2> QED BY <1>0, <2>1, <2>3, <2>4, <2>6 DEF UploadsInv
<1>3. CASE Minute
  BY <1>0, <1>3 DEF Minute, UploadsInv, Clock
<1>4. CASE UNCHANGED deliveryVars
  BY <1>0, <1>4 DEF deliveryVars, uploadVars, UploadsInv
<1> QED BY <1>1, <1>2, <1>3, <1>4 DEF UploadsNext

LEMMA UploadsMeaning == UploadsInv => UploadsConfirmedOnce
<1> SUFFICES ASSUME UploadsInv, NEW id \in DOMAIN uploads
             PROVE  LET u == uploads[id] IN
                    /\ u.confirmed = IF u.status = "completed" THEN <<u.tenant>> ELSE <<>>
                    /\ Before(u.created, u.expires)
                    /\ ValidSize(u.size)
                    /\ u.created[1] # CHOOSE h \in Hours : \A k \in Hours : k <= h
  BY DEF UploadsConfirmedOnce
<1>1. UploadOk(uploads[id])
  BY DEF UploadsInv
<1>2. PICK last \in Hours : Hours = 0..last
  BY DeliveryAssumption
<1>3. last \in Nat /\ \A k \in Hours : k <= last
  BY <1>2, DeliveryAssumption
<1> DEFINE top == CHOOSE h \in Hours : \A k \in Hours : k <= h
<1>4. top \in Hours /\ \A k \in Hours : k <= top
  BY <1>2, <1>3
<1> HIDE DEF top
<1>5. uploads[id].created[1] # top
  BY <1>1, <1>4, DeliveryAssumption DEF UploadOk
<1> QED BY <1>1, <1>5 DEF UploadOk, top

-----------------------------------------------------------------------------
\* Whatever connections, publications, shutdowns and lost clients interleave:
\* each browser gets its own organisation's events in order and once
\* (SSEBroadcaster and EventSource), and an upload is confirmed once and by the
\* tenant that announced it, as it was announced (the upload endpoints).
THEOREM AllDelivered == Spec => []DeliveredInOrder
<1> DEFINE DInv == (part = "streams" => StreamsInv) /\ (part = "uploads" => UploadsInv)
<1>1. Init => DInv
  BY StreamsStart, UploadsStart DEF Init
<1>2. DInv /\ [Next]_serviceVars => DInv'
  BY PartMoves, StreamsStep, UploadsStep
<1>3. DInv => DeliveredInOrder
  BY StreamsMeaning, UploadsMeaning DEF DeliveredInOrder, Of
<1> QED BY <1>1, <1>2, <1>3, PTL DEF Spec

-----------------------------------------------------------------------------
(* Limits                                                                  *)

\* A set of numbers that is not empty has a least one, which Min chooses.
LEMMA LeastNumber ==
    ASSUME NEW S \in SUBSET Nat, S # {}
    PROVE  Min(S) \in S /\ \A x \in S : Min(S) <= x
<1> DEFINE Less == OpToRel(LAMBDA m, n : m < n, Nat)
<1>1. IsWellFoundedOn(Less, Nat)
  BY NatLessThanWellFounded
<1>2. \A m, n \in Nat : m < n => <<m, n>> \in Less
  BY DEF OpToRel
<1> HIDE DEF Less
<1>3. PICK x \in S : \A y \in S : ~(<<y, x>> \in Less)
  BY <1>1, WFMin
<1>4. ASSUME NEW y \in S PROVE x <= y
  <2>1. x \in Nat /\ y \in Nat /\ ~(y < x)
    BY <1>2, <1>3
  <2> QED BY <2>1
<1> QED BY <1>4 DEF Min

-----------------------------------------------------------------------------
(* The rate limiter                                                        *)

LiveEntries == {e \in admitted : e[1] > clock - Window}
RateType ==
    /\ clock \in Nat
    /\ admitted \subseteq Nat \X Nat /\ IsFiniteSet(admitted)
    /\ window \subseteq admitted
    /\ waiting \in Nat \union {NoPromise}

\* Of the entries of a window no more were admitted than the limit allows; and
\* once the promise of a Retry-After is over by a second, an entry of those that
\* were live when it was made has left the window.
RateInv ==
    /\ RateType
    /\ Live(window) = LiveEntries
    /\ \A e \in admitted : e[1] <= clock
    /\ \A a \in admitted :
         Cardinality({b \in admitted : b[1] <= a[1] /\ b[1] > a[1] - Window}) <= PerWindow
    /\ Cardinality(LiveEntries) <= PerWindow
    /\ waiting # NoPromise =>
         \E h \in admitted : /\ h[1] + Window <= waiting + TicksPerSecond
                             /\ Cardinality(LiveEntries \ {h}) < PerWindow

LEMMA RateStart == RateInit => RateInv
<1> SUFFICES ASSUME RateInit PROVE RateInv
  OBVIOUS
<1>0. Window \in Nat /\ PerWindow \in Nat
  BY LimitsAssumption
<1>1. clock = Window + 1 /\ window = {} /\ admitted = {} /\ waiting = NoPromise
  BY DEF RateInit
<1>2. LiveEntries = {} /\ Live(window) = {}
  BY <1>1 DEF LiveEntries, Live
<1> QED BY <1>1, <1>2, FS_EmptySet, LimitsAssumption DEF RateInv, RateType

\* What a Retry-After rounds off is less than a second.
LEMMA RoundedDown ==
    ASSUME NEW x \in Int, NEW t \in Nat \ {0}
    PROVE  /\ Max({1, x \div t}) \in Nat
           /\ x < t * Max({1, x \div t}) + t
<1> DEFINE d == x \div t
<1>1. d \in Int /\ t * d <= x /\ x < t * d + t
  OBVIOUS
<1> HIDE DEF d
<1>2. Max({1, d}) = IF d >= 1 THEN d ELSE 1
  BY <1>1 DEF Max
<1>3. CASE d >= 1
  BY <1>1, <1>2, <1>3 DEF d
<1>4. CASE d < 1
  <2>1. t * d + t <= t * 1 + t
    BY <1>1, <1>4
  <2> QED BY <1>1, <1>2, <1>4, <2>1 DEF d
<1> QED BY <1>1, <1>3, <1>4

LEMMA RateStep == RateInv /\ [RateNext]_limitVars => RateInv'
<1> SUFFICES ASSUME RateInv, [RateNext]_limitVars PROVE RateInv'
  OBVIOUS
<1>0. /\ clock \in Nat /\ admitted \subseteq Nat \X Nat /\ IsFiniteSet(admitted)
      /\ waiting \in Nat \union {NoPromise} /\ Live(window) = LiveEntries
      /\ \A e \in admitted : e[1] <= clock /\ e[1] \in Nat
      /\ window \subseteq admitted
      /\ Window \in Nat /\ Window > 0 /\ TicksPerSecond \in Nat /\ TicksPerSecond > 0
      /\ PerWindow \in Nat /\ PerWindow > 0
  BY LimitsAssumption DEF RateInv, RateType
<1>l. LiveEntries \subseteq admitted
  BY DEF LiveEntries
<1>f. IsFiniteSet(LiveEntries) /\ Cardinality(LiveEntries) \in Nat
  BY <1>0, FS_Subset, FS_CardinalityType DEF LiveEntries
<1>1. CASE Admit
  <2> DEFINE n == Cardinality(LiveEntries)
             entry == <<clock, n>>
  <2>1. /\ n < PerWindow /\ n \in Nat /\ entry \in Nat \X Nat /\ entry[1] = clock
        /\ window' = LiveEntries \union {entry} /\ admitted' = admitted \union {entry}
        /\ waiting' = NoPromise /\ clock' = clock
    BY <1>0, <1>1, <1>f DEF Admit
  <2>2. LiveEntries' = LiveEntries \union {entry}
    BY <1>0, <2>1 DEF LiveEntries
  <2>3. Live(window)' = LiveEntries'
    BY <1>0, <2>1, <2>2 DEF Live, LiveEntries
  <2>4. /\ IsFiniteSet(LiveEntries \union {entry}) /\ IsFiniteSet(admitted')
        /\ Cardinality(LiveEntries \union {entry}) <= PerWindow
    <3>1. Cardinality(LiveEntries \union {entry}) \in {n, n + 1}
      BY <1>f, FS_AddElement
    <3>2. IsFiniteSet(LiveEntries \union {entry}) /\ IsFiniteSet(admitted')
      BY <1>0, <1>f, <2>1, FS_AddElement
    <3>3. n + 1 <= PerWindow /\ n <= PerWindow
      BY <1>0, <2>1
    <3> HIDE DEF n, entry
    <3> QED BY <3>1, <3>2, <3>3
  <2> HIDE DEF n, entry
  <2>5. ASSUME NEW a \in admitted'
        PROVE  Cardinality({b \in admitted' : b[1] <= a[1] /\ b[1] > a[1] - Window}) <= PerWindow
    <3>1. CASE a[1] = clock
      <4>1. {b \in admitted' : b[1] <= a[1] /\ b[1] > a[1] - Window} = LiveEntries \union {entry}
        BY <1>0, <2>1, <3>1 DEF LiveEntries
      <4> QED BY <2>4, <4>1
    <3>2. CASE a[1] # clock
      <4>1. a \in admitted /\ a[1] < clock
        BY <1>0, <2>1, <3>2
      <4>2. {b \in admitted' : b[1] <= a[1] /\ b[1] > a[1] - Window}
              = {b \in admitted : b[1] <= a[1] /\ b[1] > a[1] - Window}
        BY <1>0, <2>1, <4>1
      <4> QED BY <4>1, <4>2 DEF RateInv
    <3> QED BY <3>1, <3>2
  <2>6. RateType'
    BY <1>0, <1>l, <2>1, <2>4 DEF RateType
  <2>7. \A e \in admitted' : e[1] <= clock'
    BY <1>0, <2>1
  <2> QED BY <2>1, <2>2, <2>3, <2>4, <2>5, <2>6, <2>7 DEF RateInv
<1>2. CASE Throttle
  <2>1. /\ Cardinality(LiveEntries) >= PerWindow /\ window' = LiveEntries
        /\ clock' = clock /\ admitted' = admitted
        /\ waiting' = IF waiting = NoPromise
                      THEN clock + TicksPerSecond * RetryAfter(LiveEntries) ELSE waiting
    BY <1>0, <1>2 DEF Throttle
  <2>2. LiveEntries' = LiveEntries /\ Live(window)' = LiveEntries
    BY <2>1 DEF LiveEntries, Live
  <2>3. CASE waiting # NoPromise
    <3>1. waiting' = waiting
      BY <2>1, <2>3
    <3>2. RateType'
      BY <1>0, <1>l, <2>1, <3>1 DEF RateType
    <3> QED BY <1>0, <2>1, <2>2, <3>1, <3>2 DEF RateInv
  <2>4. CASE waiting = NoPromise
    <3> DEFINE Times == {e[1] : e \in LiveEntries}
               x == Min(Times) + Window - clock
               seconds == Max({1, x \div TicksPerSecond})
    <3>1. LiveEntries # {}
      <4>1. Cardinality({}) = 0
        BY FS_EmptySet
      <4> SUFFICES ASSUME LiveEntries = {} PROVE FALSE
        OBVIOUS
      <4>2. Cardinality(LiveEntries) = 0
        BY <4>1
      <4> HIDE DEF Times
      <4> QED BY <1>0, <2>1, <4>2
    <3>2. Times \in SUBSET Nat /\ Times # {}
      BY <1>0, <3>1 DEF LiveEntries
    <3>3. Min(Times) \in Times
      BY <3>2, LeastNumber
    <3>4. PICK h \in LiveEntries : h[1] = Min(Times)
      BY <3>3
    <3>5. h \in admitted /\ h[1] \in Nat
      BY <1>0 DEF LiveEntries
    <3> HIDE DEF Times
    <3>6. x \in Int /\ x = h[1] + Window - clock
      BY <1>0, <3>4, <3>5
    <3>7. seconds \in Nat /\ x < TicksPerSecond * seconds + TicksPerSecond
      BY <1>0, <3>6, RoundedDown
    <3>8. waiting' = clock + TicksPerSecond * seconds
      BY <2>1, <2>4 DEF RetryAfter, Times
    <3> HIDE DEF seconds, x
    <3> DEFINE wait == TicksPerSecond * seconds
    <3>9. wait \in Nat
      BY <1>0, <3>7
    <3> HIDE DEF wait
    <3>10. waiting' \in Nat /\ h[1] + Window <= waiting' + TicksPerSecond
      BY <1>0, <3>5, <3>6, <3>7, <3>8, <3>9 DEF wait
    <3>11. Cardinality(LiveEntries \ {h}) < PerWindow
      <4>1. Cardinality(LiveEntries \ {h}) = Cardinality(LiveEntries) - 1
        BY <1>f, FS_RemoveElement
      <4>2. Cardinality(LiveEntries) <= PerWindow
        BY DEF RateInv
      <4> QED BY <1>0, <1>f, <4>1, <4>2
    <3>12. RateType'
      BY <1>0, <1>l, <2>1, <3>10 DEF RateType
    <3> QED BY <1>0, <2>1, <2>2, <3>5, <3>10, <3>11, <3>12 DEF RateInv
  <2> QED BY <2>3, <2>4
<1>3. CASE Tick
  <2>1. clock' = clock + 1 /\ UNCHANGED <<window, admitted, waiting>>
    BY <1>3 DEF Tick
  <2>2. LiveEntries' \subseteq LiveEntries /\ Live(window)' = LiveEntries'
    <3>1. LiveEntries' = {e \in LiveEntries : e[1] > clock + 1 - Window}
      BY <1>0, <2>1 DEF LiveEntries
    <3>2. Live(window)' = {e \in Live(window) : e[1] > clock + 1 - Window}
      <4>1. Live(window)' = {e \in window : e[1] > clock + 1 - Window}
        BY <1>0, <2>1 DEF Live
      <4>2. \A e \in window : e[1] > clock + 1 - Window => e[1] > clock - Window
        <5> TAKE e \in window
        <5> QED BY <1>0
      <4> QED BY <4>1, <4>2 DEF Live
    <3> QED BY <1>0, <3>1, <3>2
  <2>3. \A S : Cardinality(LiveEntries' \ S) <= Cardinality(LiveEntries \ S)
    <3> TAKE S
    <3>1. LiveEntries' \ S \in SUBSET (LiveEntries \ S) /\ IsFiniteSet(LiveEntries \ S)
      BY <1>f, <2>2, FS_Subset
    <3> QED BY <3>1, FS_Subset
  <2>4. Cardinality(LiveEntries') <= Cardinality(LiveEntries) /\ IsFiniteSet(LiveEntries')
    BY <1>f, <2>2, FS_Subset
  <2>5. \A S : Cardinality(LiveEntries' \ S) \in Nat /\ Cardinality(LiveEntries \ S) \in Nat
    <3> TAKE S
    <3> QED BY <1>f, <2>4, FS_Subset, FS_CardinalityType
  <2>6. Cardinality(LiveEntries') <= PerWindow
    BY <1>0, <1>f, <2>4, FS_CardinalityType DEF RateInv
  <2>7. waiting' # NoPromise =>
          \E h \in admitted' : /\ h[1] + Window <= waiting' + TicksPerSecond
                               /\ Cardinality(LiveEntries' \ {h}) < PerWindow
    <3> SUFFICES ASSUME waiting # NoPromise
                 PROVE  \E h \in admitted : /\ h[1] + Window <= waiting + TicksPerSecond
                                            /\ Cardinality(LiveEntries' \ {h}) < PerWindow
      BY <2>1
    <3>1. PICK h \in admitted : /\ h[1] + Window <= waiting + TicksPerSecond
                                /\ Cardinality(LiveEntries \ {h}) < PerWindow
      BY DEF RateInv
    <3> DEFINE before == Cardinality(LiveEntries \ {h})
               after == Cardinality(LiveEntries' \ {h})
    <3>2. before \in Nat /\ after \in Nat /\ after <= before /\ before < PerWindow
      BY <2>3, <2>5, <3>1
    <3> HIDE DEF before, after
    <3>3. after < PerWindow
      BY <1>0, <3>2
    <3> QED BY <3>1, <3>3 DEF after
  <2>8. \A e \in admitted' : e[1] <= clock'
    BY <1>0, <2>1
  <2>9. RateType'
    BY <1>0, <2>1 DEF RateType
  <2>10. \A a \in admitted' :
          Cardinality({b \in admitted' : b[1] <= a[1] /\ b[1] > a[1] - Window}) <= PerWindow
    BY <2>1 DEF RateInv
  <2> QED BY <2>2, <2>6, <2>7, <2>8, <2>9, <2>10 DEF RateInv
<1>4. CASE UNCHANGED limitVars
  BY <1>4 DEF limitVars, rateVars, RateInv, RateType, LiveEntries, Live
<1> QED BY <1>1, <1>2, <1>3, <1>4 DEF RateNext

LEMMA RateMeaning == RateInv => RateRespected
<1> SUFFICES ASSUME RateInv, waiting # NoPromise, clock >= waiting + TicksPerSecond
             PROVE  Cardinality(Live(window)) < PerWindow
  BY DEF RateInv, RateRespected
<1>1. PICK h \in admitted : /\ h[1] + Window <= waiting + TicksPerSecond
                            /\ Cardinality(LiveEntries \ {h}) < PerWindow
  BY DEF RateInv
<1>2. h[1] \in Nat /\ clock \in Nat /\ waiting \in Nat
  BY DEF RateInv, RateType
<1>3. ~(h[1] > clock - Window)
  BY <1>1, <1>2, LimitsAssumption
<1>4. LiveEntries \ {h} = LiveEntries
  BY <1>3 DEF LiveEntries
<1> QED BY <1>1, <1>4 DEF RateInv

-----------------------------------------------------------------------------
(* The token budget                                                        *)

\* The tokens of one receipt, and the scopes of one request, are counted one
\* by one.
LEMMA RowOf ==
    ASSUME NEW x, NEW n \in Nat
    PROVE  IsFiniteSet({x} \X (1..n)) /\ Cardinality({x} \X (1..n)) = n
<1> DEFINE f == [k \in 1..n |-> <<x, k>>]
<1>1. f \in Bijection(1..n, {x} \X (1..n))
  BY DEF Bijection, Injection, Surjection, IsInjective
<1>2. ExistsBijection(1..n, {x} \X (1..n))
  BY <1>1 DEF ExistsBijection
<1> QED BY <1>2, FS_NatBijection, FS_CountingElements

BudgetInv ==
    /\ budget \in [used : Nat, status : {"active", "exhausted"}, receipts : Seq(Nat)]
    /\ IsFiniteSet(TokensOn(budget.receipts))
    /\ budget.used = Cardinality(TokensOn(budget.receipts))
    /\ budget.used <= Tokens
    /\ budget.used = Tokens => budget.status = "exhausted"

LEMMA BudgetStart == BudgetInit => BudgetInv
<1> SUFFICES ASSUME BudgetInit PROVE BudgetInv
  OBVIOUS
<1>1. budget = [used |-> 0, status |-> "active", receipts |-> <<>>]
  BY DEF BudgetInit
<1>2. TokensOn(<<>>) = {}
  BY DEF TokensOn
<1> QED BY <1>1, <1>2, FS_EmptySet, LimitsAssumption DEF BudgetInv

\* One more receipt counts for what is on it.
LEMMA OneMoreReceipt ==
    ASSUME NEW paid \in Seq(Nat), NEW tokens \in Nat, IsFiniteSet(TokensOn(paid))
    PROVE  /\ IsFiniteSet(TokensOn(Append(paid, tokens)))
           /\ Cardinality(TokensOn(Append(paid, tokens))) = Cardinality(TokensOn(paid)) + tokens
<1> DEFINE n == Len(paid)
           more == Append(paid, tokens)
           row == {n + 1} \X (1..tokens)
<1>1. /\ n \in Nat /\ DOMAIN paid = 1..n /\ DOMAIN more = 1..(n + 1)
      /\ more[n + 1] = tokens /\ \A i \in 1..n : more[i] = paid[i]
  OBVIOUS
<1> HIDE DEF more
<1>2. TokensOn(more) = TokensOn(paid) \union row
  <2>1. TokensOn(more) = UNION {{i} \X (1..more[i]) : i \in 1..(n + 1)}
    BY <1>1 DEF TokensOn
  <2>2. TokensOn(paid) = UNION {{i} \X (1..paid[i]) : i \in 1..n}
    BY <1>1 DEF TokensOn
  <2>3. ASSUME NEW p PROVE p \in TokensOn(more) <=> p \in TokensOn(paid) \/ p \in row
    <3>1. p \in TokensOn(more) <=> \E i \in 1..(n + 1) : p \in {i} \X (1..more[i])
      BY <2>1
    <3>2. p \in TokensOn(paid) <=> \E i \in 1..n : p \in {i} \X (1..paid[i])
      BY <2>2
    <3>3. 1..(n + 1) = (1..n) \union {n + 1}
      BY <1>1
    <3>4. (\E i \in 1..(n + 1) : p \in {i} \X (1..more[i])) <=>
             (\E i \in 1..n : p \in {i} \X (1..more[i])) \/ p \in {n + 1} \X (1..more[n + 1])
      BY <3>3
    <3>5. (\E i \in 1..n : p \in {i} \X (1..more[i])) <=>
             (\E i \in 1..n : p \in {i} \X (1..paid[i]))
      BY <1>1
    <3> QED BY <1>1, <3>1, <3>2, <3>4, <3>5
  <2> QED BY <2>3
<1>3. TokensOn(paid) \cap row = {}
  <2> SUFFICES ASSUME NEW p \in TokensOn(paid), p \in row PROVE FALSE
    OBVIOUS
  <2>1. PICK i \in 1..n : p \in {i} \X (1..paid[i])
    BY <1>1 DEF TokensOn
  <2>2. p[1] = i /\ p[1] = n + 1
    BY <2>1
  <2> QED BY <1>1, <2>2
<1>4. IsFiniteSet(row) /\ Cardinality(row) = tokens
  BY <1>1, RowOf
<1> HIDE DEF row
<1>5. Cardinality(TokensOn(paid)) \in Nat /\ Cardinality({}) = 0
  BY FS_CardinalityType, FS_EmptySet
<1>6. /\ IsFiniteSet(TokensOn(paid) \union row)
      /\ Cardinality(TokensOn(paid) \union row) =
           Cardinality(TokensOn(paid)) + Cardinality(row) - Cardinality(TokensOn(paid) \cap row)
  BY <1>4, FS_Union
<1>7. Cardinality(TokensOn(paid) \cap row) = 0
  BY <1>3, <1>5
<1>8. Cardinality(TokensOn(paid) \union row) = Cardinality(TokensOn(paid)) + tokens
  BY <1>4, <1>5, <1>6, <1>7
<1> QED BY <1>2, <1>6, <1>8 DEF more

LEMMA BudgetStep == BudgetInv /\ [BudgetNext]_limitVars => BudgetInv'
<1> SUFFICES ASSUME BudgetInv, [BudgetNext]_limitVars PROVE BudgetInv'
  OBVIOUS
<1>0. /\ budget \in [used : Nat, status : {"active", "exhausted"}, receipts : Seq(Nat)]
      /\ Tokens \in Nat
  BY LimitsAssumption DEF BudgetInv
<1>1. CASE budget' = budget
  BY <1>1 DEF BudgetInv
<1>2. ASSUME NEW tokens \in Charges, budget' = Charge(tokens) PROVE BudgetInv'
  <2>1. tokens \in Nat
    BY LimitsAssumption
  <2>2. CASE budget.status # "active"
    BY <1>1, <1>2, <2>2 DEF Charge
  <2>3. CASE budget.status = "active" /\ Remaining < tokens
    <3>1. budget' = [budget EXCEPT !.status = "exhausted"]
      BY <1>2, <2>3 DEF Charge
    <3>2. /\ budget'.used = budget.used /\ budget'.receipts = budget.receipts
          /\ budget'.status = "exhausted"
          /\ budget' \in [used : Nat, status : {"active", "exhausted"}, receipts : Seq(Nat)]
      BY <1>0, <3>1
    <3> QED BY <3>2 DEF BudgetInv
  <2>4. CASE budget.status = "active" /\ ~(Remaining < tokens)
    <3> DEFINE status == IF Remaining = tokens THEN "exhausted" ELSE "active"
               more == Append(budget.receipts, tokens)
    <3>1. budget' = [used |-> budget.used + tokens, status |-> status, receipts |-> more]
      BY <1>2, <2>4 DEF Charge
    <3>2. /\ budget.used + tokens \in Nat /\ budget.used + tokens <= Tokens /\ more \in Seq(Nat)
          /\ budget.used + tokens = Tokens => Remaining = tokens
      BY <1>0, <2>1, <2>4 DEF Remaining
    <3>3. status \in {"active", "exhausted"} /\ (Remaining = tokens => status = "exhausted")
      OBVIOUS
    <3>4. /\ IsFiniteSet(TokensOn(more))
          /\ Cardinality(TokensOn(more)) = budget.used + tokens
      BY <1>0, <2>1, OneMoreReceipt DEF BudgetInv
    <3> HIDE DEF status, more
    <3> QED BY <3>1, <3>2, <3>3, <3>4 DEF BudgetInv
  <2> QED BY <2>2, <2>3, <2>4
<1> QED BY <1>1, <1>2 DEF BudgetNext, PreCheck, Deduct, Leave, limitVars, budgetVars

LEMMA BudgetMeaning == BudgetInv => BudgetHolds
BY LimitsAssumption DEF BudgetInv, BudgetHolds, Remaining, WithinBudget

-----------------------------------------------------------------------------
(* The fuse                                                                *)

FuseInv ==
    /\ record \in [count : Nat, fused : BOOLEAN]
    /\ record.fused <=> record.count >= Threshold

LEMMA FuseStart == FuseInit => FuseInv
BY LimitsAssumption DEF FuseInit, FuseInv

LEMMA FuseStep == FuseInv /\ [FuseNext]_limitVars => FuseInv'
<1> SUFFICES ASSUME FuseInv, [FuseNext]_limitVars PROVE FuseInv'
  OBVIOUS
<1>0. record.count \in Nat /\ (record.fused <=> record.count >= Threshold) /\ Threshold \in Nat
  BY LimitsAssumption DEF FuseInv
<1>1. CASE RecordNegative
  <2> DEFINE fused == record.fused \/ record.count + 1 >= Threshold
  <2>1. record' = [count |-> record.count + 1, fused |-> fused]
    BY <1>1 DEF RecordNegative
  <2>2. fused \in BOOLEAN /\ (fused <=> record.count + 1 >= Threshold)
    BY <1>0
  <2> HIDE DEF fused
  <2>3. record'.count = record.count + 1 /\ record'.fused = fused
        /\ record' \in [count : Nat, fused : BOOLEAN]
    BY <1>0, <2>1, <2>2
  <2> QED BY <2>2, <2>3 DEF FuseInv
<1>2. CASE ResetFeedback
  BY <1>2, LimitsAssumption DEF ResetFeedback, FuseInv
<1>3. CASE UNCHANGED limitVars
  BY <1>3 DEF limitVars, FuseInv
<1> QED BY <1>1, <1>2, <1>3 DEF FuseNext

LEMMA FuseMeaning == FuseInv => FuseHolds
BY DEF FuseInv, FuseHolds, ReportedConfidence, EffectiveConfidence

-----------------------------------------------------------------------------
(* The golden signals                                                      *)

RequestPlaces == {"before", "unmeasured", "inside", "2xx", "5xx", "raised", "cancelled"}
Traces == Seq({"new", "t"})
Counts == Nat
SignalRecord == [active : Counts, total : Counts, errors : Counts, observed : Counts]
MeasuredRecord == [at : RequestPlaces, traces : Traces, scopes : Counts]

Timed == UNION {ScopesLeft(r) : r \in HttpRequests}
InPlaces(places) == {r \in HttpRequests : measured[r].at \in places}
SignalsType ==
    /\ signals \in SignalRecord
    /\ measured \in [HttpRequests -> MeasuredRecord]
    /\ \A r \in HttpRequests : Len(measured[r].traces) <= measured[r].scopes
SignalsInv ==
    /\ SignalsType
    /\ signals.active = Cardinality(InPlaces({"inside"}))
    /\ signals.total = Cardinality(InPlaces({"2xx", "5xx", "raised"}))
    /\ signals.errors = Cardinality(InPlaces({"5xx", "raised"}))
    /\ IsFiniteSet(Timed) /\ signals.observed = Cardinality(Timed)

\* One request that moves changes each count by itself.
LEMMA Recount ==
    ASSUME measured \in [HttpRequests -> MeasuredRecord], NEW r \in HttpRequests,
           \A q \in HttpRequests : q # r => measured'[q] = measured[q], NEW places
    PROVE  /\ Cardinality(InPlaces(places)) \in Nat
           /\ measured[r].at \in places /\ measured'[r].at \in places =>
                Cardinality(InPlaces(places)') = Cardinality(InPlaces(places))
           /\ measured[r].at \notin places /\ measured'[r].at \notin places =>
                Cardinality(InPlaces(places)') = Cardinality(InPlaces(places))
           /\ measured[r].at \notin places /\ measured'[r].at \in places =>
                Cardinality(InPlaces(places)') = Cardinality(InPlaces(places)) + 1
           /\ measured[r].at \in places /\ measured'[r].at \notin places =>
                /\ Cardinality(InPlaces(places)') = Cardinality(InPlaces(places)) - 1
                /\ Cardinality(InPlaces(places)) >= 1
<1> DEFINE S == InPlaces(places)
<1>1. IsFiniteSet(S) /\ Cardinality(S) \in Nat
  BY OperationsAssumption, FS_Subset, FS_CardinalityType DEF InPlaces
<1>2. r \in S <=> measured[r].at \in places
  BY DEF InPlaces
<1>3. S' = IF measured'[r].at \in places THEN S \union {r} ELSE S \ {r}
  BY DEF InPlaces
<1> HIDE DEF S
<1>4. /\ Cardinality(S \union {r}) = IF r \in S THEN Cardinality(S) ELSE Cardinality(S) + 1
      /\ Cardinality(S \ {r}) = IF r \in S THEN Cardinality(S) - 1 ELSE Cardinality(S)
  BY <1>1, FS_AddElement, FS_RemoveElement
<1>5. Cardinality(S \ {r}) \in Nat
  BY <1>1, FS_RemoveElement, FS_CardinalityType
<1> QED BY <1>1, <1>2, <1>3, <1>4, <1>5 DEF S

LEMMA SignalsStart == SignalsInit => SignalsInv
<1> SUFFICES ASSUME SignalsInit PROVE SignalsInv
  OBVIOUS
<1>1. /\ signals = [active |-> 0, total |-> 0, errors |-> 0, observed |-> 0]
      /\ measured = [r \in HttpRequests |-> [at |-> "before", traces |-> <<>>, scopes |-> 0]]
  BY DEF SignalsInit
<1>2. SignalsType
  BY <1>1 DEF SignalsType, SignalRecord, MeasuredRecord, RequestPlaces, Traces, Counts
<1>3. InPlaces({"inside"}) = {} /\ InPlaces({"2xx", "5xx", "raised"}) = {}
      /\ InPlaces({"5xx", "raised"}) = {}
  BY <1>1 DEF InPlaces
<1>4. Timed = {}
  BY <1>1 DEF Timed, ScopesLeft
<1> QED BY <1>1, <1>2, <1>3, <1>4, FS_EmptySet DEF SignalsInv

\* What the requests' records can become.
LEMMA MeasuredUpdates ==
    ASSUME measured \in [HttpRequests -> MeasuredRecord], NEW r \in HttpRequests
    PROVE  /\ \A p \in RequestPlaces : [measured EXCEPT ![r].at = p] \in [HttpRequests -> MeasuredRecord]
           /\ \A a \in Traces : [measured EXCEPT ![r].traces = a] \in [HttpRequests -> MeasuredRecord]
           /\ \A a \in Traces, n \in Counts :
                [measured EXCEPT ![r].traces = a, ![r].scopes = n] \in [HttpRequests -> MeasuredRecord]
<1>1. ASSUME NEW p \in RequestPlaces PROVE [measured EXCEPT ![r].at = p] \in [HttpRequests -> MeasuredRecord]
  BY DEF MeasuredRecord
<1>2. ASSUME NEW a \in Traces PROVE [measured EXCEPT ![r].traces = a] \in [HttpRequests -> MeasuredRecord]
  BY DEF MeasuredRecord
<1>3. ASSUME NEW a \in Traces, NEW n \in Counts
      PROVE  [measured EXCEPT ![r].traces = a, ![r].scopes = n] \in [HttpRequests -> MeasuredRecord]
  BY DEF MeasuredRecord
<1> QED BY <1>1, <1>2, <1>3

LEMMA OneLonger ==
    \A T : \A s \in Seq(T) : \A x \in T :
        Append(s, x) \in Seq(T) /\ Len(Append(s, x)) = Len(s) + 1
BY AppendProperties

LEMMA OneMore ==
    \A l, s \in Nat : s + 1 \in Nat /\
        \A a, n : a = l + 1 /\ n = s + 1 => n - a = s - l /\ (l <= s => a <= n)
OBVIOUS

LEMMA SignalsStep == SignalsInv /\ [SignalsNext]_operationVars => SignalsInv'
<1> SUFFICES ASSUME SignalsInv, [SignalsNext]_operationVars PROVE SignalsInv'
  OBVIOUS
<1>0. /\ measured \in [HttpRequests -> MeasuredRecord] /\ signals \in SignalRecord
      /\ \A r \in HttpRequests : Len(measured[r].traces) <= measured[r].scopes
  BY DEF SignalsInv, SignalsType
<1>p. ASSUME NEW r \in HttpRequests
      PROVE  measured[r].traces \in Seq({"new", "t"}) /\ measured[r].scopes \in Nat
             /\ Len(measured[r].traces) \in Nat
  BY <1>0 DEF MeasuredRecord, Traces, Counts
<1>c. signals.active \in Nat /\ signals.total \in Nat /\ signals.errors \in Nat
      /\ signals.observed \in Nat
  BY <1>0 DEF SignalRecord, Counts
\* A step that changes where one request is, and none of its scopes.
<1>m. ASSUME NEW r \in HttpRequests, NEW p \in RequestPlaces,
             measured' = [measured EXCEPT ![r].at = p], signals' \in SignalRecord,
             signals'.observed = signals.observed,
             signals'.active = Cardinality(InPlaces({"inside"})'),
             signals'.total = Cardinality(InPlaces({"2xx", "5xx", "raised"})'),
             signals'.errors = Cardinality(InPlaces({"5xx", "raised"})')
      PROVE  SignalsInv'
  <2>1. measured' \in [HttpRequests -> MeasuredRecord]
    BY <1>0, <1>m, MeasuredUpdates
  <2>2. \A q \in HttpRequests : measured'[q].traces = measured[q].traces
                               /\ measured'[q].scopes = measured[q].scopes
    BY <1>0, <1>m DEF MeasuredRecord
  <2>3. Timed' = Timed
    BY <2>2 DEF Timed, ScopesLeft
  <2>4. SignalsType'
    BY <1>0, <1>m, <2>1, <2>2 DEF SignalsType
  <2> QED BY <1>m, <2>3, <2>4 DEF SignalsInv
<1>1. ASSUME NEW r \in HttpRequests, NEW exempt \in BOOLEAN, EnterRequest(r, exempt)
      PROVE  SignalsInv'
  <2> DEFINE p == IF exempt THEN "unmeasured" ELSE "inside"
             n == signals.active + (IF exempt THEN 0 ELSE 1)
  <2>1. /\ measured[r].at = "before" /\ measured' = [measured EXCEPT ![r].at = p]
        /\ signals' = [signals EXCEPT !.active = n]
    BY <1>1 DEF EnterRequest
  <2>2. p \in RequestPlaces /\ n \in Counts
    BY <1>c DEF RequestPlaces, Counts
  <2> HIDE DEF p, n
  <2>3. measured'[r].at = p /\ \A q \in HttpRequests : q # r => measured'[q] = measured[q]
    BY <1>0, <2>1 DEF MeasuredRecord
  <2>4. /\ signals' \in SignalRecord /\ signals'.active = n /\ signals'.total = signals.total
        /\ signals'.errors = signals.errors /\ signals'.observed = signals.observed
    BY <1>0, <2>1, <2>2 DEF SignalRecord
  <2>5. Cardinality(InPlaces({"inside"})') = n
    <3>1. signals.active = Cardinality(InPlaces({"inside"}))
      BY DEF SignalsInv
    <3>2. p \in {"inside"} <=> ~exempt
      BY DEF p
    <3> QED BY <1>0, <1>c, <2>1, <2>3, <3>1, <3>2, Recount DEF n
  <2>6. Cardinality(InPlaces({"2xx", "5xx", "raised"})') = signals.total
    BY <1>0, <2>1, <2>3, Recount DEF SignalsInv, p
  <2>7. Cardinality(InPlaces({"5xx", "raised"})') = signals.errors
    BY <1>0, <2>1, <2>3, Recount DEF SignalsInv, p
  <2> QED BY <1>m, <2>1, <2>2, <2>4, <2>5, <2>6, <2>7
\* A step that changes the scopes of one request, and nowhere it is.
<1>s. ASSUME NEW r \in HttpRequests, measured' \in [HttpRequests -> MeasuredRecord],
             \A q \in HttpRequests : q # r => measured'[q] = measured[q],
             measured'[r].at = measured[r].at,
             Len(measured'[r].traces) <= measured'[r].scopes,
             signals' \in SignalRecord, signals'.active = signals.active,
             signals'.total = signals.total, signals'.errors = signals.errors,
             IsFiniteSet(Timed'), signals'.observed = Cardinality(Timed')
      PROVE  SignalsInv'
  <2>1. \A q \in HttpRequests : measured'[q].at = measured[q].at
    BY <1>s
  <2>2. InPlaces({"inside"})' = InPlaces({"inside"})
        /\ InPlaces({"2xx", "5xx", "raised"})' = InPlaces({"2xx", "5xx", "raised"})
        /\ InPlaces({"5xx", "raised"})' = InPlaces({"5xx", "raised"})
    BY <2>1 DEF InPlaces
  <2>3. SignalsType'
    BY <1>0, <1>s DEF SignalsType
  <2> QED BY <1>s, <2>2, <2>3 DEF SignalsInv
<1>2. ASSUME NEW r \in HttpRequests, NEW given \in {"", "t"}, EnterScope(r, given)
      PROVE  SignalsInv'
  <2> DEFINE x == IF given = "" THEN "new" ELSE given
             a == Append(measured[r].traces, x)
             n == measured[r].scopes + 1
  <2>1. measured' = [measured EXCEPT ![r].traces = a, ![r].scopes = n] /\ signals' = signals
    BY <1>2 DEF EnterScope
  <2>x. x \in {"new", "t"} /\ measured[r].traces \in Seq({"new", "t"})
    BY <1>p
  <2>d. /\ Len(measured[r].traces) \in Nat /\ measured[r].scopes \in Nat
        /\ Len(measured[r].traces) <= measured[r].scopes
    BY <1>0, <1>p
  <2>l. a \in Seq({"new", "t"}) /\ Len(a) = Len(measured[r].traces) + 1
    <3> HIDE DEF x
    <3>1. \A s \in Seq({"new", "t"}) : \A y \in {"new", "t"} :
             Append(s, y) \in Seq({"new", "t"}) /\ Len(Append(s, y)) = Len(s) + 1
      BY OneLonger, Zenon
    <3> QED BY <2>x, <3>1, Zenon
  <2>n. n \in Nat /\ n = measured[r].scopes + 1
    BY <2>d, OneMore, Zenon
  <2>2. a \in Traces /\ n \in Counts
    BY <2>l, <2>n DEF Traces, Counts
  <2> HIDE DEF x, a, n
  <2>3. measured' \in [HttpRequests -> MeasuredRecord]
    BY <1>0, <2>1, <2>2, MeasuredUpdates
  <2>4. measured'[r].traces = a /\ measured'[r].scopes = n /\ measured'[r].at = measured[r].at
    BY <1>0, <2>1 DEF MeasuredRecord
  <2>5. \A q \in HttpRequests : q # r => measured'[q] = measured[q]
    BY <1>0, <2>1
  <2>6. n - Len(a) = measured[r].scopes - Len(measured[r].traces) /\ Len(a) <= n
    <3> DEFINE l == Len(measured[r].traces)
               s == measured[r].scopes
    <3>1. l \in Nat /\ s \in Nat /\ l <= s
      BY <2>d
    <3> HIDE DEF l, s
    <3>2. \A c, d : c = l + 1 /\ d = s + 1 => d - c = s - l /\ (l <= s => c <= d)
      BY <3>1, OneMore, Zenon
    <3>3. Len(a) = l + 1 /\ n = s + 1
      BY <2>l, <2>n, Zenon DEF l, s
    <3>4. n - Len(a) = s - l /\ Len(a) <= n
      BY <3>1, <3>2, <3>3, Zenon
    <3> QED BY <3>4, Zenon DEF l, s
  <2>7. \A q \in HttpRequests : ScopesLeft(q)' = ScopesLeft(q)
    BY <2>4, <2>5, <2>6 DEF ScopesLeft
  <2>8. Timed' = Timed
    BY <2>7 DEF Timed
  <2>9. signals' \in SignalRecord /\ IsFiniteSet(Timed') /\ signals'.observed = Cardinality(Timed')
    BY <1>0, <2>1, <2>8 DEF SignalsInv, SignalsType
  <2>10. Len(measured'[r].traces) <= measured'[r].scopes
    BY <2>4, <2>6
  <2>11. /\ signals'.active = signals.active /\ signals'.total = signals.total
         /\ signals'.errors = signals.errors /\ measured'[r].at = measured[r].at
    BY <2>1, <2>4
  <2> QED BY <1>s, <2>3, <2>5, <2>9, <2>10, <2>11
<1>3. ASSUME NEW r \in HttpRequests, LeaveScope(r) PROVE SignalsInv'
  <2> DEFINE a == Front(measured[r].traces)
             n == signals.observed + 1
             k == measured[r].scopes - Len(measured[r].traces)
  <2>1. /\ measured[r].traces # <<>> /\ measured' = [measured EXCEPT ![r].traces = a]
        /\ signals' = [signals EXCEPT !.observed = n]
    BY <1>3 DEF LeaveScope
  <2>2. a \in Traces /\ Len(a) = Len(measured[r].traces) - 1 /\ n \in Counts /\ k \in Nat
    <3>1. Len(measured[r].traces) >= 1
      BY <1>p, <2>1
    <3>2. k \in Nat
      BY <1>0, <1>p
    <3>3. a \in Seq({"new", "t"}) /\ Len(a) = Len(measured[r].traces) - 1
      BY <1>p, <3>1 DEF Front
    <3> QED BY <1>c, <3>2, <3>3 DEF Traces, Counts
  <2> HIDE DEF a, n
  <2>3. measured' \in [HttpRequests -> MeasuredRecord]
    BY <1>0, <2>1, <2>2, MeasuredUpdates
  <2>4. /\ measured'[r].traces = a /\ measured'[r].scopes = measured[r].scopes
        /\ measured'[r].at = measured[r].at
    BY <1>0, <2>1 DEF MeasuredRecord
  <2>5. \A q \in HttpRequests : q # r => measured'[q] = measured[q]
    BY <1>0, <2>1
  <2>6. /\ signals' \in SignalRecord /\ signals'.active = signals.active
        /\ signals'.total = signals.total /\ signals'.errors = signals.errors
        /\ signals'.observed = n
    BY <1>0, <2>1, <2>2 DEF SignalRecord
  <2>7. measured[r].scopes - Len(a) = k + 1
    BY <1>p, <2>2
  <2> HIDE DEF k
  <2>8. ScopesLeft(r)' = ScopesLeft(r) \union {<<r, k + 1>>}
    <3>1. 1..(k + 1) = (1..k) \union {k + 1}
      BY <2>2
    <3>2. ScopesLeft(r)' = {r} \X (1..(k + 1)) /\ ScopesLeft(r) = {r} \X (1..k)
      BY <2>4, <2>7 DEF ScopesLeft, k
    <3> QED BY <3>1, <3>2
  <2>9. \A q \in HttpRequests : q # r => ScopesLeft(q)' = ScopesLeft(q)
    BY <2>5 DEF ScopesLeft
  <2>10. Timed' = Timed \union {<<r, k + 1>>}
    <3>1. ASSUME NEW p PROVE p \in Timed' <=> p \in Timed \union {<<r, k + 1>>}
      <4>1. p \in Timed' <=> \E q \in HttpRequests : p \in ScopesLeft(q)'
        BY DEF Timed
      <4>2. p \in Timed <=> \E q \in HttpRequests : p \in ScopesLeft(q)
        BY DEF Timed
      <4> QED BY <2>8, <2>9, <4>1, <4>2
    <3> QED BY <3>1
  <2>11. <<r, k + 1>> \notin Timed
    <3> SUFFICES ASSUME NEW q \in HttpRequests, <<r, k + 1>> \in ScopesLeft(q) PROVE FALSE
      BY DEF Timed
    <3>1. q = r /\ k + 1 \in 1..k
      BY DEF ScopesLeft, k
    <3> QED BY <2>2, <3>1
  <2>12. IsFiniteSet(Timed') /\ Cardinality(Timed') = Cardinality(Timed) + 1
    BY <2>10, <2>11, FS_AddElement DEF SignalsInv
  <2>13. n = Cardinality(Timed')
    BY <2>12 DEF SignalsInv, n
  <2>14. Len(a) <= measured[r].scopes
    BY <1>0, <1>p, <2>2
  <2> QED BY <1>s, <2>3, <2>4, <2>5, <2>6, <2>12, <2>13, <2>14
<1>4. ASSUME NEW r \in HttpRequests, NEW status \in {"2xx", "5xx", "raised", "cancelled"},
             LeaveRequest(r, status)
      PROVE  SignalsInv'
  <2>1. /\ measured[r].at = "inside" /\ measured' = [measured EXCEPT ![r].at = status]
        /\ status \in RequestPlaces
    BY <1>4 DEF LeaveRequest, RequestPlaces
  <2>2. measured'[r].at = status /\ \A q \in HttpRequests : q # r => measured'[q] = measured[q]
    BY <1>0, <2>1 DEF MeasuredRecord
  <2>3. /\ signals.active = Cardinality(InPlaces({"inside"}))
        /\ signals.total = Cardinality(InPlaces({"2xx", "5xx", "raised"}))
        /\ signals.errors = Cardinality(InPlaces({"5xx", "raised"}))
    BY DEF SignalsInv
  <2>4. /\ Cardinality(InPlaces({"inside"})') = signals.active - 1 /\ signals.active >= 1
    BY <1>0, <2>1, <2>2, <2>3, Recount
  <2>5. Cardinality(InPlaces({"2xx", "5xx", "raised"})') =
           IF status = "cancelled" THEN signals.total ELSE signals.total + 1
    BY <1>0, <2>1, <2>2, <2>3, Recount
  <2>6. Cardinality(InPlaces({"5xx", "raised"})') =
           IF status \in {"5xx", "raised"} THEN signals.errors + 1 ELSE signals.errors
    BY <1>0, <2>1, <2>2, <2>3, Recount
  <2> DEFINE x == signals.active - 1
             y == signals.total + 1
             z == signals.errors + (IF status \in {"5xx", "raised"} THEN 1 ELSE 0)
  <2>7. /\ x \in Counts /\ y \in Counts /\ z \in Counts
        /\ z = Cardinality(InPlaces({"5xx", "raised"})')
    BY <1>c, <2>4, <2>6 DEF Counts
  <2>8. CASE status = "cancelled"
    <3>1. signals' = [signals EXCEPT !.active = x]
      BY <1>4, <2>8 DEF LeaveRequest
    <3> HIDE DEF x, y, z
    <3>2. /\ signals' \in SignalRecord /\ signals'.active = x /\ signals'.total = signals.total
          /\ signals'.errors = signals.errors /\ signals'.observed = signals.observed
      BY <1>0, <2>7, <3>1 DEF SignalRecord
    <3> QED BY <1>m, <2>1, <2>4, <2>5, <2>6, <2>8, <3>2 DEF x
  <2>9. CASE status # "cancelled"
    <3>1. signals' = [signals EXCEPT !.active = x, !.total = y, !.errors = z]
      BY <1>4, <2>9 DEF LeaveRequest, CountRequest
    <3> HIDE DEF x, y, z
    <3>2. signals' \in SignalRecord
      BY <1>0, <2>7, <3>1 DEF SignalRecord
    <3>3. /\ signals'.active = x /\ signals'.total = y
          /\ signals'.errors = z /\ signals'.observed = signals.observed
      BY <1>0, <3>1 DEF SignalRecord
    <3> QED BY <1>m, <2>1, <2>4, <2>5, <2>7, <2>9, <3>2, <3>3 DEF x, y
  <2> QED BY <2>8, <2>9
<1>5. CASE UNCHANGED operationVars
  BY <1>5 DEF operationVars, SignalsInv, SignalsType, InPlaces, Timed, ScopesLeft
<1> QED BY <1>1, <1>2, <1>3, <1>4, <1>5 DEF SignalsNext

LEMMA SignalsMeaning == SignalsInv => SignalsAddUp
BY DEF SignalsInv, SignalsAddUp, InPlaces, Timed

-----------------------------------------------------------------------------
\* Whatever order requests are admitted, charged, negated and measured in: no
\* minute holds more requests than the limit and a Retry-After is kept to the
\* second (InMemoryRateLimiter); a budget is charged what its receipts say and
\* never more than it has (TokenBudgetManager); a memory is silent exactly from
\* the last negation it stands (NegativeFeedbackFuse); the gauge and the counters
\* are the requests and scopes there were (golden_signals_middleware).
THEOREM UseStaysBounded == Spec => []UseIsBounded
<1> DEFINE UInv == /\ part = "rate" => RateInv
                   /\ part = "budget" => BudgetInv
                   /\ part = "fuse" => FuseInv
                   /\ part = "signals" => SignalsInv
<1>1. Init => UInv
  BY RateStart, BudgetStart, FuseStart, SignalsStart DEF Init
<1>2. UInv /\ [Next]_serviceVars => UInv'
  BY PartMoves, RateStep, BudgetStep, FuseStep, SignalsStep
<1>3. UInv => UseIsBounded
  BY RateMeaning, BudgetMeaning, FuseMeaning, SignalsMeaning DEF UseIsBounded, Of
<1> QED BY <1>1, <1>2, <1>3, PTL DEF Spec
==============================================================================
