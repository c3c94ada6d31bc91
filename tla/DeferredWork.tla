---------------------------- MODULE DeferredWork ----------------------------
(* Work put off until later, three machines that share no state: the deletion
   of one memory item, the outbox of integration events, and the background
   tasks with their retries.  All three are libraries: no loop of the program
   drives them, so a caller may make any call at any time, and pollers of the
   outbox follow the order its methods ask for (fetch, claim, settle).

   Not covered: payloads, error texts, timestamps other than the tombstone's. *)
EXTENDS Naturals, FiniteSets, Sequences

CONSTANTS Pollers,      \* callers that poll the outbox
          MaxEvents,    \* bound: events appended to the outbox
          MaxRetries,   \* max_retries of an event and of a task
          MaxTasks,     \* bound: tasks sent
          Retention,    \* tombstone_retention_days, in ticks
          MaxTrail      \* bound: transitions of a deletion

(* One attempt at least; a retention of whole days. *)
ASSUME DeferredAssumption == MaxRetries \in Nat \ {0} /\ Retention \in Nat

VARIABLES deletion,     \* [state, first, age, trail] of one DeletionFSM
          outbox,       \* event id -> [status, retries]
          poller,       \* poller -> [seen, holds]: fetched ids, claimed id
          tasks         \* task id -> [status, retries]

deferredVars == <<deletion, outbox, poller, tasks>>

-----------------------------------------------------------------------------
(* The deletion state machine.  A machine is made for an item in any state
   (initial_state); the time of the tombstone is known only to the machine
   that confirmed it. *)
DeletionStates == {"active", "pending_delete", "tombstone", "archived",
                   "purge_queued", "purging", "purged", "failed"}
Transitions == {<<"active", "pending_delete">>, <<"pending_delete", "tombstone">>,
                <<"tombstone", "archived">>, <<"archived", "purge_queued">>,
                <<"purge_queued", "purging">>, <<"purging", "purged">>,
                <<"purging", "failed">>, <<"failed", "purge_queued">>}
NoTombstone == Retention + 1

DeletionInit ==
    \E s \in DeletionStates :
        deletion = [state |-> s, first |-> s, age |-> NoTombstone, trail |-> <<>>]

(* _transition: refused unless the pair is listed; otherwise the event is
   recorded with the state it left. *)
Transition(to) ==
    /\ <<deletion.state, to>> \in Transitions
    /\ Len(deletion.trail) < MaxTrail
    /\ deletion' = [deletion EXCEPT
                      !.state = to,
                      !.trail = Append(@, <<deletion.state, to>>),
                      !.age = IF to = "tombstone" THEN 0 ELSE @]
    /\ UNCHANGED <<outbox, poller, tasks>>

Day ==
    /\ deletion.age < Retention
    /\ deletion' = [deletion EXCEPT !.age = @ + 1]
    /\ UNCHANGED <<outbox, poller, tasks>>

PurgeEligible ==
    /\ deletion.state \in {"tombstone", "archived"}
    /\ deletion.age = Retention

DeletionNext == Day \/ \E to \in DeletionStates : Transition(to)

-----------------------------------------------------------------------------
(* The outbox. *)
Events == DOMAIN outbox
IdlePoller == [seen |-> {}, holds |-> 0]
OutboxInit == outbox = <<>> /\ poller = [p \in Pollers |-> IdlePoller]

AppendEvent ==
    /\ Len(outbox) < MaxEvents
    /\ outbox' = Append(outbox, [status |-> "pending", retries |-> 0])
    /\ UNCHANGED <<deletion, poller, tasks>>

(* get_pending: the oldest "limit" pending events. *)
GetPending(p, limit) ==
    /\ poller[p] = IdlePoller
    /\ LET pending == {e \in Events : outbox[e].status = "pending"}
           oldest == {e \in pending :
                        Cardinality({f \in pending : f < e}) < limit}
       IN poller' = [poller EXCEPT ![p].seen = oldest]
    /\ UNCHANGED <<deletion, outbox, tasks>>

(* How it could go wrong: a claim that does not look at the status again. *)
MarkUnasked(p, e) ==
    /\ poller[p].holds = 0
    /\ e \in poller[p].seen
    /\ outbox' = [outbox EXCEPT ![e].status = "processing"]
    /\ poller' = [poller EXCEPT ![p] = [seen |-> @.seen \ {e}, holds |-> e]]
    /\ UNCHANGED <<deletion, tasks>>

(* mark_processing: the claim.  It is refused for an event another poller
   claimed after this one fetched it. *)
MarkProcessing(p, e) ==
    /\ poller[p].holds = 0
    /\ e \in poller[p].seen
    /\ IF outbox[e].status = "pending"
       THEN /\ outbox' = [outbox EXCEPT ![e].status = "processing"]
            /\ poller' = [poller EXCEPT ![p] = [seen |-> @.seen \ {e}, holds |-> e]]
       ELSE /\ poller' = [poller EXCEPT ![p].seen = @ \ {e}]
            /\ UNCHANGED outbox
    /\ UNCHANGED <<deletion, tasks>>

Release(p) == poller' = [poller EXCEPT ![p].holds = 0]

MarkDelivered(p) ==
    /\ poller[p].holds # 0
    /\ outbox[poller[p].holds].status = "processing"
    /\ outbox' = [outbox EXCEPT ![poller[p].holds].status = "delivered"]
    /\ Release(p)
    /\ UNCHANGED <<deletion, tasks>>

Failed(e) == [retries |-> e.retries + 1,
              status |-> IF e.retries + 1 >= MaxRetries THEN "failed" ELSE "pending"]
MarkFailed(p) ==
    /\ poller[p].holds # 0
    /\ outbox[poller[p].holds].status = "processing"
    /\ outbox' = [outbox EXCEPT ![poller[p].holds] = Failed(@)]
    /\ Release(p)
    /\ UNCHANGED <<deletion, tasks>>

(* A poller that stops forgets what it fetched and what it claimed; nothing
   takes a claimed event back. *)
PollerStops(p) ==
    /\ poller[p] # IdlePoller
    /\ poller' = [poller EXCEPT ![p] = IdlePoller]
    /\ UNCHANGED <<deletion, outbox, tasks>>

OutboxNext ==
    \/ AppendEvent
    \/ \E p \in Pollers :
         \/ \E limit \in {1, MaxEvents} : GetPending(p, limit)
         \/ \E e \in Events : MarkProcessing(p, e)
         \/ MarkDelivered(p)
         \/ MarkFailed(p)
         \/ PollerStops(p)

-----------------------------------------------------------------------------
(* Background tasks: send_task runs the handler and its callbacks at once; an
   unknown task, a handler and a callback that raises all end in failure. *)
TasksInit == tasks = <<>>

Send(retries) ==
    /\ Len(tasks) < MaxTasks
    /\ \E outcome \in {"success", "failure"} :
         tasks' = Append(tasks, [status |-> outcome, retries |-> retries])

Submit ==
    /\ Send(0)
    /\ UNCHANGED <<deletion, outbox, poller>>

(* retry: a new task that counts one retry more than the failed one, whose
   own count stays: it can be retried again. *)
MayRetry(task) == task.status = "failure" /\ task.retries < MaxRetries
RetryTask(t) ==
    /\ MayRetry(tasks[t])
    /\ Send(tasks[t].retries + 1)
    /\ UNCHANGED <<deletion, outbox, poller>>

TasksNext == Submit \/ \E t \in DOMAIN tasks : RetryTask(t)

-----------------------------------------------------------------------------
DeferredTypeOK ==
    /\ deletion.state \in DeletionStates
    /\ deletion.age \in 0..NoTombstone
    /\ outbox \in Seq([status : {"pending", "processing", "delivered", "failed"},
                       retries : 0..MaxRetries])
    /\ \A p \in Pollers : poller[p].seen \subseteq Events
    /\ tasks \in Seq([status : {"success", "failure"}, retries : 0..MaxRetries])

(* The audit trail of a deletion is a path from the state it began in to the
   state it is in, and what is purged from an active item was tombstoned and
   archived on the way; only what this machine tombstoned is ever eligible. *)
DeletionTrail ==
    LET trail == deletion.trail
        passed == {deletion.first} \union {trail[i][2] : i \in DOMAIN trail}
    IN /\ IF trail = <<>> THEN deletion.state = deletion.first
          ELSE trail[1][1] = deletion.first /\ trail[Len(trail)][2] = deletion.state
       /\ \A i \in 1..(Len(trail) - 1) : trail[i][2] = trail[i + 1][1]
       /\ deletion.first = "active" /\ deletion.state \in {"purging", "purged"} =>
            {"tombstone", "archived"} \subseteq passed
       /\ PurgeEligible => \E i \in DOMAIN trail : trail[i][2] = "tombstone"

(* Two pollers never hold one event, what a poller holds is being processed,
   and an event is given up exactly when its retries are used up. *)
ClaimsExclusive ==
    /\ \A p, q \in Pollers : p # q /\ poller[p].holds # 0 => poller[p].holds # poller[q].holds
    /\ \A p \in Pollers : poller[p].holds # 0 => outbox[poller[p].holds].status = "processing"
    /\ \A e \in Events : outbox[e].status = "failed" <=> outbox[e].retries = MaxRetries
=============================================================================
