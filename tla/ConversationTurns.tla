-------------------------- MODULE ConversationTurns --------------------------
(***************************************************************************)
(* Concurrent conversation turns over the PostgreSQL event store.          *)
(*                                                                         *)
(* A turn arrives as a POST (gateway/api/conversations.py) or on a         *)
(* WebSocket (gateway/ws/conversation.py, brain/engine/ws_handler.py).     *)
(* It loads the session's history, lets the engine produce an answer, and  *)
(* appends the user message and then the assistant message.  An append     *)
(* (memory/events.py) is two statements: a SELECT of the row count, then   *)
(* an INSERT numbered count + 1 that the table's unique constraint on      *)
(* (session_id, sequence_number) may refuse.  The engine swallows every    *)
(* failure of the two appends and still answers.                           *)
(*                                                                         *)
(* One action per stretch of code between two awaits: other turns run in   *)
(* between.                                                                *)
(***************************************************************************)
EXTENDS Naturals, FiniteSets

CONSTANTS Turns,       \* the requests that may arrive, numbered in their order
          Sessions,    \* conversation sessions
          Conns,       \* WebSocket connections
          NoConn,      \* the channel of a turn that arrives as a POST
          ConnSession, \* ConnSession[c]: the session in connection c's URL
          MaxFaults,   \* bound: database calls that fail
          MaxCrashes   \* bound: restarts of the process

ASSUME ConstantsAssumption ==
    /\ Turns \subseteq Nat
    /\ ConnSession \in [Conns -> Sessions]
    /\ NoConn \notin Conns
    /\ MaxFaults \in Nat /\ MaxCrashes \in Nat

VARIABLES rows,   \* the table conversation_events
          clock,  \* wall clock, one tick per created_at taken
          pc,     \* pc[t]: where turn t is
          sess,   \* sess[t]: its session
          via,    \* via[t]: its connection, or NoConn
          hist,   \* hist[t]: the events get_session_history returned to it
          prior,  \* prior[t]: turns of the session answered before t began
          role,   \* role[t]: the role of the event being appended
          seq,    \* seq[t]: the number computed from the count
          at,     \* at[t]: the created_at computed beside it
          conn,   \* conn[c]: state of a WebSocket connection
          faults, crashes

turnVars == <<sess, via, hist, prior>>
appendVars == <<role, seq, at>>
bounds == <<faults, crashes>>
vars == <<rows, clock, pc, turnVars, appendVars, conn, bounds>>

Role == {"user", "assistant"}
Pc == {"idle", "stream_start", "think", "count", "insert", "reply",
       "answered", "undelivered", "failed"}
Final == {"answered", "undelivered", "failed"}
Answered == {"answered", "undelivered"}
Active(t) == pc[t] \notin Final \cup {"idle"}

Event == [session: Sessions, seq: Nat, turn: Turns, role: Role, at: Nat]

RowsOf(s) == {r \in rows : r.session = s}
SeqsOf(s) == {r.seq : r \in RowsOf(s)}

\* The numbers an INSERT may not use: the unique constraint on
\* (session_id, sequence_number).  No row is exempt.
NoneTaken(s) == {}
TakenSeqs(s) == SeqsOf(s)

Busy(c) == \E t \in Turns : via[t] = c /\ Active(t)

TypeOK ==
    /\ rows \subseteq Event
    /\ clock \in Nat
    /\ pc \in [Turns -> Pc]
    /\ sess \in [Turns -> Sessions]
    /\ via \in [Turns -> Conns \cup {NoConn}]
    /\ hist \in [Turns -> SUBSET Event]
    /\ prior \in [Turns -> SUBSET Turns]
    /\ role \in [Turns -> Role]
    /\ seq \in [Turns -> Nat]
    /\ at \in [Turns -> Nat]
    /\ conn \in [Conns -> {"open", "gone", "closed"}]
    /\ faults \in 0..MaxFaults
    /\ crashes \in 0..MaxCrashes

Init ==
    /\ rows = {}
    /\ clock = 0
    /\ pc = [t \in Turns |-> "idle"]
    /\ sess \in [Turns -> Sessions]
    /\ via \in [Turns -> Conns \cup {NoConn}]
    /\ \A t \in Turns : via[t] \in Conns => sess[t] = ConnSession[via[t]]
    /\ hist = [t \in Turns |-> {}]
    /\ prior = [t \in Turns |-> {}]
    /\ role = [t \in Turns |-> "user"]
    /\ seq = [t \in Turns |-> 0]
    /\ at = [t \in Turns |-> 0]
    /\ conn = [c \in Conns |-> "open"]
    /\ faults = 0 /\ crashes = 0

-----------------------------------------------------------------------------
(* How a turn ends                                                         *)

Goto(t, l) == pc' = [pc EXCEPT ![t] = l]

\* An exception that leaves the WebSocket handler closes the connection;
\* one that leaves the POST handler is a 500 and touches nothing.
DropConn(t) ==
    conn' = [c \in Conns |-> IF c = via[t] THEN "closed" ELSE conn[c]]

Fail(t) == Goto(t, "failed") /\ DropConn(t)

Fault == faults < MaxFaults /\ faults' = faults + 1 /\ UNCHANGED crashes

-----------------------------------------------------------------------------
(* A turn begins.  A connection is read again only once the handler of its *)
(* last message returned; POSTs know no such order.                        *)

ReadAnyTime(t) == via[t] \in Conns => conn[via[t]] # "closed"
MayBegin(t) ==
    via[t] \in Conns => conn[via[t]] # "closed" /\ ~Busy(via[t])

OwnChannelOnly(t) == {r \in RowsOf(sess[t]) : via[r.turn] = via[t]}
History(t) == RowsOf(sess[t])

AnsweredBefore(t) == {u \in Turns : sess[u] = sess[t] /\ pc[u] \in Answered}

Arrives(t) == pc[t] = "idle" /\ \A u \in Turns : u < t => pc[u] # "idle"

LoadHistory(t) ==
    /\ Arrives(t)
    /\ MayBegin(t)
    /\ hist' = [hist EXCEPT ![t] = History(t)]
    /\ prior' = [prior EXCEPT ![t] = AnsweredBefore(t)]
    /\ Goto(t, IF via[t] = NoConn THEN "think" ELSE "stream_start")
    /\ UNCHANGED <<rows, clock, sess, via, appendVars, conn, bounds>>

LoadHistoryFails(t) ==
    /\ Arrives(t)
    /\ MayBegin(t)
    /\ Fault
    /\ Fail(t)
    /\ UNCHANGED <<rows, clock, turnVars, appendVars>>

\* Sending on a connection the client left may raise, or go unnoticed.
StreamStart(t) ==
    /\ pc[t] = "stream_start"
    /\ \/ Goto(t, "think") /\ UNCHANGED conn
       \/ conn[via[t]] = "gone" /\ Fail(t)
    /\ UNCHANGED <<rows, clock, turnVars, appendVars, bounds>>

\* Intent, skill, context assembly, LLM call and metering: for the store
\* they either produce an answer or raise.
Think(t) ==
    /\ pc[t] = "think"
    /\ \/ /\ Goto(t, "count")
          /\ UNCHANGED conn
       \/ Fail(t)
    /\ UNCHANGED <<rows, clock, turnVars, appendVars, bounds>>

-----------------------------------------------------------------------------
(* append_event, twice, inside one try block                               *)

OneTimePerTurn(t) == IF role[t] = "user" THEN clock ELSE at[t]
CreatedAt(t) == clock

CountEvents(t) ==
    /\ pc[t] = "count"
    /\ seq' = [seq EXCEPT ![t] = Cardinality(RowsOf(sess[t])) + 1]
    /\ at' = [at EXCEPT ![t] = CreatedAt(t)]
    /\ clock' = clock + 1
    /\ Goto(t, "insert")
    /\ UNCHANGED <<rows, turnVars, role, conn, bounds>>

NewRow(t) == [session |-> sess[t], seq |-> seq[t], turn |-> t,
              role |-> role[t], at |-> at[t]]

\* On to the assistant message, or to the answer.
ToolMessageNext(t) == Goto(t, "count") /\ role' = [role EXCEPT ![t] = "tool"]
AfterAppend(t) ==
    IF role[t] = "user"
    THEN Goto(t, "count") /\ role' = [role EXCEPT ![t] = "assistant"]
    ELSE Goto(t, "reply") /\ UNCHANGED role

InsertEvent(t) ==
    /\ pc[t] = "insert"
    /\ seq[t] \notin TakenSeqs(sess[t])
    /\ rows' = rows \cup {NewRow(t)}
    /\ AfterAppend(t)
    /\ UNCHANGED <<clock, turnVars, seq, at, conn, bounds>>

\* The exception skips the assistant message when the user message is refused.
SkipRest(t) == Goto(t, "reply") /\ UNCHANGED role
RetryInsert(t) == Goto(t, "insert") /\ UNCHANGED role
SkipOne(t) == AfterAppend(t)
SwallowFailure(t) == SkipRest(t)

InsertRefused(t) ==
    /\ pc[t] = "insert"
    /\ seq[t] \in TakenSeqs(sess[t])
    /\ SwallowFailure(t)
    /\ UNCHANGED <<rows, clock, turnVars, seq, at, conn, bounds>>

\* The database call fails; a COMMIT may have taken effect before its
\* acknowledgement was lost.
AppendFails(t) ==
    /\ pc[t] \in {"count", "insert"}
    /\ Fault
    /\ \/ UNCHANGED rows
       \/ /\ pc[t] = "insert" /\ seq[t] \notin TakenSeqs(sess[t])
          /\ rows' = rows \cup {NewRow(t)}
    /\ SkipRest(t)
    /\ UNCHANGED <<clock, turnVars, seq, at, conn>>

Reply(t) ==
    /\ pc[t] = "reply"
    /\ \/ Goto(t, "answered") /\ UNCHANGED conn
       \/ /\ via[t] \in Conns /\ conn[via[t]] = "gone"
          /\ Goto(t, "undelivered") /\ DropConn(t)
    /\ UNCHANGED <<rows, clock, turnVars, appendVars, bounds>>

-----------------------------------------------------------------------------
(* The environment                                                         *)

Disconnect(c) ==
    /\ conn[c] = "open"
    /\ conn' = [conn EXCEPT ![c] = "gone"]
    /\ UNCHANGED <<rows, clock, pc, turnVars, appendVars, bounds>>

\* receive_json raises WebSocketDisconnect, or the client sent "close".
EndConnection(c) ==
    /\ conn[c] # "closed" /\ ~Busy(c)
    /\ conn' = [conn EXCEPT ![c] = "closed"]
    /\ UNCHANGED <<rows, clock, pc, turnVars, appendVars, bounds>>

Crash ==
    /\ crashes < MaxCrashes
    /\ crashes' = crashes + 1
    /\ pc' = [t \in Turns |-> IF Active(t) THEN "failed" ELSE pc[t]]
    /\ conn' = [c \in Conns |-> "closed"]
    /\ UNCHANGED <<rows, clock, turnVars, appendVars, faults>>

-----------------------------------------------------------------------------

TurnStep(t) ==
    \/ StreamStart(t) \/ Think(t) \/ CountEvents(t) \/ InsertEvent(t)
    \/ InsertRefused(t) \/ Reply(t)

Next ==
    \/ \E t \in Turns : \/ LoadHistory(t) \/ LoadHistoryFails(t)
                        \/ TurnStep(t) \/ AppendFails(t)
    \/ \E c \in Conns : Disconnect(c) \/ EndConnection(c)
    \/ Crash

Spec == Init /\ [][Next]_vars

\* The event loop runs every task that is ready, and every awaited call
\* returns or raises.
Fairness == \A t \in Turns : WF_vars(TurnStep(t))
FairSpec == Spec /\ Fairness

-----------------------------------------------------------------------------
(* Properties                                                              *)

\* The events of a session are numbered 1, 2, ... n: whatever the races,
\* refusals, lost acknowledgements and restarts, no number is used twice or
\* skipped.  count + 1 is a fresh number only as long as this holds
\* (memory/events.py, PgConversationEventStore.append_event).
SeqContiguous ==
    \A s \in Sessions : SeqsOf(s) = 1..Cardinality(RowsOf(s))

\* Ordering a session by sequence_number, as get_session_events does, is
\* ordering it by created_at.
TimeOrdered ==
    \A r1, r2 \in rows :
        r1.session = r2.session /\ r1.seq < r2.seq => r1.at < r2.at

\* The history a turn handed to the LLM stays a prefix of the session: no
\* event is ever inserted before, or vanishes from, what a turn has read,
\* however long it thinks between its read and its own appends.
HistoryIsPrefix ==
    \A t \in Turns :
        hist[t] = {r \in RowsOf(sess[t]) : r.seq <= Cardinality(hist[t])}

\* A turn that begins after another turn of its session was answered has
\* all that turn stored in its history: a client that waits for an answer
\* before it sends the next message never talks to an engine that forgot.
SeesAnsweredTurns ==
    \A t \in Turns : \A r \in rows : r.turn \in prior[t] => r \in hist[t]

Stored(t) == \A r \in Role : \E x \in rows : x.turn = t /\ x.role = r

\* A session used through one WebSocket connection only loses no message
\* while the database answers: the appends of its turns cannot collide.
\* (Two POSTs, or a POST and a connection, can: PersistedBeforeReply.)
SerialConnectionKeepsEvents ==
    \A t \in Turns, c \in Conns :
        /\ faults = 0
        /\ pc[t] \in Answered
        /\ \A u \in Turns : sess[u] = sess[t] => via[u] = c
        => Stored(t)

\* The comment at ws_handler.py:85, "event_store already persisted in
\* process_message": without a database failure, a turn about to be
\* answered has both its messages in the store.
PersistedBeforeReply ==
    \A t \in Turns : (faults = 0 /\ pc[t] = "reply") => Stored(t)

\* Every turn that has begun is answered or fails: no interleaving of
\* appends, refusals and restarts leaves a request hanging.
TurnsEnd == \A t \in Turns : (pc[t] # "idle") ~> (pc[t] \in Final)

\* The store as the log a session is meant to be.
SessionLogOf(s) ==
    [i \in 1..Cardinality(RowsOf(s)) |->
        LET r == CHOOSE x \in RowsOf(s) : x.seq = i
        IN  [turn |-> r.turn, role |-> r.role]]

Log == INSTANCE SessionLog WITH log <- [s \in Sessions |-> SessionLogOf(s)]

\* The appends of concurrent turns implement the session log: messages are
\* only added at the end, none twice, no answer before its question.
ImplementsLog == Log!Spec

=============================================================================
