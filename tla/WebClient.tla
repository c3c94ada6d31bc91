----------------------------- MODULE WebClient -----------------------------
(* The browser's side: the WebSocket manager with its reconnections, and the
   chat and the knowledge page, whose requests are answered while the user goes
   on clicking.  JavaScript runs one handler at a time; what interleaves are
   clicks, timers, socket events and answers.

   Covered: WSConnection; ChatPage and its conversation list; the knowledge
   page; the token in session storage with AuthProvider and the login page.
   Not covered: what is drawn, message texts, the list of chosen files, delays
   (a timer may fire at any time after it was set); whether the server got what
   an open socket took; the 401 of the knowledge page, which ends the session
   like that of the chat page and is a failed request here. *)
EXTENDS Naturals, FiniteSets, Sequences, SequencesExt

CONSTANTS MaxSockets,   \* bound: WebSockets opened
          MaxAttempts,  \* maxReconnectAttempts
          MaxMessages,  \* bound: messages sent
          MaxCalls,     \* bound: calls of connect() by the page
          Chats,        \* conversation ids
          MaxQuestions, \* bound: questions asked
          MaxSessions,  \* bound: logins
          Filters,      \* entity filters of the knowledge page
          MaxFetches    \* bound: requests of the knowledge page

VARIABLES conn,         \* the fields of WSConnection
          socket,       \* number of a WebSocket -> its readyState
          wire,         \* messages given to an open WebSocket, with its number
          lost,         \* messages a WebSocket refused or dropped
          chat,         \* the state of ChatPage
          token,        \* sessionStorage "token": "none", "valid", "stale", "broken"
          user,         \* AuthProvider's user: "loading", "none", "known"; "leaving"
                        \* while the document is replaced after a login
          browse        \* the state of the knowledge page

NoChat == "no chat"
ASSUME ClientAssumption == MaxAttempts \in Nat /\ NoChat \notin Chats

socketVars == <<conn, socket, wire, lost>>
chatVars == <<chat, token, user>>
clientVars == <<socketVars, chatVars, browse>>

-----------------------------------------------------------------------------
(* WSConnection.  Every handler acts on the connection, whichever socket it
   was installed on; ws is the newest socket, 0 after disconnect.  "stuck" says
   that a handler never returned, "dropped" that a queued message was lost. *)
SocketInit ==
    /\ conn = [state |-> "closed", disposed |-> FALSE, attempts |-> 0, timers |-> 0,
               ws |-> 0, pending |-> <<>>, sent |-> 0, calls |-> 0,
               stuck |-> FALSE, dropped |-> FALSE]
    /\ socket = <<>> /\ wire = <<>> /\ lost = {}

Alive(k) == socket[k] # "closed"

Opened(c) == [c EXCEPT !.state = "connecting", !.ws = Len(socket) + 1]
MayOpen == Len(socket) < MaxSockets

Connect ==
    /\ conn.calls < MaxCalls /\ MayOpen /\ ~conn.disposed
    /\ conn' = [Opened(conn) EXCEPT !.calls = @ + 1]
    /\ socket' = Append(socket, "connecting")
    /\ UNCHANGED <<wire, lost>>

ReconnectTimer ==
    /\ conn.timers > 0 /\ ~conn.disposed /\ MayOpen
    /\ conn' = [Opened(conn) EXCEPT !.timers = @ - 1]
    /\ socket' = Append(socket, "connecting")
    /\ UNCHANGED <<wire, lost>>

(* ws.send: an open socket takes the message, one that is closing drops it,
   one that still connects throws. *)
Stamped(messages) == [i \in DOMAIN messages |-> <<messages[i], conn.ws>>]
PutOnWire(m) ==
    IF socket[conn.ws] = "open"
    THEN wire' = wire \o Stamped(<<m>>) /\ UNCHANGED lost
    ELSE lost' = lost \union {m} /\ UNCHANGED wire

SendMessage ==
    /\ conn.sent < MaxMessages
    /\ LET m == conn.sent + 1 IN
       IF conn.state = "open" /\ conn.ws # 0
       THEN conn' = [conn EXCEPT !.sent = m] /\ PutOnWire(m)
       ELSE /\ conn' = [conn EXCEPT !.sent = m, !.pending = Append(@, m)]
            /\ UNCHANGED <<wire, lost>>
    /\ UNCHANGED socket

(* onopen, with flushPending, which sends the messages in their order through
   the newest socket, whichever socket opened: the first throws while that one
   is connecting; and after disconnect each is queued again, for ever. *)
SocketOpens(k) ==
    /\ socket[k] = "connecting"
    /\ socket' = [socket EXCEPT ![k] = "open"]
    /\ LET through == IF conn.ws = 0 THEN "none" ELSE socket'[conn.ws]
           flushed == IF through = "none" \/ conn.pending = <<>> THEN <<>>
                      ELSE IF through = "connecting" THEN <<Head(conn.pending)>>
                      ELSE conn.pending
       IN /\ conn' = [conn EXCEPT !.state = "open", !.attempts = 0,
                        !.pending = SubSeq(@, Len(flushed) + 1, Len(@)),
                        !.stuck = through = "none" /\ conn.pending # <<>>,
                        !.dropped = @ \/ (through # "open" /\ flushed # <<>>)]
          /\ wire' = IF through = "open" THEN wire \o Stamped(flushed) ELSE wire
          /\ lost' = IF through = "open" THEN lost ELSE lost \union Range(flushed)

(* The connection breaks: the socket is closing before its event arrives. *)
Breaks(k) ==
    /\ socket[k] \in {"connecting", "open"}
    /\ socket' = [socket EXCEPT ![k] = "closing"]
    /\ UNCHANGED <<conn, wire, lost>>

(* onclose, with scheduleReconnect. *)
SocketCloses(k) ==
    /\ socket[k] = "closing"
    /\ socket' = [socket EXCEPT ![k] = "closed"]
    /\ conn' = IF ~conn.disposed /\ conn.attempts < MaxAttempts
               THEN [conn EXCEPT !.state = "closed", !.attempts = @ + 1, !.timers = @ + 1]
               ELSE [conn EXCEPT !.state = "closed"]
    /\ UNCHANGED <<wire, lost>>

(* How it could go wrong: the socket let go of without being closed. *)
DisposeUnclosed ==
    /\ ~conn.disposed
    /\ conn' = [conn EXCEPT !.disposed = TRUE, !.state = "closed", !.ws = 0,
                            !.timers = IF @ = 0 THEN 0 ELSE @ - 1]
    /\ UNCHANGED <<socket, wire, lost>>

(* disconnect: only the newest timer is cleared; the others find "disposed". *)
Dispose ==
    /\ ~conn.disposed
    /\ conn' = [conn EXCEPT !.disposed = TRUE, !.state = "closed", !.ws = 0,
                            !.timers = IF @ = 0 THEN 0 ELSE @ - 1]
    /\ socket' = IF conn.ws # 0 /\ Alive(conn.ws)
                 THEN [socket EXCEPT ![conn.ws] = "closing"] ELSE socket
    /\ UNCHANGED <<wire, lost>>

SocketNext ==
    /\ ~conn.stuck
    /\ \/ Connect \/ ReconnectTimer \/ SendMessage \/ Dispose
       \/ \E k \in DOMAIN socket : SocketOpens(k) \/ Breaks(k) \/ SocketCloses(k)
    /\ UNCHANGED <<chatVars, browse>>
-----------------------------------------------------------------------------
(* The chat page.  A question and the placeholder of its answer are appended
   together; the answer replaces the placeholder wherever it is, and is dropped
   when it is no longer shown.  Leaving the page loses its state, and its
   request stays out: the document lives on behind the router, until a login
   loads it anew.  "mixed" says that another conversation was selected over the
   messages on the screen, "session" counts the tokens stored. *)
NoRequest == [q |-> 0, chat |-> NoChat, session |-> 0]
EmptyPage == [list |-> {}, active |-> NoChat, shown |-> <<>>, busy |-> NoRequest,
              mixed |-> FALSE]
ChatInit ==
    /\ chat = [page |-> EmptyPage, asked |-> 0, used |-> {}, left |-> {}, session |-> 0]
    /\ token = "none" /\ user = "loading"

Page == chat.page
OnPage(p) == chat' = [chat EXCEPT !.page = p]
Out == chat.left \union ({Page.busy} \ {NoRequest})
PageLeft == [chat EXCEPT !.page = EmptyPage, !.left = Out]
LeavePage == chat' = PageLeft

NewChat(id) ==
    /\ id \notin chat.used
    /\ chat' = [chat EXCEPT !.used = @ \union {id},
                            !.page = [Page EXCEPT !.list = @ \union {id},
                                                  !.active = id, !.shown = <<>>,
                                                  !.mixed = FALSE]]
    /\ UNCHANGED <<token, user>>

(* onSelect changes the active conversation and nothing else: the messages of
   the other one stay on the screen. *)
SelectChat(id) ==
    /\ id \in Page.list
    /\ OnPage([Page EXCEPT !.active = id,
                           !.mixed = @ \/ (id # Page.active /\ Page.shown # <<>>)])
    /\ UNCHANGED <<token, user>>

DeleteChat(id) ==
    /\ id \in Page.list
    /\ OnPage(IF Page.active = id
              THEN [Page EXCEPT !.list = @ \ {id}, !.active = NoChat, !.shown = <<>>,
                                !.mixed = FALSE]
              ELSE [Page EXCEPT !.list = @ \ {id}])
    /\ UNCHANGED <<token, user>>

Message(role, q, id, streaming) ==
    [role |-> role, q |-> q, chat |-> id, streaming |-> streaming]
AskQuestion ==
    /\ Page.active # NoChat /\ Page.busy = NoRequest
    /\ chat.asked < MaxQuestions
    /\ LET q == chat.asked + 1 IN
       chat' = [chat EXCEPT !.asked = q, !.page =
         IF token = "none" THEN EmptyPage
         ELSE [Page EXCEPT
                 !.shown = @ \o <<Message("user", q, Page.active, FALSE),
                                  Message("assistant", q, Page.active, TRUE)>>,
                 !.busy = [q |-> q, chat |-> Page.active, session |-> chat.session]]]
    /\ UNCHANGED <<token, user>>

(* An answer or an error ends the placeholder; a 401 ends the session. *)
Answered ==
    [i \in DOMAIN Page.shown |->
        IF Page.shown[i].role = "assistant" /\ Page.shown[i].q = Page.busy.q
        THEN [Page.shown[i] EXCEPT !.streaming = FALSE] ELSE Page.shown[i]]
AnswerArrives ==
    /\ Page.busy # NoRequest
    /\ OnPage([Page EXCEPT !.shown = Answered, !.busy = NoRequest])
    /\ UNCHANGED <<token, user>>

Unauthorized ==
    /\ Page.busy # NoRequest
    /\ token' = "none"
    /\ OnPage(EmptyPage)
    /\ UNCHANGED user

(* What a request of a page that was left is answered changes no page, but its
   401 removes whatever token is stored by then and goes to the login page. *)
LateAnswer(r) ==
    /\ chat' = [chat EXCEPT !.left = @ \ {r}]
    /\ UNCHANGED <<token, user>>

LateUnauthorized(r) ==
    /\ chat' = [PageLeft EXCEPT !.left = @ \ {r}]
    /\ token' = "none"
    /\ UNCHANGED user

(* A navigation of the browser that keeps the document. *)
GoElsewhere ==
    /\ LeavePage
    /\ UNCHANGED <<token, user>>

(* The login page stores the token and has the application loaded anew, which
   gives up the requests that are out. *)
Login ==
    /\ user # "leaving" /\ chat.session < MaxSessions
    /\ token' = "valid" /\ user' = "leaving"
    /\ chat' = [PageLeft EXCEPT !.session = @ + 1]

PageLoads ==
    /\ user = "leaving"
    /\ user' = "loading"
    /\ chat' = [chat EXCEPT !.left = {}]
    /\ UNCHANGED token

TokenAges ==
    /\ token = "valid"
    /\ token' \in {"stale", "broken"}
    /\ UNCHANGED <<chat, user>>

(* AuthProvider reads the token once: a broken or expired one is removed. *)
Mount ==
    /\ user = "loading"
    /\ user' = IF token = "valid" THEN "known" ELSE "none"
    /\ token' = IF token = "valid" THEN token ELSE "none"
    /\ IF token = "valid" THEN UNCHANGED chat ELSE LeavePage

Logout ==
    /\ user = "known"
    /\ token' = "none" /\ user' = "none"
    /\ LeavePage

(* Every step of a page that is shown. *)
PageSteps ==
    \/ \E id \in Chats : NewChat(id) \/ SelectChat(id) \/ DeleteChat(id)
    \/ AskQuestion \/ AnswerArrives \/ Unauthorized \/ GoElsewhere
ChatNext ==
    /\ \/ user # "leaving" /\ PageSteps
       \/ \E r \in chat.left : LateAnswer(r) \/ LateUnauthorized(r)
       \/ Login \/ PageLoads \/ TokenAges \/ Mount \/ Logout
    /\ UNCHANGED <<socketVars, browse>>

-----------------------------------------------------------------------------
(* The knowledge page: every change of the filter or of the page asks again,
   and every answer is shown when it arrives, also a late one. *)
Selections == Filters \X {0, 1}
BrowseInit ==
    \E f \in Filters : browse = [selected |-> <<f, 0>>, asked |-> << <<f, 0>> >>,
                                 flying |-> {1}, order |-> <<>>, failed |-> {},
                                 shown |-> <<"nothing", 0>>, loading |-> TRUE]

Choose(selection) ==
    /\ Len(browse.asked) < MaxFetches
    /\ selection # browse.selected
    /\ selection[1] = browse.selected[1] \/ selection[2] = 0
    /\ browse' = [browse EXCEPT !.selected = selection, !.loading = TRUE,
                     !.asked = Append(@, selection),
                     !.flying = @ \union {Len(browse.asked) + 1}]

EntriesArrive(i) ==
    /\ i \in browse.flying
    /\ browse' = [browse EXCEPT !.shown = browse.asked[i], !.loading = FALSE,
                     !.flying = @ \ {i}, !.order = Append(@, i)]

FetchFails(i) ==
    /\ i \in browse.flying
    /\ browse' = [browse EXCEPT !.loading = FALSE, !.flying = @ \ {i},
                     !.failed = @ \union {i}]

BrowseNext ==
    /\ \/ \E selection \in Selections : Choose(selection)
       \/ \E i \in DOMAIN browse.asked : EntriesArrive(i) \/ FetchFails(i)
    /\ UNCHANGED <<socketVars, chatVars>>

-----------------------------------------------------------------------------
ClientTypeOK ==
    /\ conn.state \in {"closed", "connecting", "open"} /\ conn.ws \in 0..Len(socket)
    /\ socket \in Seq({"connecting", "open", "closing", "closed"})
    /\ token \in {"none", "valid", "stale", "broken"}
    /\ user \in {"loading", "none", "known", "leaving"}
    /\ browse.flying \subseteq DOMAIN browse.asked

(* While the page calls connect() once: one socket lives at a time, the state
   says "open" only over a socket that opened and has not closed, the handlers
   return, no message that was queued is lost, and after disconnect() no socket
   connects or stays open.  A message is lost then only if it is sent through a
   socket that is closing before its close event. *)
OneConnection ==
    /\ Cardinality({k \in DOMAIN socket : Alive(k)}) <= 1
    /\ conn.state = "open" => socket[conn.ws] \in {"open", "closing"}
    /\ ~conn.stuck /\ ~conn.dropped
    /\ conn.state = "open" => conn.pending = <<>>
    /\ conn.disposed => \A k \in DOMAIN socket : socket[k] \in {"closing", "closed"}

(* However often the page calls it, also when the close event of an older
   socket comes over a newer one: until disconnect() a connection waits for an
   event of a socket or for a timer, unless its attempts are used up. *)
NeverIdle ==
    conn.calls > 0 /\ ~conn.disposed =>
        \/ conn.state = "connecting" /\ socket[Len(socket)] \in {"connecting", "closing"}
        \/ conn.state = "open" /\ \E k \in DOMAIN socket : socket[k] \in {"open", "closing"}
        \/ conn.state = "closed" /\ (conn.timers > 0 \/ conn.attempts = MaxAttempts)

(* A message is pending, on the wire or lost, never two of these, and messages
   leave in the order of send(). *)
SocketHolds ==
    /\ conn.calls <= 1 => OneConnection
    /\ NeverIdle
    /\ LET onWire == [i \in DOMAIN wire |-> wire[i][1]] IN
       /\ Range(onWire) \union Range(conn.pending) \union lost = 1..conn.sent
       /\ Range(onWire) \intersect lost = {}
       /\ \A i, j \in DOMAIN onWire : i < j => onWire[i] < onWire[j]
       /\ \A i \in DOMAIN conn.pending : conn.pending[i] \notin Range(onWire) \union lost
    /\ conn.attempts <= MaxAttempts

(* An answer is shown below the question it answers, and a message streams only
   while its request is out.  What is on the screen was asked in the selected
   conversation, until another one is selected over it: the messages, and an
   answer that comes late, then stay under the wrong conversation. *)
AnswersInPlace ==
    LET shown == Page.shown
        streaming == {i \in DOMAIN shown : shown[i].streaming}
    IN /\ \A i \in DOMAIN shown : shown[i].role = "assistant" =>
            i > 1 /\ shown[i - 1] = Message("user", shown[i].q, shown[i].chat, FALSE)
       /\ \A i, j \in DOMAIN shown : i < j => shown[i].q <= shown[j].q
       /\ \A i \in streaming : Page.busy.q = shown[i].q
       /\ ~Page.mixed => \A i \in DOMAIN shown : shown[i].chat = Page.active
       /\ Page.active \in Page.list \union {NoChat}
       /\ shown # <<>> => Page.active # NoChat

(* A 401 removes the token its request was sent with, or one of no later login:
   only between a login and the new document can the 401 of an old session
   remove the token of the new one. *)
SessionsApart ==
    \A r \in Out : r.session = chat.session <=> user # "leaving"

(* When no request is out, the page shows what is selected, unless the newest
   request failed or an older answer came after its own. *)
ShowsSelection ==
    LET newest == Len(browse.asked)
        overtaken == \E i \in DOMAIN browse.order :
                        browse.order[i] = newest /\ i < Len(browse.order)
    IN /\ browse.flying = {} => \/ browse.shown = browse.selected
                                \/ newest \in browse.failed
                                \/ overtaken
       /\ browse.flying = {} => ~browse.loading
=============================================================================
