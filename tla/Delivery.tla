------------------------------ MODULE Delivery ------------------------------
(* Notifications and files between the gateway and a browser: the event
   streams of SSEBroadcaster with the EventSource clients at their other end,
   and the uploads that are announced, sent to the store and confirmed.

   Covered: SSEBroadcaster, the stream and publish endpoints, SSEClient,
   the upload endpoints and their validation.
   Not covered: event payloads, malformed frames, keepalive comments. *)
EXTENDS Naturals, FiniteSets, Sequences, SequencesExt

CONSTANTS Clients,      \* browsers, each with one EventSource
          Tenants,      \* organisations
          MaxPublished, \* bound: events published to one organisation
          MaxLeaks,     \* bound: subscriptions left behind
          MaxUploads,   \* bound: uploads announced
          Hours, Minutes, \* the clock of one day
          MaxSize       \* MAX_FILE_SIZE; sizes 0..MaxSize + 1 are tried

ASSUME DeliveryAssumption ==
    /\ Hours \subseteq Nat /\ Minutes \subseteq Nat /\ (\E h \in Hours : Hours = 0..h)
    /\ MaxPublished \in Nat /\ MaxLeaks \in Nat

VARIABLES published,    \* tenant -> number of events published so far
          stream,       \* client -> [at, tenant, from, queue, sent, got]
          registered,   \* clients whose queue the broadcaster knows
          leaked,       \* tenant -> queues registered that nobody reads
          uploads,      \* id -> [tenant, status, created, expires, confirmed]
          now           \* <<hour, minute>>

streamVars == <<published, stream, registered, leaked>>
uploadVars == <<uploads, now>>
deliveryVars == <<streamVars, uploadVars>>

-----------------------------------------------------------------------------
(* The broadcaster.  An event is its number among those of its tenant; End is
   the sentinel of a shutdown. *)
End == 0
NoStream == [at |-> "closed", tenant |-> "-", from |-> 0, queue |-> <<>>,
             sent |-> <<>>, got |-> <<>>]
StreamsInit ==
    /\ published = [t \in Tenants |-> 0]
    /\ stream = [c \in Clients |-> NoStream]
    /\ registered = {}
    /\ leaked = [t \in Tenants |-> 0]

(* GET /stream subscribes before the response is iterated; EventSource makes
   the same call again after an error, without the id of its last event. *)
Subscribe(c, t) ==
    /\ stream[c].at = "closed"
    /\ stream[c].got # <<>> => t = stream[c].tenant
    /\ stream' = [stream EXCEPT ![c] =
                    [NoStream EXCEPT !.at = "subscribed", !.tenant = t,
                                     !.from = published[t], !.got = stream[c].got]]
    /\ registered' = registered \union {c}
    /\ UNCHANGED <<published, leaked>>

StartStream(c) ==
    /\ stream[c].at = "subscribed"
    /\ stream' = [stream EXCEPT ![c].at = "streaming"]
    /\ UNCHANGED <<published, registered, leaked>>

(* How it could go wrong: the event put into every registered queue. *)
PublishToAll(t) ==
    /\ published[t] < MaxPublished
    /\ published' = [published EXCEPT ![t] = @ + 1]
    /\ stream' = [c \in Clients |->
         IF c \in registered
         THEN [stream[c] EXCEPT !.queue = Append(@, published[t] + 1)]
         ELSE stream[c]]
    /\ UNCHANGED <<registered, leaked>>

(* publish: one event to every queue of the tenant; the queues have no limit. *)
Publish(t) ==
    /\ published[t] < MaxPublished
    /\ published' = [published EXCEPT ![t] = @ + 1]
    /\ stream' = [c \in Clients |->
         IF c \in registered /\ stream[c].tenant = t
         THEN [stream[c] EXCEPT !.queue = Append(@, published[t] + 1)]
         ELSE stream[c]]
    /\ UNCHANGED <<registered, leaked>>

(* The generator takes one event and yields it; the sentinel ends it, and
   ending it unsubscribes.  SSEClient hands what arrives to its handler. *)
Yield(c) ==
    /\ stream[c].at = "streaming"
    /\ stream[c].queue # <<>>
    /\ LET event == Head(stream[c].queue) IN
       IF event = End
       THEN /\ stream' = [stream EXCEPT ![c].at = "closed", ![c].queue = <<>>]
            /\ registered' = registered \ {c}
       ELSE /\ stream' = [stream EXCEPT ![c].queue = Tail(@),
                                        ![c].sent = Append(@, event),
                                        ![c].got = Append(@, event)]
            /\ UNCHANGED registered
    /\ UNCHANGED <<published, leaked>>

(* A client that goes away ends the generator.  One that goes away before the
   generator began leaves the subscription behind: its "finally" never runs. *)
Disconnect(c) ==
    /\ stream[c].at \in {"subscribed", "streaming"}
    /\ stream' = [stream EXCEPT ![c].at = "closed", ![c].queue = <<>>]
    /\ registered' = registered \ {c}
    /\ leaked' = IF stream[c].at = "subscribed" /\ c \in registered
                 THEN [leaked EXCEPT ![stream[c].tenant] = @ + 1] ELSE leaked
    /\ leaked'[stream[c].tenant] <= MaxLeaks
    /\ UNCHANGED published

Shutdown ==
    /\ stream' = [c \in Clients |-> IF c \in registered
                                    THEN [stream[c] EXCEPT !.queue = Append(@, End)]
                                    ELSE stream[c]]
    /\ registered' = {}
    /\ leaked' = [t \in Tenants |-> 0]
    /\ UNCHANGED published

StreamsNext ==
    /\ \/ \E c \in Clients :
            \/ \E t \in Tenants : Subscribe(c, t)
            \/ StartStream(c)
            \/ Yield(c)
            \/ Disconnect(c)
       \/ \E t \in Tenants : Publish(t)
       \/ Shutdown
    /\ UNCHANGED uploadVars

-----------------------------------------------------------------------------
(* Uploads.  The announced size and type are checked before anything is
   stored; the URL expires at the next full hour, which does not exist in the
   last hour of a day: datetime() raises and the request fails unrecorded. *)
UploadsInit == uploads = <<>> /\ now \in Hours \X Minutes

ValidSize(size) == size > 0 /\ size <= MaxSize
NextHour == <<now[1] + 1, 0>>

InitUpload(t, size) ==
    /\ Len(uploads) < MaxUploads
    /\ ValidSize(size)
    /\ NextHour[1] \in Hours
    /\ uploads' = Append(uploads, [tenant |-> t, status |-> "pending", size |-> size,
                                   created |-> now, expires |-> NextHour,
                                   confirmed |-> <<>>])
    /\ UNCHANGED now

(* complete_upload: an unknown upload and one of another tenant are both not
   found, a second confirmation is a conflict; neither the file, its checksum
   nor the expiry is looked at. *)
CompleteUpload(t, id) ==
    /\ uploads[id].tenant = t
    /\ uploads[id].status = "pending"
    /\ uploads' = [uploads EXCEPT ![id].status = "completed",
                                  ![id].confirmed = Append(@, t)]
    /\ UNCHANGED now

Minute ==
    /\ \E next \in Hours \X Minutes :
         /\ now' = next
         /\ \/ next[1] = now[1] /\ next[2] = now[2] + 1
            \/ next[1] = now[1] + 1 /\ now[2] + 1 \notin Minutes /\ next[2] = 0
    /\ UNCHANGED uploads

UploadsNext ==
    /\ \/ \E t \in Tenants :
            \/ \E size \in 0..(MaxSize + 1) : InitUpload(t, size)
            \/ \E id \in DOMAIN uploads : CompleteUpload(t, id)
       \/ Minute
    /\ UNCHANGED streamVars

-----------------------------------------------------------------------------
DeliveryTypeOK ==
    /\ published \in [Tenants -> 0..MaxPublished]
    /\ \A c \in Clients : stream[c].at \in {"closed", "subscribed", "streaming"}
    /\ registered \subseteq Clients
    /\ leaked \in [Tenants -> 0..MaxLeaks]
    /\ now \in Hours \X Minutes

(* What a stream was sent and still has queued is exactly what its own tenant
   published from the subscription on, in order and once each: all of it while
   the queue is registered, a beginning of it after a shutdown.  Over its
   reconnections a client may miss events and never sees one twice or late.
   A registered queue has a client that reads it, but for those left behind. *)
EventsIn(queue) == IF queue # <<>> /\ Last(queue) = End THEN Front(queue) ELSE queue
StreamsInOrder ==
    /\ \A c \in registered : stream[c].at # "closed"
    /\ \A c \in Clients : stream[c].at # "closed" =>
        LET s == stream[c]
            all == s.sent \o EventsIn(s.queue)
            due == [i \in 1..(published[s.tenant] - s.from) |-> s.from + i]
        IN /\ c \in registered => all = due /\ End \notin Range(s.queue)
           /\ IsPrefix(all, due)
           /\ \A i, j \in DOMAIN s.got : i < j => s.got[i] < s.got[j]

(* An upload is confirmed at most once, by the tenant that announced it, with
   a size the announcement allowed; its URL expires after it was made, and in
   the last hour of a day, where that time does not exist, none is made. *)
Before(a, b) == a[1] < b[1] \/ (a[1] = b[1] /\ a[2] < b[2])
UploadsConfirmedOnce ==
    \A id \in DOMAIN uploads :
         LET u == uploads[id] IN
         /\ u.confirmed = IF u.status = "completed" THEN <<u.tenant>> ELSE <<>>
         /\ Before(u.created, u.expires)
         /\ ValidSize(u.size)
         /\ u.created[1] # CHOOSE h \in Hours : \A k \in Hours : k <= h
=============================================================================
