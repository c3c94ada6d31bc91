---------------------------- MODULE KnowledgeSync ----------------------------
(***************************************************************************)
(* Knowledge entries live twice: as a Neo4j node and as a Qdrant vector    *)
(* point that carries the node's id.  FKRegistry (knowledge/sync) writes   *)
(* the graph first, tries the vector a few times, and otherwise marks the  *)
(* node pending_vector_sync; which point belongs to which node it keeps in *)
(* the memory of the process.  Requests come from the admin API            *)
(* (knowledge/api/write_adapter.py) and from ERP changesets                *)
(* (knowledge/importer/changeset.py).                                      *)
(*                                                                         *)
(* Serve is the store's side of a call; the After... actions are the code  *)
(* from the answer to the next call.  Other requests run in between both.  *)
(*                                                                         *)
(* A request creates at most one node and at most one point, which carry   *)
(* its name.  The content of a node is the set of requests whose           *)
(* properties were merged into it; the content of a point is the set its   *)
(* embedding was computed from.                                            *)
(***************************************************************************)
EXTENDS Naturals, FiniteSets

CONSTANTS Reqs,        \* the requests, numbered in the order in which they arrive;
                       \* also the names of the nodes and points they create
          None,        \* no node, no point
          Kinds,       \* the operations that requests may perform
          MaxTries,    \* _MAX_RETRIES: attempts at a vector upsert
          MaxFaults,   \* bound: calls to a store that fail
          MaxRestarts  \* bound: restarts of the process

AllKinds == {"create", "update", "delete",
             "import_create", "import_update", "import_delete"}

ASSUME ConstantsAssumption ==
    /\ Reqs \subseteq Nat /\ None \notin Reqs
    /\ Kinds \subseteq AllKinds
    /\ MaxTries \in Nat \ {0} /\ MaxFaults \in Nat /\ MaxRestarts \in Nat

VARIABLES
    graph,     \* graph[n]: node n in Neo4j
    points,    \* points[p]: point p in Qdrant
    mapping,   \* FKRegistry._mappings
    pc,        \* pc[r]: the call request r awaits, or how it ended
    reply,     \* reply[r]: the store's answer to that call
    kind,      \* kind[r]: the operation
    node,      \* node[r]: the node it works on
    val,       \* val[r]: content of the embedding r computed
    vid,       \* vid[r]: the point r writes or deletes
    old,       \* old[r]: the point of the mapping r read before its upsert
    tries,     \* tries[r]: failed upserts so far
    disturbed, \* ghost, disturbed[n]: what befell the requests on node n
    faults, restarts

stores == <<graph, points>>
request == <<kind, node>>
locals == <<val, vid, old, tries>>
bounds == <<faults, restarts>>
vars == <<stores, mapping, pc, reply, request, locals, disturbed, bounds>>

Calls == {"create", "upsert", "mark", "get_update", "set", "get_delete",
          "del_point", "del_node"}
Ended == {"ok", "failed"}
Active(r) == pc[r] \in Calls

NoNode == [state |-> "none", status |-> "synced", val |-> {}]
NoPoint == [node |-> None, val |-> {}]
NoMap == [status |-> "none", vid |-> None]

Live(n) == graph[n].state = "live"
PointsOf(n) == {p \in Reqs : points[p].node = n}
Deletes == {"delete", "import_delete"}

\* Two requests overlapped, a call failed (an upsert that had no effect
\* excepted), or the process restarted.
Disturbances == {"overlap", "failure", "restart"}
Disturb(S, what) ==
    disturbed' = [n \in Reqs |-> disturbed[n] \cup {what : m \in S \cap {n}}]

TypeOK ==
    /\ graph \in [Reqs -> [state: {"none", "live", "gone"},
                           status: {"synced", "pending"}, val: SUBSET Reqs]]
    /\ points \in [Reqs -> [node: Reqs \cup {None}, val: SUBSET Reqs]]
    /\ mapping \in [Reqs -> [status: {"none", "synced", "pending"},
                             vid: Reqs \cup {None}]]
    /\ pc \in [Reqs -> Calls \cup Ended \cup {"idle"}]
    /\ reply \in [Reqs -> {"none", "done", "missing"}]
    /\ kind \in [Reqs -> AllKinds]
    /\ node \in [Reqs -> Reqs]
    /\ val \in [Reqs -> SUBSET Reqs]
    /\ vid \in [Reqs -> Reqs \cup {None}]
    /\ old \in [Reqs -> Reqs \cup {None}]
    /\ tries \in [Reqs -> 0..MaxTries]
    /\ disturbed \in [Reqs -> SUBSET Disturbances]
    /\ faults \in 0..MaxFaults
    /\ restarts \in 0..MaxRestarts

Init ==
    /\ graph = [n \in Reqs |-> NoNode]
    /\ points = [p \in Reqs |-> NoPoint]
    /\ mapping = [n \in Reqs |-> NoMap]
    /\ pc = [r \in Reqs |-> "idle"]
    /\ reply = [r \in Reqs |-> "none"]
    /\ kind = [r \in Reqs |-> "create"]
    /\ node = [r \in Reqs |-> r]
    /\ val = [r \in Reqs |-> {}]
    /\ vid = [r \in Reqs |-> None]
    /\ old = [r \in Reqs |-> None]
    /\ tries = [r \in Reqs |-> 0]
    /\ disturbed = [n \in Reqs |-> {}]
    /\ faults = 0 /\ restarts = 0

-----------------------------------------------------------------------------
(* The stores                                                              *)

\* Each is one Cypher statement; MATCH on a missing node changes nothing.
GraphAfter(r) ==
    LET n == node[r] IN
    CASE pc[r] = "create" ->
            [graph EXCEPT ![n] = [state |-> "live", status |-> "synced", val |-> {r}]]
      [] pc[r] = "mark" /\ Live(n) -> [graph EXCEPT ![n].status = "pending"]
      [] pc[r] = "set" /\ Live(n) -> [graph EXCEPT ![n].val = @ \cup {r}]
      [] pc[r] = "del_node" /\ Live(n) -> [graph EXCEPT ![n].state = "gone"]
      [] OTHER -> graph

\* Upsert and delete by id; deleting a missing point is no error.
PointsAfter(r) ==
    CASE pc[r] = "upsert" ->
            [points EXCEPT ![vid[r]] = [node |-> node[r], val |-> val[r]]]
      [] pc[r] = "del_point" -> [points EXCEPT ![vid[r]] = NoPoint]
      [] OTHER -> points

AlwaysDone(r) == "done"
Answer(r) ==
    IF pc[r] \in {"get_update", "set", "get_delete", "del_node"} /\ ~Live(node[r])
    THEN "missing" ELSE "done"

\* update_entry embeds the properties it read merged with its own.
OwnOnly(r) == IF pc[r] = "get_update" THEN {r} ELSE val[r]
Merged(r) ==
    IF pc[r] = "get_update" THEN graph[node[r]].val \cup {r} ELSE val[r]

Serve(r) ==
    /\ Active(r) /\ reply[r] = "none"
    /\ graph' = GraphAfter(r)
    /\ points' = PointsAfter(r)
    /\ reply' = [reply EXCEPT ![r] = Answer(r)]
    /\ val' = [val EXCEPT ![r] = Merged(r)]
    /\ UNCHANGED <<mapping, pc, request, vid, old, tries, disturbed, bounds>>

-----------------------------------------------------------------------------
(* A request begins                                                        *)

Call(r, c) ==
    /\ pc' = [pc EXCEPT ![r] = c]
    /\ reply' = [reply EXCEPT ![r] = "none"]

NotAwaited(r, c) == pc[r] = c
Answered(r, c) == pc[r] = c /\ reply[r] = "done"

\* delete_with_fk looks the point up in the mapping it holds in memory; a
\* mapping without a point is dropped on the spot.
DeleteNodeOnly(r, n) ==
    /\ mapping' = [mapping EXCEPT ![n] = NoMap]
    /\ Call(r, "del_node")
    /\ UNCHANGED vid
StartDelete(r, n) ==
    IF mapping[n].vid = None
    THEN /\ mapping' = [mapping EXCEPT ![n] = NoMap]
         /\ Call(r, "del_node")
         /\ UNCHANGED vid
    ELSE /\ vid' = [vid EXCEPT ![r] = mapping[n].vid]
         /\ Call(r, "del_point")
         /\ UNCHANGED mapping

FirstCall(k) ==
    CASE k \in {"create", "import_create"} -> "create"
      [] k = "update" -> "get_update"
      [] k = "import_update" -> "set"
      [] OTHER -> "get_delete"

\* Creates name a fresh node; other requests name an entry of an earlier
\* create, an unfinished one included (list_entries shows its node).
Entries == {n \in Reqs : pc[n] # "idle" /\ kind[n] \in {"create", "import_create"}}

Begin(r, k, n) ==
    /\ pc[r] = "idle" /\ \A u \in Reqs : u < r => pc[u] # "idle"
    /\ k \in Kinds
    /\ IF FirstCall(k) = "create" THEN n = r ELSE n \in Entries
    /\ kind' = [kind EXCEPT ![r] = k]
    /\ node' = [node EXCEPT ![r] = n]
    /\ IF k = "import_delete"
       THEN StartDelete(r, n)
       ELSE Call(r, FirstCall(k)) /\ UNCHANGED <<mapping, vid>>
    /\ Disturb({m \in {n} : \E u \in Reqs : Active(u) /\ node[u] = m}, "overlap")
    /\ UNCHANGED <<stores, val, old, tries, bounds>>

-----------------------------------------------------------------------------
(* The code from the answer of a call to the next call                     *)

End(r, result) == Call(r, result)

Record(r, v, status) ==
    mapping' = [mapping EXCEPT ![node[r]] = [status |-> status, vid |-> v]]

\* A changeset hands write() no embedding, so there is no vector to write.
AfterCreate(r) ==
    /\ Answered(r, "create")
    /\ IF kind[r] = "create"
       THEN /\ vid' = [vid EXCEPT ![r] = r]
            /\ val' = [val EXCEPT ![r] = {r}]
            /\ Call(r, "upsert")
            /\ UNCHANGED mapping
       ELSE /\ Record(r, None, "synced")
            /\ End(r, "ok")
            /\ UNCHANGED <<vid, val>>
    /\ UNCHANGED <<stores, request, old, tries, disturbed, bounds>>

AfterUpsert(r) ==
    /\ Answered(r, "upsert")
    /\ Record(r, vid[r], "synced")
    /\ End(r, "ok")
    /\ UNCHANGED <<stores, request, locals, disturbed, bounds>>

Fault == faults < MaxFaults /\ faults' = faults + 1 /\ UNCHANGED restarts

\* The loop tries the same point again, and gives up after MaxTries.
OneTryMore(r) == tries[r] >= MaxTries
LastTry(r) == tries[r] + 1 >= MaxTries
GiveUpSilently(r) == Record(r, None, "synced") /\ End(r, "ok")
GiveUp(r) == Call(r, "mark") /\ UNCHANGED mapping

UpsertRaises(r) ==
    /\ pc[r] = "upsert"
    /\ Fault
    /\ tries' = [tries EXCEPT ![r] = @ + 1]
    /\ IF LastTry(r) THEN GiveUp(r) ELSE Call(r, "upsert") /\ UNCHANGED mapping
    /\ Disturb({n \in {node[r]} : reply[r] = "done"}, "failure")
    /\ UNCHANGED <<stores, request, val, vid, old>>

AfterMark(r) ==
    /\ Answered(r, "mark")
    /\ Record(r, old[r], "pending")
    /\ End(r, "ok")
    /\ UNCHANGED <<stores, request, locals, disturbed, bounds>>

AfterGetForUpdate(r) ==
    /\ Answered(r, "get_update")
    /\ Call(r, "set")
    /\ UNCHANGED <<stores, mapping, request, locals, disturbed, bounds>>

\* A changeset updates the graph alone.
AfterSet(r) ==
    /\ Answered(r, "set")
    /\ IF kind[r] = "update"
       THEN LET v == mapping[node[r]].vid IN
            /\ old' = [old EXCEPT ![r] = v]
            /\ vid' = [vid EXCEPT ![r] = IF v = None THEN r ELSE v]
            /\ Call(r, "upsert")
       ELSE End(r, "ok") /\ UNCHANGED <<old, vid>>
    /\ UNCHANGED <<stores, mapping, request, val, tries, disturbed, bounds>>

AfterGetForDelete(r) ==
    /\ Answered(r, "get_delete")
    /\ StartDelete(r, node[r])
    /\ UNCHANGED <<stores, request, val, old, tries, disturbed, bounds>>

\* del raises KeyError when another request dropped the mapping meanwhile.
AfterDeletePoint(r) ==
    /\ Answered(r, "del_point")
    /\ IF mapping[node[r]].status = "none" THEN End(r, "failed") ELSE Call(r, "del_node")
    /\ mapping' = [mapping EXCEPT ![node[r]] = NoMap]
    /\ UNCHANGED <<stores, request, locals, disturbed, bounds>>

AfterDeleteNode(r) ==
    /\ Answered(r, "del_node")
    /\ End(r, "ok")
    /\ UNCHANGED <<stores, mapping, request, locals, disturbed, bounds>>

\* The node is not there, or the entry read belongs to another organisation.
AskAgain(r) == Call(r, pc[r])
Refuse(r) == End(r, "failed")
NotFound(r) ==
    /\ Active(r)
    /\ reply[r] = "missing" \/ (pc[r] \in {"get_update", "get_delete"} /\ reply[r] = "done")
    /\ Refuse(r)
    /\ UNCHANGED <<stores, mapping, request, locals, disturbed, bounds>>

\* Any other call fails, before or after it took effect.
CallRaises(r) ==
    /\ Active(r) /\ pc[r] # "upsert"
    /\ Fault
    /\ End(r, "failed")
    /\ Disturb({node[r]}, "failure")
    /\ UNCHANGED <<stores, mapping, request, locals>>

Restart ==
    /\ restarts < MaxRestarts
    /\ restarts' = restarts + 1
    /\ pc' = [r \in Reqs |-> IF Active(r) THEN "failed" ELSE pc[r]]
    /\ reply' = [r \in Reqs |-> "none"]
    /\ mapping' = [n \in Reqs |-> NoMap]
    /\ Disturb({n \in Reqs : Live(n) \/ \E r \in Reqs : Active(r) /\ node[r] = n}, "restart")
    /\ UNCHANGED <<stores, request, locals, faults>>

-----------------------------------------------------------------------------

Continue(r) ==
    \/ AfterCreate(r) \/ AfterUpsert(r) \/ AfterMark(r) \/ AfterGetForUpdate(r)
    \/ AfterSet(r) \/ AfterGetForDelete(r) \/ AfterDeletePoint(r)
    \/ AfterDeleteNode(r) \/ NotFound(r)

Next ==
    \/ \E r \in Reqs : \/ \E k \in Kinds, n \in Reqs : Begin(r, k, n)
                       \/ Serve(r) \/ Continue(r)
                       \/ UpsertRaises(r) \/ CallRaises(r)
    \/ Restart

Spec == Init /\ [][Next]_vars

\* A store answers every call, and the event loop resumes the caller.
Fairness == \A r \in Reqs : WF_vars(Serve(r) \/ Continue(r))
FairSpec == Spec /\ Fairness

-----------------------------------------------------------------------------
(* Properties                                                              *)

\* Graph first: a vector point always carries the id of a node that was
\* created before it, whatever fails or restarts in between
\* (fk_registry.py, write_with_fk and update_with_fk).
GraphFirst == \A p \in Reqs : LET n == points[p].node IN
                  n # None => graph[n].state # "none"

\* An entry whose creation was answered with success can be found by vector
\* search or is marked for a later sync, however updates, failures and
\* restarts follow, as long as nobody deletes it.
CreatedIsSearchable ==
    \A n \in Reqs :
        (/\ pc[n] = "ok" /\ kind[n] = "create" /\ Live(n)
         /\ \A u \in Reqs : node[u] = n => kind[u] \notin Deletes)
        => PointsOf(n) # {} \/ graph[n].status = "pending"

\* get_pending_sync lists no existing node that the graph does not also show as
\* pending: a job that repairs from either side finds it.
PendingIsMarked ==
    \A n \in Reqs :
        mapping[n].status = "pending" /\ Live(n) => graph[n].status = "pending"

Settled(n) == disturbed[n] = {} /\ \A r \in Reqs : node[r] = n => ~Active(r)

\* Requests that do not overlap keep the registry exact: a node has the one
\* point its mapping names or none, and a deleted node has none.
PointsTracked ==
    \A n \in Reqs :
        Settled(n) => PointsOf(n) = {p \in Reqs : Live(n) /\ mapping[n].vid = p}

\* Requests that do not overlap leave a vector computed from all the
\* properties its node has, unless the node is marked pending.  Entries
\* that a changeset created or updated are exempt: its writes skip Qdrant.
FreshOrPending ==
    \A n \in Reqs :
        (/\ Settled(n) /\ Live(n)
         /\ \A r \in Reqs : node[r] = n => kind[r] \notin {"import_create", "import_update"})
        => \/ graph[n].status = "pending"
           \/ \E p \in Reqs : points[p] = [node |-> n, val |-> graph[n].val]

\* At most one of the requests that delete a node reports success.
DeletedOnce ==
    \A r, u \in Reqs :
        (/\ node[r] = node[u] /\ kind[r] \in Deletes /\ kind[u] \in Deletes
         /\ pc[r] = "ok" /\ pc[u] = "ok") => r = u

\* Every request ends: no retry or failure of a store leaves it hanging.
RequestsEnd == \A r \in Reqs : Active(r) ~> ~Active(r)

-----------------------------------------------------------------------------
(* What the documents promise, and overlapping requests or a restart break *)

\* 02-Knowledge section 7.3: a version beside the vector guards against
\* concurrent writes.  Once no request works on a node that is marked
\* synced, its vector is computed from all its properties.
SyncedMeansFresh ==
    \A n \in Reqs :
        (/\ Live(n) /\ graph[n].status = "synced"
         /\ \A r \in Reqs : node[r] = n => pc[r] \in {"ok", "idle"})
        => \E p \in Reqs : points[p] = [node |-> n, val |-> graph[n].val]

\* 02-Knowledge section 7.3: a delete removes every vector of the node.
\* Claimed for requests that follow one another and all succeed.
DeleteCascades ==
    \A r \in Reqs :
        (/\ pc[r] = "ok" /\ kind[r] \in Deletes
         /\ disturbed[node[r]] \subseteq {"restart"}
         /\ \A u \in Reqs : node[u] = node[r] => pc[u] \in {"ok", "idle"})
        => PointsOf(node[r]) = {}

=============================================================================
