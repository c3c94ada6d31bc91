------------------------- MODULE KnowledgeSync_proofs -------------------------
(***************************************************************************)
(* Proofs about KnowledgeSync, for any number of requests, retries,        *)
(* failures and restarts: the type invariant, GraphFirst, PendingIsMarked, *)
(* CreatedIsSearchable and DeletedOnce (Inv); PointsTracked and            *)
(* FreshOrPending (Quiet, on top of Inv).                                  *)
(***************************************************************************)
EXTENDS KnowledgeSync, TLAPS

Creates == {"create", "import_create"}
Updates == {"update", "import_update"}

\* Which calls an operation makes.
CallsOf ==
    \A r \in Reqs :
        /\ pc[r] = "idle" => kind[r] = "create" /\ node[r] = r
        /\ pc[r] = "create" => kind[r] \in Creates
        /\ pc[r] \in {"upsert", "mark"} => kind[r] \in {"create", "update"}
        /\ pc[r] \in {"get_update", "set"} => kind[r] \in Updates
        /\ pc[r] \in {"get_delete", "del_point", "del_node"} => kind[r] \in Deletes
        /\ kind[r] \in Creates => node[r] = r

\* The retry loop.
TriesBound ==
    \A r \in Reqs :
        /\ pc[r] \in {"idle", "create", "get_update", "set"} => tries[r] = 0
        /\ pc[r] = "upsert" => tries[r] < MaxTries

\* A point belongs to the node of the request it is named after.
Owns(p, n) == p \in Reqs /\ pc[p] # "idle" /\ node[p] = n

Ownership ==
    /\ \A p \in Reqs : points[p].node # None => Owns(p, points[p].node)
    /\ \A n \in Reqs : mapping[n].vid # None => Owns(mapping[n].vid, n)
    /\ \A r \in Reqs : pc[r] \in {"upsert", "del_point"} => Owns(vid[r], node[r])
    /\ \A r \in Reqs : old[r] # None => pc[r] # "idle" /\ Owns(old[r], node[r])

\* Who knows that a node exists.
Existence ==
    \A r \in Reqs :
        /\ graph[r].state # "none" =>
              pc[r] # "idle" /\ ~(pc[r] = "create" /\ reply[r] = "none")
        /\ \/ pc[r] \in {"upsert", "mark"}
           \/ pc[r] \in {"create", "set"} /\ reply[r] = "done"
           => graph[node[r]].state # "none"

\* A live node that a request or the registry takes for marked is marked.
Marked(n) == graph[n].state # "none" /\ (Live(n) => graph[n].status = "pending")
Marking ==
    /\ \A r \in Reqs : Answered(r, "mark") => Marked(node[r])
    /\ \A n \in Reqs : mapping[n].status = "pending" => Marked(n)

\* A node nobody deletes keeps its points.
Undeleted(n) == \A u \in Reqs : node[u] = n => kind[u] \notin Deletes
Search ==
    /\ \A r \in Reqs :
          Answered(r, "upsert") /\ Undeleted(node[r]) => PointsOf(node[r]) # {}
    /\ CreatedIsSearchable

\* A request that found the node to delete is the only one.
Winner(r) == kind[r] \in Deletes /\ (pc[r] = "ok" \/ Answered(r, "del_node"))
Winners ==
    /\ \A r \in Reqs : Winner(r) => graph[node[r]].state = "gone"
    /\ \A r, u \in Reqs : Winner(r) /\ Winner(u) /\ node[r] = node[u] => r = u

Inv == /\ TypeOK /\ CallsOf /\ TriesBound /\ Ownership /\ GraphFirst
       /\ Existence /\ Marking /\ Search /\ Winners

-----------------------------------------------------------------------------
(* Types                                                                   *)

NodeType == [state: {"none", "live", "gone"}, status: {"synced", "pending"},
             val: SUBSET Reqs]
PointType == [node: Reqs \cup {None}, val: SUBSET Reqs]

\* The start of every request is well typed.
LEMMA TypeInit == Init => TypeOK
BY ConstantsAssumption
   DEF Init, TypeOK, NoNode, NoPoint, NoMap, Calls, Ended, AllKinds, Disturbances

\* A call leaves the two stores well typed (neo4j_adapter.py and
\* qdrant_adapter.py write whole values of the right shape).
LEMMA StoreType ==
    ASSUME TypeOK, NEW r \in Reqs
    PROVE  /\ GraphAfter(r) \in [Reqs -> NodeType]
           /\ PointsAfter(r) \in [Reqs -> PointType]
<1> DEFINE n == node[r]
<1>0. n \in Reqs /\ graph \in [Reqs -> NodeType] /\ points \in [Reqs -> PointType]
  BY DEF TypeOK, NodeType, PointType
<1>1. [graph EXCEPT ![n] = [state |-> "live", status |-> "synced", val |-> {r}]]
        \in [Reqs -> NodeType]
  BY <1>0 DEF NodeType
<1>2. [graph EXCEPT ![n].status = "pending"] \in [Reqs -> NodeType]
  BY <1>0 DEF NodeType
<1>3. [graph EXCEPT ![n].val = @ \cup {r}] \in [Reqs -> NodeType]
  BY <1>0 DEF NodeType
<1>4. [graph EXCEPT ![n].state = "gone"] \in [Reqs -> NodeType]
  BY <1>0 DEF NodeType
<1>5. GraphAfter(r) \in [Reqs -> NodeType]
  BY <1>0, <1>1, <1>2, <1>3, <1>4 DEF GraphAfter
<1>6. PointsAfter(r) \in [Reqs -> PointType]
  BY <1>0 DEF PointsAfter, NoPoint, PointType, TypeOK
<1> QED BY <1>5, <1>6

\* Every step of a request keeps the types, and never tries an upsert more
\* than MaxTries times (the while loops of write_with_fk and update_with_fk).
LEMMA TypeStep ==
    TypeOK /\ TriesBound /\ [Next]_vars => TypeOK'
<1> SUFFICES ASSUME TypeOK, TriesBound, [Next]_vars PROVE TypeOK'
  OBVIOUS
<1> USE ConstantsAssumption DEF stores, request, locals, bounds, Calls, Ended
<1>d. ASSUME NEW S, NEW what \in Disturbances, Disturb(S, what)
      PROVE  disturbed' \in [Reqs -> SUBSET Disturbances]
  BY <1>d DEF Disturb, TypeOK
<1>e. \A w \in {"overlap", "failure", "restart"} : w \in Disturbances
  BY DEF Disturbances
<1>c. ASSUME NEW r \in Reqs, NEW c \in Calls \cup Ended, Call(r, c)
      PROVE  /\ pc' \in [Reqs -> Calls \cup Ended \cup {"idle"}]
             /\ reply' \in [Reqs -> {"none", "done", "missing"}]
  BY <1>c DEF Call, TypeOK
<1>r. ASSUME NEW r \in Reqs, NEW v \in Reqs \cup {None},
             NEW st \in {"synced", "pending"}, Record(r, v, st)
      PROVE  mapping' \in [Reqs -> [status: {"none", "synced", "pending"},
                                    vid: Reqs \cup {None}]]
  BY <1>r DEF Record, TypeOK
<1>n. ASSUME NEW n \in Reqs
      PROVE  [mapping EXCEPT ![n] = NoMap]
                \in [Reqs -> [status: {"none", "synced", "pending"}, vid: Reqs \cup {None}]]
  BY DEF NoMap, TypeOK
<1>s. ASSUME NEW r \in Reqs, NEW n \in Reqs, StartDelete(r, n)
      PROVE  /\ pc' \in [Reqs -> Calls \cup Ended \cup {"idle"}]
             /\ reply' \in [Reqs -> {"none", "done", "missing"}]
             /\ mapping' \in [Reqs -> [status: {"none", "synced", "pending"},
                                       vid: Reqs \cup {None}]]
             /\ vid' \in [Reqs -> Reqs \cup {None}]
  <2>1. CASE mapping[n].vid = None
    BY <1>s, <1>n, <1>c, <2>1 DEF StartDelete, TypeOK
  <2>2. CASE mapping[n].vid # None
    BY <1>s, <1>c, <2>2 DEF StartDelete, TypeOK
  <2> QED BY <2>1, <2>2
<1>1. ASSUME NEW r \in Reqs, NEW k \in Kinds, NEW n \in Reqs, Begin(r, k, n)
      PROVE  TypeOK'
  <2>1. disturbed' \in [Reqs -> SUBSET Disturbances]
    BY <1>1, <1>d, <1>e DEF Begin
  <2>2. kind' \in [Reqs -> AllKinds] /\ node' \in [Reqs -> Reqs]
    BY <1>1 DEF Begin, TypeOK
  <2>3. CASE k = "import_delete"
    BY <1>1, <1>s, <2>1, <2>2, <2>3 DEF Begin, TypeOK
  <2>4. CASE k # "import_delete"
    BY <1>1, <1>c, <2>1, <2>2, <2>4 DEF Begin, FirstCall, TypeOK
  <2> QED BY <2>3, <2>4
<1>2. ASSUME NEW r \in Reqs, Serve(r) PROVE TypeOK'
  <2>1. Answer(r) \in {"done", "missing"}
    BY DEF Answer
  <2>2. Merged(r) \in SUBSET Reqs
    BY DEF Merged, TypeOK
  <2>3. graph' \in [Reqs -> NodeType] /\ points' \in [Reqs -> PointType]
    BY <1>2, StoreType DEF Serve
  <2>4. reply' \in [Reqs -> {"none", "done", "missing"}] /\ val' \in [Reqs -> SUBSET Reqs]
    BY <1>2, <2>1, <2>2 DEF Serve, TypeOK
  <2> QED BY <1>2, <2>3, <2>4 DEF Serve, TypeOK, NodeType, PointType
<1>3. ASSUME NEW r \in Reqs, AfterCreate(r) PROVE TypeOK'
  <2>1. CASE kind[r] = "create"
    <3>1. vid' \in [Reqs -> Reqs \cup {None}] /\ val' \in [Reqs -> SUBSET Reqs]
      <4>1. vid \in [Reqs -> Reqs \cup {None}] /\ val \in [Reqs -> SUBSET Reqs]
        BY DEF TypeOK
      <4>2. vid' = [vid EXCEPT ![r] = r] /\ val' = [val EXCEPT ![r] = {r}]
        BY <1>3, <2>1 DEF AfterCreate
      <4> QED BY <4>1, <4>2
    <3>2. /\ pc' \in [Reqs -> Calls \cup Ended \cup {"idle"}]
          /\ reply' \in [Reqs -> {"none", "done", "missing"}]
      BY <1>3, <1>c, <2>1 DEF AfterCreate
    <3>3. UNCHANGED <<graph, points, mapping, kind, node, old, tries, disturbed,
                      faults, restarts>>
      BY <1>3, <2>1 DEF AfterCreate
    <3> QED BY <3>1, <3>2, <3>3 DEF TypeOK
  <2>2. CASE kind[r] # "create"
    BY <1>3, <1>c, <1>r, <2>2 DEF AfterCreate, End, TypeOK
  <2> QED BY <2>1, <2>2
<1>4. ASSUME NEW r \in Reqs, AfterUpsert(r) PROVE TypeOK'
  BY <1>4, <1>c, <1>r DEF AfterUpsert, End, TypeOK
<1>5. ASSUME NEW r \in Reqs, UpsertRaises(r) PROVE TypeOK'
  <2>1. tries' \in [Reqs -> 0..MaxTries]
    BY <1>5 DEF UpsertRaises, TriesBound, TypeOK
  <2>2. faults' \in 0..MaxFaults /\ restarts' = restarts
    BY <1>5 DEF UpsertRaises, Fault, TypeOK
  <2>3. /\ pc' \in [Reqs -> Calls \cup Ended \cup {"idle"}]
        /\ reply' \in [Reqs -> {"none", "done", "missing"}]
        /\ mapping' = mapping
    BY <1>5, <1>c DEF UpsertRaises, GiveUp
  <2> QED BY <1>5, <1>d, <1>e, <2>1, <2>2, <2>3 DEF UpsertRaises, TypeOK
<1>6. ASSUME NEW r \in Reqs, AfterMark(r) PROVE TypeOK'
  <2>1. old[r] \in Reqs \cup {None}
    BY DEF TypeOK
  <2>2. /\ pc' \in [Reqs -> Calls \cup Ended \cup {"idle"}]
        /\ reply' \in [Reqs -> {"none", "done", "missing"}]
    BY <1>6, <1>c DEF AfterMark, End
  <2>3. mapping' \in [Reqs -> [status: {"none", "synced", "pending"}, vid: Reqs \cup {None}]]
    BY <1>6, <1>r, <2>1 DEF AfterMark
  <2> QED BY <1>6, <2>2, <2>3 DEF AfterMark, TypeOK
<1>7. ASSUME NEW r \in Reqs, AfterGetForUpdate(r) PROVE TypeOK'
  BY <1>7, <1>c DEF AfterGetForUpdate, TypeOK
<1>8. ASSUME NEW r \in Reqs, AfterSet(r) PROVE TypeOK'
  <2>1. mapping[node[r]].vid \in Reqs \cup {None}
    BY DEF TypeOK
  <2>2. CASE kind[r] = "update"
    <3>1. old' \in [Reqs -> Reqs \cup {None}] /\ vid' \in [Reqs -> Reqs \cup {None}]
      <4>1. old \in [Reqs -> Reqs \cup {None}] /\ vid \in [Reqs -> Reqs \cup {None}]
        BY DEF TypeOK
      <4>2. PICK w \in Reqs \cup {None} : vid' = [vid EXCEPT ![r] = w]
        BY <1>8, <2>1, <2>2 DEF AfterSet
      <4>3. old' = [old EXCEPT ![r] = mapping[node[r]].vid]
        BY <1>8, <2>2 DEF AfterSet
      <4> QED BY <2>1, <4>1, <4>2, <4>3
    <3>2. /\ pc' \in [Reqs -> Calls \cup Ended \cup {"idle"}]
          /\ reply' \in [Reqs -> {"none", "done", "missing"}]
      BY <1>8, <1>c, <2>2 DEF AfterSet
    <3>3. UNCHANGED <<graph, points, mapping, kind, node, val, tries, disturbed,
                      faults, restarts>>
      BY <1>8, <2>2 DEF AfterSet
    <3> QED BY <3>1, <3>2, <3>3 DEF TypeOK
  <2>3. CASE kind[r] # "update"
    BY <1>8, <1>c, <2>3 DEF AfterSet, End, TypeOK
  <2> QED BY <2>2, <2>3
<1>9. ASSUME NEW r \in Reqs, AfterGetForDelete(r) PROVE TypeOK'
  <2>1. node[r] \in Reqs
    BY DEF TypeOK
  <2> QED BY <1>9, <1>s, <2>1 DEF AfterGetForDelete, TypeOK
<1>10. ASSUME NEW r \in Reqs, AfterDeletePoint(r) PROVE TypeOK'
  <2>1. node[r] \in Reqs
    BY DEF TypeOK
  <2> QED BY <1>10, <1>c, <1>n, <2>1 DEF AfterDeletePoint, End, TypeOK
<1>11. ASSUME NEW r \in Reqs, AfterDeleteNode(r) PROVE TypeOK'
  BY <1>11, <1>c DEF AfterDeleteNode, End, TypeOK
<1>12. ASSUME NEW r \in Reqs, NotFound(r) PROVE TypeOK'
  BY <1>12, <1>c DEF NotFound, Refuse, End, TypeOK
<1>13. ASSUME NEW r \in Reqs, CallRaises(r) PROVE TypeOK'
  BY <1>13, <1>c, <1>d, <1>e DEF CallRaises, Fault, End, TypeOK
<1>14. ASSUME Restart PROVE TypeOK'
  <2>1. disturbed' \in [Reqs -> SUBSET Disturbances]
    BY <1>14, <1>d, <1>e DEF Restart
  <2> QED BY <1>14, <2>1 DEF Restart, NoMap, TypeOK
<1>15. CASE UNCHANGED vars
  BY <1>15 DEF vars, TypeOK
<1> QED BY <1>1, <1>2, <1>3, <1>4, <1>5, <1>6, <1>7, <1>8, <1>9, <1>10, <1>11,
           <1>12, <1>13, <1>14, <1>15 DEF Next, Continue

-----------------------------------------------------------------------------
(* Which calls an operation makes, and how often it tries                  *)

LEMMA CallsInit == Init => CallsOf /\ TriesBound
BY ConstantsAssumption DEF Init, CallsOf, TriesBound, Deletes, Creates

\* The calls of a request are those its operation makes, and its upserts
\* stay below the limit.
LEMMA CallsStep ==
    TypeOK /\ CallsOf /\ TriesBound /\ [Next]_vars => CallsOf' /\ TriesBound'
<1> SUFFICES ASSUME TypeOK, CallsOf, TriesBound, [Next]_vars
             PROVE  CallsOf' /\ TriesBound'
  OBVIOUS
<1> USE ConstantsAssumption DEF stores, request, locals, bounds
<1> DEFINE Fits(r, c) ==
      /\ c \in Calls \cup Ended /\ c # "create"
      /\ c \in {"upsert", "mark"} => kind[r] \in {"create", "update"}
      /\ c \in {"get_update", "set"} => kind[r] \in Updates /\ tries[r] = 0
      /\ c \in {"get_delete", "del_point", "del_node"} => kind[r] \in Deletes
      /\ c = "upsert" => tries[r] < MaxTries
<1>m. ASSUME NEW r \in Reqs, NEW c, Call(r, c), Fits(r, c), UNCHANGED <<kind, node, tries>>
      PROVE  CallsOf' /\ TriesBound'
  BY <1>m DEF Call, CallsOf, TriesBound, TypeOK, Calls, Ended
<1>k. \A r \in Reqs :
         /\ pc[r] = "create" => kind[r] \in Creates /\ tries[r] = 0
         /\ pc[r] = "upsert" => kind[r] \in {"create", "update"} /\ tries[r] < MaxTries
         /\ pc[r] \in {"get_update", "set"} => kind[r] \in Updates /\ tries[r] = 0
         /\ pc[r] \in {"get_delete", "del_point", "del_node"} => kind[r] \in Deletes
  BY DEF CallsOf, TriesBound
<1> HIDE DEF Fits
<1>e. ASSUME NEW r \in Reqs, NEW res \in Ended, Call(r, res), UNCHANGED <<kind, node, tries>>
      PROVE  CallsOf' /\ TriesBound'
  <2>1. Fits(r, res)
    BY <1>e DEF Fits, Ended
  <2> QED BY <1>e, <1>m, <2>1
<1>1. ASSUME NEW r \in Reqs, NEW k \in Kinds, NEW n \in Reqs, Begin(r, k, n)
      PROVE  CallsOf' /\ TriesBound'
  <2>1. /\ pc[r] = "idle" /\ k \in AllKinds /\ tries[r] = 0 /\ tries' = tries
        /\ kind' = [kind EXCEPT ![r] = k] /\ node' = [node EXCEPT ![r] = n]
        /\ n = r <=> k \in Creates
    <3>1. /\ pc[r] = "idle" /\ k \in AllKinds
          /\ FirstCall(k) = "create" <=> k \in Creates
      BY <1>1 DEF Begin, FirstCall, AllKinds, Creates
    <3>2. IF k \in Creates THEN n = r ELSE n # r
      BY <1>1, <3>1 DEF Begin, Entries
    <3> QED BY <1>1, <3>1, <3>2 DEF Begin, TriesBound
  <2>2. PICK c : /\ pc' = [pc EXCEPT ![r] = c]
                 /\ \/ c = "create" /\ k \in Creates
                    \/ c \in {"get_update", "set"} /\ k \in Updates
                    \/ c \in {"get_delete", "del_point", "del_node"} /\ k \in Deletes
    BY <1>1, <2>1 DEF Begin, FirstCall, StartDelete, Call, AllKinds, Creates, Updates, Deletes
  <2>3. CallsOf'
    BY <2>1, <2>2 DEF CallsOf, TypeOK, Creates
  <2>4. TriesBound'
    BY <2>1, <2>2 DEF TriesBound, TypeOK
  <2> QED BY <2>3, <2>4
<1>2. ASSUME NEW r \in Reqs, Serve(r) PROVE CallsOf' /\ TriesBound'
  BY <1>2 DEF Serve, CallsOf, TriesBound
<1>3. ASSUME NEW r \in Reqs, AfterCreate(r) PROVE CallsOf' /\ TriesBound'
  <2>1. CASE kind[r] = "create"
    <3>1. Fits(r, "upsert") /\ Call(r, "upsert") /\ UNCHANGED <<kind, node, tries>>
      BY <1>3, <1>k, <2>1 DEF AfterCreate, Answered, Fits, Calls
    <3> QED BY <3>1, <1>m
  <2>2. CASE kind[r] # "create"
    BY <1>3, <2>2, <1>e DEF AfterCreate, End, Ended
  <2> QED BY <2>1, <2>2
<1>4. ASSUME NEW r \in Reqs, AfterUpsert(r) PROVE CallsOf' /\ TriesBound'
  BY <1>4, <1>e DEF AfterUpsert, End, Ended
<1>5. ASSUME NEW r \in Reqs, UpsertRaises(r) PROVE CallsOf' /\ TriesBound'
  <2>1. /\ pc[r] = "upsert" /\ kind[r] \in {"create", "update"} /\ tries[r] \in 0..MaxTries
        /\ tries' = [tries EXCEPT ![r] = @ + 1] /\ UNCHANGED <<kind, node>>
    BY <1>5, <1>k DEF UpsertRaises, TypeOK
  <2>2. CASE LastTry(r)
    <3>1. pc' = [pc EXCEPT ![r] = "mark"]
      BY <1>5, <2>2 DEF UpsertRaises, GiveUp, Call
    <3> QED BY <2>1, <3>1 DEF CallsOf, TriesBound, TypeOK
  <2>3. CASE ~LastTry(r)
    <3>1. pc' = [pc EXCEPT ![r] = "upsert"]
      BY <1>5, <2>3 DEF UpsertRaises, Call
    <3>2. tries[r] + 1 < MaxTries
      BY <2>1, <2>3 DEF LastTry
    <3> QED BY <2>1, <3>1, <3>2 DEF CallsOf, TriesBound, TypeOK
  <2> QED BY <2>2, <2>3
<1>6. ASSUME NEW r \in Reqs, AfterMark(r) PROVE CallsOf' /\ TriesBound'
  BY <1>6, <1>e DEF AfterMark, End, Ended
<1>7. ASSUME NEW r \in Reqs, AfterGetForUpdate(r) PROVE CallsOf' /\ TriesBound'
  <2>1. Fits(r, "set") /\ Call(r, "set") /\ UNCHANGED <<kind, node, tries>>
    BY <1>7, <1>k DEF AfterGetForUpdate, Answered, Fits, Calls
  <2> QED BY <2>1, <1>m
<1>8. ASSUME NEW r \in Reqs, AfterSet(r) PROVE CallsOf' /\ TriesBound'
  <2>1. CASE kind[r] = "update"
    <3>1. Call(r, "upsert") /\ UNCHANGED <<kind, node, tries>>
      BY <1>8, <2>1 DEF AfterSet
    <3>2. tries[r] = 0
      BY <1>8, <1>k DEF AfterSet, Answered
    <3>3. Fits(r, "upsert")
      BY <2>1, <3>2 DEF Fits, Calls
    <3> QED BY <3>1, <3>3, <1>m
  <2>2. CASE kind[r] # "update"
    BY <1>8, <2>2, <1>e DEF AfterSet, End, Ended
  <2> QED BY <2>1, <2>2
<1>9. ASSUME NEW r \in Reqs, AfterGetForDelete(r) PROVE CallsOf' /\ TriesBound'
  <2>1. PICK c \in {"del_point", "del_node"} : Call(r, c)
    BY <1>9 DEF AfterGetForDelete, StartDelete
  <2>2. Fits(r, c) /\ UNCHANGED <<kind, node, tries>>
    BY <1>9, <1>k DEF AfterGetForDelete, Answered, Fits, Calls
  <2> QED BY <2>1, <2>2, <1>m
<1>10. ASSUME NEW r \in Reqs, AfterDeletePoint(r) PROVE CallsOf' /\ TriesBound'
  <2>1. PICK c \in {"failed", "del_node"} : Call(r, c)
    BY <1>10 DEF AfterDeletePoint, End
  <2>2. Fits(r, c) /\ UNCHANGED <<kind, node, tries>>
    BY <1>10, <1>k DEF AfterDeletePoint, Answered, Fits, Calls, Ended
  <2> QED BY <2>1, <2>2, <1>m
<1>11. ASSUME NEW r \in Reqs, AfterDeleteNode(r) PROVE CallsOf' /\ TriesBound'
  BY <1>11, <1>e DEF AfterDeleteNode, End, Ended
<1>12. ASSUME NEW r \in Reqs, NotFound(r) PROVE CallsOf' /\ TriesBound'
  BY <1>12, <1>e DEF NotFound, Refuse, End, Ended
<1>13. ASSUME NEW r \in Reqs, CallRaises(r) PROVE CallsOf' /\ TriesBound'
  BY <1>13, <1>e DEF CallRaises, End, Ended
<1>14. ASSUME Restart PROVE CallsOf' /\ TriesBound'
  <2>1. \A r \in Reqs : pc'[r] = pc[r] \/ pc'[r] = "failed"
    BY <1>14 DEF Restart
  <2> QED BY <1>14, <2>1 DEF Restart, CallsOf, TriesBound
<1>15. CASE UNCHANGED vars
  BY <1>15 DEF vars, CallsOf, TriesBound
<1> QED BY <1>1, <1>2, <1>3, <1>4, <1>5, <1>6, <1>7, <1>8, <1>9, <1>10, <1>11,
           <1>12, <1>13, <1>14, <1>15 DEF Next, Continue

-----------------------------------------------------------------------------
(* What a step may do                                                      *)

\* The graph's side of a call (neo4j_adapter.py): nodes do not vanish
\* without a trace, marks are not taken back, deleted nodes stay deleted.
LEMMA GraphFacts ==
    ASSUME TypeOK, NEW r \in Reqs, NEW n \in Reqs
    PROVE  LET g == GraphAfter(r) IN
           /\ graph[n].state # "none" => g[n].state # "none"
           /\ g[n].state # graph[n].state => n = node[r] /\ pc[r] \in {"create", "del_node"}
           /\ pc[r] # "create" \/ n # node[r] =>
                 /\ graph[n].status = "pending" => g[n].status = "pending"
                 /\ g[n].state = "live" => graph[n].state = "live"
           /\ pc[r] = "create" => g[node[r]].state = "live"
           /\ pc[r] = "mark" /\ Live(node[r]) => g[node[r]].status = "pending"
           /\ pc[r] = "del_node" /\ Live(node[r]) => g[node[r]].state = "gone"
<1>1. node[r] \in Reqs /\ graph \in [Reqs -> NodeType]
  BY DEF TypeOK, NodeType
<1>2. CASE pc[r] = "create"
  BY <1>1, <1>2 DEF GraphAfter, NodeType, Live
<1>3. CASE pc[r] = "mark" /\ Live(node[r])
  BY <1>1, <1>3 DEF GraphAfter, NodeType, Live
<1>4. CASE pc[r] = "set" /\ Live(node[r])
  BY <1>1, <1>4 DEF GraphAfter, NodeType, Live
<1>5. CASE pc[r] = "del_node" /\ Live(node[r])
  BY <1>1, <1>5 DEF GraphAfter, NodeType, Live
<1>6. CASE pc[r] # "create" /\ (~Live(node[r]) \/ pc[r] \notin {"mark", "set", "del_node"})
  <2>1. GraphAfter(r) = graph
    BY <1>6 DEF GraphAfter
  <2> QED BY <1>6, <2>1
<1> QED BY <1>2, <1>3, <1>4, <1>5, <1>6

\* Request r goes on to call c, or ends with it.
Hops(r, c) ==
    /\ c \in Calls \cup Ended
    /\ UNCHANGED stores
    /\ pc' = [pc EXCEPT ![r] = c]
    /\ reply' = [reply EXCEPT ![r] = "none"]
    /\ \/ pc[r] # "idle" /\ UNCHANGED <<kind, node>>
       \/ /\ pc[r] = "idle" /\ c \notin {"ok", "upsert", "mark"}
          /\ \E k, n : /\ kind' = [kind EXCEPT ![r] = k]
                       /\ node' = [node EXCEPT ![r] = n]
    /\ c = "create" => pc[r] = "idle"
    /\ c \in {"upsert", "mark"} =>
          Answered(r, "create") \/ Answered(r, "set") \/ pc[r] = "upsert"
    /\ c = "ok" =>
          \/ Answered(r, "create") /\ kind[r] # "create"
          \/ \E d \in {"set", "upsert", "mark", "del_node"} : Answered(r, d)
    /\ \A n \in Reqs : mapping'[n].status = "pending" =>
          mapping[n].status = "pending" \/ (Answered(r, "mark") /\ n = node[r])

\* Nothing else happens to requests and stores.
Rests ==
    /\ UNCHANGED <<stores, kind, node>>
    /\ \A r \in Reqs : /\ pc'[r] = pc[r] \/ (pc[r] # "idle" /\ pc'[r] = "failed")
                       /\ reply'[r] = reply[r] \/ (reply'[r] = "none" /\ pc'[r] \notin Calls)
    /\ \A n \in Reqs : mapping'[n].status = "pending" => mapping[n].status = "pending"

\* Every step is a store's answer, a request moving on, or a rest.
LEMMA StepShape ==
    ASSUME TypeOK, CallsOf, [Next]_vars
    PROVE  \/ \E r \in Reqs : Serve(r)
           \/ \E r \in Reqs, c \in Calls \cup Ended : Hops(r, c)
           \/ Rests
<1> USE DEF stores, request, locals, bounds, Calls, Ended, Call, End, Answered
<1> DEFINE P == \E r \in Reqs, c \in Calls \cup Ended : Hops(r, c)
<1>n. \A n \in Reqs : node[n] \in Reqs /\ mapping[n] \in
         [status: {"none", "synced", "pending"}, vid: Reqs \cup {None}]
  BY DEF TypeOK
<1>s. ASSUME NEW r \in Reqs, NEW n \in Reqs, StartDelete(r, n)
      PROVE  /\ \E c \in {"del_point", "del_node"} : Call(r, c)
             /\ \A m \in Reqs : mapping'[m].status = "pending" => mapping[m].status = "pending"
  <2>1. mapping \in [Reqs -> [status: {"none", "synced", "pending"}, vid: Reqs \cup {None}]]
    BY DEF TypeOK
  <2> QED BY <1>s, <2>1 DEF StartDelete, NoMap
<1>1. ASSUME NEW r \in Reqs, NEW k \in Kinds, NEW n \in Reqs, Begin(r, k, n)
      PROVE  P
  <2>1. CASE k = "import_delete"
    <3>1. PICK c \in {"del_point", "del_node"} : Call(r, c)
      BY <1>1, <1>s, <2>1 DEF Begin
    <3>2. \A m \in Reqs : mapping'[m].status = "pending" => mapping[m].status = "pending"
      BY <1>1, <1>s, <2>1 DEF Begin
    <3>3. Hops(r, c)
      BY <1>1, <3>1, <3>2 DEF Begin, Hops
    <3> QED BY <3>1, <3>3
  <2>2. CASE k # "import_delete"
    <3>1. PICK c \in {"create", "get_update", "set", "get_delete"} : Call(r, c)
      BY <1>1, <2>2 DEF Begin, FirstCall
    <3>2. mapping' = mapping
      BY <1>1, <2>2 DEF Begin
    <3>3. Hops(r, c)
      BY <1>1, <3>1, <3>2 DEF Begin, Hops
    <3> QED BY <3>1, <3>3
  <2> QED BY <2>1, <2>2
<1>3. ASSUME NEW r \in Reqs, AfterCreate(r) PROVE P
  <2>1. CASE kind[r] = "create"
    <3>1. Hops(r, "upsert")
      BY <1>3, <2>1 DEF AfterCreate, Hops
    <3> QED BY <3>1
  <2>2. CASE kind[r] # "create"
    <3>1. \A n \in Reqs : mapping'[n].status = "pending" => mapping[n].status = "pending"
      <4>1. Record(r, None, "synced")
        BY <1>3, <2>2 DEF AfterCreate
      <4> QED BY <1>n, <4>1 DEF Record, TypeOK
    <3>2. Answered(r, "create") /\ Call(r, "ok") /\ UNCHANGED <<graph, points, kind, node>>
      BY <1>3, <2>2 DEF AfterCreate
    <3>3. Hops(r, "ok")
      BY <2>2, <3>1, <3>2 DEF Hops
    <3> QED BY <3>3
  <2> QED BY <2>1, <2>2
<1>4. ASSUME NEW r \in Reqs, AfterUpsert(r) PROVE P
  <2>1. \A n \in Reqs : mapping'[n].status = "pending" => mapping[n].status = "pending"
    BY <1>4, <1>n DEF AfterUpsert, Record, TypeOK
  <2>2. Hops(r, "ok")
    BY <1>4, <2>1 DEF AfterUpsert, Hops
  <2> QED BY <2>2
<1>5. ASSUME NEW r \in Reqs, UpsertRaises(r) PROVE P
  <2>1. PICK c \in {"upsert", "mark"} : Call(r, c)
    BY <1>5 DEF UpsertRaises, GiveUp
  <2>2. mapping' = mapping
    BY <1>5 DEF UpsertRaises, GiveUp
  <2>3. Hops(r, c)
    BY <1>5, <2>1, <2>2 DEF UpsertRaises, Hops
  <2> QED BY <2>1, <2>3
<1>6. ASSUME NEW r \in Reqs, AfterMark(r) PROVE P
  <2>1. \A n \in Reqs : mapping'[n].status = "pending" =>
           mapping[n].status = "pending" \/ n = node[r]
    BY <1>6, <1>n DEF AfterMark, Record, TypeOK
  <2>2. Hops(r, "ok")
    BY <1>6, <2>1 DEF AfterMark, Hops
  <2> QED BY <2>2
<1>7. ASSUME NEW r \in Reqs, AfterGetForUpdate(r) PROVE P
  <2>1. Hops(r, "set")
    BY <1>7 DEF AfterGetForUpdate, Hops
  <2> QED BY <2>1
<1>8. ASSUME NEW r \in Reqs, AfterSet(r) PROVE P
  <2>1. PICK c \in {"upsert", "ok"} : Call(r, c)
    BY <1>8 DEF AfterSet
  <2>2. Hops(r, c)
    BY <1>8, <2>1 DEF AfterSet, Hops
  <2> QED BY <2>1, <2>2
<1>9. ASSUME NEW r \in Reqs, AfterGetForDelete(r) PROVE P
  <2>1. PICK c \in {"del_point", "del_node"} : Call(r, c)
    BY <1>9, <1>s, <1>n DEF AfterGetForDelete
  <2>2. Hops(r, c)
    BY <1>9, <1>s, <1>n, <2>1 DEF AfterGetForDelete, Hops
  <2> QED BY <2>1, <2>2
<1>10. ASSUME NEW r \in Reqs, AfterDeletePoint(r) PROVE P
  <2>1. PICK c \in {"failed", "del_node"} : Call(r, c)
    BY <1>10 DEF AfterDeletePoint
  <2>2. \A n \in Reqs : mapping'[n].status = "pending" => mapping[n].status = "pending"
    BY <1>10, <1>n DEF AfterDeletePoint, NoMap, TypeOK
  <2>3. Hops(r, c)
    BY <1>10, <2>1, <2>2 DEF AfterDeletePoint, Hops
  <2> QED BY <2>1, <2>3
<1>11. ASSUME NEW r \in Reqs, AfterDeleteNode(r) PROVE P
  <2>1. Hops(r, "ok")
    BY <1>11 DEF AfterDeleteNode, Hops
  <2> QED BY <2>1
<1>12. ASSUME NEW r \in Reqs, NotFound(r) PROVE P
  <2>1. Hops(r, "failed")
    BY <1>12 DEF NotFound, Refuse, Active, Hops
  <2> QED BY <2>1
<1>13. ASSUME NEW r \in Reqs, CallRaises(r) PROVE P
  <2>1. Hops(r, "failed")
    BY <1>13 DEF CallRaises, Active, Hops
  <2> QED BY <2>1
<1>14. ASSUME Restart PROVE Rests
  <2>1. \A r \in Reqs : /\ pc'[r] = pc[r] \/ (pc[r] # "idle" /\ pc'[r] = "failed")
                        /\ reply'[r] = "none" /\ pc'[r] \notin Calls
    BY <1>14 DEF Restart, Active, TypeOK
  <2> QED BY <1>14, <2>1 DEF Restart, Rests, NoMap
<1>15. ASSUME UNCHANGED vars PROVE Rests
  BY <1>15 DEF vars, Rests
<1> DEFINE G == (\E r \in Reqs : Serve(r)) \/ P \/ Rests
<1>16. ASSUME NEW r \in Reqs, Serve(r) PROVE G
  BY <1>16
<1>17. (P => G) /\ (Rests => G)
  OBVIOUS
<1>18. ASSUME NEW r \in Reqs, Continue(r) PROVE P
  BY <1>18, <1>3, <1>4, <1>6, <1>7, <1>8, <1>9, <1>10, <1>11, <1>12 DEF Continue
<1>19. G
  <2> HIDE DEF P, G
  <2> QED BY <1>1, <1>5, <1>13, <1>14, <1>15, <1>16, <1>17, <1>18 DEF Next
<1> QED BY <1>19

\* What a request is and works on does not change once it has begun.
LEMMA Kept ==
    ASSUME TypeOK, CallsOf, [Next]_vars
    PROVE  \A p \in Reqs : pc[p] # "idle" =>
              pc'[p] # "idle" /\ node'[p] = node[p] /\ kind'[p] = kind[p]
<1>1. ASSUME NEW r \in Reqs, Serve(r) PROVE UNCHANGED <<pc, node, kind>>
  BY <1>1 DEF Serve, request
<1>2. ASSUME NEW r \in Reqs, NEW c \in Calls \cup Ended, Hops(r, c), NEW p \in Reqs,
             pc[p] # "idle"
      PROVE  pc'[p] # "idle" /\ node'[p] = node[p] /\ kind'[p] = kind[p]
  BY <1>2 DEF Hops, Calls, Ended, TypeOK
<1>3. ASSUME Rests, NEW p \in Reqs, pc[p] # "idle"
      PROVE  pc'[p] # "idle" /\ node'[p] = node[p] /\ kind'[p] = kind[p]
  BY <1>3 DEF Rests
<1> QED BY <1>1, <1>2, <1>3, StepShape

-----------------------------------------------------------------------------
(* Points belong to nodes                                                  *)

LEMMA OwnershipInit == Init => Ownership
BY DEF Init, Ownership, NoPoint, NoMap

\* FKRegistry never gives the point of one node to another: the ids it
\* reuses come from the node's own mapping.
LEMMA OwnershipStep ==
    TypeOK /\ CallsOf /\ Ownership /\ [Next]_vars => Ownership'
<1> SUFFICES ASSUME TypeOK, CallsOf, Ownership, [Next]_vars PROVE Ownership'
  OBVIOUS
<1> USE DEF stores, request, locals, bounds, Call, End, Answered
<1> DEFINE NextOwns(p, n) == p \in Reqs /\ pc'[p] # "idle" /\ node'[p] = n
<1>z. ASSUME \A p \in Reqs : points'[p].node # None => NextOwns(p, points'[p].node),
             \A n \in Reqs : mapping'[n].vid # None => NextOwns(mapping'[n].vid, n),
             \A u \in Reqs : pc'[u] \in {"upsert", "del_point"} => NextOwns(vid'[u], node'[u]),
             \A r \in Reqs : old'[r] # None => pc'[r] # "idle" /\ NextOwns(old'[r], node'[r])
      PROVE  Ownership'
  BY <1>z DEF Ownership, Owns
<1>k. \A p \in Reqs : pc[p] # "idle" =>
         pc'[p] # "idle" /\ node'[p] = node[p] /\ kind'[p] = kind[p]
  BY Kept
<1>o. \A p, n : Owns(p, n) => NextOwns(p, n)
  BY <1>k DEF Owns
<1>x. \A n : \A p \in Reqs : pc[p] # "idle" /\ node[p] = n => NextOwns(p, n)
  BY <1>k
<1> HIDE DEF NextOwns
<1>t. \A r \in Reqs : node[r] \in Reqs /\ vid[r] \in Reqs \cup {None}
                      /\ mapping[r].vid \in Reqs \cup {None}
  BY DEF TypeOK
<1>q. \A r \in Reqs : pc[r] # "idle" /\ old[r] # None => NextOwns(old[r], node'[r])
  BY <1>o, <1>k DEF Ownership
<1>p. ASSUME points' = points
      PROVE  \A p \in Reqs : points'[p].node # None => NextOwns(p, points'[p].node)
  BY <1>p, <1>o DEF Ownership
<1>m. ASSUME mapping' = mapping
      PROVE  \A n \in Reqs : mapping'[n].vid # None => NextOwns(mapping'[n].vid, n)
  BY <1>m, <1>o DEF Ownership
<1>n. ASSUME NEW n \in Reqs, mapping' = [mapping EXCEPT ![n] = NoMap]
      PROVE  \A m \in Reqs : mapping'[m].vid # None => NextOwns(mapping'[m].vid, m)
  BY <1>n, <1>o DEF Ownership, NoMap, TypeOK
<1>r. ASSUME NEW r \in Reqs, NEW v, NEW st, Record(r, v, st),
             v # None => Owns(v, node[r])
      PROVE  \A m \in Reqs : mapping'[m].vid # None => NextOwns(mapping'[m].vid, m)
  BY <1>r, <1>o, <1>t DEF Record, Ownership, TypeOK
<1>l. ASSUME old' = old
      PROVE  \A r \in Reqs : old'[r] # None => pc'[r] # "idle" /\ NextOwns(old'[r], node'[r])
  BY <1>l, <1>q, <1>k DEF Ownership
<1>v. ASSUME vid' = vid, NEW r \in Reqs, NEW c, pc' = [pc EXCEPT ![r] = c],
             c \in {"upsert", "del_point"} => pc[r] = "upsert"
      PROVE  \A u \in Reqs : pc'[u] \in {"upsert", "del_point"} => NextOwns(vid'[u], node'[u])
  BY <1>v, <1>o, <1>k DEF Ownership, TypeOK
<1>w. ASSUME NEW r \in Reqs, NEW w, vid' = [vid EXCEPT ![r] = w],
             NEW c, pc' = [pc EXCEPT ![r] = c], NextOwns(w, node'[r])
      PROVE  \A u \in Reqs : pc'[u] \in {"upsert", "del_point"} => NextOwns(vid'[u], node'[u])
  BY <1>w, <1>o, <1>k DEF Ownership, TypeOK
<1>s. ASSUME NEW r \in Reqs, NEW n \in Reqs, StartDelete(r, n), n = node'[r]
      PROVE  /\ \A m \in Reqs : mapping'[m].vid # None => NextOwns(mapping'[m].vid, m)
             /\ \A u \in Reqs : pc'[u] \in {"upsert", "del_point"} => NextOwns(vid'[u], node'[u])
  <2>1. CASE mapping[n].vid = None
    <3>1. mapping' = [mapping EXCEPT ![n] = NoMap] /\ vid' = vid
          /\ pc' = [pc EXCEPT ![r] = "del_node"]
      BY <1>s, <2>1 DEF StartDelete
    <3> QED BY <3>1, <1>n, <1>v
  <2>2. CASE mapping[n].vid # None
    <3>1. mapping' = mapping /\ vid' = [vid EXCEPT ![r] = mapping[n].vid]
          /\ pc' = [pc EXCEPT ![r] = "del_point"]
      BY <1>s, <2>2 DEF StartDelete
    <3>2. NextOwns(mapping[n].vid, node'[r])
      BY <1>s, <2>2, <1>o DEF Ownership
    <3> QED BY <3>1, <3>2, <1>m, <1>w
  <2> QED BY <2>1, <2>2
<1>1. ASSUME NEW r \in Reqs, NEW k \in Kinds, NEW n \in Reqs, Begin(r, k, n)
      PROVE  Ownership'
  <2>1. points' = points /\ old' = old /\ node'[r] = n /\ pc[r] = "idle"
    BY <1>1 DEF Begin, TypeOK
  <2>2. CASE k = "import_delete"
    BY <1>z, <1>1, <2>1, <2>2, <1>s, <1>p, <1>l DEF Begin
  <2>3. CASE k # "import_delete"
    <3>1. mapping' = mapping /\ vid' = vid
          /\ \E c \in {"create", "get_update", "set", "get_delete"} : pc' = [pc EXCEPT ![r] = c]
      BY <1>1, <2>3 DEF Begin, FirstCall
    <3> QED BY <1>z, <2>1, <3>1, <1>p, <1>l, <1>m, <1>v
  <2> QED BY <2>2, <2>3
<1>2. ASSUME NEW r \in Reqs, Serve(r) PROVE Ownership'
  <2>1. UNCHANGED <<mapping, pc, node, vid, old>>
    BY <1>2 DEF Serve
  <2>2. \A p \in Reqs : points'[p].node # None => Owns(p, points'[p].node)
    <3>1. CASE pc[r] = "upsert"
      <4>1. points' = [points EXCEPT ![vid[r]] = [node |-> node[r], val |-> val[r]]]
        BY <1>2, <3>1 DEF Serve, PointsAfter
      <4>2. Owns(vid[r], node[r])
        BY <3>1 DEF Ownership
      <4> QED BY <4>1, <4>2 DEF Ownership, TypeOK
    <3>2. CASE pc[r] = "del_point"
      <4>1. points' = [points EXCEPT ![vid[r]] = NoPoint]
        BY <1>2, <3>2 DEF Serve, PointsAfter
      <4> QED BY <4>1 DEF Ownership, NoPoint, TypeOK
    <3>3. CASE pc[r] \notin {"upsert", "del_point"}
      BY <1>2, <3>3 DEF Serve, PointsAfter, Ownership
    <3> QED BY <3>1, <3>2, <3>3
  <2> QED BY <2>1, <2>2 DEF Ownership, Owns
<1>3. ASSUME NEW r \in Reqs, AfterCreate(r) PROVE Ownership'
  <2>1. points' = points /\ old' = old
    BY <1>3 DEF AfterCreate
  <2>2. CASE kind[r] = "create"
    <3>1. mapping' = mapping /\ vid' = [vid EXCEPT ![r] = r] /\ pc' = [pc EXCEPT ![r] = "upsert"]
      BY <1>3, <2>2 DEF AfterCreate
    <3>2. pc[r] = "create" /\ node[r] = r
      BY <1>3, <2>2 DEF AfterCreate, CallsOf, Creates
    <3>3. NextOwns(r, node'[r])
      BY <3>2, <1>x, <1>k
    <3> QED BY <1>z, <2>1, <3>1, <3>3, <1>p, <1>l, <1>m, <1>w
  <2>3. CASE kind[r] # "create"
    <3>1. Record(r, None, "synced") /\ vid' = vid /\ pc' = [pc EXCEPT ![r] = "ok"]
      BY <1>3, <2>3 DEF AfterCreate
    <3> QED BY <1>z, <2>1, <3>1, <1>p, <1>l, <1>r, <1>v
  <2> QED BY <2>2, <2>3
<1>4. ASSUME NEW r \in Reqs, AfterUpsert(r) PROVE Ownership'
  <2>1. Record(r, vid[r], "synced") /\ Owns(vid[r], node[r])
    BY <1>4 DEF AfterUpsert, Ownership
  <2> QED BY <1>z, <1>4, <2>1, <1>p, <1>l, <1>r, <1>v DEF AfterUpsert
<1>5. ASSUME NEW r \in Reqs, UpsertRaises(r) PROVE Ownership'
  <2>1. /\ mapping' = mapping /\ points' = points /\ old' = old /\ vid' = vid
        /\ pc[r] = "upsert" /\ \E c : pc' = [pc EXCEPT ![r] = c]
    BY <1>5 DEF UpsertRaises, GiveUp
  <2> QED BY <1>z, <2>1, <1>p, <1>l, <1>m, <1>v
<1>6. ASSUME NEW r \in Reqs, AfterMark(r) PROVE Ownership'
  <2>1. Record(r, old[r], "pending") /\ (old[r] # None => Owns(old[r], node[r]))
    BY <1>6 DEF AfterMark, Ownership
  <2> QED BY <1>z, <1>6, <2>1, <1>p, <1>l, <1>r, <1>v DEF AfterMark
<1>7. ASSUME NEW r \in Reqs, AfterGetForUpdate(r) PROVE Ownership'
  BY <1>z, <1>7, <1>p, <1>l, <1>m, <1>v DEF AfterGetForUpdate
<1>8. ASSUME NEW r \in Reqs, AfterSet(r) PROVE Ownership'
  <2>1. mapping' = mapping /\ points' = points /\ pc[r] = "set"
    BY <1>8 DEF AfterSet
  <2>2. CASE kind[r] = "update"
    <3> DEFINE v == mapping[node[r]].vid
    <3>1. /\ old' = [old EXCEPT ![r] = v]
          /\ vid' = [vid EXCEPT ![r] = IF v = None THEN r ELSE v]
          /\ pc' = [pc EXCEPT ![r] = "upsert"]
      BY <1>8, <2>2 DEF AfterSet
    <3>2. v # None => NextOwns(v, node'[r])
      BY <1>o, <1>k, <1>t, <2>1 DEF Ownership
    <3>3. NextOwns(r, node'[r])
      BY <2>1, <1>x, <1>k
    <3>4. \A u \in Reqs : old'[u] # None => pc'[u] # "idle" /\ NextOwns(old'[u], node'[u])
      BY <3>1, <3>2, <2>1, <1>q, <1>k DEF Ownership, TypeOK
    <3>5. PICK w : w = (IF v = None THEN r ELSE v) /\ NextOwns(w, node'[r])
      BY <3>2, <3>3
    <3>6. vid' = [vid EXCEPT ![r] = w]
      BY <3>1, <3>5
    <3> QED BY <1>z, <2>1, <3>1, <3>4, <3>5, <3>6, <1>p, <1>m, <1>w
  <2>3. CASE kind[r] # "update"
    BY <1>z, <1>8, <2>1, <2>3, <1>p, <1>l, <1>m, <1>v DEF AfterSet
  <2> QED BY <2>2, <2>3
<1>9. ASSUME NEW r \in Reqs, AfterGetForDelete(r) PROVE Ownership'
  <2>1. node[r] \in Reqs /\ node[r] = node'[r]
    BY <1>9, <1>t DEF AfterGetForDelete
  <2> QED BY <1>z, <1>9, <2>1, <1>s, <1>p, <1>l DEF AfterGetForDelete
<1>10. ASSUME NEW r \in Reqs, AfterDeletePoint(r) PROVE Ownership'
  <2>1. /\ points' = points /\ old' = old /\ vid' = vid
        /\ mapping' = [mapping EXCEPT ![node[r]] = NoMap]
        /\ \E c \in {"failed", "del_node"} : pc' = [pc EXCEPT ![r] = c]
    BY <1>10 DEF AfterDeletePoint
  <2> QED BY <1>z, <2>1, <1>t, <1>p, <1>l, <1>n, <1>v
<1>11. ASSUME NEW r \in Reqs, AfterDeleteNode(r) PROVE Ownership'
  BY <1>z, <1>11, <1>p, <1>l, <1>m, <1>v DEF AfterDeleteNode
<1>12. ASSUME NEW r \in Reqs, NotFound(r) PROVE Ownership'
  BY <1>z, <1>12, <1>p, <1>l, <1>m, <1>v DEF NotFound, Refuse
<1>13. ASSUME NEW r \in Reqs, CallRaises(r) PROVE Ownership'
  BY <1>z, <1>13, <1>p, <1>l, <1>m, <1>v DEF CallRaises
<1>14. ASSUME Restart PROVE Ownership'
  <2>1. \A r \in Reqs : pc'[r] \in {"upsert", "del_point"} => pc[r] = pc'[r] /\ pc[r] # "idle"
    BY <1>14 DEF Restart
  <2>2. \A r \in Reqs : mapping'[r].vid = None
    BY <1>14 DEF Restart, NoMap
  <2>3. \A r \in Reqs : pc'[r] \in {"upsert", "del_point"} => NextOwns(vid'[r], node'[r])
    BY <1>14, <2>1, <1>o DEF Restart, Ownership
  <2> QED BY <1>z, <1>14, <2>2, <2>3, <1>p, <1>l DEF Restart
<1>15. CASE UNCHANGED vars
  BY <1>15 DEF vars, Ownership, Owns
<1> QED BY <1>1, <1>2, <1>3, <1>4, <1>5, <1>6, <1>7, <1>8, <1>9, <1>10, <1>11,
           <1>12, <1>13, <1>14, <1>15 DEF Next, Continue

-----------------------------------------------------------------------------
(* The graph comes first                                                   *)

LEMMA ExistenceInit == Init => Existence /\ GraphFirst
BY DEF Init, Existence, GraphFirst, NoNode, NoPoint

\* The registry touches Qdrant only after Neo4j answered, and a node that
\* once existed leaves a trace.
LEMMA ExistenceStep ==
    ASSUME TypeOK, CallsOf, Existence, [Next]_vars
    PROVE  /\ Existence'
           /\ \A n \in Reqs : graph[n].state # "none" => graph'[n].state # "none"
<1>t. \A r \in Reqs : node[r] \in Reqs
  BY DEF TypeOK
<1>1. ASSUME NEW r \in Reqs, Serve(r)
      PROVE  /\ Existence'
             /\ \A n \in Reqs : graph[n].state # "none" => graph'[n].state # "none"
  <2>1. /\ graph' = GraphAfter(r) /\ UNCHANGED <<pc, node, kind>>
        /\ reply' = [reply EXCEPT ![r] = Answer(r)] /\ Active(r)
    BY <1>1 DEF Serve, request
  <2>2. \A n \in Reqs :
           /\ graph[n].state # "none" => graph'[n].state # "none"
           /\ graph'[n].state # "none" =>
                 graph[n].state # "none" \/ (n = r /\ pc[r] = "create")
    <3>1. pc[r] = "create" => node[r] = r
      BY DEF CallsOf
    <3>2. ASSUME NEW n \in Reqs, graph'[n].state # "none", graph[n].state = "none"
          PROVE  n = r /\ pc[r] = "create"
      <4>1. n = node[r] /\ pc[r] \in {"create", "del_node"}
        BY <2>1, <3>2, GraphFacts
      <4>2. CASE pc[r] = "del_node"
        BY <2>1, <3>2, <4>1, <4>2 DEF GraphAfter, Live
      <4> QED BY <3>1, <4>1, <4>2
    <3> QED BY <2>1, <3>2, GraphFacts
  <2>3. Answer(r) = "done" /\ pc[r] = "set" => graph[node[r]].state # "none"
    BY DEF Answer, Live
  <2>4. pc[r] = "create" => graph'[node[r]].state # "none"
    BY <1>t, <2>1, GraphFacts
  <2>5. Answer(r) # "none"
    BY DEF Answer
  <2>6. \A u \in Reqs : u # r => reply'[u] = reply[u]
    BY <2>1 DEF TypeOK
  <2>7. reply'[r] = Answer(r)
    BY <2>1 DEF TypeOK
  <2>8. \A u \in Reqs : graph'[u].state # "none" =>
           pc'[u] # "idle" /\ ~(pc'[u] = "create" /\ reply'[u] = "none")
    BY <2>1, <2>2, <2>5, <2>6, <2>7 DEF Existence, Active, Calls
  <2>9. \A u \in Reqs : \/ pc'[u] \in {"upsert", "mark"}
                        \/ pc'[u] \in {"create", "set"} /\ reply'[u] = "done"
                        => graph'[node'[u]].state # "none"
    BY <1>t, <2>1, <2>2, <2>3, <2>4, <2>6, <2>7 DEF Existence
  <2> QED BY <2>2, <2>8, <2>9 DEF Existence
<1>2. ASSUME NEW r \in Reqs, NEW c \in Calls \cup Ended, Hops(r, c)
      PROVE  Existence' /\ graph' = graph
  <2>1. /\ graph' = graph
        /\ pc' = [pc EXCEPT ![r] = c] /\ reply' = [reply EXCEPT ![r] = "none"]
        /\ pc[r] # "idle" => UNCHANGED <<kind, node>>
        /\ c = "create" => pc[r] = "idle"
        /\ c \in {"upsert", "mark"} =>
              \/ pc[r] \in {"create", "set"} /\ reply[r] = "done"
              \/ pc[r] = "upsert"
    BY <1>2 DEF Hops, Answered, stores
  <2>2. /\ pc'[r] = c /\ reply'[r] = "none" /\ c # "idle"
        /\ \A u \in Reqs : u # r => pc'[u] = pc[u] /\ reply'[u] = reply[u] /\ node'[u] = node[u]
    BY <1>2, <2>1 DEF Hops, TypeOK, Calls, Ended
  <2> QED BY <2>1, <2>2 DEF Existence
<1>3. ASSUME Rests PROVE Existence' /\ graph' = graph
  <2>1. graph' = graph /\ node' = node
    BY <1>3 DEF Rests, stores
  <2>2. \A r \in Reqs : /\ pc'[r] = pc[r] \/ (pc[r] # "idle" /\ pc'[r] = "failed")
                        /\ reply'[r] = reply[r] \/ (reply'[r] = "none" /\ pc'[r] \notin Calls)
    BY <1>3 DEF Rests
  <2> QED BY <2>1, <2>2 DEF Existence, Calls
<1> QED BY <1>1, <1>2, <1>3, StepShape

LEMMA GraphFirstStep ==
    ASSUME TypeOK, CallsOf, Existence, GraphFirst, [Next]_vars
    PROVE  GraphFirst'
<1>t. \A r \in Reqs : node[r] \in Reqs
  BY DEF TypeOK
<1>e. \A n \in Reqs : graph[n].state # "none" => graph'[n].state # "none"
  BY ExistenceStep
<1>p. \A p \in Reqs : points[p].node \in Reqs \cup {None}
  BY DEF TypeOK
<1>1. ASSUME points' = points PROVE GraphFirst'
  BY <1>1, <1>e, <1>p DEF GraphFirst
<1>2. ASSUME NEW r \in Reqs, Serve(r) PROVE GraphFirst'
  <2>1. CASE pc[r] = "upsert"
    <3>1. points' = [points EXCEPT ![vid[r]] = [node |-> node[r], val |-> val[r]]]
      BY <1>2, <2>1 DEF Serve, PointsAfter
    <3>2. graph[node[r]].state # "none"
      BY <2>1 DEF Existence
    <3>3. \A p \in Reqs : points'[p].node \in {points[p].node, node[r]}
      BY <3>1 DEF TypeOK
    <3> QED BY <3>2, <3>3, <1>e, <1>p, <1>t DEF GraphFirst
  <2>2. CASE pc[r] = "del_point"
    <3>1. points' = [points EXCEPT ![vid[r]] = NoPoint]
      BY <1>2, <2>2 DEF Serve, PointsAfter
    <3>2. \A p \in Reqs : points'[p].node \in {points[p].node, None}
      BY <3>1 DEF TypeOK, NoPoint
    <3> QED BY <3>2, <1>e, <1>p DEF GraphFirst
  <2>3. CASE pc[r] \notin {"upsert", "del_point"}
    BY <1>2, <2>3, <1>1 DEF Serve, PointsAfter
  <2> QED BY <2>1, <2>2, <2>3
<1>3. (\E r \in Reqs, c \in Calls \cup Ended : Hops(r, c)) \/ Rests => points' = points
  BY DEF Hops, Rests, stores
<1> QED BY <1>1, <1>2, <1>3, StepShape

-----------------------------------------------------------------------------
(* Marks                                                                   *)

LEMMA MarkingInit == Init => Marking
BY DEF Init, Marking, Answered, NoMap

\* A mark the registry records is in the graph already, and stays there.
LEMMA MarkingStep ==
    ASSUME TypeOK, TypeOK', CallsOf, Existence, Marking, [Next]_vars
    PROVE  Marking'
<1>t. \A r \in Reqs : node[r] \in Reqs
  BY DEF TypeOK
<1>1. ASSUME NEW r \in Reqs, Serve(r) PROVE Marking'
  <2>1. /\ graph' = GraphAfter(r) /\ UNCHANGED <<pc, node, mapping>>
        /\ reply' = [reply EXCEPT ![r] = Answer(r)] /\ reply[r] = "none"
    BY <1>1 DEF Serve, request
  <2>2. ASSUME NEW n \in Reqs, Marked(n) PROVE Marked(n)'
    <3>1. pc[r] = "create" => graph[node[r]].state = "none"
      BY <2>1 DEF CallsOf, Existence, Creates
    <3>2. pc[r] # "create" \/ n # node[r]
      BY <2>2, <3>1 DEF Marked
    <3> QED BY <2>1, <2>2, <3>2, GraphFacts DEF Marked, Live
  <2>3. pc[r] = "mark" => Marked(node[r])'
    <3> SUFFICES ASSUME pc[r] = "mark" PROVE Marked(node[r])'
      OBVIOUS
    <3>1. graph[node[r]].state # "none" /\ node' = node
      BY <2>1 DEF Existence
    <3>2. /\ graph'[node[r]].state # "none"
          /\ graph'[node[r]].state = "live" =>
                Live(node[r]) /\ graph'[node[r]].status = "pending"
      BY <1>t, <2>1, <3>1, GraphFacts DEF Live
    <3> QED BY <3>1, <3>2 DEF Marked, Live
  <2>4. \A u \in Reqs : u # r => reply'[u] = reply[u]
    BY <2>1 DEF TypeOK
  <2>5. \A u \in Reqs : Answered(u, "mark")' => Marked(node[u])'
    BY <1>t, <2>1, <2>2, <2>3, <2>4 DEF Marking, Answered
  <2>6. \A n \in Reqs : mapping'[n].status = "pending" => Marked(n)'
    BY <2>1, <2>2 DEF Marking
  <2> QED BY <2>1, <2>5, <2>6 DEF Marking, Marked, Live
<1>2. ASSUME NEW r \in Reqs, NEW c \in Calls \cup Ended, Hops(r, c) PROVE Marking'
  <2>1. /\ graph' = graph /\ pc' = [pc EXCEPT ![r] = c]
        /\ reply' = [reply EXCEPT ![r] = "none"]
        /\ \A n \in Reqs : mapping'[n].status = "pending" =>
              mapping[n].status = "pending" \/ (Answered(r, "mark") /\ n = node[r])
    BY <1>2 DEF Hops, stores
  <2>2. reply'[r] = "none" /\ \A u \in Reqs : u # r =>
           pc'[u] = pc[u] /\ reply'[u] = reply[u] /\ node'[u] = node[u]
    BY <1>2, <2>1 DEF Hops, TypeOK
  <2> QED BY <2>1, <2>2 DEF Marking, Marked, Live, Answered
<1>3. ASSUME Rests PROVE Marking'
  <2>1. /\ graph' = graph /\ node' = node
        /\ \A r \in Reqs : Answered(r, "mark")' => Answered(r, "mark")
        /\ \A n \in Reqs : mapping'[n].status = "pending" => mapping[n].status = "pending"
    BY <1>3 DEF Rests, stores, Answered, Calls
  <2> QED BY <2>1 DEF Marking, Marked, Live
<1> QED BY <1>1, <1>2, <1>3, StepShape

-----------------------------------------------------------------------------
(* Created entries stay searchable                                         *)

LEMMA SearchInit == Init => Search
BY DEF Init, Search, CreatedIsSearchable, Answered

\* A node that nobody deletes keeps a point once it has one: an upsert of
\* its own requests replaces it, no other request can touch it.
LEMMA PointsStay ==
    ASSUME TypeOK, CallsOf, Ownership, [Next]_vars, NEW n \in Reqs,
           Undeleted(n), PointsOf(n) # {}
    PROVE  PointsOf(n)' # {}
<1>1. PICK p \in Reqs : points[p].node = n /\ Owns(p, n)
  <2>1. n # None
    BY ConstantsAssumption
  <2> QED BY <2>1 DEF PointsOf, Ownership
<1>2. ASSUME points' = points PROVE PointsOf(n)' # {}
  BY <1>1, <1>2 DEF PointsOf
<1>3. ASSUME NEW r \in Reqs, Serve(r) PROVE PointsOf(n)' # {}
  <2>1. CASE pc[r] = "upsert"
    <3>1. points' = [points EXCEPT ![vid[r]] = [node |-> node[r], val |-> val[r]]]
      BY <1>3, <2>1 DEF Serve, PointsAfter
    <3>2. vid[r] = p => node[r] = n
      BY <1>1, <2>1 DEF Ownership, Owns
    <3>3. points'[p].node = n
      BY <1>1, <3>1, <3>2 DEF TypeOK
    <3> QED BY <3>3 DEF PointsOf
  <2>2. CASE pc[r] = "del_point"
    <3>1. points' = [points EXCEPT ![vid[r]] = NoPoint]
      BY <1>3, <2>2 DEF Serve, PointsAfter
    <3>2. vid[r] # p
      BY <1>1, <2>2 DEF Ownership, Owns, CallsOf, Undeleted
    <3>3. points'[p].node = n
      BY <1>1, <3>1, <3>2 DEF TypeOK
    <3> QED BY <3>3 DEF PointsOf
  <2>3. CASE pc[r] \notin {"upsert", "del_point"}
    BY <1>2, <1>3, <2>3 DEF Serve, PointsAfter
  <2> QED BY <2>1, <2>2, <2>3
<1>4. (\E r \in Reqs, c \in Calls \cup Ended : Hops(r, c)) \/ Rests => points' = points
  BY DEF Hops, Rests, stores
<1> QED BY <1>2, <1>3, <1>4, StepShape

LEMMA SearchStep ==
    ASSUME TypeOK, CallsOf, Ownership, Existence, Marking, Search, [Next]_vars
    PROVE  Search'
<1>t. \A r \in Reqs : node[r] \in Reqs
  BY DEF TypeOK
<1>u. \A n \in Reqs : Undeleted(n)' => Undeleted(n)
  BY Kept DEF Undeleted, CallsOf, Deletes
<1>s. \A n \in Reqs : PointsOf(n) # {} /\ Undeleted(n)' => PointsOf(n)' # {}
  BY <1>u, PointsStay
<1>1. ASSUME NEW r \in Reqs, Serve(r) PROVE Search'
  <2>1. /\ graph' = GraphAfter(r) /\ UNCHANGED <<pc, node, kind>>
        /\ \A u \in Reqs : u # r => reply'[u] = reply[u]
    BY <1>1 DEF Serve, request, TypeOK
  <2>2. ASSUME pc[r] = "upsert" PROVE PointsOf(node[r])' # {}
    <3>1. points' = [points EXCEPT ![vid[r]] = [node |-> node[r], val |-> val[r]]]
      BY <1>1, <2>2 DEF Serve, PointsAfter
    <3>2. vid[r] \in Reqs
      BY <2>2 DEF Ownership, Owns
    <3>3. points'[vid[r]].node = node[r]
      BY <3>1, <3>2 DEF TypeOK
    <3> QED BY <2>1, <3>2, <3>3 DEF PointsOf
  <2>3. ASSUME NEW u \in Reqs, Answered(u, "upsert")', Undeleted(node[u])'
        PROVE  PointsOf(node[u])' # {}
    <3>1. CASE u = r
      BY <2>1, <2>2, <2>3, <3>1 DEF Answered
    <3>2. CASE u # r
      <4>1. Answered(u, "upsert") /\ node[u] \in Reqs
        BY <1>t, <2>1, <2>3, <3>2 DEF Answered
      <4>2. Undeleted(node[u]) /\ (Undeleted(node[u]))'
        BY <1>u, <2>1, <2>3, <4>1 DEF Undeleted
      <4>3. PointsOf(node[u]) # {}
        BY <4>1, <4>2 DEF Search
      <4> QED BY <1>s, <2>1, <4>1, <4>2, <4>3 DEF Undeleted, PointsOf
    <3> QED BY <3>1, <3>2
  <2>4. ASSUME NEW n \in Reqs, pc'[n] = "ok", kind'[n] = "create", Live(n)', Undeleted(n)'
        PROVE  PointsOf(n)' # {} \/ graph'[n].status = "pending"
    <3>1. pc[n] = "ok" /\ kind[n] = "create" /\ Undeleted(n)
      BY <1>u, <2>1, <2>4
    <3>2. pc[r] # "create" \/ n # node[r]
      BY <3>1 DEF CallsOf, Creates
    <3>3. Live(n) /\ (graph[n].status = "pending" => graph'[n].status = "pending")
      BY <2>1, <2>4, <3>2, GraphFacts DEF Live
    <3>4. PointsOf(n) # {} \/ graph[n].status = "pending"
      BY <3>1, <3>3 DEF Search, CreatedIsSearchable, Undeleted
    <3> QED BY <1>s, <2>4, <3>3, <3>4
  <2> QED BY <2>3, <2>4 DEF Search, CreatedIsSearchable, Undeleted
<1>2. ASSUME NEW r \in Reqs, NEW c \in Calls \cup Ended, Hops(r, c) PROVE Search'
  <2>1. /\ UNCHANGED <<graph, points>>
        /\ pc' = [pc EXCEPT ![r] = c] /\ reply' = [reply EXCEPT ![r] = "none"]
    BY <1>2 DEF Hops, stores
  <2>2. /\ pc'[r] = c /\ reply'[r] = "none"
        /\ \A u \in Reqs : u # r => /\ pc'[u] = pc[u] /\ reply'[u] = reply[u]
                                    /\ node'[u] = node[u] /\ kind'[u] = kind[u]
    BY <1>2, <2>1 DEF Hops, TypeOK
  <2>3. ASSUME NEW u \in Reqs, Answered(u, "upsert")', Undeleted(node[u])'
        PROVE  PointsOf(node[u])' # {}
    <3>1. u # r /\ node'[u] = node[u] /\ Answered(u, "upsert")
      BY <2>2, <2>3 DEF Answered
    <3>2. Undeleted(node[u])
      BY <1>t, <1>u, <2>3, <3>1 DEF Undeleted
    <3> QED BY <2>1, <3>1, <3>2 DEF Search, PointsOf
  <2>4. ASSUME NEW n \in Reqs, pc'[n] = "ok", kind'[n] = "create", Live(n)', Undeleted(n)'
        PROVE  PointsOf(n)' # {} \/ graph'[n].status = "pending"
    <3>1. Live(n) /\ Undeleted(n)
      BY <1>u, <2>1, <2>4 DEF Live
    <3>2. CASE n # r
      BY <2>1, <2>2, <2>4, <3>1, <3>2 DEF Search, CreatedIsSearchable, Undeleted, PointsOf
    <3>3. CASE n = r
      <4>1. c = "ok" /\ kind[r] = "create" /\ node[r] = r
        BY <1>2, <2>2, <2>4, <3>3 DEF Hops, CallsOf, Creates
      <4>2. Answered(r, "upsert") \/ Answered(r, "mark")
        BY <1>2, <4>1 DEF Hops, Answered, CallsOf, Updates, Deletes
      <4>3. CASE Answered(r, "upsert")
        BY <2>1, <3>1, <3>3, <4>1, <4>3 DEF Search, PointsOf
      <4>4. CASE Answered(r, "mark")
        BY <2>1, <3>1, <3>3, <4>1, <4>4 DEF Marking, Marked
      <4> QED BY <4>2, <4>3, <4>4
    <3> QED BY <3>2, <3>3
  <2> QED BY <2>3, <2>4 DEF Search, CreatedIsSearchable, Undeleted
<1>3. ASSUME Rests PROVE Search'
  <2>1. /\ UNCHANGED <<graph, points, node, kind>>
        /\ \A r \in Reqs : /\ Answered(r, "upsert")' => Answered(r, "upsert")
                           /\ pc'[r] = "ok" => pc[r] = "ok"
    BY <1>3 DEF Rests, stores, Answered, Calls
  <2> QED BY <2>1 DEF Search, CreatedIsSearchable, PointsOf, Live, Undeleted
<1> QED BY <1>1, <1>2, <1>3, StepShape

-----------------------------------------------------------------------------
(* Deletes                                                                 *)

LEMMA WinnersInit == Init => Winners
BY DEF Init, Winners, Winner, Answered

\* DETACH DELETE ... RETURN count(n) finds a node once.
LEMMA WinnersStep ==
    ASSUME TypeOK, TypeOK', CallsOf, Existence, Winners, [Next]_vars
    PROVE  Winners'
<1>t. \A r \in Reqs : node[r] \in Reqs
  BY DEF TypeOK
<1>1. ASSUME NEW r \in Reqs, Serve(r) PROVE Winners'
  <2>1. /\ graph' = GraphAfter(r) /\ UNCHANGED <<pc, node, kind>>
        /\ \A u \in Reqs : u # r => reply'[u] = reply[u]
        /\ reply[r] = "none" /\ reply'[r] = Answer(r)
    BY <1>1 DEF Serve, request, TypeOK
  <2>2. ASSUME NEW n \in Reqs, graph[n].state = "gone" PROVE graph'[n].state = "gone"
    <3>1. pc[r] = "create" => graph[node[r]].state = "none"
      BY <2>1 DEF CallsOf, Existence, Creates
    <3>2. graph'[n].state # "none" /\ graph'[n].state # "live"
      BY <2>1, <2>2, <3>1, GraphFacts
    <3> QED BY <3>2 DEF TypeOK
  <2>3. \A u \in Reqs : u # r => (Winner(u)' <=> Winner(u))
    BY <2>1 DEF Winner, Answered
  <2>4. ASSUME Winner(r)', ~Winner(r)
        PROVE  Live(node[r]) /\ graph'[node[r]].state = "gone"
    <3>1. pc[r] = "del_node" /\ Answer(r) = "done"
      BY <2>1, <2>4 DEF Winner, Answered
    <3>2. Live(node[r])
      BY <3>1 DEF Answer
    <3> QED BY <1>t, <2>1, <3>1, <3>2, GraphFacts
  <2>5. \A u \in Reqs : Winner(u)' => graph'[node[u]].state = "gone"
    BY <1>t, <2>2, <2>3, <2>4 DEF Winners
  <2>6. \A u, v \in Reqs : Winner(u)' /\ Winner(v)' /\ node[u] = node[v] => u = v
    BY <2>3, <2>4 DEF Winners, Live
  <2> QED BY <2>1, <2>5, <2>6 DEF Winners
<1>2. ASSUME NEW r \in Reqs, NEW c \in Calls \cup Ended, Hops(r, c) PROVE Winners'
  <2>1. graph' = graph /\ pc' = [pc EXCEPT ![r] = c] /\ reply' = [reply EXCEPT ![r] = "none"]
    BY <1>2 DEF Hops, stores
  <2>2. /\ pc'[r] = c /\ reply'[r] = "none"
        /\ \A u \in Reqs : u # r => /\ pc'[u] = pc[u] /\ reply'[u] = reply[u]
                                    /\ node'[u] = node[u] /\ kind'[u] = kind[u]
    BY <1>2, <2>1 DEF Hops, TypeOK
  <2>3. ASSUME Winner(r)' PROVE Winner(r) /\ node'[r] = node[r]
    <3>1. c = "ok" /\ kind'[r] = kind[r] /\ node'[r] = node[r] /\ kind[r] \in Deletes
      BY <1>2, <2>2, <2>3 DEF Winner, Answered, Hops
    <3>2. Answered(r, "del_node")
      BY <1>2, <3>1 DEF Hops, Answered, CallsOf, Creates, Updates, Deletes
    <3> QED BY <3>1, <3>2 DEF Winner
  <2>4. \A u \in Reqs : Winner(u)' => Winner(u) /\ node'[u] = node[u]
    BY <2>2, <2>3 DEF Winner, Answered
  <2> QED BY <2>1, <2>4 DEF Winners
<1>3. ASSUME Rests PROVE Winners'
  <2>1. /\ graph' = graph /\ node' = node
        /\ \A r \in Reqs : Winner(r)' => Winner(r)
    BY <1>3 DEF Rests, stores, Winner, Answered, Calls
  <2> QED BY <2>1 DEF Winners
<1> QED BY <1>1, <1>2, <1>3, StepShape

-----------------------------------------------------------------------------
(* Theorems                                                                *)

LEMMA InvInit == Init => Inv
BY TypeInit, CallsInit, OwnershipInit, ExistenceInit, MarkingInit, SearchInit,
   WinnersInit DEF Inv

LEMMA InvStep == Inv /\ [Next]_vars => Inv'
<1> SUFFICES ASSUME Inv, [Next]_vars PROVE Inv'
  OBVIOUS
<1>1. TypeOK /\ CallsOf /\ TriesBound /\ Ownership /\ GraphFirst /\ Existence
      /\ Marking /\ Search /\ Winners
  BY DEF Inv
<1>2. TypeOK'
  BY <1>1, TypeStep
<1>3. CallsOf' /\ TriesBound'
  BY <1>1, CallsStep
<1>4. Ownership'
  BY <1>1, OwnershipStep
<1>5. Existence' /\ GraphFirst'
  BY <1>1, ExistenceStep, GraphFirstStep
<1>6. Marking' /\ Winners'
  BY <1>1, <1>2, MarkingStep, WinnersStep
<1>7. Search'
  BY <1>1, SearchStep
<1> QED BY <1>2, <1>3, <1>4, <1>5, <1>6, <1>7 DEF Inv

THEOREM InvCorrect == Spec => []Inv
BY InvInit, InvStep, PTL DEF Spec

\* Every reachable state is well typed; in particular no vector upsert is
\* tried more often than _MAX_RETRIES.
THEOREM TypeCorrect == Spec => []TypeOK
<1>1. Inv => TypeOK
  BY DEF Inv
<1> QED BY <1>1, InvCorrect, PTL

\* A vector never precedes its node (write_with_fk, update_with_fk).
THEOREM GraphComesFirst == Spec => []GraphFirst
<1>1. Inv => GraphFirst
  BY DEF Inv
<1> QED BY <1>1, InvCorrect, PTL

\* What get_pending_sync lists, the graph shows as pending.
THEOREM PendingMarked == Spec => []PendingIsMarked
<1>1. Inv => PendingIsMarked
  BY DEF Inv, Marking, Marked, PendingIsMarked
<1> QED BY <1>1, InvCorrect, PTL

\* An entry created with success is searchable or marked until deleted.
THEOREM Searchable == Spec => []CreatedIsSearchable
<1>1. Inv => CreatedIsSearchable
  BY DEF Inv, Search
<1> QED BY <1>1, InvCorrect, PTL

\* Of all requests to delete a node, at most one reports success.
THEOREM OneDelete == Spec => []DeletedOnce
<1>1. Inv => DeletedOnce
  BY DEF Inv, Winners, Winner, DeletedOnce
<1> QED BY <1>1, InvCorrect, PTL

-----------------------------------------------------------------------------
(* Requests that do not overlap                                            *)

\* Request r is at work on node n.
On(n, r) == node[r] = n /\ Active(r)
Alone(n) == \A r, u \in Reqs : On(n, r) /\ On(n, u) => r = u

\* The point the registry takes for the node's.
Tracked(n) == {p \in Reqs : mapping[n].vid = p}
Calm(n) == disturbed[n] = {}

\* What holds of every request and mapping, disturbed or not.
Bookkeeping ==
    /\ \A r \in Reqs : pc[r] \in {"idle", "create"} => old[r] = None
    /\ \A r \in Reqs : reply[r] = "missing" =>
          pc[r] \in {"get_update", "set", "get_delete", "del_node"}
    /\ \A n \in Reqs : mapping[n].vid # None => mapping[n].status # "none"

\* The only request on a node knows its point and its state.
Follows(n, r) ==
    /\ pc[r] = "create" => mapping[n].vid = None
    /\ pc[r] \in {"upsert", "mark"} => mapping[n].vid = old[r] /\ Live(n)
    /\ pc[r] = "upsert" => vid[r] = IF old[r] = None THEN r ELSE old[r]
    /\ Answered(r, "create") \/ Answered(r, "set") => Live(n)
    /\ pc[r] = "del_point" => vid[r] = mapping[n].vid
    /\ pc[r] = "del_node" => mapping[n].vid = None
    /\ pc[r] = "del_node" /\ reply[r] # "none" => ~Live(n)
    /\ Answered(r, "upsert") => PointsOf(n) = {vid[r]}
    /\ Answered(r, "del_point") => PointsOf(n) = {}

\* Node n as long as r is the only request that may be at work on it.
Exact(n, r) ==
    /\ Follows(n, r)
    /\ ~Live(n) => mapping[n].vid = None
    /\ ~Answered(r, "upsert") /\ ~Answered(r, "del_point") => PointsOf(n) = Tracked(n)

Tracking ==
    \A n \in Reqs : Calm(n) =>
        /\ Alone(n)
        /\ ~Live(n) => mapping[n].vid = None
        /\ \A r \in Reqs : On(n, r) => Exact(n, r)
        /\ (\A r \in Reqs : ~On(n, r)) => PointsOf(n) = Tracked(n)

LEMMA BookkeepingInit == Init => Bookkeeping
BY DEF Init, Bookkeeping, NoMap

LEMMA BookkeepingStep ==
    TypeOK /\ CallsOf /\ Bookkeeping /\ [Next]_vars => Bookkeeping'
<1> SUFFICES ASSUME TypeOK, CallsOf, Bookkeeping, [Next]_vars PROVE Bookkeeping'
  OBVIOUS
<1> USE DEF stores, request, locals, bounds, Call, End, Answered
<1>c. ASSUME NEW r \in Reqs, NEW c, pc' = [pc EXCEPT ![r] = c],
             reply' = [reply EXCEPT ![r] = "none"], c # "idle",
             c = "create" => pc[r] = "idle"
      PROVE  /\ \A u \in Reqs : reply'[u] = "missing" =>
                   pc'[u] \in {"get_update", "set", "get_delete", "del_node"}
             /\ \A u \in Reqs : pc'[u] \in {"idle", "create"} => old[u] = None
  BY <1>c DEF Bookkeeping, TypeOK
<1>n. ASSUME NEW n \in Reqs, mapping' = [mapping EXCEPT ![n] = NoMap]
      PROVE  \A m \in Reqs : mapping'[m].vid # None => mapping'[m].status # "none"
  BY <1>n DEF Bookkeeping, NoMap, TypeOK
<1>r. ASSUME NEW r \in Reqs, NEW v, NEW st \in {"synced", "pending"}, Record(r, v, st)
      PROVE  \A m \in Reqs : mapping'[m].vid # None => mapping'[m].status # "none"
  BY <1>r DEF Bookkeeping, Record, TypeOK
<1>s. ASSUME NEW r \in Reqs, NEW n \in Reqs, StartDelete(r, n), old' = old
      PROVE  Bookkeeping'
  BY <1>s, <1>c, <1>n DEF StartDelete, Bookkeeping
<1>1. ASSUME NEW r \in Reqs, NEW k \in Kinds, NEW n \in Reqs, Begin(r, k, n)
      PROVE  Bookkeeping'
  <2>1. CASE k = "import_delete"
    BY <1>1, <1>s, <2>1 DEF Begin
  <2>2. CASE k # "import_delete"
    <3>1. PICK c \in {"create", "get_update", "set", "get_delete"} : Call(r, c)
      BY <1>1, <2>2 DEF Begin, FirstCall
    <3> QED BY <1>1, <1>c, <2>2, <3>1 DEF Begin, Bookkeeping
  <2> QED BY <2>1, <2>2
<1>2. ASSUME NEW r \in Reqs, Serve(r) PROVE Bookkeeping'
  BY <1>2 DEF Serve, Answer, Bookkeeping, TypeOK
<1>3. ASSUME NEW r \in Reqs, AfterCreate(r) PROVE Bookkeeping'
  <2>1. CASE kind[r] = "create"
    BY <1>3, <1>c, <2>1 DEF AfterCreate, Bookkeeping
  <2>2. CASE kind[r] # "create"
    BY <1>3, <1>c, <1>r, <2>2 DEF AfterCreate, Bookkeeping
  <2> QED BY <2>1, <2>2
<1>4. ASSUME NEW r \in Reqs, AfterUpsert(r) PROVE Bookkeeping'
  BY <1>4, <1>c, <1>r DEF AfterUpsert, Bookkeeping
<1>5. ASSUME NEW r \in Reqs, UpsertRaises(r) PROVE Bookkeeping'
  BY <1>5, <1>c DEF UpsertRaises, GiveUp, Bookkeeping
<1>6. ASSUME NEW r \in Reqs, AfterMark(r) PROVE Bookkeeping'
  BY <1>6, <1>c, <1>r DEF AfterMark, Bookkeeping
<1>7. ASSUME NEW r \in Reqs, AfterGetForUpdate(r) PROVE Bookkeeping'
  BY <1>7, <1>c DEF AfterGetForUpdate, Bookkeeping
<1>8. ASSUME NEW r \in Reqs, AfterSet(r) PROVE Bookkeeping'
  <2>1. PICK c \in {"upsert", "ok"} : Call(r, c)
    BY <1>8 DEF AfterSet
  <2>2. \A u \in Reqs : u # r => old'[u] = old[u]
    BY <1>8 DEF AfterSet, TypeOK
  <2>3. \A u \in Reqs : pc'[u] \in {"idle", "create"} => old'[u] = None
    BY <2>1, <2>2 DEF Bookkeeping, TypeOK
  <2>4. mapping' = mapping
    BY <1>8 DEF AfterSet
  <2> QED BY <1>c, <2>1, <2>3, <2>4 DEF Bookkeeping
<1>9. ASSUME NEW r \in Reqs, AfterGetForDelete(r) PROVE Bookkeeping'
  BY <1>9, <1>s DEF AfterGetForDelete, TypeOK
<1>10. ASSUME NEW r \in Reqs, AfterDeletePoint(r) PROVE Bookkeeping'
  <2>1. node[r] \in Reqs
    BY DEF TypeOK
  <2> QED BY <1>10, <1>c, <1>n, <2>1 DEF AfterDeletePoint, Bookkeeping
<1>11. ASSUME NEW r \in Reqs, AfterDeleteNode(r) PROVE Bookkeeping'
  BY <1>11, <1>c DEF AfterDeleteNode, Bookkeeping
<1>12. ASSUME NEW r \in Reqs, NotFound(r) PROVE Bookkeeping'
  BY <1>12, <1>c DEF NotFound, Refuse, Bookkeeping
<1>13. ASSUME NEW r \in Reqs, CallRaises(r) PROVE Bookkeeping'
  BY <1>13, <1>c DEF CallRaises, Bookkeeping
<1>14. ASSUME Restart PROVE Bookkeeping'
  BY <1>14 DEF Restart, NoMap, Bookkeeping, Active, Calls, TypeOK
<1>15. CASE UNCHANGED vars
  BY <1>15 DEF vars, Bookkeeping
<1> QED BY <1>1, <1>2, <1>3, <1>4, <1>5, <1>6, <1>7, <1>8, <1>9, <1>10, <1>11,
           <1>12, <1>13, <1>14, <1>15 DEF Next, Continue

\* One step of request r, its store's answer included.
StepOf(r) ==
    \/ \E k \in Kinds, n \in Reqs : Begin(r, k, n)
    \/ Serve(r) \/ Continue(r) \/ UpsertRaises(r) \/ CallRaises(r)

\* A step of r leaves other requests and other nodes alone.
LeavesOthers(r) ==
    /\ \A u \in Reqs : u # r =>
          /\ pc'[u] = pc[u] /\ reply'[u] = reply[u] /\ kind'[u] = kind[u] /\ node'[u] = node[u]
          /\ vid'[u] = vid[u] /\ old'[u] = old[u] /\ val'[u] = val[u]
    /\ \A m \in Reqs : m # node'[r] =>
          /\ mapping'[m] = mapping[m] /\ graph'[m] = graph[m]
          /\ \A p \in Reqs : points[p].node = m \/ points'[p].node = m => points'[p] = points[p]
    /\ \A m \in Reqs : Calm(m)' => Calm(m)
    /\ pc[r] # "idle" => node'[r] = node[r]

LEMMA Frame ==
    ASSUME TypeOK, Ownership, NEW r \in Reqs, StepOf(r)
    PROVE  LeavesOthers(r)
<1> USE DEF stores, request, locals, bounds, Call, End, Answered
<1>d. ASSUME NEW S, NEW what, Disturb(S, what)
      PROVE  \A m \in Reqs : Calm(m)' => Calm(m)
  BY <1>d DEF Disturb, Calm
<1>e. ASSUME disturbed' = disturbed
      PROVE  \A m \in Reqs : Calm(m)' => Calm(m)
  BY <1>e DEF Calm
<1>t. node[r] \in Reqs
  BY DEF TypeOK
<1>s. ASSUME NEW n \in Reqs, StartDelete(r, n)
      PROVE  /\ \A u \in Reqs : u # r =>
                   pc'[u] = pc[u] /\ reply'[u] = reply[u] /\ vid'[u] = vid[u]
             /\ \A m \in Reqs : m # n => mapping'[m] = mapping[m]
  BY <1>s DEF StartDelete, TypeOK
<1>1. ASSUME NEW k \in Kinds, NEW n \in Reqs, Begin(r, k, n) PROVE LeavesOthers(r)
  <2>1. node' = [node EXCEPT ![r] = n] /\ kind' = [kind EXCEPT ![r] = k] /\ pc[r] = "idle"
        /\ UNCHANGED <<graph, points, val, old>>
    BY <1>1 DEF Begin
  <2>2. \A m \in Reqs : Calm(m)' => Calm(m)
    BY <1>1, <1>d DEF Begin
  <2>3. CASE k = "import_delete"
    BY <1>1, <1>s, <2>1, <2>2, <2>3 DEF Begin, LeavesOthers, TypeOK
  <2>4. CASE k # "import_delete"
    BY <1>1, <2>1, <2>2, <2>4 DEF Begin, LeavesOthers, TypeOK
  <2> QED BY <2>3, <2>4
<1>2. ASSUME Serve(r) PROVE LeavesOthers(r)
  <2>1. \A m \in Reqs : m # node[r] => graph'[m] = graph[m]
    BY <1>2, <1>t DEF Serve, GraphAfter, TypeOK
  <2>2. ASSUME NEW m \in Reqs, m # node[r], NEW p \in Reqs,
               points[p].node = m \/ points'[p].node = m
        PROVE  points'[p] = points[p]
    <3>1. CASE pc[r] \in {"upsert", "del_point"}
      <4>1. Owns(vid[r], node[r]) /\ vid[r] \in Reqs
        BY <3>1 DEF Ownership, Owns
      <4>4. points[vid[r]].node # None => Owns(vid[r], points[vid[r]].node)
        BY <4>1 DEF Ownership
      <4>2. points[vid[r]].node # m
        BY <4>1, <4>4, <2>2, ConstantsAssumption DEF Owns
      <4>3. points'[vid[r]].node # m
        BY <1>2, <3>1, <2>2, <4>1, ConstantsAssumption
           DEF Serve, PointsAfter, TypeOK, NoPoint, Owns
      <4> QED BY <1>2, <3>1, <4>2, <4>3, <2>2 DEF Serve, PointsAfter, TypeOK
    <3>2. CASE pc[r] \notin {"upsert", "del_point"}
      BY <1>2, <3>2 DEF Serve, PointsAfter
    <3> QED BY <3>1, <3>2
  <2> QED BY <1>2, <1>e, <2>1, <2>2 DEF Serve, LeavesOthers, TypeOK
<1>3. ASSUME AfterCreate(r) PROVE LeavesOthers(r)
  BY <1>3, <1>e DEF AfterCreate, Record, LeavesOthers, TypeOK
<1>4. ASSUME AfterUpsert(r) PROVE LeavesOthers(r)
  BY <1>4, <1>e DEF AfterUpsert, Record, LeavesOthers, TypeOK
<1>5. ASSUME UpsertRaises(r) PROVE LeavesOthers(r)
  BY <1>5, <1>d DEF UpsertRaises, GiveUp, LeavesOthers, TypeOK
<1>6. ASSUME AfterMark(r) PROVE LeavesOthers(r)
  BY <1>6, <1>e DEF AfterMark, Record, LeavesOthers, TypeOK
<1>7. ASSUME AfterGetForUpdate(r) PROVE LeavesOthers(r)
  BY <1>7, <1>e DEF AfterGetForUpdate, LeavesOthers, TypeOK
<1>8. ASSUME AfterSet(r) PROVE LeavesOthers(r)
  BY <1>8, <1>e DEF AfterSet, LeavesOthers, TypeOK
<1>9. ASSUME AfterGetForDelete(r) PROVE LeavesOthers(r)
  BY <1>9, <1>e, <1>s, <1>t DEF AfterGetForDelete, LeavesOthers
<1>10. ASSUME AfterDeletePoint(r) PROVE LeavesOthers(r)
  BY <1>10, <1>e DEF AfterDeletePoint, LeavesOthers, TypeOK
<1>11. ASSUME AfterDeleteNode(r) PROVE LeavesOthers(r)
  BY <1>11, <1>e DEF AfterDeleteNode, LeavesOthers, TypeOK
<1>12. ASSUME NotFound(r) PROVE LeavesOthers(r)
  BY <1>12, <1>e DEF NotFound, Refuse, LeavesOthers, TypeOK
<1>13. ASSUME CallRaises(r) PROVE LeavesOthers(r)
  BY <1>13, <1>d DEF CallRaises, LeavesOthers, TypeOK
<1> QED BY <1>1, <1>2, <1>3, <1>4, <1>5, <1>6, <1>7, <1>8, <1>9, <1>10, <1>11,
           <1>12, <1>13 DEF StepOf, Continue

\* A step of a request on a calm node: nobody else is at work there, before
\* the step and after it.
LEMMA OnlyOne ==
    ASSUME TypeOK, Ownership, Tracking, NEW r \in Reqs, StepOf(r),
           NEW n \in Reqs, n = node'[r], Calm(n)'
    PROVE  /\ Calm(n)
           /\ \A u \in Reqs : u # r => ~On(n, u) /\ ~On(n, u)'
           /\ pc[r] = "idle" \/ On(n, r)
<1>1. LeavesOthers(r)
  BY Frame
<1>2. Calm(n)
  BY <1>1 DEF LeavesOthers
<1>3. pc[r] = "idle" \/ On(n, r)
  BY <1>1, ConstantsAssumption
     DEF StepOf, Begin, Serve, Continue, UpsertRaises, CallRaises, AfterCreate, AfterUpsert,
         AfterMark, AfterGetForUpdate, AfterSet, AfterGetForDelete, AfterDeletePoint,
         AfterDeleteNode, NotFound, Answered, Active, Calls, On, LeavesOthers
<1>4. ASSUME NEW u \in Reqs, u # r PROVE ~On(n, u)
  <2>1. CASE On(n, r)
    BY <2>1, <1>2, <1>4 DEF Tracking, Alone
  <2>2. CASE pc[r] = "idle"
    <3>1. PICK k \in Kinds, m \in Reqs : Begin(r, k, m)
      BY <2>2 DEF StepOf, Serve, Continue, UpsertRaises, CallRaises, AfterCreate,
         AfterUpsert, AfterMark, AfterGetForUpdate, AfterSet, AfterGetForDelete,
         AfterDeletePoint, AfterDeleteNode, NotFound, Answered, Active, Calls
    <3>2. m = n
      BY <3>1 DEF Begin, TypeOK
    <3>3. Disturb({w \in {n} : \E x \in Reqs : Active(x) /\ node[x] = w}, "overlap")
      BY <3>1, <3>2 DEF Begin
    <3>4. ASSUME On(n, u) PROVE "overlap" \in disturbed'[n]
      <4>1. n \in {w \in {n} : \E x \in Reqs : Active(x) /\ node[x] = w}
        BY <3>4 DEF On
      <4> QED BY <3>3, <4>1 DEF Disturb
    <3> QED BY <3>4 DEF Calm
  <2> QED BY <1>3, <2>1, <2>2
<1>5. \A u \in Reqs : u # r => (On(n, u)' <=> On(n, u))
  BY <1>1 DEF LeavesOthers, On, Active
<1> QED BY <1>2, <1>3, <1>4, <1>5

\* The store's answer to the only request on a node keeps it exact.
LEMMA ExactServe ==
    ASSUME TypeOK, CallsOf, Ownership, Existence, NEW r \in Reqs, NEW n \in Reqs,
           n = node[r], Exact(n, r), Serve(r)
    PROVE  Exact(n, r)'
<1> USE DEF stores, request, locals, bounds, Answered
<1>1. /\ pc' = pc /\ mapping' = mapping /\ vid' = vid /\ old' = old
      /\ reply'[r] = Answer(r) /\ graph' = GraphAfter(r) /\ points' = PointsAfter(r)
      /\ pc[r] \in Calls /\ reply[r] = "none"
  BY DEF Serve, TypeOK, Active
<1>2. /\ graph \in [Reqs -> NodeType] /\ points \in [Reqs -> PointType]
      /\ vid[r] \in Reqs \cup {None} /\ old[r] \in Reqs \cup {None}
      /\ mapping[n].vid \in Reqs \cup {None}
  BY DEF TypeOK, NodeType, PointType
<1>3. pc[r] \in {"upsert", "del_point"} => vid[r] \in Reqs
  BY DEF Ownership, Owns
<1>4. ASSUME points' = points PROVE PointsOf(n)' = PointsOf(n) /\ Tracked(n)' = Tracked(n)
  BY <1>1, <1>4 DEF PointsOf, Tracked
<1>5. CASE pc[r] = "create"
  <2>1. points' = points /\ Live(n)' /\ reply'[r] = "done"
    BY <1>1, <1>2, <1>5 DEF PointsAfter, GraphAfter, Live, NodeType, Answer
  <2> QED BY <1>1, <1>4, <1>5, <2>1 DEF Exact, Follows
<1>6. CASE pc[r] = "upsert"
  <2>1. graph' = graph /\ reply'[r] = "done"
    BY <1>1, <1>6 DEF GraphAfter, Answer
  <2>2. points' = [points EXCEPT ![vid[r]] = [node |-> n, val |-> val[r]]]
    BY <1>1, <1>6 DEF PointsAfter
  <2>3. PointsOf(n)' = PointsOf(n) \cup {vid[r]}
    BY <2>2, <1>2, <1>3, <1>6 DEF PointsOf
  <2>4. PointsOf(n) \subseteq {vid[r]}
    <3>1. PointsOf(n) = Tracked(n) /\ mapping[n].vid = old[r]
          /\ vid[r] = IF old[r] = None THEN r ELSE old[r]
      BY <1>1, <1>6 DEF Exact, Follows
    <3>2. CASE old[r] = None
      BY <3>1, <3>2, ConstantsAssumption DEF Tracked
    <3>3. CASE old[r] # None
      BY <3>1, <3>3 DEF Tracked
    <3> QED BY <3>2, <3>3
  <2>5. PointsOf(n)' = {vid[r]}
    BY <2>3, <2>4
  <2> QED BY <1>1, <1>6, <2>1, <2>5 DEF Exact, Follows, Live
<1>7. CASE pc[r] = "del_point"
  <2>1. graph' = graph /\ reply'[r] = "done"
    BY <1>1, <1>7 DEF GraphAfter, Answer
  <2>2. points' = [points EXCEPT ![vid[r]] = NoPoint]
    BY <1>1, <1>7 DEF PointsAfter
  <2>3. PointsOf(n)' = PointsOf(n) \ {vid[r]}
    BY <2>2, <1>2, <1>3, <1>7, ConstantsAssumption DEF PointsOf, NoPoint
  <2>4. PointsOf(n) \subseteq {vid[r]}
    BY <1>1, <1>7, <1>2 DEF Exact, Follows, Tracked
  <2>5. PointsOf(n)' = {}
    BY <2>3, <2>4
  <2> QED BY <1>1, <1>7, <2>1, <2>5 DEF Exact, Follows, Live
<1>8. CASE pc[r] = "del_node"
  <2>1. points' = points /\ ~Live(n)' /\ (reply'[r] = "done" \/ reply'[r] = "missing")
    BY <1>1, <1>2, <1>8 DEF PointsAfter, GraphAfter, Live, NodeType, Answer
  <2> QED BY <1>1, <1>4, <1>8, <2>1 DEF Exact, Follows
<1>9. CASE pc[r] \in {"mark", "get_update", "set", "get_delete"}
  <2>1. points' = points /\ (Live(n)' <=> Live(n))
    BY <1>1, <1>2, <1>9 DEF PointsAfter, GraphAfter, Live, NodeType
  <2>2. pc[r] = "set" /\ reply'[r] = "done" => Live(n)
    BY <1>1, <1>9 DEF Answer
  <2> QED BY <1>1, <1>4, <1>9, <2>1, <2>2 DEF Exact, Follows
<1> QED BY <1>1, <1>5, <1>6, <1>7, <1>8, <1>9 DEF Calls

\* So does every step of its own.
LEMMA ExactStep ==
    ASSUME TypeOK, CallsOf, Ownership, Existence, Bookkeeping,
           NEW r \in Reqs, NEW n \in Reqs, n = node'[r], Exact(n, r), Calm(n)',
           StepOf(r), pc[r] = "idle" \/ On(n, r)
    PROVE  Exact(n, r)'
<1> USE DEF stores, request, locals, bounds, Call, End, Answered
<1>t. /\ pc \in [Reqs -> Calls \cup Ended \cup {"idle"}]
      /\ reply \in [Reqs -> {"none", "done", "missing"}]
      /\ vid \in [Reqs -> Reqs \cup {None}] /\ old \in [Reqs -> Reqs \cup {None}]
      /\ mapping \in [Reqs -> [status: {"none", "synced", "pending"}, vid: Reqs \cup {None}]]
      /\ node \in [Reqs -> Reqs]
  BY DEF TypeOK
<1>p. ASSUME points' = points, graph' = graph
      PROVE  PointsOf(n)' = PointsOf(n) /\ (Live(n)' <=> Live(n))
  BY <1>p DEF PointsOf, Live
<1>m. ASSUME mapping' = mapping \/ mapping'[n].vid = mapping[n].vid
      PROVE  Tracked(n)' = Tracked(n)
  BY <1>m DEF Tracked
<1>n. ASSUME mapping'[n].vid = None PROVE Tracked(n)' = {}
  BY <1>n, ConstantsAssumption DEF Tracked
<1>d. ASSUME NEW S, NEW what, Disturb(S, what) PROVE n \notin S
  BY <1>d DEF Disturb, Calm
<1>s. ASSUME StartDelete(r, n), points' = points, graph' = graph, old' = old,
             PointsOf(n) = Tracked(n)
      PROVE  Exact(n, r)'
  <2>1. CASE mapping[n].vid = None
    <3>1. mapping'[n].vid = None /\ pc'[r] = "del_node" /\ reply'[r] = "none"
      BY <1>s, <1>t, <2>1 DEF StartDelete, NoMap
    <3>2. PointsOf(n) = {}
      BY <1>s, <2>1, ConstantsAssumption DEF Tracked
    <3> QED BY <3>1, <3>2, <1>p, <1>n, <1>s DEF Exact, Follows
  <2>2. CASE mapping[n].vid # None
    <3>1. mapping' = mapping /\ pc'[r] = "del_point" /\ reply'[r] = "none"
          /\ vid'[r] = mapping[n].vid
      BY <1>s, <1>t, <2>2 DEF StartDelete
    <3> QED BY <3>1, <1>p, <1>m, <1>s DEF Exact, Follows
  <2> QED BY <2>1, <2>2
<1>1. ASSUME NEW k \in Kinds, NEW m \in Reqs, Begin(r, k, m) PROVE Exact(n, r)'
  <2>1. m = n /\ pc[r] = "idle" /\ graph' = graph /\ points' = points /\ old' = old
    BY <1>1, <1>t DEF Begin
  <2>2. CASE k = "import_delete"
    BY <1>1, <2>1, <2>2, <1>s DEF Begin, Exact
  <2>3. CASE k # "import_delete"
    <3>1. mapping' = mapping /\ pc'[r] = FirstCall(k) /\ reply'[r] = "none"
      BY <1>1, <1>t, <2>3 DEF Begin
    <3>2. FirstCall(k) \in {"create", "get_update", "set", "get_delete"}
      BY <2>3 DEF FirstCall
    <3>3. FirstCall(k) = "create" => mapping[n].vid = None
      <4>1. FirstCall(k) = "create" => n = r
        BY <1>1, <2>1 DEF Begin
      <4>2. n = r => ~Live(n)
        BY <2>1 DEF Existence, Live
      <4> QED BY <4>1, <4>2 DEF Exact
    <3> QED BY <2>1, <3>1, <3>2, <3>3, <1>p, <1>m DEF Exact, Follows
  <2> QED BY <2>2, <2>3
<1>2. ASSUME Serve(r) PROVE Exact(n, r)'
  BY <1>2, ExactServe DEF Serve
<1>3. ASSUME AfterCreate(r) PROVE Exact(n, r)'
  <2>1. graph' = graph /\ points' = points /\ old' = old /\ pc[r] = "create" /\ n = node[r]
        /\ reply[r] = "done"
    BY <1>3 DEF AfterCreate
  <2>2. mapping[n].vid = None /\ old[r] = None /\ Live(n) /\ PointsOf(n) = Tracked(n)
    BY <2>1 DEF Exact, Follows, Bookkeeping
  <2>3. CASE kind[r] = "create"
    <3>1. vid'[r] = r /\ pc'[r] = "upsert" /\ reply'[r] = "none" /\ mapping' = mapping
      BY <1>3, <1>t, <2>3 DEF AfterCreate
    <3> QED BY <2>1, <2>2, <3>1, <1>p, <1>m DEF Exact, Follows
  <2>4. CASE kind[r] # "create"
    <3>1. mapping'[n].vid = None /\ pc'[r] = "ok"
      BY <1>3, <1>t, <2>1, <2>4 DEF AfterCreate, Record
    <3> QED BY <2>1, <2>2, <3>1, <1>p, <1>m DEF Exact, Follows
  <2> QED BY <2>3, <2>4
<1>4. ASSUME AfterUpsert(r) PROVE Exact(n, r)'
  <2>1. graph' = graph /\ points' = points /\ n = node[r] /\ pc[r] = "upsert" /\ reply[r] = "done"
        /\ mapping'[n].vid = vid[r] /\ pc'[r] = "ok"
    BY <1>4, <1>t DEF AfterUpsert, Record
  <2>2. vid[r] \in Reqs
    BY <2>1 DEF Ownership, Owns
  <2>3. Tracked(n)' = {vid[r]}
    BY <2>1, <2>2 DEF Tracked
  <2> QED BY <2>1, <2>3, <1>p DEF Exact, Follows
<1>5. ASSUME UpsertRaises(r) PROVE Exact(n, r)'
  <2>1. graph' = graph /\ points' = points /\ n = node[r] /\ pc[r] = "upsert"
        /\ vid' = vid /\ old' = old /\ mapping' = mapping
        /\ reply'[r] = "none" /\ pc'[r] \in {"upsert", "mark"}
    BY <1>5, <1>t DEF UpsertRaises, GiveUp
  <2>2. reply[r] # "done"
    BY <1>5, <1>d, <2>1 DEF UpsertRaises
  <2> QED BY <2>1, <2>2, <1>p, <1>m DEF Exact, Follows
<1>6. ASSUME AfterMark(r) PROVE Exact(n, r)'
  <2>1. graph' = graph /\ points' = points /\ n = node[r] /\ pc[r] = "mark"
        /\ mapping'[n].vid = old[r] /\ pc'[r] = "ok"
    BY <1>6, <1>t DEF AfterMark, Record
  <2> QED BY <2>1, <1>p, <1>m DEF Exact, Follows
<1>7. ASSUME AfterGetForUpdate(r) PROVE Exact(n, r)'
  BY <1>7, <1>t, <1>p, <1>m DEF AfterGetForUpdate, Exact, Follows
<1>8. ASSUME AfterSet(r) PROVE Exact(n, r)'
  <2>1. graph' = graph /\ points' = points /\ n = node[r] /\ pc[r] = "set" /\ reply[r] = "done"
        /\ mapping' = mapping
    BY <1>8 DEF AfterSet
  <2>2. CASE kind[r] = "update"
    <3>1. /\ pc'[r] = "upsert" /\ reply'[r] = "none" /\ old'[r] = mapping[n].vid
          /\ vid'[r] = IF mapping[n].vid = None THEN r ELSE mapping[n].vid
      BY <1>8, <1>t, <2>1, <2>2 DEF AfterSet
    <3> QED BY <2>1, <3>1, <1>p, <1>m DEF Exact, Follows
  <2>3. CASE kind[r] # "update"
    <3>1. pc'[r] = "ok"
      BY <1>8, <1>t, <2>3 DEF AfterSet
    <3> QED BY <2>1, <3>1, <1>p, <1>m DEF Exact, Follows
  <2> QED BY <2>2, <2>3
<1>9. ASSUME AfterGetForDelete(r) PROVE Exact(n, r)'
  BY <1>9, <1>s DEF AfterGetForDelete, Exact
<1>10. ASSUME AfterDeletePoint(r) PROVE Exact(n, r)'
  <2>1. graph' = graph /\ points' = points /\ n = node[r] /\ pc[r] = "del_point" /\ reply[r] = "done"
        /\ mapping'[n].vid = None /\ pc'[r] \in {"failed", "del_node"} /\ reply'[r] = "none"
    BY <1>10, <1>t DEF AfterDeletePoint, NoMap
  <2> QED BY <2>1, <1>p, <1>n DEF Exact, Follows
<1>11. ASSUME AfterDeleteNode(r) PROVE Exact(n, r)'
  BY <1>11, <1>t, <1>p, <1>m DEF AfterDeleteNode, Exact, Follows
<1>12. ASSUME NotFound(r) PROVE Exact(n, r)'
  <2>1. pc'[r] = "failed" /\ mapping' = mapping /\ graph' = graph /\ points' = points
    BY <1>12, <1>t DEF NotFound, Refuse
  <2>2. ~Answered(r, "upsert") /\ ~Answered(r, "del_point")
    BY <1>12 DEF NotFound
  <2> QED BY <2>1, <2>2, <1>p, <1>m DEF Exact, Follows
<1>13. ASSUME CallRaises(r) PROVE Exact(n, r)'
  BY <1>13, <1>d DEF CallRaises
<1> QED BY <1>1, <1>2, <1>3, <1>4, <1>5, <1>6, <1>7, <1>8, <1>9, <1>10, <1>11,
           <1>12, <1>13 DEF StepOf, Continue

LEMMA TrackingStep ==
    TypeOK /\ CallsOf /\ Ownership /\ Existence /\ Bookkeeping /\ Tracking /\ [Next]_vars
      => Tracking'
<1> SUFFICES ASSUME TypeOK, CallsOf, Ownership, Existence, Bookkeeping, Tracking,
                    [Next]_vars, NEW n \in Reqs, Calm(n)'
             PROVE  (/\ Alone(n)
                     /\ ~Live(n) => mapping[n].vid = None
                     /\ \A r \in Reqs : On(n, r) => Exact(n, r)
                     /\ (\A r \in Reqs : ~On(n, r)) => PointsOf(n) = Tracked(n))'
  BY DEF Tracking
<1> DEFINE Good == /\ Alone(n)
                   /\ ~Live(n) => mapping[n].vid = None
                   /\ \A r \in Reqs : On(n, r) => Exact(n, r)
                   /\ (\A r \in Reqs : ~On(n, r)) => PointsOf(n) = Tracked(n)
<1>1. ASSUME NEW r \in Reqs, StepOf(r), n = node'[r] PROVE Good'
  <2>1. /\ Calm(n) /\ \A u \in Reqs : u # r => ~On(n, u) /\ ~On(n, u)'
        /\ pc[r] = "idle" \/ On(n, r)
    BY <1>1, OnlyOne
  <2>2. Exact(n, r)
    BY <2>1 DEF Tracking, Exact, Follows, On, Active, Calls, Answered
  <2>3. Exact(n, r)'
    BY <1>1, <2>1, <2>2, ExactStep
  <2>4. Alone(n)' /\ \A u \in Reqs : On(n, u)' => Exact(n, u)'
    BY <2>1, <2>3 DEF Alone
  <2>5. ~On(n, r)' => ~Answered(r, "upsert")' /\ ~Answered(r, "del_point")'
    BY <1>1 DEF On, Active, Calls, Answered
  <2> QED BY <2>3, <2>4, <2>5 DEF Exact
<1>2. ASSUME NEW r \in Reqs, StepOf(r), n # node'[r] PROVE Good'
  <2>1. LeavesOthers(r)
    BY <1>2, Frame
  <2>2. Calm(n) /\ mapping'[n] = mapping[n] /\ graph'[n] = graph[n]
    BY <1>2, <2>1 DEF LeavesOthers
  <2>3. PointsOf(n)' = PointsOf(n) /\ Tracked(n)' = Tracked(n) /\ (Live(n)' <=> Live(n))
    BY <1>2, <2>1, <2>2 DEF LeavesOthers, PointsOf, Tracked, Live
  <2>4. ~On(n, r) /\ ~On(n, r)'
    BY <1>2, <2>1, ConstantsAssumption
       DEF LeavesOthers, On, Active, Calls
  <2>5. \A u \in Reqs : u # r => (On(n, u)' <=> On(n, u)) /\ (Exact(n, u)' <=> Exact(n, u))
    BY <2>1, <2>2, <2>3 DEF LeavesOthers, On, Active, Exact, Follows, Answered
  <2> QED BY <2>2, <2>3, <2>4, <2>5 DEF Tracking, Alone
<1>3. ASSUME Restart PROVE Good'
  <2>0. n \notin {m \in Reqs : Live(m) \/ \E r \in Reqs : Active(r) /\ node[r] = m}
    <3>1. Disturb({m \in Reqs : Live(m) \/ \E r \in Reqs : Active(r) /\ node[r] = m}, "restart")
      BY <1>3 DEF Restart
    <3> QED BY <3>1 DEF Disturb, Calm
  <2>1. \A r \in Reqs : ~On(n, r)' /\ ~On(n, r)
    <3>1. \A r \in Reqs : ~On(n, r)
      BY <2>0 DEF On
    <3>2. \A r \in Reqs : pc'[r] \notin Calls
      BY <1>3 DEF Restart, Active, Calls
    <3> QED BY <3>1, <3>2 DEF On, Active
  <2>2. Calm(n) /\ ~Live(n) /\ graph' = graph /\ points' = points /\ mapping'[n].vid = None
    BY <1>3, <2>0 DEF Restart, Disturb, Calm, NoMap, stores
  <2>3. PointsOf(n) = Tracked(n) /\ mapping[n].vid = None
    BY <2>1, <2>2 DEF Tracking
  <2> QED BY <2>1, <2>2, <2>3 DEF Alone, PointsOf, Tracked, Live
<1>4. CASE UNCHANGED vars
  BY <1>4 DEF vars, stores, request, locals, Calm, Tracking, Alone, On, Active, Live, Exact,
              Follows, Answered, PointsOf, Tracked
<1> QED BY <1>1, <1>2, <1>3, <1>4 DEF Next, StepOf

-----------------------------------------------------------------------------
(* Requests that do not overlap leave the vector fresh                     *)

NoImports(n) ==
    \A r \in Reqs : node[r] = n => kind[r] \notin {"import_create", "import_update"}
Fresh(n) ==
    \/ graph[n].status = "pending"
    \/ \E p \in Reqs : points[p] = [node |-> n, val |-> graph[n].val]

\* Request r may have left its node without a fresh vector, for now.
Working(r) ==
    \/ pc[r] = "create" \/ Answered(r, "set")
    \/ pc[r] \in {"upsert", "mark"} /\ reply[r] # "done"
    \/ pc[r] \in {"del_point", "del_node"}

\* The content that the only request on a node has read, written or embedded.
Carries(n, r) ==
    /\ Answered(r, "create") => graph[n].val = {r}
    /\ Answered(r, "get_update") \/ pc[r] = "set" => val[r] = graph[n].val \cup {r}
    /\ Answered(r, "set") \/ pc[r] = "upsert" => val[r] = graph[n].val
    /\ Answered(r, "upsert") => points[vid[r]] = [node |-> n, val |-> val[r]]

Faithful(n, r) == Carries(n, r) /\ (Live(n) /\ ~Working(r) => Fresh(n))

Freshness ==
    \A n \in Reqs : Calm(n) /\ NoImports(n) =>
        /\ \A r \in Reqs : On(n, r) => Carries(n, r)
        /\ Live(n) /\ (\A r \in Reqs : On(n, r) => ~Working(r)) => Fresh(n)

LEMMA FreshServe ==
    ASSUME TypeOK, Ownership, NEW r \in Reqs, NEW n \in Reqs,
           n = node[r], Exact(n, r), Faithful(n, r), Serve(r)
    PROVE  Faithful(n, r)'
<1> USE DEF stores, request, locals, bounds, Answered
<1>1. /\ pc' = pc /\ vid' = vid /\ reply'[r] = Answer(r) /\ val'[r] = Merged(r)
      /\ graph' = GraphAfter(r) /\ points' = PointsAfter(r)
      /\ pc[r] \in Calls /\ reply[r] = "none"
  BY DEF Serve, TypeOK, Active
<1>2. /\ graph \in [Reqs -> NodeType] /\ points \in [Reqs -> PointType]
      /\ val \in [Reqs -> SUBSET Reqs]
  BY DEF TypeOK, NodeType, PointType
<1>3. points' = points /\ graph' = graph => (Fresh(n)' <=> Fresh(n)) /\ (Live(n)' <=> Live(n))
  BY DEF Fresh, Live
<1>4. CASE pc[r] = "create"
  <2>1. graph'[n].val = {r}
    BY <1>1, <1>2, <1>4 DEF GraphAfter, NodeType
  <2> QED BY <1>1, <1>4, <2>1 DEF Faithful, Carries, Working
<1>5. CASE pc[r] = "get_update"
  <2>1. graph' = graph /\ points' = points /\ val'[r] = graph[n].val \cup {r}
    BY <1>1, <1>5 DEF GraphAfter, PointsAfter, Merged
  <2> QED BY <1>1, <1>3, <1>5, <2>1 DEF Faithful, Carries, Working
<1>6. CASE pc[r] = "set"
  <2>1. points' = points /\ val'[r] = val[r] /\ val[r] = graph[n].val \cup {r}
    BY <1>1, <1>6 DEF PointsAfter, Merged, Faithful, Carries
  <2>2. CASE Live(n)
    <3>1. graph'[n].val = graph[n].val \cup {r} /\ reply'[r] = "done"
      BY <1>1, <1>2, <1>6, <2>2 DEF GraphAfter, NodeType, Answer
    <3> QED BY <1>1, <1>6, <2>1, <3>1 DEF Faithful, Carries, Working
  <2>3. CASE ~Live(n)
    <3>1. graph' = graph /\ reply'[r] = "missing"
      BY <1>1, <1>6, <2>3 DEF GraphAfter, Answer
    <3> QED BY <1>1, <1>3, <1>6, <2>1, <2>3, <3>1 DEF Faithful, Carries, Working
  <2> QED BY <2>2, <2>3
<1>7. CASE pc[r] = "upsert"
  <2>1. graph' = graph /\ val'[r] = val[r] /\ val[r] = graph[n].val
    BY <1>1, <1>7 DEF GraphAfter, Merged, Faithful, Carries
  <2>2. vid[r] \in Reqs
    BY <1>7 DEF Ownership, Owns
  <2>3. points'[vid[r]] = [node |-> n, val |-> val[r]]
    BY <1>1, <1>2, <1>7, <2>2 DEF PointsAfter
  <2>4. Fresh(n)'
    BY <2>1, <2>2, <2>3 DEF Fresh
  <2> QED BY <1>1, <1>7, <2>1, <2>3, <2>4 DEF Faithful, Carries
<1>8. CASE pc[r] = "mark"
  <2>1. graph'[n].status = "pending"
    BY <1>1, <1>2, <1>8 DEF GraphAfter, Exact, Follows, NodeType
  <2> QED BY <1>1, <1>8, <2>1 DEF Faithful, Carries, Fresh
<1>9. CASE pc[r] = "get_delete"
  <2>1. graph' = graph /\ points' = points
    BY <1>1, <1>9 DEF GraphAfter, PointsAfter
  <2> QED BY <1>1, <1>3, <1>9, <2>1 DEF Faithful, Carries, Working
<1>10. CASE pc[r] \in {"del_point", "del_node"}
  BY <1>1, <1>10 DEF Faithful, Carries, Working
<1> QED BY <1>1, <1>4, <1>5, <1>6, <1>7, <1>8, <1>9, <1>10 DEF Calls

LEMMA FreshStep ==
    ASSUME TypeOK, CallsOf, Ownership, Bookkeeping,
           NEW r \in Reqs, NEW n \in Reqs, n = node'[r], Exact(n, r), Faithful(n, r),
           Calm(n)', NoImports(n)', StepOf(r), pc[r] = "idle" \/ On(n, r)
    PROVE  Faithful(n, r)'
<1> USE DEF stores, request, locals, bounds, Call, End, Answered
<1>t. /\ pc \in [Reqs -> Calls \cup Ended \cup {"idle"}]
      /\ reply \in [Reqs -> {"none", "done", "missing"}]
      /\ vid \in [Reqs -> Reqs \cup {None}] /\ val \in [Reqs -> SUBSET Reqs]
      /\ mapping \in [Reqs -> [status: {"none", "synced", "pending"}, vid: Reqs \cup {None}]]
      /\ node \in [Reqs -> Reqs] /\ kind \in [Reqs -> AllKinds]
  BY DEF TypeOK
<1>i. kind'[r] \notin {"import_create", "import_update"}
  BY DEF NoImports
<1>d. ASSUME NEW S, NEW what, Disturb(S, what) PROVE n \notin S
  BY <1>d DEF Disturb, Calm
<1>f. points' = points /\ graph' = graph => (Fresh(n)' <=> Fresh(n)) /\ (Live(n)' <=> Live(n))
  BY DEF Fresh, Live
<1>r. ASSUME pc'[r] \in Ended, Live(n)' => Fresh(n)' PROVE Faithful(n, r)'
  BY <1>r DEF Faithful, Carries, Ended
<1>w. ASSUME pc'[r] \in {"del_point", "del_node"} PROVE Faithful(n, r)'
  BY <1>w DEF Faithful, Carries, Working
<1>s. ASSUME StartDelete(r, n) PROVE pc'[r] \in {"del_point", "del_node"}
  BY <1>s, <1>t DEF StartDelete
<1>1. ASSUME NEW k \in Kinds, NEW m \in Reqs, Begin(r, k, m) PROVE Faithful(n, r)'
  <2>1. m = n /\ pc[r] = "idle" /\ graph' = graph /\ points' = points /\ kind'[r] = k
    BY <1>1, <1>t DEF Begin
  <2>2. CASE k = "import_delete"
    BY <1>1, <1>s, <1>w, <2>1, <2>2 DEF Begin
  <2>3. CASE k # "import_delete"
    <3>1. pc'[r] = FirstCall(k) /\ reply'[r] = "none"
      BY <1>1, <1>t, <2>3 DEF Begin
    <3>2. FirstCall(k) \in {"create", "get_update", "get_delete"}
      BY <1>i, <2>1, <2>3 DEF FirstCall
    <3>3. Live(n) => Fresh(n)
      BY <2>1 DEF Faithful, Working
    <3> QED BY <1>f, <2>1, <3>1, <3>2, <3>3 DEF Faithful, Carries, Working
  <2> QED BY <2>2, <2>3
<1>2. ASSUME Serve(r) PROVE Faithful(n, r)'
  BY <1>2, FreshServe DEF Serve
<1>3. ASSUME AfterCreate(r) PROVE Faithful(n, r)'
  <2>1. n = node[r] /\ kind'[r] = kind[r] /\ graph' = graph /\ Answered(r, "create")
    BY <1>3 DEF AfterCreate
  <2>2. kind[r] = "create"
    BY <1>i, <2>1 DEF CallsOf, Creates
  <2>3. val'[r] = {r} /\ pc'[r] = "upsert" /\ reply'[r] = "none"
    BY <1>3, <1>t, <2>2 DEF AfterCreate
  <2> QED BY <2>1, <2>3 DEF Faithful, Carries, Working
<1>4. ASSUME AfterUpsert(r) PROVE Faithful(n, r)'
  <2>1. graph' = graph /\ points' = points /\ pc'[r] = "ok"
    BY <1>4, <1>t DEF AfterUpsert
  <2>2. Live(n) => Fresh(n)
    BY <1>4 DEF AfterUpsert, Faithful, Working
  <2> QED BY <1>f, <1>r, <2>1, <2>2 DEF Ended
<1>5. ASSUME UpsertRaises(r) PROVE Faithful(n, r)'
  <2>1. /\ graph' = graph /\ n = node[r] /\ pc[r] = "upsert" /\ val' = val
        /\ reply'[r] = "none" /\ pc'[r] \in {"upsert", "mark"}
    BY <1>5, <1>t DEF UpsertRaises, GiveUp
  <2> QED BY <2>1 DEF Faithful, Carries, Working
<1>6. ASSUME AfterMark(r) PROVE Faithful(n, r)'
  <2>1. graph' = graph /\ points' = points /\ pc'[r] = "ok"
    BY <1>6, <1>t DEF AfterMark
  <2>2. Live(n) => Fresh(n)
    BY <1>6 DEF AfterMark, Faithful, Working
  <2> QED BY <1>f, <1>r, <2>1, <2>2 DEF Ended
<1>7. ASSUME AfterGetForUpdate(r) PROVE Faithful(n, r)'
  <2>1. /\ graph' = graph /\ points' = points /\ val' = val
        /\ pc'[r] = "set" /\ reply'[r] = "none" /\ Answered(r, "get_update")
    BY <1>7, <1>t DEF AfterGetForUpdate
  <2> QED BY <1>f, <2>1 DEF Faithful, Carries, Working
<1>8. ASSUME AfterSet(r) PROVE Faithful(n, r)'
  <2>1. n = node[r] /\ kind'[r] = kind[r] /\ graph' = graph /\ val' = val /\ Answered(r, "set")
    BY <1>8 DEF AfterSet
  <2>2. kind[r] = "update"
    BY <1>i, <2>1 DEF CallsOf, Updates
  <2>3. pc'[r] = "upsert" /\ reply'[r] = "none"
    BY <1>8, <1>t, <2>2 DEF AfterSet
  <2> QED BY <2>1, <2>3 DEF Faithful, Carries, Working
<1>9. ASSUME AfterGetForDelete(r) PROVE Faithful(n, r)'
  BY <1>9, <1>s, <1>w DEF AfterGetForDelete
<1>10. ASSUME AfterDeletePoint(r) PROVE Faithful(n, r)'
  <2>1. n = node[r] /\ pc[r] = "del_point"
    BY <1>10 DEF AfterDeletePoint
  <2>2. vid[r] = mapping[n].vid /\ vid[r] # None
    BY <2>1, ConstantsAssumption DEF Exact, Follows, Ownership, Owns
  <2>3. mapping[n].status # "none"
    BY <2>2 DEF Bookkeeping
  <2>4. pc'[r] = "del_node"
    BY <1>10, <1>t, <2>1, <2>3 DEF AfterDeletePoint
  <2> QED BY <1>w, <2>4
<1>11. ASSUME AfterDeleteNode(r) PROVE Faithful(n, r)'
  <2>1. graph' = graph /\ points' = points /\ pc'[r] = "ok" /\ ~Live(n)
    BY <1>11, <1>t DEF AfterDeleteNode, Exact, Follows
  <2> QED BY <1>f, <1>r, <2>1 DEF Ended
<1>12. ASSUME NotFound(r) PROVE Faithful(n, r)'
  <2>1. pc'[r] = "failed" /\ graph' = graph /\ points' = points
    BY <1>12, <1>t DEF NotFound, Refuse
  <2>2. pc[r] = "del_node" => ~Live(n)
    BY <1>12 DEF NotFound, Exact, Follows
  <2>3. pc[r] # "del_node" => ~Working(r)
    BY <1>12 DEF NotFound, Bookkeeping, Working
  <2> QED BY <1>f, <1>r, <2>1, <2>2, <2>3 DEF Ended, Faithful, Working
<1>13. ASSUME CallRaises(r) PROVE Faithful(n, r)'
  BY <1>13, <1>d DEF CallRaises
<1> QED BY <1>1, <1>2, <1>3, <1>4, <1>5, <1>6, <1>7, <1>8, <1>9, <1>10, <1>11,
           <1>12, <1>13 DEF StepOf, Continue

LEMMA FreshnessStep ==
    TypeOK /\ CallsOf /\ Ownership /\ Existence /\ Bookkeeping /\ Tracking /\ Freshness
      /\ [Next]_vars => Freshness'
<1> DEFINE Good(n) == /\ \A r \in Reqs : On(n, r) => Carries(n, r)
                      /\ Live(n) /\ (\A r \in Reqs : On(n, r) => ~Working(r)) => Fresh(n)
<1> SUFFICES ASSUME TypeOK, CallsOf, Ownership, Existence, Bookkeeping, Tracking, Freshness,
                    [Next]_vars, NEW n \in Reqs, Calm(n)', NoImports(n)'
             PROVE  Good(n)'
  BY DEF Freshness
<1>0. ASSUME NEW r \in Reqs, StepOf(r), LeavesOthers(r) PROVE NoImports(n)
  <2>1. \A u \in Reqs : u # r /\ node[u] = n => kind[u] \notin {"import_create", "import_update"}
    BY <1>0 DEF LeavesOthers, NoImports
  <2>2. CASE pc[r] = "idle"
    BY <2>1, <2>2 DEF CallsOf, NoImports
  <2>3. CASE pc[r] # "idle"
    <3>1. kind' = kind
      BY <1>0, <2>3 DEF StepOf, Begin, Serve, Continue, UpsertRaises, CallRaises, AfterCreate,
         AfterUpsert, AfterMark, AfterGetForUpdate, AfterSet, AfterGetForDelete,
         AfterDeletePoint, AfterDeleteNode, NotFound, request
    <3> QED BY <1>0, <2>1, <2>3, <3>1 DEF LeavesOthers, NoImports
  <2> QED BY <2>2, <2>3
<1>1. ASSUME NEW r \in Reqs, StepOf(r), n = node'[r] PROVE Good(n)'
  <2>1. /\ Calm(n) /\ \A u \in Reqs : u # r => ~On(n, u) /\ ~On(n, u)'
        /\ pc[r] = "idle" \/ On(n, r)
    BY <1>1, OnlyOne
  <2>2. Exact(n, r)
    BY <2>1 DEF Tracking, Exact, Follows, On, Active, Calls, Answered
  <2>3. NoImports(n)
    BY <1>0, <1>1, Frame
  <2>4. /\ \A u \in Reqs : On(n, u) => Carries(n, u)
        /\ Live(n) /\ (\A u \in Reqs : On(n, u) => ~Working(u)) => Fresh(n)
    BY <2>1, <2>3 DEF Freshness
  <2>5. Carries(n, r)
    BY <2>1, <2>4 DEF Carries, Answered
  <2>6. Live(n) /\ ~Working(r) => Fresh(n)
    BY <2>1, <2>4
  <2>7. Faithful(n, r)'
    BY <1>1, <2>1, <2>2, <2>5, <2>6, FreshStep DEF Faithful
  <2>8. ~On(n, r)' => ~Working(r)'
    BY <1>1 DEF On, Active, Calls, Working, Answered
  <2> QED BY <2>1, <2>7, <2>8 DEF Faithful
<1>2. ASSUME NEW r \in Reqs, StepOf(r), n # node'[r] PROVE Good(n)'
  <2>1. LeavesOthers(r)
    BY <1>2, Frame
  <2>2. Calm(n) /\ NoImports(n) /\ graph'[n] = graph[n]
    BY <1>0, <1>2, <2>1 DEF LeavesOthers
  <2>3. (Fresh(n)' <=> Fresh(n)) /\ (Live(n)' <=> Live(n))
    <3>1. \A p \in Reqs : points'[p] = [node |-> n, val |-> graph[n].val]
                            <=> points[p] = [node |-> n, val |-> graph[n].val]
      BY <1>2, <2>1 DEF LeavesOthers
    <3> QED BY <2>2, <3>1 DEF Fresh, Live
  <2>4. ~On(n, r) /\ ~On(n, r)'
    BY <1>2, <2>1, ConstantsAssumption DEF LeavesOthers, On, Active, Calls
  <2>5. ASSUME NEW u \in Reqs, u # r, On(n, u)' PROVE On(n, u) /\ (Working(u)' <=> Working(u))
    BY <2>1, <2>5 DEF LeavesOthers, On, Active, Working, Answered
  <2>6. ASSUME NEW u \in Reqs, u # r, On(n, u)' PROVE Carries(n, u)'
    <3>1. /\ Carries(n, u) /\ pc'[u] = pc[u] /\ reply'[u] = reply[u]
          /\ vid'[u] = vid[u] /\ val'[u] = val[u]
      BY <2>1, <2>2, <2>5, <2>6 DEF LeavesOthers, Freshness
    <3>2. Answered(u, "upsert") => vid[u] \in Reqs
      BY DEF Ownership, Owns, Answered
    <3>3. Answered(u, "upsert") => points'[vid[u]] = points[vid[u]]
      BY <1>2, <2>1, <3>1, <3>2 DEF LeavesOthers, Carries
    <3> QED BY <2>2, <3>1, <3>3 DEF Carries, Answered
  <2>7. \A u \in Reqs : On(n, u) => u # r /\ On(n, u)'
    BY <2>1, <2>4 DEF LeavesOthers, On, Active
  <2> QED BY <2>2, <2>3, <2>4, <2>5, <2>6, <2>7 DEF Freshness
<1>3. ASSUME Restart PROVE Good(n)'
  <2>1. ~Live(n) /\ graph' = graph
    BY <1>3 DEF Restart, Disturb, Calm, stores
  <2>2. \A r \in Reqs : pc'[r] \notin Calls
    BY <1>3 DEF Restart, Active, Calls
  <2> QED BY <2>1, <2>2 DEF On, Active, Live
<1>4. CASE UNCHANGED vars
  BY <1>4 DEF vars, stores, request, locals, Calm, NoImports, Freshness, On, Active, Live,
              Carries, Working, Fresh, Answered
<1> QED BY <1>1, <1>2, <1>3, <1>4 DEF Next, StepOf

\* The registry, for requests that do not overlap.
Quiet == Bookkeeping /\ Tracking /\ Freshness

LEMMA QuietInit == Init => Quiet
<1> SUFFICES ASSUME Init PROVE Tracking /\ Freshness
  BY BookkeepingInit DEF Quiet
<1>1. \A n \in Reqs : ~Live(n) /\ mapping[n].vid = None /\ PointsOf(n) = {} /\ Tracked(n) = {}
  BY ConstantsAssumption DEF Init, Live, NoNode, NoMap, NoPoint, PointsOf, Tracked
<1>2. \A n, r \in Reqs : ~On(n, r)
  BY DEF Init, On, Active, Calls
<1> QED BY <1>1, <1>2 DEF Tracking, Freshness, Alone

\* A settled calm node has the one point its mapping names or none.
LEMMA QuietMeaning == Quiet => PointsTracked /\ FreshOrPending
<1> SUFFICES ASSUME Quiet, NEW n \in Reqs, Settled(n)
             PROVE  /\ PointsOf(n) = {p \in Reqs : Live(n) /\ mapping[n].vid = p}
                    /\ Live(n) /\ NoImports(n) => Fresh(n)
  BY DEF PointsTracked, FreshOrPending, NoImports, Fresh
<1>1. Calm(n) /\ \A r \in Reqs : ~On(n, r)
  BY DEF Settled, Calm, On
<1>2. PointsOf(n) = Tracked(n) /\ (~Live(n) => mapping[n].vid = None)
  BY <1>1 DEF Quiet, Tracking
<1>3. PointsOf(n) = {p \in Reqs : Live(n) /\ mapping[n].vid = p}
  BY <1>2, ConstantsAssumption DEF Tracked
<1>4. Live(n) /\ NoImports(n) => Fresh(n)
  BY <1>1 DEF Quiet, Freshness
<1> QED BY <1>3, <1>4

LEMMA QuietCorrect == Spec => []Quiet
<1>1. Init => Quiet
  BY QuietInit
<1>2. Inv /\ Quiet /\ [Next]_vars => Quiet'
  BY BookkeepingStep, TrackingStep, FreshnessStep DEF Inv, Quiet
<1> QED BY <1>1, <1>2, InvCorrect, PTL DEF Spec

\* Requests that do not overlap keep the registry exact: FKRegistry never
\* loses the point of a node, names one the node does not have, or leaves a
\* point behind when it deletes the node (fk_registry.py, write_with_fk,
\* update_with_fk and delete_with_fk).
THEOREM RegistryIsExact == Spec => []PointsTracked
BY QuietCorrect, QuietMeaning, PTL

\* Requests that do not overlap leave every node of the admin API with a
\* vector embedded from all its properties, or marked pending_vector_sync
\* (write_adapter.py, update_entry; fk_registry.py).
THEOREM VectorsAreFresh == Spec => []FreshOrPending
BY QuietCorrect, QuietMeaning, PTL

=============================================================================
