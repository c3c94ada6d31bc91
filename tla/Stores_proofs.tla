--------------------------- MODULE Stores_proofs ---------------------------
(***************************************************************************)
(* Proofs about what is stored and what is answered from it: memory items, *)
(* knowledge bundles, rows behind the policies, the cache, and the stores  *)
(* in memory beside those they stand for; and about what must be whole:    *)
(* the tables of each revision and their rows, the bootstrap of the        *)
(* knowledge graph, the start and stop of the service.  For any number of  *)
(* requests, rows, calls and migrations.                                   *)
(***************************************************************************)
EXTENDS MCServices_proofs

-----------------------------------------------------------------------------
(* Memory items                                                            *)

ItemRows == [owner : Owners, version : Nat, next : Nat]
Queries == [op : {"keyword", "answer"}, user : Users, org : Orgs \union {NoOrg},
            found : SUBSET Nat, gone : SUBSET Nat]
AnyRequest == {Idle} \union [op : {"update"}, id : Nat, version : Nat]
                     \union [op : {"receipt"}, id : Nat] \union Queries

\* What a request has read stays true of the rows until it is used.
RequestOk(r) ==
    /\ r.op = "update" => r.id \in Ids /\ r.version = items[r.id].version
    /\ r.op = "receipt" => r.id \in Ids /\ r.id \notin receipts /\ r.id \notin reports.error
    /\ r.op \in {"keyword", "answer"} =>
         /\ \A id \in r.found : /\ id \in Ids /\ items[id].owner[1] = r.user
                                /\ r.org # NoOrg => items[id].owner[2] = r.org
                                /\ id \notin r.gone
         /\ \A id \in r.gone : id \in Ids /\ items[id].next # 0
RequestsOk ==
    /\ request \in [Workers -> AnyRequest]
    /\ \A w \in Workers : RequestOk(request[w])
    /\ \A w, v \in Workers : request[w].op = "receipt" /\ request[v].op = "receipt"
                             /\ request[w].id = request[v].id => w = v

\* A superseded row has its successor, a later version a predecessor.
RowsOk ==
    /\ items \in Seq(ItemRows)
    /\ \A id \in Ids : items[id].next # 0 =>
         /\ items[id].next \in Ids
         /\ items[items[id].next].owner = items[id].owner
         /\ items[items[id].next].version = items[id].version + 1
    /\ \A id \in Ids : items[id].version > 1 =>
         \E p \in Ids : /\ items[p].next # 0 /\ items[p].owner = items[id].owner
                        /\ items[p].version + 1 = items[id].version

ReceiptsOk ==
    /\ reports \in [created : SUBSET Nat, error : SUBSET Nat]
    /\ reports.created \subseteq receipts
    /\ receipts \subseteq reports.created \union reports.error
    /\ receipts \subseteq Ids /\ reports.error \subseteq Ids
    /\ reports.created \intersect reports.error = {}

ReadsInv == RowsOk /\ RequestsOk /\ ReceiptsOk

\* Rows are added and superseded, and neither moves nor changes its owner.
Grows ==
    /\ Ids \subseteq Ids'
    /\ \A id \in Ids : /\ items'[id].owner = items[id].owner
                       /\ items'[id].version = items[id].version
                       /\ items[id].next # 0 => items'[id].next # 0

LEMMA RowAdded ==
    ASSUME RowsOk, NEW o \in Owners, InsertFirst(o)
    PROVE  /\ RowsOk' /\ Grows
           /\ NewId \in Nat \ {0} /\ NewId \notin Ids /\ Ids' = Ids \union {NewId}
           /\ \A id \in Ids : items'[id] = items[id]
           /\ items'[NewId] = Row(o, 1)
<1> DEFINE n == Len(items)
           row == Row(o, 1)
<1>1. items \in Seq(ItemRows) /\ n \in Nat /\ DOMAIN items = 1..n
  BY DEF RowsOk
<1>2. row \in ItemRows /\ row.next = 0 /\ row.version = 1 /\ row.owner = o
  BY DEF Row, ItemRows
<1> HIDE DEF row
<1>3. items' = Append(items, row)
  BY DEF InsertFirst, row
<1>4. /\ items' \in Seq(ItemRows) /\ Len(items') = n + 1
      /\ \A i \in 1..n : items'[i] = items[i]
      /\ items'[n + 1] = row
  BY <1>1, <1>2, <1>3, AppendProperties
<1>5. NewId = n + 1 /\ NewId \in Nat \ {0} /\ NewId \notin Ids /\ Ids = 1..n
  BY <1>1 DEF NewId, Ids
<1>6. Ids' = 1..(n + 1)
  BY <1>4 DEF Ids
<1>7. Ids' = Ids \union {NewId}
  BY <1>1, <1>5, <1>6
<1>8. \A id \in Ids : items'[id] = items[id]
  BY <1>4, <1>5
<1>9. items'[NewId] = row
  BY <1>4, <1>5
<1>10. Grows
  BY <1>7, <1>8 DEF Grows
<1> HIDE DEF n
<1>11. RowsOk'
  <2>1. ASSUME NEW id \in Ids', items'[id].next # 0
        PROVE  /\ items'[id].next \in Ids'
               /\ items'[items'[id].next].owner = items'[id].owner
               /\ items'[items'[id].next].version = items'[id].version + 1
    <3>1. id \in Ids /\ items'[id] = items[id]
      BY <1>2, <1>7, <1>8, <1>9, <2>1
    <3>2. items[id].next \in Ids
      BY <2>1, <3>1 DEF RowsOk
    <3> QED BY <1>7, <1>8, <2>1, <3>1, <3>2 DEF RowsOk
  <2>2. ASSUME NEW id \in Ids', items'[id].version > 1
        PROVE  \E p \in Ids' : /\ items'[p].next # 0 /\ items'[p].owner = items'[id].owner
                               /\ items'[p].version + 1 = items'[id].version
    <3>1. id \in Ids /\ items'[id] = items[id]
      BY <1>2, <1>7, <1>8, <1>9, <2>2
    <3>2. PICK p \in Ids : /\ items[p].next # 0 /\ items[p].owner = items[id].owner
                           /\ items[p].version + 1 = items[id].version
      BY <2>2, <3>1 DEF RowsOk
    <3>3. items'[p] = items[p] /\ p \in Ids'
      BY <1>7, <1>8
    <3> QED BY <3>1, <3>2, <3>3
  <2> QED BY <1>4, <2>1, <2>2 DEF RowsOk
<1> QED BY <1>5, <1>7, <1>8, <1>9, <1>10, <1>11 DEF row

LEMMA RowSucceeded ==
    ASSUME RowsOk, NEW id \in Ids, NEW version, version = items[id].version, Succeed(id, version)
    PROVE  /\ RowsOk' /\ Grows
           /\ NewId \in Nat \ {0} /\ NewId \notin Ids /\ Ids' = Ids \union {NewId}
           /\ \A i \in Ids : i # id => items'[i] = items[i]
           /\ items'[id].next = NewId
           /\ items'[NewId] = Row(items[id].owner, items[id].version + 1)
<1> DEFINE n == Len(items)
           row == Row(items[id].owner, items[id].version + 1)
           old == [items EXCEPT ![id].next = NewId]
<1>1. items \in Seq(ItemRows) /\ n \in Nat /\ DOMAIN items = 1..n /\ id \in 1..n
  BY DEF RowsOk, Ids
<1>r. items[id] \in ItemRows
  BY <1>1, ElementOfSeq
<1>2. row \in ItemRows /\ row.next = 0 /\ row.version = items[id].version + 1
      /\ row.owner = items[id].owner
  BY <1>r DEF Row, ItemRows
<1>5. NewId = n + 1 /\ NewId \in Nat \ {0} /\ NewId \notin Ids /\ Ids = 1..n
  BY <1>1 DEF NewId, Ids
<1>a. /\ [items[id] EXCEPT !.next = NewId] \in ItemRows
      /\ [items[id] EXCEPT !.next = NewId].owner = items[id].owner
      /\ [items[id] EXCEPT !.next = NewId].version = items[id].version
      /\ [items[id] EXCEPT !.next = NewId].next = NewId
  BY <1>r, <1>5 DEF ItemRows
<1>b. old = [items EXCEPT ![id] = [items[id] EXCEPT !.next = NewId]]
  OBVIOUS
<1>c. /\ old \in Seq(ItemRows) /\ Len(old) = n
      /\ old[id] = [items[id] EXCEPT !.next = NewId]
      /\ \A i \in 1..n : i # id => old[i] = items[i]
  BY <1>1, <1>a, <1>b, ExceptSeq
<1> HIDE DEF row, old
<1>3. items' = Append(old, row)
  BY DEF Succeed, row, old
<1>4. /\ items' \in Seq(ItemRows) /\ Len(items') = n + 1
      /\ \A i \in 1..n : items'[i] = old[i]
      /\ items'[n + 1] = row
  <2>1. /\ Append(old, row) \in Seq(ItemRows) /\ Len(Append(old, row)) = Len(old) + 1
        /\ \A i \in 1..Len(old) : Append(old, row)[i] = old[i]
        /\ Append(old, row)[Len(old) + 1] = row
    BY <1>2, <1>c, AppendProperties
  <2> QED BY <1>3, <1>c, <2>1, Zenon
<1>6. Ids' = 1..(n + 1)
  BY <1>4 DEF Ids
<1>7. Ids' = Ids \union {NewId}
  BY <1>1, <1>5, <1>6
<1>8. /\ \A i \in Ids : i # id => items'[i] = items[i]
      /\ items'[id].owner = items[id].owner /\ items'[id].version = items[id].version
      /\ items'[id].next = NewId
  BY <1>1, <1>4, <1>5, <1>a, <1>c
<1>9. items'[NewId] = row
  BY <1>4, <1>5
<1>10. Grows
  BY <1>5, <1>7, <1>8 DEF Grows
<1> HIDE DEF n
<1>11. RowsOk'
  <2>1. ASSUME NEW i \in Ids', items'[i].next # 0
        PROVE  /\ items'[i].next \in Ids'
               /\ items'[items'[i].next].owner = items'[i].owner
               /\ items'[items'[i].next].version = items'[i].version + 1
    <3>1. CASE i = id
      BY <1>2, <1>7, <1>8, <1>9, <3>1
    <3>2. CASE i # id
      <4>1. i \in Ids /\ items'[i] = items[i]
        BY <1>2, <1>7, <1>8, <1>9, <2>1, <3>2
      <4>2. /\ items[i].next \in Ids /\ items[items[i].next].owner = items[i].owner
            /\ items[items[i].next].version = items[i].version + 1
        BY <2>1, <4>1 DEF RowsOk
      <4> QED BY <1>7, <1>10, <4>1, <4>2 DEF Grows
    <3> QED BY <3>1, <3>2
  <2>2. ASSUME NEW i \in Ids', items'[i].version > 1
        PROVE  \E p \in Ids' : /\ items'[p].next # 0 /\ items'[p].owner = items'[i].owner
                               /\ items'[p].version + 1 = items'[i].version
    <3>1. CASE i = NewId
      BY <1>2, <1>5, <1>7, <1>8, <1>9, <3>1
    <3>2. CASE i # NewId
      <4>1. i \in Ids /\ items[i].version > 1
        BY <1>7, <1>10, <2>2, <3>2 DEF Grows
      <4>2. PICK p \in Ids : /\ items[p].next # 0 /\ items[p].owner = items[i].owner
                             /\ items[p].version + 1 = items[i].version
        BY <4>1 DEF RowsOk
      <4> QED BY <1>7, <1>10, <4>1, <4>2 DEF Grows
    <3> QED BY <3>1, <3>2
  <2> QED BY <1>4, <2>1, <2>2 DEF RowsOk
<1> QED BY <1>5, <1>7, <1>8, <1>9, <1>10, <1>11 DEF row

LEMMA RowsStay == ASSUME RowsOk, UNCHANGED items PROVE RowsOk' /\ Grows
BY DEF RowsOk, Grows, Ids

LEMMA OkKept ==
    ASSUME RowsOk, Grows, NEW r, RequestOk(r),
           r.op = "receipt" => r.id \notin receipts' /\ r.id \notin reports'.error
    PROVE  RequestOk(r)'
BY DEF RequestOk, Grows

\* A step of one worker, while rows are added and superseded.
LEMMA RequestMoves ==
    ASSUME RowsOk, RequestsOk, Grows, NEW w \in Workers, NEW r \in AnyRequest, Step(w, r),
           RequestOk(r)', r.op = "receipt" => r.id \notin Ids,
           \A v \in Workers : v # w /\ request[v].op = "receipt" =>
               request[v].id \notin receipts' /\ request[v].id \notin reports'.error
    PROVE  RequestsOk'
<1>1. /\ request' \in [Workers -> AnyRequest] /\ request'[w] = r
      /\ \A v \in Workers : v # w => request'[v] = request[v]
  BY DEF Step, RequestsOk
<1>2. ASSUME NEW v \in Workers PROVE RequestOk(request[v])
  BY DEF RequestsOk
<1>3. ASSUME NEW v \in Workers, v # w PROVE RequestOk(request[v])'
  <2> DEFINE q == request[v]
  <2>1. RequestOk(q) /\ (q.op = "receipt" => q.id \notin receipts' /\ q.id \notin reports'.error)
    BY <1>2, <1>3
  <2>2. request'[v] = q
    BY <1>1, <1>3
  <2>3. q.op = "receipt" => q.id \in Ids'
    BY <2>1 DEF RequestOk, Grows
  <2>4. q.op = "update" => q.id \in Ids' /\ q.version = items'[q.id].version
    BY <2>1 DEF RequestOk, Grows
  <2>5. q.op \in {"keyword", "answer"} =>
          /\ \A id \in q.found : /\ id \in Ids' /\ items'[id].owner[1] = q.user
                                 /\ q.org # NoOrg => items'[id].owner[2] = q.org
                                 /\ id \notin q.gone
          /\ \A id \in q.gone : id \in Ids' /\ items'[id].next # 0
    BY <2>1 DEF RequestOk, Grows
  <2> HIDE DEF q
  <2> QED BY <2>1, <2>2, <2>3, <2>4, <2>5 DEF RequestOk
<1>4. \A v \in Workers : RequestOk(request[v])'
  <2> SUFFICES ASSUME NEW v \in Workers PROVE RequestOk(request[v])'
    OBVIOUS
  <2>1. CASE v = w
    BY <1>1, <2>1 DEF RequestOk
  <2>2. CASE v # w
    BY <1>3, <2>2 DEF RequestOk
  <2> QED BY <2>1, <2>2
<1>5. ASSUME NEW u \in Workers, NEW v \in Workers, request'[u].op = "receipt",
             request'[v].op = "receipt", request'[u].id = request'[v].id
      PROVE  u = v
  <2>1. \A x \in Workers : x # w /\ request'[x].op = "receipt" => request'[x].id \in Ids
    BY <1>1, <1>2 DEF RequestOk
  <2> QED BY <1>1, <1>5, <2>1 DEF RequestsOk
<1> QED BY <1>1, <1>4, <1>5 DEF RequestsOk

LEMMA IdleOk == Idle \in AnyRequest /\ RequestOk(Idle)' /\ Idle.op # "receipt"
BY DEF Idle, AnyRequest, RequestOk

LEMMA ReadsStart == ItemsInit => ReadsInv
<1> SUFFICES ASSUME ItemsInit PROVE ReadsInv
  OBVIOUS
<1>1. RowsOk
  BY DEF ItemsInit, RowsOk, Ids
<1>2. RequestsOk
  BY DEF ItemsInit, RequestsOk, RequestOk, Idle, AnyRequest
<1>3. ReceiptsOk
  BY DEF ItemsInit, ReceiptsOk
<1> QED BY <1>1, <1>2, <1>3 DEF ReadsInv

LEMMA ReadsStep == ReadsInv /\ [ItemsNext]_itemVars => ReadsInv'
<1> SUFFICES ASSUME ReadsInv, [ItemsNext]_itemVars PROVE ReadsInv'
  OBVIOUS
<1> USE DEF ReadsInv
<1>0. /\ RowsOk /\ RequestsOk /\ ReceiptsOk
      /\ request \in [Workers -> AnyRequest]
      /\ \A w \in Workers : RequestOk(request[w])
  BY DEF RequestsOk
\* Receipts and reports stay, and so do all but a pending receipt.
<1>k. ASSUME UNCHANGED <<receipts, reports>>
      PROVE  \A v \in Workers : request[v].op = "receipt" =>
               request[v].id \notin receipts' /\ request[v].id \notin reports'.error
  BY <1>0, <1>k DEF RequestOk
<1>l. ASSUME UNCHANGED <<receipts, reports>>, Grows PROVE ReceiptsOk'
  BY <1>0, <1>l DEF ReceiptsOk, Grows
\* Rows grow and no worker moves.
<1>a. ASSUME RowsOk', Grows, UNCHANGED <<receipts, reports, request>> PROVE ReadsInv'
  <2>1. ASSUME NEW v \in Workers PROVE RequestOk(request[v])'
    <3> DEFINE q == request[v]
    <3>1. /\ q.op = "receipt" => q.id \in Ids' /\ q.id \notin receipts' /\ q.id \notin reports'.error
          /\ q.op = "update" => q.id \in Ids' /\ q.version = items'[q.id].version
          /\ q.op \in {"keyword", "answer"} =>
               /\ \A id \in q.found : /\ id \in Ids' /\ items'[id].owner[1] = q.user
                                      /\ q.org # NoOrg => items'[id].owner[2] = q.org
                                      /\ id \notin q.gone
               /\ \A id \in q.gone : id \in Ids' /\ items'[id].next # 0
      BY <1>0, <1>a DEF RequestOk, Grows
    <3> QED BY <1>a, <3>1 DEF RequestOk
  <2>2. RequestsOk'
    BY <1>0, <1>a, <2>1 DEF RequestsOk
  <2> QED BY <1>a, <1>l, <2>2
\* Rows stay, and one worker takes a step that is not about a receipt.
<1>b. ASSUME NEW w \in Workers, NEW r \in AnyRequest, Step(w, r), r.op # "receipt",
             RequestOk(r)', UNCHANGED <<items, receipts, reports>>
      PROVE  ReadsInv'
  <2>1. RowsOk' /\ Grows
    BY <1>0, <1>b, RowsStay
  <2>2. ReceiptsOk'
    BY <1>b, <1>l, <2>1
  <2>3. RequestsOk'
    BY <1>0, <1>b, <1>k, <2>1, RequestMoves
  <2> QED BY <2>1, <2>2, <2>3
<1>1. CASE AddItem
  <2>1. PICK o \in Owners : InsertFirst(o)
    BY <1>1 DEF AddItem
  <2>2. RowsOk' /\ Grows
    BY <1>0, <2>1, RowAdded
  <2> QED BY <1>1, <1>a, <2>2 DEF AddItem
<1>2. ASSUME NEW id \in Ids, UpdateInMemory(id) PROVE ReadsInv'
  <2>1. RowsOk' /\ Grows
    BY <1>0, <1>2, RowSucceeded DEF UpdateInMemory
  <2> QED BY <1>2, <1>a, <2>1 DEF UpdateInMemory
<1>3. ASSUME NEW w \in Workers, NEW id \in Ids, ReadForUpdate(w, id) PROVE ReadsInv'
  <2>r. PICK r : r = [op |-> "update", id |-> id, version |-> items[id].version]
    OBVIOUS
  <2>1. Step(w, r) /\ UNCHANGED <<items, receipts, reports>>
    BY <1>3, <2>r DEF ReadForUpdate
  <2>2. id \in Nat /\ items[id].version \in Nat
    <3>1. items \in Seq(ItemRows) /\ id \in 1..Len(items)
      BY <1>0 DEF RowsOk, Ids
    <3>2. items[id] \in ItemRows
      BY <3>1, ElementOfSeq
    <3> QED BY <3>1, <3>2 DEF ItemRows
  <2>3. r \in AnyRequest /\ r.op = "update" /\ r.id = id /\ r.version = items[id].version
    BY <2>2, <2>r DEF AnyRequest
  <2>4. RequestOk(r)'
    BY <2>1, <2>3 DEF RequestOk, Ids
  <2> QED BY <1>b, <2>1, <2>3, <2>4
<1>4. ASSUME NEW w \in Workers, CommitUpdate(w) PROVE ReadsInv'
  <2>1. request[w].id \in Ids /\ request[w].version = items[request[w].id].version
    BY <1>0, <1>4 DEF CommitUpdate, RequestOk
  <2>2. RowsOk' /\ Grows
    BY <1>0, <1>4, <2>1, RowSucceeded DEF CommitUpdate
  <2>3. RequestsOk'
    BY <1>0, <1>4, <1>k, <2>2, RequestMoves, IdleOk DEF CommitUpdate
  <2> QED BY <1>4, <1>l, <2>2, <2>3 DEF CommitUpdate
<1>5. ASSUME NEW w \in Workers, WriteObservation(w) PROVE ReadsInv'
  <2>r. PICK r : r = [op |-> "receipt", id |-> NewId]
    OBVIOUS
  <2>1. /\ Step(w, [op |-> "receipt", id |-> NewId]) /\ UNCHANGED <<receipts, reports>>
        /\ \E o \in Owners : InsertFirst(o)
    BY <1>5 DEF WriteObservation
  <2>2. PICK o \in Owners : InsertFirst(o)
    BY <2>1
  <2>3. /\ RowsOk' /\ Grows
        /\ NewId \in Nat /\ NewId \notin Ids /\ Ids' = Ids \union {NewId}
    BY <1>0, <2>2, RowAdded
  <2>4. r \in AnyRequest /\ r.op = "receipt" /\ r.id = NewId
    BY <2>3, <2>r DEF AnyRequest
  <2>5. NewId \in Ids' /\ NewId \notin receipts' /\ NewId \notin reports'.error
    BY <1>0, <2>1, <2>3 DEF ReceiptsOk
  <2>6. RequestOk(r)'
    BY <2>4, <2>5 DEF RequestOk
  <2>7. Step(w, r)
    BY <2>1, <2>r
  <2>8. RequestsOk'
    BY <1>0, <1>k, <2>1, <2>3, <2>4, <2>6, <2>7, RequestMoves
  <2> QED BY <1>l, <2>1, <2>3, <2>8
<1>r. ASSUME NEW w \in Workers, request[w].op = "receipt", Step(w, Idle), UNCHANGED items,
             ReceiptsOk',
             receipts' \subseteq receipts \union {request[w].id},
             reports'.error \subseteq reports.error \union {request[w].id}
      PROVE  ReadsInv'
  <2>1. RowsOk' /\ Grows
    BY <1>0, <1>r, RowsStay
  <2>2. \A v \in Workers : v # w /\ request[v].op = "receipt" =>
            request[v].id \notin receipts' /\ request[v].id \notin reports'.error
    <3> SUFFICES ASSUME NEW v \in Workers, v # w, request[v].op = "receipt"
                 PROVE  request[v].id \notin receipts' /\ request[v].id \notin reports'.error
      OBVIOUS
    <3>1. request[v].id # request[w].id
      BY <1>0, <1>r DEF RequestsOk
    <3>2. request[v].id \notin receipts /\ request[v].id \notin reports.error
      BY <1>0 DEF RequestOk
    <3> QED BY <1>r, <3>1, <3>2
  <2>3. RequestsOk'
    BY <1>0, <1>r, <2>1, <2>2, RequestMoves, IdleOk
  <2> QED BY <1>r, <2>1, <2>3
<1>6. ASSUME NEW w \in Workers, RecordInjection(w) PROVE ReadsInv'
  <2> DEFINE i == request[w].id
  <2>1. i \in Ids /\ i \notin receipts /\ i \notin reports.error /\ i \in Nat
    BY <1>0, <1>6 DEF RecordInjection, RequestOk, RowsOk, Ids
  <2>2. /\ receipts' = receipts \union {i} /\ items' = items
        /\ reports' = [reports EXCEPT !.created = @ \union {i}]
    BY <1>6 DEF RecordInjection
  <2> HIDE DEF i
  <2>3. ReceiptsOk'
    BY <1>0, <2>1, <2>2 DEF ReceiptsOk, Ids
  <2>4. reports'.error = reports.error
    BY <1>0, <2>2 DEF ReceiptsOk
  <2> QED BY <1>6, <1>r, <2>2, <2>3, <2>4 DEF RecordInjection, i
<1>7. ASSUME NEW w \in Workers, InjectionFails(w) PROVE ReadsInv'
  <2> DEFINE i == request[w].id
  <2>1. i \in Ids /\ i \notin receipts /\ i \notin reports.error /\ i \in Nat
    BY <1>0, <1>7 DEF InjectionFails, RequestOk, RowsOk, Ids
  <2>2. /\ receipts' \in {receipts, receipts \union {i}} /\ items' = items
        /\ reports' = [reports EXCEPT !.error = @ \union {i}]
    BY <1>7 DEF InjectionFails
  <2> HIDE DEF i
  <2>3. ReceiptsOk'
    BY <1>0, <2>1, <2>2 DEF ReceiptsOk, Ids
  <2>4. reports'.error = reports.error \union {i}
    BY <1>0, <2>2 DEF ReceiptsOk
  <2> QED BY <1>7, <1>r, <2>2, <2>3, <2>4 DEF InjectionFails, i
<1>14. ASSUME NEW w \in Workers, ObservationFails(w) PROVE ReadsInv'
  <2>2. PICK o \in Owners : InsertFirst(o)
    BY <1>14 DEF ObservationFails
  <2>3. /\ RowsOk' /\ Grows
        /\ NewId \in Nat /\ NewId \notin Ids /\ Ids' = Ids \union {NewId}
    BY <1>0, <2>2, RowAdded
  <2> DEFINE i == NewId
  <2> HIDE DEF i
  <2>4. /\ receipts' = receipts /\ request' = request
        /\ reports' = [reports EXCEPT !.error = @ \union {i}]
    BY <1>14 DEF ObservationFails, i
  <2>5. i \in Nat /\ i \notin Ids /\ Ids' = Ids \union {i}
    BY <2>3 DEF i
  <2>6. ReceiptsOk'
    BY <1>0, <2>4, <2>5 DEF ReceiptsOk
  <2>7. reports'.error = reports.error \union {i}
    BY <1>0, <2>4 DEF ReceiptsOk
  <2>8. ASSUME NEW v \in Workers PROVE RequestOk(request[v])'
    <3>0. PICK q : q = request[v]
      OBVIOUS
    <3>1. RequestOk(q) /\ (q.op = "receipt" => q.id \in Ids)
      BY <1>0, <3>0 DEF RequestOk
    <3>2. q.op = "receipt" => q.id \notin receipts' /\ q.id \notin reports'.error
      BY <2>4, <2>5, <2>7, <3>1 DEF RequestOk
    <3>3. RequestOk(q)'
      BY <1>0, <2>3, <3>1, <3>2, OkKept
    <3>4. request'[v] = q
      BY <2>4, <3>0
    <3> QED BY <3>3, <3>4
  <2>9. RequestsOk'
    BY <1>0, <2>4, <2>8 DEF RequestsOk
  <2> QED BY <2>3, <2>6, <2>9
\* A query reads current rows of the user and, if it names one, the organisation.
<1>q. ASSUME NEW w \in Workers, NEW r \in Queries, Step(w, r),
             \A id \in r.found : /\ id \in Ids /\ items[id].owner[1] = r.user
                                 /\ r.org # NoOrg => items[id].owner[2] = r.org
                                 /\ id \notin r.gone,
             \A id \in r.gone : id \in Ids /\ items[id].next # 0,
             UNCHANGED <<items, receipts, reports>>
      PROVE  ReadsInv'
  <2>1. r.op \in {"keyword", "answer"}
    BY DEF Queries
  <2>2. RequestOk(r)'
    BY <1>q, <2>1 DEF RequestOk, Ids
  <2>3. r \in AnyRequest
    BY DEF AnyRequest
  <2> QED BY <1>b, <1>q, <2>1, <2>2, <2>3
\* The rows that are retired now, and those that are not.
<1>g. /\ Ids \subseteq Nat
      /\ \A id \in Retired : id \in Ids /\ items[id].next # 0
      /\ \A id \in Ids : items[id].next = 0 => id \notin Retired
  BY <1>0 DEF RowsOk, Ids, Retired, Current
<1>8. ASSUME NEW w \in Workers, SearchByEmbedding(w) PROVE ReadsInv'
  <2>1. PICK u \in Users, o \in Orgs : \E found \in UpTo(2 * TopK, VectorMatches(u, o)) :
            Step(w, [op |-> "keyword", user |-> u, org |-> o, found |-> found,
                     gone |-> Retired])
    BY <1>8 DEF SearchByEmbedding
  <2>2. PICK found \in UpTo(2 * TopK, VectorMatches(u, o)) :
            Step(w, [op |-> "keyword", user |-> u, org |-> o, found |-> found,
                     gone |-> Retired])
    BY <2>1
  <2>3. PICK r : r = [op |-> "keyword", user |-> u, org |-> o, found |-> found,
                      gone |-> Retired]
    OBVIOUS
  <2>4. found \subseteq VectorMatches(u, o)
    BY DEF UpTo
  <2>5. r \in Queries
    BY <1>g, <2>3, <2>4 DEF Queries, VectorMatches
  <2>6. r.found = found /\ r.user = u /\ r.org = o /\ r.gone = Retired
    BY <2>3
  <2>7. Step(w, r) /\ UNCHANGED <<items, receipts, reports>>
    BY <1>8, <2>2, <2>3 DEF SearchByEmbedding
  <2> QED BY <1>g, <1>q, <2>4, <2>5, <2>6, <2>7 DEF VectorMatches, Current, InOrg, OfUser
<1>9. ASSUME NEW w \in Workers, KeywordRetrieval(w) PROVE ReadsInv'
  <2>1. PICK u \in Users, o \in Orgs \union {NoOrg} :
          \E found \in UpTo(TopK, FallbackMatches(u, o)) :
            Step(w, [op |-> "answer", user |-> u, org |-> o, found |-> found,
                     gone |-> Retired])
    BY <1>9 DEF KeywordRetrieval
  <2>2. PICK found \in UpTo(TopK, FallbackMatches(u, o)) :
            Step(w, [op |-> "answer", user |-> u, org |-> o, found |-> found,
                     gone |-> Retired])
    BY <2>1
  <2>3. PICK r : r = [op |-> "answer", user |-> u, org |-> o, found |-> found,
                      gone |-> Retired]
    OBVIOUS
  <2>4. found \subseteq FallbackMatches(u, o)
    BY DEF UpTo
  <2>5. r \in Queries
    BY <1>g, <2>3, <2>4 DEF Queries, FallbackMatches
  <2>6. r.found = found /\ r.user = u /\ r.org = o /\ r.gone = Retired
    BY <2>3
  <2>7. Step(w, r) /\ UNCHANGED <<items, receipts, reports>>
    BY <1>9, <2>2, <2>3 DEF KeywordRetrieval
  <2> QED BY <1>g, <1>q, <2>4, <2>5, <2>6, <2>7 DEF FallbackMatches, Current, InOrg, OfUser
\* What the second query of a search finds is current now, so not yet retired
\* when the search began.
<1>s. ASSUME NEW w \in Workers, request[w].op = "keyword", NEW fused,
             Step(w, [request[w] EXCEPT !.op = "answer", !.found = fused]),
             \A id \in fused :
                \/ id \in request[w].found
                \/ /\ id \in Ids /\ items[id].owner[1] = request[w].user /\ items[id].next = 0
                   /\ request[w].org # NoOrg => items[id].owner[2] = request[w].org,
             UNCHANGED <<items, receipts, reports>>
      PROVE  ReadsInv'
  <2>1. PICK r : r = [request[w] EXCEPT !.op = "answer", !.found = fused]
    OBVIOUS
  <2>2. request[w] \in Queries
    BY <1>0, <1>s DEF AnyRequest, Idle
  <2>3. /\ \A id \in request[w].found :
             /\ id \in Ids /\ items[id].owner[1] = request[w].user
             /\ request[w].org # NoOrg => items[id].owner[2] = request[w].org
             /\ id \notin request[w].gone
        /\ \A id \in request[w].gone : id \in Ids /\ items[id].next # 0
    BY <1>0, <1>s DEF RequestOk
  <2>4. fused \in SUBSET Nat
    BY <1>g, <1>s, <2>3
  <2>5. /\ r.user = request[w].user /\ r.org = request[w].org /\ r.gone = request[w].gone
        /\ r.found = fused
    BY <2>1, <2>2 DEF Queries
  <2>6. r \in Queries
    BY <2>1, <2>2, <2>4 DEF Queries
  <2>7. Step(w, r)
    BY <1>s, <2>1
  <2>8. \A id \in fused : /\ id \in Ids /\ items[id].owner[1] = request[w].user
                          /\ request[w].org # NoOrg => items[id].owner[2] = request[w].org
                          /\ id \notin request[w].gone
    BY <1>s, <2>3
  <2> QED BY <1>q, <1>s, <2>3, <2>5, <2>6, <2>7, <2>8
<1>10. ASSUME NEW w \in Workers, SearchByKeywordAndFetch(w) PROVE ReadsInv'
  <2>1. PICK found \in UpTo(2 * TopK, KeywordMatches(request[w].user, request[w].org)) :
          \E fused \in UpTo(TopK, request[w].found \union found) :
            Step(w, [request[w] EXCEPT !.op = "answer", !.found = fused])
    BY <1>10 DEF SearchByKeywordAndFetch
  <2>2. PICK fused \in UpTo(TopK, request[w].found \union found) :
            Step(w, [request[w] EXCEPT !.op = "answer", !.found = fused])
    BY <2>1
  <2>3. /\ fused \subseteq request[w].found \union found
        /\ found \subseteq KeywordMatches(request[w].user, request[w].org)
    BY DEF UpTo
  <2>4. request[w].op = "keyword" /\ UNCHANGED <<items, receipts, reports>>
    BY <1>10 DEF SearchByKeywordAndFetch
  <2>5. \A id \in fused :
          \/ id \in request[w].found
          \/ /\ id \in Ids /\ items[id].owner[1] = request[w].user /\ items[id].next = 0
             /\ request[w].org # NoOrg => items[id].owner[2] = request[w].org
    BY <2>3 DEF KeywordMatches, Current, InOrg, OfUser
  <2> QED BY <1>s, <2>2, <2>4, <2>5
<1>11. ASSUME NEW w \in Workers, HybridFails(w) PROVE ReadsInv'
  <2>1. PICK found \in UpTo(TopK, FallbackMatches(request[w].user, request[w].org)) :
            Step(w, [request[w] EXCEPT !.op = "answer", !.found = found])
    BY <1>11 DEF HybridFails
  <2>2. found \subseteq FallbackMatches(request[w].user, request[w].org)
    BY DEF UpTo
  <2>3. request[w].op = "keyword" /\ UNCHANGED <<items, receipts, reports>>
    BY <1>11 DEF HybridFails
  <2>4. \A id \in found :
          /\ id \in Ids /\ items[id].owner[1] = request[w].user /\ items[id].next = 0
          /\ request[w].org # NoOrg => items[id].owner[2] = request[w].org
    BY <2>2 DEF FallbackMatches, Current, InOrg, OfUser
  <2> QED BY <1>s, <2>1, <2>3, <2>4
<1>12. ASSUME NEW w \in Workers, Answer(w) PROVE ReadsInv'
  BY <1>12, <1>b, IdleOk DEF Answer
<1>13. CASE UNCHANGED itemVars
  <2>1. RowsOk' /\ Grows
    BY <1>0, <1>13, RowsStay DEF itemVars
  <2> QED BY <1>13, <1>a, <2>1 DEF itemVars
<1> QED BY <1>1, <1>2, <1>3, <1>4, <1>5, <1>6, <1>7, <1>8, <1>9, <1>10, <1>11, <1>12, <1>13,
           <1>14
        DEF ItemsNext

LEMMA ReadsMeaning == ReadsInv => RetrievalScoped /\ ReceiptsMatchReports
BY DEF ReadsInv, RequestsOk, RequestOk, ReceiptsOk, RetrievalScoped, ReceiptsMatchReports,
       OfUser, InOrg

-----------------------------------------------------------------------------
(* The versions of an item in memory                                       *)

\* A chain has the versions of one item from 1 on, each superseded by the next.
ChainOk(root) ==
    /\ Len(chains[root]) > 0
    /\ \A v \in 1..Len(chains[root]) :
         /\ chains[root][v] \in Ids
         /\ items[chains[root][v]].version = v
         /\ items[chains[root][v]].owner = items[chains[root][1]].owner
         /\ v < Len(chains[root]) => items[chains[root][v]].next = chains[root][v + 1]
         /\ v = Len(chains[root]) => items[chains[root][v]].next = 0

\* Every row is in one chain.
InChain(id, root) == \E v \in 1..Len(chains[root]) : chains[root][v] = id
ChainsOk ==
    /\ chains \in [DOMAIN chains -> Seq(Nat)] /\ DOMAIN chains \subseteq Ids
    /\ \A root \in DOMAIN chains : ChainOk(root)
    /\ \A id \in Ids : \E root \in DOMAIN chains : InChain(id, root)
    /\ \A id \in Ids : \A r1, r2 \in DOMAIN chains :
         InChain(id, r1) /\ InChain(id, r2) => r1 = r2
ChainsInv == store = "memory" => ChainsOk /\ \A w \in Workers : request[w].op = "idle"

LEMMA ChainsStart == ItemsInit => ChainsInv
BY DEF ItemsInit, ChainsInv, ChainsOk, ChainOk, Ids, Idle

LEMMA RootFound ==
    ASSUME ChainsOk, NEW id \in Ids
    PROVE  FindRoot(id) \in DOMAIN chains /\ InChain(id, FindRoot(id))
<1>1. \A root \in DOMAIN chains : id \in Range(chains[root]) <=> InChain(id, root)
  <2> SUFFICES ASSUME NEW root \in DOMAIN chains
               PROVE  id \in Range(chains[root]) <=> InChain(id, root)
    OBVIOUS
  <2>1. DOMAIN chains[root] = 1..Len(chains[root])
    BY DEF ChainsOk
  <2> QED BY <2>1 DEF InChain, Range
<1>2. PICK root \in DOMAIN chains : InChain(id, root)
  BY DEF ChainsOk
<1> DEFINE roots == {r \in DOMAIN chains : id \in Range(chains[r])}
<1>3. roots # {} /\ FindRoot(id) = CHOOSE r \in roots : TRUE
  BY <1>1, <1>2 DEF FindRoot
<1>4. FindRoot(id) \in roots
  BY <1>3
<1> QED BY <1>1, <1>4

LEMMA ChainsStep == ReadsInv /\ ChainsInv /\ [ItemsNext]_itemVars => ChainsInv'
<1> SUFFICES ASSUME RowsOk, RequestsOk, ChainsInv, [ItemsNext]_itemVars,
                    store' = store, store = "memory"
             PROVE  ChainsOk' /\ \A w \in Workers : request'[w].op = "idle"
  <2>1. [ItemsNext]_itemVars => store' = store
    BY DEF ItemsNext, itemVars, AddItem, UpdateInMemory, ReadForUpdate, CommitUpdate,
           WriteObservation, RecordInjection, InjectionFails, SearchByEmbedding,
           SearchByKeywordAndFetch, KeywordRetrieval, HybridFails, Answer, ObservationFails
  <2> QED BY <2>1 DEF ChainsInv, ReadsInv
<1>0. ChainsOk /\ \A w \in Workers : request[w].op = "idle"
  BY DEF ChainsInv
<1>1. CASE AddItem
  <2>1. PICK o \in Owners : InsertFirst(o)
    BY <1>1 DEF AddItem
  <2>2. /\ NewId \in Nat \ {0} /\ NewId \notin Ids /\ Ids' = Ids \union {NewId}
        /\ \A id \in Ids : items'[id] = items[id]
        /\ items'[NewId] = Row(o, 1)
    BY <2>1, RowAdded
  <2>3. request' = request /\ chains' = BeginChain(NewId)
    BY <1>1 DEF AddItem
  <2>4. /\ DOMAIN chains' = DOMAIN chains \union {NewId}
        /\ chains'[NewId] = <<NewId>>
        /\ \A root \in DOMAIN chains : chains'[root] = chains[root]
    BY <1>0, <2>2, <2>3 DEF BeginChain, ChainsOk
  <2>5. chains' \in [DOMAIN chains' -> Seq(Nat)] /\ DOMAIN chains' \subseteq Ids'
    <3>1. <<NewId>> \in Seq(Nat)
      BY <2>2
    <3>2. \A root \in DOMAIN chains' : chains'[root] \in Seq(Nat)
      BY <1>0, <2>4, <3>1 DEF ChainsOk
    <3>3. chains' = [root \in DOMAIN chains' |-> chains'[root]]
      BY <2>3 DEF BeginChain
    <3> QED BY <1>0, <2>2, <2>4, <3>2, <3>3 DEF ChainsOk
  <2>6. \A root \in DOMAIN chains : ChainOk(root)'
    <3> SUFFICES ASSUME NEW root \in DOMAIN chains PROVE ChainOk(root)'
      OBVIOUS
    <3>1. ChainOk(root) /\ chains'[root] = chains[root]
      BY <1>0, <2>4 DEF ChainsOk
    <3>2. \A v \in 1..Len(chains[root]) : chains[root][v] \in Ids
      BY <3>1 DEF ChainOk
    <3>3. chains[root][1] \in Ids
      <4>1. Len(chains[root]) \in Nat
        BY <1>0 DEF ChainsOk
      <4> QED BY <3>1, <3>2, <4>1 DEF ChainOk
    <3> QED BY <2>2, <3>1, <3>2, <3>3 DEF ChainOk
  <2>n. PICK n : n = NewId
    OBVIOUS
  <2>7. ChainOk(n)'
    <3>1. chains'[n] = <<n>> /\ items'[n] = Row(o, 1) /\ n \in Ids'
      BY <2>2, <2>4, <2>n
    <3>2. Len(<<n>>) = 1 /\ <<n>>[1] = n
      OBVIOUS
    <3>3. /\ Len(chains'[n]) > 0
          /\ \A v \in 1..Len(chains'[n]) :
               /\ chains'[n][v] \in Ids'
               /\ items'[chains'[n][v]].version = v
               /\ items'[chains'[n][v]].owner = items'[chains'[n][1]].owner
               /\ v < Len(chains'[n]) => items'[chains'[n][v]].next = chains'[n][v + 1]
               /\ v = Len(chains'[n]) => items'[chains'[n][v]].next = 0
      BY <3>1, <3>2 DEF Row
    <3> QED BY <3>3 DEF ChainOk
  <2>8. /\ \A id, root \in Ids : root \in DOMAIN chains => (InChain(id, root)' <=> InChain(id, root))
        /\ \A root \in DOMAIN chains : InChain(n, root)' => FALSE
        /\ \A id : InChain(id, n)' <=> id = n
    <3>1. \A root \in DOMAIN chains : \A id : InChain(id, root)' <=> InChain(id, root)
      BY <2>4 DEF InChain
    <3>2. ASSUME NEW root \in DOMAIN chains, NEW id, InChain(id, root) PROVE id \in Ids
      <4>1. PICK v \in 1..Len(chains[root]) : chains[root][v] = id
        BY <3>2 DEF InChain
      <4>2. ChainOk(root)
        BY <1>0 DEF ChainsOk
      <4>3. chains[root][v] \in Ids
        BY <4>1, <4>2 DEF ChainOk
      <4> QED BY <4>1, <4>3
    <3>3. chains'[n] = <<n>>
      BY <2>4, <2>n
    <3>4. \A id : InChain(id, n)' <=> id = n
      BY <3>3 DEF InChain
    <3> QED BY <2>2, <2>n, <3>1, <3>2, <3>4
  <2>9. \A id \in Ids' : \E root \in DOMAIN chains' : InChain(id, root)'
    <3> SUFFICES ASSUME NEW id \in Ids' PROVE \E root \in DOMAIN chains' : InChain(id, root)'
      OBVIOUS
    <3>1. CASE id = n
      BY <2>4, <2>8, <2>n, <3>1
    <3>2. CASE id # n
      <4>1. PICK root \in DOMAIN chains : InChain(id, root)
        BY <1>0, <2>2, <2>n, <3>2 DEF ChainsOk
      <4>2. root \in Ids /\ id \in Ids
        BY <1>0, <2>2, <2>n, <3>2 DEF ChainsOk
      <4> QED BY <2>4, <2>8, <4>1, <4>2
    <3> QED BY <3>1, <3>2
  <2>10. \A id \in Ids' : \A r1, r2 \in DOMAIN chains' :
            InChain(id, r1)' /\ InChain(id, r2)' => r1 = r2
    <3> SUFFICES ASSUME NEW id \in Ids', NEW r1 \in DOMAIN chains', NEW r2 \in DOMAIN chains',
                        InChain(id, r1)', InChain(id, r2)'
                 PROVE  r1 = r2
      OBVIOUS
    <3>1. CASE id = n
      BY <2>4, <2>8, <2>n, <3>1
    <3>2. CASE id # n
      <4>1. id \in Ids /\ r1 \in DOMAIN chains /\ r2 \in DOMAIN chains
        BY <2>2, <2>4, <2>8, <2>n, <3>2
      <4>2. r1 \in Ids /\ r2 \in Ids
        BY <1>0, <4>1 DEF ChainsOk
      <4> QED BY <1>0, <2>8, <4>1, <4>2 DEF ChainsOk
    <3> QED BY <3>1, <3>2
  <2>11. \A root \in DOMAIN chains' : ChainOk(root)'
    BY <2>4, <2>6, <2>7, <2>n
  <2> QED BY <1>0, <2>3, <2>5, <2>9, <2>10, <2>11 DEF ChainsOk
<1>2. ASSUME NEW id \in Ids, UpdateInMemory(id)
      PROVE  ChainsOk' /\ \A w \in Workers : request'[w].op = "idle"
  <2>n. PICK n : n = NewId
    OBVIOUS
  <2>r. PICK root : root = FindRoot(id)
    OBVIOUS
  <2>1. /\ items[id].next = 0 /\ request' = request
        /\ chains' = [chains EXCEPT ![root] = Append(chains[root], n)]
    BY <1>2, <2>n, <2>r DEF UpdateInMemory, Current
  <2>2. /\ n \in Nat \ {0} /\ n \notin Ids /\ Ids' = Ids \union {n}
        /\ \A i \in Ids : i # id => items'[i] = items[i]
        /\ items'[id].next = n
        /\ \A i \in Ids : items'[i].owner = items[i].owner /\ items'[i].version = items[i].version
        /\ items'[n] = Row(items[id].owner, items[id].version + 1)
    BY <1>2, <2>n, RowSucceeded DEF UpdateInMemory, Grows
  <2>3. root \in DOMAIN chains /\ InChain(id, root) /\ chains[root] \in Seq(Nat)
    BY <1>0, <2>r, RootFound DEF ChainsOk
  <2> DEFINE old == chains[root]
             L == Len(old)
             new == Append(old, n)
  <2>4. /\ L \in Nat /\ L > 0 /\ new \in Seq(Nat) /\ Len(new) = L + 1
        /\ \A v \in 1..L : new[v] = old[v]
        /\ new[L + 1] = n
    <3>1. L > 0 /\ L \in Nat
      BY <1>0, <2>3 DEF ChainsOk, ChainOk
    <3> QED BY <2>2, <2>3, <3>1, AppendProperties
  <2>5. ChainOk(root)
    BY <1>0, <2>3 DEF ChainsOk
  \* The row that is current is the last of its chain.
  <2>6. old[L] = id
    <3>1. PICK v \in 1..L : old[v] = id
      BY <2>3 DEF InChain
    <3>2. CASE v < L
      <4>1. old[v + 1] \in Ids /\ items[old[v]].next = old[v + 1]
        BY <2>4, <2>5, <3>2 DEF ChainOk
      <4>2. old[v + 1] # 0
        BY <4>1 DEF Ids, RowsOk
      <4> QED BY <2>1, <3>1, <4>1, <4>2
    <3> QED BY <2>4, <3>1, <3>2
  <2> HIDE DEF old, L, new
  <2>7. /\ DOMAIN chains' = DOMAIN chains /\ chains' \in [DOMAIN chains' -> Seq(Nat)]
        /\ chains'[root] = new /\ \A r \in DOMAIN chains : r # root => chains'[r] = chains[r]
    <3>1. chains' = [chains EXCEPT ![root] = new]
      BY <2>1 DEF new, old
    <3> QED BY <1>0, <2>3, <2>4, <3>1 DEF ChainsOk
  <2>8. ASSUME NEW r \in DOMAIN chains, r # root PROVE ChainOk(r)'
    <3>1. ChainOk(r) /\ chains'[r] = chains[r]
      BY <1>0, <2>7, <2>8 DEF ChainsOk
    <3>2. \A v \in 1..Len(chains[r]) : chains[r][v] \in Ids /\ chains[r][v] # id
      <4>1. \A v \in 1..Len(chains[r]) : chains[r][v] \in Ids
        BY <3>1 DEF ChainOk
      <4>2. ~InChain(id, r)
        BY <1>0, <2>3, <2>8 DEF ChainsOk
      <4> QED BY <4>1, <4>2 DEF InChain
    <3>3. Len(chains[r]) \in Nat
      BY <1>0 DEF ChainsOk
    <3>4. chains[r][1] \in Ids /\ chains[r][1] # id
      BY <3>1, <3>2, <3>3 DEF ChainOk
    <3> QED BY <2>2, <3>1, <3>2, <3>4 DEF ChainOk
  <2>9. ChainOk(root)'
    <3>1. \A v \in 1..L : /\ old[v] \in Ids /\ items[old[v]].version = v
                          /\ items[old[v]].owner = items[old[1]].owner
                          /\ v < L => items[old[v]].next = old[v + 1]
      BY <2>5 DEF ChainOk, old, L
    <3>2. \A v \in 1..L : v # L => old[v] # id
      BY <2>4, <2>6, <3>1
    <3>3. items[id].version = L /\ items[id].owner = items[old[1]].owner
      BY <2>4, <2>6, <3>1
    <3>4. new[1] = old[1] /\ old[1] \in Ids
      BY <2>4, <3>1
    <3>5. ASSUME NEW v \in 1..(L + 1)
          PROVE  /\ new[v] \in Ids'
                 /\ items'[new[v]].version = v
                 /\ items'[new[v]].owner = items'[new[1]].owner
                 /\ v < L + 1 => items'[new[v]].next = new[v + 1]
                 /\ v = L + 1 => items'[new[v]].next = 0
      <4>1. CASE v = L + 1
        <5>1. new[v] = n /\ ~(v < L + 1)
          BY <2>4, <4>1
        <5> QED BY <2>2, <3>3, <3>4, <4>1, <5>1 DEF Row
      <4>2. CASE v = L
        <5>1. new[v] = id /\ new[v + 1] = n /\ v # L + 1
          BY <2>4, <2>6, <4>2
        <5> QED BY <2>2, <3>3, <3>4, <4>2, <5>1
      <4>3. CASE v < L
        <5>1. v \in 1..L /\ v # L /\ v # L + 1 /\ v + 1 \in 1..L
          BY <2>4, <4>3
        <5>2. new[v] = old[v] /\ new[v + 1] = old[v + 1]
          BY <2>4, <5>1
        <5>3. items'[old[v]] = items[old[v]] /\ old[v] \in Ids
          BY <2>2, <3>1, <3>2, <5>1
        <5> QED BY <2>2, <3>1, <3>4, <4>3, <5>1, <5>2, <5>3
      <4> QED BY <2>4, <4>1, <4>2, <4>3
    <3>6. Len(chains'[root]) = L + 1 /\ chains'[root] = new /\ L + 1 > 0
      BY <2>4, <2>7
    <3> QED BY <3>5, <3>6 DEF ChainOk
  <2>10. \A i : InChain(i, root)' <=> InChain(i, root) \/ i = n
    <3>1. Len(chains'[root]) = L + 1 /\ chains'[root] = new
      BY <2>4, <2>7
    <3>2. \A v : v \in 1..(L + 1) <=> v \in 1..L \/ v = L + 1
      BY <2>4
    <3>3. \A i : InChain(i, root)' <=> \E v \in 1..(L + 1) : new[v] = i
      BY <3>1 DEF InChain
    <3>4. \A i : InChain(i, root) <=> \E v \in 1..L : old[v] = i
      BY DEF InChain, old, L
    <3> QED BY <2>4, <3>2, <3>3, <3>4
  <2>11. \A r \in DOMAIN chains : r # root =>
            \A i : (InChain(i, r)' <=> InChain(i, r)) /\ (InChain(i, r) => i \in Ids)
    <3> SUFFICES ASSUME NEW r \in DOMAIN chains, r # root, NEW i
                 PROVE  (InChain(i, r)' <=> InChain(i, r)) /\ (InChain(i, r) => i \in Ids)
      OBVIOUS
    <3>1. chains'[r] = chains[r] /\ ChainOk(r)
      BY <1>0, <2>7 DEF ChainsOk
    <3> QED BY <3>1 DEF InChain, ChainOk
  <2>12. \A i \in Ids' : \E r \in DOMAIN chains' : InChain(i, r)'
    <3> SUFFICES ASSUME NEW i \in Ids' PROVE \E r \in DOMAIN chains' : InChain(i, r)'
      OBVIOUS
    <3>1. CASE i = n
      BY <2>3, <2>7, <2>10, <3>1
    <3>2. CASE i # n
      <4>1. PICK r \in DOMAIN chains : InChain(i, r)
        BY <1>0, <2>2, <3>2 DEF ChainsOk
      <4> QED BY <2>7, <2>10, <2>11, <4>1
    <3> QED BY <3>1, <3>2
  <2>13. \A i \in Ids' : \A r1, r2 \in DOMAIN chains' :
            InChain(i, r1)' /\ InChain(i, r2)' => r1 = r2
    <3> SUFFICES ASSUME NEW i \in Ids', NEW r1 \in DOMAIN chains, NEW r2 \in DOMAIN chains,
                        InChain(i, r1)', InChain(i, r2)'
                 PROVE  r1 = r2
      BY <2>7
    <3>1. CASE i = n
      BY <2>2, <2>10, <2>11, <3>1
    <3>2. CASE i # n
      <4>1. i \in Ids /\ InChain(i, r1) /\ InChain(i, r2)
        BY <2>2, <2>10, <2>11, <3>2
      <4> QED BY <1>0, <4>1 DEF ChainsOk
    <3> QED BY <3>1, <3>2
  <2>14. DOMAIN chains' \subseteq Ids'
    BY <1>0, <2>2, <2>7 DEF ChainsOk
  <2>15. \A r \in DOMAIN chains' : ChainOk(r)'
    BY <2>7, <2>8, <2>9
  <2> QED BY <1>0, <2>1, <2>7, <2>12, <2>13, <2>14, <2>15 DEF ChainsOk
\* The other steps are of the table, or of a request that is in progress.
<1>3. CASE UNCHANGED itemVars
  BY <1>0, <1>3 DEF itemVars, ChainsOk, ChainOk, InChain, Ids
<1>4. ASSUME NEW w \in Workers
      PROVE  /\ \A id \in Ids : ~ReadForUpdate(w, id)
             /\ ~CommitUpdate(w) /\ ~WriteObservation(w) /\ ~RecordInjection(w)
             /\ ~InjectionFails(w) /\ ~SearchByEmbedding(w) /\ ~SearchByKeywordAndFetch(w)
             /\ ~KeywordRetrieval(w) /\ ~HybridFails(w) /\ ~Answer(w)
             /\ ~ObservationFails(w)
  BY <1>0 DEF ReadForUpdate, CommitUpdate, WriteObservation, RecordInjection, InjectionFails,
              SearchByEmbedding, SearchByKeywordAndFetch, KeywordRetrieval, HybridFails, Answer,
              ObservationFails
<1> QED BY <1>1, <1>2, <1>3, <1>4 DEF ItemsNext

LEMMA VersionsMeaning == ReadsInv /\ ChainsInv => VersionChains
<1> SUFFICES ASSUME RowsOk, ChainsInv PROVE VersionChains
  BY DEF ReadsInv
<1>1. \A id \in Retired : /\ items[id].next \in Ids
                          /\ items[items[id].next].owner = items[id].owner
                          /\ items[items[id].next].version = items[id].version + 1
  BY DEF RowsOk, Retired, Current
<1>2. \A id \in Ids : items[id].version > 1 =>
         \E p \in Retired : /\ items[p].owner = items[id].owner
                            /\ items[p].version + 1 = items[id].version
  BY DEF RowsOk, Retired, Current
<1>3. ASSUME store = "memory", NEW p \in Retired, NEW q \in Retired, items[p].next = items[q].next
      PROVE  p = q
  <2>1. ChainsOk
    BY <1>3 DEF ChainsInv
  <2>2. ASSUME NEW id \in Retired
        PROVE  \E root \in DOMAIN chains : \E v \in 1..Len(chains[root]) :
                  /\ Len(chains[root]) \in Nat /\ v + 1 \in 1..Len(chains[root])
                  /\ chains[root][v] = id /\ chains[root][v + 1] = items[id].next
                  /\ items[items[id].next].version = v + 1
    <3>1. id \in Ids /\ items[id].next # 0
      BY DEF Retired, Current
    <3>2. PICK root \in DOMAIN chains : InChain(id, root)
      BY <2>1, <3>1 DEF ChainsOk
    <3>3. ChainOk(root) /\ Len(chains[root]) \in Nat
      BY <2>1 DEF ChainsOk
    <3>4. PICK v \in 1..Len(chains[root]) : chains[root][v] = id
      BY <3>2 DEF InChain
    <3>5. v < Len(chains[root])
      BY <3>1, <3>3, <3>4 DEF ChainOk
    <3>6. v + 1 \in 1..Len(chains[root])
      BY <3>3, <3>5
    <3>7. items[id].next = chains[root][v + 1] /\ items[chains[root][v + 1]].version = v + 1
      BY <3>3, <3>4, <3>5, <3>6 DEF ChainOk
    <3> QED BY <3>3, <3>4, <3>6, <3>7
  <2>3. PICK r1 \in DOMAIN chains : \E v \in 1..Len(chains[r1]) :
                  /\ Len(chains[r1]) \in Nat /\ v + 1 \in 1..Len(chains[r1])
                  /\ chains[r1][v] = p /\ chains[r1][v + 1] = items[p].next
                  /\ items[items[p].next].version = v + 1
    BY <2>2
  <2>4. PICK r2 \in DOMAIN chains : \E v \in 1..Len(chains[r2]) :
                  /\ Len(chains[r2]) \in Nat /\ v + 1 \in 1..Len(chains[r2])
                  /\ chains[r2][v] = q /\ chains[r2][v + 1] = items[q].next
                  /\ items[items[q].next].version = v + 1
    BY <2>2
  <2>5. InChain(items[p].next, r1) /\ InChain(items[p].next, r2) /\ items[p].next \in Ids
    BY <1>1, <1>3, <2>3, <2>4 DEF InChain
  <2>6. r1 = r2
    BY <2>1, <2>5 DEF ChainsOk
  <2> QED BY <1>3, <2>3, <2>4, <2>6
<1>4. ASSUME store = "memory", NEW id \in Ids
      PROVE  /\ id \in Range(GetVersionHistory(id))
             /\ \A v \in DOMAIN GetVersionHistory(id) :
                    items[GetVersionHistory(id)[v]].version = v
             /\ ListActive(items[id].owner[1]) \intersect Range(GetVersionHistory(id))
                  = {GetLatest(id)}
  <2>1. ChainsOk
    BY <1>4 DEF ChainsInv
  <2> DEFINE history == GetVersionHistory(id)
             L == Len(history)
             user == items[id].owner[1]
  <2>2. PICK root \in DOMAIN chains : root = FindRoot(id) /\ InChain(id, root)
    BY <2>1, RootFound
  <2>3. /\ history = chains[root] /\ history \in Seq(Nat) /\ L \in Nat /\ L > 0
        /\ DOMAIN history = 1..L
    BY <2>1, <2>2 DEF GetVersionHistory, ChainsOk, ChainOk
  <2>4. \A v \in 1..L :
          /\ history[v] \in Ids /\ items[history[v]].version = v
          /\ items[history[v]].owner = items[history[1]].owner
          /\ v < L => items[history[v]].next = history[v + 1]
          /\ v = L => items[history[v]].next = 0
    <3>1. ChainOk(root)
      BY <2>1 DEF ChainsOk
    <3>2. history = chains[root]
      BY <2>3
    <3> HIDE DEF history
    <3> QED BY <3>1, <3>2 DEF ChainOk
  <2>5. PICK w \in 1..L : history[w] = id
    BY <2>2, <2>3 DEF InChain
  <2>6. GetLatest(id) = history[L] /\ L \in 1..L
    BY <2>3 DEF GetLatest, Last
  <2>7. \A v \in 1..L : items[history[v]].owner[1] = user
    BY <2>3, <2>4, <2>5
  <2>8. \A v \in 1..L : items[history[v]].next = 0 <=> v = L
    <3> SUFFICES ASSUME NEW v \in 1..L, v # L PROVE items[history[v]].next # 0
      BY <2>4
    <3>1. v < L /\ v + 1 \in 1..L
      <4>1. L \in Nat
        BY <2>3
      <4> HIDE DEF L
      <4> QED BY <4>1
    <3>2. history[v + 1] \in Ids /\ items[history[v]].next = history[v + 1]
      BY <2>4, <3>1
    <3> QED BY <3>2 DEF Ids, RowsOk
  <2> HIDE DEF history, L, user
  <2>9. Range(history) = {history[v] : v \in 1..L}
    BY <2>3 DEF Range
  <2>10. \A v \in 1..L : history[v] \in ListActive(user) <=> v = L
    BY <2>4, <2>7, <2>8 DEF ListActive, OfUser, Current
  <2>11. ListActive(user) \intersect Range(history) = {history[L]}
    BY <2>6, <2>9, <2>10
  <2>12. id \in Range(history)
    BY <2>5, <2>9
  <2>13. \A v \in DOMAIN history : items[history[v]].version = v
    BY <2>3, <2>4
  <2> QED BY <2>6, <2>11, <2>12, <2>13 DEF history, user
<1> QED BY <1>1, <1>2, <1>3, <1>4 DEF VersionChains

-----------------------------------------------------------------------------
(* Database sessions                                                       *)

SessionStates == {"open", "closed"}
SessionOrgs == DbOrgs \union {NotSet}
Flags == BOOLEAN
Results == DbOrgs \union {"none", "refused", "error"}
SessionRecord == [state : SessionStates, org : SessionOrgs, scoped : Flags,
                  committed : Flags, result : Results]
SessionsType ==
    /\ held \in [Connections -> DbSessions \union {NoSession}]
    /\ setting \in [Connections -> SessionOrgs]
    /\ sessions \in [DbSessions -> SessionRecord]

\* The transaction of a session is the one its organisation was set for.
InScope(s) == sessions[s].scoped /\ ~sessions[s].committed

\* A connection carries the organisation of the session that has it, and none
\* when it is free or the transaction has ended.
SettingsFollow ==
    \A c \in Connections :
        /\ held[c] = NoSession => setting[c] = NotSet
        /\ \A s \in DbSessions : held[c] = s =>
             /\ sessions[s].state = "open"
             /\ InScope(s) => setting[c] = sessions[s].org
             /\ ~InScope(s) => setting[c] = NotSet
OneConnection ==
    /\ \A s \in DbSessions : \A c, d \in Connections : held[c] = s /\ held[d] = s => c = d
    /\ \A s \in DbSessions : sessions[s].state = "open" /\ InScope(s) =>
         \E c \in Connections : held[c] = s
ResultsOwn ==
    \A s \in DbSessions :
        /\ sessions[s].result \in DbOrgs => sessions[s].result = sessions[s].org /\ sessions[s].scoped
        /\ InScope(s) => sessions[s].result # "error"
        /\ sessions[s].scoped => sessions[s].org \in DbOrgs
SessionsInv == SessionsType /\ SettingsFollow /\ OneConnection /\ ResultsOwn

LEMMA SessionsStart == SessionsInit => SessionsInv
<1> SUFFICES ASSUME SessionsInit PROVE SessionsInv
  OBVIOUS
<1>1. ClosedSession \in SessionRecord
  BY DEF ClosedSession, SessionRecord, SessionStates, SessionOrgs, Flags, Results
<1>2. SessionsType
  BY <1>1 DEF SessionsInit, SessionsType, SessionOrgs
<1>3. \A s \in DbSessions : s # NoSession
  BY OperationsAssumption DEF NoSession
<1>4. \A s \in DbSessions : ~InScope(s) /\ ~sessions[s].scoped /\ sessions[s].result = "none"
  BY DEF SessionsInit, InScope, ClosedSession
<1>5. "none" \notin DbOrgs
  BY OperationsAssumption
<1>6. SettingsFollow /\ OneConnection
  BY <1>3, <1>4 DEF SessionsInit, SettingsFollow, OneConnection
<1>7. ResultsOwn
  BY <1>4, <1>5 DEF ResultsOwn
<1> QED BY <1>2, <1>6, <1>7 DEF SessionsInv

LEMMA SessionUpdates ==
    ASSUME sessions \in [DbSessions -> SessionRecord], NEW s \in DbSessions
    PROVE  /\ \A x \in Results :
                /\ [sessions EXCEPT ![s].result = x] \in [DbSessions -> SessionRecord]
                /\ [sessions EXCEPT ![s].result = x][s] =
                     [state |-> sessions[s].state, org |-> sessions[s].org,
                      scoped |-> sessions[s].scoped, committed |-> sessions[s].committed,
                      result |-> x]
           /\ \A x \in Flags :
                /\ [sessions EXCEPT ![s].committed = x] \in [DbSessions -> SessionRecord]
                /\ [sessions EXCEPT ![s].committed = x][s] =
                     [state |-> sessions[s].state, org |-> sessions[s].org,
                      scoped |-> sessions[s].scoped, committed |-> x,
                      result |-> sessions[s].result]
           /\ \A x \in SessionStates :
                /\ [sessions EXCEPT ![s].state = x] \in [DbSessions -> SessionRecord]
                /\ [sessions EXCEPT ![s].state = x][s] =
                     [state |-> x, org |-> sessions[s].org,
                      scoped |-> sessions[s].scoped, committed |-> sessions[s].committed,
                      result |-> sessions[s].result]
           /\ \A x \in SessionRecord :
                /\ [sessions EXCEPT ![s] = x] \in [DbSessions -> SessionRecord]
                /\ [sessions EXCEPT ![s] = x][s] = x
<1>1. ASSUME NEW x \in Results
      PROVE  /\ [sessions EXCEPT ![s].result = x] \in [DbSessions -> SessionRecord]
             /\ [sessions EXCEPT ![s].result = x][s] =
                     [state |-> sessions[s].state, org |-> sessions[s].org,
                      scoped |-> sessions[s].scoped, committed |-> sessions[s].committed,
                      result |-> x]
  BY DEF SessionRecord
<1>2. ASSUME NEW x \in Flags
      PROVE  /\ [sessions EXCEPT ![s].committed = x] \in [DbSessions -> SessionRecord]
             /\ [sessions EXCEPT ![s].committed = x][s] =
                     [state |-> sessions[s].state, org |-> sessions[s].org,
                      scoped |-> sessions[s].scoped, committed |-> x,
                      result |-> sessions[s].result]
  BY DEF SessionRecord
<1>3. ASSUME NEW x \in SessionStates
      PROVE  /\ [sessions EXCEPT ![s].state = x] \in [DbSessions -> SessionRecord]
             /\ [sessions EXCEPT ![s].state = x][s] =
                     [state |-> x, org |-> sessions[s].org,
                      scoped |-> sessions[s].scoped, committed |-> sessions[s].committed,
                      result |-> sessions[s].result]
  BY DEF SessionRecord
<1> QED BY <1>1, <1>2, <1>3

\* A session ends its transaction: its connection is free and carries nothing.
LEMMA TransactionEnds ==
    ASSUME SessionsInv, NEW s \in DbSessions, EndTransaction(s),
           sessions' \in [DbSessions -> SessionRecord],
           \A q \in DbSessions : q # s => sessions'[q] = sessions[q],
           sessions'[s].org = sessions[s].org, sessions'[s].scoped = sessions[s].scoped,
           sessions'[s].result = sessions[s].result,
           sessions'[s].committed \/ sessions'[s].committed = sessions[s].committed,
           sessions'[s].state = "closed" \/ sessions'[s].committed
    PROVE  SessionsInv'
<1>0. SessionsType /\ SettingsFollow /\ OneConnection /\ ResultsOwn
  BY DEF SessionsInv
<1>1. /\ s # NoSession /\ \A c \in Connections :
           held'[c] = (IF held[c] = s THEN NoSession ELSE held[c])
           /\ setting'[c] = (IF held[c] = s THEN NotSet ELSE setting[c])
  BY OperationsAssumption DEF EndTransaction, NoSession
<1>2. SessionsType'
  <2>1. \A c \in Connections : /\ held'[c] \in DbSessions \union {NoSession}
                               /\ setting'[c] \in SessionOrgs
    BY <1>0, <1>1 DEF SessionsType, SessionOrgs
  <2>2. held' = [c \in Connections |-> held'[c]] /\ setting' = [c \in Connections |-> setting'[c]]
    BY DEF EndTransaction
  <2> QED BY <2>1, <2>2 DEF SessionsType
<1>3. /\ \A q \in DbSessions : q # s => (InScope(q)' <=> InScope(q))
      /\ InScope(s)' => InScope(s)
  BY DEF InScope
<1>4. SettingsFollow'
  <2>1. ASSUME NEW c \in Connections, held'[c] = NoSession PROVE setting'[c] = NotSet
    BY <1>0, <1>1, <2>1 DEF SettingsFollow
  <2>2. ASSUME NEW c \in Connections, NEW q \in DbSessions, held'[c] = q
        PROVE  /\ sessions'[q].state = "open"
               /\ InScope(q)' => setting'[c] = sessions'[q].org
               /\ ~InScope(q)' => setting'[c] = NotSet
    <3>1. q # s /\ held[c] = q /\ setting'[c] = setting[c]
      BY <1>1, <2>2, OperationsAssumption DEF NoSession
    <3>2. sessions'[q] = sessions[q] /\ (InScope(q)' <=> InScope(q))
      BY <1>3, <3>1
    <3>3. /\ sessions[q].state = "open"
          /\ InScope(q) => setting[c] = sessions[q].org
          /\ ~InScope(q) => setting[c] = NotSet
      BY <1>0, <3>1 DEF SettingsFollow
    <3> QED BY <3>1, <3>2, <3>3
  <2> QED BY <2>1, <2>2 DEF SettingsFollow
<1>5. \A q \in DbSessions : q # s => \A c \in Connections : held'[c] = q <=> held[c] = q
  BY <1>1, OperationsAssumption DEF NoSession
<1>6. \A c \in Connections : held'[c] # s
  BY <1>1
<1>7. sessions'[s].state = "open" => ~InScope(s)'
  BY DEF InScope
<1>8. OneConnection'
  <2>1. ASSUME NEW q \in DbSessions, NEW c \in Connections, NEW d \in Connections,
               held'[c] = q, held'[d] = q
        PROVE  c = d
    BY <1>0, <1>5, <1>6, <2>1 DEF OneConnection
  <2>2. ASSUME NEW q \in DbSessions, sessions'[q].state = "open", InScope(q)'
        PROVE  \E c \in Connections : held'[c] = q
    BY <1>0, <1>3, <1>5, <1>7, <2>2 DEF OneConnection
  <2> QED BY <2>1, <2>2 DEF OneConnection
<1>9. ResultsOwn'
  BY <1>0, <1>3 DEF ResultsOwn
<1> QED BY <1>2, <1>4, <1>8, <1>9 DEF SessionsInv

\* How a session begins.
LEMMA Begun ==
    /\ \A org \in SessionOrgs :
         LET r == [ClosedSession EXCEPT !.state = "open", !.org = org] IN
         r \in SessionRecord /\ r.scoped = FALSE /\ r.result = "none"
    /\ \A org \in SessionOrgs : \A yes \in Flags :
         LET r == [ClosedSession EXCEPT !.state = "open", !.org = org, !.scoped = yes] IN
         r \in SessionRecord /\ r.state = "open" /\ r.org = org /\ r.scoped = yes
         /\ r.committed = FALSE /\ r.result = "none"
    /\ LET r == [ClosedSession EXCEPT !.result = "refused"] IN
       r \in SessionRecord /\ r.scoped = FALSE /\ r.result = "refused"
<1>1. PICK c : c = ClosedSession
  OBVIOUS
<1>2. c \in SessionRecord
  BY <1>1 DEF ClosedSession, SessionRecord, SessionStates, SessionOrgs, Flags, Results
<1>3. c.scoped = FALSE /\ c.committed = FALSE /\ c.result = "none"
  BY <1>1 DEF ClosedSession
<1>4. "open" \in SessionStates /\ "refused" \in Results
  BY DEF SessionStates, Results
<1>5. ASSUME NEW org \in SessionOrgs
      PROVE  LET r == [c EXCEPT !.state = "open", !.org = org] IN
             r \in SessionRecord /\ r.scoped = FALSE /\ r.result = "none"
  BY <1>2, <1>3, <1>4 DEF SessionRecord
<1>7. LET r == [c EXCEPT !.result = "refused"] IN
      r \in SessionRecord /\ r.scoped = FALSE /\ r.result = "refused"
  BY <1>2, <1>3, <1>4 DEF SessionRecord
<1>8. \A org \in SessionOrgs :
        LET r == [ClosedSession EXCEPT !.state = "open", !.org = org] IN
        r \in SessionRecord /\ r.scoped = FALSE /\ r.result = "none"
  BY <1>1, <1>5
<1>9. \A org \in SessionOrgs : \A yes \in Flags :
        LET r == [ClosedSession EXCEPT !.state = "open", !.org = org, !.scoped = yes] IN
        r \in SessionRecord /\ r.state = "open" /\ r.org = org /\ r.scoped = yes
        /\ r.committed = FALSE /\ r.result = "none"
  <2> SUFFICES ASSUME NEW org \in SessionOrgs, NEW yes \in Flags
               PROVE  LET r == [ClosedSession EXCEPT !.state = "open", !.org = org, !.scoped = yes]
                      IN  r \in SessionRecord /\ r.state = "open" /\ r.org = org /\ r.scoped = yes
                          /\ r.committed = FALSE /\ r.result = "none"
    OBVIOUS
  <2>1. PICK q : q = [c EXCEPT !.state = "open", !.org = org, !.scoped = yes]
    OBVIOUS
  <2>2. q \in SessionRecord /\ q.state = "open" /\ q.org = org /\ q.scoped = yes
        /\ q.committed = FALSE /\ q.result = "none"
    BY <1>2, <1>3, <1>4, <2>1 DEF SessionRecord
  <2>3. q = [ClosedSession EXCEPT !.state = "open", !.org = org, !.scoped = yes]
    BY <1>1, <2>1, Zenon
  <2> QED BY <2>2, <2>3, Zenon
<1>10. LET r == [ClosedSession EXCEPT !.result = "refused"] IN
       r \in SessionRecord /\ r.scoped = FALSE /\ r.result = "refused"
  BY <1>1, <1>7
<1> QED BY <1>8, <1>9, <1>10, Zenon

LEMMA SessionsStep == SessionsInv /\ [SessionsNext]_operationVars => SessionsInv'
<1> SUFFICES ASSUME SessionsInv, [SessionsNext]_operationVars PROVE SessionsInv'
  OBVIOUS
<1>0. /\ SessionsType /\ SettingsFollow /\ OneConnection /\ ResultsOwn
      /\ sessions \in [DbSessions -> SessionRecord]
      /\ held \in [Connections -> DbSessions \union {NoSession}]
      /\ setting \in [Connections -> SessionOrgs]
  BY DEF SessionsInv, SessionsType
<1>n. /\ \A s \in DbSessions : s # NoSession
      /\ {"none", "refused", "error", NotSet} \intersect DbOrgs = {}
  BY OperationsAssumption DEF NoSession, NotSet
\* A session that is not open has no connection.
<1>c. \A s \in DbSessions : sessions[s].state = "closed" => \A c \in Connections : held[c] # s
  BY <1>0 DEF SettingsFollow
\* A closed session begins again, without a connection.
<1>b. ASSUME NEW s \in DbSessions, NEW r \in SessionRecord, sessions[s].state = "closed",
             sessions' = [sessions EXCEPT ![s] = r], r.scoped = FALSE,
             r.result \notin DbOrgs, UNCHANGED <<held, setting>>
      PROVE  SessionsInv'
  <2>1. /\ sessions' \in [DbSessions -> SessionRecord] /\ sessions'[s] = r
        /\ \A q \in DbSessions : q # s => sessions'[q] = sessions[q]
    BY <1>0, <1>b
  <2>2. ~InScope(s)' /\ \A q \in DbSessions : q # s => (InScope(q)' <=> InScope(q))
    BY <1>b, <2>1 DEF InScope
  <2>3. SessionsType'
    BY <1>0, <1>b, <2>1 DEF SessionsType
  <2>4. SettingsFollow'
    BY <1>0, <1>b, <1>c, <2>1, <2>2 DEF SettingsFollow
  <2>5. OneConnection'
    BY <1>0, <1>b, <2>1, <2>2 DEF OneConnection
  <2>6. ResultsOwn'
    BY <1>0, <1>b, <2>1, <2>2 DEF ResultsOwn
  <2> QED BY <2>3, <2>4, <2>5, <2>6 DEF SessionsInv
<1>1. ASSUME NEW s \in DbSessions, NEW org \in DbOrgs, GetDbSession(s, org) PROVE SessionsInv'
  <2>1. PICK c \in Connections :
          /\ held[c] = NoSession
          /\ setting' = [setting EXCEPT ![c] = org] /\ held' = [held EXCEPT ![c] = s]
    BY <1>1 DEF GetDbSession, Free, SetLocal
  <2>2. PICK r : r = [ClosedSession EXCEPT !.state = "open", !.org = org, !.scoped = TRUE]
    OBVIOUS
  <2>3. r \in SessionRecord /\ r.state = "open" /\ r.org = org /\ r.scoped = TRUE
        /\ r.committed = FALSE /\ r.result = "none"
    <3>1. org \in SessionOrgs /\ TRUE \in Flags
      BY DEF SessionOrgs, Flags
    <3>2. \A yes \in Flags :
            LET q == [ClosedSession EXCEPT !.state = "open", !.org = org, !.scoped = yes] IN
            q \in SessionRecord /\ q.state = "open" /\ q.org = org /\ q.scoped = yes
            /\ q.committed = FALSE /\ q.result = "none"
      BY <3>1, Begun, Zenon
    <3>3. PICK yes \in Flags : yes = TRUE
      BY <3>1
    <3>4. r = [ClosedSession EXCEPT !.state = "open", !.org = org, !.scoped = yes]
      BY <2>2, <3>3
    <3> QED BY <3>2, <3>3, <3>4
  <2>4. sessions' = [sessions EXCEPT ![s] = r] /\ sessions[s].state = "closed"
    BY <1>1, <2>2 DEF GetDbSession
  <2>5. /\ sessions' \in [DbSessions -> SessionRecord] /\ sessions'[s] = r
        /\ \A q \in DbSessions : q # s => sessions'[q] = sessions[q]
    BY <1>0, <2>3, <2>4
  <2>6. InScope(s)' /\ \A q \in DbSessions : q # s => (InScope(q)' <=> InScope(q))
    BY <2>3, <2>5 DEF InScope
  <2>7. /\ held' \in [Connections -> DbSessions \union {NoSession}]
        /\ setting' \in [Connections -> SessionOrgs]
        /\ held'[c] = s /\ setting'[c] = org
        /\ \A d \in Connections : d # c => held'[d] = held[d] /\ setting'[d] = setting[d]
    BY <1>0, <2>1 DEF SessionOrgs
  <2>8. r.state = "open" /\ r.org = org /\ r.result = "none"
    BY <2>3
  <2>9. SessionsType'
    BY <2>5, <2>7 DEF SessionsType
  <2>10. SettingsFollow'
    BY <1>0, <1>c, <1>n, <2>4, <2>5, <2>6, <2>7, <2>8 DEF SettingsFollow
  <2>11. OneConnection'
    BY <1>0, <1>c, <1>n, <2>1, <2>4, <2>5, <2>6, <2>7, <2>8 DEF OneConnection
  <2>12. ResultsOwn'
    BY <1>0, <1>n, <2>5, <2>6, <2>8 DEF ResultsOwn
  <2> QED BY <2>9, <2>10, <2>11, <2>12 DEF SessionsInv
<1>2. ASSUME NEW s \in DbSessions, RefuseSession(s) PROVE SessionsInv'
  <2>1. PICK r : r = [ClosedSession EXCEPT !.result = "refused"]
    OBVIOUS
  <2>2. r \in SessionRecord /\ r.scoped = FALSE /\ r.result = "refused"
    BY <2>1, Begun, Zenon
  <2>3. /\ sessions' = [sessions EXCEPT ![s] = r] /\ sessions[s].state = "closed"
        /\ UNCHANGED <<held, setting>>
    BY <1>2, <2>1 DEF RefuseSession
  <2> QED BY <1>b, <1>n, <2>2, <2>3
<1>3. ASSUME NEW s \in DbSessions, NEW org \in DbOrgs, CreateSession(s, org) PROVE SessionsInv'
  <2>1. PICK r : r = [ClosedSession EXCEPT !.state = "open", !.org = org]
    OBVIOUS
  <2>2. r \in SessionRecord /\ r.scoped = FALSE /\ r.result = "none"
    <3>1. org \in SessionOrgs
      BY DEF SessionOrgs
    <3> QED BY <2>1, <3>1, Begun, Zenon
  <2>3. /\ sessions' = [sessions EXCEPT ![s] = r] /\ sessions[s].state = "closed"
        /\ UNCHANGED <<held, setting>>
    BY <1>3, <2>1 DEF CreateSession
  <2> QED BY <1>b, <1>n, <2>2, <2>3
<1>4. ASSUME NEW s \in DbSessions, QueryRows(s) PROVE SessionsInv'
  <2>1. PICK c \in Connections :
          /\ held[c] = s \/ (held[c] = NoSession /\ s \notin {held[d] : d \in Connections})
          /\ held' = [held EXCEPT ![c] = s]
          /\ sessions' = [sessions EXCEPT ![s].result =
                            IF setting[c] = NotSet THEN "error" ELSE setting[c]]
    BY <1>4 DEF QueryRows, Free
  <2>2. setting' = setting /\ sessions[s].state = "open"
    BY <1>4 DEF QueryRows
  <2>3. PICK x : x = IF setting[c] = NotSet THEN "error" ELSE setting[c]
    OBVIOUS
  <2>4. x \in Results
    BY <1>0, <2>3 DEF Results, SessionOrgs
  <2>5. /\ sessions' \in [DbSessions -> SessionRecord]
        /\ sessions'[s] = [state |-> sessions[s].state, org |-> sessions[s].org,
                           scoped |-> sessions[s].scoped, committed |-> sessions[s].committed,
                           result |-> x]
        /\ \A q \in DbSessions : q # s => sessions'[q] = sessions[q]
    <3>1. sessions' = [sessions EXCEPT ![s].result = x]
      BY <2>1, <2>3
    <3>2. \A q \in DbSessions : q # s => sessions'[q] = sessions[q]
      BY <1>0, <3>1
    <3>3. /\ [sessions EXCEPT ![s].result = x] \in [DbSessions -> SessionRecord]
          /\ [sessions EXCEPT ![s].result = x][s] =
               [state |-> sessions[s].state, org |-> sessions[s].org,
                scoped |-> sessions[s].scoped, committed |-> sessions[s].committed,
                result |-> x]
      BY <1>0, <2>4, SessionUpdates
    <3> QED BY <3>1, <3>2, <3>3
  <2>6. /\ sessions'[s].state = "open" /\ sessions'[s].org = sessions[s].org
        /\ sessions'[s].scoped = sessions[s].scoped
        /\ sessions'[s].committed = sessions[s].committed /\ sessions'[s].result = x
    BY <2>2, <2>5
  <2>7. \A q \in DbSessions : InScope(q)' <=> InScope(q)
    BY <2>5, <2>6 DEF InScope
  <2>8. /\ held' \in [Connections -> DbSessions \union {NoSession}] /\ held'[c] = s
        /\ \A d \in Connections : d # c => held'[d] = held[d]
    BY <1>0, <2>1
  <2>9. SessionsType'
    BY <1>0, <2>2, <2>5, <2>8 DEF SessionsType
  \* The connection that was free carries nothing, and the session is out of scope.
  <2>10. held[c] = NoSession => setting[c] = NotSet /\ ~InScope(s)
    BY <1>0, <1>n, <2>1, <2>2 DEF SettingsFollow, OneConnection
  <2>11. /\ InScope(s) => setting[c] = sessions[s].org
         /\ ~InScope(s) => setting[c] = NotSet
    BY <1>0, <2>1, <2>10 DEF SettingsFollow
  <2>12. SettingsFollow'
    BY <1>0, <1>n, <2>2, <2>5, <2>6, <2>7, <2>8, <2>11 DEF SettingsFollow
  <2>13. OneConnection'
    <3>1. \A q \in DbSessions : q # s => \A d \in Connections : held'[d] = q <=> held[d] = q
      BY <1>n, <2>1, <2>8
    <3>2. \A d \in Connections : held'[d] = s => d = c
      BY <1>0, <2>1, <2>8 DEF OneConnection
    <3> QED BY <1>0, <2>5, <2>7, <2>8, <3>1, <3>2 DEF OneConnection
  <2>14. ResultsOwn'
    <3>1. x \in DbOrgs => x = sessions[s].org /\ sessions[s].scoped
      BY <1>n, <2>3, <2>11 DEF InScope
    <3>2. sessions[s].org = NotSet \/ sessions[s].org \in DbOrgs
      BY <1>0 DEF SessionRecord, SessionOrgs
    <3>3. InScope(s) => x # "error"
      <4>1. InScope(s) => sessions[s].org # NotSet
        BY <1>0, <1>n DEF ResultsOwn, InScope
      <4> QED BY <1>n, <2>3, <2>11, <3>2, <4>1
    <3>4. ASSUME NEW q \in DbSessions
          PROVE  /\ sessions'[q].result \in DbOrgs =>
                      sessions'[q].result = sessions'[q].org /\ sessions'[q].scoped
                 /\ InScope(q)' => sessions'[q].result # "error"
                 /\ sessions'[q].scoped => sessions'[q].org \in DbOrgs
      <4>1. CASE q = s
        <5>1. sessions[s].scoped => sessions[s].org \in DbOrgs
          BY <1>0 DEF ResultsOwn
        <5> QED BY <2>6, <2>7, <3>1, <3>3, <4>1, <5>1
      <4>2. CASE q # s
        BY <1>0, <2>5, <2>7, <4>2 DEF ResultsOwn
      <4> QED BY <4>1, <4>2
    <3> QED BY <3>4 DEF ResultsOwn
  <2> QED BY <2>9, <2>12, <2>13, <2>14 DEF SessionsInv
<1>5. ASSUME NEW s \in DbSessions, CommitSession(s) PROVE SessionsInv'
  <2>1. sessions' = [sessions EXCEPT ![s].committed = TRUE] /\ EndTransaction(s)
    BY <1>5 DEF CommitSession
  <2>2. TRUE \in Flags
    BY DEF Flags
  <2>3. /\ sessions' \in [DbSessions -> SessionRecord]
        /\ sessions'[s] = [state |-> sessions[s].state, org |-> sessions[s].org,
                           scoped |-> sessions[s].scoped, committed |-> TRUE,
                           result |-> sessions[s].result]
    BY <1>0, <2>1, <2>2, SessionUpdates
  <2>4. \A q \in DbSessions : q # s => sessions'[q] = sessions[q]
    BY <1>0, <2>1
  <2> QED BY <2>1, <2>3, <2>4, TransactionEnds
<1>6. ASSUME NEW s \in DbSessions, CloseSession(s) PROVE SessionsInv'
  <2>1. sessions' = [sessions EXCEPT ![s].state = "closed"] /\ EndTransaction(s)
    BY <1>6 DEF CloseSession
  <2>2. "closed" \in SessionStates
    BY DEF SessionStates
  <2>3. /\ sessions' \in [DbSessions -> SessionRecord]
        /\ sessions'[s] = [state |-> "closed", org |-> sessions[s].org,
                           scoped |-> sessions[s].scoped, committed |-> sessions[s].committed,
                           result |-> sessions[s].result]
    BY <1>0, <2>1, <2>2, SessionUpdates
  <2>4. \A q \in DbSessions : q # s => sessions'[q] = sessions[q]
    BY <1>0, <2>1
  <2> QED BY <2>1, <2>3, <2>4, TransactionEnds
<1>7. CASE UNCHANGED operationVars
  BY <1>0, <1>7 DEF operationVars, sessionVars, SessionsInv, SessionsType, SettingsFollow,
                    OneConnection, ResultsOwn, InScope
<1> QED BY <1>1, <1>2, <1>3, <1>4, <1>5, <1>6, <1>7 DEF SessionsNext

LEMMA SessionsMeaning == SessionsInv => SessionsScoped
<1> SUFFICES ASSUME SessionsInv PROVE SessionsScoped
  OBVIOUS
<1>0. SessionsType /\ SettingsFollow /\ OneConnection /\ ResultsOwn
  BY DEF SessionsInv
<1>1. ASSUME NEW s \in DbSessions
      PROVE  /\ sessions[s].result \in {"none", "refused", "error", sessions[s].org}
             /\ sessions[s].result \in DbOrgs => sessions[s].scoped
             /\ sessions[s].scoped /\ ~sessions[s].committed => sessions[s].result # "error"
             /\ sessions[s].state = "closed" => \A c \in Connections : held[c] # s
  <2>1. sessions[s].result \in Results
    BY <1>0 DEF SessionsType, SessionRecord
  <2> QED BY <1>0, <2>1 DEF Results, ResultsOwn, SettingsFollow, InScope
<1>2. ASSUME NEW s \in DbSessions PROVE Cardinality({c \in Connections : held[c] = s}) <= 1
  <2> DEFINE C == {c \in Connections : held[c] = s}
  <2>1. CASE C = {}
    BY <2>1, FS_EmptySet
  <2>2. CASE C # {}
    <3>1. PICK c \in Connections : C = {c}
      BY <1>0, <2>2 DEF OneConnection
    <3> QED BY <3>1, FS_Singleton
  <2> QED BY <2>1, <2>2
<1>3. \A c \in Connections : Free(c) => setting[c] = NotSet
  BY <1>0 DEF SettingsFollow, Free
<1> QED BY <1>1, <1>2, <1>3 DEF SessionsScoped

-----------------------------------------------------------------------------
(* Knowledge bundles                                                       *)

QueryPlaces == {"idle", "enriching", "answered"}
ProfileNames == {"none", "role_adaptation", "brand_context", "by_vector", "both"}
ChainSets == SUBSET {"mine"}
NodeSets == SUBSET Knowledge
NodeSeqs == Seq(Knowledge)
QueryRecord == [at : QueryPlaces, profile : ProfileNames, chain : ChainSets,
                found : NodeSets, left : NodeSets, contents : NodeSeqs, failed : NodeSets]
Points == [Knowledge -> 0..MaxPoints]
Changes == Nat
StoresRecord == [graph : NodeSets, points : Points, changes : Changes]
StoresType == stores \in StoresRecord

LabelOf(name) == IF name = "role_adaptation" THEN "RoleAdaptationRule" ELSE "BrandKnowledge"

\* What was found fits the profile; what was asked for so far hangs on it.
FoundOk(q) ==
    /\ q.at # "idle" =>
         /\ q.profile # "none"
         /\ \A n \in q.found :
              /\ KnowledgeOf[n].type = LabelOf(q.profile)
              /\ KnowledgeOf[n].org \notin q.chain =>
                   KnowledgeOf[n].visibility \in {"global", "brand"}
    /\ Cardinality(q.found) <= ResolveLimit
    /\ q.profile = "role_adaptation" => q.left = {} /\ q.contents = <<>>
    /\ q.at = "answered" => q.left = {}
Read(q) == q.found \ (q.left \union q.failed)
ReadOk(q) ==
    /\ q.left \subseteq q.found /\ q.failed \subseteq q.found
    /\ q.left \intersect q.failed = {}
    /\ \A i \in 1..Len(q.contents) : q.contents[i] \in Read(q)
    /\ Len(q.contents) <= PointLimit * Cardinality(Read(q))
QueryInv == StoresType /\ query \in QueryRecord /\ FoundOk(query) /\ ReadOk(query)

LEMMA ProfileFields ==
    \A name \in DOMAIN Profiles :
        /\ name \in ProfileNames /\ name # "none"
        /\ Profiles[name].label = LabelOf(name)
        /\ Profiles[name].visible \subseteq {"global", "brand"}
        /\ Profiles[name].strategy = "none" <=> name = "role_adaptation"
<1>1. DOMAIN Profiles = {"role_adaptation", "brand_context", "by_vector", "both"}
  BY DEF Profiles
<1>2. /\ Profiles["role_adaptation"].label = "RoleAdaptationRule"
      /\ Profiles["role_adaptation"].visible = {"global"}
      /\ Profiles["role_adaptation"].strategy = "none"
      /\ Profiles["brand_context"].label = "BrandKnowledge"
      /\ Profiles["brand_context"].visible = {"global", "brand"}
      /\ Profiles["brand_context"].strategy = "graph_first"
      /\ Profiles["by_vector"].label = "BrandKnowledge"
      /\ Profiles["by_vector"].visible = {"global", "brand"}
      /\ Profiles["by_vector"].strategy = "vector_first"
      /\ Profiles["both"].label = "BrandKnowledge"
      /\ Profiles["both"].visible = {"global", "brand"}
      /\ Profiles["both"].strategy = "parallel"
  BY DEF Profiles
<1> QED BY <1>1, <1>2 DEF ProfileNames, LabelOf

LEMMA FiniteNodes ==
    \A S \in SUBSET Knowledge : IsFiniteSet(S) /\ Cardinality(S) \in Nat
BY EntitiesAssumption, FS_Subset, FS_CardinalityType DEF Knowledge

LEMMA NoQueryOk ==
    /\ NoQuery \in QueryRecord /\ FoundOk(NoQuery) /\ ReadOk(NoQuery)
    /\ NoQuery.found = {} /\ NoQuery.left = {} /\ NoQuery.failed = {} /\ NoQuery.contents = <<>>
<1>1. NoQuery.found = {} /\ NoQuery.left = {} /\ NoQuery.failed = {} /\ NoQuery.contents = <<>>
      /\ NoQuery.at = "idle" /\ NoQuery.profile = "none"
  BY DEF NoQuery
<1>2. NoQuery \in QueryRecord
  BY DEF NoQuery, QueryRecord, QueryPlaces, ProfileNames, ChainSets, NodeSets, NodeSeqs
<1>3. FoundOk(NoQuery)
  BY <1>1, FS_EmptySet, EntitiesAssumption DEF FoundOk
<1>4. ReadOk(NoQuery)
  <2>1. Read(NoQuery) = {} /\ Cardinality({}) = 0 /\ Len(<<>>) = 0
    BY <1>1, FS_EmptySet DEF Read
  <2> QED BY <1>1, <2>1, EntitiesAssumption DEF ReadOk
<1> QED BY <1>1, <1>2, <1>3, <1>4

LEMMA QueryStart == ResolverInit => QueryInv
<1> SUFFICES ASSUME ResolverInit PROVE QueryInv
  OBVIOUS
<1>1. StoresType
  BY EntitiesAssumption DEF ResolverInit, StoresType, StoresRecord, NodeSets, Points, Changes
<1> QED BY <1>1, NoQueryOk DEF ResolverInit, QueryInv

LEMMA QueryStep == QueryInv /\ [ResolverNext]_entityVars => QueryInv'
<1> SUFFICES ASSUME QueryInv, [ResolverNext]_entityVars PROVE QueryInv'
  OBVIOUS
<1>0. StoresType /\ query \in QueryRecord /\ FoundOk(query) /\ ReadOk(query)
  BY DEF QueryInv
\* The new query is a value of its own, of which the invariant is shown.
<1>a. ASSUME NEW q \in QueryRecord, query' = q, FoundOk(q), ReadOk(q), stores' = stores
      PROVE  QueryInv'
  BY <1>0, <1>a DEF QueryInv, StoresType, FoundOk, ReadOk, Read
<1>1. CASE ChangeStores
  <2>1. query' = query
    BY <1>1 DEF ChangeStores
  <2>2. StoresType'
    <3>a. stores \in StoresRecord /\ stores.changes + 1 \in Changes
      BY <1>0 DEF StoresType, StoresRecord, Changes
    <3>g. ASSUME NEW g \in NodeSets, NEW m \in Changes
          PROVE  [stores EXCEPT !.graph = g, !.changes = m] \in StoresRecord
      BY <3>a DEF StoresRecord
    <3>p. ASSUME NEW f \in Points, NEW m \in Changes
          PROVE  [stores EXCEPT !.points = f, !.changes = m] \in StoresRecord
      BY <3>a DEF StoresRecord
    <3>0. /\ \A g \in NodeSets : [stores EXCEPT !.graph = g, !.changes = @ + 1] \in StoresRecord
          /\ \A f \in Points : [stores EXCEPT !.points = f, !.changes = @ + 1] \in StoresRecord
      BY <3>a, <3>g, <3>p, Zenon
    <3>1. ASSUME NEW n \in stores.graph,
                 stores' = [stores EXCEPT !.graph = @ \ {n}, !.changes = @ + 1]
          PROVE  StoresType'
      <4>1. stores.graph \ {n} \in NodeSets
        BY <3>a DEF StoresRecord, NodeSets
      <4> QED BY <3>0, <3>1, <4>1 DEF StoresType
    <3>2. ASSUME NEW n \in Knowledge \ stores.graph,
                 stores' = [stores EXCEPT !.graph = @ \union {n}, !.changes = @ + 1]
          PROVE  StoresType'
      <4>1. stores.graph \union {n} \in NodeSets
        BY <3>a DEF StoresRecord, NodeSets
      <4> QED BY <3>0, <3>2, <4>1 DEF StoresType
    <3>3. ASSUME NEW n \in Knowledge, NEW p \in 0..MaxPoints,
                 stores' = [stores EXCEPT !.points[n] = p, !.changes = @ + 1]
          PROVE  StoresType'
      <4>1. PICK f : f = [stores.points EXCEPT ![n] = p]
        OBVIOUS
      <4>2. f \in Points
        BY <3>a, <4>1 DEF StoresRecord, Points
      <4>3. stores' = [stores EXCEPT !.points = f, !.changes = @ + 1]
        BY <3>3, <4>1
      <4> QED BY <3>0, <4>2, <4>3 DEF StoresType
    <3> QED BY <1>1, <3>1, <3>2, <3>3 DEF ChangeStores
  <2> QED BY <1>0, <2>1, <2>2 DEF QueryInv, FoundOk, ReadOk, Read
<1>2. ASSUME NEW name \in DOMAIN Profiles, NEW chain \in {{}, {"mine"}},
             ExecuteGraphQuery(name, chain)
      PROVE  QueryInv'
  <2> DEFINE nodes == Matching(Profiles[name], chain)
  <2>1. PICK found \in kSubset(Min({ResolveLimit, Cardinality(nodes)}), nodes) :
          query' = [NoQuery EXCEPT
                      !.at = "enriching", !.profile = name, !.chain = chain,
                      !.found = found,
                      !.left = IF Profiles[name].strategy = "none" THEN {} ELSE found]
    BY <1>2 DEF ExecuteGraphQuery
  <2>2. PICK left : left = IF Profiles[name].strategy = "none" THEN {} ELSE found
    OBVIOUS
  <2>3. nodes \subseteq Knowledge
    BY <1>0 DEF Matching, StoresType, StoresRecord, NodeSets
  <2>4. found \subseteq nodes /\ Cardinality(found) <= ResolveLimit
    <3>1. Cardinality(nodes) \in Nat
      BY <2>3, FiniteNodes
    <3>2. found \subseteq nodes /\ Cardinality(found) = Min({ResolveLimit, Cardinality(nodes)})
      BY DEF kSubset
    <3>3. Min({ResolveLimit, Cardinality(nodes)}) <= ResolveLimit
      BY <3>1, EntitiesAssumption DEF Min
    <3> QED BY <3>2, <3>3
  <2>5. found \in NodeSets /\ left \in NodeSets /\ name \in ProfileNames /\ chain \in ChainSets
        /\ "enriching" \in QueryPlaces
    BY <2>2, <2>3, <2>4, ProfileFields DEF NodeSets, ChainSets, QueryPlaces
  <2>6. PICK c \in QueryRecord : c = NoQuery
    BY NoQueryOk
  <2>7. PICK q : q = [c EXCEPT !.at = "enriching", !.profile = name, !.chain = chain,
                               !.found = found, !.left = left]
    OBVIOUS
  <2>8. /\ q \in QueryRecord /\ q.at = "enriching" /\ q.profile = name /\ q.chain = chain
        /\ q.found = found /\ q.left = left /\ q.failed = c.failed /\ q.contents = c.contents
    BY <2>5, <2>7 DEF QueryRecord
  <2>9. q.failed = {} /\ q.contents = <<>>
    BY <2>6, <2>8, NoQueryOk
  <2>10. query' = q
    BY <2>1, <2>2, <2>6, <2>7
  <2>11. \A n \in found : /\ KnowledgeOf[n].type = LabelOf(name)
                          /\ KnowledgeOf[n].org \notin chain =>
                               KnowledgeOf[n].visibility \in {"global", "brand"}
    BY <2>4, ProfileFields DEF Matching
  <2>12. name = "role_adaptation" => left = {}
    BY <2>2, ProfileFields
  <2>13. FoundOk(q)
    BY <2>4, <2>8, <2>9, <2>11, <2>12, ProfileFields DEF FoundOk
  <2>14. ReadOk(q)
    <3>1. left \subseteq found
      BY <2>2
    <3>2. Len(q.contents) = 0 /\ Cardinality(Read(q)) \in Nat
      BY <2>5, <2>8, <2>9, FiniteNodes DEF Read, NodeSets
    <3>3. 0 <= PointLimit * Cardinality(Read(q))
      BY <3>2, EntitiesAssumption
    <3> QED BY <2>8, <2>9, <3>1, <3>2, <3>3 DEF ReadOk
  <2>15. stores' = stores
    BY <1>2 DEF ExecuteGraphQuery
  <2> QED BY <1>a, <2>8, <2>10, <2>13, <2>14, <2>15
<1>3. ASSUME NEW name \in DOMAIN Profiles, NEW chain \in {{}, {"mine"}},
             ResolveVectorFirst(name, chain)
      PROVE  QueryInv'
  <2>1. /\ query' = [NoQuery EXCEPT !.at = "answered", !.profile = name, !.chain = chain]
        /\ stores' = stores /\ Profiles[name].strategy = "vector_first"
    BY <1>3 DEF ResolveVectorFirst
  <2>2. PICK c \in QueryRecord : c = NoQuery
    BY NoQueryOk
  <2>3. PICK q : q = [c EXCEPT !.at = "answered", !.profile = name, !.chain = chain]
    OBVIOUS
  <2>4. name \in ProfileNames /\ chain \in ChainSets /\ "answered" \in QueryPlaces
    BY ProfileFields DEF ChainSets, QueryPlaces
  <2>5. /\ q \in QueryRecord /\ q.at = "answered" /\ q.profile = name
        /\ q.found = c.found /\ q.left = c.left /\ q.failed = c.failed /\ q.contents = c.contents
    BY <2>3, <2>4 DEF QueryRecord
  <2>6. q.found = {} /\ q.left = {} /\ q.failed = {} /\ q.contents = <<>>
    BY <2>2, <2>5, NoQueryOk
  <2>7. FoundOk(q)
    BY <2>5, <2>6, ProfileFields, FS_EmptySet, EntitiesAssumption DEF FoundOk
  <2>8. ReadOk(q)
    <3>1. Read(q) = {} /\ Cardinality({}) = 0 /\ Len(<<>>) = 0
      BY <2>6, FS_EmptySet DEF Read
    <3> QED BY <2>6, <3>1, EntitiesAssumption DEF ReadOk
  <2>9. query' = q
    BY <2>1, <2>2, <2>3
  <2> QED BY <1>a, <2>1, <2>5, <2>7, <2>8, <2>9
\* One node is no longer to be asked: its points are read, or it failed.
<1>n. ASSUME NEW n \in query.left
      PROVE  /\ n \in Knowledge /\ n \in query.found /\ n \notin query.failed /\ n \notin Read(query)
             /\ query.left \ {n} \in NodeSets /\ query.failed \union {n} \in NodeSets
             /\ query.profile # "role_adaptation" /\ Read(query) \in SUBSET Knowledge
             /\ query.found \in SUBSET Knowledge
  BY <1>0, <1>n DEF QueryRecord, NodeSets, ReadOk, FoundOk, Read
<1>4. ASSUME NEW n \in query.left, EnrichNode(n) PROVE QueryInv'
  <2> DEFINE k == Min({PointLimit, stores.points[n]})
             more == [p \in 1..k |-> n]
  <2>1. k \in Nat /\ k <= PointLimit
    <3>1. stores.points[n] \in Nat
      <4>1. stores.points \in [Knowledge -> 0..MaxPoints] /\ n \in Knowledge
        BY <1>0, <1>n DEF StoresType, StoresRecord, Points
      <4>2. stores.points[n] \in 0..MaxPoints
        BY <4>1
      <4> QED BY <4>2, EntitiesAssumption
    <3> QED BY <3>1, EntitiesAssumption DEF Min
  <2> HIDE DEF k
  <2>2. more \in Seq(Knowledge) /\ Len(more) = k /\ \A i \in 1..k : more[i] = n
    <3>1. n \in Knowledge
      BY <1>n
    <3>2. more \in [1..k -> Knowledge]
      BY <3>1
    <3> QED BY <2>1, <3>2, LenProperties
  <2>3. PICK contents : contents = query.contents \o more
    OBVIOUS
  <2> DEFINE L == Len(query.contents)
  <2>4. /\ query.contents \in Seq(Knowledge) /\ L \in Nat
        /\ contents \in NodeSeqs /\ Len(contents) = L + k
        /\ \A i \in 1..(L + k) : contents[i] = IF i <= L THEN query.contents[i] ELSE n
    <3>1. query.contents \in Seq(Knowledge) /\ L \in Nat
      BY <1>0 DEF QueryRecord, NodeSeqs
    <3> HIDE DEF more
    <3>2. /\ contents \in Seq(Knowledge) /\ Len(contents) = L + k
          /\ \A i \in 1..(L + k) : contents[i] = IF i <= L THEN query.contents[i] ELSE more[i - L]
      BY <2>2, <2>3, <3>1, ConcatProperties
    <3> HIDE DEF L
    <3>3. ASSUME NEW i \in 1..(L + k)
          PROVE  contents[i] = IF i <= L THEN query.contents[i] ELSE n
      <4>1. ~(i <= L) => i - L \in 1..k
        BY <2>1, <3>1
      <4> QED BY <2>2, <3>2, <4>1
    <3> QED BY <3>1, <3>2, <3>3 DEF NodeSeqs
  <2>5. PICK q : q = [query EXCEPT !.left = query.left \ {n}, !.contents = contents]
    OBVIOUS
  <2>6. query' = q /\ stores' = stores /\ query.at = "enriching"
    BY <1>4, <2>3, <2>5 DEF EnrichNode, k, more
  <2>7. /\ q \in QueryRecord /\ q.at = query.at /\ q.profile = query.profile
        /\ q.chain = query.chain /\ q.found = query.found /\ q.failed = query.failed
        /\ q.left = query.left \ {n} /\ q.contents = contents
    BY <1>0, <1>n, <2>4, <2>5 DEF QueryRecord
  <2>8. FoundOk(q)
    BY <1>0, <1>n, <2>6, <2>7 DEF FoundOk
  <2>9. Read(q) = Read(query) \union {n}
    BY <1>n, <2>7 DEF Read
  <2>10. /\ Cardinality(Read(query)) \in Nat
         /\ Cardinality(Read(q)) = Cardinality(Read(query)) + 1
    BY <1>n, <2>9, FS_AddElement, FiniteNodes
  <2>11. Len(contents) <= PointLimit * Cardinality(Read(q))
    <3>1. L <= PointLimit * Cardinality(Read(query))
      BY <1>0 DEF ReadOk
    <3> DEFINE C == Cardinality(Read(query))
    <3> HIDE DEF L, C
    <3>2. PointLimit * (C + 1) = PointLimit * C + PointLimit /\ PointLimit * C \in Nat
      BY <2>10, EntitiesAssumption DEF C
    <3>3. L + k <= PointLimit * (C + 1)
      BY <2>1, <2>4, <3>1, <3>2, EntitiesAssumption DEF C
    <3> QED BY <2>4, <2>10, <3>3 DEF C
  <2>12. \A i \in 1..Len(q.contents) : q.contents[i] \in Read(q)
    <3>1. \A i \in 1..L : query.contents[i] \in Read(query)
      BY <1>0 DEF ReadOk
    <3> HIDE DEF L
    <3> QED BY <2>1, <2>4, <2>7, <2>9, <3>1
  <2>13. ReadOk(q)
    BY <1>0, <1>n, <2>7, <2>11, <2>12 DEF ReadOk
  <2> QED BY <1>a, <2>6, <2>7, <2>8, <2>13
<1>5. ASSUME NEW n \in query.left, EnrichmentFails(n) PROVE QueryInv'
  <2>1. PICK q : q = [query EXCEPT !.left = query.left \ {n}, !.failed = query.failed \union {n}]
    OBVIOUS
  <2>2. query' = q /\ stores' = stores /\ query.at = "enriching"
    BY <1>5, <2>1 DEF EnrichmentFails
  <2>3. /\ q \in QueryRecord /\ q.at = query.at /\ q.profile = query.profile
        /\ q.chain = query.chain /\ q.found = query.found /\ q.contents = query.contents
        /\ q.left = query.left \ {n} /\ q.failed = query.failed \union {n}
    BY <1>0, <1>n, <2>1 DEF QueryRecord
  <2>4. FoundOk(q)
    BY <1>0, <1>n, <2>2, <2>3 DEF FoundOk
  <2>5. Read(q) = Read(query)
    BY <1>n, <2>3 DEF Read
  <2>6. ReadOk(q)
    BY <1>0, <1>n, <2>3, <2>5 DEF ReadOk
  <2> QED BY <1>a, <2>2, <2>3, <2>4, <2>6
<1>6. CASE AnswerBundle
  <2>1. PICK q : q = [query EXCEPT !.at = "answered"]
    OBVIOUS
  <2>2. query' = q /\ stores' = stores /\ query.at = "enriching" /\ query.left = {}
    BY <1>6, <2>1 DEF AnswerBundle
  <2>3. "answered" \in QueryPlaces
    BY DEF QueryPlaces
  <2>4. /\ q \in QueryRecord /\ q.at = "answered" /\ q.profile = query.profile
        /\ q.chain = query.chain /\ q.found = query.found /\ q.contents = query.contents
        /\ q.left = query.left /\ q.failed = query.failed
    BY <1>0, <2>1, <2>3 DEF QueryRecord
  <2>5. FoundOk(q) /\ ReadOk(q)
    BY <1>0, <2>2, <2>4 DEF FoundOk, ReadOk, Read
  <2> QED BY <1>a, <2>2, <2>4, <2>5
<1>7. CASE UNCHANGED entityVars
  BY <1>0, <1>7 DEF entityVars, QueryInv, StoresType, FoundOk, ReadOk, Read
<1> QED BY <1>1, <1>2, <1>3, <1>4, <1>5, <1>6, <1>7 DEF ResolverNext

LEMMA QueryMeaning == QueryInv => BundleScoped
<1> SUFFICES ASSUME QueryInv, query.at = "answered" PROVE BundleScoped
  BY DEF BundleScoped
<1>0. query \in QueryRecord /\ FoundOk(query) /\ ReadOk(query) /\ query.left = {}
      /\ query.found \in SUBSET Knowledge /\ query.failed \in SUBSET Knowledge
      /\ query.contents \in Seq(Knowledge)
  BY DEF QueryInv, FoundOk, QueryRecord, NodeSets, NodeSeqs
<1>1. /\ Bundle.entities = GroupByType(query.found) /\ Bundle.contents = query.contents
      /\ Bundle.graphHits = Cardinality(query.found) /\ Bundle.vectorHits = Len(query.contents)
      /\ Bundle.complete = (query.found # {})
  BY DEF Bundle
<1> DEFINE nodes == UNION {Bundle.entities[t] : t \in DOMAIN Bundle.entities}
\* Grouping loses no node and makes none up.
<1>2. nodes = query.found
  <2>1. DOMAIN GroupByType(query.found) = {KnowledgeOf[n].type : n \in query.found}
    BY DEF GroupByType
  <2>2. \A t \in {KnowledgeOf[n].type : n \in query.found} :
           GroupByType(query.found)[t] = {n \in query.found : KnowledgeOf[n].type = t}
    BY DEF GroupByType
  <2>3. nodes = UNION {GroupByType(query.found)[t] : t \in {KnowledgeOf[n].type : n \in query.found}}
    BY <1>1, <2>1
  <2> HIDE DEF nodes
  <2>4. ASSUME NEW n PROVE n \in nodes <=> n \in query.found
    <3>1. n \in nodes <=> \E t \in {KnowledgeOf[m].type : m \in query.found} :
                              n \in GroupByType(query.found)[t]
      BY <2>3
    <3> QED BY <2>2, <3>1
  <2> QED BY <2>4
<1> HIDE DEF nodes
<1>3. Read(query) = query.found \ query.failed
  BY <1>0 DEF Read
<1>4. /\ Cardinality(query.found) \in Nat /\ Cardinality(query.failed) \in Nat
      /\ Cardinality(Read(query)) = Cardinality(query.found) - Cardinality(query.failed)
  <2>1. query.failed \intersect Read(query) = {} /\ query.found = Read(query) \union query.failed
    BY <1>0, <1>3 DEF ReadOk
  <2>2. /\ IsFiniteSet(Read(query)) /\ Cardinality(Read(query)) \in Nat
        /\ IsFiniteSet(query.failed) /\ Cardinality(query.failed) \in Nat
    <3>1. Read(query) \in SUBSET Knowledge
      BY <1>0, <1>3
    <3> QED BY <1>0, <3>1, FiniteNodes
  <2>3. Read(query) \intersect query.failed = {}
    BY <2>1
  <2>4. Cardinality(query.found) = Cardinality(Read(query)) + Cardinality(query.failed) - 0
    <3>1. Cardinality(Read(query) \union query.failed) =
             Cardinality(Read(query)) + Cardinality(query.failed)
               - Cardinality(Read(query) \intersect query.failed)
      BY <2>2, FS_Union
    <3>2. Cardinality(Read(query) \intersect query.failed) = 0
      BY <2>3, FS_EmptySet
    <3> QED BY <2>1, <2>2, <3>1, <3>2
  <2>5. Cardinality(query.found) \in Nat
    BY <1>0, FiniteNodes
  <2> QED BY <2>2, <2>4, <2>5
<1>5. Range(query.contents) \subseteq query.found \ query.failed
  <2>1. DOMAIN query.contents = 1..Len(query.contents)
    BY <1>0
  <2> QED BY <1>0, <1>3, <2>1 DEF ReadOk, Range
<1>6. /\ \A n \in query.found :
          /\ KnowledgeOf[n].type = IF query.profile = "role_adaptation"
                                   THEN "RoleAdaptationRule" ELSE "BrandKnowledge"
          /\ KnowledgeOf[n].org \notin query.chain =>
               KnowledgeOf[n].visibility \in {"global", "brand"}
      /\ Cardinality(query.found) <= ResolveLimit
      /\ query.profile = "role_adaptation" => query.contents = <<>>
  BY <1>0 DEF FoundOk, LabelOf
<1>7. Len(query.contents) <= PointLimit * (Cardinality(query.found) - Cardinality(query.failed))
  BY <1>0, <1>4 DEF ReadOk
<1>8. query.failed \subseteq query.found
  BY <1>0 DEF ReadOk
<1> QED BY <1>1, <1>2, <1>5, <1>6, <1>7, <1>8 DEF BundleScoped, nodes

-----------------------------------------------------------------------------
(* The cache                                                               *)

CacheValues == {Absent, "text", "list", "tuple"}
Lifetimes == {Forever, 1, 2}
CacheRedis == [CacheKeys -> [value : CacheValues, until : Int]]
CacheLast == [CacheKeys -> [value : CacheValues, at : Nat, ttl : Lifetimes]]

\* What Redis has for a key is what its last call left there.
KeyTrue(entry, put) ==
    /\ entry.value = Encoded(put.value)
    /\ entry.until = IF put.ttl = Forever THEN Forever ELSE put.at + put.ttl
CacheInv ==
    /\ cache \in [now : Nat, steps : Nat, redis : CacheRedis, last : CacheLast]
    /\ \A k \in CacheKeys : KeyTrue(cache.redis[k], cache.last[k])

LEMMA CacheStart == CacheInit => CacheInv
<1> SUFFICES ASSUME CacheInit PROVE CacheInv
  OBVIOUS
<1>1. PICK redis : redis = [k \in CacheKeys |-> [value |-> Absent, until |-> Forever]]
  OBVIOUS
<1>2. PICK last : last = [k \in CacheKeys |-> [value |-> Absent, at |-> 0, ttl |-> Forever]]
  OBVIOUS
<1>3. redis \in CacheRedis /\ last \in CacheLast
  BY <1>1, <1>2 DEF CacheRedis, CacheLast, CacheValues, Lifetimes, Forever
<1>4. \A k \in CacheKeys : KeyTrue(redis[k], last[k])
  BY <1>1, <1>2 DEF KeyTrue, Encoded, Absent
<1>5. cache = [now |-> 0, steps |-> 0, redis |-> redis, last |-> last]
  BY <1>1, <1>2 DEF CacheInit
<1> QED BY <1>3, <1>4, <1>5 DEF CacheInv

\* One call changes what is said of one key.
LEMMA KeySet ==
    ASSUME CacheInv, NEW k \in CacheKeys,
           NEW entry \in [value : CacheValues, until : Int],
           NEW put \in [value : CacheValues, at : Nat, ttl : Lifetimes], KeyTrue(entry, put),
           CacheStep([cache EXCEPT !.redis[k] = entry, !.last[k] = put])
    PROVE  CacheInv'
<1>1. PICK old \in [now : Nat, steps : Nat, redis : CacheRedis, last : CacheLast] : old = cache
  BY DEF CacheInv
<1>2. PICK redis : redis = [old.redis EXCEPT ![k] = entry]
  OBVIOUS
<1>3. PICK last : last = [old.last EXCEPT ![k] = put]
  OBVIOUS
<1>4. redis \in CacheRedis /\ last \in CacheLast
  BY <1>2, <1>3 DEF CacheRedis, CacheLast
<1>5. PICK c : c = [old EXCEPT !.redis = redis, !.last = last]
  OBVIOUS
<1>6. c = [cache EXCEPT !.redis[k] = entry, !.last[k] = put]
  BY <1>1, <1>2, <1>3, <1>5
<1>7. /\ c \in [now : Nat, steps : Nat, redis : CacheRedis, last : CacheLast]
      /\ c.redis = redis /\ c.last = last
  BY <1>4, <1>5
<1>8. cache' = [c EXCEPT !.steps = @ + 1]
  BY <1>6 DEF CacheStep
<1>9. /\ cache' \in [now : Nat, steps : Nat, redis : CacheRedis, last : CacheLast]
      /\ cache'.redis = redis /\ cache'.last = last
  BY <1>7, <1>8
<1>10. \A j \in CacheKeys : KeyTrue(redis[j], last[j])
  <2>1. ASSUME NEW j \in CacheKeys PROVE KeyTrue(redis[j], last[j])
    <3>1. CASE j = k
      <4>1. redis[j] = entry /\ last[j] = put
        BY <1>2, <1>3, <3>1 DEF CacheRedis, CacheLast
      <4> QED BY <4>1
    <3>2. CASE j # k
      <4>1. redis[j] = old.redis[j] /\ last[j] = old.last[j]
        BY <1>2, <1>3, <3>2 DEF CacheRedis, CacheLast
      <4> QED BY <1>1, <4>1 DEF CacheInv
    <3> QED BY <3>1, <3>2
  <2> QED BY <2>1
<1> QED BY <1>9, <1>10 DEF CacheInv

LEMMA CacheStepKeeps == CacheInv /\ [CacheNext]_operationVars => CacheInv'
<1> SUFFICES ASSUME CacheInv, [CacheNext]_operationVars PROVE CacheInv'
  OBVIOUS
<1>0. cache \in [now : Nat, steps : Nat, redis : CacheRedis, last : CacheLast]
  BY DEF CacheInv
<1>1. ASSUME NEW k \in CacheKeys, NEW v \in {"text", "tuple", "object"},
             NEW ttl \in {Forever, 0, 1, 2}, CachePut(k, v, ttl)
      PROVE  CacheInv'
  <2>1. v \in {"text", "tuple"} /\ ttl \in Lifetimes
    BY <1>1 DEF CachePut, Lifetimes
  <2>2. PICK put : put = [value |-> v, at |-> cache.now, ttl |-> ttl]
    OBVIOUS
  <2>3. PICK entry : entry = [value |-> Encoded(v),
                              until |-> IF ttl = Forever THEN Forever ELSE cache.now + ttl]
    OBVIOUS
  <2>4. put \in [value : CacheValues, at : Nat, ttl : Lifetimes]
    BY <1>0, <2>1, <2>2 DEF CacheValues
  <2>5. Encoded(v) \in CacheValues
    BY <2>1 DEF CacheValues, Encoded
  <2>6. (IF ttl = Forever THEN Forever ELSE cache.now + ttl) \in Int
    BY <1>0, <2>1 DEF Lifetimes, Forever
  <2>7. entry \in [value : CacheValues, until : Int] /\ KeyTrue(entry, put)
    BY <2>2, <2>3, <2>5, <2>6 DEF KeyTrue
  <2>8. CacheStep([cache EXCEPT !.redis[k] = entry, !.last[k] = put])
    BY <1>1, <2>2, <2>3 DEF CachePut
  <2> QED BY <2>4, <2>7, <2>8, KeySet
<1>2. ASSUME NEW k \in CacheKeys, CacheDelete(k) PROVE CacheInv'
  <2>1. PICK put : put = [value |-> Absent, at |-> cache.now, ttl |-> Forever]
    OBVIOUS
  <2>2. PICK entry : entry = [value |-> Absent, until |-> Forever]
    OBVIOUS
  <2>3. /\ put \in [value : CacheValues, at : Nat, ttl : Lifetimes]
        /\ entry \in [value : CacheValues, until : Int] /\ KeyTrue(entry, put)
    BY <1>0, <2>1, <2>2 DEF CacheValues, Lifetimes, KeyTrue, Forever, Encoded, Absent
  <2>4. CacheStep([cache EXCEPT !.redis[k] = entry, !.last[k] = put])
    BY <1>2, <2>1, <2>2 DEF CacheDelete
  <2> QED BY <2>3, <2>4, KeySet
<1>3. ASSUME NEW c, CacheStep(c), c = cache \/ c = [cache EXCEPT !.now = @ + 1]
      PROVE  CacheInv'
  <2>1. /\ c \in [now : Nat, steps : Nat, redis : CacheRedis, last : CacheLast]
        /\ c.redis = cache.redis /\ c.last = cache.last
    BY <1>0, <1>3
  <2>2. cache' = [c EXCEPT !.steps = @ + 1]
    BY <1>3 DEF CacheStep
  <2>3. /\ cache' \in [now : Nat, steps : Nat, redis : CacheRedis, last : CacheLast]
        /\ cache'.redis = cache.redis /\ cache'.last = cache.last
    BY <2>1, <2>2
  <2> QED BY <2>3 DEF CacheInv
<1>4. CASE UNCHANGED operationVars
  BY <1>4 DEF operationVars, CacheInv
<1>5. ASSUME NEW v, NEW ttl, CacheRefuses(v, ttl) PROVE CacheInv'
  BY <1>3, <1>5 DEF CacheRefuses
<1>6. CASE CacheTick
  BY <1>3, <1>6 DEF CacheTick
<1> QED BY <1>1, <1>2, <1>4, <1>5, <1>6 DEF CacheNext

LEMMA CacheMeaning == CacheInv => CacheTruthful
<1> SUFFICES ASSUME CacheInv, NEW k \in CacheKeys
             PROVE  LET put == cache.last[k]
                        due == IF put.ttl # Forever /\ cache.now >= put.at + put.ttl THEN Absent
                               ELSE IF put.value = "tuple" THEN "list" ELSE put.value
                    IN CacheGet(k) = due /\ (k \in ListKeys <=> due # Absent)
  BY DEF CacheTruthful
<1>1. /\ cache.now \in Nat
      /\ cache.redis[k] \in [value : CacheValues, until : Int]
      /\ cache.last[k] \in [value : CacheValues, at : Nat, ttl : Lifetimes]
      /\ KeyTrue(cache.redis[k], cache.last[k])
  BY DEF CacheInv, CacheRedis, CacheLast
<1>2. PICK put \in [value : CacheValues, at : Nat, ttl : Lifetimes] : put = cache.last[k]
  BY <1>1
<1>3. PICK entry \in [value : CacheValues, until : Int] : entry = cache.redis[k]
  BY <1>1
<1>4. Unexpired(entry) <=> put.value # Absent /\ ~(put.ttl # Forever /\ cache.now >= put.at + put.ttl)
  <2>1. entry.value = Absent <=> put.value = Absent
    BY <1>1, <1>2, <1>3 DEF KeyTrue, Encoded, Absent
  <2>2. CASE put.ttl = Forever
    BY <1>1, <1>2, <1>3, <2>1, <2>2 DEF KeyTrue, Unexpired
  <2>3. CASE put.ttl # Forever
    <3>1. put.ttl \in {1, 2} /\ put.at \in Nat /\ entry.until = put.at + put.ttl
      BY <1>1, <1>2, <1>3, <2>3 DEF KeyTrue, Lifetimes
    <3>2. entry.until # Forever
      BY <3>1 DEF Forever
    <3> QED BY <1>1, <2>1, <2>3, <3>1, <3>2 DEF Unexpired
  <2> QED BY <2>2, <2>3
<1>5. entry.value = IF put.value = "tuple" THEN "list" ELSE put.value
  BY <1>1, <1>2, <1>3 DEF KeyTrue, Encoded
<1>6. entry.value # Absent <=> put.value # Absent
  BY <1>5 DEF Absent
<1> QED BY <1>2, <1>3, <1>4, <1>5, <1>6 DEF CacheGet, ListKeys

-----------------------------------------------------------------------------
(* The events of a store and of its double                                 *)

EventSet == [id : Nat, session : Threads, seq : Nat]
Indexes == [Threads -> Seq(Nat)]
Counters == [Threads -> Nat]

\* The events of the table are those of the double, and those the index of the
\* double names: its i-th name of a session is that session's event number i.
Named(index) ==
    {e \in EventSet : e.seq \in 1..Len(index[e.session]) /\ e.id = index[e.session][e.seq]}
OnePlace(index) ==
    \A s, t \in Threads : \A i \in 1..Len(index[s]), j \in 1..Len(index[t]) :
        index[s][i] = index[t][j] => s = t /\ i = j
EventsOk(events, index, counter, stored, n) ==
    /\ index \in Indexes /\ counter \in Counters /\ n \in Nat
    /\ \A s \in Threads : counter[s] = Len(index[s])
    /\ \A s \in Threads : \A i \in 1..Len(index[s]) : index[s][i] < n
    /\ OnePlace(index)
    /\ stored = Named(index) /\ events = stored

LEMMA IndexParts ==
    ASSUME NEW index \in Indexes, NEW s \in Threads
    PROVE  /\ index[s] \in Seq(Nat) /\ Len(index[s]) \in Nat
           /\ DOMAIN index[s] = 1..Len(index[s])
           /\ \A i \in 1..Len(index[s]) : index[s][i] \in Nat
BY LenProperties DEF Indexes

LEMMA EventsLater ==
    ASSUME NEW events, NEW index, NEW counter, NEW stored, NEW n,
           EventsOk(events, index, counter, stored, n)
    PROVE  EventsOk(events, index, counter, stored, n + 1)
<1>1. \A s \in Threads : \A i \in 1..Len(index[s]) : index[s][i] < n + 1
  BY IndexParts DEF EventsOk
<1> QED BY <1>1 DEF EventsOk

LEMMA NumberTaken ==
    ASSUME NEW index \in Indexes, NEW s \in Threads, NEW i \in 1..Len(index[s])
    PROVE  \E e \in Named(index) : e.session = s /\ e.seq = i
<1>1. PICK e : e = [id |-> index[s][i], session |-> s, seq |-> i]
  OBVIOUS
<1>2. e \in EventSet /\ e.id = index[s][i] /\ e.session = s /\ e.seq = i
  BY <1>1, IndexParts DEF EventSet
<1> QED BY <1>2 DEF Named

\* A session has as many events as names, and the i-th of them is numbered i.
LEMMA SessionCounted ==
    ASSUME NEW index \in Indexes, NEW s \in Threads, NEW mine,
           mine = {e \in Named(index) : e.session = s}
    PROVE  /\ IsFiniteSet(mine) /\ Cardinality(mine) = Len(index[s])
           /\ \A i \in 1..Len(index[s]) : Cardinality({e \in mine : e.seq < i}) = i - 1
           /\ \A e \in mine : e.seq \in 1..Len(index[s])
           /\ \A e, f \in mine : e.seq = f.seq => e = f
<1> DEFINE event(i) == [id |-> index[s][i], session |-> s, seq |-> i]
<1>1. /\ Len(index[s]) \in Nat
      /\ \A i \in 1..Len(index[s]) : index[s][i] \in Nat
  BY IndexParts
<1>2. \A i \in 1..Len(index[s]) : event(i) \in mine /\ event(i).seq = i
  <2>1. ASSUME NEW i \in 1..Len(index[s]) PROVE event(i) \in mine /\ event(i).seq = i
    <3>1. event(i) \in EventSet
      BY <1>1 DEF EventSet
    <3> QED BY <3>1 DEF Named
  <2> QED BY <2>1
<1>3. \A e \in mine : e.seq \in 1..Len(index[s]) /\ e = event(e.seq)
  <2>1. ASSUME NEW e \in mine PROVE e.seq \in 1..Len(index[s]) /\ e = event(e.seq)
    <3>1. e \in EventSet /\ e.session = s /\ e.seq \in 1..Len(index[s]) /\ e.id = index[s][e.seq]
      BY DEF Named
    <3>2. e = [id |-> e.id, session |-> e.session, seq |-> e.seq]
      BY <3>1 DEF EventSet
    <3> QED BY <3>1, <3>2
  <2> QED BY <2>1
<1> HIDE DEF event
<1>4. ASSUME NEW i \in 0..Len(index[s])
      PROVE  LET below == {e \in mine : e.seq \in 1..i} IN
             IsFiniteSet(below) /\ Cardinality(below) = i
  <2> DEFINE below == {e \in mine : e.seq \in 1..i}
             f == [k \in 1..i |-> event(k)]
  <2>1. \A k \in 1..i : k \in 1..Len(index[s])
    BY <1>1
  <2>2. f \in [1..i -> below] /\ \A e \in below : \E k \in 1..i : f[k] = e
    BY <1>2, <1>3, <2>1
  <2>3. \A k, l \in 1..i : f[k] = f[l] => k = l
    BY <1>2, <2>1
  <2>4. f \in Bijection(1..i, below)
    BY <2>2, <2>3 DEF Bijection, Injection, Surjection, IsInjective
  <2>5. ExistsBijection(1..i, below)
    BY <2>4 DEF ExistsBijection
  <2>6. IsFiniteSet(1..i) /\ Cardinality(1..i) = i
    BY <1>1, FS_Interval
  <2> QED BY <2>5, <2>6, FS_Bijection
<1>5. mine = {e \in mine : e.seq \in 1..Len(index[s])}
  BY <1>3
<1>6. IsFiniteSet(mine) /\ Cardinality(mine) = Len(index[s])
  <2>1. Len(index[s]) \in 0..Len(index[s])
    BY <1>1
  <2>2. LET below == {e \in mine : e.seq \in 1..Len(index[s])} IN
        IsFiniteSet(below) /\ Cardinality(below) = Len(index[s])
    BY <1>4, <2>1
  <2> QED BY <1>5, <2>2
<1>7. ASSUME NEW i \in 1..Len(index[s])
      PROVE  Cardinality({e \in mine : e.seq < i}) = i - 1
  <2>1. i - 1 \in 0..Len(index[s])
    BY <1>1
  <2>2. {e \in mine : e.seq < i} = {e \in mine : e.seq \in 1..(i - 1)}
    BY <1>1, <1>3
  <2> QED BY <1>4, <2>1, <2>2
<1> QED BY <1>2, <1>3, <1>6, <1>7

LEMMA EventsCounted ==
    ASSUME NEW events, NEW index, NEW counter, NEW stored, NEW n,
           EventsOk(events, index, counter, stored, n), NEW s \in Threads,
           NEW mine, mine = {e \in stored : e.session = s}
    PROVE  Cardinality(mine) = counter[s]
BY SessionCounted DEF EventsOk

\* One more event of a session gets the next number in both stores.
NextEvent(index, counter, n, s, seq, added, names, new, count) ==
    /\ seq = counter[s] + 1 /\ added = [id |-> n, session |-> s, seq |-> seq]
    /\ names = Append(index[s], n) /\ new = [index EXCEPT ![s] = names]
    /\ count = [counter EXCEPT ![s] = seq]

LEMMA EventAppended ==
    ASSUME NEW events, NEW index, NEW counter, NEW stored, NEW n,
           EventsOk(events, index, counter, stored, n), NEW s \in Threads,
           NEW seq, NEW added, NEW names, NEW new, NEW count,
           NextEvent(index, counter, n, s, seq, added, names, new, count)
    PROVE  EventsOk(events \union {added}, new, count, stored \union {added}, n + 1)
<1>0. /\ seq = counter[s] + 1 /\ added = [id |-> n, session |-> s, seq |-> seq]
      /\ names = Append(index[s], n) /\ new = [index EXCEPT ![s] = names]
      /\ count = [counter EXCEPT ![s] = seq]
  BY DEF NextEvent
<1>1. /\ index \in Indexes /\ counter \in Counters /\ n \in Nat
      /\ \A t \in Threads : counter[t] = Len(index[t])
      /\ \A t \in Threads : \A i \in 1..Len(index[t]) : index[t][i] < n /\ index[t][i] \in Nat
      /\ \A t \in Threads : Len(index[t]) \in Nat
      /\ OnePlace(index) /\ stored = Named(index) /\ events = stored
  BY IndexParts DEF EventsOk
<1>5. /\ names \in Seq(Nat) /\ Len(names) = Len(index[s]) + 1
      /\ \A i \in 1..Len(index[s]) : names[i] = index[s][i]
      /\ names[Len(index[s]) + 1] = n
  BY <1>0, <1>1, IndexParts, AppendProperties
<1>6. /\ new \in Indexes
      /\ \A t \in Threads : new[t] = IF t = s THEN names ELSE index[t]
  BY <1>0, <1>1, <1>5 DEF Indexes
<1>8. count \in Counters /\ \A t \in Threads : count[t] = Len(new[t])
  <2>1. count \in Counters /\ \A t \in Threads : count[t] = IF t = s THEN counter[s] + 1 ELSE counter[t]
    BY <1>0, <1>1 DEF Counters
  <2>2. ASSUME NEW t \in Threads PROVE count[t] = Len(new[t])
    BY <1>1, <1>5, <1>6, <2>1
  <2> QED BY <2>1, <2>2
<1>9. \A t \in Threads : \A i \in 1..Len(new[t]) :
        \/ i \in 1..Len(index[t]) /\ new[t][i] = index[t][i]
        \/ t = s /\ i = seq /\ new[t][i] = n
  <2>1. ASSUME NEW t \in Threads, NEW i \in 1..Len(new[t])
        PROVE  \/ i \in 1..Len(index[t]) /\ new[t][i] = index[t][i]
               \/ t = s /\ i = seq /\ new[t][i] = n
    <3>1. CASE t = s
      <4>1. new[t] = names /\ i \in 1..(Len(index[s]) + 1) /\ seq = Len(index[s]) + 1
        BY <1>0, <1>1, <1>5, <1>6, <3>1
      <4>2. i \in 1..Len(index[s]) \/ i = seq
        BY <1>1, <4>1
      <4> QED BY <1>5, <3>1, <4>1, <4>2
    <3>2. CASE t # s
      BY <1>6, <3>2
    <3> QED BY <3>1, <3>2
  <2> QED BY <2>1
<1>10. \A t \in Threads : \A i \in 1..Len(index[t]) : i \in 1..Len(new[t]) /\ new[t][i] = index[t][i]
  <2>1. ASSUME NEW t \in Threads, NEW i \in 1..Len(index[t])
        PROVE  i \in 1..Len(new[t]) /\ new[t][i] = index[t][i]
    <3>1. CASE t = s
      <4>1. new[t] = names /\ Len(names) = Len(index[s]) + 1
        BY <1>5, <1>6, <3>1
      <4>2. i \in 1..Len(names)
        BY <1>1, <3>1, <4>1
      <4> QED BY <1>5, <3>1, <4>1, <4>2
    <3>2. CASE t # s
      BY <1>6, <3>2
    <3> QED BY <3>1, <3>2
  <2> QED BY <2>1
<1>11. seq \in 1..Len(new[s]) /\ new[s][seq] = n /\ seq \in Nat
  <2>1. seq = Len(index[s]) + 1 /\ Len(index[s]) \in Nat
    BY <1>0, <1>1
  <2>2. new[s] = names /\ seq \in 1..Len(names)
    BY <1>5, <1>6, <2>1
  <2> QED BY <1>5, <2>1, <2>2
<1>12. \A t \in Threads : \A i \in 1..Len(new[t]) : new[t][i] < n + 1
  BY <1>1, <1>9
<1>13. OnePlace(new)
  <2> SUFFICES ASSUME NEW t \in Threads, NEW u \in Threads, NEW i \in 1..Len(new[t]),
                      NEW j \in 1..Len(new[u]), new[t][i] = new[u][j]
               PROVE  t = u /\ i = j
    BY DEF OnePlace
  <2>0. ASSUME NEW v \in Threads, NEW k \in 1..Len(index[v]) PROVE index[v][k] # n
    <3>1. index[v][k] < n /\ index[v][k] \in Nat /\ n \in Nat
      BY <1>1
    <3> QED BY <3>1
  <2>1. CASE new[t][i] = n
    <3>1. t = s /\ i = seq
      BY <1>9, <2>0, <2>1
    <3>2. u = s /\ j = seq
      BY <1>9, <2>0, <2>1
    <3> QED BY <3>1, <3>2
  <2>2. CASE new[t][i] # n
    <3>1. /\ i \in 1..Len(index[t]) /\ new[t][i] = index[t][i]
          /\ j \in 1..Len(index[u]) /\ new[u][j] = index[u][j]
      BY <1>9, <2>2
    <3>2. index[t][i] = index[u][j]
      BY <3>1
    <3> QED BY <1>1, <3>1, <3>2 DEF OnePlace
  <2> QED BY <2>1, <2>2
<1>14. Named(new) = Named(index) \union {added}
  <2>1. ASSUME NEW e \in EventSet
        PROVE  e \in Named(new) <=> e \in Named(index) \/ e = added
    <3>1. e.session \in Threads /\ e.seq \in Nat
          /\ e = [id |-> e.id, session |-> e.session, seq |-> e.seq]
      BY DEF EventSet
    <3>2. e = added <=> e.id = n /\ e.session = s /\ e.seq = seq
      BY <1>0, <3>1
    <3>3. e \in Named(new) => e \in Named(index) \/ e = added
      BY <1>9, <3>1, <3>2 DEF Named
    <3>4. e \in Named(index) => e \in Named(new)
      BY <1>10, <3>1 DEF Named
    <3>5. e = added => e \in Named(new)
      BY <1>11, <3>2 DEF Named
    <3> QED BY <3>3, <3>4, <3>5
  <2>2. added \in EventSet
    BY <1>0, <1>1, <1>11 DEF EventSet
  <2> QED BY <2>1, <2>2 DEF Named
<1>15. EventsOk(events \union {added}, new, count, stored \union {added}, n + 1)
  <2>1. stored = Named(index) /\ events = stored /\ n \in Nat
    BY DEF EventsOk
  <2>2. stored \union {added} = Named(new) /\ events \union {added} = stored \union {added}
    BY <1>14, <2>1
  <2>3. n + 1 \in Nat
    BY <2>1
  <2> QED BY <2>2, <2>3, <1>6, <1>8, <1>12, <1>13 DEF EventsOk
<1> QED BY <1>15

\* The names in the index of a session are those of its own events.
LEMMA OwnNames ==
    ASSUME NEW index \in Indexes, OnePlace(index), NEW s \in Threads, NEW e \in Named(index)
    PROVE  e.id \in Range(index[s]) <=> e.session = s
<1>1. e.session \in Threads /\ e.seq \in 1..Len(index[e.session]) /\ e.id = index[e.session][e.seq]
  BY DEF Named, EventSet
<1>2. DOMAIN index[s] = 1..Len(index[s])
  BY IndexParts
<1> QED BY <1>1, <1>2 DEF OnePlace, Range

\* A session that is forgotten takes its own events with it.
LEMMA SessionForgotten ==
    ASSUME NEW events, NEW index, NEW counter, NEW stored, NEW n,
           EventsOk(events, index, counter, stored, n), NEW s \in Threads,
           NEW others, others = {e \in events : e.id \notin Range(index[s])},
           NEW left, left = stored \ {e \in stored : e.session = s},
           NEW new, new = [index EXCEPT ![s] = << >>],
           NEW count, count = [counter EXCEPT ![s] = 0]
    PROVE  EventsOk(others, new, count, left, n)
<1>1. /\ index \in Indexes /\ counter \in Counters /\ n \in Nat
      /\ OnePlace(index) /\ stored = Named(index) /\ events = stored
  BY DEF EventsOk
<1>3. new \in Indexes /\ \A t \in Threads : new[t] = IF t = s THEN << >> ELSE index[t]
  BY <1>1 DEF Indexes
<1>5. count \in Counters /\ \A t \in Threads : count[t] = Len(new[t])
  <2>1. count \in Counters /\ \A t \in Threads : count[t] = IF t = s THEN 0 ELSE counter[t]
    BY <1>1 DEF Counters
  <2>2. \A t \in Threads : counter[t] = Len(index[t])
    BY DEF EventsOk
  <2> QED BY <1>3, <2>1, <2>2
<1>6. \A t \in Threads : \A i \in 1..Len(new[t]) :
        t # s /\ i \in 1..Len(index[t]) /\ new[t][i] = index[t][i]
  BY <1>3
<1>7. OnePlace(new) /\ \A t \in Threads : \A i \in 1..Len(new[t]) : new[t][i] < n
  BY <1>6 DEF EventsOk, OnePlace
<1>8. Named(new) = left
  <2>1. ASSUME NEW e \in EventSet
        PROVE  e \in Named(new) <=> e \in Named(index) /\ e.session # s
    <3>1. e.session \in Threads
      BY DEF EventSet
    <3>2. e.session # s => new[e.session] = index[e.session]
      BY <1>3, <3>1
    <3>3. e.session = s => e \notin Named(new)
      BY <1>6, <3>1 DEF Named
    <3> QED BY <3>2, <3>3 DEF Named
  <2> QED BY <1>1, <2>1 DEF Named
<1>9. others = left
  BY <1>1, OwnNames
<1> QED BY <1>1, <1>3, <1>5, <1>7, <1>8, <1>9 DEF EventsOk

-----------------------------------------------------------------------------
(* The receipts of a store and of its double                               *)

ReceiptTypes == {"injection", "retrieval"}
ReceiptSet == [id : Nat, item : Subjects, type : ReceiptTypes, at : Nat]
Logs == [Subjects -> Seq(ReceiptSet)]

\* The receipts of item m, in the order they were written by clock and by call.
LogOk(log, m, n, time) ==
    /\ log \in Seq(ReceiptSet)
    /\ \A i \in 1..Len(log) : log[i].item = m /\ log[i].id < n /\ log[i].at <= time
    /\ \A i, j \in 1..Len(log) : i < j => log[i].id < log[j].id /\ log[i].at <= log[j].at

LEMMA LogParts ==
    ASSUME NEW log \in Seq(ReceiptSet)
    PROVE  /\ Len(log) \in Nat /\ DOMAIN log = 1..Len(log)
           /\ \A i \in 1..Len(log) : /\ log[i] \in ReceiptSet /\ log[i].id \in Nat
                                     /\ log[i].at \in Nat
<1>1. Len(log) \in Nat /\ DOMAIN log = 1..Len(log) /\ \A i \in 1..Len(log) : log[i] \in ReceiptSet
  BY LenProperties
<1> QED BY <1>1 DEF ReceiptSet

LEMMA LogLater ==
    ASSUME NEW log, NEW m, NEW n \in Nat, NEW time \in Nat, LogOk(log, m, n, time),
           NEW n2 \in Nat, NEW time2 \in Nat, n <= n2, time <= time2
    PROVE  LogOk(log, m, n2, time2)
<1>1. log \in Seq(ReceiptSet)
  BY DEF LogOk
<1>2. ASSUME NEW i \in 1..Len(log)
      PROVE  log[i].item = m /\ log[i].id < n2 /\ log[i].at <= time2
  BY <1>1, LogParts DEF LogOk
<1> QED BY <1>1, <1>2 DEF LogOk

LEMMA LogAppended ==
    ASSUME NEW log, NEW m \in Subjects, NEW n \in Nat, NEW time \in Nat, LogOk(log, m, n, time),
           NEW type \in ReceiptTypes, NEW time2 \in Nat, time <= time2,
           NEW receipt, receipt = [id |-> n, item |-> m, type |-> type, at |-> time]
    PROVE  /\ receipt \in ReceiptSet
           /\ LogOk(Append(log, receipt), m, n + 1, time2)
           /\ Range(Append(log, receipt)) = Range(log) \union {receipt}
<1>1. receipt \in ReceiptSet /\ receipt.id = n /\ receipt.item = m /\ receipt.at = time
  BY DEF ReceiptSet
<1>2. PICK new : new = Append(log, receipt)
  OBVIOUS
<1>3. /\ log \in Seq(ReceiptSet) /\ Len(log) \in Nat /\ DOMAIN log = 1..Len(log)
      /\ \A i \in 1..Len(log) : log[i].id \in Nat /\ log[i].at \in Nat
  BY LogParts DEF LogOk
<1>4. /\ new \in Seq(ReceiptSet) /\ Len(new) = Len(log) + 1
      /\ \A i \in 1..Len(log) : new[i] = log[i]
      /\ new[Len(log) + 1] = receipt
  BY <1>1, <1>2, <1>3, AppendProperties
<1>5. ASSUME NEW i \in 1..Len(new) PROVE i \in 1..Len(log) \/ i = Len(log) + 1
  BY <1>3, <1>4
<1>6. ASSUME NEW i \in 1..Len(new)
      PROVE  new[i].item = m /\ new[i].id < n + 1 /\ new[i].at <= time2
  <2>1. CASE i \in 1..Len(log)
    BY <1>3, <1>4, <2>1 DEF LogOk
  <2>2. CASE i = Len(log) + 1
    BY <1>1, <1>4, <2>2
  <2> QED BY <1>5, <2>1, <2>2
<1>7. ASSUME NEW i \in 1..Len(new), NEW j \in 1..Len(new), i < j
      PROVE  new[i].id < new[j].id /\ new[i].at <= new[j].at
  <2>1. i \in 1..Len(log)
    BY <1>3, <1>4, <1>5, <1>7
  <2>2. CASE j \in 1..Len(log)
    BY <1>4, <1>7, <2>1, <2>2 DEF LogOk
  <2>3. CASE j = Len(log) + 1
    <3>1. new[i] = log[i] /\ new[j] = receipt
      BY <1>4, <2>1, <2>3
    <3> QED BY <1>1, <2>1, <3>1 DEF LogOk
  <2> QED BY <1>5, <2>2, <2>3
<1>8. Range(new) = Range(log) \union {receipt}
  <2>1. DOMAIN new = 1..Len(new) /\ Len(log) + 1 \in 1..Len(new)
        /\ \A i \in 1..Len(log) : i \in 1..Len(new)
    BY <1>3, <1>4, LenProperties
  <2>2. ASSUME NEW x PROVE x \in Range(new) <=> x \in Range(log) \union {receipt}
    <3>1. x \in Range(new) <=> \E i \in 1..Len(new) : new[i] = x
      BY <2>1 DEF Range
    <3>2. x \in Range(log) <=> \E i \in 1..Len(log) : log[i] = x
      BY <1>3 DEF Range
    <3>3. x \in Range(new) => x \in Range(log) \/ x = receipt
      BY <1>4, <1>5, <3>1, <3>2
    <3>4. x \in Range(log) \/ x = receipt => x \in Range(new)
      BY <1>4, <2>1, <3>1, <3>2
    <3> QED BY <3>3, <3>4
  <2> QED BY <2>2
<1> QED BY <1>1, <1>2, <1>4, <1>6, <1>7, <1>8 DEF LogOk

-----------------------------------------------------------------------------
(* Both stores and both doubles                                            *)

EventSets == SUBSET EventSet
ReceiptSets == SUBSET ReceiptSet
Calls == Nat
Doubles == [events : EventSets, index : Indexes, counter : Counters, receipts : Logs]
Tables == [events : EventSets, receipts : ReceiptSets]

Kept(m) == m \notin gone /\ Owner \notin gone
TwinsInv ==
    /\ double \in Doubles /\ table \in Tables
    /\ calls \in Calls /\ instant \in Calls /\ gone \subseteq Subjects \union {Owner}
    /\ Owner \notin gone =>
         EventsOk(double.events, double.index, double.counter, table.events, calls)
    /\ Owner \in gone => table.events = {}
    /\ \A m \in Subjects : LogOk(double.receipts[m], m, calls, instant)
    /\ \A m \in Subjects : ReceiptsOf(m) = IF Kept(m) THEN Range(double.receipts[m]) ELSE {}

LEMMA TwinsStart == TwinsInit => TwinsInv
<1> SUFFICES ASSUME TwinsInit PROVE TwinsInv
  OBVIOUS
<1>1. PICK index : index = [s \in Threads |-> << >>]
  OBVIOUS
<1>2. PICK counter : counter = [s \in Threads |-> 0]
  OBVIOUS
<1>3. PICK logs : logs = [m \in Subjects |-> << >>]
  OBVIOUS
<1>4. index \in Indexes /\ counter \in Counters /\ logs \in Logs
  BY <1>1, <1>2, <1>3 DEF Indexes, Counters, Logs
<1>5. {} \in EventSets /\ {} \in ReceiptSets
  BY DEF EventSets, ReceiptSets
<1>6. /\ double = [events |-> {}, index |-> index, counter |-> counter, receipts |-> logs]
      /\ table = [events |-> {}, receipts |-> {}] /\ gone = {} /\ instant = 1 /\ calls = 0
  BY <1>1, <1>2, <1>3 DEF TwinsInit
<1>7. /\ double \in Doubles /\ double.events = {} /\ double.index = index
      /\ double.counter = counter /\ double.receipts = logs
      /\ table \in Tables /\ table.events = {} /\ table.receipts = {}
  BY <1>4, <1>5, <1>6 DEF Doubles, Tables
<1>8. \A s \in Threads : index[s] = << >> /\ counter[s] = 0 /\ Len(index[s]) = 0
  BY <1>1, <1>2
<1>9. EventsOk({}, index, counter, {}, 0)
  <2>1. Named(index) = {}
    BY <1>8 DEF Named, EventSet
  <2> QED BY <1>4, <1>8, <2>1 DEF EventsOk, OnePlace
<1>10. ASSUME NEW m \in Subjects
       PROVE  LogOk(logs[m], m, 0, 1) /\ Range(logs[m]) = {}
  <2>1. logs[m] = << >>
    BY <1>3
  <2>2. << >> \in Seq(ReceiptSet) /\ Len(<< >>) = 0 /\ Range(<< >>) = {}
    BY DEF Range
  <2> QED BY <2>1, <2>2 DEF LogOk
<1>11. \A m \in Subjects : ReceiptsOf(m) = {}
  BY <1>7 DEF ReceiptsOf
<1> QED BY <1>6, <1>7, <1>9, <1>10, <1>11 DEF TwinsInv, Calls, Kept

\* What a call does to the events is one thing, to the receipts another.
LEMMA TwinsTogether ==
    ASSUME TwinsInv, Called,
           NEW d \in Doubles, NEW t \in Tables, double' = d, table' = t,
           instant' \in Nat, gone' \subseteq Subjects \union {Owner},
           Owner \notin gone' => EventsOk(d.events, d.index, d.counter, t.events, calls + 1),
           Owner \in gone' => t.events = {},
           \A m \in Subjects : LogOk(d.receipts[m], m, calls + 1, instant'),
           \A m \in Subjects : ReceiptsOf(m)' = IF Kept(m)' THEN Range(d.receipts[m]) ELSE {}
    PROVE  TwinsInv'
<1>1. calls' = calls + 1 /\ calls' \in Calls
  BY DEF Called, TwinsInv, Calls
<1> QED BY <1>1 DEF TwinsInv, Calls

LEMMA TwinsParts ==
    ASSUME TwinsInv
    PROVE  /\ calls \in Nat /\ instant \in Nat
           /\ \A m \in Subjects : LogOk(double.receipts[m], m, calls + 1, instant)
           /\ \A m \in Subjects : m # Owner
<1>1. calls \in Nat /\ instant \in Nat /\ calls + 1 \in Nat /\ calls <= calls + 1
  BY DEF TwinsInv, Calls
<1>2. \A m \in Subjects : LogOk(double.receipts[m], m, calls + 1, instant)
  BY <1>1, LogLater DEF TwinsInv
<1> QED BY <1>1, <1>2, TwinsAssumption

LEMMA TwinsStep == TwinsInv /\ [TwinsNext]_twinVars => TwinsInv'
<1> SUFFICES ASSUME TwinsInv, [TwinsNext]_twinVars PROVE TwinsInv'
  OBVIOUS
<1>0. PICK d \in Doubles : d = double
  BY DEF TwinsInv
<1>t. PICK t \in Tables : t = table
  BY DEF TwinsInv
<1>p. /\ calls \in Nat /\ instant \in Nat /\ gone \subseteq Subjects \union {Owner}
      /\ \A m \in Subjects : LogOk(d.receipts[m], m, calls + 1, instant)
      /\ \A m \in Subjects : m # Owner
      /\ Owner \notin gone => EventsOk(d.events, d.index, d.counter, t.events, calls)
      /\ Owner \in gone => t.events = {}
      /\ \A m \in Subjects : ReceiptsOf(m) = IF Kept(m) THEN Range(d.receipts[m]) ELSE {}
  BY <1>0, <1>t, TwinsParts DEF TwinsInv
<1>1. ASSUME NEW s \in Threads, AppendToBoth(s) PROVE TwinsInv'
  <2>1. Owner \notin gone /\ Called /\ UNCHANGED <<gone, instant>>
    BY <1>1 DEF AppendToBoth
  <2>2. PICK seq : seq = d.counter[s] + 1
    OBVIOUS
  <2>3. PICK added : added = [id |-> calls, session |-> s, seq |-> seq]
    OBVIOUS
  <2>4. PICK mine : mine = {e \in t.events : e.session = s}
    OBVIOUS
  <2>5. PICK index : index = [d.index EXCEPT ![s] = Append(@, calls)]
    OBVIOUS
  <2>6. PICK counter : counter = [d.counter EXCEPT ![s] = @ + 1]
    OBVIOUS
  <2>7. /\ Cardinality(mine) + 1 = seq
        /\ EventsOk(d.events \union {added}, index, counter, t.events \union {added}, calls + 1)
    <3>1. EventsOk(d.events, d.index, d.counter, t.events, calls)
      BY <1>p, <2>1
    <3>0. PICK names : names = Append(d.index[s], calls)
      OBVIOUS
    <3>2. PICK events, idx, cnt, stored :
            events = d.events /\ idx = d.index /\ cnt = d.counter /\ stored = t.events
      OBVIOUS
    <3>3. EventsOk(events, idx, cnt, stored, calls)
      BY <3>1, <3>2
    <3>4. NextEvent(idx, cnt, calls, s, seq, added, names, index, counter)
      BY <2>2, <2>3, <2>5, <2>6, <3>0, <3>2 DEF NextEvent
    <3>5. mine = {e \in stored : e.session = s}
      BY <2>4, <3>2
    <3>6. Cardinality(mine) = cnt[s]
      BY <3>3, <3>5, EventsCounted
    <3>7. EventsOk(events \union {added}, index, counter, stored \union {added}, calls + 1)
      BY <3>3, <3>4, EventAppended
    <3> QED BY <2>2, <3>2, <3>6, <3>7
  <2>8. /\ index \in Indexes /\ counter \in Counters
        /\ t.events \union {added} \in EventSets /\ d.events \union {added} \in EventSets
    BY <2>7 DEF EventsOk, Named, EventSets
  <2>9. PICK d2 : d2 = [d EXCEPT !.counter = counter, !.events = d.events \union {added}, !.index = index]
    OBVIOUS
  <2>10. /\ d2 \in Doubles /\ d2.events = d.events \union {added} /\ d2.index = index
         /\ d2.counter = counter /\ d2.receipts = d.receipts
    BY <2>8, <2>9 DEF Doubles
  <2>11. PICK t2 : t2 = [t EXCEPT !.events = t.events \union {added}]
    OBVIOUS
  <2>12. t2 \in Tables /\ t2.events = t.events \union {added} /\ t2.receipts = t.receipts
    BY <2>8, <2>11 DEF Tables
  <2>13. double' = d2
    BY <1>0, <1>1, <2>2, <2>3, <2>5, <2>6, <2>9 DEF AppendToBoth
  <2>14. table' = t2
    <3>1. CountSessionEvents(s) + 1 = seq
      BY <1>t, <2>4, <2>7 DEF CountSessionEvents, Stored
    <3> QED BY <1>t, <1>1, <2>3, <2>11, <3>1 DEF AppendToBoth
  <2>15. \A m \in Subjects : Kept(m)' <=> Kept(m)
    BY <2>1 DEF Kept
  <2>16. /\ instant' \in Nat /\ gone' \subseteq Subjects \union {Owner}
         /\ EventsOk(d2.events, d2.index, d2.counter, t2.events, calls + 1)
         /\ Owner \notin gone'
    BY <1>p, <2>1, <2>7, <2>10, <2>12
  <2>17. \A m \in Subjects : LogOk(d2.receipts[m], m, calls + 1, instant')
    BY <1>p, <2>1, <2>10
  <2>18. \A m \in Subjects : ReceiptsOf(m)' = IF Kept(m)' THEN Range(d2.receipts[m]) ELSE {}
    BY <1>p, <1>t, <2>10, <2>12, <2>14, <2>15 DEF ReceiptsOf
  <2> QED BY <2>1, <2>10, <2>12, <2>13, <2>14, <2>16, <2>17, <2>18, TwinsTogether
<1>2. ASSUME NEW s \in Threads, DeleteSession(s) PROVE TwinsInv'
  <2>1. Called /\ UNCHANGED <<gone, instant>>
    BY <1>2 DEF DeleteSession
  <2>2. PICK index : index = [d.index EXCEPT ![s] = << >>]
    OBVIOUS
  <2>3. PICK counter : counter = [d.counter EXCEPT ![s] = 0]
    OBVIOUS
  <2>4. PICK events : events = {e \in d.events : e.id \notin Range(d.index[s])}
    OBVIOUS
  <2>5. PICK left : left = t.events \ {e \in t.events : e.session = s}
    OBVIOUS
  <2>6. Owner \notin gone => EventsOk(events, index, counter, left, calls + 1)
    <3>1. SUFFICES ASSUME Owner \notin gone PROVE EventsOk(events, index, counter, left, calls + 1)
      OBVIOUS
    <3>2. EventsOk(events, index, counter, left, calls)
      <4>1. EventsOk(d.events, d.index, d.counter, t.events, calls)
        BY <1>p, <3>1
      <4> QED BY <2>2, <2>3, <2>4, <2>5, <4>1, SessionForgotten
    <3> QED BY <3>2, EventsLater
  <2>7. /\ index \in Indexes /\ counter \in Counters /\ events \in EventSets /\ left \in EventSets
    <3>1. d.index \in Indexes /\ d.counter \in Counters /\ d.events \in EventSets /\ t.events \in EventSets
      BY DEF Doubles, Tables
    <3>2. index \in Indexes
      BY <2>2, <3>1 DEF Indexes
    <3>3. counter \in Counters
      BY <2>3, <3>1 DEF Counters
    <3> QED BY <2>4, <2>5, <3>1, <3>2, <3>3 DEF EventSets
  <2>8. PICK d2 : d2 = [d EXCEPT !.events = events, !.index = index, !.counter = counter]
    OBVIOUS
  <2>9. /\ d2 \in Doubles /\ d2.events = events /\ d2.index = index
        /\ d2.counter = counter /\ d2.receipts = d.receipts
    BY <2>7, <2>8 DEF Doubles
  <2>10. PICK t2 : t2 = [t EXCEPT !.events = left]
    OBVIOUS
  <2>11. t2 \in Tables /\ t2.events = left /\ t2.receipts = t.receipts
    BY <2>7, <2>10 DEF Tables
  <2>12. double' = d2
    BY <1>0, <1>2, <2>2, <2>3, <2>4, <2>8 DEF DeleteSession, ForgetSession
  <2>13. table' = t2
    BY <1>t, <1>2, <2>5, <2>10 DEF DeleteSession, Stored
  <2>14. \A m \in Subjects : Kept(m)' <=> Kept(m)
    BY <2>1 DEF Kept
  <2>15. Owner \in gone => left = {}
    BY <1>p, <2>5
  <2>16. /\ instant' \in Nat /\ gone' \subseteq Subjects \union {Owner}
         /\ Owner \notin gone' => EventsOk(d2.events, d2.index, d2.counter, t2.events, calls + 1)
         /\ Owner \in gone' => t2.events = {}
    BY <1>p, <2>1, <2>6, <2>9, <2>11, <2>15
  <2>17. \A m \in Subjects : LogOk(d2.receipts[m], m, calls + 1, instant')
    BY <1>p, <2>1, <2>9
  <2>18. \A m \in Subjects : ReceiptsOf(m)' = IF Kept(m)' THEN Range(d2.receipts[m]) ELSE {}
    BY <1>p, <1>t, <2>9, <2>11, <2>13, <2>14 DEF ReceiptsOf
  <2> QED BY <2>1, <2>9, <2>11, <2>12, <2>13, <2>16, <2>17, <2>18, TwinsTogether
<1>3. ASSUME NEW m \in Subjects, NEW type \in ReceiptTypes, RecordReceipt(m, type) PROVE TwinsInv'
  <2>1. m \notin gone /\ Owner \notin gone /\ Called /\ UNCHANGED gone
    BY <1>3 DEF RecordReceipt
  <2>2. instant' \in Nat /\ instant <= instant'
    <3>1. PICK later \in BOOLEAN : instant' = IF later THEN instant + 1 ELSE instant
      BY <1>3 DEF RecordReceipt
    <3> QED BY <1>p, <3>1
  <2>3. PICK receipt : receipt = [id |-> calls, item |-> m, type |-> type, at |-> instant]
    OBVIOUS
  <2>4. PICK log : log = Append(d.receipts[m], receipt)
    OBVIOUS
  <2>5. /\ receipt \in ReceiptSet /\ LogOk(log, m, calls + 1, instant')
        /\ Range(log) = Range(d.receipts[m]) \union {receipt}
    <3>1. LogOk(d.receipts[m], m, calls, instant)
      BY <1>0 DEF TwinsInv
    <3> QED BY <1>p, <2>2, <2>3, <2>4, <3>1, LogAppended
  <2>6. PICK logs : logs = [d.receipts EXCEPT ![m] = log]
    OBVIOUS
  <2>7. /\ logs \in Logs
        /\ \A k \in Subjects : logs[k] = IF k = m THEN log ELSE d.receipts[k]
    BY <2>5, <2>6 DEF Doubles, Logs, LogOk
  <2>8. PICK d2 : d2 = [d EXCEPT !.receipts = logs]
    OBVIOUS
  <2>9. /\ d2 \in Doubles /\ d2.events = d.events /\ d2.index = d.index
        /\ d2.counter = d.counter /\ d2.receipts = logs
    BY <2>7, <2>8 DEF Doubles
  <2>10. PICK t2 : t2 = [t EXCEPT !.receipts = t.receipts \union {receipt}]
    OBVIOUS
  <2>11. /\ t2 \in Tables /\ t2.events = t.events /\ t2.receipts = t.receipts \union {receipt}
    <3>1. t.receipts \union {receipt} \in ReceiptSets
      BY <2>5 DEF Tables, ReceiptSets
    <3> QED BY <2>10, <3>1 DEF Tables
  <2>12. double' = d2
    BY <1>0, <1>3, <2>3, <2>4, <2>6, <2>8 DEF RecordReceipt
  <2>13. table' = t2
    BY <1>t, <1>3, <2>3, <2>10 DEF RecordReceipt
  <2>14. EventsOk(d.events, d.index, d.counter, t.events, calls + 1)
    BY <1>p, <2>1, EventsLater
  <2>15. \A k \in Subjects : Kept(k)' <=> Kept(k)
    BY <2>1 DEF Kept
  <2>16. ASSUME NEW k \in Subjects PROVE LogOk(logs[k], k, calls + 1, instant')
    <3>1. LogOk(d.receipts[k], k, calls + 1, instant')
      BY <1>p, <2>2, LogLater
    <3> QED BY <2>5, <2>7, <3>1
  <2>17. ASSUME NEW k \in Subjects
         PROVE  ReceiptsOf(k)' = IF Kept(k)' THEN Range(logs[k]) ELSE {}
    <3>1. receipt.item = m
      BY <2>3
    <3>2. ReceiptsOf(k)' = ReceiptsOf(k) \union (IF k = m THEN {receipt} ELSE {})
      BY <1>t, <2>11, <2>13, <3>1 DEF ReceiptsOf
    <3>3. CASE k = m
      <4>1. Kept(k) /\ logs[k] = log
        BY <2>1, <2>7, <3>3 DEF Kept
      <4> QED BY <1>p, <2>5, <2>15, <3>2, <3>3, <4>1
    <3>4. CASE k # m
      BY <1>p, <2>7, <2>15, <3>2, <3>4
    <3> QED BY <3>3, <3>4
  <2>18. /\ gone' \subseteq Subjects \union {Owner} /\ Owner \notin gone'
         /\ EventsOk(d2.events, d2.index, d2.counter, t2.events, calls + 1)
    BY <1>p, <2>1, <2>9, <2>11, <2>14
  <2>19. \A k \in Subjects : /\ LogOk(d2.receipts[k], k, calls + 1, instant')
                             /\ ReceiptsOf(k)' = IF Kept(k)' THEN Range(d2.receipts[k]) ELSE {}
    BY <2>9, <2>16, <2>17
  <2> QED BY <2>1, <2>2, <2>9, <2>11, <2>12, <2>13, <2>18, <2>19, TwinsTogether
<1>4. ASSUME NEW m \in Subjects, DeleteItem(m) PROVE TwinsInv'
  <2>1. Called /\ gone' = gone \union {m} /\ UNCHANGED <<double, instant>>
    BY <1>4 DEF DeleteItem
  <2>2. PICK t2 : t2 = [t EXCEPT !.receipts = t.receipts \ {r \in t.receipts : r.item = m}]
    OBVIOUS
  <2>3. /\ t2 \in Tables /\ t2.events = t.events
        /\ t2.receipts = t.receipts \ {r \in t.receipts : r.item = m}
    <3>1. t.receipts \ {r \in t.receipts : r.item = m} \in ReceiptSets
      BY DEF Tables, ReceiptSets
    <3> QED BY <2>2, <3>1 DEF Tables
  <2>4. table' = t2
    BY <1>t, <1>4, <2>2 DEF DeleteItem, ReceiptsOf
  <2>5. Owner \in gone' <=> Owner \in gone
    BY <1>p, <2>1
  <2>6. \A k \in Subjects : Kept(k)' <=> Kept(k) /\ k # m
    BY <2>1, <2>5 DEF Kept
  <2>7. \A k \in Subjects : ReceiptsOf(k)' = IF Kept(k)' THEN Range(d.receipts[k]) ELSE {}
    <3>1. ASSUME NEW k \in Subjects
          PROVE  ReceiptsOf(k)' = IF k = m THEN {} ELSE ReceiptsOf(k)
      BY <1>t, <2>3, <2>4 DEF ReceiptsOf
    <3> QED BY <1>p, <2>6, <3>1
  <2>8. Owner \notin gone => EventsOk(d.events, d.index, d.counter, t.events, calls + 1)
    BY <1>p, EventsLater
  <2>9. double' = d /\ instant' = instant /\ gone' \subseteq Subjects \union {Owner}
    BY <1>0, <1>p, <2>1
  <2>10. /\ Owner \notin gone' => EventsOk(d.events, d.index, d.counter, t2.events, calls + 1)
         /\ Owner \in gone' => t2.events = {}
         /\ instant' \in Nat /\ \A k \in Subjects : LogOk(d.receipts[k], k, calls + 1, instant')
    BY <1>p, <2>3, <2>5, <2>8, <2>9
  <2> QED BY <2>1, <2>3, <2>4, <2>7, <2>9, <2>10, TwinsTogether
<1>5. CASE DeleteOwner
  <2>1. Called /\ gone' = gone \union {Owner} /\ UNCHANGED <<double, instant>>
    BY <1>5 DEF DeleteOwner
  <2>2. PICK t2 : t2 = [events |-> {}, receipts |-> {}]
    OBVIOUS
  <2>3. t2 \in Tables /\ t2.events = {} /\ t2.receipts = {} /\ table' = t2
    BY <1>5, <2>2 DEF DeleteOwner, Tables, EventSets, ReceiptSets
  <2>4. \A k \in Subjects : ~Kept(k)'
    BY <2>1 DEF Kept
  <2>5. double' = d /\ instant' = instant /\ gone' \subseteq Subjects \union {Owner}
    BY <1>0, <1>p, <2>1
  <2>6. \A k \in Subjects : ReceiptsOf(k)' = IF Kept(k)' THEN Range(d.receipts[k]) ELSE {}
    BY <2>3, <2>4 DEF ReceiptsOf
  <2>7. /\ Owner \in gone' /\ instant' \in Nat
        /\ \A k \in Subjects : LogOk(d.receipts[k], k, calls + 1, instant')
    BY <1>p, <2>1, <2>5
  <2> QED BY <2>1, <2>3, <2>5, <2>6, <2>7, TwinsTogether
<1>6. CASE UNCHANGED twinVars
  BY <1>6 DEF twinVars, TwinsInv, ReceiptsOf, Kept
<1>7. \A m \in Subjects : /\ TwinInjection(m) => RecordReceipt(m, "injection")
                          /\ TwinRetrieval(m) => RecordReceipt(m, "retrieval")
  BY DEF TwinInjection, TwinRetrieval
<1> QED BY <1>1, <1>2, <1>3, <1>4, <1>5, <1>6, <1>7 DEF TwinsNext, ReceiptTypes

\* What the invariant says of the answers of both.
LEMMA TwinsMeaning == TwinsInv => TwinsAgree
<1> SUFFICES ASSUME TwinsInv PROVE TwinsAgree
  OBVIOUS
<1>1. ASSUME Owner \notin gone, NEW s \in Threads
      PROVE  /\ \A limit \in 0..2 : DoubleEvents(s, limit) = TableEvents(s, limit)
             /\ Len(double.index[s]) = CountSessionEvents(s)
             /\ \A i \in DOMAIN TableEvents(s, 0) : TableEvents(s, 0)[i].seq = i
  <2>1. EventsOk(double.events, double.index, double.counter, table.events, calls)
    BY <1>1 DEF TwinsInv
  <2>2. PICK index : index = double.index
    OBVIOUS
  <2>3. /\ index \in Indexes /\ OnePlace(index)
        /\ table.events = Named(index) /\ double.events = Named(index)
    BY <2>1, <2>2 DEF EventsOk
  <2>4. PICK mine : mine = {e \in Named(index) : e.session = s}
    OBVIOUS
  <2>5. Stored(s) = mine /\ {e \in double.events : e.id \in Range(double.index[s])} = mine
    BY <2>2, <2>3, <2>4, OwnNames DEF Stored
  <2>6. /\ Cardinality(mine) = Len(index[s]) /\ Len(index[s]) \in Nat
        /\ \A i \in 1..Len(index[s]) : /\ \E e \in mine : e.seq = i
                                       /\ Cardinality({e \in mine : e.seq < i}) = i - 1
        /\ \A e \in mine : e.seq \in 1..Len(index[s])
    <3>1. index \in Indexes /\ Len(index[s]) \in Nat
      BY <2>3, IndexParts
    <3>2. Cardinality(mine) = Len(index[s]) /\ \A e \in mine : e.seq \in 1..Len(index[s])
      BY <2>4, <3>1, SessionCounted
    <3>3. \A i \in 1..Len(index[s]) : \E e \in mine : e.seq = i
      BY <2>4, <3>1, NumberTaken
    <3>4. \A i \in 1..Len(index[s]) : Cardinality({e \in mine : e.seq < i}) = i - 1
      BY <2>4, <3>1, SessionCounted
    <3> QED BY <3>1, <3>2, <3>3, <3>4
  <2>7. \A limit \in 0..2 : DoubleEvents(s, limit) = TableEvents(s, limit)
    BY <2>5 DEF DoubleEvents, TableEvents
  <2>8. Len(double.index[s]) = CountSessionEvents(s)
    BY <2>2, <2>5, <2>6 DEF CountSessionEvents
  <2>9. TableEvents(s, 0) = [i \in 1..Cardinality(mine) |->
                               CHOOSE e \in mine : Cardinality({f \in mine : f.seq < e.seq}) = i - 1]
    BY <2>5 DEF TableEvents, Cut, Ordered, Sorted
  <2>10. ASSUME NEW i \in 1..Len(index[s])
         PROVE  (CHOOSE e \in mine : Cardinality({f \in mine : f.seq < e.seq}) = i - 1).seq = i
    <3>1. PICK e \in mine : e.seq = i
      BY <2>6
    <3>2. Cardinality({f \in mine : f.seq < e.seq}) = i - 1
      BY <2>6, <3>1
    <3>3. ASSUME NEW g \in mine, Cardinality({f \in mine : f.seq < g.seq}) = i - 1 PROVE g.seq = i
      <4>1. g.seq \in 1..Len(index[s]) /\ Cardinality({f \in mine : f.seq < g.seq}) = g.seq - 1
        BY <2>6
      <4> QED BY <2>6, <3>3, <4>1
    <3> QED BY <3>2, <3>3
  <2> QED BY <2>6, <2>7, <2>8, <2>9, <2>10
<1>2. ASSUME NEW m \in Subjects, {m, Owner} \intersect gone = {}
      PROVE  /\ TableMayAnswer(m, double.receipts[m])
             /\ \A type \in {"injection", "retrieval"} :
                   CountByType(Range(double.receipts[m]), type) = CountByType(ReceiptsOf(m), type)
  <2>1. PICK log : log = double.receipts[m]
    OBVIOUS
  <2>2. ReceiptsOf(m) = Range(log) /\ LogOk(log, m, calls, instant)
    BY <1>2, <2>1 DEF TwinsInv, Kept
  <2>3. /\ Len(log) \in Nat /\ DOMAIN log = 1..Len(log)
        /\ \A i \in 1..Len(log) : log[i].id \in Nat
        /\ \A i, j \in 1..Len(log) : i < j => log[i].id < log[j].id /\ log[i].at <= log[j].at
    BY <2>2, LogParts DEF LogOk
  <2>4. Len(log) = Cardinality(Range(log))
    <3>1. log \in [1..Len(log) -> Range(log)]
      <4>1. log = [i \in 1..Len(log) |-> log[i]]
        BY <2>2, <2>3 DEF LogOk
      <4>2. \A i \in 1..Len(log) : log[i] \in Range(log)
        BY <2>3 DEF Range
      <4> QED BY <4>1, <4>2
    <3>2. ASSUME NEW i \in 1..Len(log), NEW j \in 1..Len(log), log[i] = log[j] PROVE i = j
      <4>1. ~(i < j) /\ ~(j < i)
        BY <2>3, <3>2
      <4> QED BY <4>1
    <3>3. \A x \in Range(log) : \E i \in 1..Len(log) : log[i] = x
      BY <2>3 DEF Range
    <3>4. log \in Bijection(1..Len(log), Range(log))
      BY <3>1, <3>2, <3>3 DEF Bijection, Injection, Surjection, IsInjective
    <3>5. ExistsBijection(1..Len(log), Range(log))
      BY <3>4 DEF ExistsBijection
    <3> QED BY <2>3, <3>5, FS_CountingElements
  <2>5. TableMayAnswer(m, log)
    BY <2>2, <2>3, <2>4 DEF TableMayAnswer
  <2> QED BY <2>1, <2>2, <2>5
<1>3. ASSUME NEW m \in Subjects, {m, Owner} \intersect gone # {} PROVE ReceiptsOf(m) = {}
  BY <1>3 DEF TwinsInv, Kept
<1>4. Owner \in gone => table.events = {}
  BY DEF TwinsInv
<1> QED BY <1>1, <1>2, <1>3, <1>4 DEF TwinsAgree

-----------------------------------------------------------------------------
(* The knowledge entries, in memory and in the stores                      *)

\* Properties are functions from keys, an entry is a record.
PropertySet == UNION {[K -> Nat] : K \in SUBSET (Keys \union Authors)}
EntrySet == [org : Brands, type : EntryTypes, properties : PropertySet]

\* The entry in memory, its node and its point say the same; in memory no
\* author is among the properties.
SameEntry(inMemory, node, point) ==
    /\ inMemory \in EntrySet /\ node \in EntrySet
    /\ node.org = inMemory.org /\ node.type = inMemory.type
    /\ WithoutAuthors(node.properties) = inMemory.properties
    /\ WithoutAuthors(inMemory.properties) = inMemory.properties
    /\ point = SemanticText(inMemory.type, inMemory.properties)

\* The three stores have the same ids, each of an earlier call.
StoresOk(memory, graph, points, n) ==
    /\ n \in Nat
    /\ DOMAIN memory \subseteq {i \in Nat : i < n}
    /\ DOMAIN graph = DOMAIN memory /\ DOMAIN points = DOMAIN memory
    /\ memory = [id \in DOMAIN memory |-> memory[id]]
    /\ graph = [id \in DOMAIN graph |-> graph[id]]
    /\ points = [id \in DOMAIN points |-> points[id]]
    /\ \A id \in DOMAIN memory : SameEntry(memory[id], graph[id], points[id])

EntriesInv ==
    /\ calls \in 0..MaxTwinCalls
    /\ StoresOk(entries.memory, entries.graph, entries.points, calls)

\* Merging and leaving the authors out can be done in either order.
LEMMA OverWithoutAuthors ==
    ASSUME NEW new, NEW old
    PROVE  WithoutAuthors(Over(new, old)) = Over(WithoutAuthors(new), WithoutAuthors(old))
<1> DEFINE left == WithoutAuthors(Over(new, old))
           right == Over(WithoutAuthors(new), WithoutAuthors(old))
           D == (DOMAIN new \union DOMAIN old) \ Authors
<1>1. left = [k \in D |-> IF k \in DOMAIN new THEN new[k] ELSE old[k]]
  BY DEF Over, WithoutAuthors, Restrict
<1>2. /\ DOMAIN WithoutAuthors(new) = DOMAIN new \ Authors
      /\ DOMAIN WithoutAuthors(old) = DOMAIN old \ Authors
      /\ \A k \in DOMAIN new \ Authors : WithoutAuthors(new)[k] = new[k]
      /\ \A k \in DOMAIN old \ Authors : WithoutAuthors(old)[k] = old[k]
  BY DEF WithoutAuthors, Restrict
<1>3. right = [k \in D |-> IF k \in DOMAIN WithoutAuthors(new) THEN WithoutAuthors(new)[k]
                           ELSE WithoutAuthors(old)[k]]
  BY <1>2 DEF Over
<1>4. \A k \in D : (IF k \in DOMAIN new THEN new[k] ELSE old[k]) =
                   (IF k \in DOMAIN WithoutAuthors(new) THEN WithoutAuthors(new)[k]
                    ELSE WithoutAuthors(old)[k])
  BY <1>2
<1> QED BY <1>1, <1>3, <1>4

LEMMA OverKeepsType ==
    ASSUME NEW new \in PropertySet, NEW old \in PropertySet
    PROVE  Over(new, old) \in PropertySet
<1>1. PICK K \in SUBSET (Keys \union Authors) : new \in [K -> Nat]
  BY DEF PropertySet
<1>2. PICK L \in SUBSET (Keys \union Authors) : old \in [L -> Nat]
  BY DEF PropertySet
<1>3. Over(new, old) \in [K \union L -> Nat]
  BY <1>1, <1>2 DEF Over
<1> QED BY <1>3 DEF PropertySet

\* What a call gives is given without the author.
LEMMA GivenKeys ==
    ASSUME calls \in Nat, NEW K, K \subseteq Keys, NEW author \in Authors
    PROVE  /\ Given(K) \in PropertySet /\ Given(K \union {author}) \in PropertySet
           /\ WithoutAuthors(Given(K)) = Given(K)
           /\ WithoutAuthors(Given(K \union {author})) = Given(K)
<1>1. Given(K) \in [K -> Nat] /\ Given(K \union {author}) \in [K \union {author} -> Nat]
  BY DEF Given
<1>2. K \in SUBSET (Keys \union Authors) /\ K \union {author} \in SUBSET (Keys \union Authors)
  OBVIOUS
<1>3. \A k \in K : k \notin Authors
  BY DEF Keys, Authors
<1>4. DOMAIN Given(K) \ Authors = K /\ DOMAIN Given(K \union {author}) \ Authors = K
  BY <1>3 DEF Given
<1>5. /\ WithoutAuthors(Given(K)) = [k \in K |-> Given(K)[k]]
      /\ WithoutAuthors(Given(K \union {author})) = [k \in K |-> Given(K \union {author})[k]]
  BY <1>4 DEF WithoutAuthors, Restrict
<1>6. \A k \in K : Given(K)[k] = calls /\ Given(K \union {author})[k] = calls
  BY DEF Given
<1>7. Given(K) = [k \in K |-> calls]
  BY DEF Given
<1> QED BY <1>1, <1>2, <1>5, <1>6, <1>7 DEF PropertySet

\* One more entry, in all three.
LEMMA EntryAdded ==
    ASSUME NEW memory, NEW graph, NEW points, NEW n, StoresOk(memory, graph, points, n),
           NEW inMemory, NEW node, NEW point, SameEntry(inMemory, node, point)
    PROVE  StoresOk(Over([id \in {n} |-> inMemory], memory), Over([id \in {n} |-> node], graph),
                    Over([id \in {n} |-> point], points), n + 1)
<1> DEFINE D == {n} \union DOMAIN memory
<1>0. /\ n \in Nat /\ D \subseteq {i \in Nat : i < n + 1} /\ n \notin DOMAIN memory
      /\ DOMAIN graph = DOMAIN memory /\ DOMAIN points = DOMAIN memory
      /\ \A id \in DOMAIN memory : SameEntry(memory[id], graph[id], points[id])
  BY DEF StoresOk
<1>1. PICK m : m = [id \in D |-> IF id \in {n} THEN inMemory ELSE memory[id]]
  OBVIOUS
<1>2. PICK g : g = [id \in D |-> IF id \in {n} THEN node ELSE graph[id]]
  OBVIOUS
<1>3. PICK p : p = [id \in D |-> IF id \in {n} THEN point ELSE points[id]]
  OBVIOUS
<1>4. /\ Over([id \in {n} |-> inMemory], memory) = m
      /\ Over([id \in {n} |-> node], graph) = g
      /\ Over([id \in {n} |-> point], points) = p
  BY <1>0, <1>1, <1>2, <1>3 DEF Over
<1>5. \A id \in D : SameEntry(m[id], g[id], p[id])
  BY <1>0, <1>1, <1>2, <1>3
<1>6. StoresOk(m, g, p, n + 1)
  BY <1>0, <1>1, <1>2, <1>3, <1>5 DEF StoresOk
<1> QED BY <1>4, <1>6

LEMMA EntryChanged ==
    ASSUME NEW memory, NEW graph, NEW points, NEW n, StoresOk(memory, graph, points, n),
           NEW id \in DOMAIN memory,
           NEW inMemory, NEW node, NEW point, SameEntry(inMemory, node, point)
    PROVE  StoresOk([memory EXCEPT ![id] = inMemory], [graph EXCEPT ![id] = node],
                    [points EXCEPT ![id] = point], n + 1)
<1>1. PICK m : m = [memory EXCEPT ![id] = inMemory]
  OBVIOUS
<1>2. PICK g : g = [graph EXCEPT ![id] = node]
  OBVIOUS
<1>3. PICK p : p = [points EXCEPT ![id] = point]
  OBVIOUS
<1>4. \A i \in DOMAIN memory : SameEntry(m[i], g[i], p[i])
  BY <1>1, <1>2, <1>3 DEF StoresOk
<1>5. /\ DOMAIN m = DOMAIN memory /\ DOMAIN g = DOMAIN memory /\ DOMAIN p = DOMAIN memory
      /\ m = [i \in DOMAIN m |-> m[i]] /\ g = [i \in DOMAIN g |-> g[i]]
      /\ p = [i \in DOMAIN p |-> p[i]]
  BY <1>1, <1>2, <1>3 DEF StoresOk
<1>6. DOMAIN memory \subseteq {i \in Nat : i < n + 1} /\ n + 1 \in Nat
  BY DEF StoresOk
<1>7. StoresOk(m, g, p, n + 1)
  BY <1>4, <1>5, <1>6 DEF StoresOk
<1> QED BY <1>1, <1>2, <1>3, <1>7

LEMMA EntryRemoved ==
    ASSUME NEW memory, NEW graph, NEW points, NEW n, StoresOk(memory, graph, points, n),
           NEW id
    PROVE  StoresOk(Restrict(memory, DOMAIN memory \ {id}), Restrict(graph, DOMAIN graph \ {id}),
                    Restrict(points, DOMAIN points \ {id}), n + 1)
<1>1. PICK m : m = [i \in DOMAIN memory \ {id} |-> memory[i]]
  OBVIOUS
<1>2. PICK g : g = [i \in DOMAIN memory \ {id} |-> graph[i]]
  OBVIOUS
<1>3. PICK p : p = [i \in DOMAIN memory \ {id} |-> points[i]]
  OBVIOUS
<1>4. \A i \in DOMAIN m : SameEntry(m[i], g[i], p[i])
  BY <1>1, <1>2, <1>3 DEF StoresOk
<1>5. DOMAIN m \subseteq {i \in Nat : i < n + 1} /\ n + 1 \in Nat
  BY <1>1 DEF StoresOk
<1>6. StoresOk(m, g, p, n + 1)
  BY <1>1, <1>2, <1>3, <1>4, <1>5 DEF StoresOk
<1> QED BY <1>1, <1>2, <1>3, <1>6 DEF StoresOk, Restrict

LEMMA StoresLater ==
    ASSUME NEW memory, NEW graph, NEW points, NEW n, StoresOk(memory, graph, points, n)
    PROVE  StoresOk(memory, graph, points, n + 1)
<1>1. DOMAIN memory \subseteq {i \in Nat : i < n + 1} /\ n + 1 \in Nat
  BY DEF StoresOk
<1> QED BY <1>1 DEF StoresOk

\* A dictionary and the stores find an entry for the same organisations.
LEMMA FoundInBoth ==
    ASSUME EntriesInv, NEW org \in Brands, NEW id
    PROVE  /\ (GetFromMemory(org, id) = NoEntry) <=> (GetFromStores(org, id) = NoEntry)
           /\ GetFromMemory(org, id) # NoEntry =>
                /\ id \in DOMAIN entries.memory /\ entries.memory[id].org = org
                /\ GetFromMemory(org, id) = entries.memory[id]
                /\ GetFromStores(org, id) = entries.graph[id]
<1>1. /\ DOMAIN entries.graph = DOMAIN entries.memory
      /\ \A i \in DOMAIN entries.memory :
            SameEntry(entries.memory[i], entries.graph[i], entries.points[i])
  BY DEF EntriesInv, StoresOk
<1>2. ASSUME NEW e \in EntrySet PROVE e # NoEntry
  <2>1. DOMAIN e = {"org", "type", "properties"}
    BY DEF EntrySet
  <2>2. DOMAIN NoEntry = {}
    BY DEF NoEntry
  <2> QED BY <2>1, <2>2
<1>3. CASE id \in DOMAIN entries.memory
  <2>1. /\ entries.memory[id] \in EntrySet /\ entries.graph[id] \in EntrySet
        /\ entries.graph[id].org = entries.memory[id].org
    BY <1>1, <1>3 DEF SameEntry
  <2>2. entries.memory[id] # NoEntry /\ entries.graph[id] # NoEntry
    BY <1>2, <2>1
  <2> QED BY <1>1, <1>3, <2>1, <2>2 DEF GetFromMemory, GetFromStores, Get
<1>4. CASE id \notin DOMAIN entries.memory
  BY <1>1, <1>4 DEF GetFromMemory, GetFromStores, Get
<1> QED BY <1>3, <1>4

LEMMA EntriesStart == TwinsInit => EntriesInv
<1> SUFFICES ASSUME TwinsInit PROVE EntriesInv
  OBVIOUS
<1>1. PICK none : none = <<>>
  OBVIOUS
<1>2. DOMAIN none = {} /\ none = [i \in {} |-> none[i]]
  BY <1>1
<1>3. StoresOk(none, none, none, 0)
  BY <1>2 DEF StoresOk
<1> QED BY <1>1, <1>3, TwinsAssumption DEF TwinsInit, EntriesInv

LEMMA EntryCreated ==
    ASSUME EntriesInv, NEW org \in Brands, NEW type \in EntryTypes, CreateInBoth(org, type)
    PROVE  EntriesInv'
<1>0. /\ calls \in Nat /\ calls + 1 \in 0..MaxTwinCalls /\ calls' = calls + 1
      /\ StoresOk(entries.memory, entries.graph, entries.points, calls)
  BY TwinsAssumption DEF EntriesInv, CreateInBoth, Called
<1>1. PICK inMemory : inMemory = [org |-> org, type |-> type, properties |-> Given({"name"})]
  OBVIOUS
<1>2. PICK node : node = [org |-> org, type |-> type,
                          properties |-> Given({"name", "created_by"})]
  OBVIOUS
<1>3. PICK point : point = SemanticText(type, Given({"name"}))
  OBVIOUS
<1>4. /\ Given({"name"}) \in PropertySet /\ Given({"name", "created_by"}) \in PropertySet
      /\ WithoutAuthors(Given({"name"})) = Given({"name"})
      /\ WithoutAuthors(Given({"name", "created_by"})) = Given({"name"})
  <2>1. {"name"} \subseteq Keys /\ "created_by" \in Authors
        /\ {"name"} \union {"created_by"} = {"name", "created_by"}
    BY DEF Keys, Authors
  <2> HIDE DEF Keys, Authors
  <2> QED BY <1>0, <2>1, GivenKeys
<1>5. SameEntry(inMemory, node, point)
  <2>1. inMemory \in EntrySet /\ node \in EntrySet
    BY <1>1, <1>2, <1>4 DEF EntrySet
  <2> QED BY <1>1, <1>2, <1>3, <1>4, <2>1 DEF SameEntry
<1>6. StoresOk(Over([id \in {calls} |-> inMemory], entries.memory),
               Over([id \in {calls} |-> node], entries.graph),
               Over([id \in {calls} |-> point], entries.points), calls + 1)
  BY <1>0, <1>5, EntryAdded
<1>7. entries' = [memory |-> Over([id \in {calls} |-> inMemory], entries.memory),
                  graph |-> Over([id \in {calls} |-> node], entries.graph),
                  points |-> Over([id \in {calls} |-> point], entries.points)]
  BY <1>1, <1>2, <1>3 DEF CreateInBoth
<1> QED BY <1>0, <1>6, <1>7 DEF EntriesInv

LEMMA EntryUpdated ==
    ASSUME EntriesInv, NEW org \in Brands, NEW id, NEW key \in Keys, UpdateInBoth(org, id, key)
    PROVE  EntriesInv'
<1>0. /\ calls \in Nat /\ calls + 1 \in 0..MaxTwinCalls /\ calls' = calls + 1
      /\ StoresOk(entries.memory, entries.graph, entries.points, calls)
  BY TwinsAssumption DEF EntriesInv, UpdateInBoth, Called
<1>1. CASE GetFromStores(org, id) = NoEntry
  <2>1. GetFromMemory(org, id) = NoEntry
    BY <1>1, FoundInBoth
  <2>2. /\ entries'.memory = entries.memory /\ entries'.graph = entries.graph
        /\ entries'.points = entries.points
    BY <1>1, <2>1 DEF UpdateInBoth
  <2>3. StoresOk(entries.memory, entries.graph, entries.points, calls + 1)
    BY <1>0, StoresLater
  <2> QED BY <1>0, <2>2, <2>3 DEF EntriesInv
<1>2. CASE GetFromStores(org, id) # NoEntry
  <2>1. /\ GetFromMemory(org, id) # NoEntry /\ id \in DOMAIN entries.memory
        /\ GetFromStores(org, id) = entries.graph[id]
    BY <1>2, FoundInBoth
  <2>2. SameEntry(entries.memory[id], entries.graph[id], entries.points[id])
    BY <1>0, <2>1 DEF StoresOk
  <2>3. PICK old \in EntrySet : old = entries.memory[id]
    BY <2>2 DEF SameEntry
  <2>4. PICK was \in EntrySet : was = entries.graph[id]
    BY <2>2 DEF SameEntry
  <2>5. PICK given : given = Given({key})
    OBVIOUS
  <2>6. PICK byWhom : byWhom = Given({key, "updated_by"})
    OBVIOUS
  <2>7. /\ given \in PropertySet /\ byWhom \in PropertySet
        /\ WithoutAuthors(given) = given /\ WithoutAuthors(byWhom) = given
    <3>1. {key} \subseteq Keys /\ "updated_by" \in Authors
          /\ {key} \union {"updated_by"} = {key, "updated_by"}
      BY DEF Authors
    <3> QED BY <1>0, <2>5, <2>6, <3>1, GivenKeys
  <2>8. PICK changed : changed = [old EXCEPT !.properties = Over(given, @)]
    OBVIOUS
  <2>9. PICK node : node = [was EXCEPT !.properties = Over(byWhom, @)]
    OBVIOUS
  <2>10. PICK point : point = SemanticText(was.type, Over(given, was.properties))
    OBVIOUS
  <2>11. /\ changed \in EntrySet /\ changed.org = old.org /\ changed.type = old.type
         /\ changed.properties = Over(given, old.properties)
    <3>1. old.properties \in PropertySet
      BY <2>3 DEF EntrySet
    <3>2. Over(given, old.properties) \in PropertySet
      BY <2>7, <3>1, OverKeepsType
    <3> QED BY <2>3, <2>8, <3>2 DEF EntrySet
  <2>12. /\ node \in EntrySet /\ node.org = was.org /\ node.type = was.type
         /\ node.properties = Over(byWhom, was.properties)
    <3>1. was.properties \in PropertySet
      BY <2>4 DEF EntrySet
    <3>2. Over(byWhom, was.properties) \in PropertySet
      BY <2>7, <3>1, OverKeepsType
    <3> QED BY <2>4, <2>9, <3>2 DEF EntrySet
  <2>13. /\ was.org = old.org /\ was.type = old.type
         /\ WithoutAuthors(was.properties) = old.properties
         /\ WithoutAuthors(old.properties) = old.properties
    BY <2>2, <2>3, <2>4 DEF SameEntry
  <2>14. /\ WithoutAuthors(node.properties) = changed.properties
         /\ WithoutAuthors(changed.properties) = changed.properties
         /\ WithoutAuthors(Over(given, was.properties)) = changed.properties
    BY <2>7, <2>11, <2>12, <2>13, OverWithoutAuthors
  <2>15. SameEntry(changed, node, point)
    <3>1. point = SemanticText(changed.type, changed.properties)
      BY <2>10, <2>11, <2>13, <2>14 DEF SemanticText
    <3> QED BY <2>11, <2>12, <2>13, <2>14, <3>1 DEF SameEntry
  <2>16. StoresOk([entries.memory EXCEPT ![id] = changed], [entries.graph EXCEPT ![id] = node],
                  [entries.points EXCEPT ![id] = point], calls + 1)
    BY <1>0, <2>1, <2>15, EntryChanged
  <2>17. /\ entries'.memory = [entries.memory EXCEPT ![id].properties = Over(given, @)]
         /\ entries'.graph = [entries.graph EXCEPT ![id].properties = Over(byWhom, @)]
         /\ entries'.points = [entries.points EXCEPT ![id] =
                                 SemanticText(was.type, Over(given, was.properties))]
    BY <1>2, <2>1, <2>4, <2>5, <2>6 DEF UpdateInBoth
  <2>18. /\ entries'.memory = [entries.memory EXCEPT ![id] = changed]
         /\ entries'.graph = [entries.graph EXCEPT ![id] = node]
         /\ entries'.points = [entries.points EXCEPT ![id] = point]
    BY <2>3, <2>4, <2>8, <2>9, <2>10, <2>17
  <2> QED BY <1>0, <2>16, <2>18 DEF EntriesInv
<1> QED BY <1>1, <1>2

LEMMA EntryDeleted ==
    ASSUME EntriesInv, NEW org \in Brands, NEW id, DeleteInBoth(org, id)
    PROVE  EntriesInv'
<1>0. /\ calls \in Nat /\ calls + 1 \in 0..MaxTwinCalls /\ calls' = calls + 1
      /\ StoresOk(entries.memory, entries.graph, entries.points, calls)
  BY TwinsAssumption DEF EntriesInv, DeleteInBoth, Called
<1>1. CASE GetFromStores(org, id) = NoEntry
  <2>1. GetFromMemory(org, id) = NoEntry
    BY <1>1, FoundInBoth
  <2>2. /\ entries'.memory = entries.memory /\ entries'.graph = entries.graph
        /\ entries'.points = entries.points
    BY <1>1, <2>1 DEF DeleteInBoth
  <2>3. StoresOk(entries.memory, entries.graph, entries.points, calls + 1)
    BY <1>0, StoresLater
  <2> QED BY <1>0, <2>2, <2>3 DEF EntriesInv
<1>2. CASE GetFromStores(org, id) # NoEntry
  <2>1. GetFromMemory(org, id) # NoEntry
    BY <1>2, FoundInBoth
  <2>2. /\ entries'.memory = Restrict(entries.memory, DOMAIN entries.memory \ {id})
        /\ entries'.graph = Restrict(entries.graph, DOMAIN entries.graph \ {id})
        /\ entries'.points = Restrict(entries.points, DOMAIN entries.points \ {id})
    BY <1>2, <2>1 DEF DeleteInBoth
  <2>3. StoresOk(Restrict(entries.memory, DOMAIN entries.memory \ {id}),
                 Restrict(entries.graph, DOMAIN entries.graph \ {id}),
                 Restrict(entries.points, DOMAIN entries.points \ {id}), calls + 1)
    BY <1>0, EntryRemoved
  <2> QED BY <1>0, <2>2, <2>3 DEF EntriesInv
<1> QED BY <1>1, <1>2

LEMMA EntriesStep == EntriesInv /\ [EntriesNext]_twinVars => EntriesInv'
<1> SUFFICES ASSUME EntriesInv, [EntriesNext]_twinVars PROVE EntriesInv'
  OBVIOUS
<1>1. CASE EntriesNext
  BY <1>1, EntryCreated, EntryUpdated, EntryDeleted DEF EntriesNext
<1>2. CASE UNCHANGED twinVars
  BY <1>2 DEF twinVars, EntriesInv
<1> QED BY <1>1, <1>2

\* The least of two numbers.
LEMMA LeastOfTwo ==
    ASSUME NEW a \in Nat, NEW b \in Nat
    PROVE  Min({a, b}) = IF a <= b THEN a ELSE b
<1>1. ASSUME NEW least \in {a, b}, \A y \in {a, b} : least =< y
      PROVE  least = IF a <= b THEN a ELSE b
  BY <1>1
<1>2. PICK least \in {a, b} : \A y \in {a, b} : least =< y
  <2>1. CASE a <= b
    BY <2>1
  <2>2. CASE b <= a
    BY <2>2
  <2> QED BY <2>1, <2>2
<1>3. Min({a, b}) = CHOOSE x \in {a, b} : \A y \in {a, b} : x =< y
  BY DEF Min
<1>4. Min({a, b}) \in {a, b} /\ \A y \in {a, b} : Min({a, b}) =< y
  BY <1>2, <1>3
<1> QED BY <1>1, <1>4

\* How long a page is, and that a first page may hold all.
LEMMA PageHolds ==
    ASSUME NEW T, NEW list \in Seq(T), NEW offset \in Nat, NEW limit \in Nat
    PROVE  /\ Page(list, offset, limit) \in Seq(T)
           /\ Len(Page(list, offset, limit)) =
                IF offset + limit <= Len(list) THEN limit
                ELSE IF offset <= Len(list) THEN Len(list) - offset ELSE 0
           /\ offset = 0 /\ Len(list) <= limit => Page(list, offset, limit) = list
<1> DEFINE upTo == IF offset + limit <= Len(list) THEN offset + limit ELSE Len(list)
<1>0. Len(list) \in Nat
  BY LenProperties
<1>1. Min({offset + limit, Len(list)}) = upTo
  BY <1>0, LeastOfTwo
<1>2. Page(list, offset, limit) = SubSeq(list, offset + 1, upTo)
  BY <1>1 DEF Page
<1>3. \A i \in (offset + 1)..upTo : list[i] \in T
  <2>1. \A i \in 1..Len(list) : list[i] \in T
    BY ElementOfSeq
  <2> QED BY <1>0, <2>1
<1>4. offset + 1 \in Int /\ upTo \in Int
  BY <1>0
<1> HIDE DEF upTo
<1>5. /\ SubSeq(list, offset + 1, upTo) \in Seq(T)
      /\ Len(SubSeq(list, offset + 1, upTo)) =
            IF offset + 1 <= upTo THEN upTo - (offset + 1) + 1 ELSE 0
  BY <1>3, <1>4, SubSeqProperties
<1>6. ASSUME offset = 0, Len(list) <= limit PROVE Page(list, offset, limit) = list
  <2>1. upTo = Len(list) /\ offset + 1 = 1
    BY <1>0, <1>6 DEF upTo
  <2> QED BY <1>2, <2>1, SubSeqFull
<1>7. (IF offset + 1 <= upTo THEN upTo - (offset + 1) + 1 ELSE 0) =
        IF offset + limit <= Len(list) THEN limit
        ELSE IF offset <= Len(list) THEN Len(list) - offset ELSE 0
  BY <1>0 DEF upTo
<1> QED BY <1>2, <1>5, <1>6, <1>7

\* Naturals are listed by rank: each of a finite set, once.
LEMMA SortedListsAll ==
    ASSUME NEW S \in SUBSET Nat, IsFiniteSet(S)
    PROVE  LET list == Sorted(S, LAMBDA id : id) IN
           /\ list \in Seq(S) /\ Len(list) = Cardinality(S) /\ Range(list) = S
<1> DEFINE Below(e) == {f \in S : f < e}
           n == Cardinality(S)
           place == [e \in S |-> Cardinality(Below(e)) + 1]
<1>0. n \in Nat
  BY FS_CardinalityType
<1>1. ASSUME NEW e \in S
      PROVE  IsFiniteSet(Below(e)) /\ Cardinality(Below(e)) \in 0..(n - 1)
  <2>1. Below(e) \in SUBSET (S \ {e})
    OBVIOUS
  <2>2. IsFiniteSet(S \ {e}) /\ Cardinality(S \ {e}) = n - 1
    BY FS_RemoveElement
  <2>3. IsFiniteSet(Below(e)) /\ Cardinality(Below(e)) <= n - 1
    BY <2>1, <2>2, FS_Subset
  <2>4. Cardinality(Below(e)) \in Nat
    BY <2>3, FS_CardinalityType
  <2> QED BY <1>0, <2>3, <2>4
<1>2. ASSUME NEW e \in S, NEW f \in S, e < f
      PROVE  Cardinality(Below(e)) < Cardinality(Below(f))
  <2>1. Below(e) \union {e} \in SUBSET Below(f) /\ e \notin Below(e)
    <3>1. e \in Nat /\ f \in Nat /\ ~(e < e)
      OBVIOUS
    <3>2. ASSUME NEW g \in Below(e) PROVE g \in Below(f)
      <4>1. g \in S /\ g \in Nat /\ g < e
        OBVIOUS
      <4> QED BY <1>2, <3>1, <4>1
    <3> QED BY <1>2, <3>1, <3>2
  <2>2. IsFiniteSet(Below(e)) /\ IsFiniteSet(Below(f))
        /\ Cardinality(Below(e)) \in Nat /\ Cardinality(Below(f)) \in Nat
    BY <1>0, <1>1
  <2>3. Cardinality(Below(e) \union {e}) = Cardinality(Below(e)) + 1
    BY <2>1, <2>2, FS_AddElement
  <2>4. Cardinality(Below(e) \union {e}) <= Cardinality(Below(f))
    BY <2>1, <2>2, FS_Subset
  <2> QED BY <2>2, <2>3, <2>4
<1> HIDE DEF Below
<1>3. place \in Injection(S, 1..n)
  <2>1. place \in [S -> 1..n]
    BY <1>0, <1>1
  <2>2. ASSUME NEW e \in S, NEW f \in S, place[e] = place[f] PROVE e = f
    <3>1. Cardinality(Below(e)) = Cardinality(Below(f))
      BY <1>0, <1>1, <2>2
    <3>2. ~(e < f) /\ ~(f < e)
      <4>1. Cardinality(Below(e)) \in Nat /\ Cardinality(Below(f)) \in Nat
        BY <1>0, <1>1
      <4> QED BY <1>2, <3>1, <4>1
    <3>3. e \in Nat /\ f \in Nat
      OBVIOUS
    <3> QED BY <3>2, <3>3
  <2> QED BY <2>1, <2>2 DEF Injection, IsInjective
<1>4. place \in Surjection(S, 1..n)
  <2>1. IsFiniteSet(1..n) /\ Cardinality(1..n) = n
    BY <1>0, FS_Interval
  <2> HIDE DEF place, n
  <2> QED BY <1>3, <2>1, FS_Injection DEF n
<1>5. \A i \in 1..n : \E e \in S : Cardinality(Below(e)) = i - 1
  <2>1. ASSUME NEW i \in 1..n PROVE \E e \in S : Cardinality(Below(e)) = i - 1
    <3>1. PICK e \in S : place[e] = i
      BY <1>4 DEF Surjection
    <3>2. Cardinality(Below(e)) \in Int
      BY <1>0, <1>1
    <3> QED BY <1>0, <3>1, <3>2
  <2> QED BY <2>1
<1>6. PICK list : list = [i \in 1..n |-> CHOOSE e \in S : Cardinality(Below(e)) = i - 1]
  OBVIOUS
<1>7. \A i \in 1..n : list[i] \in S /\ Cardinality(Below(list[i])) = i - 1
  BY <1>5, <1>6
<1>8. list \in Seq(S) /\ Len(list) = n /\ DOMAIN list = 1..n
  <2>1. list \in [1..n -> S]
    BY <1>6, <1>7
  <2> HIDE DEF n
  <2> QED BY <1>0, <2>1, SeqDef
<1>9. ASSUME NEW e \in S PROVE \E i \in 1..n : list[i] = e
  <2>1. PICK i : i = Cardinality(Below(e)) + 1
    OBVIOUS
  <2>2. i \in 1..n /\ i - 1 = Cardinality(Below(e))
    BY <1>0, <1>1, <2>1
  <2>3. list[i] \in S /\ Cardinality(Below(list[i])) = Cardinality(Below(e))
    BY <1>7, <2>2
  <2>4. place[list[i]] = place[e]
    BY <2>3
  <2>5. list[i] = e
    BY <1>3, <2>3, <2>4 DEF Injection, IsInjective
  <2> QED BY <2>2, <2>5
<1>10. Range(list) = S
  BY <1>7, <1>8, <1>9 DEF Range
<1>11. Sorted(S, LAMBDA id : id) = list
  BY <1>6 DEF Sorted, Below
<1> QED BY <1>8, <1>10, <1>11

\* A graph may answer in any order, with each node once.
LEMMA OrdersListAll ==
    ASSUME NEW S, IsFiniteSet(S), NEW order \in SetToSeqs(S)
    PROVE  order \in Seq(S) /\ Len(order) = Cardinality(S) /\ Range(order) = S
<1> DEFINE n == Cardinality(S)
<1>0. n \in Nat
  BY FS_CardinalityType
<1>1. /\ order \in [1..n -> S]
      /\ \A i, j \in 1..n : i # j => order[i] # order[j]
  BY DEF SetToSeqs
<1> HIDE DEF n
<1>2. order \in Injection(1..n, S)
  BY <1>1 DEF Injection, IsInjective
<1>3. IsFiniteSet(1..n) /\ Cardinality(1..n) = Cardinality(S)
  BY <1>0, FS_Interval DEF n
<1>4. order \in Surjection(1..n, S)
  BY <1>2, <1>3, FS_Injection
<1>5. order \in Seq(S) /\ Len(order) = n /\ DOMAIN order = 1..n
  BY <1>0, <1>1, SeqDef
<1>6. \A e \in S : \E i \in 1..n : order[i] = e
  BY <1>4 DEF Surjection
<1> QED BY <1>1, <1>5, <1>6 DEF Range, n

LEMMA PagesAgree ==
    ASSUME EntriesInv, NEW org \in Brands, NEW type,
           NEW offset \in Nat, NEW limit \in Nat,
           NEW inStores \in ListFromStores(org, type, offset, limit),
           NEW inMemory, inMemory = ListFromMemory(org, type, offset, limit)
    PROVE  /\ Len(inStores) = Len(inMemory)
           /\ offset = 0 /\ limit = MaxTwinCalls => Range(inStores) = Range(inMemory)
<1> DEFINE S == Listed(entries.memory, org, type)
<1>1. Listed(entries.graph, org, type) = S
  BY DEF EntriesInv, StoresOk, Listed, SameEntry
<1>2. S \in SUBSET Nat /\ IsFiniteSet(S) /\ Cardinality(S) \in Nat /\ Cardinality(S) <= MaxTwinCalls
  <2>1. calls \in Nat /\ calls <= MaxTwinCalls /\ MaxTwinCalls \in Nat
    BY TwinsAssumption DEF EntriesInv
  <2>2. S \in SUBSET (0..(calls - 1))
    BY <2>1 DEF EntriesInv, StoresOk, Listed
  <2>3. IsFiniteSet(0..(calls - 1)) /\ Cardinality(0..(calls - 1)) = calls
    BY <2>1, FS_Interval
  <2>4. IsFiniteSet(S) /\ Cardinality(S) <= calls
    BY <2>2, <2>3, FS_Subset
  <2>5. Cardinality(S) \in Nat
    BY <2>4, FS_CardinalityType
  <2> QED BY <2>1, <2>2, <2>4, <2>5
<1> HIDE DEF S
<1>3. PICK sorted : sorted = Sorted(S, LAMBDA id : id)
  OBVIOUS
<1>4. sorted \in Seq(S) /\ Len(sorted) = Cardinality(S) /\ Range(sorted) = S
  BY <1>2, <1>3, SortedListsAll
<1>5. inMemory = Page(sorted, offset, limit)
  BY <1>3 DEF ListFromMemory, S
<1>6. PICK order \in SetToSeqs(S) :
        inStores = Page(Page(order, 0, offset + limit), offset, limit)
  BY <1>1 DEF ListFromStores, FindByOrg
<1>7. order \in Seq(S) /\ Len(order) = Cardinality(S) /\ Range(order) = S
  BY <1>2, OrdersListAll
<1>8. PICK first : first = Page(order, 0, offset + limit)
  OBVIOUS
<1>9. /\ first \in Seq(S)
      /\ Len(first) = IF offset + limit <= Cardinality(S) THEN offset + limit ELSE Cardinality(S)
      /\ Cardinality(S) <= offset + limit => first = order
  <2>1. 0 \in Nat /\ offset + limit \in Nat
    OBVIOUS
  <2>2. /\ Page(order, 0, offset + limit) \in Seq(S)
        /\ Len(Page(order, 0, offset + limit)) =
             IF 0 + (offset + limit) <= Len(order) THEN offset + limit
             ELSE IF 0 <= Len(order) THEN Len(order) - 0 ELSE 0
        /\ 0 = 0 /\ Len(order) <= offset + limit => Page(order, 0, offset + limit) = order
    BY <1>7, <2>1, PageHolds
  <2> QED BY <1>2, <1>7, <1>8, <2>2
<1>10. Len(inMemory) = IF offset + limit <= Cardinality(S) THEN limit
                       ELSE IF offset <= Cardinality(S) THEN Cardinality(S) - offset ELSE 0
  <2>1. Len(Page(sorted, offset, limit)) =
          IF offset + limit <= Len(sorted) THEN limit
          ELSE IF offset <= Len(sorted) THEN Len(sorted) - offset ELSE 0
    BY <1>4, PageHolds
  <2> QED BY <1>4, <1>5, <2>1
<1>11. Len(inStores) = IF offset + limit <= Len(first) THEN limit
                       ELSE IF offset <= Len(first) THEN Len(first) - offset ELSE 0
  BY <1>6, <1>8, <1>9, PageHolds
<1>12. Len(inStores) = Len(inMemory)
  BY <1>2, <1>9, <1>10, <1>11
<1>13. ASSUME offset = 0, limit = MaxTwinCalls PROVE Range(inStores) = Range(inMemory)
  <2>1. inMemory = sorted
    BY <1>2, <1>4, <1>5, <1>13, PageHolds
  <2>2. first = order /\ Len(first) <= limit
    BY <1>2, <1>9, <1>13
  <2>3. inStores = first
    BY <1>6, <1>8, <1>9, <1>13, <2>2, PageHolds
  <2> QED BY <1>4, <1>7, <2>1, <2>2, <2>3
<1> QED BY <1>12, <1>13

LEMMA EntriesMeaning == EntriesInv => EntriesAgree
<1> SUFFICES ASSUME EntriesInv, NEW org \in Brands
             PROVE  /\ \A id \in 0..MaxTwinCalls :
                         LET inMemory == GetFromMemory(org, id)
                             inStores == GetFromStores(org, id)
                         IN IF inMemory = NoEntry THEN inStores = NoEntry
                            ELSE /\ inStores # NoEntry /\ Answered(inStores) = inMemory
                                 /\ entries.points[id] = SemanticText(inMemory.type, inMemory.properties)
                    /\ \A type \in EntryTypes \union {AnyType}, offset \in 0..2,
                          limit \in {1, MaxTwinCalls} :
                         LET inMemory == ListFromMemory(org, type, offset, limit) IN
                         \A inStores \in ListFromStores(org, type, offset, limit) :
                            /\ Len(inStores) = Len(inMemory)
                            /\ offset = 0 /\ limit = MaxTwinCalls => Range(inStores) = Range(inMemory)
  BY DEF EntriesAgree
<1>1. ASSUME NEW id, GetFromMemory(org, id) # NoEntry
      PROVE  /\ GetFromStores(org, id) # NoEntry
             /\ Answered(GetFromStores(org, id)) = GetFromMemory(org, id)
             /\ entries.points[id] =
                  SemanticText(GetFromMemory(org, id).type, GetFromMemory(org, id).properties)
  <2>1. /\ GetFromStores(org, id) # NoEntry /\ id \in DOMAIN entries.memory
        /\ GetFromMemory(org, id) = entries.memory[id]
        /\ GetFromStores(org, id) = entries.graph[id]
    BY <1>1, FoundInBoth
  <2>2. SameEntry(entries.memory[id], entries.graph[id], entries.points[id])
    BY <2>1 DEF EntriesInv, StoresOk
  <2>3. PICK node \in EntrySet : node = entries.graph[id]
    BY <2>2 DEF SameEntry
  <2>4. PICK own \in EntrySet : own = entries.memory[id]
    BY <2>2 DEF SameEntry
  <2>5. node.org = own.org /\ node.type = own.type /\ WithoutAuthors(node.properties) = own.properties
    BY <2>2, <2>3, <2>4 DEF SameEntry
  <2>6. Answered(node) = own
    <3>1. Answered(node) = [org |-> node.org, type |-> node.type,
                            properties |-> WithoutAuthors(node.properties)]
      BY <2>3 DEF Answered, EntrySet
    <3>2. own = [org |-> own.org, type |-> own.type, properties |-> own.properties]
      BY <2>4 DEF EntrySet
    <3> QED BY <2>5, <3>1, <3>2
  <2> QED BY <2>1, <2>2, <2>3, <2>4, <2>6 DEF SameEntry
<1>2. ASSUME NEW id, GetFromMemory(org, id) = NoEntry PROVE GetFromStores(org, id) = NoEntry
  BY <1>2, FoundInBoth
<1>3. ASSUME NEW type, NEW offset \in 0..2, NEW limit \in {1, MaxTwinCalls},
             NEW inStores \in ListFromStores(org, type, offset, limit)
      PROVE  LET inMemory == ListFromMemory(org, type, offset, limit) IN
             /\ Len(inStores) = Len(inMemory)
             /\ offset = 0 /\ limit = MaxTwinCalls => Range(inStores) = Range(inMemory)
  BY PagesAgree, TwinsAssumption
<1> QED BY <1>1, <1>2, <1>3

------------------------------------------------------------------------------
(* What a reader gets is scoped, in every interleaving: a memory retrieval
   returns rows of the asking user and organisation that nothing had replaced
   when it began, though rows are replaced between its queries
   (PgMemoryCoreAdapter); a knowledge bundle holds nodes of the organisation's
   chain or shared ones, at most the limit, and contents of none whose reading
   failed (DiyuResolver); a database session reads the rows of its own
   organisation, whatever another left on a pooled connection (get_db_session). *)
THEOREM AnswersStayScoped == Spec => []AnswersScoped
<1> DEFINE AInv == /\ part = "items" => ReadsInv
                   /\ part = "resolver" => QueryInv
                   /\ part = "sessions" => SessionsInv
<1>1. Init => AInv
  BY ReadsStart, QueryStart, SessionsStart DEF Init
<1>2. AInv /\ [Next]_serviceVars => AInv'
  BY PartMoves, ReadsStep, QueryStep, SessionsStep
<1>3. AInv => AnswersScoped
  BY ReadsMeaning, QueryMeaning, SessionsMeaning DEF AnswersScoped, Of
<1> QED BY <1>1, <1>2, <1>3, PTL DEF Spec

(* However updates race and writes of receipts fail, a superseded row names a
   row of the same user that is its next version, every later version has such
   a predecessor, a store in memory keeps each history one chain whose end is
   the row listed as current; an item the pipeline reports as created has its
   receipt, and one with a receipt is reported, as created or, when an answer
   was lost, as an error (PgMemoryItemStore, MemoryItemStore, MemoryWritePipeline).  The cache gives
   what was last put under a key, of the type JSON makes of it, until it
   expires (RedisStorageAdapter); and the stores in memory answer what the
   tables, the graph and the vector index do, for any number of calls in any
   order (module Twins). *)
THEOREM MemoryStaysKept == Spec => []MemoryKept
<1> DEFINE MInv == /\ part = "items" => ReadsInv /\ ChainsInv
                   /\ part = "cache" => CacheInv
                   /\ part = "twins" => TwinsInv
                   /\ part = "entries" => EntriesInv
<1>1. Init => MInv
  BY ReadsStart, ChainsStart, CacheStart, TwinsStart, EntriesStart DEF Init
<1>2. MInv /\ [Next]_serviceVars => MInv'
  BY PartMoves, ReadsStep, ChainsStep, CacheStepKeeps, TwinsStep, EntriesStep
<1>3. MInv => MemoryKept
  BY ReadsMeaning, VersionsMeaning, CacheMeaning, TwinsMeaning, EntriesMeaning
     DEF MemoryKept, Of
<1> QED BY <1>1, <1>2, <1>3, PTL DEF Spec

-----------------------------------------------------------------------------
(* Start and stop of the service                                            *)

ServicePhases == {"build", "graph", "vector", "failed", "aborted", "boot", "serving",
                  "close_graph", "close_vector", "stopped"}
Writers == {"none", "stores", "memory"}
SkillSets == SUBSET BuiltIn
EntrySets == SUBSET (Entries \union {"old"})
Modes == {"required", "optional"}
ClosedSets == SUBSET {"graph", "vector"}
Truth == BOOLEAN
ServiceRecord == [phase : ServicePhases, mode : Modes, graph : AdapterStates,
                  vector : AdapterStates, collection : Truth, writer : Writers,
                  skills : SkillSets, stored : EntrySets, inMemory : EntrySets,
                  found : EntrySets, closed : ClosedSets]

Starting == {"build", "graph", "vector", "failed", "boot"}
Started == {"serving", "close_graph", "close_vector", "stopped"}

\* A start that goes on has both stores for its writer until one fails; what
\* serves has a writer, which decides where entries go.
ServiceInv ==
    /\ service \in ServiceRecord
    /\ service.phase \in {"graph", "vector", "failed"} => service.writer = "stores"
    /\ service.phase = "vector" => service.graph = "open"
    /\ service.phase \in {"boot", "serving"} /\ service.writer = "stores" =>
         service.graph = "open" /\ service.vector = "open" /\ service.collection = TRUE
    /\ service.phase \in {"boot"} \union Started =>
         /\ service.writer \in {"stores", "memory"}
         /\ service.mode = "required" => service.writer = "stores"
    /\ service.phase \in Started =>
         /\ service.skills = BuiltIn
         /\ service.writer = "stores" => service.inMemory = {}
         /\ service.writer = "memory" => service.stored \subseteq {"old"}
    /\ service.phase \notin Started => service.inMemory = {} /\ service.stored \subseteq {"old"}
    /\ service.found \subseteq service.stored
    /\ service.phase = "close_vector" => "graph" \in service.closed
    /\ service.phase = "stopped" => service.closed = {"graph", "vector"}

LEMMA ServiceStart == ServiceInit => ServiceInv
<1> SUFFICES ASSUME ServiceInit PROVE ServiceInv
  OBVIOUS
<1>1. PICK old \in SUBSET {"old"}, collection \in BOOLEAN :
        service = [phase |-> "build", mode |-> "optional", graph |-> "none", vector |-> "none",
                   collection |-> collection, writer |-> "none", skills |-> {},
                   stored |-> old, inMemory |-> {}, found |-> {}, closed |-> {}]
  BY DEF ServiceInit
<1>2. /\ old \in EntrySets /\ {} \in EntrySets /\ {} \in SkillSets /\ {} \in ClosedSets
      /\ collection \in Truth
  BY DEF EntrySets, SkillSets, ClosedSets, Truth
<1>3. service \in ServiceRecord
  BY <1>1, <1>2 DEF ServiceRecord, ServicePhases, Modes, AdapterStates, Writers
<1> QED BY <1>1, <1>3 DEF ServiceInv, Started

LEMMA ServiceStep == ServiceInv /\ [ServiceNext]_operationVars => ServiceInv'
<1> SUFFICES ASSUME ServiceInv, [ServiceNext]_operationVars PROVE ServiceInv'
  OBVIOUS
<1> USE DEF ServiceInv
<1>0. /\ \A e \in Entries, S \in EntrySets : S \union {e} \in EntrySets
      /\ {} \in EntrySets /\ BuiltIn \in SkillSets /\ TRUE \in Truth
      /\ \A x \in Truth, y \in BOOLEAN : x \/ y \in Truth
      /\ \A C \in ClosedSets : C \union {"graph"} \in ClosedSets /\ C \union {"vector"} \in ClosedSets
  BY DEF EntrySets, SkillSets, ClosedSets, Truth
<1>1. CASE UNCHANGED operationVars
  BY <1>1 DEF operationVars
<1>2. ASSUME NEW secret \in BOOLEAN, NEW mode \in Modes, BuildApp(secret, mode)
      PROVE  ServiceInv'
  <2>1. CASE secret
    BY <1>0, <1>2, <2>1 DEF BuildApp, ServiceRecord, ServicePhases, Writers, Started
  <2>2. CASE ~secret
    BY <1>0, <1>2, <2>2 DEF BuildApp, ServiceRecord, ServicePhases, Writers, Started
  <2> QED BY <2>1, <2>2
<1>3. ASSUME NEW c \in AdapterStates, ConnectGraph(c) PROVE ServiceInv'
  BY <1>0, <1>3 DEF ConnectGraph, ServiceRecord, ServicePhases, Started
<1>4. ASSUME NEW c \in AdapterStates, NEW created \in BOOLEAN, ConnectVector(c, created)
      PROVE  ServiceInv'
  <2>1. service' \in ServiceRecord
    BY <1>0, <1>4 DEF ConnectVector, ServiceRecord, ServicePhases
  <2>2. c = "open" => (service.collection \/ created) = TRUE
    BY <1>4 DEF ConnectVector
  <2> QED BY <1>4, <2>1, <2>2 DEF ConnectVector, Started, ServiceRecord
<1>5. CASE AbortStartup
  BY <1>0, <1>5 DEF AbortStartup, ServiceRecord, ServicePhases, Started
<1>6. CASE Degrade
  BY <1>0, <1>6 DEF Degrade, ServiceRecord, ServicePhases, Started, Writers
<1>7. CASE BootstrapSkillRegistry
  BY <1>0, <1>7 DEF BootstrapSkillRegistry, ServiceRecord, ServicePhases, Started
<1>8. ASSUME NEW e \in Entries, WriteEntry(e) PROVE ServiceInv'
  <2>1. CASE service.writer = "memory"
    BY <1>0, <1>8, <2>1 DEF WriteEntry, ServiceRecord, Started
  <2>2. CASE service.writer # "memory"
    BY <1>0, <1>8, <2>2 DEF WriteEntry, ServiceRecord, Started
  <2> QED BY <2>1, <2>2
<1>9. ASSUME NEW reachable \in BOOLEAN, ResolveEntries(reachable) PROVE ServiceInv'
  BY <1>0, <1>9 DEF ResolveEntries, ServiceRecord, Started
<1>10. CASE Stop
  BY <1>0, <1>10 DEF Stop, ServiceRecord, ServicePhases, Started
<1>11. ASSUME NEW raises \in BOOLEAN, CloseGraph(raises) PROVE ServiceInv'
  BY <1>0, <1>11 DEF CloseGraph, ServiceRecord, ServicePhases, Started, AdapterStates
<1>12. ASSUME NEW raises \in BOOLEAN, CloseVector(raises) PROVE ServiceInv'
  <2>1. service' \in ServiceRecord
    BY <1>0, <1>12 DEF CloseVector, ServiceRecord, ServicePhases, AdapterStates
  <2>2. service.closed \union {"vector"} = {"graph", "vector"}
    BY <1>12 DEF CloseVector, ServiceRecord, ClosedSets
  <2> QED BY <1>12, <2>1, <2>2 DEF CloseVector, Started, ServiceRecord
<1> QED
  BY <1>1, <1>2, <1>3, <1>4, <1>5, <1>6, <1>7, <1>8, <1>9, <1>10, <1>11, <1>12
     DEF ServiceNext, Modes

LEMMA ServiceMeaning == ServiceInv => ServiceWhole
BY DEF ServiceInv, ServiceWhole, Started

-----------------------------------------------------------------------------
(* The bootstrap of the graph                                               *)

Labels == {"Product", "Category", "StylingRule", "BrandKnowledge", "GlobalKnowledge",
           "RoleAdaptationRule"}
Joins == Nat \X Nat \X {"BELONGS_TO", "RECOMMENDS"}
RuleOf(k) == (k - 1) \div 2
BelongsTo(k) == <<5 + k, ((k - 1) \div 5) + 1, "BELONGS_TO">>
Recommends(k) == <<31 + RuleOf(k), DemoProduct(RuleOf(k) + 5 * ((k - 1) % 2)), "RECOMMENDS">>

LEMMA FunctionIsSequence ==
    ASSUME NEW S, NEW n \in Nat, NEW f \in [1..n -> S]
    PROVE  f \in Seq(S) /\ Len(f) = n
<1>1. f \in Seq(S)
  BY SeqDef
<1>2. Len(f) \in Nat /\ DOMAIN f = 1..Len(f) /\ DOMAIN f = 1..n
  BY <1>1, LenProperties
<1>3. Len(f) = n
  <2>1. n \in 1..Len(f) \/ n = 0
    BY <1>2
  <2>2. Len(f) \in 1..n \/ Len(f) = 0
    BY <1>2
  <2> QED BY <1>2, <2>1, <2>2
<1> QED BY <1>1, <1>3

LEMMA Joined ==
    ASSUME NEW S, NEW m \in Nat, NEW n \in Nat, NEW b \in [1..m -> S], NEW r \in [1..n -> S]
    PROVE  /\ b \o r \in Seq(S) /\ Len(b \o r) = m + n
           /\ \A k \in 1..m : (b \o r)[k] = b[k]
           /\ \A k \in 1..n : (b \o r)[m + k] = r[k]
<1>1. b \in Seq(S) /\ Len(b) = m
  BY FunctionIsSequence
<1>2. r \in Seq(S) /\ Len(r) = n
  BY FunctionIsSequence
<1>3. /\ b \o r \in Seq(S) /\ Len(b \o r) = Len(b) + Len(r)
      /\ \A i \in 1..(Len(b) + Len(r)) :
           (b \o r)[i] = IF i <= Len(b) THEN b[i] ELSE r[i - Len(b)]
  BY <1>1, <1>2, ConcatProperties
<1>4. ASSUME NEW k \in 1..n PROVE (b \o r)[m + k] = r[k]
  <2>1. m + k \in 1..(m + n) /\ ~(m + k <= m) /\ (m + k) - m = k
    OBVIOUS
  <2> QED BY <1>1, <1>2, <1>3, <2>1
<1>5. ASSUME NEW k \in 1..m PROVE (b \o r)[k] = b[k]
  BY <1>1, <1>2, <1>3
<1> QED BY <1>1, <1>2, <1>3, <1>4, <1>5

LEMMA DemoNodesAre ==
    /\ DemoNodes \in Seq(Labels) /\ Len(DemoNodes) = 55
    /\ \A i \in 1..55 : /\ i <= 5 => DemoNodes[i] = "Category"
                        /\ DemoNodes[i] = "Category" => i <= 5
                        /\ i \in 6..30 <=> DemoNodes[i] = "Product"
                        /\ i \in 31..40 <=> DemoNodes[i] = "StylingRule"
<1>1. /\ DOMAIN DemoNodes = 1..55
      /\ \A i \in 1..55 : DemoNodes[i] = CASE i <= 5 -> "Category"
                       [] i \in 6..30 -> "Product"
                       [] i \in 31..40 -> "StylingRule"
                       [] i \in 41..45 -> "BrandKnowledge"
                       [] i \in 46..50 -> "GlobalKnowledge"
                       [] i >= 51 -> "RoleAdaptationRule"
  BY DEF DemoNodes
<1>2. ASSUME NEW i \in 1..55
      PROVE  /\ DemoNodes[i] \in Labels
             /\ i <= 5 => DemoNodes[i] = "Category"
             /\ DemoNodes[i] = "Category" => i <= 5
             /\ i \in 6..30 <=> DemoNodes[i] = "Product"
             /\ i \in 31..40 <=> DemoNodes[i] = "StylingRule"
  <2>1. \/ i <= 5 \/ i \in 6..30 \/ i \in 31..40 \/ i \in 41..45 \/ i \in 46..50 \/ i >= 51
    OBVIOUS
  <2>2. /\ i <= 5 => DemoNodes[i] = "Category"
        /\ i \in 6..30 => DemoNodes[i] = "Product"
        /\ i \in 31..40 => DemoNodes[i] = "StylingRule"
        /\ i \in 41..45 => DemoNodes[i] = "BrandKnowledge"
        /\ i \in 46..50 => DemoNodes[i] = "GlobalKnowledge"
        /\ i >= 51 => DemoNodes[i] = "RoleAdaptationRule"
    BY <1>1
  <2> QED BY <2>1, <2>2 DEF Labels
<1>3. DemoNodes \in [1..55 -> Labels]
  <2>1. DemoNodes = [i \in 1..55 |-> DemoNodes[i]]
    BY <1>1 DEF DemoNodes
  <2> QED BY <1>2, <2>1
<1>4. DemoNodes \in Seq(Labels) /\ Len(DemoNodes) = 55
  BY <1>3, FunctionIsSequence
<1> QED BY <1>2, <1>4

LEMMA DemoJoins ==
    /\ DemoRelationships \in Seq(Joins) /\ Len(DemoRelationships) = 45
    /\ \A k \in 1..25 : DemoRelationships[k] = BelongsTo(k)
    /\ \A k \in 1..20 : DemoRelationships[25 + k] = Recommends(k)
<1> DEFINE B == [p \in 1..25 |-> <<5 + p, ((p - 1) \div 5) + 1, "BELONGS_TO">>]
           R == [k \in 1..20 |->
                   LET rule == (k - 1) \div 2 IN
                   <<31 + rule, DemoProduct(rule + 5 * ((k - 1) % 2)), "RECOMMENDS">>]
<1>1. ASSUME NEW k \in 1..25 PROVE BelongsTo(k) \in Joins
  <2>1. (k - 1) \div 5 \in Nat
    OBVIOUS
  <2> QED BY <2>1 DEF BelongsTo, Joins
<1>2. ASSUME NEW k \in 1..20 PROVE Recommends(k) \in Joins
  <2>1. RuleOf(k) \in Nat /\ (k - 1) % 2 \in Nat
    BY DEF RuleOf
  <2>2. \A i \in Nat : DemoProduct(i) \in Nat
    BY DEF DemoProduct
  <2> QED BY <2>1, <2>2 DEF Recommends, Joins
<1>3. B \in [1..25 -> Joins] /\ \A k \in 1..25 : B[k] = BelongsTo(k)
  BY <1>1 DEF BelongsTo
<1>4. R \in [1..20 -> Joins] /\ \A k \in 1..20 : R[k] = Recommends(k)
  BY <1>2 DEF Recommends, RuleOf
<1>5. PICK b : b = B
  OBVIOUS
<1>6. PICK r : r = R
  OBVIOUS
<1>7. DemoRelationships = b \o r
  BY <1>5, <1>6 DEF DemoRelationships
<1> HIDE DEF B, R
<1>8. PICK m \in Nat, n \in Nat : m = 25 /\ n = 20
  OBVIOUS
<1>9. /\ b \o r \in Seq(Joins) /\ Len(b \o r) = m + n
      /\ \A k \in 1..m : (b \o r)[k] = b[k]
      /\ \A k \in 1..n : (b \o r)[m + k] = r[k]
  <2>1. b \in [1..m -> Joins] /\ r \in [1..n -> Joins]
    BY <1>3, <1>4, <1>5, <1>6, <1>8
  <2> QED BY <2>1, Joined
<1>10. Len(b \o r) = 45
  BY <1>8, <1>9
<1>11. \A k \in 1..25 : (b \o r)[k] = BelongsTo(k)
  BY <1>3, <1>5, <1>8, <1>9
<1>12. \A k \in 1..20 : (b \o r)[25 + k] = Recommends(k)
  BY <1>4, <1>6, <1>8, <1>9
<1> QED BY <1>7, <1>9, <1>10, <1>11, <1>12

LEMMA DiskNodesAre ==
    ASSUME NEW files
    PROVE  LET nodes == DiskNodes(files)
               at == IF "categories" \in files THEN 3 ELSE 2
           IN /\ nodes \in Seq(Labels) /\ Len(nodes) \in 1..3 /\ DOMAIN nodes = 1..Len(nodes)
              /\ nodes[1] = "Product"
              /\ "categories" \in files => nodes[2] = "Category" /\ Len(nodes) >= 2
              /\ "styling_rules" \in files => nodes[at] = "StylingRule" /\ Len(nodes) >= at
              /\ \A i \in 1..Len(nodes) :
                   /\ nodes[i] = "Product" => i = 1
                   /\ nodes[i] = "Category" => i = 2 /\ "categories" \in files
                   /\ nodes[i] = "StylingRule" => i = at /\ "styling_rules" \in files
<1> DEFINE nodes == DiskNodes(files)
<1>1. CASE "categories" \in files /\ "styling_rules" \in files
  BY <1>1 DEF DiskNodes, Labels
<1>2. CASE "categories" \in files /\ "styling_rules" \notin files
  BY <1>2 DEF DiskNodes, Labels
<1>3. CASE "categories" \notin files /\ "styling_rules" \in files
  BY <1>3 DEF DiskNodes, Labels
<1>4. CASE "categories" \notin files /\ "styling_rules" \notin files
  BY <1>4 DEF DiskNodes, Labels
<1> QED BY <1>1, <1>2, <1>3, <1>4

Fits(nodes, rel) ==
    (rel[1] \in 1..Len(nodes) /\ rel[2] \in 1..Len(nodes)) =>
      /\ rel[3] = "BELONGS_TO" => nodes[rel[1]] = "Product" /\ nodes[rel[2]] = "Category"
      /\ rel[3] = "RECOMMENDS" => nodes[rel[1]] = "StylingRule" /\ nodes[rel[2]] = "Product"

LEMMA DemoFits == \A k \in 1..45 : Fits(DemoNodes, DemoRelationships[k])
<1>1. ASSUME NEW k \in 1..25 PROVE Fits(DemoNodes, DemoRelationships[k])
  <2>1. 5 + k \in 6..30 /\ ((k - 1) \div 5) + 1 \in 1..5
    OBVIOUS
  <2>2. DemoRelationships[k] = BelongsTo(k)
    BY DemoJoins
  <2>3. PICK i \in 6..30, j \in 1..5 : i = 5 + k /\ j = ((k - 1) \div 5) + 1
    BY <2>1
  <2>4. DemoNodes[i] = "Product" /\ DemoNodes[j] = "Category"
    <3>1. i \in 1..55 /\ j \in 1..55 /\ j <= 5
      OBVIOUS
    <3> QED BY <3>1, DemoNodesAre
  <2>5. DemoRelationships[k] = <<i, j, "BELONGS_TO">>
    BY <2>2, <2>3 DEF BelongsTo
  <2> QED BY <2>4, <2>5 DEF Fits
<1>2. ASSUME NEW k \in 1..20 PROVE Fits(DemoNodes, DemoRelationships[25 + k])
  <2>1. RuleOf(k) \in 0..9 /\ (k - 1) % 2 \in 0..1
    BY DEF RuleOf
  <2>2. PICK i \in Nat : i = RuleOf(k) + 5 * ((k - 1) % 2)
    BY <2>1
  <2>3. DemoProduct(i) \in 6..30
    BY <2>2 DEF DemoProduct
  <2>4. 31 + RuleOf(k) \in 31..40
    BY <2>1
  <2>5. DemoRelationships[25 + k] = <<31 + RuleOf(k), DemoProduct(i), "RECOMMENDS">>
    BY <2>2, DemoJoins DEF Recommends
  <2>6. PICK a \in 31..40, b \in 6..30 : a = 31 + RuleOf(k) /\ b = DemoProduct(i)
    BY <2>3, <2>4
  <2>7. DemoNodes[a] = "StylingRule" /\ DemoNodes[b] = "Product"
    <3>1. a \in 1..55 /\ b \in 1..55
      OBVIOUS
    <3> QED BY <3>1, DemoNodesAre
  <2>8. DemoRelationships[25 + k] = <<a, b, "RECOMMENDS">>
    BY <2>5, <2>6
  <2> QED BY <2>7, <2>8 DEF Fits
<1>3. ASSUME NEW k \in 1..45 PROVE Fits(DemoNodes, DemoRelationships[k])
  <2>1. CASE k <= 25
    BY <1>1, <2>1
  <2>2. CASE k > 25
    <3>1. k - 25 \in 1..20 /\ k = 25 + (k - 25)
      BY <2>2
    <3> QED BY <1>2, <3>1
  <2> QED BY <2>1, <2>2
<1> QED BY <1>3

LEMMA DiskFits ==
    ASSUME NEW files
    PROVE  /\ DiskRelationships(files) \in Seq(Joins)
           /\ \A k \in 1..Len(DiskRelationships(files)) :
                Fits(DiskNodes(files), DiskRelationships(files)[k])
<1> DEFINE nodes == DiskNodes(files)
           place(type) == IF type \in Range(nodes)
                          THEN CHOOSE i \in DOMAIN nodes : nodes[i] = type ELSE 0
           rels == <<<<place("Product"), place("Category"), "BELONGS_TO">>,
                     <<place("StylingRule"), place("Product"), "RECOMMENDS">>>>
<1>1. DiskRelationships(files) = IF "relationships" \in files THEN rels ELSE << >>
  BY DEF DiskRelationships
<1>2. Len(nodes) \in Nat /\ DOMAIN nodes = 1..Len(nodes)
  BY DiskNodesAre
<1> HIDE DEF nodes
<1>3. ASSUME NEW type
      PROVE  place(type) \in Nat /\ (place(type) \in 1..Len(nodes) => nodes[place(type)] = type)
  <2>1. CASE type \in Range(nodes)
    <3>1. PICK i \in DOMAIN nodes : nodes[i] = type
      BY <2>1 DEF Range
    <3>2. place(type) \in DOMAIN nodes /\ nodes[place(type)] = type
      BY <2>1, <3>1
    <3> QED BY <1>2, <3>2
  <2>2. CASE type \notin Range(nodes)
    BY <1>2, <2>2
  <2> QED BY <2>1, <2>2
<1> HIDE DEF place
<1>4. rels \in Seq(Joins) /\ Len(rels) = 2
  BY <1>3 DEF Joins
<1>5. \A k \in 1..2 : Fits(nodes, rels[k])
  BY <1>3 DEF Fits
<1> HIDE DEF rels
<1>6. CASE "relationships" \in files
  BY <1>1, <1>4, <1>5, <1>6 DEF nodes
<1>7. CASE "relationships" \notin files
  BY <1>1, <1>7
<1> QED BY <1>6, <1>7

LEMMA SeedData ==
    ASSUME NEW s
    PROVE  /\ SeedNodes(s) \in Seq(Labels) /\ Len(SeedNodes(s)) \in Nat
           /\ SeedRelationships(s) \in Seq(Joins) /\ Len(SeedRelationships(s)) \in Nat
           /\ \A k \in 1..Len(SeedRelationships(s)) :
                Fits(SeedNodes(s), SeedRelationships(s)[k])
<1>1. CASE s.disk
  BY <1>1, DiskFits, DiskNodesAre DEF SeedNodes, SeedRelationships
<1>2. CASE ~s.disk
  <2>1. SeedNodes(s) = DemoNodes /\ SeedRelationships(s) = DemoRelationships
    BY <1>2 DEF SeedNodes, SeedRelationships
  <2>2. Len(DemoRelationships) = 45 /\ Len(DemoNodes) = 55
    BY DemoNodesAre, DemoJoins
  <2>3. DemoNodes \in Seq(Labels) /\ DemoRelationships \in Seq(Joins)
    BY DemoNodesAre, DemoJoins
  <2> QED BY <2>1, <2>2, <2>3, DemoFits
<1> QED BY <1>1, <1>2

SeedFlags == BOOLEAN
FileSets == SUBSET SeedFiles
JoinSets == SUBSET Joins
SeedCounts == Nat
SeedRecord == [disk : SeedFlags, files : FileSets, at : SeedCounts, failed : SeedCounts,
               again : SeedFlags, clash : SeedFlags, known : SeedCounts, twice : SeedCounts,
               nodes : SeedCounts, joined : JoinSets, tried : SeedCounts,
               vectors : SeedCounts, stopped : SeedFlags]

\* The relationships of the data, tried so far, whose ends exist.
Made(s) ==
    {SeedRelationships(s)[k] : k \in {m \in 1..s.tried :
        /\ SeedRelationships(s)[m][1] \in 1..Len(SeedNodes(s))
        /\ SeedRelationships(s)[m][2] \in 1..Len(SeedNodes(s))}}

\* The label of node i has no unique id in the graph.
Bare(s, i) == s.failed \in DOMAIN UniqueLabels /\ UniqueLabels[s.failed] = SeedNodes(s)[i]

\* Nodes come after the constraints, relationships after all nodes, vectors
\* after all relationships.
SeedOrder(s) ==
    /\ s.at \in 1..(Constraints + 1)
    /\ s.nodes > 0 => s.at = Constraints + 1
    /\ s.nodes <= Len(SeedNodes(s))
    /\ s.tried <= Len(SeedRelationships(s))
    /\ s.tried > 0 => s.nodes = Len(SeedNodes(s))
    /\ s.vectors > 0 => s.nodes = Len(SeedNodes(s)) /\ s.tried = Len(SeedRelationships(s))
    /\ s.vectors <= s.nodes
    /\ s.joined = Made(s)

\* Where a run passed nodes of an earlier one, their label lacks its constraint.
SeedCopies(s) ==
    /\ s.failed <= Constraints
    /\ s.twice <= s.known /\ s.known <= Len(SeedNodes(s))
    /\ \A i \in 1..s.nodes : i <= s.known => Bare(s, i)
    /\ \A i \in 1..s.twice : Bare(s, i)
SeedInv == seeding \in SeedRecord /\ SeedOrder(seeding) /\ SeedCopies(seeding)

LEMMA ConstraintsAre == Constraints = 13
BY DEF Constraints, UniqueLabels, IndexedLabels

LEMMA SeedStart == SeedingInit => SeedInv
<1> SUFFICES ASSUME SeedingInit PROVE SeedInv
  OBVIOUS
<1>1. PICK disk \in SeedFlags, files \in FileSets :
        seeding = [disk |-> disk, files |-> files, at |-> 1, failed |-> 0,
                   again |-> FALSE, clash |-> FALSE, known |-> 0, twice |-> 0,
                   nodes |-> 0, joined |-> {}, tried |-> 0,
                   vectors |-> 0, stopped |-> FALSE]
  BY DEF SeedingInit, SeedFlags, FileSets
<1>2. {} \in JoinSets /\ FALSE \in SeedFlags /\ 0 \in SeedCounts /\ 1 \in SeedCounts
  BY DEF JoinSets, SeedFlags, SeedCounts
<1>3. seeding \in SeedRecord
  BY <1>1, <1>2 DEF SeedRecord
<1>4. PICK s : s = seeding
  OBVIOUS
<1>5. /\ s.at = 1 /\ s.nodes = 0 /\ s.tried = 0 /\ s.vectors = 0 /\ s.joined = {}
      /\ s.failed = 0 /\ s.known = 0 /\ s.twice = 0
  BY <1>1, <1>4
<1>6. Made(s) = {}
  BY <1>5 DEF Made
<1>7. Len(SeedNodes(s)) \in Nat /\ Len(SeedRelationships(s)) \in Nat
  BY SeedData
<1>8. SeedOrder(s) /\ SeedCopies(s)
  BY <1>5, <1>6, <1>7, ConstraintsAre DEF SeedOrder, SeedCopies
<1> QED BY <1>3, <1>4, <1>8 DEF SeedInv

\* The data are chosen once.
LEMMA SameData ==
    ASSUME NEW s, NEW t, s.disk = t.disk, s.files = t.files
    PROVE  /\ SeedNodes(s) = SeedNodes(t) /\ SeedRelationships(s) = SeedRelationships(t)
           /\ s.failed = t.failed => \A i : Bare(s, i) <=> Bare(t, i)
BY DEF SeedNodes, SeedRelationships, Bare

LEMMA BareFails == ASSUME NEW s, NEW i, Bare(s, i) PROVE s.failed # 0
BY DEF Bare, UniqueLabels

LEMMA SeedStep == SeedInv /\ [SeedingNext]_entityVars => SeedInv'
<1> SUFFICES ASSUME SeedInv, [SeedingNext]_entityVars PROVE SeedInv'
  OBVIOUS
<1>2. PICK s : s = seeding
  OBVIOUS
<1>3. PICK t : t = seeding'
  OBVIOUS
<1>1. CASE UNCHANGED entityVars
  <2>1. t = s /\ s \in SeedRecord /\ SeedOrder(s) /\ SeedCopies(s)
    BY <1>1, <1>2, <1>3 DEF entityVars, SeedInv
  <2> QED BY <1>3, <2>1 DEF SeedInv
<1> DEFINE nodes == Len(SeedNodes(s))
           rels == Len(SeedRelationships(s))
<1>4. /\ s \in SeedRecord /\ s.at \in 1..(Constraints + 1)
      /\ s.nodes > 0 => s.at = Constraints + 1
      /\ s.nodes <= nodes /\ s.tried <= rels
      /\ s.tried > 0 => s.nodes = nodes
      /\ s.vectors > 0 => s.nodes = nodes /\ s.tried = rels
      /\ s.vectors <= s.nodes
      /\ s.joined = Made(s)
  BY <1>2 DEF SeedInv, SeedOrder
<1>c. /\ s.failed <= Constraints /\ s.twice <= s.known /\ s.known <= nodes
      /\ \A i \in 1..s.nodes : i <= s.known => Bare(s, i)
      /\ \A i \in 1..s.twice : Bare(s, i)
  BY <1>2 DEF SeedInv, SeedCopies
<1>5. nodes \in Nat /\ rels \in Nat
  BY SeedData
<1>6. /\ \A n \in SeedCounts : n \in Nat /\ n + 1 \in SeedCounts
      /\ \A n \in Nat : n \in SeedCounts
      /\ TRUE \in SeedFlags /\ FALSE \in SeedFlags
      /\ \A a \in SeedFlags, b \in BOOLEAN : (a \/ b) \in SeedFlags
  BY DEF SeedCounts, SeedFlags
<1>d. /\ s.at \in Nat /\ s.failed \in Nat /\ s.known \in Nat /\ s.twice \in Nat
      /\ s.nodes \in Nat /\ s.tried \in Nat /\ s.vectors \in Nat
  BY <1>4 DEF SeedRecord, SeedCounts
<1> HIDE DEF nodes, rels
<1>7. ASSUME t \in SeedRecord, t.disk = s.disk, t.files = s.files,
             t.at \in 1..(Constraints + 1),
             (t.nodes > 0) => (t.at = Constraints + 1),
             t.nodes <= nodes, t.tried <= rels,
             (t.tried > 0) => (t.nodes = nodes),
             (t.vectors > 0) => (t.nodes = nodes /\ t.tried = rels),
             t.vectors <= t.nodes,
             t.joined = Made(t), SeedCopies(t)
      PROVE  SeedInv'
  <2>1. Len(SeedNodes(t)) = nodes /\ Len(SeedRelationships(t)) = rels
    BY <1>7, SameData DEF nodes, rels
  <2>2. SeedOrder(t)
    BY <1>7, <2>1 DEF SeedOrder
  <2> QED BY <1>3, <1>7, <2>2 DEF SeedInv
<1>8. ASSUME t.disk = s.disk, t.files = s.files, t.tried = s.tried PROVE Made(t) = Made(s)
  BY <1>8, SameData DEF Made
\* A step that leaves nodes, copies and constraints alone.
<1>e. ASSUME t.disk = s.disk, t.files = s.files, t.failed = s.failed, t.known = s.known,
             t.twice = s.twice, t.nodes = s.nodes
      PROVE  SeedCopies(t)
  BY <1>c, <1>e, SameData DEF SeedCopies, nodes
<1>9. CASE ApplyConstraint
  <2>a. s.at <= Constraints /\ s.at # 0
    BY <1>2, <1>4, <1>9, ConstraintsAre DEF ApplyConstraint
  <2>0. s.at + 1 \in SeedCounts /\ s.at \in SeedCounts /\ 0 \in SeedCounts
    BY <1>6, <1>d
  <2>b. \E f \in {s.failed, s.at, 0} :
          /\ t = [s EXCEPT !.at = @ + 1, !.failed = f]
          /\ f = s.failed \/ s.twice = 0 \/ s.failed = 0
    BY <1>2, <1>3, <1>9 DEF ApplyConstraint
  <2>c. PICK f \in {s.failed, s.at, 0} :
          /\ t = [s EXCEPT !.at = @ + 1, !.failed = f]
          /\ f = s.failed \/ s.twice = 0 \/ s.failed = 0
    BY <2>b
  <2>1. /\ t.at = s.at + 1 /\ t.failed = f
        /\ t.nodes = s.nodes /\ t.tried = s.tried /\ t.vectors = s.vectors
        /\ t.joined = s.joined /\ t.disk = s.disk /\ t.files = s.files
        /\ t.known = s.known /\ t.twice = s.twice
        /\ t \in SeedRecord
    BY <1>4, <2>0, <2>c DEF SeedRecord
  <2>3. s.nodes = 0
    BY <1>4, <1>d, <2>a, ConstraintsAre
  <2>4. SeedCopies(t)
    <3>1. CASE f = s.failed
      BY <1>e, <2>1, <3>1
    <3>2. CASE f # s.failed
      <4>1. s.twice = 0
        <5>1. CASE s.twice # 0
          <6>1. 1 \in 1..s.twice
            BY <1>d, <5>1
          <6>2. s.failed # 0
            BY <1>c, <6>1, BareFails
          <6> QED BY <2>c, <3>2, <6>2
        <5> QED BY <5>1
      <4>2. Len(SeedNodes(t)) = nodes
        BY <2>1, SameData DEF nodes
      <4>3. t.failed <= Constraints
        BY <1>c, <2>1, <2>a, <2>c, ConstraintsAre
      <4> QED BY <1>c, <2>1, <2>3, <4>1, <4>2, <4>3 DEF SeedCopies
    <3> QED BY <3>1, <3>2
  <2>5. t.at \in 1..(Constraints + 1)
    BY <1>d, <2>1, <2>a, ConstraintsAre
  <2> QED BY <1>4, <1>7, <1>8, <1>d, <2>1, <2>3, <2>4, <2>5
<1>10. CASE SeedNode
  <2> DEFINE next == s.nodes + 1
             copies == IF next <= s.known /\ s.twice < next THEN next ELSE s.twice
  <2>1. /\ t = [s EXCEPT !.nodes = next, !.twice = copies]
        /\ s.nodes < nodes /\ s.at > Constraints
        /\ next <= s.known => Bare(s, next)
    BY <1>2, <1>3, <1>10 DEF SeedNode, nodes, Unguarded, Bare
  <2>a. next \in Nat /\ copies \in Nat
    BY <1>d
  <2>b. /\ copies = s.twice \/ (copies = next /\ next <= s.known)
        /\ next = s.nodes + 1
    OBVIOUS
  <2> HIDE DEF next, copies
  <2>2. /\ t.at = s.at /\ t.nodes = next /\ t.tried = s.tried /\ t.vectors = s.vectors
        /\ t.joined = s.joined /\ t.disk = s.disk /\ t.files = s.files
        /\ t.failed = s.failed /\ t.known = s.known /\ t.twice = copies /\ t \in SeedRecord
    BY <1>4, <1>6, <2>1, <2>a DEF SeedRecord
  <2>4. s.tried = 0 /\ s.vectors = 0
    BY <1>4, <1>5, <1>d, <2>1
  <2>5. ASSUME NEW i \in 1..next, i <= s.known PROVE Bare(s, i)
    <3>1. CASE i = next
      BY <2>1, <2>5, <3>1
    <3>2. CASE i # next
      <4>1. i \in 1..s.nodes
        BY <1>d, <2>b, <3>2
      <4> QED BY <1>c, <2>5, <4>1
    <3> QED BY <3>1, <3>2
  <2>6. ASSUME NEW i \in 1..copies PROVE Bare(s, i)
    <3>1. CASE copies = s.twice
      BY <1>c, <2>6, <3>1
    <3>2. CASE copies = next /\ next <= s.known
      <4>1. i \in 1..next /\ i <= s.known
        BY <1>d, <2>a, <2>6, <3>2
      <4> QED BY <2>5, <4>1
    <3> QED BY <2>b, <3>1, <3>2
  <2>7. SeedCopies(t)
    <3>1. \A i : Bare(s, i) <=> Bare(t, i)
      BY <2>2, SameData
    <3>2. Len(SeedNodes(t)) = nodes /\ copies <= s.known
      BY <1>c, <2>2, <2>b, SameData DEF nodes
    <3> QED BY <1>c, <2>2, <2>5, <2>6, <3>1, <3>2 DEF SeedCopies
  <2> QED BY <1>4, <1>5, <1>7, <1>8, <1>d, <2>1, <2>2, <2>4, <2>7, <2>b, ConstraintsAre
<1>11. CASE SeedRelationship
  <2> DEFINE next == s.tried + 1
             rel == SeedRelationships(s)[next]
             joins == rel[1] \in 1..nodes /\ rel[2] \in 1..nodes
  <2>1. /\ t = [s EXCEPT !.tried = next, !.joined = IF joins THEN @ \union {rel} ELSE @]
        /\ s.nodes = nodes /\ s.tried < rels
    BY <1>2, <1>3, <1>11 DEF SeedRelationship, nodes, rels
  <2>2. s.tried \in Nat /\ s.vectors \in Nat /\ next \in SeedCounts /\ next \in 1..rels
    BY <1>4, <1>5, <1>6, <2>1 DEF SeedRecord
  <2>3. rel \in Joins
    BY <2>2, SeedData DEF rels
  <2> HIDE DEF rel, joins
  <2>4. s.joined \union {rel} \in JoinSets
    BY <1>4, <2>3 DEF SeedRecord, JoinSets
  <2>5. /\ t.at = s.at /\ t.nodes = s.nodes /\ t.tried = next /\ t.vectors = s.vectors
        /\ t.disk = s.disk /\ t.files = s.files
        /\ t.failed = s.failed /\ t.known = s.known /\ t.twice = s.twice /\ t \in SeedRecord
        /\ t.joined = IF joins THEN s.joined \union {rel} ELSE s.joined
    BY <1>4, <2>1, <2>2, <2>4 DEF SeedRecord
  <2>6. SeedNodes(t) = SeedNodes(s) /\ SeedRelationships(t) = SeedRelationships(s)
    BY <2>5, SameData
  <2>7. 1..t.tried = (1..s.tried) \union {next}
    BY <2>2, <2>5
  <2>8. Made(t) = t.joined
    <3> DEFINE Ends(m) == /\ SeedRelationships(s)[m][1] \in 1..nodes
                          /\ SeedRelationships(s)[m][2] \in 1..nodes
               Listing(m) == SeedRelationships(s)[m]
    <3>1. Made(s) = {Listing(k) : k \in {m \in 1..s.tried : Ends(m)}}
      BY DEF Made, nodes
    <3>2. Made(t) = {Listing(k) : k \in {m \in 1..t.tried : Ends(m)}}
      BY <2>6 DEF Made, nodes
    <3>3. (joins <=> Ends(next)) /\ rel = Listing(next)
      BY DEF rel, joins
    <3> HIDE DEF Ends, Listing
    <3>4. {Listing(k) : k \in {m \in (1..s.tried) \union {next} : Ends(m)}}
            = IF joins THEN {Listing(k) : k \in {m \in 1..s.tried : Ends(m)}} \union {rel}
              ELSE {Listing(k) : k \in {m \in 1..s.tried : Ends(m)}}
      BY <3>3
    <3>5. s.joined = Made(s)
      BY <1>4, <1>5
    <3> QED BY <2>5, <2>7, <3>1, <3>2, <3>4, <3>5
  <2>9. s.vectors = 0
    BY <1>4, <1>5, <2>1, <2>2
  <2> QED BY <1>4, <1>5, <1>7, <1>e, <2>1, <2>2, <2>5, <2>8, <2>9
<1>12. CASE SeedVector
  <2>1. /\ t = [s EXCEPT !.vectors = @ + 1] /\ s.nodes = nodes /\ s.tried = rels
        /\ s.vectors < s.nodes
    BY <1>2, <1>3, <1>12 DEF SeedVector, nodes, rels
  <2>2. /\ t.at = s.at /\ t.nodes = s.nodes /\ t.tried = s.tried /\ t.vectors = s.vectors + 1
        /\ t.joined = s.joined /\ t.disk = s.disk /\ t.files = s.files
        /\ t.failed = s.failed /\ t.known = s.known /\ t.twice = s.twice /\ t \in SeedRecord
    BY <1>4, <1>6, <2>1 DEF SeedRecord
  <2> QED BY <1>4, <1>5, <1>7, <1>8, <1>d, <1>e, <2>1, <2>2
<1>13. CASE SeedingFails
  <2>1. t = [s EXCEPT !.stopped = TRUE]
    BY <1>2, <1>3, <1>13 DEF SeedingFails
  <2>2. /\ t.at = s.at /\ t.nodes = s.nodes /\ t.tried = s.tried /\ t.vectors = s.vectors
        /\ t.joined = s.joined /\ t.disk = s.disk /\ t.files = s.files
        /\ t.failed = s.failed /\ t.known = s.known /\ t.twice = s.twice /\ t \in SeedRecord
    BY <1>4, <1>6, <2>1 DEF SeedRecord
  <2> QED BY <1>4, <1>7, <1>8, <1>e, <2>2
<1>14. ASSUME NEW same \in BOOLEAN, RepeatSeeding(same) PROVE SeedInv'
  <2>1. PICK known \in {0, s.known, s.nodes}, twice \in {0, s.twice}, clash \in SeedFlags :
          /\ t = [s EXCEPT !.at = 1, !.again = TRUE, !.stopped = FALSE, !.known = known,
                           !.twice = twice, !.clash = clash,
                           !.nodes = 0, !.joined = {}, !.tried = 0, !.vectors = 0]
          /\ twice = 0 \/ known >= s.known
    <3> DEFINE known == CASE ~same -> 0
                          [] same /\ s.known >= s.nodes -> s.known
                          [] same /\ s.known < s.nodes -> s.nodes
               twice == IF same THEN s.twice ELSE 0
               clash == s.clash \/ (~same /\ s.twice > 0)
    <3>1. t = [s EXCEPT !.at = 1, !.again = TRUE, !.stopped = FALSE, !.known = known,
                        !.twice = twice, !.clash = clash,
                        !.nodes = 0, !.joined = {}, !.tried = 0, !.vectors = 0]
      BY <1>2, <1>3, <1>14, <1>4 DEF RepeatSeeding, SeedRecord
    <3>2. clash \in SeedFlags
      BY <1>4 DEF SeedRecord, SeedFlags
    <3>3. known \in {0, s.known, s.nodes} /\ twice \in {0, s.twice}
          /\ (twice = 0 \/ known >= s.known)
      <4>1. CASE ~same
        BY <4>1
      <4>2. CASE same
        BY <1>d, <4>2
      <4> QED BY <4>1, <4>2
    <3> HIDE DEF known, twice, clash
    <3> QED BY <3>1, <3>2, <3>3
  <2>a. /\ known \in Nat /\ twice \in Nat /\ known <= nodes /\ twice <= known
    BY <1>4, <1>5, <1>c, <1>d, <2>1
  <2>b. {} \in JoinSets /\ 0 \in SeedCounts /\ 1 \in SeedCounts
    BY DEF JoinSets, SeedCounts
  <2>2. /\ t.at = 1 /\ t.nodes = 0 /\ t.tried = 0 /\ t.vectors = 0
        /\ t.joined = {} /\ t.disk = s.disk /\ t.files = s.files
        /\ t.failed = s.failed /\ t.known = known /\ t.twice = twice /\ t \in SeedRecord
    BY <1>4, <1>6, <2>1, <2>a, <2>b DEF SeedRecord
  <2>3. Made(t) = {}
    BY <2>2 DEF Made
  <2>4. ASSUME NEW i \in 1..twice PROVE Bare(s, i)
    BY <1>c, <1>d, <2>1, <2>4
  <2>5. SeedCopies(t)
    <3>1. \A i : Bare(s, i) <=> Bare(t, i)
      BY <2>2, SameData
    <3>2. Len(SeedNodes(t)) = nodes
      BY <2>2, SameData DEF nodes
    <3> QED BY <1>c, <2>2, <2>4, <2>a, <3>1, <3>2 DEF SeedCopies
  <2> QED BY <1>5, <1>7, <2>2, <2>3, <2>5, ConstraintsAre
<1> QED BY <1>1, <1>9, <1>10, <1>11, <1>12, <1>13, <1>14 DEF SeedingNext

LEMMA PairCardinality ==
    ASSUME NEW a, NEW b, a # b
    PROVE  Cardinality({a}) = 1 /\ Cardinality({a, b}) = 2
<1>1. IsFiniteSet({b}) /\ Cardinality({b}) = 1 /\ Cardinality({a}) = 1
  BY FS_Singleton
<1>2. Cardinality({b} \union {a}) = Cardinality({b}) + 1
  BY <1>1, FS_AddElement
<1>3. {a, b} = {b} \union {a}
  OBVIOUS
<1> QED BY <1>1, <1>2, <1>3

\* Where the relationships of the demo graph begin and end.
LEMMA DemoEnds ==
    /\ \A k \in 1..25 : /\ DemoRelationships[k][1] = 5 + k
                        /\ DemoRelationships[k][2] \in 1..5
    /\ \A k \in 1..20 : /\ DemoRelationships[25 + k][1] = 31 + RuleOf(k)
                        /\ DemoRelationships[25 + k][2] \in 6..30
    /\ \A n \in 0..9 : DemoRelationships[25 + (2 * n + 1)] # DemoRelationships[25 + (2 * n + 2)]
<1>1. ASSUME NEW k \in 1..25
      PROVE  DemoRelationships[k][1] = 5 + k /\ DemoRelationships[k][2] \in 1..5
  <2>1. PICK j \in 1..5 : j = ((k - 1) \div 5) + 1
    OBVIOUS
  <2>2. DemoRelationships[k] = <<5 + k, j, "BELONGS_TO">>
    BY <2>1, DemoJoins DEF BelongsTo
  <2> QED BY <2>2
<1>2. ASSUME NEW k \in 1..20
      PROVE  /\ DemoRelationships[25 + k][1] = 31 + RuleOf(k)
             /\ DemoRelationships[25 + k][2] = 6 + ((RuleOf(k) + 5 * ((k - 1) % 2)) % 25)
             /\ RuleOf(k) \in 0..9 /\ (k - 1) % 2 \in 0..1
  <2>1. RuleOf(k) \in 0..9 /\ (k - 1) % 2 \in 0..1
    BY DEF RuleOf
  <2>2. DemoRelationships[25 + k] =
          <<31 + RuleOf(k), 6 + ((RuleOf(k) + 5 * ((k - 1) % 2)) % 25), "RECOMMENDS">>
    BY DemoJoins DEF Recommends, DemoProduct
  <2> QED BY <2>1, <2>2
<1>3. ASSUME NEW k \in 1..20 PROVE DemoRelationships[25 + k][2] \in 6..30
  <2>1. PICK i \in Nat : i = RuleOf(k) + 5 * ((k - 1) % 2)
    BY <1>2
  <2>2. 6 + (i % 25) \in 6..30
    OBVIOUS
  <2> QED BY <1>2, <2>1, <2>2
<1>4. ASSUME NEW n \in 0..9
      PROVE  DemoRelationships[25 + (2 * n + 1)] # DemoRelationships[25 + (2 * n + 2)]
  <2>1. PICK k \in 1..20, l \in 1..20 : k = 2 * n + 1 /\ l = 2 * n + 2
    OBVIOUS
  <2>2. RuleOf(k) = n /\ RuleOf(l) = n /\ (k - 1) % 2 = 0 /\ (l - 1) % 2 = 1
    BY <2>1 DEF RuleOf
  <2>3. /\ DemoRelationships[25 + k][2] = 6 + (n % 25)
        /\ DemoRelationships[25 + l][2] = 6 + ((n + 5) % 25)
    <3>1. RuleOf(k) + 5 * ((k - 1) % 2) = n /\ RuleOf(l) + 5 * ((l - 1) % 2) = n + 5
      BY <2>2
    <3> QED BY <1>2, <3>1
  <2>4. n % 25 = n /\ (n + 5) % 25 = n + 5
    OBVIOUS
  <2> QED BY <2>1, <2>3, <2>4
<1> QED BY <1>1, <1>2, <1>3, <1>4

LEMMA SeedMeaning == SeedInv => SeedSound
<1> SUFFICES ASSUME SeedInv PROVE SeedSound
  OBVIOUS
<1> DEFINE nodes == SeedNodes(seeding)
           rels == SeedRelationships(seeding)
<1>1. /\ nodes \in Seq(Labels) /\ Len(nodes) \in Nat
      /\ rels \in Seq(Joins) /\ Len(rels) \in Nat
      /\ \A k \in 1..Len(rels) : Fits(nodes, rels[k])
  BY SeedData
<1>2. /\ seeding.joined = {rels[k] : k \in {m \in 1..seeding.tried :
            rels[m][1] \in 1..Len(nodes) /\ rels[m][2] \in 1..Len(nodes)}}
      /\ seeding.nodes \in Nat /\ seeding.tried \in Nat /\ seeding.vectors \in Nat
      /\ seeding.tried <= Len(rels)
      /\ seeding.tried > 0 => seeding.nodes = Len(nodes)
      /\ seeding.vectors > 0 => seeding.tried = Len(rels)
  BY DEF SeedInv, SeedOrder, Made, SeedRecord, SeedCounts
<1>3. DOMAIN nodes = 1..Len(nodes) /\ DOMAIN rels = 1..Len(rels)
  BY <1>1, LenProperties
<1>a. ~seeding.disk => nodes = DemoNodes /\ rels = DemoRelationships
  BY DEF SeedNodes, SeedRelationships
<1> HIDE DEF nodes, rels
<1>4. ASSUME NEW r \in seeding.joined
      PROVE  /\ r[1] <= seeding.nodes /\ r[2] <= seeding.nodes
             /\ r[3] = "BELONGS_TO" => nodes[r[1]] = "Product" /\ nodes[r[2]] = "Category"
             /\ r[3] = "RECOMMENDS" => nodes[r[1]] = "StylingRule" /\ nodes[r[2]] = "Product"
  <2>1. PICK k \in 1..seeding.tried :
          r = rels[k] /\ rels[k][1] \in 1..Len(nodes) /\ rels[k][2] \in 1..Len(nodes)
    BY <1>2
  <2>2. seeding.nodes = Len(nodes) /\ k \in 1..Len(rels)
    BY <1>1, <1>2, <2>1
  <2>3. Fits(nodes, r)
    BY <1>1, <2>1, <2>2
  <2> QED BY <1>1, <2>1, <2>2, <2>3 DEF Fits
<1>5. ASSUME seeding.vectors > 0, NEW r \in Range(rels),
             r[1] \in 1..Len(nodes), r[2] \in 1..Len(nodes)
      PROVE  r \in seeding.joined
  <2>1. PICK k \in 1..Len(rels) : r = rels[k]
    BY <1>3, <1>5 DEF Range
  <2> QED BY <1>2, <1>5, <2>1
<1>6. ASSUME seeding.vectors > 0, ~seeding.disk
      PROVE  seeding.joined = {DemoRelationships[k] : k \in 1..45}
  <2>1. nodes = DemoNodes /\ rels = DemoRelationships
    BY <1>6, <1>a
  <2>2. Len(nodes) = 55 /\ Len(rels) = 45 /\ seeding.tried = 45
    BY <1>2, <1>6, <2>1, DemoNodesAre, DemoJoins
  <2>3. ASSUME NEW k \in 1..45
        PROVE  DemoRelationships[k][1] \in 1..55 /\ DemoRelationships[k][2] \in 1..55
    <3>1. CASE k <= 25
      BY <3>1, DemoEnds
    <3>2. CASE k > 25
      <4>1. PICK l \in 1..20 : k = 25 + l
        <5>1. k - 25 \in 1..20 /\ k = 25 + (k - 25)
          BY <3>2
        <5> QED BY <5>1
      <4>2. RuleOf(l) \in 0..9
        BY DEF RuleOf
      <4>3. DemoRelationships[k][1] = 31 + RuleOf(l) /\ DemoRelationships[k][2] \in 6..30
        BY <4>1, DemoEnds
      <4> QED BY <4>2, <4>3
    <3> QED BY <3>1, <3>2
  <2> QED BY <1>2, <2>1, <2>2, <2>3
<1>7. ASSUME seeding.vectors > 0, ~seeding.disk, NEW i \in 1..55, nodes[i] = "Product"
      PROVE  Cardinality({r \in seeding.joined : r[1] = i}) = 1
  <2>1. i \in 6..30
    BY <1>7, <1>a, DemoNodesAre
  <2>2. PICK k \in 1..25 : i = 5 + k
    <3>1. i - 5 \in 1..25 /\ i = 5 + (i - 5)
      BY <2>1
    <3> QED BY <3>1
  <2>3. ASSUME NEW m \in 1..45 PROVE DemoRelationships[m][1] = i <=> m = k
    <3>1. CASE m <= 25
      BY <2>2, <3>1, DemoEnds
    <3>2. CASE m > 25
      <4>1. PICK l \in 1..20 : m = 25 + l
        <5>1. m - 25 \in 1..20 /\ m = 25 + (m - 25)
          BY <3>2
        <5> QED BY <5>1
      <4>2. RuleOf(l) \in 0..9 /\ DemoRelationships[m][1] = 31 + RuleOf(l)
        BY <4>1, DemoEnds DEF RuleOf
      <4> QED BY <2>2, <3>2, <4>2
    <3> QED BY <3>1, <3>2
  <2>4. {r \in seeding.joined : r[1] = i} = {DemoRelationships[k]}
    <3>1. seeding.joined = {DemoRelationships[m] : m \in 1..45} /\ k \in 1..45
      BY <1>6, <1>7
    <3>2. DemoRelationships[k] \in seeding.joined /\ DemoRelationships[k][1] = i
      BY <2>3, <3>1
    <3>3. ASSUME NEW r \in seeding.joined, r[1] = i PROVE r = DemoRelationships[k]
      BY <2>3, <3>1, <3>3
    <3> QED BY <3>2, <3>3
  <2> QED BY <2>4, FS_Singleton
<1>8. ASSUME seeding.vectors > 0, ~seeding.disk, NEW i \in 1..55, nodes[i] = "StylingRule"
      PROVE  Cardinality({r \in seeding.joined : r[1] = i}) = 2
  <2>1. i \in 31..40
    BY <1>8, <1>a, DemoNodesAre
  <2>2. PICK n \in 0..9 : i = 31 + n
    <3>1. i - 31 \in 0..9 /\ i = 31 + (i - 31)
      BY <2>1
    <3> QED BY <3>1
  <2>k. PICK k \in 1..45, l \in 1..45 : k = 25 + (2 * n + 1) /\ l = 25 + (2 * n + 2)
    OBVIOUS
  <2>3. ASSUME NEW m \in 1..45 PROVE DemoRelationships[m][1] = i <=> m = k \/ m = l
    <3>1. CASE m <= 25
      <4>1. DemoRelationships[m][1] = 5 + m
        BY <3>1, DemoEnds
      <4> QED BY <2>2, <2>k, <3>1, <4>1
    <3>2. CASE m > 25
      <4>1. PICK j \in 1..20 : m = 25 + j
        <5>1. m - 25 \in 1..20 /\ m = 25 + (m - 25)
          BY <3>2
        <5> QED BY <5>1
      <4>2. DemoRelationships[m][1] = 31 + RuleOf(j) /\ RuleOf(j) \in Int
        BY <4>1, DemoEnds DEF RuleOf
      <4>3. RuleOf(j) = n <=> j = 2 * n + 1 \/ j = 2 * n + 2
        BY DEF RuleOf
      <4> QED BY <2>2, <2>k, <4>1, <4>2, <4>3
    <3> QED BY <3>1, <3>2
  <2>4. {r \in seeding.joined : r[1] = i} = {DemoRelationships[k], DemoRelationships[l]}
    BY <1>6, <1>8, <2>3
  <2>5. DemoRelationships[k] # DemoRelationships[l]
    BY <2>k, DemoEnds
  <2>6. Cardinality({DemoRelationships[k], DemoRelationships[l]}) = 2
    BY <2>5, PairCardinality
  <2> QED BY <2>4, <2>6
<1>9. Range(nodes) \subseteq Range(UniqueLabels)
  <2>1. Range(nodes) \subseteq Labels
    <3>1. \A i \in 1..Len(nodes) : nodes[i] \in Labels
      BY <1>1, LenProperties
    <3> QED BY <1>3, <3>1 DEF Range
  <2>2. /\ DOMAIN UniqueLabels = 1..10
        /\ UniqueLabels[1] = "Product" /\ UniqueLabels[2] = "Category"
        /\ UniqueLabels[3] = "StylingRule" /\ UniqueLabels[4] = "BrandKnowledge"
        /\ UniqueLabels[5] = "GlobalKnowledge" /\ UniqueLabels[9] = "RoleAdaptationRule"
    BY DEF UniqueLabels
  <2>3. Labels \subseteq Range(UniqueLabels)
    BY <2>2 DEF Labels, Range
  <2> QED BY <2>1, <2>3
<1>10. ASSUME seeding.known > 0, seeding.nodes > 0 PROVE Unguarded(nodes[1])
  <2>1. 1 \in 1..seeding.nodes /\ 1 <= seeding.known
    BY <1>2, <1>10 DEF SeedInv, SeedRecord, SeedCounts
  <2> QED BY <2>1 DEF SeedInv, SeedCopies, Bare, Unguarded, nodes
<1>11. ASSUME NEW i \in 1..seeding.twice PROVE Unguarded(nodes[i])
  BY <1>11 DEF SeedInv, SeedCopies, Bare, Unguarded, nodes
<1> QED BY <1>4, <1>5, <1>7, <1>8, <1>9, <1>10, <1>11 DEF SeedSound, nodes, rels

-----------------------------------------------------------------------------
(* The tables of each revision                                              *)

TableNames == {"organizations", "users", "org_members", "org_settings", "audit_events",
               "conversation_events", "memory_items", "memory_receipts", "tool_usage_records"}
TablesAt(r) == UNION {DOMAIN Creates[k] : k \in 1..r}

LEMMA CreatesAre ==
    /\ LastRevision = 6
    /\ DOMAIN Creates[1] = {"organizations", "users", "org_members", "org_settings"}
    /\ DOMAIN Creates[2] = {"audit_events"}
    /\ DOMAIN Creates[3] = {"conversation_events"}
    /\ DOMAIN Creates[4] = {"memory_items", "memory_receipts"}
    /\ DOMAIN Creates[5] = {}
    /\ DOMAIN Creates[6] = {"tool_usage_records"}
    /\ Creates[1]["organizations"] = OrganizationsTable
    /\ Creates[1]["users"] = UsersTable
    /\ Creates[1]["org_members"] = OrgMembersTable
    /\ Creates[1]["org_settings"] = OrgSettingsTable
    /\ Creates[2]["audit_events"] = AuditEventsTable
    /\ Creates[3]["conversation_events"] = ConversationEventsTable
    /\ Creates[4]["memory_items"] = MemoryItemsTable
    /\ Creates[4]["memory_receipts"] = MemoryReceiptsTable
    /\ Creates[6]["tool_usage_records"] = ToolUsageRecordsTable
BY DEF Creates, LastRevision

\* A table is created by one migration.
LEMMA CreatedOnce ==
    /\ \A k \in 1..6 : DOMAIN Creates[k] \subseteq TableNames
    /\ \A k, l \in 1..6 : \A t \in DOMAIN Creates[k] : t \in DOMAIN Creates[l] => k = l
    /\ \A k \in 1..6 : \A t \in DOMAIN Creates[k] : Created(t) = Creates[k][t]
<1>1. ASSUME NEW k \in 1..6 PROVE k = 1 \/ k = 2 \/ k = 3 \/ k = 4 \/ k = 5 \/ k = 6
  OBVIOUS
<1>2. ASSUME NEW k \in 1..6 PROVE DOMAIN Creates[k] \subseteq TableNames
  BY <1>1, CreatesAre DEF TableNames
<1>3. ASSUME NEW k \in 1..6, NEW t \in DOMAIN Creates[k]
      PROVE  k = IF t \in {"organizations", "users", "org_members", "org_settings"} THEN 1
                 ELSE IF t = "audit_events" THEN 2
                 ELSE IF t = "conversation_events" THEN 3
                 ELSE IF t \in {"memory_items", "memory_receipts"} THEN 4
                 ELSE 6
  BY <1>1, CreatesAre
<1>4. ASSUME NEW k \in 1..6, NEW l \in 1..6, NEW t \in DOMAIN Creates[k], t \in DOMAIN Creates[l]
      PROVE  k = l
  BY <1>3, <1>4
<1>5. ASSUME NEW k \in 1..6, NEW t \in DOMAIN Creates[k]
      PROVE  Created(t) = Creates[k][t]
  <2>1. LastRevision = 6
    BY CreatesAre
  <2>2. (CHOOSE l \in 1..6 : t \in DOMAIN Creates[l]) = k
    BY <1>4
  <2> QED BY <2>1, <2>2 DEF Created
<1> QED BY <1>2, <1>4, <1>5

LEMMA CreatedIs ==
    /\ Created("organizations") = OrganizationsTable
    /\ Created("users") = UsersTable
    /\ Created("org_members") = OrgMembersTable
    /\ Created("org_settings") = OrgSettingsTable
    /\ Created("audit_events") = AuditEventsTable
    /\ Created("conversation_events") = ConversationEventsTable
    /\ Created("memory_items") = MemoryItemsTable
    /\ Created("memory_receipts") = MemoryReceiptsTable
    /\ Created("tool_usage_records") = ToolUsageRecordsTable
<1>1. \A k \in {1, 2, 3, 4, 5, 6} : \A t \in DOMAIN Creates[k] : Created(t) = Creates[k][t]
  BY CreatedOnce
<1> QED BY <1>1, CreatesAre

\* What the rows rely on: the rule of a column is one; a cascade leaves an
\* organisation, a user or a memory item, and leads to no table it leaves but
\* from items to receipts; a column that forgets may be empty; and tables of an
\* organisation are isolated.
GoodTable(t, def) ==
    /\ \A ref \in def.references :
         /\ ref = <<ref[1], ref[2], ref[3]>> /\ ref[3] \in {"cascade", "forget", "refuse"}
         /\ \/ ref[2] \in {"organizations", "users"}
            \/ t = "memory_receipts" /\ ref[2] = "memory_items"
         /\ ref[3] = "cascade" => t \notin {"organizations", "users"}
         /\ ref[3] = "forget" => ref[1] \in def.optional
    /\ \A a, b \in def.references : a[1] = b[1] => a = b
    /\ "org_id" \in def.required => def.rls # "none"
    /\ t \in RlsTables => def.rls = "forced"

LEMMA TablesAreGood == \A t \in TableNames : GoodTable(t, Created(t))
<1>1. GoodTable("organizations", OrganizationsTable)
  BY DEF GoodTable, OrganizationsTable, Table, Ref, OwnedBy, RlsTables
<1>2. GoodTable("users", UsersTable)
  BY DEF GoodTable, UsersTable, Table, Ref, OwnedBy, RlsTables
<1>3. GoodTable("org_members", OrgMembersTable)
  BY DEF GoodTable, OrgMembersTable, Table, Ref, OwnedBy, RlsTables
<1>4. GoodTable("org_settings", OrgSettingsTable)
  BY DEF GoodTable, OrgSettingsTable, Table, Ref, OwnedBy, RlsTables
<1>5. GoodTable("audit_events", AuditEventsTable)
  BY DEF GoodTable, AuditEventsTable, Table, Ref, OwnedBy, RlsTables
<1>6. GoodTable("conversation_events", ConversationEventsTable)
  BY DEF GoodTable, ConversationEventsTable, Table, Ref, OwnedBy, RlsTables
<1>7. GoodTable("memory_items", MemoryItemsTable)
  BY DEF GoodTable, MemoryItemsTable, Table, Ref, OwnedBy, RlsTables
<1>8. GoodTable("memory_receipts", MemoryReceiptsTable)
  BY DEF GoodTable, MemoryReceiptsTable, Table, Ref, OwnedBy, RlsTables
<1>9. GoodTable("tool_usage_records", ToolUsageRecordsTable)
  BY DEF GoodTable, ToolUsageRecordsTable, Table, Ref, OwnedBy, RlsTables
<1> QED
  BY <1>1, <1>2, <1>3, <1>4, <1>5, <1>6, <1>7, <1>8, <1>9, CreatedIs DEF TableNames

-----------------------------------------------------------------------------
(* Up and down                                                              *)


LEMMA PasswordGoes ==
    /\ WithoutPassword(WithPassword(UsersTable)) = UsersTable
    /\ WithPassword(UsersTable).required = UsersTable.required
    /\ WithPassword(UsersTable).optional = {"display_name", "password_hash"}
    /\ WithPassword(UsersTable).unique = UsersTable.unique
    /\ WithPassword(UsersTable).references = UsersTable.references
    /\ WithPassword(UsersTable).rls = UsersTable.rls
<1>1. PICK columns, optional, unique, references, rls :
        /\ UsersTable = [required |-> columns, optional |-> optional, unique |-> unique,
                         references |-> references, rls |-> rls]
        /\ optional = {"display_name"}
  BY DEF UsersTable, Table
<1> DEFINE records == [required : {columns}, optional : {optional}, unique : {unique},
                       references : {references}, rls : {rls}]
<1>2. PICK u \in records : u = UsersTable
  BY <1>1
<1>3. /\ (u.optional \union {"password_hash"}) \ {"password_hash"} = u.optional
      /\ u.optional \union {"password_hash"} = {"display_name", "password_hash"}
  BY <1>1, <1>2
<1> QED BY <1>2, <1>3 DEF WithPassword, WithoutPassword

LEMMA FreshParts ==
    ASSUME NEW r \in 0..6
    PROVE  /\ DOMAIN Fresh(r) = TablesAt(r)
           /\ \A t \in TablesAt(r) :
                Fresh(r)[t] = IF t = "users" /\ r >= 5
                              THEN WithPassword(Created(t)) ELSE Created(t)
BY DEF Fresh, TablesAt, AddsPassword

LEMMA TablesGrow ==
    ASSUME NEW r \in 0..5
    PROVE  /\ TablesAt(r + 1) = TablesAt(r) \union DOMAIN Creates[r + 1]
           /\ TablesAt(r) = TablesAt(r + 1) \ DOMAIN Creates[r + 1]
<1>1. 1..(r + 1) = (1..r) \union {r + 1}
  OBVIOUS
<1>2. \A k \in 1..r : k \in 1..6 /\ k # r + 1
  OBVIOUS
<1>3. r + 1 \in 1..6
  OBVIOUS
<1>4. TablesAt(r + 1) = TablesAt(r) \union DOMAIN Creates[r + 1]
  BY <1>1 DEF TablesAt
<1>5. TablesAt(r) \intersect DOMAIN Creates[r + 1] = {}
  BY <1>2, <1>3, CreatedOnce DEF TablesAt
<1> QED BY <1>4, <1>5

LEMMA UpIsFresh ==
    ASSUME NEW r \in 0..5
    PROVE  Up(r + 1, Fresh(r)) = Fresh(r + 1)
<1>0. r \in 0..6 /\ r + 1 \in 0..6 /\ r + 1 \in 1..6
  OBVIOUS
<1> DEFINE old == Fresh(r)
           new == Fresh(r + 1)
<1>1. /\ DOMAIN old = TablesAt(r) /\ DOMAIN new = TablesAt(r + 1)
      /\ TablesAt(r + 1) = TablesAt(r) \union DOMAIN Creates[r + 1]
  BY <1>0, FreshParts, TablesGrow
<1>2. \A t \in TablesAt(r) :
        old[t] = IF t = "users" /\ r >= 5
                 THEN WithPassword(Created(t)) ELSE Created(t)
  BY <1>0, FreshParts
<1>3. \A t \in TablesAt(r + 1) :
        new[t] = IF t = "users" /\ r + 1 >= 5
                 THEN WithPassword(Created(t)) ELSE Created(t)
  BY <1>0, FreshParts
<1>4. new = [t \in TablesAt(r + 1) |-> new[t]] /\ old = [t \in TablesAt(r) |-> old[t]]
  BY DEF Fresh, TablesAt
<1> HIDE DEF old, new
<1>5. CASE r = 4
  <2>1. TablesAt(r + 1) = TablesAt(r)
    BY <1>1, <1>5, CreatesAre
  <2>2. Up(r + 1, old) = [old EXCEPT !["users"] = WithPassword(old["users"])]
    BY <1>5 DEF Up, AddsPassword
  <2>3. PICK db : db = Up(r + 1, old)
    OBVIOUS
  <2>4. /\ DOMAIN db = TablesAt(r) /\ db = [t \in TablesAt(r) |-> db[t]]
        /\ \A t \in TablesAt(r) :
             db[t] = IF t = "users" THEN WithPassword(old[t]) ELSE old[t]
    BY <1>1, <1>4, <2>2, <2>3
  <2>5. \A t \in TablesAt(r) : db[t] = new[t]
    BY <1>2, <1>3, <1>5, <2>1, <2>4
  <2> QED BY <1>4, <2>1, <2>3, <2>4, <2>5 DEF old, new
<1>6. CASE r # 4
  <2>1. Up(r + 1, old) =
          [t \in DOMAIN old \union DOMAIN Creates[r + 1] |->
              IF t \in DOMAIN Creates[r + 1] THEN Creates[r + 1][t] ELSE old[t]]
    BY <1>6 DEF Up, AddsPassword, WithTables
  <2>2. ASSUME NEW t \in DOMAIN Creates[r + 1] PROVE Creates[r + 1][t] = new[t]
    <3>1. Created(t) = Creates[r + 1][t]
      BY <1>0, CreatedOnce
    <3>2. "users" \in DOMAIN Creates[1] /\ 1 \in 1..6
      BY CreatesAre
    <3>3. t = "users" => r + 1 = 1
      BY <1>0, <3>2, CreatedOnce
    <3> QED BY <1>1, <1>3, <3>1, <3>3
  <2>3. ASSUME NEW t \in TablesAt(r) PROVE old[t] = new[t]
    BY <1>1, <1>2, <1>3, <1>6
  <2> QED BY <1>1, <1>4, <2>1, <2>2, <2>3 DEF old, new
<1> QED BY <1>5, <1>6

LEMMA DownIsFresh ==
    ASSUME NEW r \in 1..6
    PROVE  Down(r, Fresh(r)) = Fresh(r - 1)
<1>0. r \in 0..6 /\ r - 1 \in 0..6 /\ r - 1 \in 0..5 /\ (r - 1) + 1 = r
  OBVIOUS
<1> DEFINE old == Fresh(r)
           new == Fresh(r - 1)
<1>1. /\ DOMAIN old = TablesAt(r) /\ DOMAIN new = TablesAt(r - 1)
      /\ TablesAt(r - 1) = TablesAt(r) \ DOMAIN Creates[r]
  BY <1>0, FreshParts, TablesGrow
<1>2. \A t \in TablesAt(r) :
        old[t] = IF t = "users" /\ r >= 5
                 THEN WithPassword(Created(t)) ELSE Created(t)
  BY <1>0, FreshParts
<1>3. \A t \in TablesAt(r - 1) :
        new[t] = IF t = "users" /\ r - 1 >= 5
                 THEN WithPassword(Created(t)) ELSE Created(t)
  BY <1>0, FreshParts
<1>4. new = [t \in TablesAt(r - 1) |-> new[t]] /\ old = [t \in TablesAt(r) |-> old[t]]
  BY DEF Fresh, TablesAt
<1> HIDE DEF old, new
<1>5. CASE r = 5
  <2>1. TablesAt(r) = TablesAt(r - 1)
    BY <1>1, <1>5, CreatesAre
  <2>2. Down(r, old) = [old EXCEPT !["users"] = WithoutPassword(old["users"])]
    BY <1>5 DEF Down, AddsPassword
  <2>3. PICK db : db = Down(r, old)
    OBVIOUS
  <2>4. /\ DOMAIN db = TablesAt(r) /\ db = [t \in TablesAt(r) |-> db[t]]
        /\ \A t \in TablesAt(r) :
             db[t] = IF t = "users" THEN WithoutPassword(old[t]) ELSE old[t]
    BY <1>1, <1>4, <2>2, <2>3
  <2>7. WithoutPassword(WithPassword(Created("users"))) = Created("users")
    BY CreatedIs, PasswordGoes
  <2>8. \A t \in TablesAt(r) : db[t] = new[t]
    BY <1>2, <1>3, <1>5, <2>1, <2>4, <2>7
  <2> QED BY <1>4, <2>1, <2>3, <2>4, <2>8 DEF old, new
<1>6. CASE r # 5
  <2>1. Down(r, old) = [t \in DOMAIN old \ DOMAIN Creates[r] |-> old[t]]
    BY <1>6 DEF Down, AddsPassword, Restrict
  <2>2. ASSUME NEW t \in TablesAt(r - 1) PROVE old[t] = new[t]
    BY <1>1, <1>2, <1>3, <1>6
  <2> QED BY <1>1, <1>4, <2>1, <2>2 DEF old, new
<1> QED BY <1>5, <1>6

LEMMA FreshTables ==
    ASSUME NEW r \in 0..6, NEW t \in TablesAt(r)
    PROVE  /\ t \in TableNames
           /\ Fresh(r)[t].required = Created(t).required
           /\ Created(t).optional \subseteq Fresh(r)[t].optional
           /\ t = "users" \/ Fresh(r)[t].optional = Created(t).optional
           /\ t = "users" /\ r = 6 => Fresh(r)[t].optional = {"display_name", "password_hash"}
           /\ Fresh(r)[t].unique = Created(t).unique
           /\ Fresh(r)[t].references = Created(t).references
           /\ Fresh(r)[t].rls = Created(t).rls
<1>1. PICK k \in 1..r : t \in DOMAIN Creates[k]
  BY DEF TablesAt
<1>2. t \in TableNames
  <2>1. k \in 1..6
    OBVIOUS
  <2> QED BY <1>1, <2>1, CreatedOnce
<1>3. CASE t = "users" /\ r >= 5
  <2>1. Fresh(r)[t] = WithPassword(UsersTable) /\ Created(t) = UsersTable
    BY <1>3, FreshParts, CreatedIs
  <2>2. UsersTable.optional = {"display_name"}
    BY DEF UsersTable, Table
  <2> QED BY <1>2, <1>3, <2>1, <2>2, PasswordGoes
<1>4. CASE ~(t = "users" /\ r >= 5)
  BY <1>2, <1>4, FreshParts
<1> QED BY <1>3, <1>4

\* The tables of a revision refer to tables of that revision only.
LEMMA RefsStay ==
    ASSUME NEW r \in 0..6, NEW t \in TablesAt(r), NEW ref \in Created(t).references
    PROVE  ref[2] \in TablesAt(r)
<1>1. PICK k \in 1..r : t \in DOMAIN Creates[k]
  BY DEF TablesAt
<1>2. t \in TableNames
  BY FreshTables
<1>3. \/ ref[2] \in {"organizations", "users"}
      \/ t = "memory_receipts" /\ ref[2] = "memory_items"
  BY <1>2, TablesAreGood DEF GoodTable
<1>4. CASE ref[2] \in {"organizations", "users"}
  <2>1. 1 \in 1..r /\ ref[2] \in DOMAIN Creates[1]
    BY <1>4, CreatesAre
  <2> QED BY <2>1 DEF TablesAt
<1>5. CASE t = "memory_receipts" /\ ref[2] = "memory_items"
  <2>1. 4 \in 1..6 /\ k \in 1..6 /\ t \in DOMAIN Creates[4] /\ ref[2] \in DOMAIN Creates[4]
    BY <1>5, CreatesAre
  <2>2. k = 4
    BY <1>1, <2>1, CreatedOnce
  <2> QED BY <2>1, <2>2 DEF TablesAt
<1> QED BY <1>3, <1>4, <1>5

-----------------------------------------------------------------------------
(* What the models find at the last revision                                *)

LEMMA LastTables ==
    /\ \A t \in TableNames : t \in TablesAt(6)
    /\ TablesAt(6) \subseteq TableNames
<1>1. \A k \in {1, 2, 3, 4, 6} : k \in 1..6
  OBVIOUS
<1>2. \A k \in {1, 2, 3, 4, 6} : DOMAIN Creates[k] \subseteq TablesAt(6)
  BY <1>1 DEF TablesAt
<1>3. TablesAt(6) \subseteq TableNames
  BY CreatedOnce DEF TablesAt
<1> QED BY <1>2, <1>3, CreatesAre DEF TableNames

Matches(model, def, named) ==
    /\ def.required = model.required /\ def.optional = model.optional \union named
    /\ def.unique = model.unique /\ def.references = model.references

LEMMA ModelsMatch ==
    /\ Matches(OrganizationModel, OrganizationsTable, {})
    /\ UserModel.required = UsersTable.required
    /\ UserModel.optional = {"display_name", "password_hash"}
    /\ UserModel.unique = UsersTable.unique /\ UserModel.references = UsersTable.references
    /\ Matches(OrgMemberModel, OrgMembersTable, {})
    /\ Matches(OrgSettingsModel, OrgSettingsTable, {})
    /\ Matches(AuditEventModel, AuditEventsTable, {})
    /\ Matches(ConversationEventModel, ConversationEventsTable, {})
    /\ Matches(MemoryItemModel, MemoryItemsTable, {"embedding"})
    /\ Matches(MemoryReceiptModel, MemoryReceiptsTable, {})
<1>1. Matches(OrganizationModel, OrganizationsTable, {})
  BY DEF Matches, OrganizationModel, OrganizationsTable, Model, Table
<1>2. /\ UserModel.required = UsersTable.required
      /\ UserModel.optional = {"display_name", "password_hash"}
      /\ UserModel.unique = UsersTable.unique /\ UserModel.references = UsersTable.references
  BY DEF UserModel, UsersTable, Model, Table
<1>3. Matches(OrgMemberModel, OrgMembersTable, {})
  BY DEF Matches, OrgMemberModel, OrgMembersTable, Model, Table
<1>4. Matches(OrgSettingsModel, OrgSettingsTable, {})
  BY DEF Matches, OrgSettingsModel, OrgSettingsTable, Model, Table
<1>5. Matches(AuditEventModel, AuditEventsTable, {})
  BY DEF Matches, AuditEventModel, AuditEventsTable, Model, Table
<1>6. Matches(ConversationEventModel, ConversationEventsTable, {})
  BY DEF Matches, ConversationEventModel, ConversationEventsTable, Model, Table
<1>7. Matches(MemoryItemModel, MemoryItemsTable, {"embedding"})
  BY DEF Matches, MemoryItemModel, MemoryItemsTable, Model, Table
<1>8. Matches(MemoryReceiptModel, MemoryReceiptsTable, {})
  BY DEF Matches, MemoryReceiptModel, MemoryReceiptsTable, Model, Table
<1> QED BY <1>1, <1>2, <1>3, <1>4, <1>5, <1>6, <1>7, <1>8

LEMMA FreshIsDeclared ==
    ASSUME revision \in 0..6, database = Fresh(revision)
    PROVE  SchemaAsDeclared
<1>1. LastRevision = 6
  BY CreatesAre
<1>2. DOMAIN database = TablesAt(revision)
  BY FreshParts
<1>3. ASSUME revision = 6, NEW t \in DOMAIN Models
      PROVE  LET named == IF t \in DOMAIN NamedInSql THEN NamedInSql[t] ELSE {} IN
             /\ t \in DOMAIN database
             /\ database[t].required = Models[t].required
             /\ database[t].optional = Models[t].optional \union named
             /\ database[t].unique = Models[t].unique
             /\ database[t].references = Models[t].references
  <2>1. t \in {"organizations", "users", "org_members", "org_settings", "audit_events",
               "conversation_events", "memory_items", "memory_receipts"}
    BY <1>3 DEF Models
  <2>2. t \in TableNames /\ t \in TablesAt(6)
    BY <2>1, LastTables DEF TableNames
  <2>3. DOMAIN NamedInSql = {"memory_items"} /\ NamedInSql["memory_items"] = {"embedding"}
    BY DEF NamedInSql
  <2>4. CASE t = "users"
    <3>1. Models[t] = UserModel /\ Created(t) = UsersTable
      BY <2>4, CreatedIs DEF Models
    <3>2. UserModel.optional \union {} = {"display_name", "password_hash"}
      BY ModelsMatch
    <3> QED BY <1>2, <1>3, <2>2, <2>3, <2>4, <3>1, <3>2, FreshTables, ModelsMatch
  <2>5. CASE t # "users"
    <3>1. Matches(Models[t], Created(t), IF t \in DOMAIN NamedInSql THEN NamedInSql[t] ELSE {})
      BY <2>1, <2>3, <2>5, CreatedIs, ModelsMatch DEF Models
    <3>2. /\ database[t].required = Created(t).required
          /\ database[t].optional = Created(t).optional
          /\ database[t].unique = Created(t).unique
          /\ database[t].references = Created(t).references
      BY <1>3, <2>2, <2>5, FreshTables
    <3> QED BY <1>2, <1>3, <2>2, <3>1, <3>2 DEF Matches
  <2> QED BY <2>4, <2>5
<1>4. ASSUME NEW t \in DOMAIN database
      PROVE  /\ "org_id" \in database[t].required => database[t].rls # "none"
             /\ t \in RlsTables => database[t].rls = "forced"
  <2>1. t \in TablesAt(revision) /\ t \in TableNames
    BY <1>2, <1>4, FreshTables
  <2>2. database[t].required = Created(t).required /\ database[t].rls = Created(t).rls
    BY <2>1, FreshTables
  <2> QED BY <2>1, <2>2, TablesAreGood DEF GoodTable
<1>5. revision = 6 => RlsTables \subseteq DOMAIN database
  BY <1>2, LastTables DEF RlsTables, TableNames
<1> QED BY <1>1, <1>3, <1>4, <1>5 DEF SchemaAsDeclared

-----------------------------------------------------------------------------
(* The rows                                                                 *)

Rules == {"cascade", "forget", "refuse"}
RowTableNames == TableNames \union {"gone"}
ColumnNames == {ref[1] : ref \in UNION {Created(t).references : t \in TableNames}}
RefMaps == UNION {[S -> Nat] : S \in SUBSET ColumnNames}
Successors == Nat
RowRecord == [table : RowTableNames, refs : RefMaps, next : Successors]

\* Row i of rs is gone, or each of its references leads to a row of the right
\* table or is empty where it may be, and its successor is of the same owner.
RefOk(rs, row, c) ==
    IF row.refs[c] = 0 THEN c \in Created(row.table).optional
    ELSE /\ row.refs[c] \in 1..Len(rs)
         /\ \E rule \in Rules :
              Ref(c, rs[row.refs[c]].table, rule) \in Created(row.table).references
NextOk(rs, row) ==
    row.next # 0 => /\ row.next \in 1..Len(rs) /\ row.table = "memory_items"
                    /\ rs[row.next].table = "memory_items"
                    /\ rs[row.next].refs = row.refs
RowOk(rs, row) ==
    /\ row.table = "gone" => row = Gone
    /\ \A c \in DOMAIN row.refs : RefOk(rs, row, c)
    /\ NextOk(rs, row)
Rows(rs, r) ==
    /\ rs \in Seq(RowRecord)
    /\ \A i \in 1..Len(rs) : rs[i].table \in TablesAt(r) \union {"gone"} /\ RowOk(rs, rs[i])

SchemaInv == revision \in 0..6 /\ database = Fresh(revision) /\ Rows(rows, revision)

LEMMA GoneIsRow ==
    /\ Gone \in RowRecord /\ Gone.table = "gone" /\ DOMAIN Gone.refs = {} /\ Gone.next = 0
    /\ \A rs : RowOk(rs, Gone)
<1>1. << >> \in RefMaps /\ 0 \in Successors /\ "gone" \in RowTableNames
  <2>1. << >> \in [{} -> Nat]
    OBVIOUS
  <2> QED BY <2>1 DEF RefMaps, Successors, RowTableNames
<1>2. Gone = [table |-> "gone", refs |-> << >>, next |-> 0]
  BY DEF Gone
<1> QED BY <1>1, <1>2 DEF RowRecord, RowOk, NextOk

LEMMA SchemaStart == SchemaInit => SchemaInv
<1> SUFFICES ASSUME SchemaInit PROVE SchemaInv
  OBVIOUS
<1>1. revision = 0 /\ database = << >> /\ rows = << >>
  BY DEF SchemaInit
<1>2. << >> = Fresh(0)
  BY DEF Fresh
<1>3. << >> \in Seq(RowRecord) /\ Len(<< >>) = 0
  OBVIOUS
<1>4. Rows(<< >>, 0)
  BY <1>3 DEF Rows
<1> QED BY <1>1, <1>2, <1>4 DEF SchemaInv

\* The rows of tables that are dropped go, and nothing refers to them.
LEMMA RowsMove ==
    ASSUME NEW rs, NEW r \in 0..6, NEW l \in 0..6, Rows(rs, r), NEW new,
           new = [i \in DOMAIN rs |-> IF rs[i].table \in TablesAt(l) THEN rs[i] ELSE Gone]
    PROVE  Rows(new, l)
<1>1. /\ rs \in Seq(RowRecord) /\ Len(rs) \in Nat /\ DOMAIN rs = 1..Len(rs)
      /\ \A i \in 1..Len(rs) : rs[i] \in RowRecord
  BY LenProperties DEF Rows
<1>2. \A i \in 1..Len(rs) : new[i] = IF rs[i].table \in TablesAt(l) THEN rs[i] ELSE Gone
  BY <1>1
<1>3. new \in Seq(RowRecord) /\ Len(new) = Len(rs)
  <2>1. new \in [1..Len(rs) -> RowRecord]
    BY <1>1, GoneIsRow
  <2> QED BY <1>1, <2>1, FunctionIsSequence
<1>4. ASSUME NEW i \in 1..Len(rs)
      PROVE  new[i].table \in TablesAt(l) \union {"gone"} /\ RowOk(new, new[i])
  <2>1. CASE rs[i].table \notin TablesAt(l)
    BY <1>2, <2>1, GoneIsRow
  <2>2. CASE rs[i].table \in TablesAt(l)
    <3>1. PICK row \in RowRecord : row = rs[i]
      BY <1>1
    <3>2. new[i] = row /\ RowOk(rs, row) /\ row.table \in TablesAt(l)
      BY <1>2, <2>2, <3>1 DEF Rows
    <3>3. ASSUME NEW c \in DOMAIN row.refs PROVE RefOk(new, row, c)
      <4>1. RefOk(rs, row, c)
        BY <3>2 DEF RowOk
      <4>2. CASE row.refs[c] = 0
        BY <4>1, <4>2 DEF RefOk
      <4>3. CASE row.refs[c] # 0
        <5>1. PICK rule \in Rules :
                Ref(c, rs[row.refs[c]].table, rule) \in Created(row.table).references
          BY <4>1, <4>3 DEF RefOk
        <5>2. row.refs[c] \in 1..Len(rs)
          BY <4>1, <4>3 DEF RefOk
        <5>3. rs[row.refs[c]].table \in TablesAt(l)
          <6>1. PICK ref \in Created(row.table).references :
                  ref = <<c, rs[row.refs[c]].table, rule>>
            BY <5>1 DEF Ref
          <6>2. ref[2] \in TablesAt(l)
            BY <3>2, RefsStay
          <6> QED BY <6>1, <6>2
        <5>4. new[row.refs[c]] = rs[row.refs[c]]
          BY <1>2, <5>2, <5>3
        <5> QED BY <1>3, <4>3, <5>1, <5>2, <5>4 DEF RefOk
      <4> QED BY <4>2, <4>3
    <3>4. NextOk(new, row)
      <4> SUFFICES ASSUME row.next # 0 PROVE NextOk(new, row)
        BY DEF NextOk
      <4>1. /\ row.next \in 1..Len(rs) /\ row.table = "memory_items"
            /\ rs[row.next].table = "memory_items" /\ rs[row.next].refs = row.refs
        BY <3>2 DEF RowOk, NextOk
      <4>2. new[row.next] = rs[row.next]
        BY <1>2, <3>2, <4>1
      <4> QED BY <1>3, <4>1, <4>2 DEF NextOk
    <3>5. row.table = "gone" => row = Gone
      BY <3>2 DEF RowOk
    <3> QED BY <3>2, <3>3, <3>4, <3>5 DEF RowOk
  <2> QED BY <2>1, <2>2
<1> QED BY <1>3, <1>4 DEF Rows

\* A row is added at the end.
LEMMA RowsAppend ==
    ASSUME NEW rs, NEW r \in 0..6, Rows(rs, r), NEW row \in RowRecord,
           row.table \in TablesAt(r), row.table # "gone", row.next = 0,
           \A c \in DOMAIN row.refs : RefOk(rs, row, c)
    PROVE  Rows(Append(rs, row), r)
<1>1. PICK new : new = Append(rs, row)
  OBVIOUS
<1>2. rs \in Seq(RowRecord) /\ Len(rs) \in Nat
  BY LenProperties DEF Rows
<1>3. /\ new \in Seq(RowRecord) /\ Len(new) = Len(rs) + 1
      /\ \A i \in 1..Len(rs) : new[i] = rs[i]
      /\ new[Len(rs) + 1] = row
  BY <1>1, <1>2, AppendProperties
<1>4. ASSUME NEW any, NEW c, RefOk(rs, any, c) PROVE RefOk(new, any, c)
  BY <1>2, <1>3, <1>4 DEF RefOk
<1>5. ASSUME NEW any, NextOk(rs, any) PROVE NextOk(new, any)
  BY <1>2, <1>3, <1>5 DEF NextOk
<1>6. ASSUME NEW i \in 1..Len(new)
      PROVE  new[i].table \in TablesAt(r) \union {"gone"} /\ RowOk(new, new[i])
  <2>1. CASE i \in 1..Len(rs)
    <3>1. new[i] = rs[i] /\ rs[i].table \in TablesAt(r) \union {"gone"} /\ RowOk(rs, rs[i])
      BY <1>3, <2>1 DEF Rows
    <3> QED BY <1>4, <1>5, <3>1 DEF RowOk
  <2>2. CASE i \notin 1..Len(rs)
    <3>1. i = Len(rs) + 1
      BY <1>2, <1>3, <2>2
    <3>2. new[i] = row
      BY <1>3, <3>1
    <3> QED BY <1>4, <3>2 DEF RowOk, NextOk
  <2> QED BY <2>1, <2>2
<1> QED BY <1>1, <1>3, <1>6 DEF Rows

\* What is said of a row holds where every row kept its table and references.
LEMMA SameLooks ==
    ASSUME NEW rs, NEW new, Len(rs) \in Nat, Len(new) \in Nat, Len(rs) <= Len(new),
           \A i \in 1..Len(rs) : new[i].table = rs[i].table /\ new[i].refs = rs[i].refs
    PROVE  /\ \A row, c : RefOk(rs, row, c) => RefOk(new, row, c)
           /\ \A row : NextOk(rs, row) => NextOk(new, row)
<1>1. \A i \in 1..Len(rs) : i \in 1..Len(new)
  OBVIOUS
<1>2. ASSUME NEW row, NEW c, RefOk(rs, row, c) PROVE RefOk(new, row, c)
  BY <1>1, <1>2 DEF RefOk
<1>3. ASSUME NEW row, NextOk(rs, row) PROVE NextOk(new, row)
  BY <1>1, <1>3 DEF NextOk
<1> QED BY <1>2, <1>3

\* A new version follows a memory item.
LEMMA RowsSupersede ==
    ASSUME NEW rs, NEW r \in 0..6, Rows(rs, r), NEW i \in 1..Len(rs),
           rs[i].table = "memory_items"
    PROVE  Rows(Append([rs EXCEPT ![i].next = Len(rs) + 1], [rs[i] EXCEPT !.next = 0]), r)
<1>1. /\ rs \in Seq(RowRecord) /\ Len(rs) \in Nat /\ DOMAIN rs = 1..Len(rs)
      /\ \A j \in 1..Len(rs) : rs[j] \in RowRecord
  BY LenProperties DEF Rows
<1>2. PICK old \in RowRecord : old = rs[i]
  BY <1>1
<1>3. PICK retired : retired = [old EXCEPT !.next = Len(rs) + 1]
  OBVIOUS
<1>4. PICK succ : succ = [old EXCEPT !.next = 0]
  OBVIOUS
<1>5. /\ retired \in RowRecord /\ retired.table = old.table /\ retired.refs = old.refs
      /\ retired.next = Len(rs) + 1
      /\ succ \in RowRecord /\ succ.table = old.table /\ succ.refs = old.refs /\ succ.next = 0
  BY <1>1, <1>2, <1>3, <1>4 DEF RowRecord, Successors
<1>6. PICK mid : mid = [rs EXCEPT ![i] = retired]
  OBVIOUS
<1>7. mid \in Seq(RowRecord) /\ Len(mid) = Len(rs)
  <2>1. mid \in [1..Len(rs) -> RowRecord]
    BY <1>1, <1>5, <1>6
  <2> QED BY <1>1, <2>1, FunctionIsSequence
<1>8. PICK new : new = Append(mid, succ)
  OBVIOUS
<1>9. /\ new \in Seq(RowRecord) /\ Len(new) = Len(rs) + 1 /\ new[Len(rs) + 1] = succ
      /\ \A j \in 1..Len(rs) : new[j] = mid[j]
  BY <1>5, <1>7, <1>8, AppendProperties
<1>10. \A j \in 1..Len(rs) : new[j] = IF j = i THEN retired ELSE rs[j]
  BY <1>1, <1>6, <1>9
<1>11. /\ \A row, c : RefOk(rs, row, c) => RefOk(new, row, c)
       /\ \A row : NextOk(rs, row) => NextOk(new, row)
  <2>1. \A j \in 1..Len(rs) : new[j].table = rs[j].table /\ new[j].refs = rs[j].refs
    BY <1>2, <1>5, <1>10
  <2>2. Len(new) \in Nat /\ Len(rs) <= Len(new)
    BY <1>1, <1>9
  <2> QED BY <1>1, <2>1, <2>2, SameLooks
<1>12. /\ RowOk(rs, old) /\ old.table = "memory_items"
       /\ old.table \in TablesAt(r) \union {"gone"}
  BY <1>2 DEF Rows
<1>13. \A c \in DOMAIN old.refs : RefOk(new, succ, c) /\ RefOk(new, retired, c)
  <2>1. \A c \in DOMAIN old.refs : RefOk(new, old, c)
    BY <1>11, <1>12 DEF RowOk
  <2> QED BY <1>5, <2>1 DEF RefOk
<1>14. RowOk(new, succ)
  BY <1>5, <1>12, <1>13 DEF RowOk, NextOk
<1>15. RowOk(new, retired)
  <2>1. NextOk(new, retired)
    <3>1. Len(rs) + 1 \in 1..Len(new)
      BY <1>1, <1>9
    <3> QED BY <1>5, <1>9, <1>12, <3>1 DEF NextOk
  <2> QED BY <1>5, <1>12, <1>13, <2>1 DEF RowOk
<1>16. ASSUME NEW j \in 1..Len(new)
       PROVE  new[j].table \in TablesAt(r) \union {"gone"} /\ RowOk(new, new[j])
  <2>1. CASE j = Len(rs) + 1
    BY <1>5, <1>9, <1>12, <1>14, <2>1
  <2>2. CASE j = i
    BY <1>5, <1>10, <1>12, <1>15, <2>2
  <2>3. CASE j \in 1..Len(rs) /\ j # i
    <3>1. new[j] = rs[j] /\ rs[j].table \in TablesAt(r) \union {"gone"} /\ RowOk(rs, rs[j])
      BY <1>10, <2>3 DEF Rows
    <3> QED BY <1>11, <3>1 DEF RowOk
  <2>4. j \in 1..Len(rs) \/ j = Len(rs) + 1
    BY <1>1, <1>9
  <2> QED BY <2>1, <2>2, <2>3, <2>4
<1>17. Append([rs EXCEPT ![i].next = Len(rs) + 1], [rs[i] EXCEPT !.next = 0]) = new
  BY <1>2, <1>3, <1>4, <1>6, <1>8
<1> QED BY <1>9, <1>16, <1>17 DEF Rows

-----------------------------------------------------------------------------
(* Deletion                                                                 *)

\* The foreign key of a reference that is set.
LEMMA KeyOf ==
    ASSUME SchemaInv, NEW j \in 1..Len(rows), NEW c \in DOMAIN rows[j].refs, rows[j].refs[c] # 0
    PROVE  LET to == rows[j].refs[c]
               rule == Rule(rows[j].table, c) IN
           /\ to \in 1..Len(rows) /\ rule \in Rules
           /\ rows[j].table \in TablesAt(revision)
           /\ Ref(c, rows[to].table, rule) \in Created(rows[j].table).references
           /\ \/ rows[to].table \in {"organizations", "users"}
              \/ rows[j].table = "memory_receipts" /\ rows[to].table = "memory_items"
           /\ rule = "cascade" => rows[j].table \notin {"organizations", "users"}
           /\ rule = "forget" => c \in Created(rows[j].table).optional
<1> DEFINE to == rows[j].refs[c]
           t == rows[j].table
<1>1. /\ RowOk(rows, rows[j]) /\ t \in TablesAt(revision) \union {"gone"}
      /\ revision \in 0..6 /\ database = Fresh(revision)
  BY DEF SchemaInv, Rows
<1>2. t # "gone"
  BY <1>1, GoneIsRow DEF RowOk
<1>3. t \in TablesAt(revision) /\ t \in TableNames
  BY <1>1, <1>2, FreshTables
<1>4. to \in 1..Len(rows) /\ \E rule \in Rules : Ref(c, rows[to].table, rule) \in Created(t).references
  BY <1>1 DEF RowOk, RefOk
<1>5. PICK rule \in Rules : Ref(c, rows[to].table, rule) \in Created(t).references
  BY <1>4
<1>6. GoodTable(t, Created(t)) /\ database[t].references = Created(t).references
  BY <1>1, <1>3, TablesAreGood, FreshTables
<1>7. PICK ref \in Created(t).references : ref = <<c, rows[to].table, rule>>
  BY <1>5 DEF Ref
<1>8. (CHOOSE x \in database[t].references : x[1] = c) = ref
  BY <1>6, <1>7 DEF GoodTable
<1>10. /\ ref[1] = c /\ ref[2] = rows[to].table /\ ref[3] = rule
  BY <1>7
<1>9. Rule(t, c) = rule
  <2>1. Rule(t, c) = ref[3]
    BY <1>8 DEF Rule
  <2> QED BY <1>10, <2>1
<1>11. /\ \/ rows[to].table \in {"organizations", "users"}
          \/ t = "memory_receipts" /\ rows[to].table = "memory_items"
       /\ rule = "cascade" => t \notin {"organizations", "users"}
       /\ rule = "forget" => c \in Created(t).optional
  BY <1>6, <1>10 DEF GoodTable
<1> QED BY <1>3, <1>4, <1>5, <1>9, <1>11

\* Three rounds of cascades take all there is to take.
LEMMA AllTaken ==
    ASSUME SchemaInv, NEW i \in 1..Len(rows), rows[i].table \in {"organizations", "users"},
           NEW all, all = Taken(Taken(Taken({i})))
    PROVE  /\ all \subseteq 1..Len(rows) /\ i \in all
           /\ \A j \in 1..Len(rows) : PointsInto(j, all, "cascade") => j \in all
           /\ \A j \in all : j = i \/ PointsInto(j, all, "cascade")
<1>1. DOMAIN rows = 1..Len(rows)
  BY LenProperties DEF SchemaInv, Rows
<1>2. PICK one : one = Taken({i})
  OBVIOUS
<1>3. PICK two : two = Taken(one)
  OBVIOUS
<1>4. /\ one = {i} \union {j \in 1..Len(rows) : PointsInto(j, {i}, "cascade")}
      /\ two = one \union {j \in 1..Len(rows) : PointsInto(j, one, "cascade")}
      /\ all = two \union {j \in 1..Len(rows) : PointsInto(j, two, "cascade")}
  BY <1>1, <1>2, <1>3 DEF Taken
<1>5. \A j, S, T : PointsInto(j, S, "cascade") /\ S \subseteq T => PointsInto(j, T, "cascade")
  BY DEF PointsInto
<1>6. ASSUME NEW j \in 1..Len(rows), NEW S \in SUBSET (1..Len(rows)), PointsInto(j, S, "cascade")
      PROVE  /\ rows[j].table \notin {"organizations", "users"}
             /\ \E k \in S : /\ PointsInto(j, {k}, "cascade")
                             /\ \/ rows[k].table \in {"organizations", "users"}
                                \/ rows[j].table = "memory_receipts" /\ rows[k].table = "memory_items"
  <2>1. PICK c \in DOMAIN rows[j].refs :
          rows[j].refs[c] \in S /\ Rule(rows[j].table, c) = "cascade"
    BY <1>6 DEF PointsInto
  <2>2. rows[j].refs[c] # 0
    BY <2>1
  <2>3. PointsInto(j, {rows[j].refs[c]}, "cascade")
    BY <2>1 DEF PointsInto
  <2> QED BY <2>1, <2>2, <2>3, KeyOf
<1>7. one \subseteq 1..Len(rows) /\ two \subseteq 1..Len(rows) /\ all \subseteq 1..Len(rows)
      /\ {i} \subseteq one /\ one \subseteq two /\ two \subseteq all /\ {i} \in SUBSET (1..Len(rows))
  BY <1>4
<1>8. \A k \in two : rows[k].table \in {"organizations", "users"} => k = i
  BY <1>4, <1>6, <1>7
<1>9. \A k \in two : rows[k].table = "memory_items" => k \in one
  <2> SUFFICES ASSUME NEW k \in two, rows[k].table = "memory_items", k \notin one
               PROVE  FALSE
    OBVIOUS
  <2>1. PointsInto(k, one, "cascade") /\ k \in 1..Len(rows)
    BY <1>4
  <2>2. PICK m \in one : /\ PointsInto(k, {m}, "cascade")
                         /\ rows[m].table \in {"organizations", "users"}
    BY <1>6, <1>7, <2>1
  <2>3. m = i
    BY <1>7, <1>8, <2>2
  <2> QED BY <1>4, <2>1, <2>2, <2>3
<1>10. ASSUME NEW j \in 1..Len(rows), PointsInto(j, two, "cascade") PROVE j \in two
  <2>1. PICK k \in two : /\ PointsInto(j, {k}, "cascade")
                         /\ rows[k].table \in {"organizations", "users", "memory_items"}
    <3>1. two \in SUBSET (1..Len(rows))
      BY <1>7
    <3>2. \E k \in two : /\ PointsInto(j, {k}, "cascade")
                         /\ \/ rows[k].table \in {"organizations", "users"}
                            \/ rows[j].table = "memory_receipts" /\ rows[k].table = "memory_items"
      BY <1>6, <1>10, <3>1, Zenon
    <3> QED BY <3>2
  <2>2. k \in one
    BY <1>7, <1>8, <1>9, <2>1
  <2>3. PointsInto(j, one, "cascade")
    BY <1>5, <2>1, <2>2
  <2> QED BY <1>4, <2>3
<1>11. all = two
  BY <1>4, <1>10
<1>12. ASSUME NEW j \in two, j # i PROVE PointsInto(j, two, "cascade")
  <2>1. PointsInto(j, {i}, "cascade") \/ PointsInto(j, one, "cascade")
    BY <1>4, <1>12
  <2> QED BY <1>5, <1>7, <2>1
<1> QED BY <1>7, <1>10, <1>11, <1>12

\* Deleting an organisation or a user leaves no reference to what went.
LEMMA RowsDelete ==
    ASSUME SchemaInv, NEW i \in 1..Len(rows), DeleteRow(i)
    PROVE  Rows(rows', revision)
<1>1. /\ rows \in Seq(RowRecord) /\ Len(rows) \in Nat /\ DOMAIN rows = 1..Len(rows)
      /\ \A j \in 1..Len(rows) : rows[j] \in RowRecord
      /\ rows[i].table \in {"organizations", "users"}
  BY LenProperties DEF SchemaInv, Rows, DeleteRow
<1>2. PICK all : all = Taken(Taken(Taken({i})))
  OBVIOUS
<1>3. /\ all \subseteq 1..Len(rows) /\ i \in all
      /\ \A j \in 1..Len(rows) : PointsInto(j, all, "cascade") => j \in all
      /\ \A j \in all : j = i \/ PointsInto(j, all, "cascade")
  BY <1>1, <1>2, AllTaken
<1> DEFINE wiped(j) == [c \in DOMAIN rows[j].refs |->
                          IF rows[j].refs[c] \in all THEN 0 ELSE rows[j].refs[c]]
<1>4. PICK new : new = rows'
  OBVIOUS
<1>5. /\ \A j \in 1..Len(rows) \ all : ~PointsInto(j, all, "refuse")
      /\ new = [j \in 1..Len(rows) |->
                  IF j \in all THEN Gone ELSE [rows[j] EXCEPT !.refs = wiped(j)]]
  BY <1>1, <1>2, <1>4 DEF DeleteRow
<1>6. ASSUME NEW j \in 1..Len(rows), j \notin all
      PROVE  /\ new[j] \in RowRecord /\ new[j].table = rows[j].table
             /\ new[j].refs = wiped(j) /\ new[j].next = rows[j].next
  <2>1. PICK row \in RowRecord : row = rows[j]
    BY <1>1
  <2>2. PICK S \in SUBSET ColumnNames : row.refs \in [S -> Nat]
    BY DEF RowRecord, RefMaps
  <2>3. PICK refs : refs = wiped(j)
    OBVIOUS
  <2>4. refs \in [S -> Nat]
    BY <2>1, <2>2, <2>3
  <2>5. refs \in RefMaps
    BY <2>4 DEF RefMaps
  <2>6. new[j] = [row EXCEPT !.refs = refs]
    BY <1>5, <1>6, <2>1, <2>3
  <2>7. /\ new[j] \in RowRecord /\ new[j].table = row.table
        /\ new[j].refs = refs /\ new[j].next = row.next
    BY <2>5, <2>6 DEF RowRecord
  <2> QED BY <2>1, <2>3, <2>7
<1>7. \A j \in all : new[j] = Gone
  BY <1>3, <1>5
<1>8. new \in Seq(RowRecord) /\ Len(new) = Len(rows)
  <2>1. \A j \in 1..Len(rows) : new[j] \in RowRecord
    BY <1>6, <1>7, GoneIsRow
  <2>2. new \in [1..Len(rows) -> RowRecord]
    BY <1>5, <2>1
  <2> QED BY <1>1, <2>2, FunctionIsSequence
<1>9. ASSUME NEW j \in 1..Len(rows), j \notin all, NEW c \in DOMAIN rows[j].refs
      PROVE  RefOk(new, new[j], c)
  <2>1. RowOk(rows, rows[j])
    BY DEF SchemaInv, Rows
  <2>2. RefOk(rows, rows[j], c)
    BY <2>1 DEF RowOk
  <2>3. new[j].table = rows[j].table /\ new[j].refs[c] =
          IF rows[j].refs[c] \in all THEN 0 ELSE rows[j].refs[c]
    BY <1>6, <1>9
  <2>4. CASE rows[j].refs[c] = 0
    <3>1. new[j].refs[c] = 0
      BY <2>3, <2>4
    <3> QED BY <2>2, <2>3, <2>4, <3>1 DEF RefOk
  <2>5. CASE rows[j].refs[c] # 0 /\ rows[j].refs[c] \in all
    <3>1. PICK rule : rule = Rule(rows[j].table, c)
      OBVIOUS
    <3>2. PointsInto(j, all, rule)
      BY <2>5, <3>1 DEF PointsInto
    <3>3. rule \in Rules /\ (rule = "forget" => c \in Created(rows[j].table).optional)
      BY <2>5, <3>1, KeyOf
    <3>4. rule # "cascade" /\ rule # "refuse"
      BY <1>3, <1>5, <1>9, <3>2
    <3>5. c \in Created(rows[j].table).optional
      BY <3>3, <3>4 DEF Rules
    <3> QED BY <2>3, <2>5, <3>5 DEF RefOk
  <2>6. CASE rows[j].refs[c] # 0 /\ rows[j].refs[c] \notin all
    <3>1. PICK k : k = rows[j].refs[c]
      OBVIOUS
    <3>2. k \in 1..Len(rows) /\ k # 0 /\ k \notin all /\ new[j].refs[c] = k
          /\ \E rule \in Rules : Ref(c, rows[k].table, rule) \in Created(rows[j].table).references
      BY <2>2, <2>3, <2>6, <3>1 DEF RefOk
    <3>3. new[k].table = rows[k].table
      BY <1>6, <3>2
    <3> QED BY <1>8, <2>3, <3>2, <3>3 DEF RefOk
  <2> QED BY <2>4, <2>5, <2>6
<1>10. ASSUME NEW j \in 1..Len(rows), j \notin all
       PROVE  NextOk(new, new[j])
  <2> SUFFICES ASSUME new[j].next # 0 PROVE NextOk(new, new[j])
    BY DEF NextOk
  <2>1. PICK n : n = rows[j].next
    OBVIOUS
  <2>2. RowOk(rows, rows[j]) /\ n # 0 /\ new[j].next = n
    BY <1>6, <1>10, <2>1 DEF SchemaInv, Rows
  <2>3. /\ n \in 1..Len(rows) /\ rows[j].table = "memory_items"
        /\ rows[n].table = "memory_items" /\ rows[n].refs = rows[j].refs
    BY <2>1, <2>2 DEF RowOk, NextOk
  <2>4. n \notin all
    <3> SUFFICES ASSUME n \in all PROVE FALSE
      OBVIOUS
    <3>1. PointsInto(n, all, "cascade")
      BY <1>1, <1>3, <2>3
    <3>2. PointsInto(j, all, "cascade")
      BY <2>3, <3>1 DEF PointsInto
    <3> QED BY <1>3, <1>10, <3>2
  <2>5. new[n].table = "memory_items" /\ new[n].refs = wiped(n)
    BY <1>6, <2>3, <2>4
  <2>6. new[j].refs = wiped(j) /\ new[j].table = "memory_items" /\ wiped(n) = wiped(j)
    BY <1>6, <1>10, <2>3
  <2> QED BY <1>8, <2>2, <2>3, <2>5, <2>6 DEF NextOk
<1>11. ASSUME NEW j \in 1..Len(rows)
       PROVE  new[j].table \in TablesAt(revision) \union {"gone"} /\ RowOk(new, new[j])
  <2>1. CASE j \in all
    BY <1>7, <2>1, GoneIsRow
  <2>2. CASE j \notin all
    <3>1. rows[j].table \in TablesAt(revision) \union {"gone"} /\ RowOk(rows, rows[j])
      BY DEF SchemaInv, Rows
    <3>2. new[j].table = rows[j].table /\ DOMAIN new[j].refs = DOMAIN rows[j].refs
      BY <1>6, <2>2
    <3>3. new[j].table = "gone" => new[j] = Gone
      <4> SUFFICES ASSUME new[j].table = "gone" PROVE new[j] = Gone
        OBVIOUS
      <4>1. PICK row \in RowRecord : row = rows[j]
        BY <1>1
      <4>2. row = Gone /\ DOMAIN row.refs = {}
        BY <3>1, <3>2, <4>1, GoneIsRow DEF RowOk
      <4>3. wiped(j) = row.refs
        BY <4>1, <4>2 DEF Gone
      <4>4. PICK kept \in RowRecord : kept = new[j]
        BY <1>6, <2>2
      <4>5. kept.table = row.table /\ kept.refs = row.refs /\ kept.next = row.next
        BY <1>6, <2>2, <4>1, <4>3, <4>4
      <4>6. kept = row
        BY <4>5 DEF RowRecord
      <4> QED BY <4>2, <4>4, <4>6
    <3>4. \A c \in DOMAIN new[j].refs : RefOk(new, new[j], c)
      BY <1>9, <2>2, <3>2
    <3> QED BY <1>10, <2>2, <3>1, <3>2, <3>3, <3>4 DEF RowOk
  <2> QED BY <2>1, <2>2
<1>12. Rows(new, revision)
  BY <1>8, <1>11 DEF Rows
<1> QED BY <1>4, <1>12

-----------------------------------------------------------------------------
(* Every step of the schema                                                 *)

LEMMA SchemaStep == SchemaInv /\ [SchemaNext]_schemaVars => SchemaInv'
<1> SUFFICES ASSUME SchemaInv, [SchemaNext]_schemaVars PROVE SchemaInv'
  OBVIOUS
<1>1. /\ revision \in 0..6 /\ database = Fresh(revision) /\ Rows(rows, revision)
      /\ DOMAIN database = TablesAt(revision)
      /\ Len(rows) \in Nat /\ DOMAIN rows = 1..Len(rows)
  BY FreshParts, LenProperties DEF SchemaInv, Rows
<1>2. ASSUME NEW l \in 0..6, MoveTo(l, Fresh(l)) PROVE SchemaInv'
  <2>1. DOMAIN Fresh(l) = TablesAt(l)
    BY FreshParts
  <2>2. /\ revision' = l /\ database' = Fresh(l)
        /\ rows' = [i \in DOMAIN rows |-> IF rows[i].table \in TablesAt(l) THEN rows[i] ELSE Gone]
    BY <1>2, <2>1 DEF MoveTo
  <2>3. PICK new : new = rows'
    OBVIOUS
  <2>4. new = [i \in DOMAIN rows |-> IF rows[i].table \in TablesAt(l) THEN rows[i] ELSE Gone]
    BY <2>2, <2>3
  <2>5. Rows(new, l)
    BY <1>1, <2>4, RowsMove
  <2> QED BY <2>2, <2>3, <2>5 DEF SchemaInv
<1>3. CASE Upgrade
  <2>1. revision \in 0..5 /\ revision + 1 \in 0..6 /\ MoveTo(revision + 1, Up(revision + 1, database))
    BY <1>1, <1>3, CreatesAre DEF Upgrade
  <2>2. PICK r \in 0..5 : r = revision
    BY <2>1
  <2>3. Up(r + 1, database) = Fresh(r + 1)
    BY <1>1, <2>2, UpIsFresh
  <2> QED BY <1>2, <2>1, <2>2, <2>3
<1>4. CASE Downgrade
  <2>1. revision \in 1..6 /\ revision - 1 \in 0..6 /\ MoveTo(revision - 1, Down(revision, database))
    BY <1>1, <1>4 DEF Downgrade
  <2>2. PICK r \in 1..6 : r = revision
    BY <2>1
  <2>3. Down(r, database) = Fresh(r - 1)
    BY <1>1, <2>2, DownIsFresh
  <2> QED BY <1>2, <2>1, <2>2, <2>3
<1>5. ASSUME NEW t \in RowTables, Insert(t) PROVE SchemaInv'
  <2>1. /\ t \in TablesAt(revision) /\ UNCHANGED <<revision, database>>
    BY <1>1, <1>5 DEF Insert
  <2>2. PICK refs \in [Columns(t) -> 0..MaxRows] :
          /\ \A c \in Columns(t) : refs[c] \in Allowed(t, c)
          /\ rows' = Append(rows, [table |-> t, refs |-> refs, next |-> 0])
    BY <1>5 DEF Insert
  <2>3. PICK row : row = [table |-> t, refs |-> refs, next |-> 0]
    OBVIOUS
  <2>4. /\ t \in TableNames /\ t # "gone" /\ database[t].references = Created(t).references
        /\ database[t].optional = Created(t).optional \/ t = "users"
    BY <1>1, <2>1, FreshTables DEF TableNames
  <2>5. Columns(t) = {ref[1] : ref \in Created(t).references} /\ Columns(t) \subseteq ColumnNames
    BY <2>4 DEF Columns, ColumnNames
  <2>6. ASSUME NEW c \in Columns(t)
        PROVE  refs[c] \in Nat /\ RefOk(rows, row, c)
    <3>0. row.refs[c] = refs[c] /\ row.table = t
      BY <2>3
    <3>1. PICK origin \in Created(t).references : origin[1] = c
      BY <2>5, <2>6
    <3>2. GoodTable(t, Created(t))
      BY <2>4, TablesAreGood
    <3>3. CASE c \in database[t].optional /\ refs[c] = 0
      <4>1. t # "users"
        <5> SUFFICES ASSUME t = "users" PROVE FALSE
          OBVIOUS
        <5>1. Created("users").references = {}
          BY CreatedIs DEF UsersTable, Table
        <5> QED BY <3>1, <5>1
      <4> QED BY <2>4, <3>0, <3>3, <4>1 DEF RefOk
    <3>4. CASE ~(c \in database[t].optional /\ refs[c] = 0)
      <4>1. refs[c] \in Allowed(t, c)
        BY <2>2, <2>6
      <4>2. PICK ref \in database[t].references : ref[1] = c /\ refs[c] \in In(ref[2])
        BY <3>4, <4>1 DEF Allowed
      <4>3. refs[c] \in 1..Len(rows) /\ rows[refs[c]].table = ref[2]
        BY <1>1, <4>2 DEF In
      <4>4. ref = <<c, ref[2], ref[3]>> /\ ref[3] \in Rules /\ ref \in Created(t).references
        BY <2>4, <3>2, <4>2 DEF GoodTable, Rules
      <4>5. Ref(c, rows[refs[c]].table, ref[3]) \in Created(t).references
        BY <4>3, <4>4 DEF Ref
      <4>6. refs[c] # 0 /\ refs[c] \in Nat
        BY <1>1, <4>3
      <4> QED BY <3>0, <4>3, <4>4, <4>5, <4>6 DEF RefOk
    <3> QED BY <3>3, <3>4
  <2>7. refs \in [Columns(t) -> Nat]
    BY <2>2, <2>6
  <2>8. /\ row \in RowRecord /\ row.table = t /\ row.next = 0 /\ DOMAIN row.refs = Columns(t)
    <3>1. refs \in RefMaps
      BY <2>5, <2>7 DEF RefMaps
    <3>2. t \in RowTableNames /\ 0 \in Successors
      BY <2>4 DEF RowTableNames, Successors
    <3> QED BY <2>3, <2>7, <3>1, <3>2 DEF RowRecord
  <2>9. Rows(Append(rows, row), revision)
    BY <1>1, <2>1, <2>4, <2>6, <2>8, RowsAppend
  <2>10. rows' = Append(rows, row)
    BY <2>2, <2>3
  <2> QED BY <1>1, <2>1, <2>9, <2>10 DEF SchemaInv
<1>6. ASSUME NEW i \in DOMAIN rows, Supersede(i) PROVE SchemaInv'
  <2>1. /\ rows[i].table = "memory_items" /\ UNCHANGED <<revision, database>>
        /\ rows' = Append([rows EXCEPT ![i].next = Len(rows) + 1], [rows[i] EXCEPT !.next = 0])
    BY <1>6 DEF Supersede
  <2>2. Rows(Append([rows EXCEPT ![i].next = Len(rows) + 1], [rows[i] EXCEPT !.next = 0]), revision)
    BY <1>1, <2>1, RowsSupersede
  <2>3. PICK new : new = rows'
    OBVIOUS
  <2>4. Rows(new, revision)
    BY <2>1, <2>2, <2>3
  <2> QED BY <1>1, <2>1, <2>3, <2>4 DEF SchemaInv
<1>7. ASSUME NEW i \in DOMAIN rows, DeleteRow(i) PROVE SchemaInv'
  <2>1. UNCHANGED <<revision, database>>
    BY <1>7 DEF DeleteRow
  <2>2. Rows(rows', revision)
    BY <1>1, <1>7, RowsDelete
  <2> QED BY <1>1, <2>1, <2>2 DEF SchemaInv
<1>8. CASE UNCHANGED schemaVars
  BY <1>1, <1>8 DEF schemaVars, SchemaInv
<1> QED BY <1>3, <1>4, <1>5, <1>6, <1>7, <1>8 DEF SchemaNext

\* What the invariant says of the tables and of the rows.
LEMMA SchemaMeaning == SchemaInv => SchemaAsDeclared /\ RowsConnected
<1> SUFFICES ASSUME SchemaInv PROVE SchemaAsDeclared /\ RowsConnected
  OBVIOUS
<1>1. /\ revision \in 0..6 /\ database = Fresh(revision) /\ Rows(rows, revision)
      /\ DOMAIN rows = 1..Len(rows)
  BY LenProperties DEF SchemaInv, Rows
<1>2. ASSUME NEW i \in DOMAIN rows, NEW c \in DOMAIN rows[i].refs
      PROVE  IF rows[i].refs[c] = 0 THEN c \in database[rows[i].table].optional
             ELSE LET to == rows[rows[i].refs[c]].table IN
                  \E rule \in {"cascade", "forget", "refuse"} :
                      Ref(c, to, rule) \in database[rows[i].table].references
  <2>1. RowOk(rows, rows[i]) /\ rows[i].table \in TablesAt(revision) \union {"gone"}
    BY <1>1 DEF Rows
  <2>2. rows[i].table # "gone"
    BY <1>2, <2>1, GoneIsRow DEF RowOk
  <2>3. /\ Created(rows[i].table).optional \subseteq database[rows[i].table].optional
        /\ database[rows[i].table].references = Created(rows[i].table).references
    BY <1>1, <2>1, <2>2, FreshTables
  <2>4. RefOk(rows, rows[i], c)
    BY <1>2, <2>1 DEF RowOk
  <2> QED BY <2>3, <2>4 DEF RefOk, Rules
<1>3. ASSUME NEW i \in DOMAIN rows, rows[i].next # 0
      PROVE  /\ rows[rows[i].next].table = "memory_items"
             /\ rows[rows[i].next].refs = rows[i].refs
  BY <1>1, <1>3 DEF Rows, RowOk, NextOk
<1>4. RowsConnected
  BY <1>2, <1>3 DEF RowsConnected
<1> QED BY <1>1, <1>4, FreshIsDeclared

\* However migrations went up and down and rows were inserted, superseded and
\* deleted, the database is the fresh one of its revision, at the last one the
\* models find their tables, and no row refers to one that is gone (migrations
\* 001 to 006, infra/models.py); a bootstrap, however often it is cut and begun
\* again, gives vectors only to nodes whose relationships are all made, adds
\* nothing to data that is partly there and copies no node, unless the constraint
\* of a label is missing; and a service that serves has what it needs.
THEOREM SchemaKept == Spec => []SchemaHolds
<1> DEFINE WholeInv == /\ part = "schema" => SchemaInv
                       /\ part = "seeding" => SeedInv
                       /\ part = "service" => ServiceInv
<1>1. Init => WholeInv
  BY SchemaStart, SeedStart, ServiceStart DEF Init
<1>2. WholeInv /\ [Next]_serviceVars => WholeInv'
  BY PartMoves, SchemaStep, SeedStep, ServiceStep
<1>3. WholeInv => SchemaHolds
  BY SchemaMeaning, SeedMeaning, ServiceMeaning DEF SchemaHolds, Of
<1> QED BY <1>1, <1>2, <1>3, PTL DEF Spec

-----------------------------------------------------------------------------
(* The types of every service                                                *)

\* A row's version is at most its number, which its predecessors have smaller.
RowsFit == /\ Len(items) <= MaxItems
           /\ \A id \in Ids : items[id].version >= 1 /\ items[id].version <= id

LEMMA RowsFitStart == ItemsInit => RowsFit
BY ItemsAssumption DEF ItemsInit, RowsFit, Ids

LEMMA RowsFitStep == ReadsInv /\ RowsFit /\ [ItemsNext]_itemVars => RowsFit'
<1> SUFFICES ASSUME ReadsInv, RowsFit, [ItemsNext]_itemVars PROVE RowsFit'
  OBVIOUS
<1>0. items \in Seq(ItemRows) /\ Len(items) \in Nat /\ Ids = 1..Len(items) /\ NewId = Len(items) + 1
      /\ RowsOk
  BY DEF ReadsInv, RowsOk, Ids, NewId
<1>1. ASSUME MayInsert, NEW o \in Owners, InsertFirst(o) PROVE RowsFit'
  <2>1. /\ Ids' = Ids \union {NewId} /\ \A id \in Ids : items'[id] = items[id]
        /\ items'[NewId] = Row(o, 1)
    BY <1>0, <1>1, RowAdded
  <2>2. Len(items') = Len(items) + 1
    BY <1>0, <1>1 DEF InsertFirst
  <2> QED BY <1>0, <1>1, <2>1, <2>2, ItemsAssumption DEF RowsFit, MayInsert, Row
<1>2. ASSUME MayInsert, NEW id \in Ids, Succeed(id, items[id].version) PROVE RowsFit'
  <2>1. /\ Grows /\ Ids' = Ids \union {NewId}
        /\ items'[NewId] = Row(items[id].owner, items[id].version + 1)
    BY <1>0, <1>2, RowSucceeded
  <2>2. Len(items') = Len(items) + 1
    BY <1>0, <1>2 DEF Succeed
  <2>3. items[id].version \in Nat /\ items[id].version >= 1 /\ items[id].version <= id
    <3>1. items[id] \in ItemRows
      BY <1>0, ElementOfSeq
    <3> QED BY <3>1 DEF RowsFit, ItemRows
  <2>4. items'[NewId].version = items[id].version + 1
    BY <2>1 DEF Row
  <2>5. ASSUME NEW i \in Ids' PROVE items'[i].version >= 1 /\ items'[i].version <= i
    <3>1. CASE i = NewId
      BY <1>0, <1>2, <2>3, <2>4, <3>1
    <3>2. CASE i # NewId
      BY <2>1, <2>5, <3>2 DEF Grows, RowsFit
    <3> QED BY <3>1, <3>2
  <2> QED BY <1>0, <1>2, <2>2, <2>5, ItemsAssumption DEF RowsFit, MayInsert
<1>3. CASE UNCHANGED items
  BY <1>3 DEF RowsFit, Ids
<1>4. CASE AddItem \/ \E w \in Workers : WriteObservation(w) \/ ObservationFails(w)
  BY <1>1, <1>4 DEF AddItem, WriteObservation, ObservationFails
<1>5. CASE \E id \in Ids : UpdateInMemory(id)
  BY <1>2, <1>5 DEF UpdateInMemory
<1>6. ASSUME NEW w \in Workers, CommitUpdate(w) PROVE RowsFit'
  <2>1. request[w].id \in Ids /\ request[w].version = items[request[w].id].version
    BY <1>6 DEF ReadsInv, RequestsOk, RequestOk, CommitUpdate
  <2> QED BY <1>2, <1>6, <2>1 DEF CommitUpdate
<1> QED BY <1>3, <1>4, <1>5, <1>6
    DEF ItemsNext, ReadForUpdate, RecordInjection, InjectionFails, SearchByEmbedding,
        SearchByKeywordAndFetch, KeywordRetrieval, HybridFails, Answer, itemVars

\* Rows are numbered, and number their successors, within the bound.
LEMMA ItemsTyped == ReadsInv /\ RowsFit => ItemsTypeOK
<1> SUFFICES ASSUME ReadsInv, RowsFit PROVE ItemsTypeOK
  OBVIOUS
<1> DEFINE Fitting == [owner : Owners, version : 1..MaxItems, next : 0..MaxItems]
<1>0. items \in Seq(ItemRows) /\ Len(items) \in Nat /\ Ids = 1..Len(items)
      /\ Len(items) <= MaxItems /\ MaxItems \in Nat
  BY ItemsAssumption DEF ReadsInv, RowsOk, Ids, RowsFit
<1>1. ASSUME NEW i \in 1..Len(items) PROVE items[i] \in Fitting
  <2>1. items[i] \in ItemRows
    BY <1>0, ElementOfSeq
  <2>2. items[i].version \in 1..MaxItems
    BY <1>0, <1>1, <2>1 DEF RowsFit, ItemRows
  <2>3. items[i].next \in 0..MaxItems
    BY <1>0, <1>1, <2>1 DEF ReadsInv, RowsOk, ItemRows
  <2> QED BY <2>1, <2>2, <2>3 DEF ItemRows
<1> HIDE DEF Fitting
<1>2. items \in Seq(Fitting)
  <2>1. items = [i \in 1..Len(items) |-> items[i]]
    BY <1>0
  <2> QED BY <1>0, <1>1, <2>1
<1>3. receipts \subseteq Ids /\ reports \in [created : SUBSET Ids, error : SUBSET Ids]
  BY DEF ReadsInv, ReceiptsOk
<1>4. ASSUME NEW w \in Workers
      PROVE  request[w].op \in {"idle", "update", "receipt", "keyword", "answer"}
  <2>1. request[w] \in AnyRequest
    BY DEF ReadsInv, RequestsOk
  <2> QED BY <2>1 DEF AnyRequest, Idle, Queries
<1> QED BY <1>2, <1>3, <1>4 DEF ItemsTypeOK, Fitting

LEMMA SchemaTyped == SchemaInv => SchemaTypeOK
<1> SUFFICES ASSUME SchemaInv PROVE SchemaTypeOK
  OBVIOUS
<1>1. LastRevision = 6
  BY CreatesAre DEF LastRevision
<1>2. DOMAIN database = TablesAt(revision)
  BY DEF SchemaInv, Fresh, TablesAt
<1>3. /\ rows \in Seq(RowRecord)
      /\ \A i \in 1..Len(rows) : rows[i].table \in TablesAt(revision) \union {"gone"}
  BY DEF SchemaInv, Rows
<1> QED BY <1>1, <1>2, <1>3 DEF SchemaInv, SchemaTypeOK

\* A task fails and is sent again as often as it may be.
TaskType == [status : {"success", "failure"}, retries : 0..MaxRetries]
DeferredTypes == DeletionType /\ OutboxType /\ tasks \in Seq(TaskType)

LEMMA TasksStep == tasks \in Seq(TaskType) /\ TasksNext => (tasks \in Seq(TaskType))'
<1> SUFFICES ASSUME tasks \in Seq(TaskType), TasksNext PROVE tasks' \in Seq(TaskType)
  OBVIOUS
<1>1. ASSUME NEW n \in 0..MaxRetries, Send(n) PROVE tasks' \in Seq(TaskType)
  <2>1. PICK outcome \in {"success", "failure"} :
          tasks' = Append(tasks, [status |-> outcome, retries |-> n])
    BY <1>1 DEF Send
  <2>2. [status |-> outcome, retries |-> n] \in TaskType
    BY DEF TaskType
  <2> QED BY <2>1, <2>2
<1>2. CASE Submit
  BY <1>1, <1>2, DeferredAssumption DEF Submit
<1>3. ASSUME NEW t \in DOMAIN tasks, RetryTask(t) PROVE tasks' \in Seq(TaskType)
  <2>1. tasks[t] \in TaskType
    OBVIOUS
  <2>2. tasks[t].retries + 1 \in 0..MaxRetries
    BY <1>3, <2>1, DeferredAssumption DEF RetryTask, MayRetry, TaskType
  <2> QED BY <1>1, <1>3, <2>2 DEF RetryTask
<1> QED BY <1>2, <1>3 DEF TasksNext

\* What one of the three services put off leaves alone keeps its type.
LEMMA DeferredTyped ==
    /\ Init => DeferredTypes /\ DeletionInv /\ OutboxInv
    /\ DeferredTypes /\ DeletionInv /\ [DeletionNext]_deferredVars => DeferredTypes'
    /\ DeferredTypes /\ OutboxInv /\ [OutboxNext]_deferredVars => DeferredTypes'
    /\ DeferredTypes /\ [TasksNext]_deferredVars => DeferredTypes'
    /\ DeferredTypes => DeferredTypeOK
<1>1. Init => DeferredTypes /\ DeletionInv /\ OutboxInv
  BY DeletionStart, OutboxStart DEF Init, TasksInit, DeferredTypes, DeletionInv, OutboxInv
<1>2. DeferredTypes /\ DeletionInv /\ [DeletionNext]_deferredVars => DeferredTypes'
  <2>1. [DeletionNext]_deferredVars => UNCHANGED <<outbox, poller, tasks>>
    BY DEF DeletionNext, Day, Transition, deferredVars
  <2> QED BY <2>1, DeletionStep DEF DeferredTypes, DeletionInv, OutboxType
<1>3. DeferredTypes /\ OutboxInv /\ [OutboxNext]_deferredVars => DeferredTypes'
  <2>1. [OutboxNext]_deferredVars => UNCHANGED <<deletion, tasks>>
    BY DEF OutboxNext, AppendEvent, GetPending, MarkProcessing, MarkDelivered, MarkFailed,
           PollerStops, deferredVars
  <2> QED BY <2>1, OutboxStep DEF DeferredTypes, OutboxInv, DeletionType
<1>4. DeferredTypes /\ [TasksNext]_deferredVars => DeferredTypes'
  <2>1. [TasksNext]_deferredVars => UNCHANGED <<deletion, outbox, poller>>
    BY DEF TasksNext, Submit, RetryTask, deferredVars
  <2>2. UNCHANGED deferredVars => UNCHANGED tasks
    BY DEF deferredVars
  <2> QED BY <2>1, <2>2, TasksStep DEF DeferredTypes, DeletionType, OutboxType
<1>5. DeferredTypes => DeferredTypeOK
  <2> SUFFICES ASSUME DeferredTypes PROVE DeferredTypeOK
    OBVIOUS
  <2>1. deletion.state \in DeletionStates /\ deletion.age \in 0..NoTombstone
    BY DEF DeferredTypes, DeletionType
  <2>2. outbox \in Seq(EventType) /\ \A p \in Pollers : poller[p].seen \subseteq Events
    BY DEF DeferredTypes, OutboxType, Events
  <2> QED BY <2>1, <2>2 DEF DeferredTypes, DeferredTypeOK, EventType, TaskType
<1> QED BY <1>1, <1>2, <1>3, <1>4, <1>5

LEMMA SkillsTyped == SkillsInv => SkillsTypeOK
BY DEF SkillsInv, SkillsType, SkillsTypeOK

LEMMA AccountsTyped == AccountsInv => AccountsTypeOK
BY DEF AccountsInv, AccountsType, AccountsTypeOK, AuthType, AuthPlaces, AuthAnswers

\* The clock and the counters stay within their bounds.
LimitsTypes ==
    /\ clock \in 0..MaxClock
    /\ \A e \in window : e[1] \in 0..MaxClock
    /\ budget.status \in {"active", "exhausted"}
    /\ inFlight \in [Requests -> {"idle", "checked", "refused"}]
    /\ record.count \in 0..MaxNegative

LEMMA LimitsStart == RateInit /\ BudgetInit /\ FuseInit => LimitsTypes
<1> SUFFICES ASSUME RateInit, BudgetInit, FuseInit PROVE LimitsTypes
  OBVIOUS
<1>1. clock \in 0..MaxClock /\ window = {}
  BY LimitsAssumption DEF RateInit
<1> QED BY <1>1, LimitsAssumption DEF BudgetInit, FuseInit, LimitsTypes

LEMMA LimitsTyped ==
    /\ LimitsTypes /\ RateInv /\ [RateNext]_limitVars => LimitsTypes'
    /\ LimitsTypes /\ BudgetInv /\ [BudgetNext]_limitVars => LimitsTypes'
    /\ LimitsTypes /\ [FuseNext]_limitVars => LimitsTypes'
    /\ LimitsTypes => LimitsTypeOK
<1>1. ASSUME LimitsTypes, RateInv, [RateNext]_limitVars PROVE LimitsTypes'
  <2>1. UNCHANGED <<budgetVars, record>> /\ clock' \in 0..MaxClock
    <3>1. CASE Tick
      BY <1>1, <3>1, LimitsAssumption DEF Tick, RateNext, limitVars, LimitsTypes
    <3>2. CASE Admit \/ Throttle \/ UNCHANGED limitVars
      BY <1>1, <3>2 DEF Admit, Throttle, limitVars, rateVars, RateNext, LimitsTypes, Tick
    <3> QED BY <1>1, <3>1, <3>2 DEF RateNext
  <2>2. RateInv'
    BY <1>1, RateStep
  <2>3. \A e \in window' : e[1] \in 0..MaxClock
    BY <2>1, <2>2, LimitsAssumption DEF RateInv, RateType
  <2> QED BY <1>1, <2>1, <2>3 DEF LimitsTypes, budgetVars
<1>2. ASSUME LimitsTypes, BudgetInv, [BudgetNext]_limitVars PROVE LimitsTypes'
  <2>1. BudgetInv'
    BY <1>2, BudgetStep
  <2>2. UNCHANGED <<rateVars, record>> /\ inFlight' \in [Requests -> {"idle", "checked", "refused"}]
    BY <1>2 DEF BudgetNext, PreCheck, Deduct, Leave, limitVars, budgetVars, LimitsTypes
  <2> QED BY <1>2, <2>1, <2>2 DEF LimitsTypes, BudgetInv, rateVars
<1>3. ASSUME LimitsTypes, [FuseNext]_limitVars PROVE LimitsTypes'
  <2>1. UNCHANGED <<rateVars, budgetVars>>
    BY <1>3 DEF FuseNext, RecordNegative, ResetFeedback, limitVars
  <2>2. record'.count \in 0..MaxNegative
    <3>1. CASE RecordNegative
      <4>1. record'.count = record.count + 1
        BY <3>1 DEF RecordNegative
      <4> QED BY <1>3, <3>1, <4>1, LimitsAssumption DEF RecordNegative, LimitsTypes
    <3>2. CASE ResetFeedback
      BY <3>2, LimitsAssumption DEF ResetFeedback
    <3>3. CASE UNCHANGED limitVars
      BY <1>3, <3>3 DEF limitVars, LimitsTypes
    <3> QED BY <1>3, <3>1, <3>2, <3>3 DEF FuseNext
  <2> QED BY <1>3, <2>1, <2>2 DEF LimitsTypes, rateVars, budgetVars
<1> QED BY <1>1, <1>2, <1>3 DEF LimitsTypes, LimitsTypeOK

\* So do the numbers of events and of subscriptions left behind.
DeliveryTypes ==
    /\ published \in [Tenants -> 0..MaxPublished]
    /\ stream \in [Clients -> StreamRecord]
    /\ registered \subseteq Clients
    /\ leaked \in [Tenants -> 0..MaxLeaks]
    /\ now \in Clock

LEMMA DeliveryStart == StreamsInit /\ UploadsInit => DeliveryTypes
BY StreamsStart, DeliveryAssumption
   DEF StreamsInv, StreamsType, StreamsInit, UploadsInit, DeliveryTypes, Clock

LEMMA DeliveryTyped ==
    /\ DeliveryTypes /\ StreamsInv /\ [StreamsNext]_deliveryVars => DeliveryTypes'
    /\ DeliveryTypes /\ UploadsInv /\ [UploadsNext]_deliveryVars => DeliveryTypes'
    /\ DeliveryTypes => DeliveryTypeOK
<1>1. ASSUME DeliveryTypes, StreamsInv, [StreamsNext]_deliveryVars PROVE DeliveryTypes'
  <2>1. StreamsInv'
    BY <1>1, StreamsStep
  <2>2. now' = now
    BY <1>1 DEF StreamsNext, deliveryVars, uploadVars
  <2>3. published' \in [Tenants -> 0..MaxPublished]
    <3>1. ASSUME NEW t \in Tenants, Publish(t) PROVE published' \in [Tenants -> 0..MaxPublished]
      BY <1>1, <3>1, DeliveryAssumption DEF Publish, DeliveryTypes
    <3>2. (\E t \in Tenants : Publish(t)) \/ published' = published
      BY <1>1 DEF StreamsNext, Subscribe, StartStream, Yield, Disconnect, Shutdown,
                  deliveryVars, streamVars
    <3> QED BY <1>1, <3>1, <3>2 DEF DeliveryTypes
  <2>4. leaked' \in [Tenants -> 0..MaxLeaks]
    <3>1. ASSUME NEW c \in Clients, Disconnect(c) PROVE leaked' \in [Tenants -> 0..MaxLeaks]
      <4>1. stream[c].tenant \in Tenants
        BY <1>1, <3>1 DEF StreamsInv, StreamOk, Disconnect
      <4>2. leaked[stream[c].tenant] \in Nat
        BY <1>1, <4>1 DEF DeliveryTypes
      <4> QED BY <1>1, <3>1, <4>1, <4>2, DeliveryAssumption DEF Disconnect, DeliveryTypes
    <3>2. CASE Shutdown
      BY <3>2, DeliveryAssumption DEF Shutdown
    <3>3. (\E c \in Clients : Disconnect(c)) \/ Shutdown \/ leaked' = leaked
      BY <1>1 DEF StreamsNext, Subscribe, StartStream, Yield, Publish, deliveryVars, streamVars
    <3> QED BY <1>1, <3>1, <3>2, <3>3 DEF DeliveryTypes
  <2> QED BY <1>1, <2>1, <2>2, <2>3, <2>4 DEF DeliveryTypes, StreamsInv, StreamsType
<1>2. ASSUME DeliveryTypes, UploadsInv, [UploadsNext]_deliveryVars PROVE DeliveryTypes'
  <2>1. UNCHANGED streamVars
    BY <1>2 DEF UploadsNext, deliveryVars
  <2>2. now' \in Clock
    BY <1>2, UploadsStep DEF UploadsInv
  <2> QED BY <1>2, <2>1, <2>2 DEF DeliveryTypes, streamVars
<1>3. DeliveryTypes => DeliveryTypeOK
  BY DEF DeliveryTypes, DeliveryTypeOK, Clock, StreamRecord, StreamPlaces
<1> QED BY <1>1, <1>2, <1>3

RegistryType == types \in [DOMAIN types -> [by : TypeOwners, status : {"active", "deprecated"}]]
QueryType ==
    query \in QueryRecord /\ query.left \subseteq query.found /\ query.failed \subseteq query.found
EntitiesTypes == RegistryType /\ StoresType /\ QueryType /\ SeedInv

LEMMA EntitiesStart == TypesInit /\ ResolverInit /\ SeedingInit => EntitiesTypes
<1> SUFFICES ASSUME TypesInit, ResolverInit, SeedingInit PROVE EntitiesTypes
  OBVIOUS
<1>1. RegistryType
  BY EntitiesAssumption DEF TypesInit, RegistryType
<1>2. StoresType /\ QueryType
  BY QueryStart DEF QueryInv, ReadOk, QueryType
<1>3. SeedInv
  BY SeedStart
<1> QED BY <1>1, <1>2, <1>3 DEF EntitiesTypes

LEMMA EntitiesTyped ==
    /\ EntitiesTypes /\ TypesInv /\ [TypesNext]_entityVars => EntitiesTypes'
    /\ EntitiesTypes /\ QueryInv /\ [ResolverNext]_entityVars => EntitiesTypes'
    /\ EntitiesTypes /\ SeedInv /\ [SeedingNext]_entityVars => EntitiesTypes'
    /\ EntitiesTypes => EntitiesTypeOK
<1>1. ASSUME EntitiesTypes, TypesInv, [TypesNext]_entityVars PROVE EntitiesTypes'
  <2>1. UNCHANGED <<stores, query, seeding>>
    BY <1>1 DEF TypesNext, RegisterType, DeprecateType, LogType, entityVars
  <2>2. TypesInv'
    BY <1>1, TypesStep
  <2>3. RegistryType'
    BY <2>2, EntitiesAssumption DEF TypesInv, RegistryType
  <2>4. SeedInv'
    BY <1>1, <2>1 DEF EntitiesTypes, SeedInv, SeedOrder, SeedCopies, Made, Bare, SeedNodes,
                      SeedRelationships
  <2> QED BY <1>1, <2>1, <2>3, <2>4 DEF EntitiesTypes, StoresType, QueryType
<1>2. ASSUME EntitiesTypes, QueryInv, [ResolverNext]_entityVars PROVE EntitiesTypes'
  <2>1. UNCHANGED <<types, seeding>>
    BY <1>2 DEF ResolverNext, ChangeStores, ExecuteGraphQuery, ResolveVectorFirst, EnrichNode,
                EnrichmentFails, AnswerBundle, entityVars
  <2>2. QueryInv'
    BY <1>2, QueryStep
  <2>4. SeedInv'
    BY <1>2, <2>1 DEF EntitiesTypes, SeedInv, SeedOrder, SeedCopies, Made, Bare, SeedNodes,
                      SeedRelationships
  <2> QED BY <1>2, <2>1, <2>2, <2>4 DEF EntitiesTypes, RegistryType, QueryInv, ReadOk, QueryType
<1>3. ASSUME EntitiesTypes, SeedInv, [SeedingNext]_entityVars PROVE EntitiesTypes'
  <2>1. UNCHANGED <<types, stores, query>>
    BY <1>3 DEF SeedingNext, ApplyConstraint, SeedNode, SeedRelationship, SeedVector, SeedingFails,
                RepeatSeeding, entityVars
  <2>2. SeedInv'
    BY <1>3, SeedStep
  <2> QED BY <1>3, <2>1, <2>2 DEF EntitiesTypes, RegistryType, StoresType, QueryType
<1>4. ASSUME EntitiesTypes PROVE EntitiesTypeOK
  <2>1. \A t \in DOMAIN types : types[t].by \in TypeOwners
                                /\ types[t].status \in {"active", "deprecated"}
    BY <1>4 DEF EntitiesTypes, RegistryType
  <2>2. stores.graph \subseteq Knowledge /\ stores.points \in [Knowledge -> 0..MaxPoints]
    BY <1>4 DEF EntitiesTypes, StoresType, StoresRecord, NodeSets, Points
  <2>3. /\ query.at \in {"idle", "enriching", "answered"}
        /\ query.left \subseteq query.found /\ query.failed \subseteq query.found
    BY <1>4 DEF EntitiesTypes, QueryType, QueryRecord, QueryPlaces
  <2>4. /\ seeding.at <= Constraints + 1 /\ seeding.failed <= Constraints
        /\ seeding.vectors <= seeding.nodes /\ seeding.twice <= seeding.known
    <3>1. seeding.at \in 1..14
      BY <1>4, ConstraintsAre DEF EntitiesTypes, SeedInv, SeedOrder
    <3> QED BY <1>4, <3>1, ConstraintsAre DEF EntitiesTypes, SeedInv, SeedOrder, SeedCopies
  <2> QED BY <2>1, <2>2, <2>3, <2>4 DEF EntitiesTypeOK
<1> QED BY <1>1, <1>2, <1>3, <1>4

\* Only entries are kept in memory; an error is one of the requests counted.
ServiceType == service \in ServiceRecord /\ service.inMemory \subseteq Entries
CacheType ==
    /\ cache.now \in Nat
    /\ \A k \in CacheKeys : cache.redis[k].value \in {Absent, "text", "list"}
CountsType == /\ signals.active \in Nat /\ signals.errors <= signals.total
              /\ \A r \in HttpRequests : measured[r].at \in RequestPlaces
OperationsTypes == ServiceType /\ SessionsType /\ CacheType /\ CountsType

LEMMA CacheTyped == CacheInv => CacheType
<1> SUFFICES ASSUME CacheInv PROVE CacheType
  OBVIOUS
<1>1. cache.redis \in CacheRedis /\ cache.last \in CacheLast /\ cache.now \in Nat
  BY DEF CacheInv
<1>2. ASSUME NEW k \in CacheKeys PROVE cache.redis[k].value \in {Absent, "text", "list"}
  <2>1. cache.last[k].value \in CacheValues
    BY <1>1 DEF CacheLast
  <2>2. cache.redis[k].value = Encoded(cache.last[k].value)
    BY DEF CacheInv, KeyTrue
  <2> QED BY <2>1, <2>2 DEF CacheValues, Encoded, Absent
<1> QED BY <1>1, <1>2 DEF CacheType

LEMMA CountsTyped == SignalsInv => CountsType
<1> SUFFICES ASSUME SignalsInv PROVE CountsType
  OBVIOUS
<1>1. IsFiniteSet(InPlaces({"2xx", "5xx", "raised"}))
  BY OperationsAssumption, FS_Subset DEF InPlaces
<1>2. InPlaces({"5xx", "raised"}) \subseteq InPlaces({"2xx", "5xx", "raised"})
  BY DEF InPlaces
<1>3. Cardinality(InPlaces({"5xx", "raised"})) <= Cardinality(InPlaces({"2xx", "5xx", "raised"}))
  BY <1>1, <1>2, FS_Subset
<1> QED BY <1>3 DEF SignalsInv, SignalsType, CountsType, SignalRecord, MeasuredRecord, Counts

LEMMA OperationsStart == ServiceInit /\ SessionsInit /\ CacheInit /\ SignalsInit => OperationsTypes
<1> SUFFICES ASSUME ServiceInit, SessionsInit, CacheInit, SignalsInit PROVE OperationsTypes
  OBVIOUS
<1>1. ServiceInv
  BY ServiceStart
<1>2. service.inMemory = {}
  BY DEF ServiceInit
<1> QED BY <1>2, <1>1, SessionsStart, CacheStart, CacheTyped, SignalsStart, CountsTyped
        DEF OperationsTypes, ServiceType, ServiceInv, SessionsInv

LEMMA OperationsTyped ==
    /\ OperationsTypes /\ ServiceInv /\ [ServiceNext]_operationVars => OperationsTypes'
    /\ OperationsTypes /\ SessionsInv /\ [SessionsNext]_operationVars => OperationsTypes'
    /\ OperationsTypes /\ CacheInv /\ [CacheNext]_operationVars => OperationsTypes'
    /\ OperationsTypes /\ SignalsInv /\ [SignalsNext]_operationVars => OperationsTypes'
    /\ OperationsTypes => OperationsTypeOK
<1>1. ASSUME OperationsTypes, ServiceInv, [ServiceNext]_operationVars PROVE OperationsTypes'
  <2>1. UNCHANGED <<sessionVars, cache, signals, measured>>
    BY <1>1 DEF ServiceNext, operationVars, sessionVars
  <2>2. service'.inMemory \subseteq Entries
    <3>0. service \in ServiceRecord /\ service.inMemory \subseteq Entries
      BY <1>1 DEF OperationsTypes, ServiceType
    <3>1. CASE UNCHANGED operationVars
      BY <3>0, <3>1 DEF operationVars
    <3>2. ASSUME NEW e \in Entries, WriteEntry(e) PROVE service'.inMemory \subseteq Entries
      BY <3>0, <3>2 DEF WriteEntry, ServiceRecord
    <3>3. ASSUME ServiceNext, ~(\E e \in Entries : WriteEntry(e))
          PROVE  service'.inMemory = service.inMemory
      BY <3>0, <3>3 DEF ServiceNext, BuildApp, ConnectGraph, ConnectVector, AbortStartup, Degrade,
         BootstrapSkillRegistry, ResolveEntries, Stop, CloseGraph, CloseVector, ServiceRecord
    <3> QED BY <1>1, <3>0, <3>1, <3>2, <3>3
  <2>3. ServiceInv'
    BY <1>1, ServiceStep
  <2> QED BY <1>1, <2>1, <2>2, <2>3
          DEF OperationsTypes, ServiceType, ServiceInv, SessionsType, CacheType, CountsType,
              sessionVars
<1>2. ASSUME OperationsTypes, SessionsInv, [SessionsNext]_operationVars PROVE OperationsTypes'
  <2>1. UNCHANGED <<service, cache, signals, measured>>
    BY <1>2 DEF SessionsNext, GetDbSession, CreateSession, RefuseSession, QueryRows, CommitSession,
                CloseSession, SessionStep, operationVars
  <2>2. SessionsInv'
    BY <1>2, SessionsStep
  <2> QED BY <1>2, <2>1, <2>2
          DEF OperationsTypes, ServiceType, SessionsInv, CacheType, CountsType
<1>3. ASSUME OperationsTypes, CacheInv, [CacheNext]_operationVars PROVE OperationsTypes'
  <2>1. UNCHANGED <<service, sessionVars, signals, measured>>
    BY <1>3 DEF CacheNext, CacheRefuses, CachePut, CacheDelete, CacheTick, CacheStep,
                operationVars, sessionVars
  <2>2. CacheInv'
    BY <1>3, CacheStepKeeps
  <2>3. CacheInv' => CacheType'
    BY CacheTyped, PTL
  <2> QED BY <1>3, <2>1, <2>2, <2>3
          DEF OperationsTypes, ServiceType, SessionsType, CountsType, sessionVars
<1>4. ASSUME OperationsTypes, SignalsInv, [SignalsNext]_operationVars PROVE OperationsTypes'
  <2>1. UNCHANGED <<service, sessionVars, cache>>
    BY <1>4 DEF SignalsNext, EnterRequest, EnterScope, LeaveScope, LeaveRequest, SignalStep,
                operationVars, sessionVars
  <2>2. SignalsInv'
    BY <1>4, SignalsStep
  <2>3. SignalsInv' => CountsType'
    BY CountsTyped, PTL
  <2> QED BY <1>4, <2>1, <2>2, <2>3
          DEF OperationsTypes, ServiceType, SessionsType, CacheType, sessionVars
<1>5. ASSUME OperationsTypes PROVE OperationsTypeOK
  <2>1. /\ service.graph \in AdapterStates /\ service.vector \in AdapterStates
        /\ service.writer \in {"none", "stores", "memory"}
        /\ service.inMemory \subseteq Entries /\ service.stored \subseteq Entries \union {"old"}
    BY <1>5 DEF OperationsTypes, ServiceType, ServiceRecord, Writers, EntrySets
  <2>2. /\ held \in [Connections -> DbSessions \union {NoSession}]
        /\ setting \in [Connections -> DbOrgs \union {NotSet}]
        /\ \A s \in DbSessions : sessions[s].state \in {"open", "closed"}
    BY <1>5 DEF OperationsTypes, SessionsType, SessionRecord, SessionStates, SessionOrgs
  <2> QED BY <1>5, <2>1, <2>2
          DEF OperationsTypes, CacheType, CountsType, RequestPlaces, OperationsTypeOK
<1> QED BY <1>1, <1>2, <1>3, <1>4, <1>5

\* A receipt in memory is of its item, and of an instant that has been.
LogsType ==
    /\ double \in Doubles
    /\ \A m \in Subjects : \A i \in 1..Len(double.receipts[m]) :
         double.receipts[m][i].item = m /\ double.receipts[m][i].at <= instant
EntriesType ==
    /\ \A id \in DOMAIN entries.memory : /\ entries.memory[id].org \in Brands
                                         /\ entries.memory[id].type \in EntryTypes
    /\ DOMAIN entries.points = DOMAIN entries.graph
TwinsTypes ==
    LogsType /\ EntriesType /\ gone \subseteq Subjects \union {Owner} /\ calls \in 0..MaxTwinCalls

LEMMA LogsTyped == TwinsInv => LogsType
BY DEF TwinsInv, LogOk, LogsType

LEMMA EntriesTyped == EntriesInv => EntriesType
BY DEF EntriesInv, StoresOk, SameEntry, EntrySet, EntriesType

LEMMA TwinsTypesStart == TwinsInit => TwinsTypes
<1>1. TwinsInit => gone = {} /\ calls \in 0..MaxTwinCalls
  BY TwinsAssumption DEF TwinsInit
<1> QED BY <1>1, TwinsStart, LogsTyped, EntriesStart, EntriesTyped DEF TwinsTypes

LEMMA TwinsTyped ==
    /\ TwinsTypes /\ TwinsInv /\ [TwinsNext]_twinVars => TwinsTypes'
    /\ TwinsTypes /\ EntriesInv /\ [EntriesNext]_twinVars => TwinsTypes'
    /\ TwinsTypes => TwinsTypeOK
<1>1. ASSUME TwinsTypes, TwinsInv, [TwinsNext]_twinVars PROVE TwinsTypes'
  <2>1. entries' = entries /\ (Called \/ calls' = calls)
    BY <1>1 DEF TwinsNext, AppendToBoth, DeleteSession, TwinInjection, TwinRetrieval, RecordReceipt,
                DeleteItem, DeleteOwner, twinVars
  <2>2. calls' \in 0..MaxTwinCalls
    BY <1>1, <2>1, TwinsAssumption DEF TwinsTypes, Called
  <2>3. TwinsInv'
    BY <1>1, TwinsStep
  <2>4. TwinsInv' => LogsType'
    BY LogsTyped, PTL
  <2> QED BY <1>1, <2>1, <2>2, <2>3, <2>4 DEF TwinsTypes, EntriesType, TwinsInv
<1>2. ASSUME TwinsTypes, EntriesInv, [EntriesNext]_twinVars PROVE TwinsTypes'
  <2>1. UNCHANGED <<double, gone, instant>>
    BY <1>2 DEF EntriesNext, CreateInBoth, UpdateInBoth, DeleteInBoth, twinVars
  <2>2. EntriesInv'
    BY <1>2, EntriesStep
  <2>3. EntriesInv' => EntriesType'
    BY EntriesTyped, PTL
  <2> QED BY <1>2, <2>1, <2>2, <2>3 DEF TwinsTypes, LogsType, EntriesInv
<1>3. ASSUME TwinsTypes PROVE TwinsTypeOK
  <2>1. double.index \in Indexes /\ double.counter \in Counters /\ double.receipts \in Logs
    BY <1>3 DEF TwinsTypes, LogsType, Doubles
  <2>2. ASSUME NEW m \in Subjects, NEW r \in Range(double.receipts[m])
        PROVE  r.item = m /\ r.at <= instant
    <3>1. double.receipts[m] \in Seq(ReceiptSet)
      BY <2>1 DEF Logs
    <3>2. PICK i \in 1..Len(double.receipts[m]) : r = double.receipts[m][i]
      BY <2>2, <3>1 DEF Range
    <3> QED BY <1>3, <3>2 DEF TwinsTypes, LogsType
  <2>3. DOMAIN double.index = Threads /\ DOMAIN double.counter = Threads
    BY <2>1 DEF Indexes, Counters
  <2> QED BY <1>3, <2>2, <2>3 DEF TwinsTypes, EntriesType, TwinsTypeOK
<1> QED BY <1>1, <1>2, <1>3


LEMMA ServicesTypedStart ==
    Init => LimitsTypes /\ DeliveryTypes /\ EntitiesTypes /\ OperationsTypes /\ TwinsTypes
BY LimitsStart, DeliveryStart, EntitiesStart, OperationsStart, TwinsTypesStart DEF Init

\* Every service keeps its types, whatever is called in whatever order: a state
\* machine is in one of its states, what is recorded names what there is, and no
\* counter leaves its range (the modules that MCServices composes).  A part
\* keeps the types of its module by its own invariant.
THEOREM ServicesTypesKept == Spec => []ServicesTypeOK
<1> DEFINE TInv ==
             /\ part = "items" => ReadsInv /\ RowsFit
             /\ part \in {"deletion", "outbox", "tasks"} => DeferredTypes
             /\ part = "deletion" => DeletionInv
             /\ part = "outbox" => OutboxInv
             /\ part = "skills" => SkillsInv
             /\ part = "accounts" => AccountsInv
             /\ part \in {"rate", "budget", "fuse"} => LimitsTypes
             /\ part = "rate" => RateInv
             /\ part = "budget" => BudgetInv
             /\ part \in {"streams", "uploads"} => DeliveryTypes
             /\ part = "streams" => StreamsInv
             /\ part = "uploads" => UploadsInv
             /\ part = "schema" => SchemaInv
             /\ part \in {"types", "resolver", "seeding"} => EntitiesTypes
             /\ part = "types" => TypesInv
             /\ part = "resolver" => QueryInv
             /\ part = "seeding" => SeedInv
             /\ part \in {"service", "sessions", "cache", "signals"} => OperationsTypes
             /\ part = "service" => ServiceInv
             /\ part = "sessions" => SessionsInv
             /\ part = "cache" => CacheInv
             /\ part = "signals" => SignalsInv
             /\ part \in {"twins", "entries"} => TwinsTypes
             /\ part = "twins" => TwinsInv
             /\ part = "entries" => EntriesInv
<1>1. Init => TInv
  <2>1. Init => ReadsInv /\ RowsFit
    BY ReadsStart, RowsFitStart DEF Init
  <2> QED BY <2>1, DeferredTyped, SkillsStart, AccountsStart, ServicesTypedStart, RateStart,
        BudgetStart, StreamsStart, UploadsStart, SchemaStart, TypesStart, QueryStart, SeedStart,
        ServiceStart, SessionsStart, CacheStart, SignalsStart, TwinsStart, EntriesStart DEF Init
<1>2. TInv /\ [Next]_serviceVars => TInv'
  BY PartMoves, ReadsStep, RowsFitStep, DeferredTyped, DeletionStep, OutboxStep, SkillsStep,
     AccountsStep, LimitsTyped, RateStep, BudgetStep, DeliveryTyped, StreamsStep, UploadsStep,
     SchemaStep, EntitiesTyped, TypesStep, QueryStep, SeedStep, OperationsTyped, ServiceStep,
     SessionsStep, CacheStepKeeps, SignalsStep, TwinsTyped, TwinsStep, EntriesStep
<1>3. TInv => ServicesTypeOK
  BY ItemsTyped, DeferredTyped, SkillsTyped, AccountsTyped, LimitsTyped, DeliveryTyped,
     SchemaTyped, EntitiesTyped, OperationsTyped, TwinsTyped DEF ServicesTypeOK, Of
<1> HIDE DEF TInv
<1> QED BY <1>1, <1>2, <1>3, PTL DEF Spec
==============================================================================
