------------------------ MODULE KnowledgeWrite_proofs ------------------------
(***************************************************************************)
(* Theorems about KnowledgeWrite: its type invariant and its five safety   *)
(* invariants, for any tasks, organisations, keys, proposals, failures and *)
(* restarts.                                                               *)
(***************************************************************************)
EXTENDS KnowledgeWrite, SequenceTheorems, TLAPS

Busy(t) == pc[t] \in {"ready"} \cup Awaiting
Mine(t) == [id |-> NewId(t), org |-> org[t], key |-> Cur(t).key, val |-> Cur(t).val]

\* What is left to do at each label.
Shape ==
    \A t \in Tasks :
        /\ pc[t] = "idle" => got[t] = {}
        /\ Busy(t) => todo[t] # << >>
        /\ pc[t] = "ended" => todo[t] = << >>
        /\ Writing(t) => Cur(t).op = "create"
        /\ pc[t] \in {"delete", "deleted", "missing"} => Cur(t).op = "delete"

\* The keys of a changeset are not those of proposals.
ImportKeys ==
    \A t \in Tasks : kind[t] = "import" =>
        /\ \A i \in DOMAIN todo[t] : todo[t][i].op = "create" => todo[t][i].key \in Keys
        /\ \A g \in got[t] : g.key \in Keys

\* An approval under way writes what was proposed.
Approvals ==
    \A t \in Tasks : (kind[t] = "approve" /\ Busy(t)) =>
        /\ Cur(t).op = "create" /\ Cur(t).key \in Proposals
        /\ Tail(todo[t]) = << >>
        /\ prop[Cur(t).key] # NoProposal /\ prop[Cur(t).key].writes
        /\ prop[Cur(t).key].org = org[t] /\ prop[Cur(t).key].val = Cur(t).val

\* No id is drawn twice.
IdsBehind ==
    \A x \in nodes : \A t \in Tasks : x.id[1] = t =>
        /\ pc[t] # "idle"
        /\ \/ x.id[2] > Len(todo[t])
           \/ x.id[2] = Len(todo[t]) /\ pc[t] \in {"created", "lost"}
IdsUnique == \A x, y \in nodes : x.id = y.id => x = y

\* What the tables say was written.
ReceiptsTrue ==
    \A o \in Orgs, k \in AllKeys : receipts[<<o, k>>] # None =>
        [id |-> receipts[<<o, k>>].node, org |-> o, key |-> k, val |-> receipts[<<o, k>>].val]
            \in nodes
ProcessedTrue == \A k \in Keys : processed[k] # None => \E x \in nodes : x.key = k

\* A node whose writer has not resumed is known to nobody.
Unanswered ==
    \A t \in Tasks : pc[t] = "created" =>
        /\ Mine(t) \in nodes
        /\ \A u \in Tasks : \A g \in got[u] : g.node # NewId(t)
        /\ \A o \in Orgs, k \in AllKeys :
               receipts[<<o, k>>] # None => receipts[<<o, k>>].node # NewId(t)

\* A receipt whose node some changeset reports has its key among the processed.
Claimed ==
    \A t \in Tasks : \A g \in got[t] :
        (/\ kind[t] = "import"
         /\ receipts[<<org[t], g.key>>] # None /\ receipts[<<org[t], g.key>>].node = g.node)
            => processed[g.key] # None

\* Every entry asked for is failed, written under its key, or still to do.
Accounted ==
    \A t \in Tasks : \A k \in asked[t] \ failed[t] :
        \/ \E x \in nodes : x.key = k
        \/ \E i \in DOMAIN todo[t] : todo[t][i].key = k

\* A pair that is not excused has one writer at a time, and a node only
\* with a receipt, or while its writer has not resumed.
OneWriter ==
    \A t, u \in Tasks : (t # u /\ Writing(t) /\ Writing(u) /\ SamePair(t, u)) =>
        Pair(t) \in excused
NoReceiptYet ==
    \A t \in Tasks : (Writing(t) /\ Pair(t) \notin excused) =>
        receipts[Pair(t)] = None
Receipted ==
    \A x \in nodes : <<x.org, x.key>> \notin excused =>
        \/ receipts[<<x.org, x.key>>] # None
        \/ \E t \in Tasks : pc[t] = "created" /\ Mine(t) = x

Inv ==
    /\ TypeOK /\ Shape /\ ImportKeys /\ Approvals
    /\ IdsBehind /\ IdsUnique
    /\ ReceiptsTrue /\ ProcessedTrue /\ Unanswered /\ Claimed /\ Accounted
    /\ OneWriter /\ NoReceiptYet /\ Receipted
    /\ AnswersTrue /\ OneNodePerKey /\ ImportsDisjoint /\ ApprovedIsWritten

-----------------------------------------------------------------------------
(* The steps, grouped by what they do to tables, nodes and results         *)

\* The parts that no invariant but the type speaks of.
Small == gone' \subseteq Ids /\ late' \subseteq Proposals /\ faults' \in 0..MaxFaults

\* An approval that writes nothing: too late, or without a writer.
Decided(p) ==
    /\ prop[p] # NoProposal
    /\ \E s \in {"approved", "expired"} :
          Decide(p, s) /\ (s = "approved" => ~prop[p].writes)

Begins(t, k, es) ==
    /\ pc[t] = "idle" /\ k \in {"write", "import", "approve"} /\ es \in Seq(Entry)
    /\ Start(t, k, es)
    /\ k = "import" => \A i \in DOMAIN es : es[i].op = "create" => es[i].key \in Keys
    /\ k = "approve" =>
         \/ es = << >>
         \/ \E p \in Proposals : /\ es = <<Create(p, prop[p].val)>>
                                 /\ prop[p] # NoProposal /\ org[t] = prop[p].org
                                 /\ prop[p].writes
    /\ \/ prop' = prop
       \/ \E p \in Proposals : Decided(p)

Ends(t) ==
    /\ Busy(t) /\ NextEntry(t)
    /\ UNCHANGED <<nodes, task>>

Drops(t) ==
    /\ Ends(t)
    /\ UNCHANGED <<receipts, processed, prop, got>>
    /\ \/ failed' = [failed EXCEPT ![t] = @ \cup {Cur(t).key}]
       \/ /\ failed' = failed
          /\ \/ Cur(t).op = "delete"
             \/ Cur(t).op = "create" /\ (Cached(t) # None \/ Repeated(t))
    /\ \/ excused' = excused /\ pc[t] # "created"
       \/ excused' = excused \cup {Pair(t)} /\ pc[t] = "created"

Answers(t, n) ==
    /\ Ends(t) /\ Cur(t).op = "create"
    /\ Return(t, n) /\ RememberKey(t, n) /\ Approved(t, n)
    /\ UNCHANGED <<failed, excused>>
    /\ \/ /\ pc[t] = "ready" /\ ~Repeated(t) /\ SameContent(t) /\ n = Cached(t).node
          /\ UNCHANGED receipts
       \/ pc[t] = "created" /\ StoreReceipt(t) /\ n = NewId(t)

Removes(t) ==
    /\ pc[t] \in {"ready", "delete"} /\ Cur(t).op = "delete"
    /\ \E l \in {"delete", "deleted", "missing"} : Goto(t, l)
    /\ UNCHANGED <<nodes, tables, prop, task, todo, results, excused>>

Idles == UNCHANGED <<nodes, tables, prop, pc, task, todo, results, excused>>

\* A sequence of at most n elements of S is a sequence of elements of S.
LEMMA SeqUpToSeq ==
    ASSUME NEW S, NEW n \in Nat PROVE SeqUpTo(S, n) \subseteq Seq(S)
<1>1. ASSUME NEW m \in 0..n, NEW f \in [1..m -> S] PROVE f \in Seq(S)
  BY SeqDef
<1> QED  BY <1>1 DEF SeqUpTo

\* The first entry and the rest, for a task that has entries.
LEMMA HeadTail ==
    ASSUME NEW s \in Seq(Entry), s # << >>
    PROVE  /\ Head(s) \in Entry /\ Head(s) = s[1] /\ 1 \in DOMAIN s
           /\ Tail(s) \in Seq(Entry) /\ Len(Tail(s)) = Len(s) - 1
           /\ Len(s) \in Nat /\ Len(s) > 0
           /\ \A i \in DOMAIN Tail(s) : i + 1 \in DOMAIN s /\ Tail(s)[i] = s[i + 1]
           /\ \A i \in DOMAIN s : i = 1 \/ i - 1 \in DOMAIN Tail(s)
OBVIOUS

\* What is typed about an entry of a task.
LEMMA EntryType ==
    ASSUME TypeOK, NEW t \in Tasks, todo[t] # << >>
    PROVE  /\ Cur(t) \in Entry /\ NewId(t) \in Ids
           /\ Cur(t).op = "create" => Cur(t).key \in AllKeys /\ Cur(t).val \in Vals
           /\ Cur(t).op = "delete" => Cur(t).key = None /\ Cur(t).node \in Ids
<1>1. todo[t] \in Seq(Entry)  BY DEF TypeOK
<1>2. Cur(t) \in Entry /\ Len(todo[t]) \in Nat  BY <1>1, HeadTail DEF Cur
<1>3. NewId(t) \in Ids  BY <1>2 DEF NewId, Ids
<1> QED  BY <1>2, <1>3 DEF Entry

LEMMA BeginsStep ==
    ASSUME TypeOK, NEW t \in Tasks,
           BeginWrite(t) \/ BeginImport(t) \/ \E p \in Proposals : BeginApprove(t, p)
    PROVE  (\E k, es : Begins(t, k, es)) /\ Small
<1> USE ConstantsAssumption
<1>0. Small
  <2>1. \E k, es : Start(t, k, es)  BY DEF BeginWrite, BeginImport, BeginApprove
  <2> QED  BY <2>1 DEF Small, TypeOK, Start, graph
<1>1. CASE BeginWrite(t)
  <2>1. PICK k \in Keys, v \in Vals : Start(t, "write", <<Create(k, v)>>)
    BY <1>1 DEF BeginWrite
  <2>2. Create(k, v) \in Entry  BY DEF Create, Entry, AllKeys
  <2>3. Begins(t, "write", <<Create(k, v)>>)
    BY <1>1, <2>1, <2>2 DEF BeginWrite, Arrives, Begins
  <2> QED  BY <1>0, <2>3
<1>2. CASE BeginImport(t)
  <2>1. PICK cs \in SeqUpTo(Creates, MaxCreates), ds \in SeqUpTo(Deletes, 1) :
                Start(t, "import", cs \o ds)
    BY <1>2 DEF BeginImport
  <2>2. cs \in Seq(Creates) /\ ds \in Seq(Deletes)  BY <2>1, SeqUpToSeq
  <2>3. ASSUME NEW n \in Known PROVE n \in Ids
    <3>1. PICK u \in Tasks : \E g \in got[u] : n = g.node  BY DEF Known
    <3>2. PICK g \in got[u] : n = g.node  BY <3>1
    <3>3. got[u] \subseteq [key: AllKeys, val: Vals, node: Ids]  BY DEF TypeOK
    <3> QED  BY <3>2, <3>3
  <2>4. \A e \in Creates : e \in Entry /\ e.key \in Keys
    BY DEF Creates, Create, Entry, AllKeys
  <2>5. \A e \in Deletes : e \in Entry /\ e.op = "delete"
    BY <2>3 DEF Deletes, Delete, Entry
  <2>6. cs \o ds \in Seq(Entry)
    <3>1. cs \in Seq(Entry) /\ ds \in Seq(Entry)  BY <2>2, <2>4, <2>5
    <3> QED  BY <3>1
  <2>7. ASSUME NEW i \in DOMAIN (cs \o ds), (cs \o ds)[i].op = "create"
        PROVE  (cs \o ds)[i].key \in Keys
    <3>1. CASE i <= Len(cs)
      <4>1. (cs \o ds)[i] = cs[i] /\ cs[i] \in Creates  BY <2>2, <3>1
      <4> QED  BY <4>1, <2>4
    <3>2. CASE i > Len(cs)
      <4>1. (cs \o ds)[i] = ds[i - Len(cs)] /\ ds[i - Len(cs)] \in Deletes  BY <2>2, <3>2
      <4> QED  BY <4>1, <2>5, <2>7
    <3>3. i \in Nat /\ Len(cs) \in Nat  BY <2>2
    <3> QED  BY <3>1, <3>2, <3>3
  <2>8. Begins(t, "import", cs \o ds)
    BY <1>2, <2>1, <2>6, <2>7 DEF BeginImport, Arrives, Begins
  <2> QED  BY <1>0, <2>8
<1>3. ASSUME NEW p \in Proposals, BeginApprove(t, p) PROVE \E k, es : Begins(t, k, es)
  <2>1. CASE p \in late
    <3>1. Begins(t, "approve", << >>)
      BY <1>3, <2>1 DEF BeginApprove, Arrives, Begins, Decided
    <3> QED  BY <3>1
  <2>3. CASE p \notin late /\ ~prop[p].writes
    <3>1. Begins(t, "approve", << >>)
      BY <1>3, <2>3 DEF BeginApprove, Arrives, Begins, Decided
    <3> QED  BY <3>1
  <2>2. CASE p \notin late /\ prop[p].writes
    <3>1. Create(p, prop[p].val) \in Entry
      BY <1>3 DEF BeginApprove, TypeOK, Create, Entry, AllKeys, NoProposal, Proposal
    <3>2. Begins(t, "approve", <<Create(p, prop[p].val)>>)
      BY <1>3, <2>2, <3>1 DEF BeginApprove, Arrives, Begins
    <3> QED  BY <3>2
  <2> QED  BY <2>1, <2>2, <2>3
<1> QED  BY <1>0, <1>1, <1>2, <1>3

\* A task at a label of its own has entries.
LEMMA BusyHas ==
    ASSUME TypeOK, Shape, NEW t \in Tasks, Busy(t)
    PROVE  /\ todo[t] # << >> /\ Cur(t) \in Entry /\ NewId(t) \in Ids
           /\ Cur(t).op = "create" => Cur(t).key \in AllKeys /\ Cur(t).val \in Vals
           /\ Cur(t).op = "delete" => Cur(t).key = None /\ Cur(t).node \in Ids
<1>1. todo[t] # << >>  BY DEF Shape
<1> QED  BY <1>1, EntryType

LEMMA DropsStep ==
    ASSUME TypeOK, Shape, NEW t \in Tasks,
           \/ SkipRepeated(t) \/ KeyConflict(t) \/ Invalid(t) \/ AfterDelete(t)
           \/ CreateRaises(t) \/ DeleteRaises(t)
    PROVE  Drops(t) /\ Small
<1> USE DEF Drops, Ends, Drop, KeepKeys, KeepProposal, graph, tables, task, results,
            Busy, Awaiting, Small
<1>0. faults \in Nat /\ gone \subseteq Ids /\ late \subseteq Proposals
      /\ faults \in 0..MaxFaults /\ MaxFaults \in Nat
  BY ConstantsAssumption DEF TypeOK
<1>1. CASE SkipRepeated(t)
  BY <1>0, <1>1 DEF SkipRepeated, Skip, At
<1>2. CASE KeyConflict(t)
  BY <1>0, <1>2 DEF KeyConflict, Skip, Report, At
<1>3. CASE Invalid(t)
  BY <1>0, <1>3 DEF Invalid, Report, At
<1>4. CASE AfterDelete(t)
  BY <1>0, <1>4 DEF AfterDelete, Skip, Report, Shape
<1>5. CASE CreateRaises(t)
  <2>1. \/ excused' = excused \cup {Pair(t)} /\ pc[t] = "created"
        \/ excused' = excused /\ pc[t] # "created"
    <3>1. CASE pc[t] = "created"
      <4>1. {Pair(t) : x \in {pc[t]} \cap {"created"}} = {Pair(t)}  BY <3>1
      <4> QED  BY <1>5, <3>1, <4>1 DEF CreateRaises
    <3>2. CASE pc[t] # "created"
      <4>1. {Pair(t) : x \in {pc[t]} \cap {"created"}} = {}  BY <3>2
      <4> QED  BY <1>5, <3>2, <4>1 DEF CreateRaises
    <3> QED  BY <3>1, <3>2
  <2> QED  BY <1>0, <1>5, <2>1 DEF CreateRaises, Report, Writing, Fault
<1>6. CASE DeleteRaises(t)
  BY <1>0, <1>6 DEF DeleteRaises, Report, Shape, Fault
<1> QED  BY <1>1, <1>2, <1>3, <1>4, <1>5, <1>6

LEMMA AnswersStep ==
    ASSUME TypeOK, Shape, NEW t \in Tasks, ReturnCached(t) \/ AfterCreate(t)
    PROVE  (\E n : Answers(t, n)) /\ Small
<1> USE DEF Answers, Ends, Succeed, graph, tables, task, results, Busy, Awaiting, Small
<1>0. gone \subseteq Ids /\ late \subseteq Proposals /\ faults \in 0..MaxFaults
  BY DEF TypeOK
<1>1. CASE ReturnCached(t)
  <2>1. Answers(t, Cached(t).node)  BY <1>1 DEF ReturnCached, At
  <2> QED  BY <1>0, <1>1, <2>1 DEF ReturnCached
<1>2. CASE AfterCreate(t)
  <2>1. Answers(t, NewId(t))  BY <1>2 DEF AfterCreate, Shape, Writing
  <2> QED  BY <1>0, <1>2, <2>1 DEF AfterCreate
<1> QED  BY <1>1, <1>2

LEMMA RemovesStep ==
    ASSUME TypeOK, Shape, NEW t \in Tasks, CallDelete(t) \/ DeleteNode(t)
    PROVE  Removes(t) /\ Small
<1> USE DEF Removes, graph, tables, task, results, Small
<1>0. gone \subseteq Ids /\ late \subseteq Proposals /\ faults \in 0..MaxFaults
  BY DEF TypeOK
<1>1. CASE CallDelete(t)
  BY <1>0, <1>1 DEF CallDelete, At
<1>2. CASE DeleteNode(t)
  <2>1. Cur(t).op = "delete" /\ Cur(t).node \in Ids
    BY <1>2, BusyHas DEF DeleteNode, Shape, Busy, Awaiting
  <2> QED  BY <1>0, <1>2, <2>1 DEF DeleteNode
<1> QED  BY <1>1, <1>2

\* Every step that is not a restart.
Normal ==
    \/ \E t \in Tasks : \/ \E k, es : Begins(t, k, es)
                        \/ \E n : Answers(t, n)
                        \/ Drops(t) \/ Removes(t)
                        \/ CallCreate(t) \/ CreateNode(t)
    \/ \E p \in Proposals : Propose(p)
    \/ Idles

LEMMA Steps ==
    ASSUME TypeOK, Shape, [Next]_vars
    PROVE  Small /\ (Normal \/ Restart)
<1>0. gone \subseteq Ids /\ late \subseteq Proposals /\ faults \in 0..MaxFaults
      /\ MaxFaults \in Nat
  BY ConstantsAssumption DEF TypeOK
<1>1. ASSUME NEW t \in Tasks, CallCreate(t) \/ CreateNode(t) PROVE Small
  BY <1>0, <1>1 DEF CallCreate, CreateNode, Small, graph
<1>2. ASSUME NEW p \in Proposals, Propose(p) PROVE Small
  BY <1>0, <1>2 DEF Propose, Small, graph
<1>3. ASSUME NEW p \in Proposals, WindowPasses(p) PROVE Small /\ Idles
  BY <1>0, <1>3 DEF WindowPasses, Small, Idles, graph, tables, task, results
<1>4. CASE Restart
  BY <1>0, <1>4 DEF Restart, Fault, Small, graph
<1>5. ASSUME UNCHANGED vars PROVE Small /\ Idles
  BY <1>0, <1>5 DEF vars, Small, Idles, graph, tables, task, results
<1>6. ASSUME NEW t \in Tasks,
             BeginWrite(t) \/ BeginImport(t) \/ \E p \in Proposals : BeginApprove(t, p)
      PROVE  Small /\ Normal
  BY <1>6, BeginsStep DEF Normal
<1>7. ASSUME NEW t \in Tasks, Step(t) \/ CreateRaises(t) \/ DeleteRaises(t)
      PROVE  Small /\ Normal
  <2>1. CASE CallCreate(t) \/ CreateNode(t)  BY <1>1, <2>1 DEF Normal
  <2>2. CASE CallDelete(t) \/ DeleteNode(t)  BY <2>2, RemovesStep DEF Normal
  <2>3. CASE ReturnCached(t) \/ AfterCreate(t)  BY <2>3, AnswersStep DEF Normal
  <2>4. CASE \/ SkipRepeated(t) \/ KeyConflict(t) \/ Invalid(t) \/ AfterDelete(t)
             \/ CreateRaises(t) \/ DeleteRaises(t)
    BY <2>4, DropsStep DEF Normal
  <2> QED  BY <1>7, <2>1, <2>2, <2>3, <2>4 DEF Step
<1>8. ASSUME NEW p \in Proposals, Propose(p) \/ WindowPasses(p) PROVE Small /\ Normal
  BY <1>2, <1>3, <1>8 DEF Normal
<1> QED
  BY <1>4, <1>5, <1>6, <1>7, <1>8 DEF Next, Normal

-----------------------------------------------------------------------------
(* Types                                                                   *)

\* What the end of an entry does to its task, and leaves alone in others.
LEMMA EndsFacts ==
    ASSUME TypeOK, Shape, NEW t \in Tasks, Ends(t)
    PROVE  /\ todo[t] # << >> /\ todo[t] \in Seq(Entry)
           /\ todo'[t] = Tail(todo[t]) /\ todo' \in [Tasks -> Seq(Entry)]
           /\ Len(todo'[t]) = Len(todo[t]) - 1 /\ Len(todo[t]) \in Nat
           /\ pc' \in [Tasks -> {"idle", "ready", "ended", "lost"} \cup Awaiting]
           /\ pc'[t] = IF Tail(todo[t]) = << >> THEN "ended" ELSE "ready"
           /\ \A u \in Tasks \ {t} : todo'[u] = todo[u] /\ pc'[u] = pc[u]
           /\ org' = org /\ kind' = kind /\ asked' = asked /\ nodes' = nodes
<1>1. todo[t] # << >> /\ todo[t] \in Seq(Entry) /\ todo \in [Tasks -> Seq(Entry)]
  BY BusyHas DEF Ends, TypeOK
<1>2. Tail(todo[t]) \in Seq(Entry) /\ Len(Tail(todo[t])) = Len(todo[t]) - 1
      /\ Len(todo[t]) \in Nat
  BY <1>1, HeadTail
<1>3. todo' = [todo EXCEPT ![t] = Tail(todo[t])]  BY DEF Ends, NextEntry
<1>4. pc' = [pc EXCEPT ![t] = IF Tail(todo[t]) = << >> THEN "ended" ELSE "ready"]
  BY DEF Ends, NextEntry, Goto
<1>5. pc \in [Tasks -> {"idle", "ready", "ended", "lost"} \cup Awaiting]  BY DEF TypeOK
<1> QED  BY <1>1, <1>2, <1>3, <1>4, <1>5 DEF Ends, task

LEMMA EmptyTodo == << >> \in Seq(Entry)
OBVIOUS

LEMMA TypeStep ==
    ASSUME TypeOK, Shape, ImportKeys, Approvals, [Next]_vars
    PROVE  TypeOK'
<1> USE ConstantsAssumption
<1>0. Small  BY Steps
<1>1. ASSUME NEW t \in Tasks, NEW k, NEW es, Begins(t, k, es) PROVE TypeOK'
  <2>1. prop' \in [Proposals -> Proposal \cup {NoProposal}]
    <3>1. CASE prop' = prop  BY <3>1 DEF TypeOK
    <3>2. ASSUME NEW p \in Proposals, Decided(p)
          PROVE  prop' \in [Proposals -> Proposal \cup {NoProposal}]
      <4>1. prop \in [Proposals -> Proposal \cup {NoProposal}] /\ prop[p] \in Proposal
        BY <3>2 DEF TypeOK, Decided
      <4>0. PICK s \in {"approved", "expired"} : Decide(p, s)  BY <3>2 DEF Decided
      <4> DEFINE e == [prop[p] EXCEPT !.status = s]
      <4>2. e \in Proposal  BY <4>1 DEF Proposal
      <4>3. prop' = [prop EXCEPT ![p] = e]  BY <4>0 DEF Decide
      <4> HIDE DEF e
      <4> QED  BY <4>1, <4>2, <4>3
    <3> QED  BY <1>1, <3>1, <3>2 DEF Begins
  <2>2. asked' \in [Tasks -> SUBSET AllKeys]
    <3>1. \A i \in DOMAIN es : es[i] \in Entry  BY <1>1 DEF Begins
    <3>2. {es[i].key : i \in {j \in DOMAIN es : es[j].op = "create"}} \subseteq AllKeys
      BY <3>1 DEF Entry
    <3>3. asked \in [Tasks -> SUBSET AllKeys]  BY DEF TypeOK
    <3> HIDE DEF AllKeys
    <3> QED  BY <1>1, <3>2, <3>3 DEF Begins, Start
  <2>3. todo' \in [Tasks -> Seq(Entry)]  BY <1>1 DEF Begins, Start, TypeOK
  <2>4. pc' \in [Tasks -> {"idle", "ready", "ended", "lost"} \cup Awaiting]
    BY <1>1 DEF Begins, Start, Goto, TypeOK
  <2>5. kind' \in [Tasks -> {"write", "import", "approve"}]
    BY <1>1 DEF Begins, Start, TypeOK
  <2>6. UNCHANGED <<nodes, receipts, processed, org, got, failed, excused>>
    BY <1>1 DEF Begins, Start, graph, tables, results
  <2> QED  BY <1>0, <2>1, <2>2, <2>3, <2>4, <2>5, <2>6 DEF TypeOK, Small
<1>2. ASSUME NEW t \in Tasks, NEW n, Answers(t, n) PROVE TypeOK'
  <2>0. Ends(t) /\ Cur(t).op = "create"  BY <1>2 DEF Answers
  <2>1. Busy(t) /\ Cur(t).key \in AllKeys /\ Cur(t).val \in Vals /\ NewId(t) \in Ids
    BY <2>0, BusyHas DEF Ends
  <2>2. Pair(t) \in Orgs \X AllKeys  BY <2>1 DEF Pair, TypeOK
  <2>3. n \in Ids
    <3>1. Cached(t) \in Receipt \cup {None}  BY <2>2 DEF Cached, TypeOK
    <3> QED  BY <1>2, <2>1, <3>1 DEF Answers, SameContent, Receipt
  <2>4. receipts' \in [Orgs \X AllKeys -> Receipt \cup {None}]
    <3>1. CASE receipts' = receipts  BY <3>1 DEF TypeOK
    <3>2. CASE StoreReceipt(t)
      <4>1. [node |-> NewId(t), val |-> Cur(t).val] \in Receipt  BY <2>1 DEF Receipt
      <4> QED  BY <3>2, <4>1 DEF StoreReceipt, TypeOK
    <3> QED  BY <1>2, <3>1, <3>2 DEF Answers
  <2>5. processed' \in [Keys -> Ids \cup {None}]
    BY <1>2, <2>3 DEF Answers, RememberKey, TypeOK
  <2>6. prop' \in [Proposals -> Proposal \cup {NoProposal}]
    <3>1. CASE kind[t] = "approve"
      <4> DEFINE p == Cur(t).key
      <4>1. p \in Proposals /\ prop[p] # NoProposal  BY <2>1, <3>1 DEF Approvals
      <4>2. prop' = [prop EXCEPT ![p].status = "approved", ![p].node = n]
        BY <1>2, <3>1 DEF Answers, Approved
      <4> HIDE DEF p
      <4>3. prop \in [Proposals -> Proposal \cup {NoProposal}] /\ prop[p] \in Proposal
        BY <4>1 DEF TypeOK
      <4> DEFINE e == [prop[p] EXCEPT !.status = "approved", !.node = n]
      <4>4. e \in Proposal  BY <4>3, <2>3 DEF Proposal
      <4>5. prop' = [prop EXCEPT ![p] = e]
        <5>1. \A q \in Proposals : prop'[q] = IF q = p THEN e ELSE prop[q]
          BY <4>1, <4>2, <4>3
        <5>2. DOMAIN prop' = Proposals /\ prop' = [q \in DOMAIN prop' |-> prop'[q]]
          BY <4>2, <4>3
        <5> QED  BY <5>1, <5>2, <4>3
      <4> HIDE DEF e
      <4> QED  BY <4>3, <4>4, <4>5
    <3>2. CASE kind[t] # "approve"  BY <1>2, <3>2 DEF Answers, Approved, TypeOK
    <3> QED  BY <3>1, <3>2
  <2>7. got' \in [Tasks -> SUBSET [key: AllKeys, val: Vals, node: Ids]]
    <3>1. [key |-> Cur(t).key, val |-> Cur(t).val, node |-> n]
              \in [key: AllKeys, val: Vals, node: Ids]
      BY <2>1, <2>3
    <3>2. got \in [Tasks -> SUBSET [key: AllKeys, val: Vals, node: Ids]]  BY DEF TypeOK
    <3>3. got' = [got EXCEPT ![t] = got[t] \cup
                     {[key |-> Cur(t).key, val |-> Cur(t).val, node |-> n]}]
      BY <1>2 DEF Answers, Return
    <3> QED  BY <3>1, <3>2, <3>3
  <2>8. failed' = failed /\ excused' = excused  BY <1>2 DEF Answers
  <2> QED
    BY <1>0, <2>0, <2>4, <2>5, <2>6, <2>7, <2>8, EndsFacts DEF TypeOK, Small
<1>3. ASSUME NEW t \in Tasks, Drops(t) PROVE TypeOK'
  <2>0. Ends(t)  BY <1>3 DEF Drops
  <2>1. /\ Cur(t).key \in AllKeys \cup {None}
        /\ Cur(t).op = "delete" \/ Cur(t).key \in AllKeys
    BY <2>0, BusyHas DEF Ends, Entry
  <2>2. failed' \in [Tasks -> SUBSET (AllKeys \cup {None})]
    <3>1. failed \in [Tasks -> SUBSET (AllKeys \cup {None})]  BY DEF TypeOK
    <3> QED  BY <1>3, <2>1, <3>1 DEF Drops
  <2>3. excused' \subseteq Orgs \X AllKeys
    <3>1. excused \subseteq Orgs \X AllKeys  BY DEF TypeOK
    <3>2. CASE pc[t] # "created" /\ excused' = excused  BY <3>1, <3>2
    <3>3. CASE excused' = excused \cup {Pair(t)} /\ pc[t] = "created"
      <4>1. Cur(t).key \in AllKeys
        BY <2>0, <3>3, BusyHas DEF Ends, Shape, Writing
      <4>2. Pair(t) \in Orgs \X AllKeys  BY <4>1 DEF Pair, TypeOK
      <4> QED  BY <3>1, <3>3, <4>2
    <3> QED  BY <1>3, <3>2, <3>3 DEF Drops
  <2> QED
    BY <1>0, <1>3, <2>0, <2>2, <2>3, EndsFacts DEF TypeOK, Small, Drops
<1>4. ASSUME NEW t \in Tasks, Removes(t) PROVE TypeOK'
  <2>1. pc' \in [Tasks -> {"idle", "ready", "ended", "lost"} \cup Awaiting]
    BY <1>4 DEF Removes, Goto, Awaiting, TypeOK
  <2> QED
    BY <1>0, <1>4, <2>1 DEF Removes, tables, task, results, TypeOK, Small
<1>5. ASSUME NEW t \in Tasks, CallCreate(t) PROVE TypeOK'
  <2>1. Pair(t) \in Orgs \X AllKeys
    BY <1>5, BusyHas DEF CallCreate, At, Busy, Pair, TypeOK
  <2>2. excused' \subseteq Orgs \X AllKeys
    BY <1>5, <2>1 DEF CallCreate, TypeOK
  <2>3. pc' \in [Tasks -> {"idle", "ready", "ended", "lost"} \cup Awaiting]
    BY <1>5 DEF CallCreate, Goto, Awaiting, TypeOK
  <2> QED
    BY <1>0, <1>5, <2>2, <2>3
       DEF CallCreate, graph, tables, task, results, TypeOK, Small
<1>6. ASSUME NEW t \in Tasks, CreateNode(t) PROVE TypeOK'
  <2>1. Mine(t) \in Node
    BY <1>6, BusyHas DEF CreateNode, Busy, Awaiting, Writing, Shape, Mine, Node, TypeOK
  <2>2. nodes' \subseteq Node  BY <1>6, <2>1 DEF CreateNode, Mine, TypeOK
  <2>3. pc' \in [Tasks -> {"idle", "ready", "ended", "lost"} \cup Awaiting]
    BY <1>6 DEF CreateNode, Goto, Awaiting, TypeOK
  <2> QED
    BY <1>0, <1>6, <2>2, <2>3
       DEF CreateNode, graph, tables, task, results, TypeOK, Small
<1>7. ASSUME NEW p \in Proposals, Propose(p) PROVE TypeOK'
  <2>1. prop' \in [Proposals -> Proposal \cup {NoProposal}]
    BY <1>7 DEF Propose, TypeOK, Proposal
  <2> QED
    BY <1>0, <1>7, <2>1 DEF Propose, graph, tables, task, results, TypeOK, Small
<1>8. CASE Restart
  <2>1. excused' \subseteq Orgs \X AllKeys
    <3>1. \A x \in nodes : <<x.org, x.key>> \in Orgs \X AllKeys  BY DEF TypeOK, Node
    <3>2. \A t \in Tasks : Writing(t) => Pair(t) \in Orgs \X AllKeys
      BY BusyHas DEF Writing, Busy, Awaiting, Shape, Pair, TypeOK
    <3> QED  BY <1>8, <3>1, <3>2 DEF Restart, TypeOK
  <2>2. pc' \in [Tasks -> {"idle", "ready", "ended", "lost"} \cup Awaiting]
    BY <1>8 DEF Restart, TypeOK
  <2> QED
    BY <1>0, <1>8, <2>1, <2>2 DEF Restart, graph, task, results, TypeOK, Small
<1>9. CASE Idles
  BY <1>0, <1>9 DEF Idles, tables, task, results, TypeOK, Small
<1> QED
  BY <1>1, <1>2, <1>3, <1>4, <1>5, <1>6, <1>7, <1>8, <1>9, Steps DEF Normal

-----------------------------------------------------------------------------
(* What a task has left to do                                              *)

\* A task that begins: what changes for it, and what for the others.
LEMMA BeginsFacts ==
    ASSUME TypeOK, NEW t \in Tasks, NEW k, NEW es, Begins(t, k, es)
    PROVE  /\ pc[t] = "idle" /\ es \in Seq(Entry)
           /\ kind'[t] = k /\ todo'[t] = es
           /\ pc'[t] = IF es = << >> THEN "ended" ELSE "ready"
           /\ \A u \in Tasks \ {t} : /\ todo'[u] = todo[u] /\ pc'[u] = pc[u]
                                     /\ kind'[u] = kind[u] /\ asked'[u] = asked[u]
           /\ UNCHANGED <<nodes, receipts, processed, org, got, failed, excused>>
BY DEF Begins, Start, Goto, TypeOK, graph, tables, results

LEMMA ShapeStep ==
    ASSUME TypeOK, Shape, [Next]_vars
    PROVE  Shape'
<1> USE DEF Shape, Busy, Awaiting, Writing, Cur
<1>1. ASSUME NEW t \in Tasks, NEW k, NEW es, Begins(t, k, es) PROVE Shape'
  BY <1>1, BeginsFacts
<1>2. ASSUME NEW t \in Tasks, NEW n, Answers(t, n) PROVE Shape'
  <2>1. Ends(t)  BY <1>2 DEF Answers
  <2>2. \A u \in Tasks \ {t} : got'[u] = got[u]  BY <1>2 DEF Answers, Return, TypeOK
  <2> QED  BY <2>1, <2>2, EndsFacts
<1>3. ASSUME NEW t \in Tasks, Drops(t) PROVE Shape'
  <2>1. Ends(t) /\ got' = got  BY <1>3 DEF Drops
  <2> QED  BY <2>1, EndsFacts
<1>4. ASSUME NEW t \in Tasks, Removes(t) PROVE Shape'
  <2>1. \E l \in {"delete", "deleted", "missing"} : pc' = [pc EXCEPT ![t] = l]
    BY <1>4 DEF Removes, Goto
  <2>2. todo' = todo /\ got' = got  BY <1>4 DEF Removes, results
  <2>3. todo[t] # << >> /\ Cur(t).op = "delete"  BY <1>4 DEF Removes
  <2> QED  BY <2>1, <2>2, <2>3 DEF TypeOK
<1>5. ASSUME NEW t \in Tasks, CallCreate(t) PROVE Shape'
  BY <1>5 DEF CallCreate, At, Goto, results, TypeOK
<1>6. ASSUME NEW t \in Tasks, CreateNode(t) PROVE Shape'
  BY <1>6 DEF CreateNode, Goto, results, TypeOK
<1>7. ASSUME NEW p \in Proposals, Propose(p) PROVE Shape'
  BY <1>7 DEF Propose, results
<1>8. CASE Restart  BY <1>8 DEF Restart, results, TypeOK
<1>9. CASE Idles  BY <1>9 DEF Idles, results
<1> QED
  BY <1>1, <1>2, <1>3, <1>4, <1>5, <1>6, <1>7, <1>8, <1>9, Steps DEF Normal

LEMMA ImportKeysStep ==
    ASSUME TypeOK, Shape, ImportKeys, [Next]_vars
    PROVE  ImportKeys'
<1> USE DEF ImportKeys
<1>1. ASSUME NEW t \in Tasks, NEW k, NEW es, Begins(t, k, es) PROVE ImportKeys'
  <2>1. got[t] = {}  BY <1>1 DEF Begins, Shape
  <2>2. k = "import" => \A i \in DOMAIN es : es[i].op = "create" => es[i].key \in Keys
    BY <1>1 DEF Begins
  <2> QED  BY <1>1, <2>1, <2>2, BeginsFacts
<1>2. ASSUME NEW t \in Tasks, Ends(t),
             \/ got' = got
             \/ /\ Cur(t).op = "create"
                /\ \E n : Return(t, n)
      PROVE  ImportKeys'
  <2>1. \A i \in DOMAIN Tail(todo[t]) :
           i + 1 \in DOMAIN todo[t] /\ Tail(todo[t])[i] = todo[t][i + 1]
    BY <1>2, EndsFacts, HeadTail
  <2>2. Cur(t) = todo[t][1] /\ 1 \in DOMAIN todo[t]
    BY <1>2, EndsFacts, HeadTail DEF Cur
  <2>3. ASSUME NEW u \in Tasks, NEW g \in got'[u], kind[u] = "import"
        PROVE  g.key \in Keys
    <3>1. CASE g \in got[u]  BY <2>3, <3>1
    <3>2. CASE g \notin got[u]
      <4>1. u = t /\ g.key = Cur(t).key /\ Cur(t).op = "create"
        BY <1>2, <2>3, <3>2 DEF Return, TypeOK
      <4> QED  BY <2>2, <2>3, <4>1
    <3> QED  BY <3>1, <3>2
  <2>4. ASSUME NEW u \in Tasks, NEW i \in DOMAIN todo'[u], kind[u] = "import",
               todo'[u][i].op = "create"
        PROVE  todo'[u][i].key \in Keys
    <3>1. CASE u = t
      <4>1. todo'[t] = Tail(todo[t])  BY <1>2, EndsFacts
      <4>2. i + 1 \in DOMAIN todo[t] /\ todo'[t][i] = todo[t][i + 1]
        BY <2>1, <2>4, <3>1, <4>1
      <4> QED  BY <2>4, <3>1, <4>2
    <3>2. CASE u # t  BY <1>2, <2>4, <3>2, EndsFacts
    <3> QED  BY <3>1, <3>2
  <2>5. kind' = kind  BY <1>2 DEF Ends, task
  <2> QED  BY <2>3, <2>4, <2>5
<1>3. ASSUME NEW t \in Tasks, Drops(t) \/ \E n : Answers(t, n) PROVE ImportKeys'
  BY <1>2, <1>3 DEF Drops, Answers
<1>4. CASE UNCHANGED <<kind, todo, got>>  BY <1>4
<1>5. ASSUME NEW t \in Tasks, Removes(t) \/ CallCreate(t) \/ CreateNode(t)
      PROVE  UNCHANGED <<kind, todo, got>>
  BY <1>5 DEF Removes, CallCreate, CreateNode, task, results
<1>6. ASSUME NEW p \in Proposals, Propose(p) PROVE UNCHANGED <<kind, todo, got>>
  BY <1>6 DEF Propose, task, results
<1>7. ASSUME Restart \/ Idles PROVE UNCHANGED <<kind, todo, got>>
  BY <1>7 DEF Restart, Idles, task, results
<1> QED  BY <1>1, <1>3, <1>4, <1>5, <1>6, <1>7, Steps DEF Normal

\* A proposal that exists keeps its organisation, its content and its pipeline.
Kept(p) ==
    /\ prop'[p] # NoProposal
    /\ prop'[p].org = prop[p].org /\ prop'[p].val = prop[p].val
    /\ prop'[p].writes = prop[p].writes

LEMMA ProposalsStay ==
    ASSUME TypeOK, Normal,
           NEW p \in Proposals, prop[p] # NoProposal
    PROVE  Kept(p)
<1>0. prop \in [Proposals -> Proposal \cup {NoProposal}] /\ prop[p] \in Proposal
  BY DEF TypeOK
<1>1. ASSUME NEW q \in Proposals, Decided(q)
      PROVE  Kept(p)
  BY <1>0, <1>1 DEF Proposal, NoProposal, Kept, Decided, Decide
<1>2. ASSUME NEW t \in Tasks, NEW n, Approved(t, n)
      PROVE  Kept(p)
  BY <1>0, <1>2 DEF Proposal, NoProposal, Approved, Kept
<1>3. ASSUME prop' = prop PROVE Kept(p)  BY <1>3 DEF Kept
<1>4. ASSUME NEW q \in Proposals, Propose(q)
      PROVE  prop'[p] = prop[p]
  BY <1>0, <1>4 DEF Propose
<1>5. ASSUME NEW t \in Tasks, Drops(t) \/ Removes(t) \/ CallCreate(t) \/ CreateNode(t)
      PROVE  prop' = prop
  BY <1>5 DEF Drops, Removes, CallCreate, CreateNode
<1>6. ASSUME Idles PROVE prop' = prop  BY <1>6 DEF Idles
<1>7. ASSUME NEW t \in Tasks, NEW k, NEW es, Begins(t, k, es)
      PROVE  Kept(p)
  BY <1>1, <1>3, <1>7 DEF Begins
<1>8. ASSUME NEW t \in Tasks, NEW n, Answers(t, n)
      PROVE  Kept(p)
  BY <1>2, <1>8 DEF Answers
<1> QED  BY <1>3, <1>4, <1>5, <1>6, <1>7, <1>8 DEF Normal, Kept

LEMMA ApprovalsStep ==
    ASSUME TypeOK, Shape, Approvals, [Next]_vars
    PROVE  Approvals'
<1> DEFINE Fits(u) == /\ Cur(u).op = "create" /\ Cur(u).key \in Proposals
                      /\ Tail(todo[u]) = << >>
                      /\ prop[Cur(u).key] # NoProposal /\ prop[Cur(u).key].writes
                      /\ prop[Cur(u).key].org = org[u] /\ prop[Cur(u).key].val = Cur(u).val
<1>0. SUFFICES ASSUME NEW u \in Tasks, kind'[u] = "approve", Busy(u)'
               PROVE  Fits(u)'
  BY DEF Approvals
<1>1. ASSUME todo'[u] = todo[u], org' = org, kind'[u] = kind[u], Busy(u), Normal
      PROVE  Fits(u)'
  <2>1. Cur(u)' = Cur(u)  BY <1>1 DEF Cur
  <2>2. Fits(u)  BY <1>0, <1>1 DEF Approvals
  <2>3. Kept(Cur(u).key)  BY <1>1, <2>2, ProposalsStay
  <2> QED  BY <1>1, <2>1, <2>2, <2>3 DEF Kept
<1>2. ASSUME NEW t \in Tasks, NEW k, NEW es, Begins(t, k, es) PROVE Fits(u)'
  <2>0. Normal  BY <1>2 DEF Normal
  <2>1. CASE u # t
    BY <1>0, <1>1, <1>2, <2>0, <2>1, BeginsFacts DEF Busy
  <2>2. CASE u = t
    <3>1. k = "approve" /\ es # << >>
      BY <1>0, <1>2, <2>2, BeginsFacts DEF Busy, Awaiting
    <3>2. PICK p \in Proposals : /\ es = <<Create(p, prop[p].val)>>
                                 /\ prop[p] # NoProposal /\ org[t] = prop[p].org
                                 /\ prop[p].writes
      BY <1>2, <3>1 DEF Begins
    <3>3. todo'[u] = <<Create(p, prop[p].val)>> /\ org' = org
      BY <1>2, <2>2, <3>2, BeginsFacts
    <3>4. Cur(u)' = Create(p, prop[p].val) /\ Tail(todo'[u]) = << >>
      BY <3>3 DEF Cur
    <3>5. Kept(p)  BY <2>0, <3>2, ProposalsStay
    <3>6. prop'[p] # NoProposal /\ prop'[p].org = prop[p].org /\ prop'[p].val = prop[p].val
          /\ prop'[p].writes
      BY <3>2, <3>5 DEF Kept
    <3> HIDE DEF Fits
    <3>7. Create(p, prop[p].val).op = "create" /\ Create(p, prop[p].val).key = p
          /\ Create(p, prop[p].val).val = prop[p].val
      BY DEF Create
    <3> QED  BY <2>2, <3>2, <3>3, <3>4, <3>6, <3>7 DEF Fits
  <2> QED  BY <2>1, <2>2
<1>3. ASSUME NEW t \in Tasks, Ends(t), Normal PROVE Fits(u)'
  <2>1. CASE u # t
    BY <1>0, <1>1, <1>3, <2>1, EndsFacts DEF Busy
  <2>2. CASE u = t
    <3>1. kind[t] = "approve" /\ Busy(t)  BY <1>0, <1>3, <2>2, EndsFacts DEF Ends
    <3>2. Tail(todo[t]) = << >>  BY <3>1 DEF Approvals
    <3>3. pc'[t] = "ended"  BY <1>3, <3>2, EndsFacts
    <3> QED  BY <1>0, <2>2, <3>3 DEF Busy, Awaiting
  <2> QED  BY <2>1, <2>2
<1>4. ASSUME NEW t \in Tasks, (\E n : Answers(t, n)) \/ Drops(t) PROVE Fits(u)'
  BY <1>3, <1>4 DEF Answers, Drops, Normal
<1>5. ASSUME NEW t \in Tasks, Removes(t) \/ CallCreate(t) \/ CreateNode(t) PROVE Fits(u)'
  <2>1. todo' = todo /\ org' = org /\ kind' = kind /\ Busy(t) /\ Normal
    BY <1>5 DEF Removes, CallCreate, CreateNode, At, task, Busy, Awaiting, Normal
  <2>2. Busy(u)
    BY <1>0, <1>5, <2>1 DEF Removes, CallCreate, CreateNode, Goto, Busy, TypeOK
  <2> QED  BY <1>1, <2>1, <2>2
<1>6. ASSUME Idles \/ \E p \in Proposals : Propose(p) PROVE Fits(u)'
  BY <1>0, <1>1, <1>6 DEF Idles, Propose, task, Normal, Busy
<1>7. CASE Restart
  BY <1>0, <1>7 DEF Restart, Busy, Awaiting, LoopFree, TypeOK
<1> QED  BY <1>2, <1>4, <1>5, <1>6, <1>7, Steps DEF Normal

-----------------------------------------------------------------------------
(* Nodes and what the tables say of them                                   *)

\* The steps that touch no table, node or result.
LEMMA QuietSteps ==
    /\ \A t \in Tasks : Removes(t) \/ CallCreate(t) =>
          UNCHANGED <<nodes, tables, task, todo, results>>
    /\ \A p \in Proposals : Propose(p) =>
          UNCHANGED <<nodes, tables, pc, task, todo, results, excused>>
BY DEF Removes, CallCreate, Propose, graph

\* What a label, an entry and a new id are made of.
LEMMA Same ==
    ASSUME NEW u \in Tasks, todo'[u] = todo[u], org'[u] = org[u]
    PROVE  /\ Cur(u)' = Cur(u) /\ NewId(u)' = NewId(u)
           /\ Pair(u)' = Pair(u) /\ Mine(u)' = Mine(u)
BY DEF Cur, NewId, Pair, Mine

\* An answer names a node of this organisation, key and content.
LEMMA AnswerIsNode ==
    ASSUME TypeOK, Shape, ReceiptsTrue, Unanswered,
           NEW t \in Tasks, NEW n, Answers(t, n)
    PROVE  /\ [id |-> n, org |-> org[t], key |-> Cur(t).key, val |-> Cur(t).val] \in nodes
           /\ n \in Ids /\ Cur(t).key \in AllKeys /\ org[t] \in Orgs
<1>1. Ends(t) /\ Cur(t).op = "create"  BY DEF Answers
<1>2. Cur(t).key \in AllKeys /\ org[t] \in Orgs
  BY <1>1, BusyHas DEF Ends, TypeOK
<1>3. [id |-> n, org |-> org[t], key |-> Cur(t).key, val |-> Cur(t).val] \in nodes
  <2>1. CASE pc[t] = "ready" /\ SameContent(t) /\ n = Cached(t).node
    BY <1>2, <2>1 DEF SameContent, Cached, Pair, ReceiptsTrue
  <2>2. CASE pc[t] = "created" /\ n = NewId(t)
    BY <2>2 DEF Unanswered, Mine
  <2> QED  BY <2>1, <2>2 DEF Answers
<1> QED  BY <1>2, <1>3 DEF TypeOK, Node

LEMMA NodesStay ==
    ASSUME TypeOK, Shape, [Next]_vars
    PROVE  nodes \subseteq nodes' /\ org' = org
<1>1. ASSUME NEW t \in Tasks, Ends(t) PROVE nodes \subseteq nodes' /\ org' = org
  BY <1>1, EndsFacts
<1>2. ASSUME NEW t \in Tasks, NEW k, NEW es, Begins(t, k, es)
      PROVE  nodes \subseteq nodes' /\ org' = org
  BY <1>2, BeginsFacts
<1>3. ASSUME NEW t \in Tasks, CreateNode(t) PROVE nodes \subseteq nodes' /\ org' = org
  BY <1>3 DEF CreateNode, task
<1>4. ASSUME Restart \/ Idles PROVE nodes \subseteq nodes' /\ org' = org
  BY <1>4 DEF Restart, Idles, graph, task
<1> QED  BY <1>1, <1>2, <1>3, <1>4, QuietSteps, Steps DEF Normal, Answers, Drops, task

LEMMA IdsStep ==
    ASSUME TypeOK, Shape, IdsBehind, IdsUnique, [Next]_vars
    PROVE  IdsBehind' /\ IdsUnique'
<1>0. \A x \in nodes : x.id \in Tasks \X Nat /\ x.id[2] \in Nat
  BY DEF TypeOK, Node, Ids
<1>1. ASSUME NEW t \in Tasks, NEW k, NEW es, Begins(t, k, es) PROVE IdsBehind'
  <2>1. \A x \in nodes : x.id[1] # t  BY <1>1, BeginsFacts DEF IdsBehind
  <2> QED  BY <1>1, <2>1, BeginsFacts DEF IdsBehind
<1>2. ASSUME NEW t \in Tasks, Ends(t) PROVE IdsBehind'
  <2>1. ASSUME NEW x \in nodes, x.id[1] = t
        PROVE  pc'[t] # "idle" /\ x.id[2] > Len(todo'[t])
    BY <1>0, <1>2, <2>1, EndsFacts DEF IdsBehind
  <2>2. ASSUME NEW x \in nodes, NEW u \in Tasks \ {t}, x.id[1] = u
        PROVE  /\ pc'[u] # "idle"
               /\ \/ x.id[2] > Len(todo'[u])
                  \/ x.id[2] = Len(todo'[u]) /\ pc'[u] \in {"created", "lost"}
    <3>1. /\ pc[u] # "idle"
          /\ \/ x.id[2] > Len(todo[u])
             \/ x.id[2] = Len(todo[u]) /\ pc[u] \in {"created", "lost"}
      BY <2>2 DEF IdsBehind
    <3>2. todo'[u] = todo[u] /\ pc'[u] = pc[u]  BY <1>2, EndsFacts
    <3> QED  BY <3>1, <3>2
  <2> QED  BY <1>2, <2>1, <2>2, EndsFacts DEF IdsBehind
<1>3. ASSUME NEW t \in Tasks, Removes(t) \/ CallCreate(t) PROVE IdsBehind'
  <2>1. nodes' = nodes /\ todo' = todo
    BY <1>3, QuietSteps
  <2>2. /\ pc[t] \in {"ready", "delete"} /\ pc'[t] # "idle"
        /\ \A u \in Tasks \ {t} : pc'[u] = pc[u]
    BY <1>3 DEF Removes, CallCreate, At, Goto, TypeOK
  <2> QED  BY <2>1, <2>2 DEF IdsBehind
<1>4. ASSUME NEW t \in Tasks, CreateNode(t) PROVE IdsBehind' /\ IdsUnique'
  <2>1. nodes' = nodes \cup {Mine(t)}  BY <1>4 DEF CreateNode, Mine
  <2>2. /\ pc[t] = "create" /\ pc'[t] = "created" /\ todo' = todo
        /\ \A u \in Tasks \ {t} : pc'[u] = pc[u]
    BY <1>4 DEF CreateNode, Goto, TypeOK
  <2>3. Mine(t).id = <<t, Len(todo[t])>>  BY DEF Mine, NewId
  <2>4. Len(todo[t]) \in Nat  BY DEF TypeOK
  <2>5. \A x \in nodes : x.id # Mine(t).id
    BY <1>0, <2>2, <2>3, <2>4 DEF IdsBehind
  <2>6. IdsUnique'  BY <2>1, <2>5 DEF IdsUnique
  <2>7. IdsBehind'  BY <2>1, <2>2, <2>3, <2>4 DEF IdsBehind
  <2> QED  BY <2>6, <2>7
<1>5. ASSUME NEW p \in Proposals, Propose(p) PROVE IdsBehind'
  BY <1>5, QuietSteps DEF IdsBehind
<1>6. CASE Restart
  <2>1. nodes' = nodes /\ todo' = todo  BY <1>6 DEF Restart, graph
  <2>2. \A u \in Tasks : /\ pc[u] # "idle" => pc'[u] # "idle"
                         /\ pc[u] \in {"created", "lost"} => pc'[u] \in {"created", "lost"}
    BY <1>6 DEF Restart, Awaiting, TypeOK
  <2>3. IdsBehind'  BY <2>1, <2>2 DEF IdsBehind
  <2>4. IdsUnique'  BY <2>1 DEF IdsUnique
  <2> QED  BY <2>3, <2>4
<1>7. CASE Idles  BY <1>7 DEF Idles, IdsBehind, IdsUnique
<1>8. ASSUME nodes' = nodes PROVE IdsUnique'  BY <1>8 DEF IdsUnique
<1>9. ASSUME NEW t \in Tasks, (\E n : Answers(t, n)) \/ Drops(t)
      PROVE  IdsBehind' /\ IdsUnique'
  BY <1>2, <1>8, <1>9, EndsFacts DEF Answers, Drops
<1>10. ASSUME NEW t \in Tasks, (\E k, es : Begins(t, k, es)) \/ Removes(t) \/ CallCreate(t)
       PROVE  IdsBehind' /\ IdsUnique'
  BY <1>1, <1>3, <1>8, <1>10, BeginsFacts, QuietSteps
<1>11. ASSUME NEW p \in Proposals, Propose(p) PROVE IdsBehind' /\ IdsUnique'
  BY <1>5, <1>8, <1>11, QuietSteps
<1> QED  BY <1>4, <1>6, <1>7, <1>9, <1>10, <1>11, Steps DEF Normal

LEMMA TablesStep ==
    ASSUME TypeOK, Shape, ImportKeys, ReceiptsTrue, ProcessedTrue, Unanswered, AnswersTrue,
           [Next]_vars
    PROVE  ReceiptsTrue' /\ ProcessedTrue' /\ AnswersTrue'
<1>0. nodes \subseteq nodes' /\ org' = org  BY NodesStay
<1>1. ASSUME NEW t \in Tasks, NEW n, Answers(t, n)
      PROVE  ReceiptsTrue' /\ ProcessedTrue' /\ AnswersTrue'
  <2>1. /\ [id |-> n, org |-> org[t], key |-> Cur(t).key, val |-> Cur(t).val] \in nodes'
        /\ Cur(t).key \in AllKeys /\ org[t] \in Orgs
    BY <1>0, <1>1, AnswerIsNode
  <2>2. ReceiptsTrue'
    <3>1. CASE receipts' = receipts  BY <1>0, <3>1 DEF ReceiptsTrue
    <3>2. CASE StoreReceipt(t) /\ n = NewId(t)
      BY <1>0, <2>1, <3>2 DEF StoreReceipt, ReceiptsTrue, Pair, TypeOK
    <3> QED  BY <1>1, <3>1, <3>2 DEF Answers
  <2>3. ProcessedTrue'
    <3>1. CASE processed' = processed  BY <1>0, <3>1 DEF ProcessedTrue
    <3>2. CASE processed' = [processed EXCEPT ![Cur(t).key] = n]
      BY <1>0, <2>1, <3>2 DEF ProcessedTrue, TypeOK
    <3> QED  BY <1>1, <3>1, <3>2 DEF Answers, RememberKey
  <2>4. AnswersTrue'
    BY <1>0, <1>1, <2>1 DEF Answers, Return, AnswersTrue, TypeOK
  <2> QED  BY <2>2, <2>3, <2>4
<1>2. ASSUME UNCHANGED <<receipts, processed, got>>
      PROVE  ReceiptsTrue' /\ ProcessedTrue' /\ AnswersTrue'
  BY <1>0, <1>2 DEF ReceiptsTrue, ProcessedTrue, AnswersTrue
<1>3. ASSUME Restart PROVE ReceiptsTrue' /\ ProcessedTrue' /\ AnswersTrue'
  <2>1. got' = got  BY <1>3 DEF Restart, results
  <2>2. AnswersTrue'  BY <1>0, <2>1 DEF AnswersTrue
  <2>3. ReceiptsTrue' /\ ProcessedTrue'
    BY <1>3 DEF Restart, ReceiptsTrue, ProcessedTrue
  <2> QED  BY <2>2, <2>3
<1>4. ASSUME NEW t \in Tasks, \/ \E k, es : Begins(t, k, es)
                              \/ Drops(t) \/ Removes(t) \/ CallCreate(t) \/ CreateNode(t)
      PROVE  UNCHANGED <<receipts, processed, got>>
  BY <1>4, BeginsFacts, QuietSteps DEF Drops, CreateNode, tables, results
<1>5. ASSUME Idles \/ \E p \in Proposals : Propose(p)
      PROVE  UNCHANGED <<receipts, processed, got>>
  BY <1>5, QuietSteps DEF Idles, tables, results
<1> QED  BY <1>1, <1>2, <1>3, <1>4, <1>5, Steps DEF Normal

LEMMA UnansweredStep ==
    ASSUME TypeOK, Shape, IdsBehind, ReceiptsTrue, Unanswered, AnswersTrue, [Next]_vars
    PROVE  Unanswered'
<1> DEFINE U(w) == /\ Mine(w) \in nodes
                   /\ \A u \in Tasks : \A g \in got[u] : g.node # NewId(w)
                   /\ \A o \in Orgs, k \in AllKeys :
                          receipts[<<o, k>>] # None => receipts[<<o, k>>].node # NewId(w)
<1>0. SUFFICES ASSUME NEW w \in Tasks, pc'[w] = "created" PROVE U(w)'
  BY DEF Unanswered
<1>1. nodes \subseteq nodes' /\ org' = org  BY NodesStay
<1>2. ASSUME pc[w] = "created", todo'[w] = todo[w], UNCHANGED <<receipts, got>>
      PROVE  U(w)'
  <2>1. U(w)  BY <1>2 DEF Unanswered
  <2>2. Mine(w)' = Mine(w) /\ NewId(w)' = NewId(w)  BY <1>1, <1>2, Same
  <2> QED  BY <1>1, <1>2, <2>1, <2>2
<1>3. ASSUME NEW t \in Tasks, NEW n, Answers(t, n) PROVE U(w)'
  <2>1. Ends(t)  BY <1>3 DEF Answers
  <2>2. w # t /\ pc[w] = "created" /\ todo'[w] = todo[w]
    BY <1>0, <2>1, EndsFacts
  <2>3. U(w)  BY <2>2 DEF Unanswered
  <2>4. Mine(w)' = Mine(w) /\ NewId(w)' = NewId(w)  BY <1>1, <2>2, Same
  <2>5. NewId(t) # NewId(w)  BY <2>2 DEF NewId
  <2>6. Pair(t) \in Orgs \X AllKeys  BY <1>3, AnswerIsNode DEF Pair
  <2>7. n # NewId(w)
    <3>1. CASE n = NewId(t)  BY <2>5, <3>1
    <3>2. CASE SameContent(t) /\ n = Cached(t).node
      BY <2>3, <2>6, <3>2 DEF SameContent, Cached, Pair
    <3> QED  BY <1>3, <3>1, <3>2 DEF Answers
  <2>8. \A u \in Tasks : \A g \in got'[u] : g.node # NewId(w)
    BY <1>3, <2>3, <2>7 DEF Answers, Return, TypeOK
  <2>9. \A o \in Orgs, k \in AllKeys :
            receipts'[<<o, k>>] # None => receipts'[<<o, k>>].node # NewId(w)
    <3>1. CASE receipts' = receipts  BY <2>3, <3>1
    <3>2. CASE StoreReceipt(t)  BY <2>3, <2>5, <3>2 DEF StoreReceipt, TypeOK
    <3> QED  BY <1>3, <3>1, <3>2 DEF Answers
  <2> QED  BY <1>1, <2>3, <2>4, <2>8, <2>9
<1>4. ASSUME NEW t \in Tasks, CreateNode(t) PROVE U(w)'
  <2>0. todo' = todo /\ receipts' = receipts /\ got' = got
    BY <1>4 DEF CreateNode, tables, results
  <2>1. CASE w # t
    BY <1>0, <1>2, <1>4, <2>0, <2>1 DEF CreateNode, Goto, TypeOK
  <2>2. CASE w = t
    <3>1. pc[w] = "create" /\ nodes' = nodes \cup {Mine(w)}
      BY <1>4, <2>2 DEF CreateNode, Mine
    <3>2. Len(todo[w]) \in Nat /\ \A x \in nodes : x.id \in Tasks \X Nat
      BY DEF TypeOK, Node, Ids
    <3>3. \A x \in nodes : x.id # NewId(w)
      BY <3>1, <3>2 DEF IdsBehind, NewId
    <3>4. \A u \in Tasks : \A g \in got[u] : g.node # NewId(w)
      BY <3>3 DEF AnswersTrue
    <3>5. \A o \in Orgs, k \in AllKeys :
              receipts[<<o, k>>] # None => receipts[<<o, k>>].node # NewId(w)
      BY <3>3 DEF ReceiptsTrue
    <3>6. Mine(w)' = Mine(w) /\ NewId(w)' = NewId(w)  BY <1>1, <2>0, Same
    <3> QED  BY <2>0, <3>1, <3>4, <3>5, <3>6
  <2> QED  BY <2>1, <2>2
<1>5. ASSUME NEW t \in Tasks, NEW k, NEW es, Begins(t, k, es) PROVE U(w)'
  BY <1>0, <1>2, <1>5, BeginsFacts
<1>6. ASSUME NEW t \in Tasks, Drops(t) PROVE U(w)'
  BY <1>0, <1>2, <1>6, EndsFacts DEF Drops
<1>7. ASSUME NEW t \in Tasks, Removes(t) \/ CallCreate(t) PROVE U(w)'
  <2>1. pc[w] = "created"
    BY <1>0, <1>7 DEF Removes, CallCreate, Goto, TypeOK
  <2> QED  BY <1>2, <1>7, <2>1, QuietSteps DEF tables, results
<1>8. ASSUME Idles \/ \E p \in Proposals : Propose(p) PROVE U(w)'
  BY <1>0, <1>2, <1>8, QuietSteps DEF Idles, tables, results
<1>9. CASE Restart  BY <1>0, <1>9 DEF Restart, Awaiting, TypeOK
<1> QED  BY <1>3, <1>4, <1>5, <1>6, <1>7, <1>8, <1>9, Steps DEF Normal

-----------------------------------------------------------------------------
(* Changesets                                                              *)

LEMMA ClaimedStep ==
    ASSUME TypeOK, Shape, ImportKeys, IdsBehind, IdsUnique, ReceiptsTrue, Unanswered, Claimed,
           AnswersTrue, ImportsDisjoint, [Next]_vars
    PROVE  Claimed' /\ ImportsDisjoint'
<1>0. nodes \subseteq nodes' /\ org' = org  BY NodesStay
<1>1. ASSUME NEW t \in Tasks, NEW n, Answers(t, n) PROVE Claimed' /\ ImportsDisjoint'
  <2> DEFINE r == [key |-> Cur(t).key, val |-> Cur(t).val, node |-> n]
             x == [id |-> n, org |-> org[t], key |-> Cur(t).key, val |-> Cur(t).val]
  <2>1. x \in nodes /\ n \in Ids /\ Pair(t) \in Orgs \X AllKeys
        /\ Cur(t).key \in AllKeys /\ org[t] \in Orgs
    BY <1>1, AnswerIsNode DEF Pair
  <2>2. got' = [got EXCEPT ![t] = got[t] \cup {r}] /\ kind' = kind
    BY <1>1 DEF Answers, Ends, Return, task
  <2>3. kind[t] = "import" => /\ processed' = [processed EXCEPT ![Cur(t).key] = n]
                              /\ Cur(t).key \in Keys
    <3>1. Cur(t).op = "create" /\ Cur(t) = todo[t][1] /\ 1 \in DOMAIN todo[t]
      BY <1>1, EndsFacts, HeadTail DEF Answers, Cur
    <3> QED  BY <1>1, <3>1 DEF Answers, RememberKey, ImportKeys
  <2>4. kind[t] # "import" => processed' = processed
    BY <1>1 DEF Answers, RememberKey
  <2>5. \A k \in Keys : processed[k] # None => processed'[k] # None
    BY <2>1, <2>3, <2>4, ConstantsAssumption DEF TypeOK, Ids
  <2>6. \A u \in Tasks : \A g \in got[u] : kind[u] = "import" => g.key \in Keys
    BY DEF ImportKeys
  \* Nobody who imports has been given this node, if its key is not processed.
  <2>7. ASSUME NEW u \in Tasks, NEW g \in got[u], kind[u] = "import", g.node = n,
               kind[t] = "import"
        PROVE  FALSE
    <3>1. CASE pc[t] = "created" /\ n = NewId(t)
      BY <2>7, <3>1 DEF Unanswered
    <3>2. CASE /\ ~Repeated(t) /\ SameContent(t) /\ n = Cached(t).node
      <4>1. [id |-> g.node, org |-> org[u], key |-> g.key, val |-> g.val] \in nodes
        BY DEF AnswersTrue
      <4>2. g.key = Cur(t).key /\ org[u] = org[t]
        BY <2>1, <2>7, <4>1 DEF IdsUnique
      <4>3. receipts[<<org[u], g.key>>] # None /\ receipts[<<org[u], g.key>>].node = g.node
        BY <2>7, <3>2, <4>2 DEF SameContent, Cached, Pair
      <4>4. processed[g.key] # None  BY <2>7, <4>3 DEF Claimed
      <4> QED  BY <2>7, <3>2, <4>2, <4>4 DEF Repeated
    <3> QED  BY <1>1, <3>1, <3>2 DEF Answers
  <2>8. ImportsDisjoint'
    <3>1. ASSUME NEW u \in Tasks, NEW v \in Tasks, NEW g \in got'[u], NEW h \in got'[v],
                 kind[u] = "import", kind[v] = "import", u # v
          PROVE  g.node # h.node
      <4>1. CASE g \in got[u] /\ h \in got[v]
        BY <3>1, <4>1 DEF ImportsDisjoint
      <4>2. CASE g \notin got[u]
        <5>1. u = t /\ g = r /\ h \in got[v]  BY <2>2, <3>1, <4>2 DEF TypeOK
        <5> QED  BY <2>7, <3>1, <5>1
      <4>3. CASE h \notin got[v]
        <5>1. v = t /\ h = r /\ g \in got[u]  BY <2>2, <3>1, <4>3 DEF TypeOK
        <5> QED  BY <2>7, <3>1, <5>1
      <4> QED  BY <4>1, <4>2, <4>3
    <3> HIDE DEF r
    <3> QED  BY <2>2, <3>1 DEF ImportsDisjoint
  <2>9. Claimed'
    <3>1. ASSUME NEW u \in Tasks, NEW g \in got'[u], kind[u] = "import",
                 receipts'[<<org[u], g.key>>] # None,
                 receipts'[<<org[u], g.key>>].node = g.node
          PROVE  processed'[g.key] # None
      <4>1. CASE g \notin got[u]
        <5>1. u = t /\ g = r  BY <2>2, <3>1, <4>1 DEF TypeOK
        <5> QED  BY <2>1, <2>3, <3>1, <5>1, ConstantsAssumption DEF TypeOK, Ids
      <4>2. CASE g \in got[u] /\ receipts' = receipts
        BY <2>5, <2>6, <3>1, <4>2 DEF Claimed
      <4>3. CASE g \in got[u] /\ StoreReceipt(t) /\ pc[t] = "created"
        <5>1. CASE <<org[u], g.key>> = Pair(t)
          <6>1. receipts'[<<org[u], g.key>>].node = NewId(t)
            BY <2>1, <4>3, <5>1 DEF StoreReceipt, TypeOK
          <6>2. g.node # NewId(t)  BY <4>3 DEF Unanswered
          <6> QED  BY <3>1, <6>1, <6>2
        <5>2. CASE <<org[u], g.key>> # Pair(t)
          <6>1. org[u] \in Orgs /\ g.key \in AllKeys
            BY <2>6, <3>1, <4>3 DEF AllKeys, TypeOK
          <6>2. receipts'[<<org[u], g.key>>] = receipts[<<org[u], g.key>>]
            BY <4>3, <5>2, <6>1 DEF StoreReceipt, TypeOK
          <6>3. processed[g.key] # None  BY <3>1, <4>3, <6>2 DEF Claimed
          <6> QED  BY <2>5, <2>6, <3>1, <4>3, <6>3
        <5> QED  BY <5>1, <5>2
      <4> QED  BY <1>1, <4>1, <4>2, <4>3 DEF Answers
    <3> HIDE DEF r
    <3> QED  BY <1>0, <2>2, <3>1 DEF Claimed
  <2> QED  BY <2>8, <2>9
<1>2. ASSUME UNCHANGED <<receipts, processed, got, kind>>
      PROVE  Claimed' /\ ImportsDisjoint'
  BY <1>0, <1>2 DEF Claimed, ImportsDisjoint
<1>3. ASSUME NEW t \in Tasks, NEW k, NEW es, Begins(t, k, es)
      PROVE  Claimed' /\ ImportsDisjoint'
  <2>1. got[t] = {} /\ UNCHANGED <<receipts, processed, got>>
        /\ \A u \in Tasks \ {t} : kind'[u] = kind[u]
    BY <1>3, BeginsFacts DEF Shape
  <2>2. Claimed'  BY <1>0, <2>1 DEF Claimed
  <2>3. ImportsDisjoint'  BY <2>1 DEF ImportsDisjoint
  <2> QED  BY <2>2, <2>3
<1>4. ASSUME NEW t \in Tasks, Drops(t) \/ Removes(t) \/ CallCreate(t) \/ CreateNode(t)
      PROVE  UNCHANGED <<receipts, processed, got, kind>>
  BY <1>4, QuietSteps DEF Drops, Ends, CreateNode, tables, results, task
<1>5. ASSUME Idles \/ \E p \in Proposals : Propose(p)
      PROVE  UNCHANGED <<receipts, processed, got, kind>>
  BY <1>5, QuietSteps DEF Idles, tables, results, task
<1>6. CASE Restart
  <2>1. got' = got /\ kind' = kind  BY <1>6 DEF Restart, results, task
  <2>2. \A o \in Orgs, k \in AllKeys : receipts'[<<o, k>>] = None
    BY <1>6 DEF Restart
  <2>3. Claimed'
    <3>1. \A t \in Tasks : \A g \in got[t] : org[t] \in Orgs /\ g.key \in AllKeys
      BY DEF TypeOK
    <3> QED  BY <1>0, <2>1, <2>2, <3>1 DEF Claimed
  <2>4. ImportsDisjoint'  BY <2>1 DEF ImportsDisjoint
  <2> QED  BY <2>3, <2>4
<1> QED  BY <1>1, <1>2, <1>3, <1>4, <1>5, <1>6, Steps DEF Normal

LEMMA AccountedStep ==
    ASSUME TypeOK, Shape, ReceiptsTrue, ProcessedTrue, Unanswered, Accounted, [Next]_vars,
           ImportKeys
    PROVE  Accounted'
<1> DEFINE Found(k) == \E x \in nodes : x.key = k
           Left(t, k) == \E i \in DOMAIN todo[t] : todo[t][i].key = k
<1>0. nodes \subseteq nodes' /\ org' = org  BY NodesStay
<1>1. ASSUME NEW t \in Tasks, NEW k, NEW es, Begins(t, k, es) PROVE Accounted'
  <2>1. asked'[t] = {es[i].key : i \in {j \in DOMAIN es : es[j].op = "create"}}
    BY <1>1 DEF Begins, Start, TypeOK
  <2>2. todo'[t] = es /\ failed' = failed /\ nodes' = nodes
        /\ \A u \in Tasks \ {t} : todo'[u] = todo[u] /\ asked'[u] = asked[u]
    BY <1>1, BeginsFacts
  <2>3. \A c \in asked'[t] : Left(t, c)'  BY <2>1, <2>2
  <2> QED  BY <2>2, <2>3 DEF Accounted
<1>2. ASSUME NEW t \in Tasks, Ends(t), asked' = asked,
             \A u \in Tasks : failed[u] \subseteq failed'[u],
             \/ Cur(t).key \in failed'[t]
             \/ Found(Cur(t).key)
             \/ Cur(t).key = None
      PROVE  Accounted'
  <2>1. todo[t] \in Seq(Entry) /\ todo[t] # << >> /\ todo'[t] = Tail(todo[t])
        /\ \A u \in Tasks \ {t} : todo'[u] = todo[u]
    BY <1>2, EndsFacts
  <2>2. ASSUME NEW k, Left(t, k), k # Cur(t).key PROVE Left(t, k)'
    <3>1. PICK i \in DOMAIN todo[t] : todo[t][i].key = k  BY <2>2
    <3>2. i # 1  BY <2>1, <2>2, <3>1, HeadTail DEF Cur
    <3>3. i - 1 \in DOMAIN Tail(todo[t])  BY <2>1, <3>2, HeadTail
    <3>4. Tail(todo[t])[i - 1] = todo[t][i]
      <4>1. Tail(todo[t])[i - 1] = todo[t][(i - 1) + 1]  BY <2>1, <3>3, HeadTail
      <4>2. i \in Int  BY <2>1
      <4>3. (i - 1) + 1 = i  BY <4>2
      <4> QED  BY <4>1, <4>3
    <3> QED  BY <2>1, <3>1, <3>3, <3>4
  <2>3. \A u \in Tasks : None \notin asked[u]
    BY ConstantsAssumption DEF TypeOK, AllKeys
  <2>4. ASSUME NEW u \in Tasks, NEW k \in asked[u] \ failed'[u]
        PROVE  Found(k)' \/ Left(u, k)'
    <3>1. k \in asked[u] \ failed[u]  BY <1>2, <2>4
    <3>2. Found(k) \/ Left(u, k)  BY <3>1 DEF Accounted
    <3>3. Found(k) => Found(k)'  BY <1>0
    <3>4. CASE u # t /\ Left(u, k)  BY <2>1, <3>4
    <3>5. CASE u = t /\ Left(t, k) /\ k # Cur(t).key  BY <2>2, <3>5
    <3>6. CASE u = t /\ k = Cur(t).key  BY <1>0, <1>2, <2>3, <2>4, <3>6
    <3> QED  BY <3>2, <3>3, <3>4, <3>5, <3>6
  <2> QED  BY <1>2, <2>4 DEF Accounted
<1>3. ASSUME NEW t \in Tasks, NEW n, Answers(t, n) PROVE Accounted'
  <2> DEFINE x == [id |-> n, org |-> org[t], key |-> Cur(t).key, val |-> Cur(t).val]
  <2>0. x \in nodes /\ x.key = Cur(t).key  BY <1>3, AnswerIsNode
  <2> HIDE DEF x
  <2>1. Found(Cur(t).key)  BY <2>0
  <2>2. Ends(t) /\ asked' = asked /\ failed' = failed
    BY <1>3 DEF Answers, Ends, task
  <2> QED  BY <1>2, <2>1, <2>2
<1>4. ASSUME NEW t \in Tasks, Drops(t) PROVE Accounted'
  <2>1. Ends(t) /\ asked' = asked  BY <1>4 DEF Drops, Ends, task
  <2>2. \A u \in Tasks : failed[u] \subseteq failed'[u]  BY <1>4 DEF Drops, TypeOK
  <2>3. \/ Cur(t).key \in failed'[t]
        \/ Found(Cur(t).key)
        \/ Cur(t).key = None
    <3>1. CASE failed' = [failed EXCEPT ![t] = @ \cup {Cur(t).key}]
      BY <3>1 DEF TypeOK
    <3>2. CASE Cur(t).op = "delete"
      BY <2>1, <3>2, BusyHas DEF Ends
    <3>3. CASE Cur(t).op = "create" /\ Cached(t) # None
      <4>1. org[t] \in Orgs /\ Cur(t).key \in AllKeys
        BY <2>1, <3>3, BusyHas DEF Ends, TypeOK
      <4> QED  BY <3>3, <4>1 DEF Cached, Pair, ReceiptsTrue
    <3>4. CASE Cur(t).op = "create" /\ Repeated(t)
      <4>1. Cur(t) = todo[t][1] /\ 1 \in DOMAIN todo[t]
        BY <2>1, EndsFacts, HeadTail DEF Cur
      <4>2. Cur(t).key \in Keys  BY <3>4, <4>1 DEF Repeated, ImportKeys
      <4> QED  BY <3>4, <4>2 DEF Repeated, ProcessedTrue
    <3> QED  BY <1>4, <3>1, <3>2, <3>3, <3>4 DEF Drops
  <2> QED  BY <1>2, <2>1, <2>2, <2>3
<1>5. ASSUME UNCHANGED <<todo, asked, failed>> PROVE Accounted'
  BY <1>0, <1>5 DEF Accounted
<1>6. ASSUME NEW t \in Tasks, Removes(t) \/ CallCreate(t) \/ CreateNode(t)
      PROVE  UNCHANGED <<todo, asked, failed>>
  BY <1>6, QuietSteps DEF CreateNode, results, task
<1>7. ASSUME Idles \/ Restart \/ \E p \in Proposals : Propose(p)
      PROVE  UNCHANGED <<todo, asked, failed>>
  BY <1>7, QuietSteps DEF Idles, Restart, results, task
<1> QED  BY <1>1, <1>3, <1>4, <1>5, <1>6, <1>7, Steps DEF Normal

-----------------------------------------------------------------------------
(* One node per key                                                        *)

LEMMA WritersStep ==
    ASSUME TypeOK, Shape, OneWriter, NoReceiptYet, [Next]_vars
    PROVE  OneWriter' /\ NoReceiptYet'
<1>0. org' = org  BY NodesStay
<1>1. ASSUME excused \subseteq excused', receipts' = receipts,
             \A u \in Tasks : Writing(u)' => Writing(u) /\ todo'[u] = todo[u]
      PROVE  OneWriter' /\ NoReceiptYet'
  <2>1. \A u \in Tasks : Writing(u)' => Writing(u) /\ Pair(u)' = Pair(u)
    BY <1>0, <1>1, Same
  <2> QED  BY <1>1, <2>1 DEF OneWriter, NoReceiptYet, SamePair
<1>2. ASSUME NEW t \in Tasks, Ends(t)
      PROVE  \A u \in Tasks : Writing(u)' => Writing(u) /\ todo'[u] = todo[u] /\ u # t
  BY <1>2, EndsFacts DEF Writing
<1>3. ASSUME NEW t \in Tasks, NEW n, Answers(t, n) PROVE OneWriter' /\ NoReceiptYet'
  <2>1. Ends(t) /\ excused' = excused  BY <1>3 DEF Answers
  <2>2. CASE receipts' = receipts  BY <1>1, <1>2, <2>1, <2>2
  <2>3. CASE StoreReceipt(t) /\ pc[t] = "created"
    <3>1. \A u \in Tasks : Writing(u)' =>
              Writing(u) /\ Pair(u)' = Pair(u) /\ u # t
      BY <1>0, <1>2, <2>1, Same
    <3>2. OneWriter'  BY <2>1, <3>1 DEF OneWriter, SamePair
    <3>3. ASSUME NEW u \in Tasks, Writing(u)', Pair(u)' \notin excused'
          PROVE  receipts'[Pair(u)'] = None
      <4>1. Writing(u) /\ u # t /\ Pair(u) \notin excused /\ Pair(u)' = Pair(u)
        BY <2>1, <3>1, <3>3
      <4>2. Writing(t)  BY <2>3 DEF Writing
      <4>3. Pair(u) # Pair(t)  BY <4>1, <4>2 DEF OneWriter, SamePair
      <4>4. receipts[Pair(u)] = None  BY <4>1 DEF NoReceiptYet
      <4> QED  BY <2>3, <4>1, <4>3, <4>4 DEF StoreReceipt, TypeOK
    <3> QED  BY <3>2, <3>3 DEF NoReceiptYet
  <2> QED  BY <1>3, <2>2, <2>3 DEF Answers
<1>4. ASSUME NEW t \in Tasks, Drops(t) PROVE OneWriter' /\ NoReceiptYet'
  <2>1. Ends(t) /\ receipts' = receipts /\ excused \subseteq excused'  BY <1>4 DEF Drops
  <2> QED  BY <1>1, <1>2, <2>1
<1>5. ASSUME NEW t \in Tasks, NEW k, NEW es, Begins(t, k, es)
      PROVE  OneWriter' /\ NoReceiptYet'
  <2>1. \A u \in Tasks : Writing(u)' => Writing(u) /\ todo'[u] = todo[u]
    BY <1>5, BeginsFacts DEF Writing
  <2> QED  BY <1>1, <1>5, <2>1, BeginsFacts
<1>6. ASSUME NEW t \in Tasks, CallCreate(t) PROVE OneWriter' /\ NoReceiptYet'
  <2>1. /\ todo' = todo /\ receipts' = receipts /\ receipts[Pair(t)] = None
        /\ excused' = excused \cup
              {Pair(t) : u \in {w \in Tasks : Writing(w) /\ SamePair(t, w)}}
    BY <1>6 DEF CallCreate, Cached, tables
  <2>2. \A u \in Tasks : Pair(u)' = Pair(u)  BY <1>0, <2>1, Same
  <2>3. \A u \in Tasks \ {t} : Writing(u)' = Writing(u)
    BY <1>6 DEF CallCreate, Goto, Writing, TypeOK
  <2>4. ASSUME NEW u \in Tasks, Writing(u), Pair(u) = Pair(t)
        PROVE  Pair(t) \in excused'
    BY <2>1, <2>4 DEF SamePair
  <2>5. OneWriter'
    <3>1. ASSUME NEW u \in Tasks, NEW v \in Tasks, u # v, Writing(u)', Writing(v)',
                 Pair(u) = Pair(v)
          PROVE  Pair(u) \in excused'
      <4>1. CASE u = t  BY <2>3, <2>4, <3>1, <4>1
      <4>2. CASE v = t  BY <2>3, <2>4, <3>1, <4>2
      <4>3. CASE u # t /\ v # t
        <5>1. Writing(u) /\ Writing(v)  BY <2>3, <3>1, <4>3
        <5>2. Pair(u) \in excused  BY <3>1, <5>1 DEF OneWriter, SamePair
        <5> QED  BY <2>1, <5>2
      <4> QED  BY <4>1, <4>2, <4>3
    <3> QED  BY <2>2, <3>1 DEF OneWriter, SamePair
  <2>6. NoReceiptYet'
    <3>1. ASSUME NEW u \in Tasks, Writing(u)', Pair(u) \notin excused'
          PROVE  receipts[Pair(u)] = None
      <4>1. CASE u = t  BY <2>1, <4>1
      <4>2. CASE u # t  BY <2>1, <2>3, <3>1, <4>2 DEF NoReceiptYet
      <4> QED  BY <4>1, <4>2
    <3> QED  BY <2>1, <2>2, <3>1 DEF NoReceiptYet
  <2> QED  BY <2>5, <2>6
<1>7. ASSUME NEW t \in Tasks, CreateNode(t) PROVE OneWriter' /\ NoReceiptYet'
  <2>1. todo' = todo /\ receipts' = receipts /\ excused' = excused
    BY <1>7 DEF CreateNode, tables
  <2>2. \A u \in Tasks : Writing(u)' => Writing(u)
    BY <1>7 DEF CreateNode, Goto, Writing, TypeOK
  <2> QED  BY <1>1, <2>1, <2>2
<1>8. ASSUME NEW t \in Tasks, Removes(t) PROVE OneWriter' /\ NoReceiptYet'
  <2>1. todo' = todo /\ receipts' = receipts /\ excused' = excused
    BY <1>8 DEF Removes, tables
  <2>2. \A u \in Tasks : Writing(u)' => Writing(u)
    BY <1>8 DEF Removes, Goto, Writing, TypeOK
  <2> QED  BY <1>1, <2>1, <2>2
<1>9. ASSUME Idles \/ \E p \in Proposals : Propose(p) PROVE OneWriter' /\ NoReceiptYet'
  BY <1>1, <1>9, QuietSteps DEF Idles, tables, Writing
<1>10. CASE Restart
  <2>1. \A u \in Tasks : ~Writing(u)'
    BY <1>10 DEF Restart, Writing, Awaiting, TypeOK
  <2> QED  BY <2>1 DEF OneWriter, NoReceiptYet
<1> QED  BY <1>3, <1>4, <1>5, <1>6, <1>7, <1>8, <1>9, <1>10, Steps DEF Normal

LEMMA NodesStep ==
    ASSUME TypeOK, Shape, OneWriter, NoReceiptYet, Receipted, OneNodePerKey, [Next]_vars
    PROVE  Receipted' /\ OneNodePerKey'
<1>0. org' = org  BY NodesStay
<1>1. ASSUME nodes' = nodes, excused \subseteq excused' PROVE OneNodePerKey'
  BY <1>1 DEF OneNodePerKey
<1>2. ASSUME nodes' = nodes, excused \subseteq excused', receipts' = receipts,
             \A u \in Tasks : pc[u] = "created" =>
                 \/ pc'[u] = "created" /\ todo'[u] = todo[u]
                 \/ Pair(u) \in excused'
      PROVE  Receipted'
  <2>1. ASSUME NEW x \in nodes, <<x.org, x.key>> \notin excused'
        PROVE  \/ receipts[<<x.org, x.key>>] # None
               \/ \E u \in Tasks : pc'[u] = "created" /\ Mine(u)' = x
    <3>1. CASE receipts[<<x.org, x.key>>] # None  BY <3>1
    <3>2. ASSUME NEW u \in Tasks, pc[u] = "created", Mine(u) = x
          PROVE  pc'[u] = "created" /\ Mine(u)' = x
      <4>1. Pair(u) = <<x.org, x.key>>  BY <3>2 DEF Mine, Pair
      <4>2. pc'[u] = "created" /\ todo'[u] = todo[u]  BY <1>2, <2>1, <3>2, <4>1
      <4> QED  BY <1>0, <3>2, <4>2, Same
    <3> QED  BY <1>2, <2>1, <3>1, <3>2 DEF Receipted
  <2> QED  BY <1>2, <2>1 DEF Receipted
<1>3. ASSUME NEW t \in Tasks, Ends(t)
      PROVE  nodes' = nodes /\ \A u \in Tasks \ {t} : pc'[u] = pc[u] /\ todo'[u] = todo[u]
  BY <1>3, EndsFacts
<1>4. ASSUME NEW t \in Tasks, NEW n, Answers(t, n) PROVE Receipted' /\ OneNodePerKey'
  <2>1. Ends(t) /\ excused' = excused  BY <1>4 DEF Answers
  <2>2. OneNodePerKey'  BY <1>1, <1>3, <2>1
  <2>3. CASE receipts' = receipts /\ pc[t] = "ready"
    BY <1>2, <1>3, <2>1, <2>2, <2>3
  <2>4. CASE StoreReceipt(t) /\ pc[t] = "created"
    <3>1. NewId(t) \in Ids /\ Cur(t).val \in Vals /\ Pair(t) \in Orgs \X AllKeys
      BY <2>1, <2>4, BusyHas DEF Ends, Shape, Writing, Pair, TypeOK
    <3>2. [node |-> NewId(t), val |-> Cur(t).val] # None
      BY <3>1, ConstantsAssumption DEF Ids
    <3>3. receipts'[Pair(t)] # None  BY <2>4, <3>1, <3>2 DEF StoreReceipt, TypeOK
    <3>4. ASSUME NEW x \in nodes, <<x.org, x.key>> \notin excused
          PROVE  \/ receipts'[<<x.org, x.key>>] # None
                 \/ \E u \in Tasks : pc'[u] = "created" /\ Mine(u)' = x
      <4>1. CASE receipts[<<x.org, x.key>>] # None
        <5>1. <<x.org, x.key>> \in Orgs \X AllKeys  BY DEF TypeOK, Node
        <5> QED  BY <2>4, <3>3, <4>1, <5>1 DEF StoreReceipt, TypeOK
      <4>2. ASSUME NEW u \in Tasks, pc[u] = "created", Mine(u) = x
            PROVE  \/ receipts'[<<x.org, x.key>>] # None
                   \/ pc'[u] = "created" /\ Mine(u)' = x
        <5>1. CASE u = t
          <6>1. Pair(t) = <<x.org, x.key>>  BY <4>2, <5>1 DEF Mine, Pair
          <6> QED  BY <3>3, <6>1
        <5>2. CASE u # t  BY <1>0, <1>3, <2>1, <4>2, <5>2, Same
        <5> QED  BY <5>1, <5>2
      <4> QED  BY <3>4, <4>1, <4>2 DEF Receipted
    <3>5. Receipted'  BY <1>3, <2>1, <3>4 DEF Receipted
    <3> QED  BY <2>2, <3>5
  <2> QED  BY <1>4, <2>3, <2>4 DEF Answers
<1>5. ASSUME NEW t \in Tasks, Drops(t) PROVE Receipted' /\ OneNodePerKey'
  <2>1. Ends(t) /\ receipts' = receipts /\ excused \subseteq excused'
        /\ (pc[t] = "created" => Pair(t) \in excused')
    BY <1>5 DEF Drops
  <2> QED  BY <1>1, <1>2, <1>3, <2>1
<1>6. ASSUME NEW t \in Tasks, NEW k, NEW es, Begins(t, k, es)
      PROVE  Receipted' /\ OneNodePerKey'
  BY <1>1, <1>2, <1>6, BeginsFacts
<1>7. ASSUME NEW t \in Tasks, Removes(t) \/ CallCreate(t) PROVE Receipted' /\ OneNodePerKey'
  <2>1. nodes' = nodes /\ receipts' = receipts /\ todo' = todo
    BY <1>7, QuietSteps DEF tables
  <2>2. excused \subseteq excused'  BY <1>7 DEF Removes, CallCreate
  <2>3. \A u \in Tasks : pc[u] = "created" => pc'[u] = "created"
    BY <1>7 DEF Removes, CallCreate, At, Goto, TypeOK
  <2> QED  BY <1>1, <1>2, <2>1, <2>2, <2>3
<1>8. ASSUME NEW t \in Tasks, CreateNode(t) PROVE Receipted' /\ OneNodePerKey'
  <2>1. /\ todo' = todo /\ receipts' = receipts /\ excused' = excused
        /\ nodes' = nodes \cup {Mine(t)}
        /\ pc[t] = "create" /\ pc'[t] = "created"
        /\ \A u \in Tasks \ {t} : pc'[u] = pc[u]
    BY <1>8 DEF CreateNode, tables, Goto, Mine, TypeOK
  <2>2. \A u \in Tasks : Mine(u)' = Mine(u)  BY <1>0, <2>1, Same
  <2>3. Receipted'
    <3>1. ASSUME NEW x \in nodes, <<x.org, x.key>> \notin excused
          PROVE  \/ receipts[<<x.org, x.key>>] # None
                 \/ \E u \in Tasks : pc'[u] = "created" /\ Mine(u) = x
      <4>1. ASSUME NEW u \in Tasks, pc[u] = "created" PROVE pc'[u] = "created"
        BY <2>1, <4>1
      <4> QED  BY <3>1, <4>1 DEF Receipted
    <3> QED  BY <2>1, <2>2, <3>1 DEF Receipted
  <2>4. ASSUME NEW y \in nodes, <<y.org, y.key>> = Pair(t), Pair(t) \notin excused
        PROVE  FALSE
    <3>1. Writing(t)  BY <2>1 DEF Writing
    <3>2. receipts[<<y.org, y.key>>] = None  BY <2>4, <3>1 DEF NoReceiptYet
    <3>3. PICK u \in Tasks : pc[u] = "created" /\ Mine(u) = y
      BY <2>4, <3>2 DEF Receipted
    <3>4. u # t /\ Writing(u)  BY <2>1, <3>3 DEF Writing
    <3>5. Pair(u) = Pair(t)  BY <2>4, <3>3 DEF Mine, Pair
    <3> QED  BY <2>4, <3>1, <3>4, <3>5 DEF OneWriter, SamePair
  <2>5. Mine(t).org = org[t] /\ Mine(t).key = Cur(t).key  BY DEF Mine
  <2>6. OneNodePerKey'
    <3>1. ASSUME NEW x \in nodes', NEW y \in nodes', x.org = y.org, x.key = y.key,
                 <<x.org, x.key>> \notin excused
          PROVE  x = y
      <4>1. CASE x \in nodes /\ y \in nodes  BY <3>1, <4>1 DEF OneNodePerKey
      <4>2. CASE x = Mine(t) /\ y \in nodes  BY <2>4, <2>5, <3>1, <4>2 DEF Pair
      <4>3. CASE y = Mine(t) /\ x \in nodes  BY <2>4, <2>5, <3>1, <4>3 DEF Pair
      <4>4. CASE x = Mine(t) /\ y = Mine(t)  BY <4>4
      <4> QED  BY <2>1, <4>1, <4>2, <4>3, <4>4
    <3> QED  BY <2>1, <3>1 DEF OneNodePerKey
  <2> QED  BY <2>3, <2>6
<1>9. ASSUME Idles \/ \E p \in Proposals : Propose(p) PROVE Receipted' /\ OneNodePerKey'
  BY <1>1, <1>2, <1>9, QuietSteps DEF Idles, tables
<1>10. CASE Restart
  <2>1. nodes' = nodes /\ excused \subseteq excused'
        /\ \A x \in nodes : <<x.org, x.key>> \in excused'
    BY <1>10 DEF Restart, graph
  <2> QED  BY <1>1, <2>1 DEF Receipted
<1> QED  BY <1>4, <1>5, <1>6, <1>7, <1>8, <1>9, <1>10, Steps DEF Normal

-----------------------------------------------------------------------------
(* Approvals                                                               *)

LEMMA ApprovedStep ==
    ASSUME TypeOK, Shape, ReceiptsTrue, Unanswered, Approvals, ApprovedIsWritten, [Next]_vars
    PROVE  ApprovedIsWritten'
<1>0. nodes \subseteq nodes'  BY NodesStay
<1>1. ASSUME prop' = prop PROVE ApprovedIsWritten'
  BY <1>0, <1>1 DEF ApprovedIsWritten
<1>2. prop \in [Proposals -> Proposal \cup {NoProposal}]  BY DEF TypeOK
<1>3. ASSUME NEW q \in Proposals, Decided(q)
      PROVE  ApprovedIsWritten'
  <2>1. prop[q] \in Proposal  BY <1>2, <1>3 DEF Decided
  <2>2. /\ prop'[q].status = "approved" => ~prop'[q].writes
        /\ prop'[q].writes = prop[q].writes /\ prop'[q].node = prop[q].node
    BY <1>2, <1>3, <2>1 DEF Proposal, Decided, Decide
  <2>3. \A p \in Proposals \ {q} : prop'[p] = prop[p]  BY <1>2, <1>3 DEF Decided, Decide
  <2> QED  BY <1>0, <2>2, <2>3 DEF ApprovedIsWritten
<1>4. ASSUME NEW t \in Tasks, NEW n, Answers(t, n) PROVE ApprovedIsWritten'
  <2>1. [id |-> n, org |-> org[t], key |-> Cur(t).key, val |-> Cur(t).val] \in nodes
        /\ Busy(t)
    BY <1>4, AnswerIsNode DEF Answers, Ends
  <2>2. CASE kind[t] # "approve"
    BY <1>1, <1>4, <2>2 DEF Answers, Approved
  <2>3. CASE kind[t] = "approve"
    <3> DEFINE q == Cur(t).key
    <3>1. /\ q \in Proposals /\ prop[q] \in Proposal
          /\ prop[q].org = org[t] /\ prop[q].val = Cur(t).val /\ prop[q].writes
      BY <1>2, <2>1, <2>3 DEF Approvals
    <3>2. prop' = [prop EXCEPT ![q].status = "approved", ![q].node = n]
      BY <1>4, <2>3 DEF Answers, Approved
    <3>3. [id |-> n, org |-> org[t], key |-> q, val |-> Cur(t).val] \in nodes
      BY <2>1
    <3> HIDE DEF q
    <3>4. /\ prop'[q].node = n /\ prop'[q].org = org[t] /\ prop'[q].val = Cur(t).val
          /\ prop'[q].writes
      BY <1>2, <3>1, <3>2 DEF Proposal
    <3>5. \A p \in Proposals \ {q} : prop'[p] = prop[p]  BY <1>2, <3>1, <3>2
    <3> QED  BY <1>0, <3>3, <3>4, <3>5 DEF ApprovedIsWritten
  <2> QED  BY <2>2, <2>3
<1>5. ASSUME NEW q \in Proposals, Propose(q) PROVE ApprovedIsWritten'
  <2>1. PICK o \in Orgs, v \in Vals \ {Bad}, w \in BOOLEAN :
            prop' = [prop EXCEPT ![q] = [status |-> "pending_approval", org |-> o,
                                         val |-> v, node |-> None, writes |-> w]]
    BY <1>5 DEF Propose
  <2>2. /\ prop'[q].status = "pending_approval" /\ prop'[q].node = None
        /\ \A p \in Proposals \ {q} : prop'[p] = prop[p]
    BY <1>2, <2>1
  <2> QED  BY <1>0, <2>2 DEF ApprovedIsWritten
<1>6. ASSUME NEW t \in Tasks, Drops(t) \/ Removes(t) \/ CallCreate(t) \/ CreateNode(t)
      PROVE  prop' = prop
  BY <1>6 DEF Drops, Removes, CallCreate, CreateNode
<1>7. ASSUME Idles PROVE prop' = prop  BY <1>7 DEF Idles
<1>8. CASE Restart
  BY <1>8 DEF Restart, ApprovedIsWritten, NoProposal
<1>9. ASSUME NEW t \in Tasks, NEW k, NEW es, Begins(t, k, es) PROVE ApprovedIsWritten'
  BY <1>1, <1>3, <1>9 DEF Begins
<1> QED  BY <1>1, <1>4, <1>5, <1>6, <1>7, <1>8, <1>9, Steps DEF Normal

-----------------------------------------------------------------------------
(* The theorems                                                            *)

LEMMA InvInit == Init => Inv
<1> SUFFICES ASSUME Init PROVE Inv  OBVIOUS
<1> USE ConstantsAssumption DEF Init
<1>1. TypeOK  BY EmptyTodo DEF TypeOK, AllKeys
<1>2. Shape /\ ImportKeys /\ Approvals /\ Unanswered /\ OneWriter /\ NoReceiptYet
  BY DEF Shape, ImportKeys, Approvals, Unanswered, OneWriter, NoReceiptYet, Busy, Awaiting,
         Writing
<1>3. IdsBehind /\ IdsUnique /\ ReceiptsTrue /\ ProcessedTrue /\ Claimed /\ Accounted
      /\ Receipted
  BY DEF IdsBehind, IdsUnique, ReceiptsTrue, ProcessedTrue, Claimed, Accounted, Receipted
<1>4. AnswersTrue /\ OneNodePerKey /\ ImportsDisjoint /\ ApprovedIsWritten
  BY DEF AnswersTrue, OneNodePerKey, ImportsDisjoint, ApprovedIsWritten, NoProposal
<1> QED  BY <1>1, <1>2, <1>3, <1>4 DEF Inv

LEMMA InvNext == Inv /\ [Next]_vars => Inv'
BY TypeStep, ShapeStep, ImportKeysStep, ApprovalsStep, IdsStep, TablesStep, UnansweredStep,
   ClaimedStep, AccountedStep, WritersStep, NodesStep, ApprovedStep DEF Inv

\* The inductive invariant holds in every behaviour of the controlled writes.
THEOREM InvCorrect == Spec => []Inv
BY InvInit, InvNext, PTL DEF Spec

\* The state of the services has its types, whatever calls, failures and
\* restarts there are.
THEOREM TypeCorrect == Spec => []TypeOK
BY InvCorrect, PTL DEF Inv

\* What KnowledgeWriteService.write returns always names a node created for
\* the caller's organisation, key and content.
THEOREM TrueAnswers == Spec => []AnswersTrue
BY InvCorrect, PTL DEF Inv

\* Idempotency: one node per organisation and key, unless writes under that
\* key overlapped, failed after their effect, or a restart lost the receipt.
THEOREM OneNode == Spec => []OneNodePerKey
BY InvCorrect, PTL DEF Inv

\* Two changesets never claim to have created the same node.
THEOREM DisjointImports == Spec => []ImportsDisjoint
BY InvCorrect, PTL DEF Inv

\* A finished changeset reports each of its create entries as failed, or a
\* node was written under its key.
THEOREM NothingLost == Spec => []EntriesAccounted
<1>1. Inv => EntriesAccounted
  BY DEF Inv, Shape, Accounted, EntriesAccounted
<1> QED  BY <1>1, InvCorrect, PTL

\* An approved proposal was written, as proposed, for its organisation.
THEOREM ApprovalWrites == Spec => []ApprovedIsWritten
BY InvCorrect, PTL DEF Inv

=============================================================================
