--------------------------- MODULE KnowledgeWrite ---------------------------
(***************************************************************************)
(* Controlled writes to the knowledge graph, made safe to repeat by        *)
(* idempotency keys: KnowledgeWriteService.write (knowledge/api/write.py), *)
(* the changesets of an ERP or PIM system (knowledge/importer) and the     *)
(* approval of promotion proposals (memory/promotion).                     *)
(*                                                                         *)
(* All three hand the registry no embedding, so that the double write of   *)
(* KnowledgeSync comes down to one call of the graph.  The tables that     *)
(* detect repetition live in the memory of the process.                    *)
(*                                                                         *)
(* A task whose pc is "ready" holds the event loop: no other task moves    *)
(* before it awaits or ends.                                               *)
(***************************************************************************)
EXTENDS Naturals, Sequences, FiniteSets

CONSTANTS Tasks,       \* calls of write, process and approve_proposal, in order
          Orgs,        \* organisations
          Keys,        \* idempotency keys that callers and ERP systems choose
          Proposals,   \* promotion proposals; promotion#id is the key of p
          Vals,        \* contents of an entry
          Bad,         \* a content that lacks a required property
          None,
          MaxCreates,  \* bound: create entries of a changeset
          MaxFaults    \* bound: calls of the graph that fail, and restarts

ASSUME ConstantsAssumption ==
    /\ Tasks \subseteq Nat
    /\ Keys \cap Proposals = {} /\ Bad \in Vals
    /\ None \notin Vals \cup Keys \cup Proposals \cup (Tasks \X Nat)
    /\ None \notin [node: Tasks \X Nat, val: Vals]
    /\ MaxCreates \in Nat /\ MaxFaults \in Nat

VARIABLES nodes,      \* every node ever created
          gone,       \* ids of the nodes deleted
          receipts,   \* KnowledgeWriteService._receipts
          processed,  \* ChangeSetProcessor._processed_keys
          prop,       \* PromotionPipeline._proposals
          late,       \* proposals whose approval window has passed
          pc, kind, org,
          todo,       \* todo[t]: the entries of task t not yet dealt with
          asked,      \* asked[t]: the keys of its create entries
          got,        \* got[t]: what its writes returned
          failed,     \* failed[t]: keys its audit reports, or its write raised for
          excused,    \* ghost: pairs of organisation and key whose writes
                      \* overlapped, failed, or lost their receipt
          faults

tables == <<receipts, processed>>
graph == <<nodes, gone>>
task == <<kind, org, asked>>
results == <<got, failed>>
vars == <<graph, tables, prop, late, pc, task, todo, results, excused, faults>>

AllKeys == Keys \cup Proposals
Ids == Tasks \X Nat
Node == [id: Ids, org: Orgs, key: AllKeys, val: Vals]
Entry == [op: {"create"}, key: AllKeys, val: Vals, node: {None}]
         \cup [op: {"delete"}, key: {None}, val: {None}, node: Ids]
Receipt == [node: Ids, val: Vals]
Awaiting == {"create", "created", "delete", "deleted", "missing"}
Proposal == [status: {"pending_approval", "approved", "expired"},
             org: Orgs, val: Vals, node: Ids \cup {None},
             writes: BOOLEAN]   \* its pipeline was given a KnowledgeWriteService
NoProposal == [status |-> "none", org |-> None, val |-> None, node |-> None,
               writes |-> FALSE]

Create(k, v) == [op |-> "create", key |-> k, val |-> v, node |-> None]
Delete(n) == [op |-> "delete", key |-> None, val |-> None, node |-> n]

Cur(t) == Head(todo[t])
Pair(t) == <<org[t], Cur(t).key>>
NewId(t) == <<t, Len(todo[t])>>
Live == {x \in nodes : x.id \notin gone}

TypeOK ==
    /\ nodes \subseteq Node
    /\ gone \subseteq Ids
    /\ receipts \in [Orgs \X AllKeys -> Receipt \cup {None}]
    /\ processed \in [Keys -> Ids \cup {None}]
    /\ prop \in [Proposals -> Proposal \cup {NoProposal}]
    /\ late \subseteq Proposals
    /\ pc \in [Tasks -> {"idle", "ready", "ended", "lost"} \cup Awaiting]
    /\ kind \in [Tasks -> {"write", "import", "approve"}]
    /\ org \in [Tasks -> Orgs]
    /\ todo \in [Tasks -> Seq(Entry)]
    /\ got \in [Tasks -> SUBSET [key: AllKeys, val: Vals, node: Ids]]
    /\ asked \in [Tasks -> SUBSET AllKeys]
    /\ failed \in [Tasks -> SUBSET (AllKeys \cup {None})]
    /\ excused \subseteq Orgs \X AllKeys
    /\ faults \in 0..MaxFaults

Init ==
    /\ nodes = {} /\ gone = {}
    /\ receipts = [ok \in Orgs \X AllKeys |-> None]
    /\ processed = [k \in Keys |-> None]
    /\ prop = [p \in Proposals |-> NoProposal]
    /\ late = {}
    /\ pc = [t \in Tasks |-> "idle"]
    /\ kind = [t \in Tasks |-> "write"]
    /\ org \in [Tasks -> Orgs]
    /\ todo = [t \in Tasks |-> << >>]
    /\ got = [t \in Tasks |-> {}]
    /\ asked = [t \in Tasks |-> {}]
    /\ failed = [t \in Tasks |-> {}]
    /\ excused = {}
    /\ faults = 0

-----------------------------------------------------------------------------
(* A task begins                                                           *)

LoopFree == \A u \in Tasks : pc[u] # "ready"

Arrives(t) ==
    /\ pc[t] = "idle" /\ \A u \in Tasks : u < t => pc[u] # "idle"
    /\ LoopFree

Goto(t, l) == pc' = [pc EXCEPT ![t] = l]

Start(t, k, entries) ==
    /\ kind' = [kind EXCEPT ![t] = k]
    /\ todo' = [todo EXCEPT ![t] = entries]
    /\ asked' = [asked EXCEPT ![t] = {entries[i].key : i \in {j \in DOMAIN entries :
                                                     entries[j].op = "create"}}]
    /\ Goto(t, IF entries = << >> THEN "ended" ELSE "ready")
    /\ UNCHANGED <<graph, tables, late, org, results, excused, faults>>

BeginWrite(t) ==
    /\ Arrives(t)
    /\ \E k \in Keys, v \in Vals : Start(t, "write", <<Create(k, v)>>)
    /\ UNCHANGED prop

\* The node ids a caller knows: those in the audit of a changeset.
Known == {g.node : g \in UNION {got[u] : u \in {w \in Tasks : kind[w] = "import"
                                                           /\ pc[w] = "ended"}}}

\* Creates are processed first and deletes last, whatever their order in
\* the changeset.
SeqUpTo(S, n) == UNION {[1..m -> S] : m \in 0..n}
Creates == {Create(k, v) : k \in Keys, v \in Vals}
Deletes == {Delete(n) : n \in Known}
BeginImport(t) ==
    /\ Arrives(t)
    /\ \E cs \in SeqUpTo(Creates, MaxCreates), ds \in SeqUpTo(Deletes, 1) :
          Start(t, "import", cs \o ds)
    /\ UNCHANGED prop

\* A proposal past its window expires, whatever its status was.  A pipeline
\* without a writer (the default) approves and writes nothing; one with a
\* writer approves when the write has returned.
Decide(p, s) == prop' = [prop EXCEPT ![p].status = s]
BeginApprove(t, p) ==
    /\ Arrives(t)
    /\ prop[p] # NoProposal /\ org[t] = prop[p].org
    /\ \/ p \in late /\ Decide(p, "expired") /\ Start(t, "approve", << >>)
       \/ /\ p \notin late /\ ~prop[p].writes
          /\ Decide(p, "approved") /\ Start(t, "approve", << >>)
       \/ /\ p \notin late /\ prop[p].writes
          /\ Start(t, "approve", <<Create(p, prop[p].val)>>) /\ UNCHANGED prop

-----------------------------------------------------------------------------
(* How an entry ends                                                       *)

NextEntry(t) ==
    /\ todo' = [todo EXCEPT ![t] = Tail(@)]
    /\ Goto(t, IF Tail(todo[t]) = << >> THEN "ended" ELSE "ready")

Return(t, n) ==
    got' = [got EXCEPT ![t] = @ \cup {[key |-> Cur(t).key, val |-> Cur(t).val, node |-> n]}]

RememberNew(t, n) ==
    processed' = IF kind[t] = "import" /\ n[1] = t
                 THEN [processed EXCEPT ![Cur(t).key] = n] ELSE processed
RememberKey(t, n) ==
    processed' = IF kind[t] = "import" THEN [processed EXCEPT ![Cur(t).key] = n]
                                       ELSE processed

\* The status of the receipt, given to the proposal.
ApprovedAsReceipt(t, n) ==
    prop' = IF kind[t] = "approve"
            THEN [prop EXCEPT ![Cur(t).key].status = "promoted", ![Cur(t).key].node = n]
            ELSE prop
Approved(t, n) ==
    prop' = IF kind[t] = "approve"
            THEN [prop EXCEPT ![Cur(t).key].status = "approved", ![Cur(t).key].node = n]
            ELSE prop

Succeed(t, n) ==
    /\ Return(t, n)
    /\ RememberKey(t, n)
    /\ Approved(t, n)
    /\ NextEntry(t)
    /\ UNCHANGED failed

\* The approval of a failed write returns and leaves its proposal pending.
ApproveAnyway(t) == Approved(t, NewId(t))
KeepProposal(t) == UNCHANGED prop

RememberFailed(t) == RememberKey(t, NewId(t))
KeepKeys(t) == UNCHANGED processed

Drop(t) ==
    /\ KeepProposal(t)
    /\ KeepKeys(t)
    /\ NextEntry(t)
    /\ UNCHANGED got

Skip(t) == Drop(t) /\ UNCHANGED failed
Report(t) == Drop(t) /\ failed' = [failed EXCEPT ![t] = @ \cup {Cur(t).key}]

-----------------------------------------------------------------------------
(* A create entry, up to its call of the graph                             *)

At(t, op) == pc[t] = "ready" /\ Cur(t).op = op
Cached(t) == receipts[Pair(t)]
Repeated(t) == kind[t] = "import" /\ processed[Cur(t).key] # None

\* The same content under the same key; another content is a conflict.
AnyContent(t) == Cached(t) # None
SameContent(t) == Cached(t) # None /\ Cached(t).val = Cur(t).val

SkipRepeated(t) ==
    /\ At(t, "create") /\ Repeated(t)
    /\ Skip(t)
    /\ UNCHANGED <<graph, receipts, late, task, excused, faults>>

ReturnCached(t) ==
    /\ At(t, "create") /\ ~Repeated(t) /\ SameContent(t)
    /\ Succeed(t, Cached(t).node)
    /\ UNCHANGED <<graph, receipts, late, task, excused, faults>>

KeyConflict(t) ==
    /\ At(t, "create") /\ ~Repeated(t) /\ Cached(t) # None /\ ~SameContent(t)
    /\ IF kind[t] = "import" THEN Skip(t) ELSE Report(t)
    /\ UNCHANGED <<graph, receipts, late, task, excused, faults>>

Invalid(t) ==
    /\ At(t, "create") /\ ~Repeated(t) /\ Cached(t) = None /\ Cur(t).val = Bad
    /\ Report(t)
    /\ UNCHANGED <<graph, receipts, late, task, excused, faults>>

SamePair(t, u) == Pair(u) = Pair(t)
Writing(u) == pc[u] \in {"create", "created"}

CallCreate(t) ==
    /\ At(t, "create") /\ ~Repeated(t) /\ Cached(t) = None /\ Cur(t).val # Bad
    /\ Goto(t, "create")
    /\ excused' = excused \cup
         {Pair(t) : u \in {w \in Tasks : Writing(w) /\ SamePair(t, w)}}
    /\ UNCHANGED <<graph, tables, prop, late, task, todo, results, faults>>

-----------------------------------------------------------------------------
(* The graph, and the code after its answer                                *)

CreateNode(t) ==
    /\ pc[t] = "create"
    /\ nodes' = nodes \cup {[id |-> NewId(t), org |-> org[t],
                             key |-> Cur(t).key, val |-> Cur(t).val]}
    /\ Goto(t, "created")
    /\ UNCHANGED <<gone, tables, prop, late, task, todo, results, excused, faults>>

ForgetReceipt(t) == UNCHANGED receipts
StoreReceipt(t) ==
    receipts' = [receipts EXCEPT ![Pair(t)] =
                    [node |-> NewId(t), val |-> Cur(t).val]]

AfterCreate(t) ==
    /\ pc[t] = "created" /\ LoopFree
    /\ StoreReceipt(t)
    /\ Succeed(t, NewId(t))
    /\ UNCHANGED <<graph, late, task, excused, faults>>

Fault == faults < MaxFaults /\ faults' = faults + 1

CreateRaises(t) ==
    /\ Writing(t) /\ LoopFree
    /\ Fault
    /\ Report(t)
    /\ excused' = excused \cup {Pair(t) : x \in {pc[t]} \cap {"created"}}
    /\ UNCHANGED <<graph, receipts, late, task>>

\* delete_with_fk: these nodes have no vectors to delete first.
CallDelete(t) ==
    /\ At(t, "delete")
    /\ Goto(t, "delete")
    /\ UNCHANGED <<graph, tables, prop, late, task, todo, results, excused, faults>>

DeleteNode(t) ==
    /\ pc[t] = "delete"
    /\ gone' = gone \cup {Cur(t).node}
    /\ Goto(t, IF Cur(t).node \in gone THEN "missing" ELSE "deleted")
    /\ UNCHANGED <<nodes, tables, prop, late, task, todo, results, excused, faults>>

AfterDelete(t) ==
    /\ LoopFree
    /\ \/ pc[t] = "deleted" /\ Skip(t)
       \/ pc[t] = "missing" /\ Report(t)
    /\ UNCHANGED <<graph, receipts, late, task, excused, faults>>

DeleteRaises(t) ==
    /\ pc[t] \in {"delete", "deleted", "missing"} /\ LoopFree
    /\ Fault
    /\ Report(t)
    /\ UNCHANGED <<graph, receipts, late, task, excused>>

-----------------------------------------------------------------------------
(* Proposals, time, restarts (a lost proposal is not proposed again)       *)

\* create_proposal; content that does not pass the sanitizer gets none.
Propose(p) ==
    /\ LoopFree /\ prop[p] = NoProposal /\ p \notin late
    /\ \E o \in Orgs, v \in Vals \ {Bad}, w \in BOOLEAN :
          prop' = [prop EXCEPT ![p] = [status |-> "pending_approval", org |-> o,
                                       val |-> v, node |-> None, writes |-> w]]
    /\ UNCHANGED <<graph, tables, late, pc, task, todo, results, excused, faults>>

WindowPasses(p) ==
    /\ LoopFree /\ prop[p] # NoProposal /\ p \notin late
    /\ late' = late \cup {p}
    /\ UNCHANGED <<graph, tables, prop, pc, task, todo, results, excused, faults>>

Restart ==
    /\ LoopFree
    /\ Fault
    /\ receipts' = [ok \in Orgs \X AllKeys |-> None]
    /\ processed' = [k \in Keys |-> None]
    /\ prop' = [p \in Proposals |-> NoProposal]
    /\ late' = {p \in Proposals : p \in late \/ prop[p] # NoProposal}
    /\ pc' = [t \in Tasks |-> IF pc[t] \in Awaiting THEN "lost" ELSE pc[t]]
    /\ excused' = excused \cup {<<x.org, x.key>> : x \in nodes}
                          \cup {Pair(t) : t \in {u \in Tasks : Writing(u)}}
    /\ UNCHANGED <<graph, task, todo, results>>

-----------------------------------------------------------------------------

Step(t) ==
    \/ SkipRepeated(t) \/ ReturnCached(t) \/ KeyConflict(t) \/ Invalid(t)
    \/ CallCreate(t) \/ CreateNode(t) \/ AfterCreate(t)
    \/ CallDelete(t) \/ DeleteNode(t) \/ AfterDelete(t)

Next ==
    \/ \E t \in Tasks : \/ BeginWrite(t) \/ BeginImport(t)
                        \/ \E p \in Proposals : BeginApprove(t, p)
                        \/ Step(t) \/ CreateRaises(t) \/ DeleteRaises(t)
    \/ \E p \in Proposals : Propose(p) \/ WindowPasses(p)
    \/ Restart

Spec == Init /\ [][Next]_vars

-----------------------------------------------------------------------------
(* Properties                                                              *)

\* Whatever a write returned, from the graph or from the table, names a node
\* that was created for this organisation, under this key, with this content.
AnswersTrue ==
    \A t \in Tasks : \A g \in got[t] :
        [id |-> g.node, org |-> org[t], key |-> g.key, val |-> g.val] \in nodes

\* One node per organisation and key, unless two writes overlapped, a write
\* failed after it took effect, or a restart lost the receipt.
OneNodePerKey ==
    \A x, y \in nodes :
        (x.org = y.org /\ x.key = y.key /\ <<x.org, x.key>> \notin excused) => x = y

\* No two changesets report to have created the same node, so that rolling
\* one back leaves the other's nodes alone.
ImportsDisjoint ==
    \A t, u \in Tasks : \A g \in got[t], h \in got[u] :
        (kind[t] = "import" /\ kind[u] = "import" /\ t # u) => g.node # h.node

\* Every entry of a finished changeset is reported as failed or has a node
\* under its key: repetition is never detected where nothing was written.
\* (The node may be another organisation's: _processed_keys knows no organisation.)
EntriesAccounted ==
    \A t \in Tasks : (kind[t] = "import" /\ pc[t] = "ended") =>
        \A k \in asked[t] \ failed[t] : \E x \in nodes : x.key = k

\* A proposal approved by a pipeline with a writer has been written as it was
\* proposed, and names its node, however often it is approved, fails and is
\* approved again.  A proposal to a pipeline without a writer, for which
\* approved says nothing of the graph, never names a node.
ApprovedIsWritten ==
    \A p \in Proposals :
        /\ (prop[p].status = "approved" /\ prop[p].writes) =>
               [id |-> prop[p].node, org |-> prop[p].org, key |-> p, val |-> prop[p].val]
                   \in nodes
        /\ ~prop[p].writes => prop[p].node = None

\* 02-Knowledge section 7.2: a proposal that expired is not written.
ExpiredNotWritten ==
    \A p \in Proposals : prop[p].status = "expired" => \A x \in nodes : x.key # p

=============================================================================
