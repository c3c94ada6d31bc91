---------------------- MODULE ConversationTurns_proofs ----------------------
(***************************************************************************)
(* Proofs about ConversationTurns for any turns, sessions, connections,    *)
(* database failures and restarts.                                         *)
(***************************************************************************)
EXTENDS ConversationTurns, Sequences, FiniteSetTheorems, TLAPS

\* A number is never used twice in a session: the unique constraint.
UniqueSeqs ==
    \A r1, r2 \in rows : r1.session = r2.session /\ r1.seq = r2.seq => r1 = r2

\* Between its SELECT and its INSERT a turn holds a number that is either
\* taken by now or the next one.
CountedWithinReach ==
    \A t \in Turns :
        pc[t] = "insert" => seq[t] \in 1..(Cardinality(RowsOf(sess[t])) + 1)

Inv ==
    /\ TypeOK
    /\ IsFiniteSet(rows)
    /\ SeqContiguous
    /\ UniqueSeqs
    /\ CountedWithinReach

-----------------------------------------------------------------------------

LEMMA TypeInit == Init => TypeOK
BY ConstantsAssumption DEF Init, TypeOK, Pc, Role, Event

LEMMA NewRowType ==
    ASSUME TypeOK, NEW t \in Turns
    PROVE  /\ NewRow(t) \in Event
           /\ NewRow(t).session = sess[t] /\ NewRow(t).seq = seq[t]
           /\ NewRow(t).turn = t /\ NewRow(t).role = role[t]
           /\ NewRow(t).at = at[t]
BY DEF NewRow, TypeOK, Event

LEMMA SessionRowsFinite ==
    ASSUME IsFiniteSet(rows), NEW s
    PROVE  IsFiniteSet(RowsOf(s)) /\ Cardinality(RowsOf(s)) \in Nat
BY FS_Subset, FS_CardinalityType DEF RowsOf

\* Type correctness of one step.
LEMMA TypeStep == TypeOK /\ [Next]_vars /\ IsFiniteSet(rows) => TypeOK'
<1> SUFFICES ASSUME TypeOK, [Next]_vars, IsFiniteSet(rows) PROVE TypeOK'
  OBVIOUS
<1> USE ConstantsAssumption
<1>a. ASSUME NEW t \in Turns, NEW l \in Pc, Goto(t, l)
      PROVE  pc' \in [Turns -> Pc]
  BY <1>a DEF Goto, TypeOK
<1>b. ASSUME NEW t \in Turns, DropConn(t)
      PROVE  conn' \in [Conns -> {"open", "gone", "closed"}]
  BY <1>b DEF DropConn, TypeOK
<1>c. ASSUME Fault PROVE faults' \in 0..MaxFaults /\ crashes' = crashes
  BY <1>c DEF Fault, TypeOK
<1> USE DEF turnVars, appendVars, bounds
<1>1. ASSUME NEW t \in Turns, LoadHistory(t) PROVE TypeOK'
  <2>1. RowsOf(sess[t]) \subseteq Event /\ AnsweredBefore(t) \subseteq Turns
    BY DEF RowsOf, TypeOK, AnsweredBefore
  <2>2. pc' \in [Turns -> Pc]
    BY <1>1, <1>a DEF LoadHistory, Pc
  <2> QED BY <1>1, <2>1, <2>2 DEF LoadHistory, History, TypeOK
<1>2. ASSUME NEW t \in Turns, LoadHistoryFails(t) PROVE TypeOK'
  BY <1>2, <1>a, <1>b, <1>c DEF LoadHistoryFails, Fail, TypeOK, Pc
<1>3. ASSUME NEW t \in Turns, StreamStart(t) PROVE TypeOK'
  BY <1>3, <1>a, <1>b DEF StreamStart, Fail, TypeOK, Pc
<1>4. ASSUME NEW t \in Turns, Think(t) PROVE TypeOK'
  BY <1>4, <1>a, <1>b DEF Think, Fail, TypeOK, Pc
<1>5. ASSUME NEW t \in Turns, CountEvents(t) PROVE TypeOK'
  <2>1. Cardinality(RowsOf(sess[t])) + 1 \in Nat
    BY SessionRowsFinite
  <2>2. pc' \in [Turns -> Pc]
    BY <1>5, <1>a DEF CountEvents, Pc
  <2>3. seq' \in [Turns -> Nat]
    BY <1>5, <2>1 DEF CountEvents, TypeOK
  <2>4. at' \in [Turns -> Nat] /\ clock' \in Nat
    BY <1>5 DEF CountEvents, CreatedAt, TypeOK
  <2> QED BY <1>5, <2>2, <2>3, <2>4 DEF CountEvents, TypeOK
<1>6. ASSUME NEW t \in Turns, InsertEvent(t) PROVE TypeOK'
  <2>1. pc' \in [Turns -> Pc] /\ role' \in [Turns -> Role]
    BY <1>6, <1>a DEF InsertEvent, AfterAppend, Pc, Role, TypeOK
  <2> QED BY <1>6, <2>1, NewRowType DEF InsertEvent, TypeOK
<1>7. ASSUME NEW t \in Turns, InsertRefused(t) PROVE TypeOK'
  BY <1>7, <1>a DEF InsertRefused, SwallowFailure, SkipRest, TypeOK, Pc
<1>8. ASSUME NEW t \in Turns, AppendFails(t) PROVE TypeOK'
  <2>1. rows' \subseteq Event
    BY <1>8, NewRowType DEF AppendFails, TypeOK
  <2>2. pc' \in [Turns -> Pc]
    BY <1>8, <1>a DEF AppendFails, SkipRest, Pc
  <2> QED BY <1>8, <1>c, <2>1, <2>2 DEF AppendFails, SkipRest, TypeOK
<1>9. ASSUME NEW t \in Turns, Reply(t) PROVE TypeOK'
  BY <1>9, <1>a, <1>b DEF Reply, TypeOK, Pc
<1>10. ASSUME NEW c \in Conns, Disconnect(c) \/ EndConnection(c) PROVE TypeOK'
  BY <1>10 DEF Disconnect, EndConnection, TypeOK
<1>11. CASE Crash
  BY <1>11 DEF Crash, TypeOK, Pc
<1>12. CASE UNCHANGED vars
  BY <1>12 DEF vars, TypeOK
<1> QED
  BY <1>1, <1>2, <1>3, <1>4, <1>5, <1>6, <1>7, <1>8, <1>9, <1>10, <1>11,
     <1>12 DEF Next, TurnStep

-----------------------------------------------------------------------------
(* Adding the next row to a session.                                       *)

\* A turn whose number is not taken adds the next row of its session.
LEMMA FreeIsNext ==
    ASSUME Inv, NEW t \in Turns, pc[t] = "insert",
           seq[t] \notin TakenSeqs(sess[t])
    PROVE  /\ Cardinality(RowsOf(sess[t])) \in Nat
           /\ seq[t] = Cardinality(RowsOf(sess[t])) + 1
           /\ \A r \in RowsOf(sess[t]) : r.seq < seq[t]
<1>1. sess[t] \in Sessions
  BY DEF Inv, TypeOK
<1>2. Cardinality(RowsOf(sess[t])) \in Nat
  BY SessionRowsFinite DEF Inv
<1>3. SeqsOf(sess[t]) = 1..Cardinality(RowsOf(sess[t]))
  BY <1>1 DEF Inv, SeqContiguous
<1>4. seq[t] = Cardinality(RowsOf(sess[t])) + 1
  BY <1>2, <1>3 DEF Inv, CountedWithinReach, TakenSeqs
<1>5. \A r \in RowsOf(sess[t]) : r.seq \in SeqsOf(sess[t])
  BY DEF SeqsOf
<1> QED BY <1>2, <1>3, <1>4, <1>5

\* The numbering invariants survive the insertion of the next row, whatever
\* the step does to pc, as long as only t leaves or enters "insert".
LEMMA InsertKeepsNumbering ==
    ASSUME Inv, NEW t \in Turns, pc[t] = "insert",
           seq[t] \notin TakenSeqs(sess[t]),
           rows' = rows \cup {NewRow(t)},
           UNCHANGED <<sess, seq>>,
           pc'[t] # "insert",
           \A u \in Turns : pc'[u] = "insert" => pc[u] = "insert"
    PROVE  /\ IsFiniteSet(rows')
           /\ SeqContiguous'
           /\ UniqueSeqs'
           /\ CountedWithinReach'
<1> DEFINE n(s) == Cardinality(RowsOf(s))
<1>1. IsFiniteSet(rows')
  BY FS_AddElement DEF Inv
<1>2. sess[t] \in Sessions /\ TypeOK
  BY DEF Inv, TypeOK
<1>3. n(sess[t]) \in Nat /\ seq[t] = n(sess[t]) + 1
      /\ \A r \in RowsOf(sess[t]) : r.seq < seq[t]
  BY FreeIsNext
<1>4. RowsOf(sess[t])' = RowsOf(sess[t]) \cup {NewRow(t)}
  BY <1>2, NewRowType DEF RowsOf
<1>5. NewRow(t) \notin RowsOf(sess[t])
  BY <1>2, <1>3, NewRowType
<1>6. Cardinality(RowsOf(sess[t])') = n(sess[t]) + 1
  BY <1>4, <1>5, SessionRowsFinite, FS_AddElement DEF Inv
<1>7. \A s \in Sessions : s # sess[t] => RowsOf(s)' = RowsOf(s)
  BY <1>2, NewRowType DEF RowsOf
<1>8. SeqContiguous'
  <2> SUFFICES ASSUME NEW s \in Sessions
               PROVE  SeqsOf(s)' = 1..Cardinality(RowsOf(s)')
    BY DEF SeqContiguous
  <2>1. SeqsOf(s) = 1..n(s)
    BY DEF Inv, SeqContiguous
  <2>2. CASE s = sess[t]
    <3>1. SeqsOf(s)' = SeqsOf(s) \cup {seq[t]}
      BY <1>2, <1>4, <2>2, NewRowType DEF SeqsOf
    <3> QED BY <2>1, <2>2, <3>1, <1>3, <1>6
  <2>3. CASE s # sess[t]
    BY <2>1, <2>3, <1>7 DEF SeqsOf
  <2> QED BY <2>2, <2>3
<1>9. UniqueSeqs'
  <2> SUFFICES ASSUME NEW r1 \in rows', NEW r2 \in rows',
                      r1.session = r2.session, r1.seq = r2.seq
               PROVE  r1 = r2
    BY DEF UniqueSeqs
  <2>1. ASSUME NEW r \in rows, r.session = sess[t] PROVE r.seq # seq[t]
    <3>1. r.seq \in SeqsOf(sess[t])
      BY <2>1 DEF SeqsOf, RowsOf
    <3> QED BY <3>1 DEF TakenSeqs
  <2> QED BY <2>1, <1>2, NewRowType DEF Inv, UniqueSeqs
<1>10. CountedWithinReach'
  <2> SUFFICES ASSUME NEW u \in Turns, pc'[u] = "insert"
               PROVE  seq[u] \in 1..(Cardinality(RowsOf(sess[u])') + 1)
    BY DEF CountedWithinReach
  <2>1. pc[u] = "insert" /\ seq[u] \in 1..(n(sess[u]) + 1) /\ sess[u] \in Sessions
    BY DEF Inv, CountedWithinReach, TypeOK
  <2>2. CASE sess[u] = sess[t]
    BY <2>1, <2>2, <1>3, <1>6
  <2>3. CASE sess[u] # sess[t]
    BY <2>1, <2>3, <1>7
  <2> QED BY <2>2, <2>3
<1> QED BY <1>1, <1>8, <1>9, <1>10

\* The numbering invariants survive a step that adds no row and hands out
\* only the next number.
LEMMA NoInsertKeepsNumbering ==
    ASSUME Inv, UNCHANGED <<rows, sess>>,
           \A u \in Turns : pc'[u] = "insert" =>
               \/ pc[u] = "insert" /\ seq'[u] = seq[u]
               \/ seq'[u] = Cardinality(RowsOf(sess[u])) + 1
    PROVE  /\ IsFiniteSet(rows')
           /\ SeqContiguous'
           /\ UniqueSeqs'
           /\ CountedWithinReach'
<1>1. \A s : RowsOf(s)' = RowsOf(s) /\ SeqsOf(s)' = SeqsOf(s)
  BY DEF RowsOf, SeqsOf
<1>2. IsFiniteSet(rows') /\ SeqContiguous' /\ UniqueSeqs'
  BY <1>1 DEF Inv, SeqContiguous, UniqueSeqs
<1>3. ASSUME NEW u \in Turns, pc'[u] = "insert"
      PROVE  seq'[u] \in 1..(Cardinality(RowsOf(sess[u])) + 1)
  <2>1. Cardinality(RowsOf(sess[u])) \in Nat
    BY SessionRowsFinite DEF Inv
  <2> QED BY <1>3, <2>1 DEF Inv, CountedWithinReach
<1>4. CountedWithinReach'
  BY <1>1, <1>3 DEF CountedWithinReach
<1> QED BY <1>2, <1>4

\* Where control may go in one step: only CountEvents enters "insert".
LEMMA EntersInsert ==
    ASSUME TypeOK, NEW t \in Turns, NEW l, l # "insert", Goto(t, l)
    PROVE  \A u \in Turns : pc'[u] = "insert" => pc[u] = "insert"
BY DEF Goto, TypeOK

LEMMA InvInit == Init => Inv
<1> SUFFICES ASSUME Init PROVE Inv
  OBVIOUS
<1>1. TypeOK /\ IsFiniteSet(rows)
  BY TypeInit, FS_EmptySet DEF Init
<1>2. \A s \in Sessions : RowsOf(s) = {} /\ SeqsOf(s) = {}
  BY DEF Init, RowsOf, SeqsOf
<1>3. SeqContiguous
  BY <1>2, FS_EmptySet DEF SeqContiguous
<1> QED BY <1>1, <1>3 DEF Inv, Init, UniqueSeqs, CountedWithinReach

LEMMA InvStep ==
    Inv /\ [Next]_vars => Inv'
<1> SUFFICES ASSUME Inv, [Next]_vars PROVE Inv'
  OBVIOUS
<1>t. TypeOK /\ TypeOK' /\ IsFiniteSet(rows)
  BY TypeStep DEF Inv
<1> USE <1>t DEF turnVars, appendVars, bounds
<1>f. ASSUME UNCHANGED <<rows, sess, seq>>,
             \A u \in Turns : pc'[u] = "insert" => pc[u] = "insert"
      PROVE  Inv'
  BY <1>f, NoInsertKeepsNumbering DEF Inv
<1>i. ASSUME NEW t \in Turns, NEW l, l # "insert", Goto(t, l),
             pc[t] = "insert", seq[t] \notin TakenSeqs(sess[t]),
             rows' = rows \cup {NewRow(t)}, UNCHANGED <<sess, seq>>
      PROVE  Inv'
  <2>1. pc'[t] = l /\ \A u \in Turns : pc'[u] = "insert" => pc[u] = "insert"
    BY <1>i, EntersInsert DEF Goto, TypeOK
  <2> QED BY <1>i, <2>1, InsertKeepsNumbering DEF Inv
<1>1. ASSUME NEW t \in Turns, LoadHistory(t) PROVE Inv'
  BY <1>1, <1>f, EntersInsert DEF LoadHistory
<1>2. ASSUME NEW t \in Turns, LoadHistoryFails(t) PROVE Inv'
  BY <1>2, <1>f, EntersInsert DEF LoadHistoryFails, Fail
<1>3. ASSUME NEW t \in Turns, StreamStart(t) PROVE Inv'
  BY <1>3, <1>f, EntersInsert DEF StreamStart, Fail
<1>4. ASSUME NEW t \in Turns, Think(t) PROVE Inv'
  BY <1>4, <1>f, EntersInsert DEF Think, Fail
<1>5. ASSUME NEW t \in Turns, CountEvents(t) PROVE Inv'
  <2>1. seq' = [seq EXCEPT ![t] = Cardinality(RowsOf(sess[t])) + 1]
        /\ pc' = [pc EXCEPT ![t] = "insert"] /\ UNCHANGED <<rows, sess>>
    BY <1>5 DEF CountEvents, Goto
  <2>2. \A u \in Turns : pc'[u] = "insert" =>
           \/ pc[u] = "insert" /\ seq'[u] = seq[u]
           \/ seq'[u] = Cardinality(RowsOf(sess[u])) + 1
    BY <2>1 DEF TypeOK
  <2> QED BY <2>1, <2>2, NoInsertKeepsNumbering DEF Inv
<1>6. ASSUME NEW t \in Turns, InsertEvent(t) PROVE Inv'
  <2>1. CASE role[t] = "user"
    BY <1>6, <2>1, <1>i DEF InsertEvent, AfterAppend
  <2>2. CASE role[t] # "user"
    BY <1>6, <2>2, <1>i DEF InsertEvent, AfterAppend
  <2> QED BY <2>1, <2>2
<1>7. ASSUME NEW t \in Turns, InsertRefused(t) PROVE Inv'
  BY <1>7, <1>f, EntersInsert DEF InsertRefused, SwallowFailure, SkipRest
<1>8. ASSUME NEW t \in Turns, AppendFails(t) PROVE Inv'
  <2>1. Goto(t, "reply") /\ UNCHANGED <<sess, seq>>
    BY <1>8 DEF AppendFails, SkipRest
  <2>2. CASE UNCHANGED rows
    BY <2>1, <2>2, <1>f, EntersInsert
  <2>3. CASE /\ pc[t] = "insert" /\ seq[t] \notin TakenSeqs(sess[t])
             /\ rows' = rows \cup {NewRow(t)}
    BY <2>1, <2>3, <1>i
  <2> QED BY <1>8, <2>2, <2>3 DEF AppendFails
<1>9. ASSUME NEW t \in Turns, Reply(t) PROVE Inv'
  BY <1>9, <1>f, EntersInsert DEF Reply
<1>10. ASSUME NEW c \in Conns, Disconnect(c) \/ EndConnection(c) PROVE Inv'
  BY <1>10, <1>f DEF Disconnect, EndConnection
<1>11. CASE Crash
  BY <1>11, <1>f DEF Crash, TypeOK, Pc, Active, Final
<1>12. CASE UNCHANGED vars
  BY <1>12, <1>f DEF vars
<1> QED
  BY <1>1, <1>2, <1>3, <1>4, <1>5, <1>6, <1>7, <1>8, <1>9, <1>10, <1>11,
     <1>12 DEF Next, TurnStep

LEMMA InvCorrect ==
    Spec => []Inv
<1>1. Init => Inv
  BY InvInit
<1>2. Inv /\ [Next]_vars => Inv'
  BY InvStep
<1> QED BY <1>1, <1>2, PTL DEF Spec

\* A step adds one row or leaves the table as it is.
LEMMA FiniteStep == IsFiniteSet(rows) /\ [Next]_vars => IsFiniteSet(rows')
<1> SUFFICES ASSUME IsFiniteSet(rows), [Next]_vars PROVE IsFiniteSet(rows')
  OBVIOUS
<1>1. \/ rows' = rows
      \/ \E t \in Turns : rows' = rows \cup {NewRow(t)}
  BY DEF Next, TurnStep, vars, LoadHistory, LoadHistoryFails, StreamStart,
         Think, CountEvents, InsertEvent, InsertRefused, AppendFails, Reply,
         Disconnect, EndConnection, Crash
<1> QED BY <1>1, FS_AddElement

\* Every state of the store and of the turns is well typed.
THEOREM TypeCorrect == Spec => []TypeOK
<1>1. Init => TypeOK /\ IsFiniteSet(rows)
  BY TypeInit, FS_EmptySet DEF Init
<1>2. TypeOK /\ IsFiniteSet(rows) /\ [Next]_vars => (TypeOK /\ IsFiniteSet(rows))'
  BY TypeStep, FiniteStep
<1> QED BY <1>1, <1>2, PTL DEF Spec

\* However many turns append to however many sessions, and whatever fails,
\* each session's events are numbered 1..n.
THEOREM Contiguous ==
    Spec => []SeqContiguous
<1>1. Inv => SeqContiguous
  BY DEF Inv
<1> QED BY <1>1, InvCorrect, PTL

-----------------------------------------------------------------------------
(* What a step may do to the table and to what turns have read.            *)

\* Turn t adds the row it holds a free number for.
Adds(t) ==
    /\ pc[t] = "insert" /\ seq[t] \notin TakenSeqs(sess[t])
    /\ rows' = rows \cup {NewRow(t)}
    /\ UNCHANGED <<hist, prior, at, clock, seq>>

\* Turn t reads the history.
Reads(t) ==
    /\ pc[t] = "idle"
    /\ UNCHANGED <<rows, at, clock, seq>>
    /\ hist' = [hist EXCEPT ![t] = RowsOf(sess[t])]
    /\ prior' = [prior EXCEPT ![t] = AnsweredBefore(t)]

\* Turn t counts and takes its created_at.
Counts(t) ==
    /\ UNCHANGED <<rows, hist, prior>>
    /\ clock' = clock + 1
    /\ at' = [at EXCEPT ![t] = clock]
    /\ seq' = [seq EXCEPT ![t] = Cardinality(RowsOf(sess[t])) + 1]
    /\ pc' = [pc EXCEPT ![t] = "insert"]

Quiet == UNCHANGED <<rows, hist, prior, at, clock, seq>>

LEMMA StepShape ==
    ASSUME TypeOK, [Next]_vars
    PROVE  /\ sess' = sess
           /\ \A u \in Turns : pc[u] \in Answered => pc'[u] = pc[u]
           /\ \/ \E t \in Turns : Adds(t) \/ Reads(t)
              \/ Quiet
              \/ \E t \in Turns : Counts(t)
           /\ (\E t \in Turns : Counts(t))
              \/ \A u \in Turns : pc'[u] = "insert" => pc[u] = "insert"
<1> USE DEF turnVars, appendVars, bounds
<1> DEFINE P == /\ sess' = sess
                /\ \A u \in Turns : pc[u] \in Answered => pc'[u] = pc[u]
                /\ \/ \E t \in Turns : Adds(t) \/ Reads(t)
                   \/ Quiet
                   \/ \E t \in Turns : Counts(t)
                /\ (\E t \in Turns : Counts(t))
                   \/ \A u \in Turns : pc'[u] = "insert" => pc[u] = "insert"
<1>g. ASSUME NEW t \in Turns, NEW l, l # "insert", Goto(t, l), pc[t] \notin Answered
      PROVE  /\ \A u \in Turns : pc[u] \in Answered => pc'[u] = pc[u]
             /\ \A u \in Turns : pc'[u] = "insert" => pc[u] = "insert"
  BY <1>g DEF Goto, TypeOK
<1> USE DEF Answered
<1>1. ASSUME NEW t \in Turns, LoadHistory(t) PROVE P
  <2>1. PICK l \in {"think", "stream_start"} : Goto(t, l)
    BY <1>1 DEF LoadHistory
  <2>2. Reads(t) /\ sess' = sess /\ pc[t] \notin Answered
    BY <1>1 DEF LoadHistory, Arrives, History, Reads
  <2> QED BY <2>1, <2>2, <1>g
<1>2. ASSUME NEW t \in Turns, LoadHistoryFails(t) PROVE P
  BY <1>2, <1>g DEF LoadHistoryFails, Arrives, Fail, Quiet
<1>3. ASSUME NEW t \in Turns, StreamStart(t) PROVE P
  BY <1>3, <1>g DEF StreamStart, Fail, Quiet
<1>4. ASSUME NEW t \in Turns, Think(t) PROVE P
  <2>1. CASE Goto(t, "count")
    BY <1>4, <2>1, <1>g DEF Think, Quiet
  <2>2. CASE Fail(t)
    BY <1>4, <2>2, <1>g DEF Think, Fail, Quiet
  <2> QED BY <1>4, <2>1, <2>2 DEF Think
<1>5. ASSUME NEW t \in Turns, CountEvents(t) PROVE P
  <2>1. Counts(t) /\ sess' = sess
    BY <1>5 DEF CountEvents, Counts, CreatedAt, Goto
  <2>2. \A u \in Turns : pc[u] \in Answered => pc'[u] = pc[u]
    BY <1>5 DEF CountEvents, Goto, TypeOK
  <2> QED BY <2>1, <2>2
<1>6. ASSUME NEW t \in Turns, InsertEvent(t) PROVE P
  <2>1. PICK l \in {"count", "reply"} : Goto(t, l)
    BY <1>6 DEF InsertEvent, AfterAppend
  <2>2. Adds(t) /\ sess' = sess /\ pc[t] \notin Answered
    BY <1>6 DEF InsertEvent, Adds
  <2> QED BY <2>1, <2>2, <1>g
<1>7. ASSUME NEW t \in Turns, InsertRefused(t) PROVE P
  BY <1>7, <1>g DEF InsertRefused, SwallowFailure, SkipRest, Quiet
<1>8. ASSUME NEW t \in Turns, AppendFails(t) PROVE P
  <2>1. Goto(t, "reply") /\ pc[t] \notin Answered /\ sess' = sess
    BY <1>8 DEF AppendFails, SkipRest
  <2>2. Quiet \/ Adds(t)
    BY <1>8 DEF AppendFails, Quiet, Adds
  <2> QED BY <2>1, <2>2, <1>g
<1>9. ASSUME NEW t \in Turns, Reply(t) PROVE P
  <2>1. PICK l \in {"answered", "undelivered"} : Goto(t, l)
    BY <1>9 DEF Reply
  <2> QED BY <1>9, <2>1, <1>g DEF Reply, Quiet
<1>10. ASSUME NEW c \in Conns, Disconnect(c) \/ EndConnection(c) PROVE P
  BY <1>10 DEF Disconnect, EndConnection, Quiet
<1>11. CASE Crash
  BY <1>11 DEF Crash, TypeOK, Pc, Active, Final, Quiet
<1>12. CASE UNCHANGED vars
  BY <1>12 DEF vars, Quiet
<1> QED
  BY <1>1, <1>2, <1>3, <1>4, <1>5, <1>6, <1>7, <1>8, <1>9, <1>10, <1>11,
     <1>12 DEF Next, TurnStep

-----------------------------------------------------------------------------
(* Histories are prefixes.                                                 *)

LEMMA HistoryStep ==
    Inv /\ HistoryIsPrefix /\ [Next]_vars => HistoryIsPrefix'
<1> SUFFICES ASSUME Inv, HistoryIsPrefix, [Next]_vars, NEW u \in Turns
             PROVE  hist'[u] = {r \in RowsOf(sess[u])' : r.seq <= Cardinality(hist'[u])}
  BY StepShape DEF Inv, HistoryIsPrefix
<1>t. TypeOK /\ sess' = sess /\ sess[u] \in Sessions
  BY StepShape DEF Inv, TypeOK
<1>h. hist[u] = {r \in RowsOf(sess[u]) : r.seq <= Cardinality(hist[u])}
  BY DEF HistoryIsPrefix
<1>1. ASSUME UNCHANGED <<rows, hist>>
      PROVE  hist'[u] = {r \in RowsOf(sess[u])' : r.seq <= Cardinality(hist'[u])}
  BY <1>1, <1>t, <1>h DEF RowsOf
<1>2. ASSUME NEW t \in Turns, Adds(t)
      PROVE  hist'[u] = {r \in RowsOf(sess[u])' : r.seq <= Cardinality(hist'[u])}
  <2>1. CASE sess[t] = sess[u]
    <3>1. RowsOf(sess[u])' = RowsOf(sess[u]) \cup {NewRow(t)}
      BY <1>2, <1>t, <2>1, NewRowType DEF Adds, RowsOf
    <3>2. Cardinality(hist[u]) \in Nat
          /\ Cardinality(hist[u]) <= Cardinality(RowsOf(sess[u]))
      <4>1. hist[u] \in SUBSET RowsOf(sess[u])
        BY <1>h
      <4> QED BY <4>1, SessionRowsFinite, FS_Subset, FS_CardinalityType DEF Inv
    <3>3. ~ (NewRow(t).seq <= Cardinality(hist[u]))
      BY <1>2, <1>t, <2>1, <3>2, FreeIsNext, NewRowType DEF Adds
    <3> QED BY <1>2, <1>h, <3>1, <3>3 DEF Adds
  <2>2. CASE sess[t] # sess[u]
    <3>1. RowsOf(sess[u])' = RowsOf(sess[u])
      BY <1>2, <1>t, <2>2, NewRowType DEF Adds, RowsOf
    <3> QED BY <1>2, <1>h, <3>1 DEF Adds
  <2> QED BY <2>1, <2>2
<1>3. ASSUME NEW t \in Turns, Reads(t)
      PROVE  hist'[u] = {r \in RowsOf(sess[u])' : r.seq <= Cardinality(hist'[u])}
  <2>1. RowsOf(sess[u])' = RowsOf(sess[u])
    BY <1>3, <1>t DEF Reads, RowsOf
  <2>2. CASE t = u
    <3>1. hist'[u] = RowsOf(sess[u])
      BY <1>3, <2>2 DEF Reads, Inv, TypeOK
    <3>2. \A r \in RowsOf(sess[u]) : r.seq <= Cardinality(RowsOf(sess[u]))
      <4>1. SeqsOf(sess[u]) = 1..Cardinality(RowsOf(sess[u]))
        BY <1>t DEF Inv, SeqContiguous
      <4> QED BY <4>1 DEF SeqsOf
    <3> QED BY <2>1, <3>1, <3>2
  <2>3. CASE t # u
    <3>1. hist'[u] = hist[u]
      BY <1>3, <2>3 DEF Reads, Inv, TypeOK
    <3> QED BY <2>1, <3>1, <1>h
  <2> QED BY <2>2, <2>3
<1> QED
  BY <1>1, <1>2, <1>3, StepShape DEF Inv, Quiet, Counts

\* What a turn has read of its session stays a prefix of the session.
THEOREM HistoryPrefix ==
    Spec => []HistoryIsPrefix
<1>1. Init => HistoryIsPrefix
  BY FS_EmptySet DEF Init, HistoryIsPrefix, RowsOf
<1>2. Inv /\ HistoryIsPrefix /\ [Next]_vars => HistoryIsPrefix'
  BY HistoryStep
<1> QED BY <1>1, <1>2, InvCorrect, PTL DEF Spec

-----------------------------------------------------------------------------
(* Numbers agree with creation times.                                      *)

\* The clock is ahead of every time taken, and a number handed out later
\* than a row of its session was created comes with a later time.
TimeInv ==
    /\ TimeOrdered
    /\ \A r \in rows : r.at < clock
    /\ \A t \in Turns : pc[t] = "insert" =>
          /\ at[t] < clock
          /\ \A r \in RowsOf(sess[t]) : r.seq < seq[t] => r.at < at[t]

LEMMA TimeStep ==
    Inv /\ TimeInv /\ [Next]_vars => TimeInv'
<1> SUFFICES ASSUME Inv, TimeInv, [Next]_vars PROVE TimeInv'
  OBVIOUS
<1>t. TypeOK /\ sess' = sess
  BY StepShape DEF Inv
<1>n. /\ clock \in Nat
      /\ \A r \in rows : r.seq \in Nat /\ r.at \in Nat
      /\ \A t \in Turns : seq[t] \in Nat /\ at[t] \in Nat
  BY <1>t DEF TypeOK, Event
<1>1. ASSUME Quiet, \A u \in Turns : pc'[u] = "insert" => pc[u] = "insert"
      PROVE  TimeInv'
  BY <1>1, <1>t DEF TimeInv, TimeOrdered, Quiet, RowsOf
<1>2. ASSUME NEW t \in Turns, Reads(t),
             \A u \in Turns : pc'[u] = "insert" => pc[u] = "insert"
      PROVE  TimeInv'
  BY <1>2, <1>t DEF TimeInv, TimeOrdered, Reads, RowsOf
<1>3. ASSUME NEW t \in Turns, Counts(t) PROVE TimeInv'
  <2>1. rows' = rows /\ clock' = clock + 1
    BY <1>3 DEF Counts
  <2>2. TimeOrdered' /\ \A r \in rows' : r.at < clock'
    BY <2>1, <1>n DEF TimeInv, TimeOrdered
  <2>3. ASSUME NEW u \in Turns, pc'[u] = "insert"
        PROVE  /\ at'[u] < clock'
               /\ \A r \in RowsOf(sess[u]) : r.seq < seq'[u] => r.at < at'[u]
    <3>1. CASE u = t
      <4>1. at'[u] = clock
        BY <1>3, <1>t, <3>1 DEF Counts, TypeOK
      <4> QED BY <4>1, <2>1, <1>n DEF TimeInv, RowsOf
    <3>2. CASE u # t
      <4>1. at'[u] = at[u] /\ seq'[u] = seq[u] /\ pc[u] = "insert"
        BY <1>3, <1>t, <2>3, <3>2 DEF Counts, TypeOK
      <4> QED BY <4>1, <2>1, <1>n DEF TimeInv
    <3> QED BY <3>1, <3>2
  <2>4. \A u \in Turns : RowsOf(sess[u])' = RowsOf(sess[u])
    BY <2>1, <1>t DEF RowsOf
  <2> QED BY <2>2, <2>3, <2>4, <1>t DEF TimeInv
<1>4. ASSUME NEW t \in Turns, Adds(t),
             \A u \in Turns : pc'[u] = "insert" => pc[u] = "insert"
      PROVE  TimeInv'
  <2> DEFINE new == NewRow(t)
  <2>1. /\ new.session = sess[t] /\ new.seq = seq[t] /\ new.at = at[t]
        /\ rows' = rows \cup {new}
    BY <1>4, <1>t, NewRowType DEF Adds
  <2>2. /\ at[t] < clock
        /\ \A r \in rows : r.session = sess[t] => r.seq < seq[t] /\ r.at < at[t]
    BY <1>4, FreeIsNext DEF Adds, TimeInv, RowsOf
  <2>3. clock' = clock /\ at' = at /\ seq' = seq
    BY <1>4 DEF Adds
  <2> HIDE DEF new
  <2>4. TimeOrdered'
    <3> SUFFICES ASSUME NEW r1 \in rows', NEW r2 \in rows',
                        r1.session = r2.session, r1.seq < r2.seq
                 PROVE  r1.at < r2.at
      BY DEF TimeOrdered
    <3>1. CASE r1 \in rows /\ r2 \in rows
      BY <3>1 DEF TimeInv, TimeOrdered
    <3>2. CASE r2 = new /\ r1 \in rows
      BY <3>2, <2>1, <2>2
    <3>3. CASE r1 = new
      BY <3>3, <2>1, <2>2, <1>n
    <3> QED BY <3>1, <3>2, <3>3, <2>1
  <2>5. \A r \in rows' : r.at < clock'
    BY <2>1, <2>2, <2>3 DEF TimeInv
  <2>6. ASSUME NEW u \in Turns, pc'[u] = "insert"
        PROVE  /\ at'[u] < clock'
               /\ \A r \in RowsOf(sess[u])' : r.seq < seq'[u] => r.at < at'[u]
    <3>1. pc[u] = "insert"
      BY <1>4, <2>6
    <3>2. at'[u] < clock' /\ \A r \in RowsOf(sess[u]) : r.seq < seq'[u] => r.at < at'[u]
      BY <2>3, <3>1 DEF TimeInv
    <3>3. CASE sess[u] = sess[t]
      <4>1. seq[u] <= seq[t]
        BY <1>4, <3>1, <3>3, FreeIsNext DEF Adds, Inv, CountedWithinReach
      <4> QED BY <4>1, <3>2, <2>1, <2>3, <1>t, <1>n DEF RowsOf
    <3>4. CASE sess[u] # sess[t]
      BY <3>2, <3>4, <2>1, <1>t DEF RowsOf
    <3> QED BY <3>2, <3>3, <3>4
  <2> QED BY <2>4, <2>5, <2>6, <1>t DEF TimeInv
<1> QED
  BY <1>1, <1>2, <1>3, <1>4, <1>t, StepShape

\* Sorting a session by sequence number is sorting it by creation time.
THEOREM TimeOrder ==
    Spec => []TimeOrdered
<1>1. Init => TimeInv
  BY DEF Init, TimeInv, TimeOrdered
<1>2. Inv /\ TimeInv /\ [Next]_vars => TimeInv'
  BY TimeStep
<1>3. TimeInv => TimeOrdered
  BY DEF TimeInv
<1> QED BY <1>1, <1>2, <1>3, InvCorrect, PTL DEF Spec

-----------------------------------------------------------------------------
(* A turn sees every turn that was answered before it began.               *)

SeenInv ==
    /\ SeesAnsweredTurns
    /\ \A r \in rows : r.session = sess[r.turn]
    /\ \A t \in Turns : \A u \in prior[t] : pc[u] \in Answered

LEMMA SeenStep ==
    Inv /\ SeenInv /\ [Next]_vars => SeenInv'
<1> SUFFICES ASSUME Inv, SeenInv, [Next]_vars PROVE SeenInv'
  OBVIOUS
<1>t. TypeOK /\ TypeOK' /\ sess' = sess
  BY StepShape, TypeStep DEF Inv
<1>a. \A u \in Turns : pc[u] \in Answered => pc'[u] \in Answered
  BY <1>t, StepShape
<1>1. ASSUME UNCHANGED <<rows, hist, prior>> PROVE SeenInv'
  BY <1>1, <1>t, <1>a DEF SeenInv, SeesAnsweredTurns, TypeOK
<1>2. ASSUME NEW t \in Turns, Reads(t) PROVE SeenInv'
  <2>1. rows' = rows /\ \A u \in Turns :
           IF u = t THEN hist'[u] = RowsOf(sess[t]) /\ prior'[u] = AnsweredBefore(t)
                    ELSE hist'[u] = hist[u] /\ prior'[u] = prior[u]
    BY <1>2, <1>t DEF Reads, TypeOK
  <2>2. \A u \in AnsweredBefore(t) : pc'[u] \in Answered /\ sess[u] = sess[t]
    BY <1>a DEF AnsweredBefore
  <2>3. \A r \in rows : r.turn \in AnsweredBefore(t) => r \in RowsOf(sess[t])
    BY <2>2 DEF SeenInv, RowsOf
  <2>4. \A u \in Turns : \A v \in prior'[u] : pc'[v] \in Answered
    BY <2>1, <2>2, <1>a, <1>t DEF SeenInv, TypeOK
  <2> QED BY <2>1, <2>3, <2>4, <1>t DEF SeenInv, SeesAnsweredTurns
<1>3. ASSUME NEW t \in Turns, Adds(t) PROVE SeenInv'
  <2>1. NewRow(t).turn = t /\ NewRow(t).session = sess[t]
    BY <1>t, NewRowType
  <2>2. rows' = rows \cup {NewRow(t)} /\ hist' = hist /\ prior' = prior
    BY <1>3 DEF Adds
  <2>3. \A u \in Turns : t \notin prior[u]
    BY <1>3 DEF Adds, SeenInv, Answered
  <2>4. \A u \in Turns : \A v \in prior'[u] : pc'[v] \in Answered
    BY <2>2, <1>a, <1>t DEF SeenInv, TypeOK
  <2> QED BY <2>1, <2>2, <2>3, <2>4, <1>t DEF SeenInv, SeesAnsweredTurns
<1> QED
  BY <1>1, <1>2, <1>3, <1>t, StepShape DEF Quiet, Counts

\* A client that waits for its answer is never forgotten by its next turn.
THEOREM SeesAnswered ==
    Spec => []SeesAnsweredTurns
<1>1. Init => SeenInv
  BY DEF Init, SeenInv, SeesAnsweredTurns
<1>2. Inv /\ SeenInv /\ [Next]_vars => SeenInv'
  BY SeenStep
<1>3. SeenInv => SeesAnsweredTurns
  BY DEF SeenInv
<1> QED BY <1>1, <1>2, <1>3, InvCorrect, PTL DEF Spec

-----------------------------------------------------------------------------
(* How control moves in one step.                                          *)

\* Where turn u may go in one step, and what that says of the table.
Moves(u) ==
    \/ pc'[u] = pc[u] /\ role'[u] = role[u] /\ seq'[u] = seq[u]
    \/ /\ pc[u] = "idle" /\ pc'[u] \in {"stream_start", "think"}
       /\ role'[u] = role[u] /\ MayBegin(u)
       /\ \A w \in Turns : w # u => pc'[w] = pc[w]
    \/ pc[u] = "stream_start" /\ pc'[u] = "think" /\ role'[u] = role[u]
    \/ pc[u] = "think" /\ pc'[u] = "count" /\ role'[u] = role[u]
    \/ /\ pc[u] = "count" /\ pc'[u] = "insert" /\ role'[u] = role[u]
       /\ seq'[u] = Cardinality(RowsOf(sess[u])) + 1 /\ rows' = rows
    \/ /\ pc[u] = "insert" /\ rows' = rows \cup {NewRow(u)}
       /\ IF role[u] = "user" THEN pc'[u] = "count" /\ role'[u] = "assistant"
                              ELSE pc'[u] = "reply"
    \/ /\ pc[u] \in {"count", "insert"} /\ pc'[u] = "reply"
       /\ \/ faults' # 0
          \/ pc[u] = "insert" /\ seq[u] \in TakenSeqs(sess[u])
    \/ pc[u] = "reply" /\ pc'[u] \in Answered
    \/ pc'[u] = "failed"

\* The table stays, or one turn that held a free number adds its row and goes on.
AddsAndGoesOn(t) ==
    /\ Adds(t)
    /\ \/ pc'[t] = "reply"
       \/ role[t] = "user" /\ pc'[t] = "count" /\ role'[t] = "assistant"
RowsGrow == rows' = rows \/ \E t \in Turns : AddsAndGoesOn(t)

LEMMA ControlStep ==
    ASSUME TypeOK, [Next]_vars
    PROVE  /\ \A u \in Turns : Moves(u)
           /\ RowsGrow
           /\ via' = via
           /\ faults' = 0 => faults = 0
<1> USE DEF turnVars, appendVars, bounds
<1> DEFINE P == /\ \A u \in Turns : Moves(u)
                /\ RowsGrow
                /\ via' = via
                /\ faults' = 0 => faults = 0
<1>o. ASSUME NEW t \in Turns, NEW l, Goto(t, l), Moves(t),
             \A u \in Turns \ {t} : role'[u] = role[u] /\ seq'[u] = seq[u]
      PROVE  \A u \in Turns : Moves(u)
  BY <1>o DEF Goto, TypeOK, Moves
<1>g. ASSUME NEW t \in Turns, NEW l, Goto(t, l)
      PROVE  pc'[t] = l /\ \A w \in Turns : w # t => pc'[w] = pc[w]
  BY <1>g DEF Goto, TypeOK
<1>f. ASSUME Fault PROVE faults' # 0
  BY <1>f, ConstantsAssumption DEF Fault, TypeOK
<1>q. ASSUME NEW t \in Turns, Fail(t), role' = role, seq' = seq
      PROVE  \A u \in Turns : Moves(u)
  <2>1. Moves(t)
    BY <1>q, <1>g DEF Fail, Moves
  <2> QED BY <2>1, <1>o, <1>q DEF Fail
<1>1. ASSUME NEW t \in Turns, LoadHistory(t) PROVE P
  <2>1. PICK l \in {"think", "stream_start"} : Goto(t, l)
    BY <1>1 DEF LoadHistory
  <2>2. Moves(t)
    BY <1>1, <2>1, <1>g DEF LoadHistory, Arrives, Moves
  <2>3. \A u \in Turns : Moves(u)
    BY <1>1, <2>1, <2>2, <1>o DEF LoadHistory
  <2> QED BY <1>1, <2>3 DEF LoadHistory, RowsGrow
<1>2. ASSUME NEW t \in Turns, LoadHistoryFails(t) PROVE P
  BY <1>2, <1>q, <1>f DEF LoadHistoryFails, RowsGrow
<1>3. ASSUME NEW t \in Turns, StreamStart(t) PROVE P
  <2>1. CASE Goto(t, "think")
    <3>1. Moves(t)
      BY <1>3, <2>1, <1>g DEF StreamStart, Moves
    <3> QED BY <1>3, <2>1, <3>1, <1>o DEF StreamStart, RowsGrow
  <2> QED BY <1>3, <2>1, <1>q DEF StreamStart, RowsGrow
<1>4. ASSUME NEW t \in Turns, Think(t) PROVE P
  <2>1. CASE Goto(t, "count")
    <3>1. Moves(t)
      BY <1>4, <2>1, <1>g DEF Think, Moves
    <3> QED BY <1>4, <2>1, <3>1, <1>o DEF Think, RowsGrow
  <2> QED BY <1>4, <2>1, <1>q DEF Think, RowsGrow
<1>5. ASSUME NEW t \in Turns, CountEvents(t) PROVE P
  <2>1. Moves(t)
    BY <1>5, <1>g DEF CountEvents, Moves, TypeOK
  <2>2. \A u \in Turns \ {t} : role'[u] = role[u] /\ seq'[u] = seq[u]
    BY <1>5 DEF CountEvents, TypeOK
  <2> QED BY <1>5, <2>1, <2>2, <1>o DEF CountEvents, RowsGrow
<1>6. ASSUME NEW t \in Turns, InsertEvent(t) PROVE P
  <2>1. PICK l : /\ Goto(t, l)
                 /\ \/ role[t] = "user" /\ l = "count" /\ role' = [role EXCEPT ![t] = "assistant"]
                    \/ role[t] # "user" /\ l = "reply" /\ role' = role
    BY <1>6 DEF InsertEvent, AfterAppend
  <2>2. pc'[t] = l
    BY <2>1, <1>g
  <2>3. Moves(t)
    BY <1>6, <2>1, <2>2 DEF InsertEvent, Moves, TypeOK
  <2>4. \A u \in Turns \ {t} : role'[u] = role[u] /\ seq'[u] = seq[u]
    BY <1>6, <2>1 DEF InsertEvent, TypeOK
  <2>5. AddsAndGoesOn(t)
    BY <1>6, <2>1, <2>2 DEF InsertEvent, AddsAndGoesOn, Adds, TypeOK
  <2>6. \A u \in Turns : Moves(u)
    BY <2>1, <2>3, <2>4, <1>o
  <2> QED BY <1>6, <2>5, <2>6 DEF InsertEvent, RowsGrow
<1>7. ASSUME NEW t \in Turns, InsertRefused(t) PROVE P
  <2>1. Moves(t)
    BY <1>7, <1>g DEF InsertRefused, SwallowFailure, SkipRest, Moves
  <2> QED BY <1>7, <2>1, <1>o DEF InsertRefused, SwallowFailure, SkipRest, RowsGrow
<1>8. ASSUME NEW t \in Turns, AppendFails(t) PROVE P
  <2>1. Goto(t, "reply") /\ faults' # 0 /\ role' = role /\ seq' = seq /\ via' = via
    BY <1>8, <1>f DEF AppendFails, SkipRest
  <2>2. Moves(t)
    BY <1>8, <2>1, <1>g DEF AppendFails, Moves
  <2>3. RowsGrow
    BY <1>8, <2>1, <1>g DEF AppendFails, RowsGrow, AddsAndGoesOn, Adds
  <2> QED BY <2>1, <2>2, <2>3, <1>o
<1>9. ASSUME NEW t \in Turns, Reply(t) PROVE P
  <2>1. PICK l \in Answered : Goto(t, l)
    BY <1>9 DEF Reply, Answered
  <2>2. Moves(t)
    BY <1>9, <2>1, <1>g DEF Reply, Moves
  <2> QED BY <1>9, <2>1, <2>2, <1>o DEF Reply, RowsGrow
<1>10. ASSUME NEW c \in Conns, Disconnect(c) \/ EndConnection(c) PROVE P
  BY <1>10 DEF Disconnect, EndConnection, Moves, RowsGrow
<1>11. CASE Crash
  BY <1>11 DEF Crash, TypeOK, Moves, RowsGrow
<1>12. CASE UNCHANGED vars
  BY <1>12 DEF vars, Moves, RowsGrow
<1> QED
  BY <1>1, <1>2, <1>3, <1>4, <1>5, <1>6, <1>7, <1>8, <1>9, <1>10, <1>11,
     <1>12 DEF Next, TurnStep

-----------------------------------------------------------------------------
(* Which messages of a turn are in the table, by where the turn is.        *)

Has(t, r) == \E x \in rows : x.turn = t /\ x.role = r

Beginning == {"idle", "stream_start", "think"}
MessagesOf(t) ==
    /\ pc[t] \in Beginning => role[t] = "user"
    /\ pc[t] \in Beginning \cup {"count", "insert"} /\ role[t] = "user" =>
         \A x \in rows : x.turn # t
    /\ pc[t] \in {"count", "insert"} /\ role[t] = "assistant" =>
         Has(t, "user") /\ ~Has(t, "assistant")
MessagesInv ==
    /\ \A r \in rows : r.session = sess[r.turn]
    /\ \A t \in Turns : MessagesOf(t)

LEMMA MessagesStep ==
    TypeOK /\ MessagesInv /\ [Next]_vars => MessagesInv'
<1> SUFFICES ASSUME TypeOK, MessagesInv, [Next]_vars PROVE MessagesInv'
  OBVIOUS
<1>1. sess' = sess /\ (\A u \in Turns : Moves(u)) /\ RowsGrow
  BY StepShape, ControlStep
<1>2. \A t \in Turns : /\ NewRow(t).turn = t /\ NewRow(t).role = role[t]
                       /\ NewRow(t).session = sess[t]
  BY NewRowType
<1>3. \A x \in rows : x \in rows'
  BY <1>1 DEF RowsGrow, AddsAndGoesOn, Adds
<1>4. \A x \in rows' : x \in rows \/ (x.turn \in Turns /\ x = NewRow(x.turn) /\ AddsAndGoesOn(x.turn))
  BY <1>1, <1>2 DEF RowsGrow, AddsAndGoesOn, Adds
<1>5. \A r \in rows' : r.session = sess'[r.turn]
  BY <1>1, <1>2, <1>4 DEF MessagesInv
<1>6. ASSUME NEW u \in Turns
      PROVE  MessagesOf(u)'
  <2>m. Moves(u)
    BY <1>1
  <2>1. CASE AddsAndGoesOn(u)
    <3>1. pc[u] = "insert" /\ NewRow(u) \in rows' /\ \A x \in rows' : x \in rows \/ x = NewRow(u)
      BY <2>1 DEF AddsAndGoesOn, Adds
    <3>2. CASE pc'[u] = "reply"
      BY <3>2 DEF MessagesOf, Beginning
    <3>3. CASE role[u] = "user" /\ pc'[u] = "count" /\ role'[u] = "assistant"
      BY <3>1, <3>3, <1>2 DEF MessagesInv, MessagesOf, Beginning, Has
    <3> QED BY <2>1, <3>2, <3>3 DEF AddsAndGoesOn
  <2>2. CASE ~AddsAndGoesOn(u)
    <3>1. \A x \in rows' : x.turn = u => x \in rows
      BY <1>4, <2>2
    <3>2. \A r : Has(u, r)' <=> Has(u, r)
      BY <3>1, <1>3 DEF Has
    <3>3. CASE pc'[u] = pc[u] /\ role'[u] = role[u]
      BY <3>1, <3>2, <3>3 DEF MessagesInv, MessagesOf, Beginning
    <3>4. CASE role'[u] = role[u] /\ pc[u] \in Beginning
      BY <3>1, <3>2, <3>4 DEF MessagesInv, MessagesOf, Beginning
    <3>5. CASE role'[u] = role[u] /\ pc[u] = "count" /\ pc'[u] = "insert"
      BY <3>1, <3>2, <3>5 DEF MessagesInv, MessagesOf, Beginning
    <3>6. CASE pc'[u] \in {"reply", "answered", "undelivered", "failed"}
      BY <3>6 DEF MessagesOf, Beginning
    <3>7. ASSUME pc[u] = "insert", rows' = rows \cup {NewRow(u)} PROVE MessagesOf(u)'
      <4>1. NewRow(u) \in rows
        BY <3>7, <1>2, <3>1
      <4> QED BY <3>7, <4>1, <1>2 DEF MessagesInv, MessagesOf, Beginning, Has, TypeOK, Role
    <3> QED BY <2>m, <3>3, <3>4, <3>5, <3>6, <3>7 DEF Moves, Answered, Beginning
  <2> QED BY <2>1, <2>2
<1> QED BY <1>5, <1>6 DEF MessagesInv

LEMMA MessagesInit == Init => MessagesInv
BY DEF Init, MessagesInv, MessagesOf, Beginning

-----------------------------------------------------------------------------
(* One connection, one turn at a time: its appends meet no other.          *)

\* Session s is used through connection c only.
OnlyThrough(s, c) == \A u \in Turns : sess[u] = s => via[u] = c

OneActive ==
    \A t, u \in Turns :
        via[t] \in Conns /\ via[u] = via[t] /\ Active(t) /\ Active(u) => t = u

\* What holds of a turn whose session is used through one connection only.
SerialOf(t) ==
    /\ pc[t] = "insert" => seq[t] \notin TakenSeqs(sess[t])
    /\ faults = 0 /\ pc[t] \in {"reply"} \cup Answered => Stored(t)
SerialInv ==
    /\ OneActive
    /\ \A t \in Turns, c \in Conns : OnlyThrough(sess[t], c) => SerialOf(t)

LEMMA OneActiveStep ==
    TypeOK /\ OneActive /\ [Next]_vars => OneActive'
<1> SUFFICES ASSUME TypeOK, OneActive, [Next]_vars,
                    NEW t \in Turns, NEW u \in Turns, via'[t] \in Conns,
                    via'[u] = via'[t], Active(t)', Active(u)', t # u
             PROVE  FALSE
  BY DEF OneActive
<1>1. via' = via /\ Moves(t) /\ Moves(u)
  BY ControlStep
<1>2. \A w \in {t, u} : \/ Active(w)
                        \/ MayBegin(w) /\ \A v \in Turns : v # w => pc'[v] = pc[v]
  BY <1>1 DEF Moves, Active, Final, Answered
<1>3. ~ (Active(t) /\ Active(u))
  BY <1>1 DEF OneActive
<1>4. ASSUME NEW w \in {t, u}, NEW v \in {t, u}, w # v, MayBegin(w),
             \A x \in Turns : x # w => pc'[x] = pc[x]
      PROVE  FALSE
  <2>1. Active(v)
    BY <1>4 DEF Active
  <2>2. via[w] \in Conns /\ via[v] = via[w]
    BY <1>1
  <2> QED BY <1>4, <2>1, <2>2 DEF MayBegin, Busy
<1> QED BY <1>2, <1>3, <1>4

LEMMA SerialStep ==
    Inv /\ MessagesInv /\ SerialInv /\ [Next]_vars => SerialInv'
<1> SUFFICES ASSUME Inv, MessagesInv, SerialInv, [Next]_vars PROVE SerialInv'
  OBVIOUS
<1>t. TypeOK
  BY DEF Inv
<1>1. OneActive'
  BY <1>t, OneActiveStep DEF SerialInv
<1>2. sess' = sess /\ via' = via /\ RowsGrow /\ (faults' = 0 => faults = 0)
  BY <1>t, StepShape, ControlStep
<1>3. \A x \in rows : x \in rows'
  BY <1>2 DEF RowsGrow, AddsAndGoesOn, Adds
<1>4. ASSUME NEW t \in Turns, NEW c \in Conns, OnlyThrough(sess[t], c)
      PROVE  SerialOf(t)'
  <2>1. Moves(t) /\ SerialOf(t) /\ via[t] = c
    BY <1>t, <1>4, ControlStep DEF SerialInv, OnlyThrough
  <2>2. Stored(t) => Stored(t)'
    BY <1>3 DEF Stored
  <2>3. ASSUME pc[t] = "insert", pc'[t] = "insert", seq'[t] = seq[t]
        PROVE  seq'[t] \notin TakenSeqs(sess[t])'
    <3>1. CASE rows' = rows
      BY <2>1, <2>3, <3>1, <1>2 DEF SerialOf, TakenSeqs, SeqsOf, RowsOf
    <3>2. ASSUME NEW w \in Turns, AddsAndGoesOn(w)
          PROVE  seq'[t] \notin TakenSeqs(sess[t])'
      <4>1. w # t /\ pc[w] = "insert" /\ rows' = rows \cup {NewRow(w)}
        BY <2>3, <3>2 DEF AddsAndGoesOn, Adds
      <4>2. sess[w] # sess[t]
        BY <4>1, <2>1, <2>3, <1>4 DEF SerialInv, OneActive, OnlyThrough, Active, Final
      <4>3. RowsOf(sess[t])' = RowsOf(sess[t])
        BY <4>1, <4>2, <1>2, <1>t, NewRowType DEF RowsOf
      <4> QED BY <4>3, <2>1, <2>3 DEF SerialOf, TakenSeqs, SeqsOf
    <3> QED BY <3>1, <3>2, <1>2 DEF RowsGrow
  <2>4. ASSUME pc'[t] = "insert", seq'[t] = Cardinality(RowsOf(sess[t])) + 1, rows' = rows
        PROVE  seq'[t] \notin TakenSeqs(sess[t])'
    <3>1. TakenSeqs(sess[t])' = 1..Cardinality(RowsOf(sess[t]))
      BY <2>4, <1>2, <1>t DEF TakenSeqs, SeqsOf, RowsOf, Inv, SeqContiguous, TypeOK
    <3>2. Cardinality(RowsOf(sess[t])) \in Nat
      BY SessionRowsFinite DEF Inv
    <3> QED BY <3>1, <3>2, <2>4
  <2>5. pc'[t] = "insert" => seq'[t] \notin TakenSeqs(sess[t])'
    BY <2>1, <2>3, <2>4 DEF Moves, Answered
  <2>6. ASSUME faults' = 0, pc[t] = "insert", rows' = rows \cup {NewRow(t)}, pc'[t] = "reply"
        PROVE  Stored(t)'
    <3>1. NewRow(t).turn = t /\ NewRow(t).role = role[t] /\ NewRow(t) \in rows'
      BY <1>t, <2>6, NewRowType
    <3>2. Has(t, "user") \/ role[t] = "user"
      BY <1>t, <2>6 DEF MessagesInv, MessagesOf, TypeOK, Role
    <3>3. role[t] # "user"
      BY <2>1, <2>6 DEF Moves, SerialOf, Answered
    <3> QED BY <3>1, <3>2, <3>3, <1>3, <1>t DEF Stored, Has, TypeOK, Role
  <2>7. ASSUME faults' = 0, pc'[t] \in {"reply"} \cup Answered
        PROVE  Stored(t)'
    <3>1. CASE pc[t] \in {"reply"} \cup Answered
      BY <3>1, <2>1, <2>2, <2>7, <1>2 DEF SerialOf
    <3>2. CASE pc[t] \notin {"reply"} \cup Answered
      BY <3>2, <2>1, <2>6, <2>7 DEF Moves, SerialOf, Answered
    <3> QED BY <3>1, <3>2
  <2> QED BY <2>5, <2>7, <1>2 DEF SerialOf
<1>5. \A t \in Turns, c \in Conns : OnlyThrough(sess[t], c)' => OnlyThrough(sess[t], c)
  BY <1>2 DEF OnlyThrough
<1> QED BY <1>1, <1>4, <1>5, <1>2 DEF SerialInv

\* A session used through one connection loses no message while the database
\* answers, however its turns fail and its process restarts.
THEOREM SerialKeeps == Spec => []SerialConnectionKeepsEvents
<1>1. Init => MessagesInv /\ SerialInv
  BY MessagesInit DEF Init, SerialInv, OneActive, SerialOf, Active, Final, Answered
<1>2. Inv /\ MessagesInv /\ SerialInv /\ [Next]_vars => (MessagesInv /\ SerialInv)'
  BY MessagesStep, SerialStep DEF Inv
<1>3. SerialInv => SerialConnectionKeepsEvents
  BY DEF SerialInv, SerialConnectionKeepsEvents, OnlyThrough, SerialOf
<1> QED BY <1>1, <1>2, <1>3, InvCorrect, PTL DEF Spec

-----------------------------------------------------------------------------
(* The table implements the session log (module SessionLog).               *)

\* The row numbered i, and what the log says of it.
RowAt(s, i) == CHOOSE x \in RowsOf(s) : x.seq = i
EntryOf(r) == [turn |-> r.turn, role |-> r.role]

LEMMA RowAtProperties ==
    ASSUME Inv, NEW s \in Sessions, NEW i \in 1..Cardinality(RowsOf(s))
    PROVE  /\ RowAt(s, i) \in RowsOf(s) /\ RowAt(s, i).seq = i
           /\ \A x \in RowsOf(s) : x.seq = i => x = RowAt(s, i)
<1>1. \E x \in RowsOf(s) : x.seq = i
  BY DEF Inv, SeqContiguous, SeqsOf
<1>2. \A x, y \in RowsOf(s) : x.seq = i /\ y.seq = i => x = y
  BY DEF Inv, UniqueSeqs, RowsOf
<1> QED BY <1>1, <1>2 DEF RowAt

LEMMA LogByRows ==
    ASSUME NEW s \in Sessions
    PROVE  SessionLogOf(s) = [i \in 1..Cardinality(RowsOf(s)) |-> EntryOf(RowAt(s, i))]
BY DEF SessionLogOf, RowAt, EntryOf

\* The log of a session has the messages of its rows.
LEMMA EntriesAreRows ==
    ASSUME Inv, NEW s \in Sessions
    PROVE  Log!Entries(s) = {EntryOf(r) : r \in RowsOf(s)}
<1> DEFINE L == SessionLogOf(s)
           n == Cardinality(RowsOf(s))
<1>1. n \in Nat /\ L = [i \in 1..n |-> EntryOf(RowAt(s, i))]
  BY LogByRows, SessionRowsFinite DEF Inv
<1>2. Log!Entries(s) = {L[i] : i \in DOMAIN L}
  BY DEF Log!Entries
<1>3. ASSUME NEW r \in RowsOf(s) PROVE r.seq \in 1..n /\ RowAt(s, r.seq) = r
  <2>1. r.seq \in 1..n
    BY <1>3 DEF Inv, SeqContiguous, SeqsOf
  <2> QED BY <2>1, <1>3, RowAtProperties
<1> HIDE DEF L, n
<1>4. \A i \in 1..n : RowAt(s, i) \in RowsOf(s)
  BY RowAtProperties DEF n
<1> QED BY <1>1, <1>2, <1>3, <1>4

\* A new row is a message at the end of its session's log.
LEMMA RowIsAddMessage ==
    ASSUME Inv, MessagesInv, sess' = sess, NEW t \in Turns, Adds(t),
           NEW s \in Sessions, s = sess[t]
    PROVE  Log!AddMessage(s, t, role[t])
<1> DEFINE n == Cardinality(RowsOf(s))
           new == NewRow(t)
<1>t. role[t] \in Role /\ TypeOK
  BY DEF Inv, TypeOK
<1>1. /\ new.session = s /\ new.seq = seq[t] /\ new.turn = t /\ new.role = role[t]
      /\ rows' = rows \cup {new} /\ pc[t] = "insert"
  BY <1>t, NewRowType DEF Adds
<1>2. n \in Nat /\ seq[t] = n + 1 /\ \A r \in RowsOf(s) : r.seq < n + 1
  BY FreeIsNext DEF Adds
<1>3. RowsOf(s)' = RowsOf(s) \cup {new} /\ \A q \in Sessions : q # s => RowsOf(q)' = RowsOf(q)
  BY <1>1 DEF RowsOf
<1>4. new \notin RowsOf(s)
  BY <1>1, <1>2
<1>5. Cardinality(RowsOf(s)') = n + 1
  BY <1>3, <1>4, SessionRowsFinite, FS_AddElement DEF Inv
<1> HIDE DEF new, n
<1>6. ASSUME NEW i \in 1..n PROVE RowAt(s, i)' = RowAt(s, i)
  <2>1. RowAt(s, i) \in RowsOf(s) /\ RowAt(s, i).seq = i
    BY RowAtProperties DEF n
  <2>2. \A x \in RowsOf(s)' : x.seq = i => x = RowAt(s, i)
    BY <1>1, <1>2, <1>3, RowAtProperties DEF n
  <2> QED BY <2>1, <2>2, <1>3 DEF RowAt
<1>7. ASSUME NEW i, i = n + 1 PROVE RowAt(s, i)' = new
  <2>1. \A x \in RowsOf(s)' : x.seq = i <=> x = new
    BY <1>1, <1>2, <1>3, <1>7
  <2>2. new \in RowsOf(s)'
    BY <1>3
  <2> QED BY <2>1, <2>2 DEF RowAt
<1>8. SessionLogOf(s)' = Append(SessionLogOf(s), EntryOf(new))
  <2>1. SessionLogOf(s) = [i \in 1..n |-> EntryOf(RowAt(s, i))]
    BY LogByRows DEF n
  <2>2. SessionLogOf(s)' = [i \in 1..(n + 1) |-> EntryOf(RowAt(s, i)')]
    BY <1>5 DEF SessionLogOf, RowAt, EntryOf
  <2>3. \A i \in 1..(n + 1) :
           EntryOf(RowAt(s, i)') = IF i = n + 1 THEN EntryOf(new) ELSE EntryOf(RowAt(s, i))
    BY <1>2, <1>6, <1>7
  <2> QED BY <2>1, <2>2, <2>3, <1>2
<1>9. \A q \in Sessions : q # s => SessionLogOf(q)' = SessionLogOf(q)
  BY <1>3 DEF SessionLogOf
<1>10. EntryOf(new) = [turn |-> t, role |-> role[t]]
  BY <1>1 DEF EntryOf
<1>11. Log!Entries(s) = {EntryOf(r) : r \in RowsOf(s)}
  BY EntriesAreRows
<1>12. [turn |-> t, role |-> role[t]] \notin Log!Entries(s)
  <2>1. \A x \in rows : ~(x.turn = t /\ x.role = role[t])
    BY <1>1, <1>t DEF MessagesInv, MessagesOf, Has, Role
  <2> QED BY <2>1, <1>11 DEF EntryOf, RowsOf
<1>13. role[t] = "assistant" => [turn |-> t, role |-> "user"] \in Log!Entries(s)
  <2> SUFFICES ASSUME role[t] = "assistant"
               PROVE  [turn |-> t, role |-> "user"] \in Log!Entries(s)
    OBVIOUS
  <2>1. PICK x \in rows : x.turn = t /\ x.role = "user"
    BY <1>1 DEF MessagesInv, MessagesOf, Has
  <2>2. x \in RowsOf(s)
    BY <2>1 DEF MessagesInv, RowsOf
  <2> QED BY <2>1, <2>2, <1>11 DEF EntryOf
<1> QED
  BY <1>8, <1>9, <1>10, <1>12, <1>13 DEF Log!AddMessage

LEMMA LogStep ==
    Inv /\ MessagesInv /\ [Next]_vars =>
      [Log!Next]_([s \in Sessions |-> SessionLogOf(s)])
<1> SUFFICES ASSUME Inv, MessagesInv, [Next]_vars,
                    [s \in Sessions |-> SessionLogOf(s)]' # [s \in Sessions |-> SessionLogOf(s)]
             PROVE  Log!Next
  OBVIOUS
<1>1. sess' = sess /\ TypeOK /\ RowsGrow
  BY StepShape, ControlStep DEF Inv
<1>2. rows' # rows
  BY DEF SessionLogOf, RowsOf
<1>3. PICK t \in Turns : Adds(t)
  BY <1>1, <1>2 DEF RowsGrow, AddsAndGoesOn
<1>4. sess[t] \in Sessions /\ role[t] \in {"user", "assistant"}
  BY <1>1 DEF TypeOK, Role
<1>5. Log!AddMessage(sess[t], t, role[t])
  BY <1>1, <1>3, <1>4, RowIsAddMessage
<1> QED BY <1>4, <1>5 DEF Log!Next

\* Whatever turns race, fail or are cut, the table is a session log: messages
\* are added at the end, none twice, no answer before its question.
THEOREM LogImplemented == Spec => ImplementsLog
<1>1. Init => Log!Init
  <2> SUFFICES ASSUME Init, NEW s \in Sessions PROVE SessionLogOf(s) = << >>
    BY DEF Log!Init
  <2>1. RowsOf(s) = {} /\ Cardinality({}) = 0
    BY FS_EmptySet DEF Init, RowsOf
  <2> QED BY <2>1 DEF SessionLogOf
<1>2. Init => MessagesInv
  BY MessagesInit
<1>3. Inv /\ MessagesInv /\ [Next]_vars => MessagesInv'
  BY MessagesStep DEF Inv
<1>4. Inv /\ MessagesInv /\ [Next]_vars =>
        [Log!Next]_([s \in Sessions |-> SessionLogOf(s)])
  BY LogStep
<1> QED
  BY <1>1, <1>2, <1>3, <1>4, InvCorrect, PTL DEF Spec, ImplementsLog, Log!Spec

=============================================================================
