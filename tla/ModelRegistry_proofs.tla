------------------------ MODULE ModelRegistry_proofs ------------------------
(***************************************************************************)
(* Theorems about ModelRegistry, for any callers, chain, threshold and     *)
(* cooldown: its safety invariants, and that the circuit of every provider *)
(* implements Breaker.                                                     *)
(***************************************************************************)
EXTENDS ModelRegistry, TLAPS

\* The providers that must still be tried before a call may raise are ahead
\* of it in the chain, or the one it awaits, and would let it in.
GoodAhead ==
    \A c \in Calls : pc[c] = "calling" =>
        \A p \in good[c] : /\ up[p] /\ Available(p)
                           /\ \E i \in at[c]..Len(Chain) : Chain[i] = p

Inv == TypeOK /\ CircuitsAgree /\ RaisedInNeed /\ GoodAhead

\* The chain is a nonempty list of providers.
LEMMA ChainFacts ==
    /\ Len(Chain) \in Nat \ {0}
    /\ DOMAIN Chain = 1..Len(Chain)
    /\ \A i \in 1..Len(Chain) : Chain[i] \in Providers
BY ConstantsAssumption, SMT

\* What the rest of the loop does: it half-opens at most one circuit, whose
\* cooldown is over, and leaves the caller awaiting that provider or done.
Walked(c, i, s) ==
    /\ state' \in [Providers -> States]
    /\ pc' \in [Calls -> {"idle", "calling", "raised"}]
    /\ at' \in [Calls -> 0..Len(Chain)]
    /\ live' \in [Calls -> BOOLEAN]
    /\ pc'[c] = "calling" <=> at'[c] # 0
    /\ \A d \in Calls \ {c} : /\ pc'[d] = pc[d] /\ at'[d] = at[d]
                              /\ live'[d] = live[d]
    /\ \A p \in Providers :
          \/ state'[p] = s[p]
          \/ Available(p) /\ s[p] = "open" /\ state'[p] = "half_open"
    /\ \/ /\ pc'[c] = "calling" /\ FirstOpening(i, at'[c]) /\ live'[c]
          /\ state' = Asked(s, Chain[at'[c]])
       \/ /\ pc'[c] = "raised" /\ state' = s
          /\ AllShut(i)

LEMMA WalkFacts ==
    ASSUME TypeOK, NEW c \in Calls, NEW i \in Nat \ {0},
           NEW s \in [Providers -> States], Walk(c, i, s)
    PROVE  Walked(c, i, s)
<1>1. CASE \E j \in i..Len(Chain) :
              /\ FirstOpening(i, j)
              /\ state' = Asked(s, Chain[j])
              /\ pc' = [pc EXCEPT ![c] = "calling"]
              /\ at' = [at EXCEPT ![c] = j]
              /\ live' = [live EXCEPT ![c] = TRUE]
  <2>1. PICK j \in i..Len(Chain) :
              /\ FirstOpening(i, j)
              /\ state' = Asked(s, Chain[j])
              /\ pc' = [pc EXCEPT ![c] = "calling"]
              /\ at' = [at EXCEPT ![c] = j]
              /\ live' = [live EXCEPT ![c] = TRUE]
    BY <1>1
  <2>2. j \in 1..Len(Chain) /\ Chain[j] \in Providers
    BY ChainFacts
  <2>3. /\ state' \in [Providers -> States]
        /\ \A p \in Providers :
              \/ state'[p] = s[p]
              \/ Available(p) /\ s[p] = "open" /\ state'[p] = "half_open"
    BY <2>1, <2>2 DEF Asked, FirstOpening, States
  <2>4. /\ pc' \in [Calls -> {"idle", "calling", "raised"}]
        /\ at' \in [Calls -> 0..Len(Chain)]
        /\ live' \in [Calls -> BOOLEAN]
        /\ pc'[c] = "calling" /\ at'[c] = j /\ j # 0 /\ live'[c] = TRUE
        /\ \A d \in Calls \ {c} : /\ pc'[d] = pc[d] /\ at'[d] = at[d]
                                  /\ live'[d] = live[d]
    BY <2>1, <2>2, ChainFacts DEF TypeOK
  <2> QED
    BY <2>1, <2>3, <2>4 DEF Walked
<1>2. CASE /\ AllShut(i)
           /\ state' = s
           /\ pc' = [pc EXCEPT ![c] = "raised"]
           /\ at' = [at EXCEPT ![c] = 0]
           /\ live' = [live EXCEPT ![c] = TRUE]
  <2>1. /\ pc' \in [Calls -> {"idle", "calling", "raised"}]
        /\ at' \in [Calls -> 0..Len(Chain)]
        /\ live' \in [Calls -> BOOLEAN]
        /\ pc'[c] = "raised" /\ at'[c] = 0
        /\ \A d \in Calls \ {c} : /\ pc'[d] = pc[d] /\ at'[d] = at[d]
                                  /\ live'[d] = live[d]
    BY <1>2, ChainFacts DEF TypeOK
  <2> QED
    BY <1>2, <2>1 DEF Walked
<1> QED
  BY <1>1, <1>2 DEF Walk

\* What Fail does, with its two cases in one: the circuit states it hands to
\* the rest of the loop.
LEMMA FailFacts ==
    ASSUME Inv, NEW c \in Calls, Fail(c)
    PROVE  \E s \in [Providers -> States] :
              /\ Walk(c, at[c] + 1, s)
              /\ \A p \in Providers \ {Awaited(c)} : s[p] = state[p]
              /\ s = IF live[c] THEN Failed(c) ELSE state
<1>1. /\ state \in [Providers -> States] /\ Failed(c) \in [Providers -> States]
      /\ \A p \in Providers \ {Awaited(c)} : Failed(c)[p] = state[p]
  BY DEF Inv, TypeOK, Failed, States
<1>2. live[c] \in BOOLEAN
  BY DEF Inv, TypeOK
<1>3. CASE live[c]
  BY <1>1, <1>3 DEF Fail, NextPlace
<1>4. CASE ~live[c]
  BY <1>1, <1>4 DEF Fail, NextPlace
<1> QED
  BY <1>2, <1>3, <1>4

\* Every step of one caller preserves the invariant.
LEMMA BeginInv ==
    ASSUME Inv, NEW c \in Calls, Begin(c)
    PROVE  Inv'
<1>1. TypeOK /\ Walk(c, 1, state) /\ UNCHANGED <<failures, since, up>>
  BY DEF Inv, Begin
<1>2. state \in [Providers -> States]
  BY <1>1 DEF TypeOK
<1>2a. Walked(c, 1, state)
  BY <1>1, <1>2, WalkFacts
<1> DEFINE fit == {Chain[i] : i \in {j \in DOMAIN Chain : up[Chain[j]] /\ Available(Chain[j])}}
<1>3. /\ fit \in SUBSET Providers
      /\ good' = [good EXCEPT ![c] = fit]
  BY <1>1, ChainFacts DEF Begin
<1> HIDE DEF fit
<1>4. /\ good' \in [Calls -> SUBSET Providers]
      /\ good'[c] = fit
      /\ \A d \in Calls \ {c} : good'[d] = good[d]
  BY <1>1, <1>3 DEF TypeOK
<1>5. TypeOK'
  BY <1>1, <1>2, <1>4, <1>2a DEF TypeOK, Walked
<1>6. CircuitsAgree'
  <2>1. \A p \in Providers : since[p] \in 0..Cooldown /\ Cooldown \in Nat
    BY <1>1, ConstantsAssumption DEF TypeOK
  <2>2. \A p \in Providers :
          \/ state'[p] = state[p]
          \/ since[p] = Cooldown /\ state[p] = "open" /\ state'[p] = "half_open"
    BY <1>2a, <2>1 DEF Walked, Available
  <2> QED
    BY <1>1, <2>2 DEF Inv, CircuitsAgree
<1>7. \A p \in Providers : Available(p) => Available(p)'
  BY <1>1, <1>2, <1>2a DEF Available, Walked
<1>8. ASSUME pc'[c] = "calling", NEW p \in fit
      PROVE  up'[p] /\ Available(p)' /\ \E i \in at'[c]..Len(Chain) : Chain[i] = p
  <2>1. PICK i \in 1..Len(Chain) : Chain[i] = p /\ up[p] /\ Available(p)
    BY <1>8 DEF fit
  <2>2. FirstOpening(1, at'[c]) /\ at'[c] \in 1..Len(Chain)
    BY <1>1, <1>2, <1>8, <1>2a DEF FirstOpening, Walked
  <2>3. i >= at'[c]
    BY <2>1, <2>2 DEF FirstOpening
  <2>4. p \in Providers
    BY <2>1, ChainFacts
  <2> QED
    BY <1>1, <1>7, <2>1, <2>2, <2>3, <2>4
<1>9. GoodAhead'
  <2>1. ASSUME NEW d \in Calls \ {c}, pc'[d] = "calling", NEW p \in good'[d]
        PROVE  up'[p] /\ Available(p)' /\ \E i \in at'[d]..Len(Chain) : Chain[i] = p
    <3>1. pc[d] = "calling" /\ at'[d] = at[d] /\ p \in good[d] /\ p \in Providers
      BY <1>1, <1>2, <1>4, <2>1, <1>2a DEF TypeOK, Walked
    <3> QED
      BY <1>1, <1>7, <3>1 DEF Inv, GoodAhead
  <2> QED
    BY <1>4, <1>8, <2>1 DEF GoodAhead
<1>10. RaisedInNeed'
  <2>1. pc'[c] = "raised" => fit = {}
    BY <1>1, <1>2, <1>2a DEF fit, Walked, AllShut
  <2>2. \A d \in Calls \ {c} : pc'[d] = "raised" => good'[d] = {}
    BY <1>1, <1>2, <1>4, <1>2a DEF Inv, RaisedInNeed, Walked
  <2> QED
    BY <1>4, <2>1, <2>2 DEF RaisedInNeed
<1> QED
  BY <1>5, <1>6, <1>9, <1>10 DEF Inv

LEMMA AnswerInv ==
    ASSUME Inv, NEW c \in Calls, Answer(c)
    PROVE  Inv'
<1>1. at[c] \in 1..Len(Chain) /\ Awaited(c) \in Providers
  BY ChainFacts DEF Inv, TypeOK, Answer, Awaited
<1>1a. /\ state \in [Providers -> States] /\ failures \in [Providers -> 0..Threshold]
       /\ live[c] \in BOOLEAN /\ since' = since
  BY DEF Inv, TypeOK, Answer
<1>1c. /\ state' \in [Providers -> States] /\ failures' \in [Providers -> 0..Threshold]
       /\ \A p \in Providers : \/ state'[p] = state[p] /\ failures'[p] = failures[p]
                               \/ state'[p] = "closed" /\ failures'[p] = 0
  <2>1. CASE live[c]
    <3>1. /\ state' = [state EXCEPT ![Awaited(c)] = "closed"]
          /\ failures' = [failures EXCEPT ![Awaited(c)] = 0]
      BY <2>1 DEF Answer
    <3> QED
      BY <1>1, <1>1a, <3>1, ConstantsAssumption DEF States
  <2>2. CASE ~live[c]
    <3>1. state' = state /\ failures' = failures
      BY <2>2 DEF Answer
    <3> QED
      BY <1>1a, <3>1
  <2> QED
    BY <1>1a, <2>1, <2>2
<1>2. TypeOK'
  BY <1>1c DEF Inv, TypeOK, Answer
<1>3. CircuitsAgree'
  <2>1. 0 < Threshold
    BY ConstantsAssumption
  <2> QED
    BY <1>1a, <1>1c, <2>1 DEF Inv, CircuitsAgree
<1>4. \A p \in Providers : Available(p) => Available(p)'
  BY <1>1a, <1>1c DEF Available
<1>5. \A d \in Calls : /\ pc'[d] = "calling" => d # c
                       /\ pc'[d] = "raised" => d # c
  BY DEF Inv, TypeOK, Answer
<1>6. \A d \in Calls \ {c} : pc'[d] = pc[d] /\ at'[d] = at[d] /\ good'[d] = good[d]
  BY DEF Inv, TypeOK, Answer
<1>7. RaisedInNeed'
  <2> SUFFICES ASSUME NEW d \in Calls, pc'[d] = "raised"
               PROVE  good'[d] = {}
    BY DEF RaisedInNeed
  <2>1. pc[d] = "raised" /\ good'[d] = good[d]
    BY <1>5, <1>6
  <2> QED
    BY <2>1 DEF Inv, RaisedInNeed
<1>8. \A d \in Calls : good[d] \subseteq Providers
  BY DEF Inv, TypeOK
<1>9. up' = up
  BY DEF Answer
<1>10. GoodAhead'
  <2> SUFFICES ASSUME NEW d \in Calls, pc'[d] = "calling", NEW p \in good'[d]
               PROVE  /\ up'[p] /\ Available(p)'
                      /\ \E i \in at'[d]..Len(Chain) : Chain[i] = p
    BY DEF GoodAhead
  <2>1. pc[d] = "calling" /\ good'[d] = good[d] /\ at'[d] = at[d]
    BY <1>5, <1>6
  <2> QED
    BY <1>4, <1>8, <1>9, <2>1 DEF Inv, GoodAhead
<1> QED
  BY <1>2, <1>3, <1>7, <1>10 DEF Inv

LEMMA FailInv ==
    ASSUME Inv, NEW c \in Calls, Fail(c)
    PROVE  Inv'
<1>1. /\ pc[c] = "calling" /\ ~up[Awaited(c)]
      /\ at[c] \in 1..Len(Chain) /\ Awaited(c) \in Providers
      /\ up' = up /\ good' = good
  BY ChainFacts DEF Inv, TypeOK, Fail, Awaited
<1>2. PICK s \in [Providers -> States] :
        /\ Walk(c, at[c] + 1, s)
        /\ \A p \in Providers \ {Awaited(c)} : s[p] = state[p]
        /\ s = IF live[c] THEN Failed(c) ELSE state
  BY FailFacts
<1>3. TypeOK /\ at[c] + 1 \in Nat \ {0}
  BY <1>1 DEF Inv
<1>3a. Walked(c, at[c] + 1, s)
  BY <1>2, <1>3, WalkFacts
<1>4. /\ failures' \in [Providers -> 0..Threshold]
      /\ since' \in [Providers -> 0..Cooldown]
      /\ \A p \in Providers \ {Awaited(c)} : failures'[p] = failures[p] /\ since'[p] = since[p]
  <2>1. failures[Awaited(c)] \in 0..Threshold /\ Threshold \in Nat /\ Cooldown \in Nat
    BY <1>1, <1>3, ConstantsAssumption DEF TypeOK
  <2>2. OneMore(failures[Awaited(c)]) \in 0..Threshold /\ 0 \in 0..Cooldown
    BY <2>1 DEF OneMore
  <2>3. \/ /\ failures' = [failures EXCEPT ![Awaited(c)] = OneMore(@)]
           /\ since' = [since EXCEPT ![Awaited(c)] = 0]
        \/ failures' = failures /\ since' = since
    BY DEF Fail
  <2> QED
    BY <1>3, <2>2, <2>3 DEF TypeOK
<1>5. TypeOK'
  <2>1. \A d \in Calls : pc'[d] = "calling" <=> at'[d] # 0
    BY <1>3, <1>3a DEF TypeOK, Walked
  <2> QED
    BY <1>1, <1>3, <1>4, <1>3a, <2>1 DEF TypeOK, Walked
<1>6. \A p \in Providers : \/ state'[p] = s[p]
                           \/ Available(p) /\ s[p] = "open" /\ state'[p] = "half_open"
  BY <1>3a DEF Walked
<1>7. state'[Awaited(c)] = s[Awaited(c)]
  <2>1. ASSUME pc'[c] = "calling"
        PROVE  at'[c] \in at[c] + 1..Len(Chain) /\ state' = Asked(s, Chain[at'[c]])
    BY <1>2, <1>3, <2>1, <1>3a DEF FirstOpening, Walked
  <2>2. ASSUME pc'[c] # "calling"
        PROVE  state' = s
    BY <1>2, <1>3, <2>2, <1>3a DEF Walked
  <2>3. ASSUME pc'[c] = "calling"
        PROVE  Chain[at'[c]] # Awaited(c) /\ Chain[at'[c]] \in Providers
    <3>1. at'[c] \in 1..Len(Chain) /\ at'[c] # at[c]
      BY <1>1, <2>1, <2>3, ChainFacts
    <3> QED
      BY <1>1, <3>1, ChainFacts, ConstantsAssumption DEF Awaited
  <2>4. ASSUME pc'[c] = "calling"
        PROVE  state'[Awaited(c)] = s[Awaited(c)]
    BY <1>1, <1>2, <2>1, <2>3, <2>4 DEF Asked
  <2> QED
    BY <2>2, <2>4
<1>8. CircuitsAgree'
  <2>1. ASSUME NEW p \in Providers \ {Awaited(c)}
        PROVE  /\ state'[p] = "closed" <=> failures'[p] < Threshold
               /\ state'[p] = "half_open" => since'[p] = Cooldown
    <3>1. s[p] = state[p] /\ failures'[p] = failures[p] /\ since'[p] = since[p]
      BY <1>2, <1>4
    <3>2. since[p] \in 0..Cooldown /\ Cooldown \in Nat
      BY <1>3, ConstantsAssumption DEF TypeOK
    <3> QED
      BY <1>6, <3>1, <3>2 DEF Inv, CircuitsAgree, Available
  <2>2. CASE live[c]
    <3>1. /\ s[Awaited(c)] = IF OneMore(failures[Awaited(c)]) >= Threshold
                              THEN "open" ELSE state[Awaited(c)]
          /\ failures'[Awaited(c)] = OneMore(failures[Awaited(c)])
      BY <1>1, <1>2, <1>3, <2>2 DEF TypeOK, Failed, Fail
    <3>2. failures[Awaited(c)] \in 0..Threshold /\ Threshold \in Nat
      BY <1>1, <1>3, ConstantsAssumption DEF TypeOK
    <3>3. /\ state'[Awaited(c)] = "closed" <=> failures'[Awaited(c)] < Threshold
          /\ state'[Awaited(c)] = "half_open" => since'[Awaited(c)] = Cooldown
      <4>1. CASE OneMore(failures[Awaited(c)]) >= Threshold
        <5>1. failures'[Awaited(c)] = Threshold /\ state'[Awaited(c)] = "open"
          BY <1>7, <3>1, <3>2, <4>1 DEF OneMore
        <5> QED
          BY <3>2, <5>1
      <4>2. CASE ~(OneMore(failures[Awaited(c)]) >= Threshold)
        <5>1. failures[Awaited(c)] < Threshold /\ failures'[Awaited(c)] < Threshold
          BY <3>1, <3>2, <4>2 DEF OneMore
        <5>2. state[Awaited(c)] = "closed"
          BY <1>1, <5>1 DEF Inv, CircuitsAgree
        <5>3. state'[Awaited(c)] = "closed"
          BY <1>7, <3>1, <4>2, <5>2
        <5> QED
          BY <5>1, <5>3
      <4> QED
        BY <4>1, <4>2
    <3> QED
      BY <1>1, <2>1, <3>3 DEF CircuitsAgree
  <2>3. CASE ~live[c]
    <3>1. state'[Awaited(c)] = state[Awaited(c)] /\ failures' = failures /\ since' = since
      BY <1>2, <1>7, <2>3 DEF Fail
    <3> QED
      BY <1>1, <2>1, <3>1 DEF Inv, CircuitsAgree
  <2> QED
    BY <2>2, <2>3
<1>9. \A p \in Providers \ {Awaited(c)} : Available(p) => Available(p)'
  BY <1>2, <1>4, <1>6 DEF Available
<1>10. \A d \in Calls : pc[d] = "calling" => Awaited(c) \notin good[d]
  BY <1>1 DEF Inv, GoodAhead
<1>11. ASSUME NEW d \in Calls \ {c}
       PROVE  pc'[d] = pc[d] /\ at'[d] = at[d] /\ good'[d] = good[d]
  BY <1>1, <1>2, <1>3, <1>3a DEF Walked
<1>12. \A d \in Calls : good[d] \subseteq Providers
  BY <1>3 DEF TypeOK
<1>13. ASSUME NEW p \in good[c]
       PROVE  /\ up[p] /\ Available(p) /\ p # Awaited(c) /\ p \in Providers
              /\ \E i \in at[c] + 1..Len(Chain) : Chain[i] = p
  <2>1. PICK i \in at[c]..Len(Chain) : Chain[i] = p
    BY <1>1 DEF Inv, GoodAhead
  <2>2. up[p] /\ Available(p) /\ p # Awaited(c) /\ p \in Providers
    BY <1>1, <1>10, <1>12 DEF Inv, GoodAhead
  <2>3. i # at[c]
    BY <2>1, <2>2 DEF Awaited
  <2> QED
    BY <1>1, <2>1, <2>2, <2>3
<1>14. GoodAhead'
  <2>1. ASSUME NEW d \in Calls \ {c}, pc'[d] = "calling", NEW p \in good'[d]
        PROVE  up'[p] /\ Available(p)' /\ \E i \in at'[d]..Len(Chain) : Chain[i] = p
    <3>1. p \in Providers \ {Awaited(c)} /\ pc[d] = "calling" /\ p \in good[d]
      BY <1>10, <1>11, <1>12, <2>1
    <3> QED
      BY <1>1, <1>9, <1>11, <3>1 DEF Inv, GoodAhead
  <2>2. ASSUME pc'[c] = "calling", NEW p \in good'[c]
        PROVE  up'[p] /\ Available(p)' /\ \E i \in at'[c]..Len(Chain) : Chain[i] = p
    <3>1. FirstOpening(at[c] + 1, at'[c])
      BY <1>2, <1>3, <2>2, <1>3a DEF Walked
    <3>2. PICK i \in at[c] + 1..Len(Chain) : Chain[i] = p
      BY <1>1, <1>13, <2>2
    <3>3. up[p] /\ Available(p) /\ p # Awaited(c) /\ p \in Providers
      BY <1>1, <1>13, <2>2
    <3>4. i >= at'[c]
      BY <1>1, <3>1, <3>2, <3>3 DEF FirstOpening
    <3> QED
      BY <1>1, <1>5, <1>9, <3>1, <3>2, <3>3, <3>4 DEF FirstOpening
  <2> QED
    BY <2>1, <2>2 DEF GoodAhead
<1>15. RaisedInNeed'
  <2>1. ASSUME pc'[c] = "raised"
        PROVE  good[c] = {}
    <3>1. \A k \in at[c] + 1..Len(Chain) : ~Available(Chain[k])
      BY <1>2, <1>3, <2>1, <1>3a DEF Walked, AllShut
    <3> QED
      BY <1>13, <3>1
  <2> QED
    BY <1>1, <1>11, <2>1 DEF Inv, RaisedInNeed
<1> QED
  BY <1>5, <1>8, <1>14, <1>15 DEF Inv

\* The steps that no caller takes.
LEMMA OtherInv ==
    ASSUME Inv,
           \/ \E p \in Providers : Query(p) \/ Reset(p) \/ Flip(p)
           \/ Tick
           \/ UNCHANGED vars
    PROVE  Inv'
<1>1. /\ TypeOK /\ CircuitsAgree /\ RaisedInNeed /\ GoodAhead
      /\ Threshold \in Nat \ {0} /\ Cooldown \in Nat \ {0}
  BY ConstantsAssumption DEF Inv
<1>2. ASSUME NEW q \in Providers, Query(q)
      PROVE  Inv'
  <2>1. /\ UNCHANGED <<failures, since, up, pc, at, live, good>>
        /\ state' \in [Providers -> States]
        /\ \A p \in Providers :
              \/ state'[p] = state[p]
              \/ since[p] >= Cooldown /\ state[p] = "open" /\ state'[p] = "half_open"
    BY <1>1, <1>2 DEF Query, Asked, Available, TypeOK, States
  <2>2. TypeOK'
    BY <1>1, <2>1 DEF TypeOK
  <2>3. CircuitsAgree'
    BY <1>1, <2>1 DEF TypeOK, CircuitsAgree
  <2>4. RaisedInNeed'
    BY <1>1, <2>1 DEF RaisedInNeed
  <2>5. \A c \in Calls : good[c] \subseteq Providers
    BY <1>1 DEF TypeOK
  <2>6. GoodAhead'
    BY <1>1, <2>1, <2>5 DEF GoodAhead, Available
  <2> QED
    BY <2>2, <2>3, <2>4, <2>6 DEF Inv
<1>3. ASSUME NEW q \in Providers, Reset(q)
      PROVE  Inv'
  <2>1. /\ UNCHANGED <<up, pc, at, good>>
        /\ state' \in [Providers -> States]
        /\ failures' \in [Providers -> 0..Threshold]
        /\ since' \in [Providers -> 0..Cooldown]
        /\ \A p \in Providers :
              \/ state'[p] = state[p] /\ failures'[p] = failures[p] /\ since'[p] = since[p]
              \/ state'[p] = "closed" /\ failures'[p] = 0
    BY <1>1, <1>3 DEF Reset, TypeOK, States
  <2>2. live' \in [Calls -> BOOLEAN]
    BY <1>3 DEF Reset
  <2>3. TypeOK'
    BY <1>1, <2>1, <2>2 DEF TypeOK
  <2>4. CircuitsAgree'
    BY <1>1, <2>1 DEF CircuitsAgree
  <2>5. RaisedInNeed'
    BY <1>1, <2>1 DEF RaisedInNeed
  <2>6. \A c \in Calls : good[c] \subseteq Providers
    BY <1>1 DEF TypeOK
  <2>7. GoodAhead'
    BY <1>1, <2>1, <2>6 DEF GoodAhead, Available
  <2> QED
    BY <2>3, <2>4, <2>5, <2>7 DEF Inv
<1>4. ASSUME NEW q \in Providers, Flip(q)
      PROVE  Inv'
  <2>1. /\ UNCHANGED <<state, failures, since, pc, at, live>>
        /\ up' \in [Providers -> BOOLEAN]
        /\ good' \in [Calls -> SUBSET Providers]
        /\ \A c \in Calls : good'[c] = good[c] \ {q}
        /\ \A p \in Providers \ {q} : up'[p] = up[p]
    BY <1>1, <1>4 DEF Flip, circuits, TypeOK
  <2>2. TypeOK'
    BY <1>1, <2>1 DEF TypeOK
  <2>3. CircuitsAgree'
    BY <1>1, <2>1 DEF CircuitsAgree
  <2>4. RaisedInNeed'
    BY <1>1, <2>1 DEF RaisedInNeed
  <2>5. \A c \in Calls : good[c] \subseteq Providers
    BY <1>1 DEF TypeOK
  <2>6. GoodAhead'
    BY <1>1, <2>1, <2>5 DEF GoodAhead, Available
  <2> QED
    BY <2>2, <2>3, <2>4, <2>6 DEF Inv
<1>5. ASSUME Tick
      PROVE  Inv'
  <2>1. /\ UNCHANGED <<state, failures, up, pc, at, live, good>>
        /\ since' \in [Providers -> 0..Cooldown]
        /\ \A p \in Providers : since'[p] >= since[p]
    BY <1>1, <1>5 DEF Tick, Passed, TypeOK
  <2>2. \A p \in Providers : since[p] \in 0..Cooldown /\ since'[p] \in 0..Cooldown
    BY <1>1, <2>1 DEF TypeOK
  <2>3. TypeOK'
    BY <1>1, <2>1 DEF TypeOK
  <2>4. CircuitsAgree'
    BY <1>1, <2>1, <2>2 DEF CircuitsAgree
  <2>5. RaisedInNeed'
    BY <1>1, <2>1 DEF RaisedInNeed
  <2>6. \A c \in Calls : good[c] \subseteq Providers
    BY <1>1 DEF TypeOK
  <2>7. GoodAhead'
    BY <1>1, <2>1, <2>2, <2>6 DEF GoodAhead, Available
  <2> QED
    BY <2>3, <2>4, <2>5, <2>7 DEF Inv
<1>6. ASSUME UNCHANGED vars
      PROVE  Inv'
  BY <1>6 DEF Inv, TypeOK, CircuitsAgree, RaisedInNeed, GoodAhead, Available, vars, circuits
<1> QED
  BY <1>2, <1>3, <1>4, <1>5, <1>6

\* The invariant that the theorems below take their parts from.
THEOREM InvCorrect == Spec => []Inv
<1>1. Init => Inv
  <2> SUFFICES ASSUME Init PROVE Inv
    OBVIOUS
  <2>1. Threshold \in Nat \ {0} /\ Cooldown \in Nat \ {0}
    BY ConstantsAssumption
  <2>2. TypeOK
    BY <2>1, ChainFacts DEF Init, TypeOK, States
  <2>3. CircuitsAgree
    BY <2>1 DEF Init, CircuitsAgree
  <2>4. RaisedInNeed /\ GoodAhead
    BY DEF Init, RaisedInNeed, GoodAhead
  <2> QED
    BY <2>2, <2>3, <2>4 DEF Inv
<1>2. Inv /\ [Next]_vars => Inv'
  BY BeginInv, AnswerInv, FailInv, OtherInv DEF Next
<1> QED
  BY <1>1, <1>2, PTL DEF Spec

\* Every variable keeps its type, and a call holds a place in the chain exactly
\* while it awaits the provider there.
THEOREM TypeCorrect == Spec => []TypeOK
<1>1. Inv => TypeOK
  BY DEF Inv
<1> QED
  BY <1>1, InvCorrect, PTL

\* Whatever the order of overlapping calls, a circuit is off "closed" exactly
\* from Threshold failures on, and half open only after a whole cooldown.
THEOREM CircuitsCorrect == Spec => []CircuitsAgree
<1>1. Inv => CircuitsAgree
  BY DEF Inv
<1> QED
  BY <1>1, InvCorrect, PTL

\* A call raises only if no provider of the chain both let calls in when it
\* began and has been up since.
THEOREM FailoverCorrect == Spec => []RaisedInNeed
<1>1. Inv => RaisedInNeed
  BY DEF Inv
<1> QED
  BY <1>1, InvCorrect, PTL

-----------------------------------------------------------------------------
\* The circuit of Focus as a Breaker.

\* The calls let through after the loop went on: the one that moved is among
\* them if it now awaits Focus.
LEMMA OutAfterWalk ==
    ASSUME TypeOK, NEW c \in Calls, NEW i, NEW s, Walked(c, i, s)
    PROVE  OutAt(Focus)' = IF pc'[c] = "calling" /\ Chain[at'[c]] = Focus
                             THEN OutAt(Focus) \cup {c}
                             ELSE OutAt(Focus) \ {c}
<1>1. \A d \in Calls \ {c} : d \in OutAt(Focus)' <=> d \in OutAt(Focus)
  BY DEF Walked, OutAt, Awaited
<1>2. c \in OutAt(Focus)' <=> pc'[c] = "calling" /\ Chain[at'[c]] = Focus
  BY DEF Walked, OutAt, Awaited
<1>3. OutAt(Focus) \subseteq Calls /\ OutAt(Focus)' \subseteq Calls
  BY DEF OutAt
<1> QED
  BY <1>1, <1>2, <1>3

\* A walk that hands the circuit of Focus on as it was either lets the call
\* through it or leaves it alone.
LEMMA WalkStep ==
    ASSUME Inv, NEW c \in Calls \ OutAt(Focus), NEW i, NEW s, Walked(c, i, s),
           s \in [Providers -> States],
           s[Focus] = state[Focus],
           failures'[Focus] = failures[Focus], since'[Focus] = since[Focus]
    PROVE  [FocusBreaker!Next]_(FocusBreaker!breaker)
<1>1. /\ Focus \in Providers /\ Cooldown \in Nat \ {0}
      /\ since[Focus] \in 0..Cooldown /\ TypeOK
  BY ConstantsAssumption DEF Inv, TypeOK
<1>2. CASE pc'[c] = "calling" /\ Chain[at'[c]] = Focus
  <2>1. Available(Focus) /\ state' = Asked(s, Focus)
    BY <1>2 DEF Walked, FirstOpening
  <2>2. state'[Focus] # "open"
    BY <1>1, <2>1 DEF Asked, States
  <2>3. WaitOf(Focus) = 0 /\ WaitOf(Focus)' = 0
    BY <1>1, <2>1, <2>2 DEF Available, WaitOf
  <2>4. OutAt(Focus)' = OutAt(Focus) \cup {c}
    BY <1>1, <1>2, OutAfterWalk
  <2>5. FocusBreaker!LetThrough(c)
    BY <2>3, <2>4 DEF FocusBreaker!LetThrough
  <2> QED
    BY <2>5 DEF FocusBreaker!Next
<1>3. CASE ~(pc'[c] = "calling" /\ Chain[at'[c]] = Focus)
  <2>1. OutAt(Focus)' = OutAt(Focus)
    BY <1>1, <1>3, OutAfterWalk
  <2>2. state'[Focus] = state[Focus]
    <3>1. CASE state' = s
      BY <3>1
    <3>2. CASE state' # s
      <4>1. pc'[c] = "calling" /\ state' = Asked(s, Chain[at'[c]])
        BY <3>2 DEF Walked
      <4> QED
        BY <1>1, <1>3, <4>1 DEF Asked
    <3> QED
      BY <3>1, <3>2
  <2>3. WaitOf(Focus)' = WaitOf(Focus)
    BY <2>2 DEF WaitOf
  <2> QED
    BY <2>1, <2>3 DEF FocusBreaker!breaker
<1> QED
  BY <1>2, <1>3

LEMMA BeginStep ==
    ASSUME Inv, NEW c \in Calls, Begin(c)
    PROVE  [FocusBreaker!Next]_(FocusBreaker!breaker)
<1>1. state \in [Providers -> States] /\ TypeOK
  BY DEF Inv, TypeOK
<1>2. Walked(c, 1, state)
  BY <1>1, WalkFacts DEF Begin
<1>3. c \notin OutAt(Focus) /\ failures' = failures /\ since' = since
  BY DEF Begin, OutAt
<1> QED
  BY <1>1, <1>2, <1>3, WalkStep

LEMMA AnswerStep ==
    ASSUME Inv, NEW c \in Calls, Answer(c)
    PROVE  [FocusBreaker!Next]_(FocusBreaker!breaker)
<1>1. /\ Focus \in Providers /\ TypeOK
      /\ state \in [Providers -> States] /\ failures \in [Providers -> 0..Threshold]
  BY ConstantsAssumption DEF Inv, TypeOK
<1>2. OutAt(Focus)' = OutAt(Focus) \ {c}
  <2>1. \A d \in Calls \ {c} : pc'[d] = pc[d] /\ at'[d] = at[d] /\ live'[d] = live[d]
    BY DEF Answer, Inv, TypeOK
  <2>2. pc'[c] = "idle"
    BY DEF Answer, Inv, TypeOK
  <2> QED
    BY <2>1, <2>2 DEF OutAt, Awaited
<1>3. CASE c \in OutAt(Focus)
  <2>1. live[c] /\ Awaited(c) = Focus
    BY <1>3 DEF OutAt
  <2>2. state'[Focus] = "closed" /\ failures'[Focus] = 0
    BY <1>1, <2>1 DEF Answer
  <2>3. WaitOf(Focus)' = 0
    BY <2>2 DEF WaitOf
  <2>4. FocusBreaker!Success(c)
    BY <1>2, <1>3, <2>2, <2>3 DEF FocusBreaker!Success
  <2> QED
    BY <2>4 DEF FocusBreaker!Next
<1>4. CASE c \notin OutAt(Focus)
  <2>1. ~live[c] \/ Awaited(c) # Focus
    BY <1>4 DEF OutAt, Answer
  <2>2. state'[Focus] = state[Focus] /\ failures'[Focus] = failures[Focus] /\ since' = since
    BY <1>1, <2>1 DEF Answer
  <2>3. WaitOf(Focus)' = WaitOf(Focus)
    BY <2>2 DEF WaitOf
  <2>4. OutAt(Focus)' = OutAt(Focus)
    BY <1>2, <1>4
  <2> QED
    BY <2>2, <2>3, <2>4 DEF FocusBreaker!breaker
<1> QED
  BY <1>3, <1>4

LEMMA FailStep ==
    ASSUME Inv, Inv', NEW c \in Calls, Fail(c)
    PROVE  [FocusBreaker!Next]_(FocusBreaker!breaker)
<1>1. /\ Focus \in Providers /\ TypeOK /\ Threshold \in Nat \ {0} /\ Cooldown \in Nat \ {0}
      /\ pc[c] = "calling" /\ at[c] \in 1..Len(Chain)
      /\ failures \in [Providers -> 0..Threshold] /\ since \in [Providers -> 0..Cooldown]
      /\ state \in [Providers -> States]
  <2>1. pc[c] = "calling" /\ TypeOK
    BY DEF Inv, Fail
  <2>2. at[c] \in 1..Len(Chain)
    BY <2>1, ChainFacts DEF TypeOK
  <2> QED
    BY <2>1, <2>2, ConstantsAssumption DEF TypeOK
<1>2. PICK s \in [Providers -> States] :
        /\ Walk(c, at[c] + 1, s)
        /\ \A p \in Providers \ {Awaited(c)} : s[p] = state[p]
        /\ s = IF live[c] THEN Failed(c) ELSE state
  BY FailFacts
<1>3. Walked(c, at[c] + 1, s)
  BY <1>1, <1>2, WalkFacts
<1>4. CASE c \in OutAt(Focus)
  <2>1. live[c] /\ Awaited(c) = Focus
    BY <1>4 DEF OutAt
  <2>2. /\ failures'[Focus] = OneMore(failures[Focus]) /\ since'[Focus] = 0
        /\ s[Focus] = IF OneMore(failures[Focus]) >= Threshold THEN "open" ELSE state[Focus]
    BY <1>1, <1>2, <2>1 DEF Fail, Failed
  <2>3. ~(pc'[c] = "calling" /\ Chain[at'[c]] = Focus)
    <3> SUFFICES ASSUME pc'[c] = "calling"
                 PROVE  Chain[at'[c]] # Focus
      OBVIOUS
    <3>1. at'[c] \in at[c] + 1..Len(Chain)
      BY <1>3 DEF Walked, FirstOpening
    <3>2. at'[c] \in 1..Len(Chain) /\ at'[c] # at[c]
      BY <1>1, <3>1, ChainFacts
    <3> QED
      BY <1>1, <2>1, <3>2, ChainFacts, ConstantsAssumption DEF Awaited
  <2>4. OutAt(Focus)' = OutAt(Focus) \ {c}
    BY <1>1, <1>3, <2>3, OutAfterWalk
  <2>5. state'[Focus] = s[Focus]
    <3>1. CASE state' = s
      BY <3>1
    <3>2. CASE state' # s
      <4>1. pc'[c] = "calling" /\ state' = Asked(s, Chain[at'[c]])
        BY <1>3, <3>2 DEF Walked
      <4> QED
        BY <1>1, <1>2, <2>3, <4>1 DEF Asked
    <3> QED
      BY <3>1, <3>2
  <2>6. WaitOf(Focus)' = IF failures'[Focus] = Threshold THEN Cooldown ELSE 0
    <3>1. failures[Focus] \in 0..Threshold
      BY <1>1
    <3>2. CASE OneMore(failures[Focus]) >= Threshold
      <4>1. state'[Focus] = "open" /\ failures'[Focus] = Threshold
        BY <1>1, <2>2, <2>5, <3>1, <3>2 DEF OneMore
      <4> QED
        BY <1>1, <2>2, <4>1 DEF WaitOf
    <3>3. CASE ~(OneMore(failures[Focus]) >= Threshold)
      <4>1. failures'[Focus] < Threshold /\ failures'[Focus] # Threshold
        BY <1>1, <2>2, <3>1, <3>3 DEF OneMore
      <4>2. state'[Focus] = "closed"
        BY <1>1, <4>1 DEF Inv, CircuitsAgree
      <4> QED
        BY <4>1, <4>2 DEF WaitOf
    <3> QED
      BY <3>2, <3>3
  <2>7. FocusBreaker!Failure(c)
    BY <1>4, <2>2, <2>4, <2>6 DEF FocusBreaker!Failure, OneMore
  <2> QED
    BY <2>7 DEF FocusBreaker!Next
<1>5. CASE c \notin OutAt(Focus)
  <2>1. ~live[c] \/ Awaited(c) # Focus
    BY <1>1, <1>5 DEF OutAt
  <2>2. s[Focus] = state[Focus]
    BY <1>1, <1>2, <2>1
  <2>3. failures'[Focus] = failures[Focus] /\ since'[Focus] = since[Focus]
    BY <1>1, <2>1 DEF Fail
  <2> QED
    BY <1>2, <1>3, <1>5, <2>2, <2>3, WalkStep
<1> QED
  BY <1>4, <1>5

LEMMA OtherStep ==
    ASSUME Inv,
           \/ \E p \in Providers : Query(p) \/ Reset(p) \/ Flip(p)
           \/ Tick
           \/ UNCHANGED vars
    PROVE  [FocusBreaker!Next]_(FocusBreaker!breaker)
<1>1. /\ Focus \in Providers /\ TypeOK /\ Cooldown \in Nat \ {0}
      /\ state \in [Providers -> States] /\ failures \in [Providers -> 0..Threshold]
      /\ since \in [Providers -> 0..Cooldown]
  BY ConstantsAssumption DEF Inv, TypeOK
<1>2. ASSUME NEW q \in Providers, Query(q)
      PROVE  UNCHANGED FocusBreaker!breaker
  <2>1. /\ failures' = failures /\ since' = since
        /\ \/ state'[Focus] = state[Focus]
           \/ since[Focus] >= Cooldown /\ state[Focus] = "open" /\ state'[Focus] = "half_open"
    BY <1>1, <1>2 DEF Query, Available, Asked
  <2>2. WaitOf(Focus)' = WaitOf(Focus)
    BY <1>1, <2>1 DEF WaitOf
  <2>3. OutAt(Focus)' = OutAt(Focus)
    BY <1>2 DEF Query, OutAt, Awaited
  <2> QED
    BY <2>1, <2>2, <2>3 DEF FocusBreaker!breaker
<1>3. ASSUME NEW q \in Providers, Reset(q)
      PROVE  FocusBreaker!Clear \/ UNCHANGED FocusBreaker!breaker
  <2>1. CASE q = Focus
    <3>1. failures'[Focus] = 0 /\ state'[Focus] = "closed"
      BY <1>1, <1>3, <2>1 DEF Reset
    <3>2. WaitOf(Focus)' = 0
      BY <3>1 DEF WaitOf
    <3>3. OutAt(Focus)' = {}
      BY <1>3, <2>1 DEF Reset, OutAt, Awaited
    <3> QED
      BY <3>1, <3>2, <3>3 DEF FocusBreaker!Clear
  <2>2. CASE q # Focus
    <3>1. /\ failures'[Focus] = failures[Focus] /\ state'[Focus] = state[Focus]
          /\ since'[Focus] = since[Focus]
      BY <1>1, <1>3, <2>2 DEF Reset
    <3>2. WaitOf(Focus)' = WaitOf(Focus)
      BY <3>1 DEF WaitOf
    <3>3. OutAt(Focus)' = OutAt(Focus)
      BY <1>3, <2>2 DEF Reset, OutAt, Awaited
    <3> QED
      BY <3>1, <3>2, <3>3 DEF FocusBreaker!breaker
  <2> QED
    BY <2>1, <2>2
<1>4. ASSUME NEW q \in Providers, Flip(q)
      PROVE  UNCHANGED FocusBreaker!breaker
  BY <1>4 DEF Flip, circuits, WaitOf, OutAt, Awaited, FocusBreaker!breaker
<1>5. ASSUME Tick
      PROVE  FocusBreaker!Elapse \/ UNCHANGED FocusBreaker!breaker
  <2>1. /\ failures' = failures /\ state' = state
        /\ since'[Focus] = IF since[Focus] < Cooldown THEN since[Focus] + 1 ELSE Cooldown
    BY <1>1, <1>5 DEF Tick, Passed
  <2>2. OutAt(Focus)' = OutAt(Focus)
    BY <1>5 DEF Tick, OutAt, Awaited
  <2>3. CASE state[Focus] = "open" /\ since[Focus] < Cooldown
    <3>1. WaitOf(Focus) > 0 /\ WaitOf(Focus)' = WaitOf(Focus) - 1
      BY <1>1, <2>1, <2>3 DEF WaitOf
    <3> QED
      BY <2>1, <2>2, <3>1 DEF FocusBreaker!Elapse
  <2>4. CASE ~(state[Focus] = "open" /\ since[Focus] < Cooldown)
    <3>1. WaitOf(Focus)' = WaitOf(Focus)
      BY <1>1, <2>1, <2>4 DEF WaitOf
    <3> QED
      BY <2>1, <2>2, <3>1 DEF FocusBreaker!breaker
  <2> QED
    BY <2>3, <2>4
<1>6. ASSUME UNCHANGED vars
      PROVE  UNCHANGED FocusBreaker!breaker
  BY <1>6 DEF vars, circuits, WaitOf, OutAt, Awaited, FocusBreaker!breaker
<1> QED
  BY <1>2, <1>3, <1>4, <1>5, <1>6 DEF FocusBreaker!Next

\* The circuit of every provider of the registry implements Breaker: nothing
\* that overlapping calls, failover, late outcomes, queries and resets do to it
\* goes beyond what a breaker alone may do.
THEOREM BreakerCorrect == Spec => ImplementsBreaker
<1>1. Init => FocusBreaker!Init
  <2> SUFFICES ASSUME Init PROVE FocusBreaker!Init
    OBVIOUS
  <2>1. Focus \in Providers
    BY ConstantsAssumption
  <2>2. failures[Focus] = 0 /\ WaitOf(Focus) = 0
    BY <2>1 DEF Init, WaitOf
  <2>3. OutAt(Focus) = {}
    BY DEF Init, OutAt
  <2> QED
    BY <2>2, <2>3 DEF FocusBreaker!Init
<1>2. Inv /\ Inv' /\ [Next]_vars => [FocusBreaker!Next]_(FocusBreaker!breaker)
  BY BeginStep, AnswerStep, FailStep, OtherStep DEF Next
<1> QED
  BY <1>1, <1>2, InvCorrect, PTL DEF Spec, ImplementsBreaker, FocusBreaker!Spec

=============================================================================
