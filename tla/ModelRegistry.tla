--------------------------- MODULE ModelRegistry ---------------------------
(***************************************************************************)
(* ModelRegistry (tool/llm/model_registry.py): a call to a language model  *)
(* goes along a chain of providers, each behind a circuit breaker, until   *)
(* one answers.                                                            *)
(*                                                                         *)
(* A coroutine gives up the event loop only while it awaits the adapter.   *)
(* The walk from one failure to the next provider whose circuit lets it    *)
(* in is therefore part of the step that ends the await.                   *)
(*                                                                         *)
(* The code compares time.monotonic() - last_failure_time with             *)
(* recovery_timeout_s and nothing else, so the model keeps that            *)
(* difference, in ticks, up to Cooldown.  For the same reason a failure    *)
(* count stops at Threshold.                                               *)
(***************************************************************************)
EXTENDS Naturals, Sequences

CONSTANTS Calls,      \* coroutines that call the registry, one call at a time
          Providers,  \* names of providers
          Chain,      \* primary and fallback_chain, in order
          Threshold,  \* failure_threshold
          Cooldown,   \* recovery_timeout_s, in ticks
          Focus       \* the provider whose circuit is compared with Breaker

ASSUME ConstantsAssumption ==
    /\ Chain \in Seq(Providers) /\ Chain # << >>
    /\ \A i, j \in DOMAIN Chain : Chain[i] = Chain[j] => i = j
    /\ Threshold \in Nat \ {0} /\ Cooldown \in Nat \ {0}
    /\ Focus \in Providers

VARIABLES state,      \* CircuitState.state of each provider
          failures,   \* CircuitState.failure_count
          since,      \* ticks since CircuitState.last_failure_time
          up,         \* the provider would answer (the world outside)
          pc,         \* what each caller does
          at,         \* place in Chain of the provider it awaits, or 0
          live,       \* its circuit object is still the registry's
          good        \* ghost: providers that let calls in when its call
                      \* began and have been up ever since

circuits == <<state, failures, since>>
vars == <<circuits, up, pc, at, live, good>>

States == {"closed", "open", "half_open"}
Primary == Chain[1]
Awaited(c) == Chain[at[c]]

NotOpen(p) == state[p] # "open"
OneTickEarly(p) == state[p] = "open" => since[p] + 1 >= Cooldown
Available(p) == state[p] = "open" => since[p] >= Cooldown

\* _is_available has a side effect: it half-opens a circuit it lets calls into.
Asked(s, p) == [s EXCEPT ![p] = IF @ = "open" THEN "half_open" ELSE @]

Init ==
    /\ state = [p \in Providers |-> "closed"]
    /\ failures = [p \in Providers |-> 0]
    /\ since = [p \in Providers |-> Cooldown]
    /\ up \in [Providers -> BOOLEAN]
    /\ pc = [c \in Calls |-> "idle"]
    /\ at = [c \in Calls |-> 0]
    /\ live = [c \in Calls |-> TRUE]
    /\ good = [c \in Calls |-> {}]

\* The first place of the chain, from i on, whose circuit lets a call in.
FirstOpening(i, j) ==
    /\ j \in i..Len(Chain) /\ Available(Chain[j])
    /\ \A k \in i..(j - 1) : ~Available(Chain[k])

\* No circuit from place i on lets a call in.
ShutAt(i) == i \in DOMAIN Chain => ~Available(Chain[i])
AllShut(i) == \A k \in i..Len(Chain) : ~Available(Chain[k])

\* The rest of the loop from place i, given the circuit states s left by the
\* outcome just recorded: await the next provider, or raise RuntimeError.
Walk(c, i, s) ==
    \/ \E j \in i..Len(Chain) :
          /\ FirstOpening(i, j)
          /\ state' = Asked(s, Chain[j])
          /\ pc' = [pc EXCEPT ![c] = "calling"]
          /\ at' = [at EXCEPT ![c] = j]
          /\ live' = [live EXCEPT ![c] = TRUE]
    \/ /\ AllShut(i)
       /\ state' = s
       /\ pc' = [pc EXCEPT ![c] = "raised"]
       /\ at' = [at EXCEPT ![c] = 0]
       /\ live' = [live EXCEPT ![c] = TRUE]

Begin(c) ==
    /\ pc[c] # "calling"
    /\ good' = [good EXCEPT ![c] =
                  {Chain[i] : i \in {j \in DOMAIN Chain : up[Chain[j]] /\ Available(Chain[j])}}]
    /\ Walk(c, 1, state)
    /\ UNCHANGED <<failures, since, up>>

\* _record_success on the circuit that the call fetched before its await.
Answer(c) ==
    /\ pc[c] = "calling" /\ up[Awaited(c)]
    /\ IF live[c]
         THEN /\ state' = [state EXCEPT ![Awaited(c)] = "closed"]
              /\ failures' = [failures EXCEPT ![Awaited(c)] = 0]
         ELSE UNCHANGED <<state, failures>>
    /\ pc' = [pc EXCEPT ![c] = "idle"]
    /\ at' = [at EXCEPT ![c] = 0]
    /\ live' = [live EXCEPT ![c] = TRUE]
    /\ good' = [good EXCEPT ![c] = {}]
    /\ UNCHANGED <<since, up>>

OneMore(n) == IF n < Threshold THEN n + 1 ELSE Threshold

OpenOneLater(c) ==
    [state EXCEPT ![Awaited(c)] =
        IF OneMore(failures[Awaited(c)]) > Threshold THEN "open" ELSE @]
\* The circuit states after _record_failure for the call that c awaits.
Failed(c) ==
    [state EXCEPT ![Awaited(c)] =
        IF OneMore(failures[Awaited(c)]) >= Threshold THEN "open" ELSE @]

FromTheStart(c) == 1
NextPlace(c) == at[c] + 1

Fail(c) ==
    /\ pc[c] = "calling" /\ ~up[Awaited(c)]
    /\ IF live[c]
         THEN /\ failures' = [failures EXCEPT ![Awaited(c)] = OneMore(@)]
              /\ since' = [since EXCEPT ![Awaited(c)] = 0]
              /\ Walk(c, NextPlace(c), Failed(c))
         ELSE /\ UNCHANGED <<failures, since>>
              /\ Walk(c, NextPlace(c), state)
    /\ UNCHANGED <<up, good>>

\* is_provider_available, which may half-open the circuit.
Query(p) ==
    /\ state[p] = "open" /\ Available(p)
    /\ state' = Asked(state, p)
    /\ UNCHANGED <<failures, since, up, pc, at, live, good>>

\* reset_circuit: a new CircuitState; calls in flight keep the old one.  Its
\* last_failure_time is not read before a failure sets it.
Reset(p) ==
    /\ state' = [state EXCEPT ![p] = "closed"]
    /\ failures' = [failures EXCEPT ![p] = 0]
    /\ since' = [since EXCEPT ![p] = Cooldown]
    /\ live' = [c \in Calls |-> live[c] /\ ~(pc[c] = "calling" /\ Awaited(c) = p)]
    /\ UNCHANGED <<up, pc, at, good>>

OneMoreTick(n) == n + 1
Passed(n) == IF n < Cooldown THEN n + 1 ELSE Cooldown

Tick ==
    /\ \E p \in Providers : since[p] < Cooldown
    /\ since' = [p \in Providers |-> Passed(since[p])]
    /\ UNCHANGED <<state, failures, up, pc, at, live, good>>

\* A provider breaks down, or recovers.
Flip(p) ==
    /\ up' = [up EXCEPT ![p] = ~@]
    /\ good' = [c \in Calls |-> good[c] \ {p}]
    /\ UNCHANGED <<circuits, pc, at, live>>

Next ==
    \/ \E c \in Calls : Begin(c) \/ Answer(c) \/ Fail(c)
    \/ \E p \in Providers : Query(p) \/ Reset(p) \/ Flip(p)
    \/ Tick

Spec == Init /\ [][Next]_vars

\* The adapter ends each call: it passes a timeout to LiteLLM and re-raises
\* what that raises.  Time passes.
FairSpec ==
    /\ Spec
    /\ \A c \in Calls : WF_vars(Answer(c) \/ Fail(c))
    /\ WF_vars(Tick)

-----------------------------------------------------------------------------

TypeOK ==
    /\ state \in [Providers -> States]
    /\ failures \in [Providers -> 0..Threshold]
    /\ since \in [Providers -> 0..Cooldown]
    /\ up \in [Providers -> BOOLEAN]
    /\ pc \in [Calls -> {"idle", "calling", "raised"}]
    /\ at \in [Calls -> 0..Len(Chain)]
    /\ live \in [Calls -> BOOLEAN]
    /\ good \in [Calls -> SUBSET Providers]
    /\ \A c \in Calls : pc[c] = "calling" <=> at[c] # 0

\* A circuit is off "closed" exactly from Threshold failures on, and half open
\* only after a whole cooldown without a failure, however the late outcomes of
\* calls let in earlier arrive (_is_available, _record_failure).
CircuitsAgree ==
    \A p \in Providers :
        /\ state[p] = "closed" <=> failures[p] < Threshold
        /\ state[p] = "half_open" => since[p] = Cooldown

\* The failover of call: it raises only if each provider of the chain was shut
\* when the call began, or has been down at some moment since.
RaisedInNeed == \A c \in Calls : pc[c] = "raised" => good[c] = {}

\* The circuit of Focus as a Breaker: its state field and its time stamp come
\* down to the ticks a shut breaker still waits.
WaitOf(p) == IF state[p] = "open" THEN Cooldown - since[p] ELSE 0
OutAt(p) == {c \in Calls : pc[c] = "calling" /\ live[c] /\ Awaited(c) = p}

FocusBreaker == INSTANCE Breaker
                WITH fails <- failures[Focus], wait <- WaitOf(Focus), out <- OutAt(Focus)

\* Seen from any one provider, overlapping calls, late outcomes, failover, queries
\* and resets do nothing that a Breaker may not do; above all, no call reaches
\* a provider within Cooldown of the failure that shut its circuit.
ImplementsBreaker == FocusBreaker!Spec

\* Every call of the registry returns or raises; the loop visits each provider
\* at most once.
CallsEnd == \A c \in Calls : pc[c] = "calling" ~> pc[c] # "calling"

\* The breaker locks nobody out for good: if the primary stays up from some
\* moment on and calls keep being made, its circuit closes, and no late outcome
\* opens it again.
PrimaryRecovers ==
    (<>[]up[Primary] /\ []<><<\E c \in Calls : Begin(c)>>_vars)
        => <>[](state[Primary] = "closed")

=============================================================================
