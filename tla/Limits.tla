------------------------------- MODULE Limits -------------------------------
(* What bounds the use of the service by one organisation: the sliding window
   of the rate limiter, the token budget that is checked before a request and
   charged after it, and the fuse that silences a memory users keep negating.
   The three share no state; each is explored from its own initial state.

   Covered: InMemoryRateLimiter and its middleware, TokenBudgetManager,
   BudgetResolver and the budget middleware, UsageTracker.check_budget,
   NegativeFeedbackFuse.  The rate limiter is reset by no caller; a change of
   the hour and burst limits has no effect, since nothing reads them.
   Not covered: headers other than Retry-After and X-Budget-Remaining. *)
EXTENDS Integers, FiniteSets, Sequences, FiniteSetsExt

CONSTANTS Window,        \* the 60 seconds of the window, in clock ticks
          TicksPerSecond,\* a tick is a fraction of a second
          PerWindow,     \* requests_per_minute
          MaxClock,      \* bound: clock ticks
          Tokens,        \* total_tokens of the budget
          Charges,       \* token counts a request may be charged
          Requests,      \* requests in progress
          Threshold,     \* negative feedbacks that fuse a memory
          MaxNegative    \* bound: negative feedbacks counted

ASSUME LimitsAssumption ==
    /\ Window \in Nat \ {0} /\ TicksPerSecond \in Nat \ {0} /\ PerWindow \in Nat \ {0}
    /\ Tokens \in Nat \ {0} /\ Charges \subseteq Nat
    /\ Threshold \in Nat \ {0}
    /\ MaxClock \in Nat /\ MaxClock > Window /\ MaxNegative \in Nat

VARIABLES clock,         \* time.monotonic()
          window,        \* the entries the limiter keeps: <<timestamp, entries before it>>
          admitted,      \* every entry it ever made
          waiting,       \* the earliest Retry-After promise, or NoPromise
          budget,        \* [used, status, receipts]
          inFlight,      \* request -> "idle", "checked" or "refused"
          record         \* [count, fused], the fuse's record of one memory

rateVars == <<clock, window, admitted, waiting>>
budgetVars == <<budget, inFlight>>
limitVars == <<rateVars, budgetVars, record>>

-----------------------------------------------------------------------------
(* The rate limiter. *)
NoPromise == -1
RateInit == /\ clock = Window + 1
            /\ window = {} /\ admitted = {} /\ waiting = NoPromise

Live(w) == {e \in w : e[1] > clock - Window}

(* retry_after, in whole seconds: what is left of the oldest entry's minute,
   rounded down, and one at least. *)
RetryAfter(w) == Max({1, (Min({e[1] : e \in w}) + Window - clock) \div TicksPerSecond})

Admit ==
    /\ Cardinality(Live(window)) < PerWindow
    /\ LET entry == <<clock, Cardinality(Live(window))>> IN
       /\ window' = Live(window) \union {entry}
       /\ admitted' = admitted \union {entry}
    /\ waiting' = NoPromise
    /\ UNCHANGED clock

Throttle ==
    /\ Cardinality(Live(window)) >= PerWindow
    /\ window' = Live(window)
    /\ waiting' = IF waiting = NoPromise
                  THEN clock + TicksPerSecond * RetryAfter(Live(window)) ELSE waiting
    /\ UNCHANGED <<clock, admitted>>

Tick ==
    /\ clock < MaxClock
    /\ clock' = clock + 1
    /\ UNCHANGED <<window, admitted, waiting>>

RateNext == (Admit \/ Throttle \/ Tick) /\ UNCHANGED <<budgetVars, record>>

-----------------------------------------------------------------------------
(* The budget. *)
BudgetInit == /\ budget = [used |-> 0, status |-> "active", receipts |-> <<>>]
              /\ inFlight = [r \in Requests |-> "idle"]

Remaining == Tokens - budget.used

(* BudgetPreCheckMiddleware: only an exhausted budget stops a request. *)
PreCheck(r) ==
    /\ inFlight[r] = "idle"
    /\ inFlight' = [inFlight EXCEPT ![r] = IF budget.status = "exhausted"
                                           THEN "refused" ELSE "checked"]
    /\ UNCHANGED budget

(* How it could go wrong: the model has run, so the tokens are taken. *)
ChargeAnyway(tokens) ==
    [used |-> budget.used + tokens,
     status |-> IF Remaining <= tokens THEN "exhausted" ELSE "active",
     receipts |-> Append(budget.receipts, tokens)]

(* deduct, after the model call: refused unless the budget is active and
   holds enough; what is too much exhausts it without charging anything. *)
Charge(tokens) ==
    IF budget.status # "active" THEN budget
    ELSE IF Remaining < tokens THEN [budget EXCEPT !.status = "exhausted"]
    ELSE [used |-> budget.used + tokens,
          status |-> IF Remaining = tokens THEN "exhausted" ELSE "active",
          receipts |-> Append(budget.receipts, tokens)]
Deduct(r) ==
    /\ inFlight[r] = "checked"
    /\ \E tokens \in Charges : budget' = Charge(tokens)
    /\ inFlight' = [inFlight EXCEPT ![r] = "idle"]

Leave(r) ==
    /\ inFlight[r] = "refused"
    /\ inFlight' = [inFlight EXCEPT ![r] = "idle"]
    /\ UNCHANGED budget

(* UsageTracker.check_budget: the recorded use and an estimate fit. *)
TokensOn(receipts) == UNION {{i} \X (1..receipts[i]) : i \in DOMAIN receipts}
WithinBudget(estimate) == Cardinality(TokensOn(budget.receipts)) + estimate <= Tokens

BudgetNext == /\ \E r \in Requests : PreCheck(r) \/ Deduct(r) \/ Leave(r)
              /\ UNCHANGED <<rateVars, record>>

-----------------------------------------------------------------------------
(* The negative feedback fuse. *)
FuseInit == record = [count |-> 0, fused |-> FALSE]

RecordNegative ==
    /\ record.count < MaxNegative
    /\ record' = [count |-> record.count + 1,
                  fused |-> record.fused \/ record.count + 1 >= Threshold]
    /\ UNCHANGED <<rateVars, budgetVars>>

ResetFeedback ==
    /\ record' = [count |-> 0, fused |-> FALSE]
    /\ UNCHANGED <<rateVars, budgetVars>>

(* The confidence reported with a negation, and the one retrieval would use,
   in tenths. *)
ReportedConfidence == IF record.fused THEN 0 ELSE Max({0, 10 - 2 * record.count})
EffectiveConfidence(original) == IF record.fused THEN 0 ELSE original

FuseNext == RecordNegative \/ ResetFeedback

-----------------------------------------------------------------------------
LimitsTypeOK ==
    /\ clock \in 0..MaxClock
    /\ \A e \in window : e[1] \in 0..MaxClock
    /\ budget.status \in {"active", "exhausted"}
    /\ inFlight \in [Requests -> {"idle", "checked", "refused"}]
    /\ record.count \in 0..MaxNegative

(* In no stretch of a minute are more requests admitted than the limit, also
   across entries that expired; and a client that waits one second longer
   than Retry-After promised, which is rounded down, finds room again. *)
RateRespected ==
    /\ \A a \in admitted :
         Cardinality({b \in admitted : b[1] <= a[1] /\ b[1] > a[1] - Window}) <= PerWindow
    /\ waiting # NoPromise /\ clock >= waiting + TicksPerSecond =>
         Cardinality(Live(window)) < PerWindow

(* Requests that passed the check before the budget ran out are charged at
   most what is left: the use is the sum of the receipts, never exceeds the
   budget, and a budget that is used up is exhausted. *)
BudgetHolds ==
    /\ budget.used = Cardinality(TokensOn(budget.receipts))
    /\ budget.used <= Tokens
    /\ Remaining = 0 => budget.status = "exhausted"
    /\ WithinBudget(0)

(* A memory is silent exactly from its third negation until it is reset, in
   what the user is told of it and in what retrieval makes of it. *)
FuseHolds ==
    /\ record.fused <=> record.count >= Threshold
    /\ record.fused => ReportedConfidence = 0 /\ EffectiveConfidence(10) = 0
=============================================================================
