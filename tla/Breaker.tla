------------------------------ MODULE Breaker ------------------------------
(***************************************************************************)
(* What a circuit breaker promises, without the three states and the time  *)
(* stamp that programs keep.  It counts the failures since the last        *)
(* success.  From Threshold failures on, each failure shuts it for         *)
(* Cooldown ticks; while it is shut no call is let through.  An answer to  *)
(* a call let through before the breaker was last reset does not count.    *)
(*                                                                         *)
(* CircuitBreaker (skill/resilience/circuit_breaker.py) is such a breaker  *)
(* without Clear: HALF_OPEN is Threshold failures and nothing to wait for. *)
(* The circuits of ModelRegistry are shown to implement it.                *)
(***************************************************************************)
EXTENDS Naturals

CONSTANTS Calls,      \* callers, each with one call at a time
          Threshold,  \* failures that shut the breaker
          Cooldown    \* ticks it stays shut after a failure

VARIABLES fails,      \* failures since the last success, up to Threshold
          wait,       \* ticks until a shut breaker lets a call through
          out         \* calls let through whose outcome will count

breaker == <<fails, wait, out>>

Init == fails = 0 /\ wait = 0 /\ out = {}

LetThrough(c) ==
    /\ wait = 0 /\ c \notin out
    /\ out' = out \cup {c}
    /\ UNCHANGED <<fails, wait>>

Success(c) ==
    /\ c \in out
    /\ out' = out \ {c} /\ fails' = 0 /\ wait' = 0

Failure(c) ==
    /\ c \in out
    /\ out' = out \ {c}
    /\ fails' = IF fails < Threshold THEN fails + 1 ELSE Threshold
    /\ wait' = IF fails' = Threshold THEN Cooldown ELSE 0

Elapse == wait > 0 /\ wait' = wait - 1 /\ UNCHANGED <<fails, out>>

Clear == fails' = 0 /\ wait' = 0 /\ out' = {}

Next == \/ \E c \in Calls : LetThrough(c) \/ Success(c) \/ Failure(c)
        \/ Elapse
        \/ Clear

Spec == Init /\ [][Next]_breaker

=============================================================================
