----------------------------- MODULE SessionLog -----------------------------
(***************************************************************************)
(* What the conversation store promises, without saying how: every session *)
(* has a log, a message is only ever added at its end, a turn adds its     *)
(* user message at most once and its assistant message at most once, and   *)
(* the assistant message only after the user message it answers.           *)
(***************************************************************************)
EXTENDS Naturals, Sequences

CONSTANTS Sessions,  \* the conversation sessions
          Turns      \* the turns (one user message and its answer)

VARIABLE log         \* log[s]: the messages of session s, oldest first

Entry == [turn: Turns, role: {"user", "assistant"}]

Entries(s) == {log[s][i] : i \in DOMAIN log[s]}

TypeOK == log \in [Sessions -> Seq(Entry)]

Init == log = [s \in Sessions |-> << >>]

AddMessage(s, t, r) ==
    /\ [turn |-> t, role |-> r] \notin Entries(s)
    /\ r = "assistant" => [turn |-> t, role |-> "user"] \in Entries(s)
    /\ log' = [log EXCEPT ![s] = Append(@, [turn |-> t, role |-> r])]

\* log' # log follows from AddMessage; stated first, it lets TLC settle a
\* stuttering step of an implementation without trying every message.
Next == /\ log' # log
        /\ \E s \in Sessions, t \in Turns, r \in {"user", "assistant"} :
              AddMessage(s, t, r)

Spec == Init /\ [][Next]_log

=============================================================================
