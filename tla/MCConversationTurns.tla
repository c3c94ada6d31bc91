------------------------- MODULE MCConversationTurns -------------------------
(* Instances of ConversationTurns for TLC. *)
EXTENDS ConversationTurns, TLC

CONSTANTS s1, s2, c1

MCConnSession == c1 :> s1

=============================================================================
