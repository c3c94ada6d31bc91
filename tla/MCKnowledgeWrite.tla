--------------------------- MODULE MCKnowledgeWrite ---------------------------
(* Instances of KnowledgeWrite for TLC. *)
EXTENDS KnowledgeWrite, TLC

CONSTANTS o1, o2, k1, k2, p1, good, bad

Symmetry == Permutations(Orgs)

=============================================================================
