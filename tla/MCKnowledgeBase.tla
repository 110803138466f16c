--------------------------- MODULE MCKnowledgeBase ---------------------------
(***************************************************************************)
(* Instances of KnowledgeBase: alice signs in, out and in again, bob once. *)
(***************************************************************************)
EXTENDS KnowledgeBase, TLC

CONSTANTS alice1, alice2, bob1

MCUserOf == [s \in Sessions |-> IF s = bob1 THEN "bob" ELSE "alice"]
Symmetry == Permutations(Requests) \cup Permutations(Names)
=============================================================================
