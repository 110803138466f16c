-------------------------- MODULE MCAnswerProviders --------------------------
(***************************************************************************)
(* Instances of AnswerProviders. A typed key carries its request, and no   *)
(* property orders them, so requests are symmetric.                        *)
(***************************************************************************)
EXTENDS AnswerProviders, TLC

Symmetry == Permutations(Requests)
=============================================================================
