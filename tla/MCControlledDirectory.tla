------------------------ MODULE MCControlledDirectory ------------------------
(***************************************************************************)
(* Instances of ControlledDirectory: paths, plans and bytes are            *)
(* interchangeable.                                                        *)
(***************************************************************************)
EXTENDS ControlledDirectory, TLC

CONSTANTS a, b, c, x, y, p1, p2

Symmetry == Permutations(Paths) \cup Permutations(Plans) \cup Permutations(Bytes)
=============================================================================
