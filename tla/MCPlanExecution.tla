--------------------------- MODULE MCPlanExecution ---------------------------
(***************************************************************************)
(* Instances of PlanExecution.  carol and dave hold the approver role in   *)
(* the demo workspace, olga holds it in another one; carol creates.        *)
(***************************************************************************)
EXTENDS PlanExecution, TLC

CONSTANTS carol, dave, olga, move, trash

MCCreator == [p \in Plans |-> carol]
MCWorkspaceOf == [a \in Actors |-> IF a = olga THEN "elsewhere" ELSE "demo"]
Symmetry == Permutations(Requests) \cup Permutations(Keys)
=============================================================================
