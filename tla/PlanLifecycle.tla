---------------------------- MODULE PlanLifecycle ----------------------------
(***************************************************************************)
(* The life of a plan as a client may rely on it: confirmation, then       *)
(* approval or rejection by somebody else where the policy asks for it,    *)
(* then one execution that ends in one result, then, if the result was not *)
(* verified, a resolution.  PlanExecution implements it as long as         *)
(* requests do not overlap.                                                *)
(***************************************************************************)
CONSTANTS Plans, NeedsApproval, HasVerifier

VARIABLE state

Unverified == {"mismatch", "unknown", "needs_recovery", "escalated", "unverified"}

Move(p, from, to) == state[p] \in from /\ state' = [state EXCEPT ![p] = to]

Init == state = [p \in Plans |-> "pending_confirmation"]

Confirm(p) ==
  p \in NeedsApproval /\ Move(p, {"pending_confirmation"}, "pending_approval")

Approve(p) == Move(p, {"pending_approval"}, "approved")

Reject(p) == Move(p, {"pending_approval"}, "rejected")

Start(p) ==
  Move(p, IF p \in NeedsApproval THEN {"approved"} ELSE {"pending_confirmation"}, "executing")

Conclude(p) ==
  \E result \in {"failed"} \cup (IF HasVerifier THEN {"verified"} \cup Unverified ELSE {"completed"}) :
    Move(p, {"executing"}, result)

Resolve(p) == \E result \in {"recovered", "escalated"} : Move(p, Unverified, result)

Next ==
  \E p \in Plans :
    Confirm(p) \/ Approve(p) \/ Reject(p) \/ Start(p) \/ Conclude(p) \/ Resolve(p)

Spec == Init /\ [][Next]_state
=============================================================================
