--------------------------- MODULE IndexLifecycle ---------------------------
(***************************************************************************)
(* What update_index_state promises of a version: it is parsed, indexed    *)
(* and ready in that order or fails on the way, a step is taken once, and  *)
(* ready and failed are final.  The promise ends, for one version, where   *)
(* two of its writers overlap.                                             *)
(***************************************************************************)
CONSTANT Versions

VARIABLE state

Steps == {<<"absent", "queued">>, <<"queued", "parsing">>, <<"parsing", "indexed">>,
          <<"indexed", "ready">>,
          <<"queued", "failed">>, <<"parsing", "failed">>, <<"indexed", "failed">>}

Init == state = [v \in Versions |-> "absent"]

Advance(v) == \E s \in Steps : state[v] = s[1] /\ state' = [state EXCEPT ![v] = s[2]]

\* Only a version that is not final can have two writers that may both succeed.
Tear(v) ==
  /\ state[v] \in {"queued", "parsing", "indexed"}
  /\ state' = [state EXCEPT ![v] = "torn"]

Next == \E v \in Versions : Advance(v) \/ Tear(v)

Spec == Init /\ [][Next]_state
=============================================================================
