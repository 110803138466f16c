---------------------------- MODULE MCAssessment ----------------------------
(***************************************************************************)
(* Instance of Assessment: two samples in a folder everybody of the staff  *)
(* may query, except bob one of them, and a path that only alice may query *)
(* and only as long as the file she uploaded there is not deleted.         *)
(***************************************************************************)
EXTENDS Assessment, TLC

CONSTANTS s1, s2, f, finance, other

Docs == <<"docs", "a">>
Docs2 == <<"docs", "b">>
Dark == <<"dark", "a">>

Staff(id) == [id |-> id, groups |-> {"staff"}, roles |-> {"member"}, workspace |-> "w", context |-> 1]

Grant(kind, principal, prefix, effect) ==
  [kind |-> kind, principal |-> principal, workspace |-> "w", context |-> 1,
   action |-> "query", prefix |-> prefix, effect |-> effect]

MCActors == {Staff("alice"), Staff("bob")}
MCSamples == {s1, s2}
MCFiles == {f}
MCPaths == {Docs, Docs2, Dark}
MCHome == (s1 :> Docs) @@ (s2 :> Docs2)
MCFilePath == (f :> Dark)
MCMaterials == {"income", "ledger", "tax"}
MCKey == (s1 :> "income") @@ (s2 :> "ledger")
MCGrants == {Grant("group", "staff", <<"docs">>, "ALLOW"), Grant("user", "bob", <<"docs", "b">>, "DENY")}
MCFileGrant == (f :> Grant("user", "alice", Dark, "ALLOW"))
MCBanks == << <<"income", "ledger">>, <<"income">>, <<"ledger", "tax", "income">> >>
MCScenarios == {finance, other}
=============================================================================
