---------------------------- MODULE MCMcpServer ----------------------------
(***************************************************************************)
(* Instance of McpServer: two samples, one asset without an active version *)
(* and one that does not exist; alice and bob, seeded as in the demo, with *)
(* a denial of one file for alice, or with a grant of another context and  *)
(* one to trash.  The paths asked about are spelled in several ways.       *)
(***************************************************************************)
EXTENDS McpServer, TLC

CONSTANTS s1, s2, idle, gone

Person(id) == [id |-> id, groups |-> {"staff"}, roles |-> {"member"}, workspace |-> "w", context |-> 1]

Grant(principal, context, prefix, effect) ==
  [kind |-> "user", principal |-> principal, workspace |-> "w", context |-> context,
   action |-> "query", prefix |-> prefix, effect |-> effect]

DemoGrant == Grant("alice", 1, <<"docs">>, "ALLOW")

MCUsers == {Person("alice"), Person("bob")}
MCSamples == {s1, s2}
MCIdle == {idle}
MCUnknown == {gone}
MCRequested == {{}, {s1}, {s2}, {s1, s2}, {s1, idle}, {s2, gone}}
MCPathOf == (s1 :> <<"docs", "a">>) @@ (s2 :> <<"docs", "b">>)
MCKey == (s1 :> "income") @@ (s2 :> "ledger")
MCBanks == << <<"income", "ledger">> >>
MCGrantChoices ==
  {{DemoGrant},
   {DemoGrant, Grant("alice", 1, <<"docs", "b">>, "DENY"), Grant("bob", 1, <<"docs", "a">>, "ALLOW")},
   {DemoGrant, Grant("bob", 0, <<"docs">>, "ALLOW"),
    [DemoGrant EXCEPT !.action = "trash"]}}
MCActions == {"query", "trash"}
MCProbes == {<<"docs", "a">>, <<"docs", "b">>, <<"docs", ".", "a">>, <<"docs2", "a">>,
             <<"docs2", "..", "docs", "a">>}
=============================================================================
