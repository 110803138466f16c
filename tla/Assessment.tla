----------------------------- MODULE Assessment -----------------------------
(***************************************************************************)
(* Pre-assessments: create_assessment_report behind POST /api/assessments  *)
(* and POST /api/controlled-sample/assess, the bridge that matches the     *)
(* materials (FinanceDemoRagPort.assess_versions), POST                    *)
(* /api/real-material/assess, and the rule sets they are judged by.        *)
(*                                                                         *)
(* The routes run on pool threads and read a repository that others        *)
(* change meanwhile: a plan moves an asset to another path, a user deletes *)
(* an uploaded file, somebody creates a rule set.  The service checks the  *)
(* assets and the actor's grants, the bridge checks them again.            *)
(*                                                                         *)
(* A rule version is told by its place in the order of creation.           *)
(***************************************************************************)
EXTENDS Naturals, Sequences, FiniteSets, Policy, Matching

CONSTANTS
  Requests,    \* assessments of the run; they share no state that one changes
  Actors,      \* who asks
  Samples,     \* declared sample assets, seeded with a ready active version
  Files,       \* uploaded assets, which the manifest does not declare
  Paths,       \* where an asset may be
  Home,        \* [Samples -> Paths], the declared paths
  FilePath,    \* [Files -> Paths]
  Materials,   \* material keys
  Key,         \* [Samples -> Materials]
  Grants,      \* grants that stay
  FileGrant,   \* [Files -> grants], revoked when the file is deleted
  Banks,       \* the fixture's rules, a sequence of requirement sequences
  Assessed,    \* the index in Banks of the rule that is assessed
  Scenarios,   \* Finance and others
  Finance,     \* the scenario that is seeded
  MaxMoves,    \* moves of assets in a run
  MaxRules,    \* rule versions in a run
  None

ASSUME AssessmentAssumption ==
  /\ Home \in [Samples -> Paths] /\ FilePath \in [Files -> Paths]
  /\ Key \in [Samples -> Materials]
  /\ \A f \in Files : FileGrant[f].effect = "ALLOW"
  /\ Banks \in Seq(Seq(Materials) \ {<<>>})
  /\ Assessed \in DOMAIN Banks /\ Finance \in Scenarios
  /\ MaxMoves \in Nat /\ MaxRules \in Nat \ {0}
  /\ None \notin Paths \cup Scenarios

Assets == Samples \cup Files

Rules == [demo : BOOLEAN, right : BOOLEAN, active : BOOLEAN, scenario : Scenarios]

Seeded == [demo |-> TRUE, right |-> TRUE, active |-> TRUE, scenario |-> Finance]

VARIABLES
  place,     \* path of an asset, None once it was removed
  active,    \* assets that have a ready active version
  grants,    \* permission_grants
  rules,     \* rule versions, oldest first
  moves,     \* moves so far
  request,   \* the assessments
  audit,     \* audit events of a request, in order
  reports,   \* requests whose report was stored
  readable   \* history: <<request, asset, check>> where the actor could query the asset

world == <<place, active, grants, rules, moves>>
vars  == <<world, request, audit, reports, readable>>

Steps == {"idle", "resolve", "pick", "lookup", "assets", "authorize", "bridge",
          "bridge_authorize", "match", "report", "audit", "done"}

Replies == {"none", "unknown_file", "no_rule", "not_found", "denied", "failed", "crashed",
            "reported", "answered", "unprocessable"}

Events == {"assessment_denied", "assessment_failed", "assessment_report_created"}

NoRule == 0

Idle == [at |-> "idle", via |-> "none", actor |-> None, scenario |-> None, names |-> {},
         assets |-> {}, rule |-> NoRule, saw |-> <<>>, again |-> <<>>,
         result |-> Denied, banks |-> <<>>, reply |-> "none"]

PathOf == UNION {[A -> Paths] : A \in SUBSET Assets}

TypeOK ==
  /\ place \in [Assets -> Paths \cup {None}]
  /\ active \subseteq Assets
  /\ grants \subseteq Grants \cup {FileGrant[f] : f \in Files}
  /\ rules \in Seq(Rules) /\ Len(rules) <= MaxRules
  /\ moves \in 0 .. MaxMoves
  /\ \A r \in Requests :
       LET q == request[r]
       IN  /\ q.at \in Steps /\ q.reply \in Replies
           /\ q.assets \subseteq Assets /\ q.names \subseteq Samples
           /\ q.rule \in 0 .. MaxRules + 1
           /\ {q.saw, q.again} \subseteq PathOf
           /\ DOMAIN q.again \subseteq DOMAIN q.saw /\ DOMAIN q.saw \subseteq q.assets
           /\ q.result.score \in 0 .. 100
  /\ audit \in [Requests -> Seq(Events)]
  /\ reports \subseteq Requests

Init ==
  /\ place = [a \in Assets |-> IF a \in Samples THEN Home[a] ELSE FilePath[a]]
  /\ active = Assets
  /\ grants = Grants \cup {FileGrant[f] : f \in Files}
  /\ rules \in {<<>>, <<Seeded>>}
  /\ moves = 0
  /\ request = [r \in Requests |-> Idle]
  /\ audit = [r \in Requests |-> <<>>]
  /\ reports = {} /\ readable = {}
-----------------------------------------------------------------------------
\* What others do: a verified plan moves an asset, a user deletes an uploaded file
\* (its grant first, then its record), and anybody who is logged in creates rule sets.
Move(a, path) ==
  /\ place[a] \notin {None, path} /\ moves < MaxMoves
  /\ place' = [place EXCEPT ![a] = path]
  /\ moves' = moves + 1
  /\ UNCHANGED <<active, grants, rules, request, audit, reports, readable>>

RevokeFile(f) ==
  /\ FileGrant[f] \in grants
  /\ grants' = grants \ {FileGrant[f]}
  /\ UNCHANGED <<place, active, rules, moves, request, audit, reports, readable>>

RemoveFile(f) ==
  /\ FileGrant[f] \notin grants /\ place[f] # None
  /\ place' = [place EXCEPT ![f] = None]
  /\ active' = active \ {f}
  /\ UNCHANGED <<grants, rules, moves, request, audit, reports, readable>>

\* create_rule_set_with_version. A demo_fixture version always has the fixture's
\* fingerprint; its label, status and scenario are the client's.
CreateRule ==
  /\ Len(rules) < MaxRules
  /\ \E rule \in Rules :
       /\ rule.right => rule.demo
       /\ rules' = Append(rules, rule)
  /\ UNCHANGED <<place, active, grants, moves, request, audit, reports, readable>>
-----------------------------------------------------------------------------
Update(r, q) == request' = [request EXCEPT ![r] = q]

Goto(r, step) == Update(r, [request[r] EXCEPT !.at = step])

Answer(r, reply) ==
  /\ Update(r, [request[r] EXCEPT !.at = "done", !.reply = reply])
  /\ UNCHANGED <<world, audit, reports, readable>>

AnswerAudited(r, reply, event) ==
  /\ Update(r, [request[r] EXCEPT !.at = "done", !.reply = reply])
  /\ audit' = [audit EXCEPT ![r] = Append(@, event)]
  /\ UNCHANGED <<world, reports, readable>>

Deny(r) == AnswerAudited(r, "denied", "assessment_denied")

\* A scan of assets or grants raises when a file is deleted during it, one of the
\* rules when a rule set is created.
ScanMayRaise  == \E f \in Files : place[f] # None
RulesMayRaise == Len(rules) < MaxRules

\* The oldest active fixture version of a scenario.
Demo(scenario) ==
  {i \in DOMAIN rules : rules[i].demo /\ rules[i].active /\ rules[i].scenario = scenario}

Oldest(S) == IF S = {} THEN NoRule ELSE CHOOSE i \in S : \A j \in S : i <= j

Newest(S) == IF S = {} THEN NoRule ELSE CHOOSE i \in S : \A j \in S : i >= j

ActiveDemoRule_Newest(scenario) == Newest(Demo(scenario))

ActiveDemoRule(scenario) == Oldest(Demo(scenario))

\* POST /api/assessments names assets and a rule version, which may not exist.
Direct(r) ==
  /\ request[r].at = "idle"
  /\ \E actor \in Actors, scenario \in Scenarios, A \in SUBSET Assets,
        rule \in DOMAIN rules \cup {MaxRules + 1} :
       Update(r, [Idle EXCEPT !.at = "lookup", !.via = "direct", !.actor = actor,
                              !.scenario = scenario, !.assets = A, !.rule = rule])
  /\ UNCHANGED <<world, audit, reports, readable>>

\* POST /api/controlled-sample/assess names declared files.
Sample(r) ==
  /\ request[r].at = "idle"
  /\ \E actor \in Actors, scenario \in Scenarios, names \in (SUBSET Samples) \ {{}} :
       Update(r, [Idle EXCEPT !.at = "resolve", !.via = "sample", !.actor = actor,
                              !.scenario = scenario, !.names = names])
  /\ UNCHANGED <<world, audit, reports, readable>>

\* resolve_controlled_asset: the asset that is at the declared path now.
Resolve(r) ==
  /\ request[r].at = "resolve"
  /\ \E s \in request[r].names :
       \/ /\ \E a \in Assets :
               /\ place[a] = Home[s]
               /\ LET left == request[r].names \ {s}
                  IN  Update(r, [request[r] EXCEPT
                                   !.names = left, !.assets = @ \cup {a},
                                   !.at = IF left = {} THEN "pick" ELSE "resolve"])
          /\ UNCHANGED <<world, audit, reports, readable>>
       \/ (\A a \in Assets : place[a] # Home[s]) /\ Answer(r, "unknown_file")
       \/ ScanMayRaise /\ Answer(r, "crashed")

PickRule(r) ==
  /\ request[r].at = "pick"
  /\ LET rule == ActiveDemoRule(request[r].scenario)
     IN  \/ rule = NoRule /\ Answer(r, "no_rule")
         \/ /\ rule # NoRule
            /\ Update(r, [request[r] EXCEPT !.rule = rule, !.at = "lookup"])
            /\ UNCHANGED <<world, audit, reports, readable>>
         \/ RulesMayRaise /\ Answer(r, "crashed")

LookupRule(r) ==
  /\ request[r].at = "lookup"
  /\ LET known == request[r].rule \in DOMAIN rules
         usable == known /\ rules[request[r].rule].active
                         /\ rules[request[r].rule].scenario = request[r].scenario
     IN  \/ ~known /\ Answer(r, "not_found")
         \/ known /\ ~usable /\ Deny(r)
         \/ usable /\ Goto(r, "assets") /\ UNCHANGED <<world, audit, reports, readable>>

\* list_permission_grants and evaluate_authorization for the paths read.
Allowed(r, paths) ==
  Evaluate(request[r].actor, grants, "query", {paths[a] : a \in DOMAIN paths}, FALSE) # "DENY"

\* What the grants say now of the path of an asset, not as evaluate_authorization does.
MayQuery(actor, path) ==
  LET on == {g \in grants : MatchesPrincipal(actor, g) /\ g.workspace = actor.workspace
                            /\ g.action = "query" /\ Within(path, g.prefix)}
  IN  /\ \E g \in on : g.effect = "ALLOW" /\ g.context = actor.context
      /\ \A g \in on : g.effect = "DENY" => g.context # actor.context

Witness(r, a, check) ==
  readable' = IF a \in active /\ place[a] # None /\ MayQuery(request[r].actor, place[a])
              THEN readable \cup {<<r, a, check>>} ELSE readable

\* The service reads asset after asset; one without a ready active version denies.
ReadAsset(r) ==
  /\ request[r].at = "assets"
  /\ LET left == request[r].assets \ DOMAIN request[r].saw
     IN  \/ left = {} /\ Goto(r, "authorize") /\ UNCHANGED <<world, audit, reports, readable>>
         \/ \E a \in left :
              \/ a \notin active /\ Deny(r)
              \/ /\ a \in active
                 /\ Update(r, [request[r] EXCEPT
                                 !.saw = [b \in DOMAIN @ \cup {a} |->
                                            IF b = a THEN place[a] ELSE @[b]]])
                 /\ Witness(r, a, "service")
                 /\ UNCHANGED <<world, audit, reports>>

Authorize(r) ==
  /\ request[r].at = "authorize"
  /\ \/ ~Allowed(r, request[r].saw) /\ Deny(r)
     \/ /\ Allowed(r, request[r].saw)
        /\ Goto(r, "bridge") /\ UNCHANGED <<world, audit, reports, readable>>
     \/ ScanMayRaise /\ Answer(r, "crashed")
-----------------------------------------------------------------------------
\* assess_versions. Whatever it raises, the service catches and records; a bridge that
\* lets a PermissionError through would leave nothing.
Fail_Uncaught(r) == Answer(r, "failed")

Fail(r) == AnswerAudited(r, "failed", "assessment_failed")

\* _require_authorized_active_versions reads the assets again, then the grants.
BridgeRead(r) ==
  /\ request[r].at = "bridge"
  /\ LET left == request[r].assets \ DOMAIN request[r].again
     IN  \/ left = {} /\ Goto(r, "bridge_authorize")
                      /\ UNCHANGED <<world, audit, reports, readable>>
         \/ \E a \in left :
              \/ a \notin active /\ Fail(r)
              \/ /\ a \in active
                 /\ Update(r, [request[r] EXCEPT
                                 !.again = [b \in DOMAIN @ \cup {a} |->
                                              IF b = a THEN place[a] ELSE @[b]]])
                 /\ Witness(r, a, "bridge")
                 /\ UNCHANGED <<world, audit, reports>>

BridgeAuthorize_ServicePaths(r) ==
  /\ request[r].at = "bridge_authorize"
  /\ \/ ~Allowed(r, request[r].saw) /\ Fail(r)
     \/ /\ Allowed(r, request[r].saw)
        /\ Goto(r, "match") /\ UNCHANGED <<world, audit, reports, readable>>
     \/ ScanMayRaise /\ Fail(r)

BridgeAuthorize(r) ==
  /\ request[r].at = "bridge_authorize"
  /\ \/ ~Allowed(r, request[r].again) /\ Fail(r)
     \/ /\ Allowed(r, request[r].again)
        /\ Goto(r, "match") /\ UNCHANGED <<world, audit, reports, readable>>
     \/ ScanMayRaise /\ Fail(r)

\* _rule_snapshot accepts the fixture's source type, fingerprint and label only.
IsFixture_AnyLabel(rule) == rule.demo

IsFixture(rule) == rule.demo /\ rule.right

\* The chunks of the declared documents, one each: the facts to be matched.
Facts(A) == {[tenant |-> "t", asset |-> a, version |-> 1, chunk |-> a, key |-> Key[a]] : a \in A}

Scope(A) == [allowed |-> {[asset |-> a, version |-> 1] : a \in A}, denied |-> {}]

Assess(A, hits) == Match("t", Scope(A), Banks[Assessed], hits)

\* _candidate_bank_entries: every bank's rule against the hits of the match.
CandidateBanks(hits) == ScoreMulti(Banks, hits)

\* A result of the port that does not fit the requested versions is refused; NOT_MATCH
\* needs a cited conflict, and the bridge cites none.
ValidResult(result, A) ==
  /\ result.score \in 0 .. 100
  /\ result.level \in {"MATCH", "POSSIBLE", "MISSING_INFO"}
  /\ \A c \in result.cites : c.asset \in A

\* Reading or parsing a source file, or the language model that explains the result,
\* may fail in a way nobody expects; a model that is merely unavailable does not.
BridgeMatch(r) ==
  /\ request[r].at = "match"
  /\ LET A == request[r].assets
         ok == IsFixture(rules[request[r].rule]) /\ A \subseteq Samples
     IN  \/ Fail(r)
         \/ /\ ok
            /\ LET result == Assess(A, Facts(A))
               IN  /\ result.level # "DENIED" /\ ValidResult(result, A)
                   /\ Update(r, [request[r] EXCEPT !.result = result,
                                                   !.banks = CandidateBanks(Facts(A)),
                                                   !.at = "report"])
            /\ UNCHANGED <<world, audit, reports, readable>>

StoreReport(r) ==
  /\ request[r].at = "report"
  /\ reports' = reports \cup {r}
  /\ Goto(r, "audit")
  /\ UNCHANGED <<world, audit, readable>>

AuditReport(r) ==
  /\ request[r].at = "audit"
  /\ AnswerAudited(r, "reported", "assessment_report_created")

\* POST /api/real-material/assess: the user's own files by category, no asset, no
\* grant, no report and no audit event; the event loop does it in one go.
RealAssess(r) ==
  /\ request[r].at = "idle"
  /\ \E scenario \in Scenarios, A \in (SUBSET Samples) \ {{}} :
       LET rule == ActiveDemoRule(scenario)
           done(reply) == [Idle EXCEPT !.at = "done", !.via = "real", !.scenario = scenario,
                                       !.rule = rule, !.assets = A, !.reply = reply]
       IN  \/ rule = NoRule /\ Update(r, done("no_rule"))
           \/ RulesMayRaise /\ Update(r, done("crashed"))
           \/ rule # NoRule /\ Update(r, done("unprocessable"))
           \/ /\ rule # NoRule /\ IsFixture(rules[rule])
              /\ Update(r, [done("answered") EXCEPT !.result = Assess(A, Facts(A)),
                                                    !.banks = CandidateBanks(Facts(A))])
  /\ UNCHANGED <<world, audit, reports, readable>>
-----------------------------------------------------------------------------
ServiceStep(r) ==
  \/ Resolve(r) \/ PickRule(r) \/ LookupRule(r) \/ ReadAsset(r) \/ Authorize(r)
  \/ StoreReport(r) \/ AuditReport(r)

BridgeStep(r) == BridgeRead(r) \/ BridgeAuthorize(r) \/ BridgeMatch(r)

Next ==
  \/ \E r \in Requests :
       Direct(r) \/ Sample(r) \/ RealAssess(r) \/ ServiceStep(r) \/ BridgeStep(r)
  \/ \E a \in Assets, path \in Paths : Move(a, path)
  \/ \E f \in Files : RevokeFile(f) \/ RemoveFile(f)
  \/ CreateRule

Spec == Init /\ [][Next]_vars
-----------------------------------------------------------------------------
\* A report is only made of assets that had a ready active version and that the actor
\* could query when the service read them, and still when the bridge did, wherever
\* plans moved them in between (finance-demo-rag-bridge-checkpoint.md:12).
ReportedWereReadable ==
  \A r \in reports, a \in Assets : a \in request[r].assets =>
    {<<r, a, "service">>, <<r, a, "bridge">>} \subseteq readable

\* An assessment that ends denied, failed or reported leaves one audit event, of that
\* kind, and a stored report if and only if it was reported; no other outcome leaves
\* anything, even if the report is stored a step before its event.
OutcomeIsAudited ==
  \A r \in Requests :
    LET q == request[r]
    IN  /\ audit[r] = CASE q.reply = "denied"   -> <<"assessment_denied">>
                        [] q.reply = "failed"   -> <<"assessment_failed">>
                        [] q.reply = "reported" -> <<"assessment_report_created">>
                        [] OTHER                -> <<>>
        /\ r \in reports <=> q.at = "audit" \/ q.reply = "reported"

\* Once a scenario has a rule version to judge samples by, no rule set created later
\* takes its place: the seeded fixture is what every later sample is judged by.
RuleIsStable ==
  [][\A scenario \in Scenarios :
       ActiveDemoRule(scenario) # NoRule =>
         ActiveDemoRule(scenario)' = ActiveDemoRule(scenario)]_vars

\* Every result was judged by an active rule version of its scenario that is the
\* controlled fixture's, whatever rule sets anybody created, under whatever label.  It
\* says MATCH, with 100 points and nothing missing, exactly when every requirement of
\* the assessed rule is met by a material that was handed in, and the candidate banks
\* list the assessed rule with the very same result.
ResultIsJustified ==
  \A r \in Requests :
    request[r].reply \in {"reported", "answered"} =>
      LET q == request[r]
          rule == rules[q.rule]
          met == {i \in DOMAIN Banks[Assessed] :
                    \E a \in q.assets : Key[a] = Banks[Assessed][i]}
      IN  /\ rule.demo /\ rule.right /\ rule.active /\ rule.scenario = q.scenario
          /\ q.banks[Assessed] = q.result
          /\ q.result.missing = DOMAIN Banks[Assessed] \ met
          /\ q.result.level = "MATCH" <=> met = DOMAIN Banks[Assessed]
          /\ q.result.level = "MATCH" <=> q.result.score = 100
          /\ {c.asset : c \in q.result.cites} = q.assets
=============================================================================
