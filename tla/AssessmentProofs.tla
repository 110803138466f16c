-------------------------- MODULE AssessmentProofs --------------------------
(***************************************************************************)
(* Theorems about Assessment for every instance, and about the operators   *)
(* it judges by: the policy of grants (Policy) and the scores of matched   *)
(* requirements (Matching).                                                *)
(***************************************************************************)
EXTENDS Assessment, FiniteSetTheorems, WellFoundedInduction, TLAPS
-----------------------------------------------------------------------------
(***************************************************************************)
(* Authorization.                                                          *)
(***************************************************************************)
LEMMA EvaluateAllows ==
  ASSUME NEW actor, NEW G, NEW action, NEW paths, NEW overwrite
  PROVE  Evaluate(actor, G, action, paths, overwrite) # "DENY" <=>
           /\ paths # {} /\ \A path \in paths : Valid(path)
           /\ ~(action = "upload" /\ overwrite)
           /\ \A path \in paths :
                /\ ~HasEffect(Applicable(actor, G, action, path), "DENY")
                /\ HasEffect(Applicable(actor, G, action, path), "ALLOW")
BY DEF Evaluate, RiskState

\* Asking for several paths at once is asking for each: no path of a request is decided
\* by the grants of another (evaluate_authorization).
THEOREM PathsAreDecidedOneByOne ==
  ASSUME NEW actor, NEW G, NEW action, NEW paths, NEW overwrite, paths # {}
  PROVE  Evaluate(actor, G, action, paths, overwrite) # "DENY" <=>
           \A path \in paths : Evaluate(actor, G, action, {path}, overwrite) # "DENY"
<1> DEFINE Granted(path) == /\ Valid(path) /\ ~(action = "upload" /\ overwrite)
                           /\ ~HasEffect(Applicable(actor, G, action, path), "DENY")
                           /\ HasEffect(Applicable(actor, G, action, path), "ALLOW")
<1>1. Evaluate(actor, G, action, paths, overwrite) # "DENY" <=> \A path \in paths : Granted(path)
  BY EvaluateAllows
<1>2. ASSUME NEW path \in paths
      PROVE  Evaluate(actor, G, action, {path}, overwrite) # "DENY" <=> Granted(path)
  <2>1. {path} # {} /\ \A q \in {path} : q = path
    OBVIOUS
  <2> QED
    BY <2>1, EvaluateAllows
<1> QED
  BY <1>1, <1>2

\* A grant that denies one path denies the request, whatever grants are added.
THEOREM DenyIsNeverOutvoted ==
  ASSUME NEW actor, NEW G, NEW more, NEW action, NEW paths, NEW overwrite,
         NEW path \in paths, HasEffect(Applicable(actor, G, action, path), "DENY")
  PROVE  Evaluate(actor, G \cup more, action, paths, overwrite) = "DENY"
<1>1. HasEffect(Applicable(actor, G \cup more, action, path), "DENY")
  BY DEF HasEffect, Applicable
<1> QED
  BY <1>1, EvaluateAllows
-----------------------------------------------------------------------------
(***************************************************************************)
(* Scores.                                                                 *)
(***************************************************************************)
LEMMA MatchedFinite ==
  ASSUME NEW rule \in Seq(Materials), NEW hits
  PROVE  /\ Cardinality(Matched(rule, hits)) \in 0 .. Len(rule)
         /\ Cardinality(Matched(rule, hits)) = Len(rule) <=> Matched(rule, hits) = DOMAIN rule
<1>1. DOMAIN rule = 1 .. Len(rule) /\ Len(rule) \in Nat
  OBVIOUS
<1>2. IsFiniteSet(DOMAIN rule) /\ Cardinality(DOMAIN rule) = Len(rule)
  <2>1. PICK n \in Nat : n = Len(rule)
    BY <1>1
  <2>2. IsFiniteSet(1 .. n) /\ Cardinality(1 .. n) = IF 1 > n THEN 0 ELSE n - 1 + 1
    BY FS_Interval
  <2> QED
    BY <1>1, <2>1, <2>2
<1>3. Matched(rule, hits) \subseteq DOMAIN rule
  BY DEF Matched
<1>4. /\ Cardinality(Matched(rule, hits)) <= Len(rule)
      /\ Cardinality(Matched(rule, hits)) = Len(rule) => Matched(rule, hits) = DOMAIN rule
      /\ IsFiniteSet(Matched(rule, hits))
  BY <1>2, <1>3, FS_Subset
<1>5. Cardinality(Matched(rule, hits)) \in Nat
  BY <1>4, FS_CardinalityType
<1> QED
  BY <1>1, <1>2, <1>4, <1>5

\* The rounded share of k in n is a percentage, 100 if k is n, and for n below 200 only then.
LEMMA RoundedShare ==
  ASSUME NEW n \in Nat \ {0}, NEW k \in 0 .. n
  PROVE  /\ RoundHalfEven(100 * k, n) \in 0 .. 100
         /\ k = n => RoundHalfEven(100 * k, n) = 100
         /\ n < 200 /\ RoundHalfEven(100 * k, n) = 100 => k = n
<1> DEFINE q == (100 * k) \div n
           m == (100 * k) % n
<1>1. q \in Int /\ m \in 0 .. n - 1 /\ 100 * k = n * q + m
  OBVIOUS
<1>2. RoundHalfEven(100 * k, n) = IF 2 * m > n \/ (2 * m = n /\ q % 2 = 1) THEN q + 1 ELSE q
  BY DEF RoundHalfEven
<1> HIDE DEF q, m
<1>3. q >= 0
  BY <1>1
<1>4. CASE k = n
  BY <1>1, <1>2, <1>3, <1>4
<1>5. CASE k < n
  BY <1>1, <1>2, <1>3, <1>5
<1> QED
  BY <1>4, <1>5

\* Every score is a percentage.
LEMMA ScoreIsPercentage ==
  ASSUME NEW rule \in Seq(Materials), NEW hits
  PROVE  Score(rule, hits) \in 0 .. 100
<1>1. CASE rule = <<>>
  BY <1>1 DEF Score
<1>2. CASE rule # <<>>
  <2>1. Len(rule) \in Nat \ {0}
    BY <1>2
  <2> QED
    BY <1>2, <2>1, MatchedFinite, RoundedShare DEF Score
<1> QED
  BY <1>1, <1>2

\* A rule of fewer than 200 requirements scores 100 points exactly when nothing is
\* missing, which is when the level is MATCH: round() hides no missing material.
THEOREM FullScoreIsAMatch ==
  ASSUME NEW rule \in Seq(Materials), NEW hits, rule # <<>>, Len(rule) < 200
  PROVE  /\ Score(rule, hits) = 100 <=> Matched(rule, hits) = DOMAIN rule
         /\ Level(rule, hits) = "MATCH" <=> Matched(rule, hits) = DOMAIN rule
<1>1. Len(rule) \in Nat \ {0} /\ DOMAIN rule # {}
  OBVIOUS
<1>2. Score(rule, hits) = 100 <=> Matched(rule, hits) = DOMAIN rule
  BY <1>1, MatchedFinite, RoundedShare DEF Score
<1>3. Level(rule, hits) = "MATCH" <=> Matched(rule, hits) = DOMAIN rule
  BY <1>1 DEF Level
<1> QED
  BY <1>2, <1>3

\* What the bridge's match of declared assets comes to: the facts it indexes are all in
\* the scope it asks for, so it only denies when there is no asset.
LEMMA AssessFacts ==
  ASSUME NEW A \in SUBSET Samples
  PROVE  /\ A # {} => Assess(A, Facts(A)) = ScoreMatches(Banks[Assessed], Facts(A))
         /\ A = {} => Assess(A, Facts(A)) = Denied
<1>1. Filter(Scope(A)) = {[asset |-> a, version |-> 1] : a \in A}
  BY DEF Filter, Scope
<1>2. InFilter(Facts(A), "t", Filter(Scope(A)))
  BY <1>1 DEF InFilter, Facts
<1> QED
  BY <1>1, <1>2 DEF Assess, Match

\* Which requirements the facts meet, and what is cited of them.
LEMMA FactsMeet ==
  ASSUME NEW A, NEW bank
  PROVE  /\ Matched(bank, Facts(A)) = {i \in DOMAIN bank : \E a \in A : Key[a] = bank[i]}
         /\ {c.asset : c \in Citations(Facts(A))} = A
<1> DEFINE fact(a) == [tenant |-> "t", asset |-> a, version |-> 1, chunk |-> a, key |-> Key[a]]
<1>1. \A h : h \in Facts(A) <=> \E a \in A : h = fact(a)
  BY DEF Facts
<1>2. \A a : fact(a).key = Key[a] /\ fact(a).asset = a
  OBVIOUS
<1> HIDE DEF fact
<1>3. \A key : (\E h \in Facts(A) : h.key = key) <=> (\E a \in A : Key[a] = key)
  BY <1>1, <1>2
<1>4. Matched(bank, Facts(A)) = {i \in DOMAIN bank : \E a \in A : Key[a] = bank[i]}
  BY <1>3 DEF Matched
<1>5. \A h \in Facts(A) :
        [asset |-> h.asset, version |-> h.version, chunk |-> h.chunk].asset = h.asset
  OBVIOUS
<1>6. {c.asset : c \in Citations(Facts(A))} = {h.asset : h \in Facts(A)}
  <2> DEFINE cite(h) == [asset |-> h.asset, version |-> h.version, chunk |-> h.chunk]
  <2>1. \A c : c \in Citations(Facts(A)) <=> \E h \in Facts(A) : c = cite(h)
    BY DEF Citations
  <2>2. \A h \in Facts(A) : cite(h).asset = h.asset
    BY <1>5
  <2> HIDE DEF cite
  <2>3. ASSUME NEW c \in Citations(Facts(A)) PROVE c.asset \in {h.asset : h \in Facts(A)}
    <3>1. PICK h \in Facts(A) : c = cite(h)
      BY <2>1
    <3> QED
      BY <2>2, <3>1
  <2>4. ASSUME NEW h \in Facts(A) PROVE h.asset \in {c.asset : c \in Citations(Facts(A))}
    <3>1. cite(h) \in Citations(Facts(A)) /\ cite(h).asset = h.asset
      BY <2>1, <2>2
    <3> QED
      BY <3>1
  <2> QED
    BY <2>3, <2>4
<1>7. {h.asset : h \in Facts(A)} = A
  <2>1. ASSUME NEW a \in A PROVE a \in {h.asset : h \in Facts(A)}
    <3>1. fact(a) \in Facts(A) /\ fact(a).asset = a
      BY <1>1, <1>2
    <3> QED
      BY <3>1
  <2>2. ASSUME NEW h \in Facts(A) PROVE h.asset \in A
    BY <1>1, <1>2
  <2> QED
    BY <2>1, <2>2
<1> QED
  BY <1>4, <1>6, <1>7

LEMMA BanksTyped ==
  ASSUME NEW c \in DOMAIN Banks
  PROVE  Banks[c] \in Seq(Materials) /\ Banks[c] # <<>>
BY AssessmentAssumption

LEMMA AssessScore ==
  ASSUME NEW A \in SUBSET Samples
  PROVE  Assess(A, Facts(A)).score \in 0 .. 100
<1>1. Assessed \in DOMAIN Banks
  BY AssessmentAssumption
<1>2. ScoreMatches(Banks[Assessed], Facts(A)).score = Score(Banks[Assessed], Facts(A))
  BY DEF ScoreMatches
<1>3. Denied.score = 0
  BY DEF Denied
<1>4. Score(Banks[Assessed], Facts(A)) \in 0 .. 100
  BY <1>1, BanksTyped, ScoreIsPercentage
<1>5. CASE A = {}
  BY <1>3, <1>5, AssessFacts
<1>6. CASE A # {}
  BY <1>2, <1>4, <1>6, AssessFacts
<1> QED
  BY <1>5, <1>6
-----------------------------------------------------------------------------
(***************************************************************************)
(* The rule a scenario is judged by.                                       *)
(***************************************************************************)
LEMMA HasLeast ==
  ASSUME NEW S, S \subseteq Nat, S # {}
  PROVE  \E i \in S : \A j \in S : i <= j
<1>1. PICK i \in S : \A j \in S : ~(<<j, i>> \in OpToRel(<, Nat))
  BY NatLessThanWellFounded, WFMin
<1>2. \A j \in S : ~(j < i)
  BY <1>1 DEF OpToRel
<1> QED
  BY <1>2

LEMMA OldestIsLeast ==
  ASSUME NEW S, S \subseteq Nat, S # {}
  PROVE  Oldest(S) \in S /\ \A j \in S : Oldest(S) <= j
BY HasLeast DEF Oldest

\* What was appended later is never the oldest.
LEMMA OldestStays ==
  ASSUME NEW S, NEW T, S \subseteq Nat, T \subseteq Nat, S # {}, S \subseteq T,
         \A i \in S, j \in T \ S : i < j
  PROVE  Oldest(T) = Oldest(S)
<1>1. /\ Oldest(S) \in S /\ \A j \in S : Oldest(S) <= j
      /\ Oldest(T) \in T /\ \A j \in T : Oldest(T) <= j
  BY OldestIsLeast
<1>2. ASSUME NEW m \in S, NEW n \in T, \A j \in S : m <= j, \A j \in T : n <= j
      PROVE  n = m
  <2>1. m \in Nat /\ n \in Nat /\ n <= m
    BY <1>2
  <2>2. n \in S
    BY <1>2, <2>1
  <2> QED
    BY <1>2, <2>1, <2>2
<1> QED
  BY <1>1, <1>2
-----------------------------------------------------------------------------
(***************************************************************************)
(* The inductive invariant: what has been established of a request, by the *)
(* step it is at.                                                          *)
(***************************************************************************)
Shaped(q) ==
  q = [at |-> q.at, via |-> q.via, actor |-> q.actor, scenario |-> q.scenario,
       names |-> q.names, assets |-> q.assets, rule |-> q.rule, saw |-> q.saw,
       again |-> q.again, result |-> q.result, banks |-> q.banks, reply |-> q.reply]

RequestsShaped ==
  /\ request = [r \in Requests |-> request[r]]
  /\ \A r \in Requests : Shaped(request[r])

ActiveIsPlaced == \A a \in active : place[a] # None

BeforeAssets == {"idle", "resolve", "pick", "lookup"}
PastService  == {"bridge", "bridge_authorize", "match", "report", "audit"}
PastBridge   == {"match", "report", "audit"}

\* How far the assets have been read.
HasRead(q) ==
  /\ q.at \in BeforeAssets => DOMAIN q.saw = {}
  /\ q.at \in BeforeAssets \cup {"assets", "authorize"} => DOMAIN q.again = {}
  /\ q.at \in {"authorize", "bridge"} => DOMAIN q.saw = q.assets
  /\ q.at = "bridge_authorize" => DOMAIN q.again = q.assets

Justified(q) == q.reply \in {"reported", "answered"}

\* From the lookup on, the rule is an active one of the scenario.
HasRule(q) ==
  q.at \in PastService \cup {"assets", "authorize"} \/ Justified(q) =>
    /\ q.rule \in DOMAIN rules
    /\ rules[q.rule].active /\ rules[q.rule].scenario = q.scenario

\* From the match on, the result is the fixture's.
HasResult(q) ==
  q.at \in {"report", "audit"} \/ Justified(q) =>
    /\ q.assets \subseteq Samples /\ IsFixture(rules[q.rule])
    /\ q.result = Assess(q.assets, Facts(q.assets)) /\ q.result.level # "DENIED"
    /\ q.banks = CandidateBanks(Facts(q.assets))

\* What was read where the actor may query it now, it could query when it was read.
Checked(r, a, check) == <<r, a, check>> \in readable

SeenByService(r, q) ==
  /\ q.at \in {"assets", "authorize"} =>
       \A a \in DOMAIN q.saw : MayQuery(q.actor, q.saw[a]) => Checked(r, a, "service")
  /\ q.at \in PastService \/ q.reply = "reported" => \A a \in q.assets : Checked(r, a, "service")

SeenByBridge(r, q) ==
  /\ q.at \in {"bridge", "bridge_authorize"} =>
       \A a \in DOMAIN q.again : MayQuery(q.actor, q.again[a]) => Checked(r, a, "bridge")
  /\ q.at \in PastBridge \/ q.reply = "reported" => \A a \in q.assets : Checked(r, a, "bridge")

Outcome(r, q) ==
  /\ q.at = "done" <=> q.reply # "none"
  /\ q.reply = "denied" => audit[r] = <<"assessment_denied">>
  /\ q.reply = "failed" => audit[r] = <<"assessment_failed">>
  /\ q.reply = "reported" => audit[r] = <<"assessment_report_created">>
  /\ q.reply \notin {"denied", "failed", "reported"} => audit[r] = <<>>
  /\ r \in reports <=> q.at = "audit" \/ q.reply = "reported"

Established(r) ==
  LET q == request[r]
  IN  /\ HasRead(q) /\ HasRule(q) /\ HasResult(q)
      /\ SeenByService(r, q) /\ SeenByBridge(r, q) /\ Outcome(r, q)

Inductive ==
  TypeOK /\ RequestsShaped /\ ActiveIsPlaced /\ \A r \in Requests : Established(r)
-----------------------------------------------------------------------------
(***************************************************************************)
(* The shapes of a step: one request advances, or the world moves on.      *)
(***************************************************************************)
RequestTyped(q) ==
  /\ q.at \in Steps /\ q.reply \in Replies
  /\ q.assets \subseteq Assets /\ q.names \subseteq Samples
  /\ q.rule \in 0 .. MaxRules + 1
  /\ {q.saw, q.again} \subseteq PathOf
  /\ DOMAIN q.again \subseteq DOMAIN q.saw /\ DOMAIN q.saw \subseteq q.assets
  /\ q.result.score \in 0 .. 100

WorldTyped ==
  /\ place \in [Assets -> Paths \cup {None}]
  /\ active \subseteq Assets
  /\ grants \subseteq Grants \cup {FileGrant[f] : f \in Files}
  /\ rules \in Seq(Rules) /\ Len(rules) <= MaxRules
  /\ moves \in 0 .. MaxMoves

LEMMA TypeParts ==
  TypeOK <=> /\ WorldTyped /\ \A r \in Requests : RequestTyped(request[r])
             /\ audit \in [Requests -> Seq(Events)] /\ reports \subseteq Requests
BY DEF TypeOK, WorldTyped, RequestTyped

\* What has been established of a request stays while others act.
LEMMA Carried ==
  ASSUME NEW r \in Requests, Established(r),
         request'[r] = request[r], audit'[r] = audit[r], r \in reports' <=> r \in reports,
         readable \subseteq readable',
         \A i \in DOMAIN rules : i \in DOMAIN rules' /\ rules'[i] = rules[i],
         \A actor, path : MayQuery(actor, path)' => MayQuery(actor, path)
  PROVE  Established(r)'
<1> DEFINE q == request[r]
<1>1. HasRead(q) /\ HasRule(q) /\ HasResult(q)
      /\ SeenByService(r, q) /\ SeenByBridge(r, q) /\ Outcome(r, q)
  BY DEF Established
<1>2. HasRead(request[r])'
  BY <1>1 DEF HasRead
<1>3. HasRule(request[r])'
  BY <1>1 DEF HasRule
<1>4. HasResult(request[r])'
  <2>1. ASSUME q.at \in {"report", "audit"} \/ Justified(q)
        PROVE  rules'[q.rule] = rules[q.rule]
    BY <1>1, <2>1 DEF HasRule, PastService
  <2> QED
    BY <1>1, <2>1 DEF HasResult, Justified
<1>5. SeenByService(r, request[r])' /\ SeenByBridge(r, request[r])'
  BY <1>1 DEF SeenByService, SeenByBridge, Checked
<1>6. Outcome(r, request[r])'
  BY <1>1 DEF Outcome
<1> QED
  BY <1>2, <1>3, <1>4, <1>5, <1>6 DEF Established

LEMMA MayQuerySame ==
  ASSUME grants' = grants
  PROVE  \A actor, path : MayQuery(actor, path)' <=> MayQuery(actor, path)
BY DEF MayQuery

LEMMA RequestStep ==
  ASSUME Inductive, NEW r \in Requests, NEW q, Update(r, q), Shaped(q), RequestTyped(q),
         UNCHANGED world, readable \subseteq readable',
         reports' \in {reports, reports \cup {r}},
         audit' \in [Requests -> Seq(Events)],
         \A x \in Requests \ {r} : audit'[x] = audit[x],
         HasRead(q), HasRule(q), HasResult(q),
         SeenByService(r, q)', SeenByBridge(r, q)', Outcome(r, q)'
  PROVE  Inductive'
<1>1. request' = [x \in Requests |-> request'[x]] /\ request'[r] = q
      /\ \A x \in Requests \ {r} : request'[x] = request[x]
  BY DEF Inductive, RequestsShaped, Update
<1>2. UNCHANGED <<place, active, grants, rules, moves>>
  BY DEF world
<1>3. TypeOK'
  <2>1. WorldTyped'
    BY <1>2, TypeParts DEF WorldTyped, Inductive
  <2>2. \A x \in Requests : RequestTyped(request'[x])
    BY <1>1, TypeParts DEF Inductive
  <2>3. reports' \subseteq Requests
    BY TypeParts DEF Inductive
  <2> QED
    BY <2>1, <2>2, <2>3 DEF TypeOK, WorldTyped, RequestTyped
<1>4. RequestsShaped'
  BY <1>1 DEF Inductive, RequestsShaped
<1>5. ActiveIsPlaced'
  BY <1>2 DEF Inductive, ActiveIsPlaced
<1>6. ASSUME NEW x \in Requests PROVE Established(x)'
  <2>1. CASE x = r
    <3>1. HasRule(q)' /\ HasResult(q)' /\ HasRead(q)'
      BY <1>2 DEF HasRule, HasResult, HasRead
    <3> QED
      BY <1>1, <2>1, <3>1 DEF Established
  <2>2. CASE x # r
    <3>1. Established(x)
      BY DEF Inductive
    <3>2. /\ request'[x] = request[x] /\ audit'[x] = audit[x]
          /\ x \in reports' <=> x \in reports
      BY <1>1, <2>2
    <3> QED
      BY <1>2, <3>1, <3>2, MayQuerySame, Carried
  <2> QED
    BY <2>1, <2>2
<1> QED
  BY <1>3, <1>4, <1>5, <1>6 DEF Inductive

LEMMA WorldStep ==
  ASSUME Inductive, UNCHANGED <<request, audit, reports, readable>>, WorldTyped',
         ActiveIsPlaced',
         \A i \in DOMAIN rules : i \in DOMAIN rules' /\ rules'[i] = rules[i],
         \A actor, path : MayQuery(actor, path)' => MayQuery(actor, path)
  PROVE  Inductive'
<1>1. TypeOK'
  BY DEF Inductive, TypeOK, WorldTyped
<1>2. RequestsShaped'
  BY DEF Inductive, RequestsShaped
<1>3. \A x \in Requests : Established(x)'
  BY Carried DEF Inductive
<1> QED
  BY <1>1, <1>2, <1>3 DEF Inductive
-----------------------------------------------------------------------------
(***************************************************************************)
(* Every step keeps the invariant: the world.                              *)
(***************************************************************************)
LEMMA MoveKeeps ==
  ASSUME Inductive, NEW a \in Assets, NEW path \in Paths, Move(a, path) PROVE Inductive'
<1>1. /\ place' = [place EXCEPT ![a] = path] /\ moves' = moves + 1 /\ moves < MaxMoves
      /\ UNCHANGED <<active, grants, rules, request, audit, reports, readable>>
  BY DEF Move
<1>2. WorldTyped /\ MaxMoves \in Nat
  BY TypeParts, AssessmentAssumption DEF Inductive
<1>3. WorldTyped'
  BY <1>1, <1>2 DEF WorldTyped
<1>4. ActiveIsPlaced'
  BY <1>1, <1>2, AssessmentAssumption DEF WorldTyped, Inductive, ActiveIsPlaced
<1> QED
  BY <1>1, <1>3, <1>4, MayQuerySame, WorldStep

\* Revoking an upload's grant, which allows, opens no path.
LEMMA RevokeFileKeeps ==
  ASSUME Inductive, NEW f \in Files, RevokeFile(f) PROVE Inductive'
<1>1. /\ grants' = grants \ {FileGrant[f]}
      /\ UNCHANGED <<place, active, rules, moves, request, audit, reports, readable>>
  BY DEF RevokeFile
<1>2. WorldTyped' /\ ActiveIsPlaced'
  BY <1>1, TypeParts DEF Inductive, WorldTyped, ActiveIsPlaced
<1>3. ASSUME NEW actor, NEW path, MayQuery(actor, path)' PROVE MayQuery(actor, path)
  <2>1. FileGrant[f].effect # "DENY"
    BY AssessmentAssumption
  <2> QED
    BY <1>1, <1>3, <2>1 DEF MayQuery
<1> QED
  BY <1>1, <1>2, <1>3, WorldStep

LEMMA RemoveFileKeeps ==
  ASSUME Inductive, NEW f \in Files, RemoveFile(f) PROVE Inductive'
<1>1. /\ place' = [place EXCEPT ![f] = None] /\ active' = active \ {f}
      /\ UNCHANGED <<grants, rules, moves, request, audit, reports, readable>>
  BY DEF RemoveFile
<1>2. WorldTyped' /\ ActiveIsPlaced'
  BY <1>1, TypeParts DEF Inductive, WorldTyped, ActiveIsPlaced, Assets
<1> QED
  BY <1>1, <1>2, MayQuerySame, WorldStep

\* A rule that is appended is a new version, and leaves the others where they are.
LEMMA CreateRuleFacts ==
  ASSUME WorldTyped, CreateRule
  PROVE  /\ rules' \in Seq(Rules) /\ Len(rules') = Len(rules) + 1 /\ Len(rules') <= MaxRules
         /\ \A i \in DOMAIN rules : i \in DOMAIN rules' /\ rules'[i] = rules[i]
         /\ DOMAIN rules' = 1 .. Len(rules) + 1 /\ DOMAIN rules = 1 .. Len(rules)
         /\ Len(rules) \in Nat
<1>1. PICK rule \in Rules : rules' = Append(rules, rule)
  BY DEF CreateRule
<1>2. rules \in Seq(Rules) /\ Len(rules) < MaxRules
  BY DEF CreateRule, WorldTyped
<1> QED
  BY <1>1, <1>2, AssessmentAssumption

LEMMA CreateRuleKeeps ==
  ASSUME Inductive, CreateRule PROVE Inductive'
<1>1. UNCHANGED <<place, active, grants, moves, request, audit, reports, readable>>
  BY DEF CreateRule
<1>2. WorldTyped
  BY TypeParts DEF Inductive
<1>3. WorldTyped' /\ ActiveIsPlaced'
  BY <1>1, <1>2, CreateRuleFacts DEF Inductive, WorldTyped, ActiveIsPlaced
<1> QED
  BY <1>1, <1>2, <1>3, CreateRuleFacts, MayQuerySame, WorldStep
-----------------------------------------------------------------------------
(***************************************************************************)
(* Every step keeps the invariant: the answers.                            *)
(***************************************************************************)
\* What the invariant says of one request.
LEMMA RequestFacts ==
  ASSUME Inductive, NEW r \in Requests
  PROVE  /\ Shaped(request[r]) /\ RequestTyped(request[r])
         /\ HasRead(request[r]) /\ HasRule(request[r]) /\ HasResult(request[r])
         /\ SeenByService(r, request[r]) /\ SeenByBridge(r, request[r]) /\ Outcome(r, request[r])
         /\ audit \in [Requests -> Seq(Events)] /\ WorldTyped
BY TypeParts DEF Inductive, RequestsShaped, Established

\* A request at work has left no trace but, before its event, its report.
LEMMA AtWork ==
  ASSUME Inductive, NEW r \in Requests, request[r].at # "done"
  PROVE  /\ request[r].reply = "none" /\ audit[r] = <<>>
         /\ r \in reports <=> request[r].at = "audit"
BY RequestFacts DEF Outcome

LEMMA Ended ==
  ASSUME Inductive, NEW r \in Requests, NEW reply \in Replies \ {"none", "answered", "reported"},
         request[r].at # "done", request[r].at # "audit",
         Update(r, [request[r] EXCEPT !.at = "done", !.reply = reply]),
         UNCHANGED <<world, reports, readable>>,
         audit' \in [Requests -> Seq(Events)], \A x \in Requests \ {r} : audit'[x] = audit[x],
         reply = "denied" => audit'[r] = <<"assessment_denied">>,
         reply = "failed" => audit'[r] = <<"assessment_failed">>,
         reply \notin {"denied", "failed"} => audit'[r] = <<>>
  PROVE  Inductive'
<1> DEFINE p == request[r]
<1>1. PICK q : q = [p EXCEPT !.at = "done", !.reply = reply]
  OBVIOUS
<1>2. Shaped(p) /\ RequestTyped(p)
  BY RequestFacts
<1>3. /\ Shaped(q) /\ q.at = "done" /\ q.reply = reply
      /\ q.via = p.via /\ q.actor = p.actor /\ q.scenario = p.scenario /\ q.names = p.names
      /\ q.assets = p.assets /\ q.rule = p.rule /\ q.saw = p.saw /\ q.again = p.again
      /\ q.result = p.result /\ q.banks = p.banks
  BY <1>1, <1>2 DEF Shaped
<1>4. RequestTyped(q)
  BY <1>2, <1>3 DEF RequestTyped, Steps
<1>5. HasRead(q) /\ HasRule(q) /\ HasResult(q)
  BY <1>3 DEF HasRead, HasRule, HasResult, Justified, BeforeAssets, PastService
<1>6. SeenByService(r, q)' /\ SeenByBridge(r, q)'
  BY <1>3 DEF SeenByService, SeenByBridge, PastService, PastBridge
<1>7. Outcome(r, q)'
  BY <1>3, AtWork DEF Outcome
<1> QED
  BY <1>1, <1>3, <1>4, <1>5, <1>6, <1>7, RequestStep

LEMMA AnswerKeeps ==
  ASSUME Inductive, NEW r \in Requests,
         NEW reply \in {"unknown_file", "no_rule", "not_found", "crashed"},
         request[r].at # "done", request[r].at # "audit", Answer(r, reply)
  PROVE  Inductive'
BY Ended, AtWork, RequestFacts DEF Answer, Replies

LEMMA AuditedKeeps ==
  ASSUME Inductive, NEW r \in Requests, request[r].at # "done", request[r].at # "audit",
         Deny(r) \/ Fail(r)
  PROVE  Inductive'
<1>1. PICK reply \in {"denied", "failed"}, event \in Events :
        /\ AnswerAudited(r, reply, event)
        /\ reply = "denied" => event = "assessment_denied"
        /\ reply = "failed" => event = "assessment_failed"
  BY DEF Deny, Fail, Events
<1>2. audit' = [audit EXCEPT ![r] = Append(audit[r], event)]
  BY <1>1 DEF AnswerAudited
<1>3. audit[r] = <<>> /\ audit \in [Requests -> Seq(Events)]
  BY AtWork, RequestFacts
<1>4. /\ audit' \in [Requests -> Seq(Events)] /\ audit'[r] = <<event>>
      /\ \A x \in Requests \ {r} : audit'[x] = audit[x]
  BY <1>2, <1>3
<1> QED
  BY <1>1, <1>4, Ended DEF AnswerAudited, Replies
-----------------------------------------------------------------------------
(***************************************************************************)
(* Every step keeps the invariant: how a request comes.                    *)
(***************************************************************************)
LEMMA EmptyPath == <<>> \in PathOf /\ DOMAIN <<>> = {}
<1>1. <<>> \in [{} -> Paths] /\ {} \in SUBSET Assets
  OBVIOUS
<1> QED
  BY <1>1 DEF PathOf

LEMMA IdleShaped == Shaped(Idle) /\ RequestTyped(Idle)
<1>1. Shaped(Idle)
  BY DEF Shaped, Idle
<1>2. RequestTyped(Idle)
  <2>1. /\ Idle.at = "idle" /\ Idle.reply = "none" /\ Idle.assets = {} /\ Idle.names = {}
        /\ Idle.rule = 0 /\ Idle.saw = <<>> /\ Idle.again = <<>> /\ Idle.result = Denied
    BY DEF Idle, NoRule
  <2>2. Denied.score = 0 /\ MaxRules \in Nat
    BY AssessmentAssumption DEF Denied
  <2> QED
    BY <2>1, <2>2, EmptyPath DEF RequestTyped, Steps, Replies
<1> QED
  BY <1>1, <1>2

\* A request that comes by one of the two routes of the service.
LEMMA Comes ==
  ASSUME Inductive, NEW r \in Requests, request[r].at = "idle", NEW q, Update(r, q),
         Shaped(q), q.at \in {"lookup", "resolve"}, q.assets \subseteq Assets,
         q.names \subseteq Samples, q.rule \in 0 .. MaxRules + 1, q.saw = <<>>, q.again = <<>>,
         q.result = Denied, q.reply = "none", UNCHANGED <<world, audit, reports, readable>>
  PROVE  Inductive'
<1>1. RequestTyped(q)
  <2>1. Denied.score \in 0 .. 100
    BY DEF Denied
  <2> QED
    BY <2>1, EmptyPath DEF RequestTyped, Steps, Replies
<1>2. HasRead(q)
  BY EmptyPath DEF HasRead, BeforeAssets
<1>3. HasRule(q) /\ HasResult(q)
  BY DEF HasRule, HasResult, Justified, PastService
<1>4. SeenByService(r, q)' /\ SeenByBridge(r, q)'
  BY DEF SeenByService, SeenByBridge, PastService, PastBridge
<1>5. Outcome(r, q)'
  BY AtWork DEF Outcome
<1>6. audit' \in [Requests -> Seq(Events)]
  BY RequestFacts
<1> QED
  BY <1>1, <1>2, <1>3, <1>4, <1>5, <1>6, RequestStep

LEMMA DirectKeeps ==
  ASSUME Inductive, NEW r \in Requests, Direct(r) PROVE Inductive'
<1>1. PICK actor \in Actors, scenario \in Scenarios, A \in SUBSET Assets,
           rule \in DOMAIN rules \cup {MaxRules + 1} :
        Update(r, [Idle EXCEPT !.at = "lookup", !.via = "direct", !.actor = actor,
                               !.scenario = scenario, !.assets = A, !.rule = rule])
  BY DEF Direct
<1>2. PICK q : q = [Idle EXCEPT !.at = "lookup", !.via = "direct", !.actor = actor,
                                !.scenario = scenario, !.assets = A, !.rule = rule]
  OBVIOUS
<1>3. /\ Shaped(q) /\ q.at = "lookup" /\ q.assets = A /\ q.names = {} /\ q.rule = rule
      /\ q.saw = <<>> /\ q.again = <<>> /\ q.result = Denied /\ q.reply = "none"
  BY <1>2 DEF Idle, Shaped
<1>4. rule \in 0 .. MaxRules + 1
  BY RequestFacts, AssessmentAssumption DEF WorldTyped
<1> QED
  BY <1>1, <1>2, <1>3, <1>4, Comes DEF Direct

LEMMA SampleKeeps ==
  ASSUME Inductive, NEW r \in Requests, Sample(r) PROVE Inductive'
<1>1. PICK actor \in Actors, scenario \in Scenarios, names \in SUBSET Samples :
        Update(r, [Idle EXCEPT !.at = "resolve", !.via = "sample", !.actor = actor,
                               !.scenario = scenario, !.names = names])
  BY DEF Sample
<1>2. PICK q : q = [Idle EXCEPT !.at = "resolve", !.via = "sample", !.actor = actor,
                                !.scenario = scenario, !.names = names]
  OBVIOUS
<1>3. /\ Shaped(q) /\ q.at = "resolve" /\ q.assets = {} /\ q.names = names /\ q.rule = 0
      /\ q.saw = <<>> /\ q.again = <<>> /\ q.result = Denied /\ q.reply = "none"
  BY <1>2 DEF Idle, Shaped, NoRule
<1>4. 0 \in 0 .. MaxRules + 1
  BY AssessmentAssumption
<1> QED
  BY <1>1, <1>2, <1>3, <1>4, Comes DEF Sample

\* The rule that is found for a scenario is an active fixture version of it.
LEMMA ActiveDemoRuleFacts ==
  ASSUME WorldTyped, NEW scenario
  PROVE  /\ ActiveDemoRule(scenario) \in 0 .. MaxRules
         /\ ActiveDemoRule(scenario) # NoRule =>
              /\ ActiveDemoRule(scenario) \in Demo(scenario)
              /\ ActiveDemoRule(scenario) \in DOMAIN rules
              /\ rules[ActiveDemoRule(scenario)].active
              /\ rules[ActiveDemoRule(scenario)].scenario = scenario
<1>1. /\ Demo(scenario) \subseteq DOMAIN rules /\ DOMAIN rules = 1 .. Len(rules)
      /\ Len(rules) \in Nat /\ Len(rules) <= MaxRules /\ MaxRules \in Nat
  BY AssessmentAssumption DEF Demo, WorldTyped
<1>2. CASE Demo(scenario) = {}
  BY <1>1, <1>2 DEF ActiveDemoRule, Oldest, NoRule
<1>3. CASE Demo(scenario) # {}
  <2>1. ActiveDemoRule(scenario) \in Demo(scenario)
    BY <1>1, <1>3, OldestIsLeast DEF ActiveDemoRule
  <2> QED
    BY <1>1, <2>1 DEF Demo
<1> QED
  BY <1>2, <1>3

LEMMA MatchedNotDenied ==
  ASSUME NEW A \in SUBSET Samples, A # {}
  PROVE  Assess(A, Facts(A)).level # "DENIED"
<1>1. Level(Banks[Assessed], Facts(A)) # "DENIED"
  BY DEF Level
<1>2. ScoreMatches(Banks[Assessed], Facts(A)).level = Level(Banks[Assessed], Facts(A))
  BY DEF ScoreMatches
<1> QED
  BY <1>1, <1>2, AssessFacts

LEMMA RealAssessKeeps ==
  ASSUME Inductive, NEW r \in Requests, RealAssess(r) PROVE Inductive'
<1>1. request[r].at = "idle" /\ UNCHANGED <<world, audit, reports, readable>>
  BY DEF RealAssess
<1>2. PICK scenario \in Scenarios, A \in (SUBSET Samples) \ {{}} :
        LET rule == ActiveDemoRule(scenario)
            done(reply) == [Idle EXCEPT !.at = "done", !.via = "real", !.scenario = scenario,
                                        !.rule = rule, !.assets = A, !.reply = reply]
        IN  \/ rule = NoRule /\ Update(r, done("no_rule"))
            \/ RulesMayRaise /\ Update(r, done("crashed"))
            \/ rule # NoRule /\ Update(r, done("unprocessable"))
            \/ /\ rule # NoRule /\ IsFixture(rules[rule])
               /\ Update(r, [done("answered") EXCEPT !.result = Assess(A, Facts(A)),
                                                     !.banks = CandidateBanks(Facts(A))])
  BY DEF RealAssess
<1>3. PICK rule : rule = ActiveDemoRule(scenario)
  OBVIOUS
<1>4. /\ rule \in 0 .. MaxRules
      /\ rule # NoRule => /\ rule \in DOMAIN rules
                          /\ rules[rule].active /\ rules[rule].scenario = scenario
  BY <1>3, ActiveDemoRuleFacts, RequestFacts
<1>5. ASSUME NEW q, Update(r, q), Shaped(q), q.at = "done", q.scenario = scenario,
             q.rule = rule, q.assets = A, q.names = {}, q.saw = <<>>, q.again = <<>>,
             q.reply \in {"no_rule", "crashed", "unprocessable", "answered"},
             q.result.score \in 0 .. 100,
             q.reply = "answered" =>
               /\ rule # NoRule /\ IsFixture(rules[rule])
               /\ q.result = Assess(A, Facts(A)) /\ q.banks = CandidateBanks(Facts(A))
      PROVE  Inductive'
  <2>1. A \subseteq Samples /\ A # {} /\ A \subseteq Assets
    BY DEF Assets
  <2>2. RequestTyped(q)
    BY <1>4, <1>5, <2>1, EmptyPath, AssessmentAssumption DEF RequestTyped, Steps, Replies
  <2>3. HasRead(q)
    BY <1>5 DEF HasRead, BeforeAssets
  <2>4. HasRule(q)
    BY <1>4, <1>5 DEF HasRule, Justified, PastService
  <2>5. HasResult(q)
    BY <1>5, <2>1, MatchedNotDenied DEF HasResult, Justified
  <2>6. SeenByService(r, q)' /\ SeenByBridge(r, q)'
    BY <1>5 DEF SeenByService, SeenByBridge, PastService, PastBridge
  <2>7. Outcome(r, q)'
    BY <1>1, <1>5, AtWork DEF Outcome
  <2>8. audit' \in [Requests -> Seq(Events)]
    BY <1>1, RequestFacts
  <2> QED
    BY <1>1, <1>5, <2>2, <2>3, <2>4, <2>5, <2>6, <2>7, <2>8, RequestStep
<1>6. ASSUME NEW reply \in {"no_rule", "crashed", "unprocessable"},
             Update(r, [Idle EXCEPT !.at = "done", !.via = "real", !.scenario = scenario,
                                    !.rule = rule, !.assets = A, !.reply = reply])
      PROVE  Inductive'
  <2>1. PICK q : q = [Idle EXCEPT !.at = "done", !.via = "real", !.scenario = scenario,
                                  !.rule = rule, !.assets = A, !.reply = reply]
    OBVIOUS
  <2>2. /\ Shaped(q) /\ q.at = "done" /\ q.scenario = scenario
        /\ q.rule = rule /\ q.assets = A /\ q.names = {} /\ q.saw = <<>> /\ q.again = <<>>
        /\ q.reply = reply /\ q.result = Denied
    BY <2>1 DEF Idle, Shaped
  <2>3. Denied.score \in 0 .. 100
    BY DEF Denied
  <2> QED
    BY <1>5, <1>6, <2>1, <2>2, <2>3
<1>7. ASSUME rule # NoRule, IsFixture(rules[rule]),
             Update(r, [[Idle EXCEPT !.at = "done", !.via = "real", !.scenario = scenario,
                                     !.rule = rule, !.assets = A, !.reply = "answered"]
                         EXCEPT !.result = Assess(A, Facts(A)),
                                !.banks = CandidateBanks(Facts(A))])
      PROVE  Inductive'
  <2>1. PICK result, banks : result = Assess(A, Facts(A)) /\ banks = CandidateBanks(Facts(A))
    OBVIOUS
  <2>2. PICK q : q = [[Idle EXCEPT !.at = "done", !.via = "real", !.scenario = scenario,
                                   !.rule = rule, !.assets = A, !.reply = "answered"]
                       EXCEPT !.result = result, !.banks = banks]
    OBVIOUS
  <2>3. /\ Shaped(q) /\ q.at = "done" /\ q.scenario = scenario
        /\ q.rule = rule /\ q.assets = A /\ q.names = {} /\ q.saw = <<>> /\ q.again = <<>>
        /\ q.reply = "answered" /\ q.result = result /\ q.banks = banks
    BY <2>2 DEF Idle, Shaped
  <2>4. result.score \in 0 .. 100
    BY <2>1, AssessScore
  <2>5. Update(r, q)
    BY <1>7, <2>1, <2>2
  <2> QED
    BY <1>5, <1>7, <2>1, <2>3, <2>4, <2>5
<1> QED
  BY <1>2, <1>3, <1>6, <1>7
-----------------------------------------------------------------------------
(***************************************************************************)
(* Every step keeps the invariant: before the assets are read.             *)
(***************************************************************************)
LEMMA ResolveKeeps ==
  ASSUME Inductive, NEW r \in Requests, Resolve(r) PROVE Inductive'
<1> DEFINE p == request[r]
<1>1. p.at = "resolve"
  BY DEF Resolve
<1>2. PICK s \in p.names :
        \/ /\ \E a \in Assets :
                /\ place[a] = Home[s]
                /\ Update(r, [p EXCEPT !.names = p.names \ {s}, !.assets = @ \cup {a},
                                       !.at = IF p.names \ {s} = {} THEN "pick" ELSE "resolve"])
           /\ UNCHANGED <<world, audit, reports, readable>>
        \/ Answer(r, "unknown_file")
        \/ Answer(r, "crashed")
  BY DEF Resolve
<1>3. ASSUME NEW a \in Assets, NEW at \in {"pick", "resolve"},
             Update(r, [p EXCEPT !.names = p.names \ {s}, !.assets = @ \cup {a}, !.at = at]),
             UNCHANGED <<world, audit, reports, readable>>
      PROVE  Inductive'
  <2>1. PICK q : q = [p EXCEPT !.names = p.names \ {s}, !.assets = @ \cup {a}, !.at = at]
    OBVIOUS
  <2>2. Shaped(p) /\ RequestTyped(p) /\ DOMAIN p.saw = {} /\ DOMAIN p.again = {}
    BY <1>1, RequestFacts DEF HasRead, BeforeAssets
  <2>3. /\ Shaped(q) /\ q.at = at /\ q.reply = p.reply /\ q.names = p.names \ {s}
        /\ q.assets = p.assets \cup {a} /\ q.rule = p.rule /\ q.saw = p.saw
        /\ q.again = p.again /\ q.result = p.result
    BY <2>1, <2>2 DEF Shaped
  <2>4. RequestTyped(q)
    BY <1>3, <2>2, <2>3 DEF RequestTyped, Steps
  <2>5. p.reply = "none"
    BY <1>1, AtWork
  <2>6. HasRead(q) /\ HasRule(q) /\ HasResult(q)
    BY <1>3, <2>2, <2>3, <2>5 DEF HasRead, HasRule, HasResult, Justified, BeforeAssets, PastService
  <2>7. SeenByService(r, q)' /\ SeenByBridge(r, q)'
    BY <1>3, <2>3, <2>5 DEF SeenByService, SeenByBridge, PastService, PastBridge
  <2>8. Outcome(r, q)'
    BY <1>1, <1>3, <2>3, AtWork DEF Outcome
  <2>9. audit' \in [Requests -> Seq(Events)] /\ Update(r, q)
    BY <1>3, <2>1, RequestFacts
  <2> QED
    BY <1>3, <2>3, <2>4, <2>6, <2>7, <2>8, <2>9, RequestStep
<1> QED
  BY <1>1, <1>2, <1>3, AnswerKeeps

\* A request that only goes to another step keeps all its other fields.
LEMMA GotoFields ==
  ASSUME NEW p, Shaped(p), NEW step, NEW q, q = [p EXCEPT !.at = step]
  PROVE  /\ Shaped(q) /\ q.at = step /\ q.via = p.via /\ q.actor = p.actor
         /\ q.scenario = p.scenario /\ q.names = p.names /\ q.assets = p.assets
         /\ q.rule = p.rule /\ q.saw = p.saw /\ q.again = p.again
         /\ q.result = p.result /\ q.banks = p.banks /\ q.reply = p.reply
BY DEF Shaped

LEMMA PickRuleKeeps ==
  ASSUME Inductive, NEW r \in Requests, PickRule(r) PROVE Inductive'
<1> DEFINE p == request[r]
<1>1. p.at = "pick"
  BY DEF PickRule
<1>2. PICK rule : rule = ActiveDemoRule(p.scenario)
  OBVIOUS
<1>3. \/ Answer(r, "no_rule") \/ Answer(r, "crashed")
      \/ /\ rule # NoRule /\ Update(r, [p EXCEPT !.rule = rule, !.at = "lookup"])
         /\ UNCHANGED <<world, audit, reports, readable>>
  BY <1>2 DEF PickRule
<1>4. ASSUME Update(r, [p EXCEPT !.rule = rule, !.at = "lookup"]),
             UNCHANGED <<world, audit, reports, readable>>
      PROVE  Inductive'
  <2>1. PICK q : q = [p EXCEPT !.rule = rule, !.at = "lookup"]
    OBVIOUS
  <2>2. Shaped(p) /\ RequestTyped(p) /\ DOMAIN p.saw = {} /\ DOMAIN p.again = {}
    BY <1>1, RequestFacts DEF HasRead, BeforeAssets
  <2>3. /\ Shaped(q) /\ q.at = "lookup" /\ q.reply = p.reply /\ q.names = p.names
        /\ q.assets = p.assets /\ q.rule = rule /\ q.saw = p.saw
        /\ q.again = p.again /\ q.result = p.result
    BY <2>1, <2>2 DEF Shaped
  <2>4. rule \in 0 .. MaxRules + 1
    BY <1>2, ActiveDemoRuleFacts, RequestFacts, AssessmentAssumption
  <2>5. RequestTyped(q)
    BY <2>2, <2>3, <2>4 DEF RequestTyped, Steps
  <2>6. p.reply = "none"
    BY <1>1, AtWork
  <2>7. HasRead(q) /\ HasRule(q) /\ HasResult(q)
    BY <2>2, <2>3, <2>6 DEF HasRead, HasRule, HasResult, Justified, BeforeAssets, PastService
  <2>8. SeenByService(r, q)' /\ SeenByBridge(r, q)'
    BY <2>3, <2>6 DEF SeenByService, SeenByBridge, PastService, PastBridge
  <2>9. Outcome(r, q)'
    BY <1>1, <1>4, <2>3, AtWork DEF Outcome
  <2>10. audit' \in [Requests -> Seq(Events)] /\ Update(r, q)
    BY <1>4, <2>1, RequestFacts
  <2> QED
    BY <1>4, <2>3, <2>5, <2>7, <2>8, <2>9, <2>10, RequestStep
<1> QED
  BY <1>1, <1>3, <1>4, AnswerKeeps

LEMMA LookupRuleKeeps ==
  ASSUME Inductive, NEW r \in Requests, LookupRule(r) PROVE Inductive'
<1> DEFINE p == request[r]
<1>1. p.at = "lookup"
  BY DEF LookupRule
<1>2. \/ Answer(r, "not_found") \/ Deny(r)
      \/ /\ p.rule \in DOMAIN rules
         /\ rules[p.rule].active /\ rules[p.rule].scenario = p.scenario
         /\ Goto(r, "assets") /\ UNCHANGED <<world, audit, reports, readable>>
  BY DEF LookupRule
<1>3. ASSUME p.rule \in DOMAIN rules,
             rules[p.rule].active, rules[p.rule].scenario = p.scenario,
             Goto(r, "assets"), UNCHANGED <<world, audit, reports, readable>>
      PROVE  Inductive'
  <2>1. PICK q : q = [p EXCEPT !.at = "assets"]
    OBVIOUS
  <2>2. Shaped(p) /\ RequestTyped(p) /\ DOMAIN p.saw = {} /\ DOMAIN p.again = {}
    BY <1>1, RequestFacts DEF HasRead, BeforeAssets
  <2>3. /\ Shaped(q) /\ q.at = "assets" /\ q.reply = p.reply /\ q.names = p.names
        /\ q.assets = p.assets /\ q.rule = p.rule /\ q.scenario = p.scenario /\ q.saw = p.saw
        /\ q.again = p.again /\ q.result = p.result
    BY <2>1, <2>2, GotoFields
  <2>4. RequestTyped(q)
    BY <2>2, <2>3 DEF RequestTyped, Steps
  <2>5. p.reply = "none"
    BY <1>1, AtWork
  <2>6. HasRead(q) /\ HasRule(q) /\ HasResult(q)
    BY <1>3, <2>2, <2>3, <2>5
    DEF HasRead, HasRule, HasResult, Justified, BeforeAssets, PastService
  <2>7. SeenByService(r, q)' /\ SeenByBridge(r, q)'
    BY <2>2, <2>3, <2>5 DEF SeenByService, SeenByBridge, PastService, PastBridge
  <2>8. Outcome(r, q)'
    BY <1>1, <1>3, <2>3, AtWork DEF Outcome
  <2>9. audit' \in [Requests -> Seq(Events)] /\ Update(r, q)
    BY <1>3, <2>1, RequestFacts DEF Goto
  <2> QED
    BY <1>3, <2>3, <2>4, <2>6, <2>7, <2>8, <2>9, RequestStep
<1> QED
  BY <1>1, <1>2, <1>3, AnswerKeeps, AuditedKeeps
-----------------------------------------------------------------------------
(***************************************************************************)
(* Every step keeps the invariant: the service's checks.                   *)
(***************************************************************************)
\* Whom evaluate_authorization allows the paths that were read may query each of them.
LEMMA AllowedMayQuery ==
  ASSUME NEW r \in Requests, NEW paths, Allowed(r, paths)
  PROVE  \A a \in DOMAIN paths : MayQuery(request[r].actor, paths[a])
<1> SUFFICES ASSUME NEW a \in DOMAIN paths PROVE MayQuery(request[r].actor, paths[a])
  OBVIOUS
<1> DEFINE actor == request[r].actor
<1> DEFINE read == {paths[b] : b \in DOMAIN paths}
<1>a. Evaluate(actor, grants, "query", read, FALSE) # "DENY" /\ paths[a] \in read
  BY DEF Allowed
<1> HIDE DEF actor, read
<1>1. /\ ~HasEffect(Applicable(actor, grants, "query", paths[a]), "DENY")
      /\ HasEffect(Applicable(actor, grants, "query", paths[a]), "ALLOW")
  BY <1>a, EvaluateAllows
<1>2. MayQuery(actor, paths[a])
  BY <1>1 DEF HasEffect, Applicable, MayQuery
<1> QED
  BY <1>2 DEF actor

\* Reading where an asset is now adds its path to what was read.
LEMMA ReadMore ==
  ASSUME WorldTyped, ActiveIsPlaced, NEW saw \in PathOf, NEW a \in active, NEW more,
         more = [b \in DOMAIN saw \cup {a} |-> IF b = a THEN place[a] ELSE saw[b]]
  PROVE  more \in PathOf /\ DOMAIN more = DOMAIN saw \cup {a} /\ a \in Assets
<1>1. PICK A \in SUBSET Assets : saw \in [A -> Paths]
  BY DEF PathOf
<1>2. a \in Assets /\ place[a] \in Paths
  BY DEF WorldTyped, ActiveIsPlaced
<1>3. more \in [A \cup {a} -> Paths] /\ A \cup {a} \in SUBSET Assets
  BY <1>1, <1>2
<1> QED
  BY <1>2, <1>3 DEF PathOf

LEMMA ReadAssetKeeps ==
  ASSUME Inductive, NEW r \in Requests, ReadAsset(r) PROVE Inductive'
<1> DEFINE p == request[r]
<1>1. p.at = "assets"
  BY DEF ReadAsset
<1>2. /\ Shaped(p) /\ RequestTyped(p) /\ DOMAIN p.again = {} /\ WorldTyped /\ ActiveIsPlaced
      /\ p.reply = "none" /\ audit \in [Requests -> Seq(Events)]
  BY <1>1, RequestFacts, AtWork DEF HasRead, Inductive
<1>3. \A a \in DOMAIN p.saw : MayQuery(p.actor, p.saw[a]) => Checked(r, a, "service")
  BY <1>1, RequestFacts DEF SeenByService
<1>4. CASE /\ p.assets \ DOMAIN p.saw = {} /\ Goto(r, "authorize")
           /\ UNCHANGED <<world, audit, reports, readable>>
  <2>1. PICK q : q = [p EXCEPT !.at = "authorize"]
    OBVIOUS
  <2>2. /\ Shaped(q) /\ q.at = "authorize" /\ q.reply = p.reply /\ q.names = p.names
        /\ q.assets = p.assets /\ q.rule = p.rule /\ q.scenario = p.scenario /\ q.saw = p.saw
        /\ q.again = p.again /\ q.result = p.result /\ q.actor = p.actor
    <3>1. Shaped(p)
      BY <1>2
    <3> QED
      BY <2>1, <3>1, GotoFields
  <2>3. RequestTyped(q)
    BY <1>2, <2>2 DEF RequestTyped, Steps
  <2>4. DOMAIN p.saw = p.assets
    BY <1>2, <1>4 DEF RequestTyped
  <2>5. HasRead(q) /\ HasRule(q) /\ HasResult(q)
    BY <1>1, <1>2, <2>2, <2>4, RequestFacts
    DEF HasRead, HasRule, HasResult, Justified, BeforeAssets, PastService
  <2>6. SeenByService(r, q)'
    <3>1. UNCHANGED grants /\ readable' = readable
      BY <1>4 DEF world
    <3> QED
      BY <1>2, <1>3, <2>2, <3>1, MayQuerySame DEF SeenByService, Checked, PastService
  <2>7. SeenByBridge(r, q)'
    BY <1>2, <2>2 DEF SeenByBridge, PastBridge
  <2>8. Outcome(r, q)'
    BY <1>1, <1>4, <2>2, AtWork DEF Outcome
  <2>9. audit' \in [Requests -> Seq(Events)] /\ Update(r, q)
    BY <1>2, <1>4, <2>1 DEF Goto
  <2> QED
    BY <1>4, <2>2, <2>3, <2>5, <2>6, <2>7, <2>8, <2>9, RequestStep
<1>5. ASSUME NEW a \in active, a \in p.assets \ DOMAIN p.saw,
             Update(r, [p EXCEPT !.saw = [b \in DOMAIN p.saw \cup {a} |->
                                            IF b = a THEN place[a] ELSE p.saw[b]]]),
             Witness(r, a, "service"), UNCHANGED <<world, audit, reports>>
      PROVE  Inductive'
  <2>1. PICK more : more = [b \in DOMAIN p.saw \cup {a} |-> IF b = a THEN place[a] ELSE p.saw[b]]
    OBVIOUS
  <2>2. PICK q : q = [p EXCEPT !.saw = more]
    OBVIOUS
  <2>3. /\ Shaped(q) /\ q.at = "assets" /\ q.reply = p.reply /\ q.names = p.names
        /\ q.assets = p.assets /\ q.rule = p.rule /\ q.scenario = p.scenario /\ q.saw = more
        /\ q.again = p.again /\ q.result = p.result /\ q.actor = p.actor
    BY <1>1, <1>2, <2>2 DEF Shaped
  <2>4. more \in PathOf /\ DOMAIN more = DOMAIN p.saw \cup {a}
    <3>1. p.saw \in PathOf /\ WorldTyped /\ ActiveIsPlaced
      BY <1>2 DEF RequestTyped
    <3> QED
      BY <2>1, <3>1, ReadMore
  <2>5. RequestTyped(q)
    BY <1>2, <1>5, <2>3, <2>4 DEF RequestTyped, Steps
  <2>6. HasRead(q) /\ HasRule(q) /\ HasResult(q)
    BY <1>1, <1>2, <2>3, RequestFacts
    DEF HasRead, HasRule, HasResult, Justified, BeforeAssets, PastService
  <2>7. /\ grants' = grants /\ readable \subseteq readable'
        /\ MayQuery(p.actor, place[a]) => <<r, a, "service">> \in readable'
    BY <1>2, <1>5 DEF world, Witness, ActiveIsPlaced
  <2>8. SeenByService(r, q)'
    <3> SUFFICES ASSUME NEW b \in DOMAIN more, MayQuery(p.actor, more[b])
                 PROVE  <<r, b, "service">> \in readable'
      BY <1>2, <2>3, <2>7, MayQuerySame DEF SeenByService, Checked, PastService
    <3>1. CASE b = a
      BY <2>1, <2>7, <3>1
    <3>2. CASE b # a
      BY <1>3, <2>1, <2>4, <2>7, <3>2 DEF Checked
    <3> QED
      BY <3>1, <3>2
  <2>9. SeenByBridge(r, q)'
    BY <1>2, <2>3 DEF SeenByBridge, PastBridge
  <2>10. Outcome(r, q)'
    BY <1>1, <1>5, <2>3, AtWork DEF Outcome
  <2>11. audit' \in [Requests -> Seq(Events)] /\ Update(r, q)
    BY <1>2, <1>5, <2>1, <2>2
  <2> QED
    BY <1>5, <2>3, <2>5, <2>6, <2>7, <2>8, <2>9, <2>10, <2>11, RequestStep
<1>6. CASE Deny(r)
  BY <1>1, <1>6, AuditedKeeps
<1> QED
  BY <1>4, <1>5, <1>6 DEF ReadAsset

LEMMA AuthorizeKeeps ==
  ASSUME Inductive, NEW r \in Requests, Authorize(r) PROVE Inductive'
<1> DEFINE p == request[r]
<1>1. p.at = "authorize"
  BY DEF Authorize
<1>2. /\ Shaped(p) /\ RequestTyped(p) /\ DOMAIN p.again = {} /\ DOMAIN p.saw = p.assets
      /\ p.reply = "none" /\ audit \in [Requests -> Seq(Events)]
  BY <1>1, RequestFacts, AtWork DEF HasRead
<1>3. ASSUME Allowed(r, p.saw), Goto(r, "bridge"), UNCHANGED <<world, audit, reports, readable>>
      PROVE  Inductive'
  <2>1. PICK q : q = [p EXCEPT !.at = "bridge"]
    OBVIOUS
  <2>2. /\ Shaped(q) /\ q.at = "bridge" /\ q.reply = p.reply /\ q.names = p.names
        /\ q.assets = p.assets /\ q.rule = p.rule /\ q.scenario = p.scenario /\ q.saw = p.saw
        /\ q.again = p.again /\ q.result = p.result /\ q.actor = p.actor
    <3>1. Shaped(p)
      BY <1>2
    <3> QED
      BY <2>1, <3>1, GotoFields
  <2>3. RequestTyped(q)
    BY <1>2, <2>2 DEF RequestTyped, Steps
  <2>4. HasRead(q) /\ HasRule(q) /\ HasResult(q)
    BY <1>1, <1>2, <2>2, RequestFacts
    DEF HasRead, HasRule, HasResult, Justified, BeforeAssets, PastService
  <2>5. \A a \in p.assets : Checked(r, a, "service")
    BY <1>1, <1>2, <1>3, AllowedMayQuery, RequestFacts DEF SeenByService
  <2>6. SeenByService(r, q)' /\ SeenByBridge(r, q)'
    BY <1>2, <1>3, <2>2, <2>5 DEF SeenByService, SeenByBridge, Checked, PastBridge
  <2>7. Outcome(r, q)'
    BY <1>1, <1>3, <2>2, AtWork DEF Outcome
  <2>8. audit' \in [Requests -> Seq(Events)] /\ Update(r, q)
    BY <1>2, <1>3, <2>1 DEF Goto
  <2> QED
    BY <1>3, <2>2, <2>3, <2>4, <2>6, <2>7, <2>8, RequestStep
<1> QED
  BY <1>1, <1>3, AnswerKeeps, AuditedKeeps DEF Authorize
-----------------------------------------------------------------------------
(***************************************************************************)
(* Every step keeps the invariant: the bridge's checks and the match.      *)
(***************************************************************************)
LEMMA BridgeReadKeeps ==
  ASSUME Inductive, NEW r \in Requests, BridgeRead(r) PROVE Inductive'
<1> DEFINE p == request[r]
<1>1. p.at = "bridge"
  BY DEF BridgeRead
<1>2. /\ Shaped(p) /\ RequestTyped(p) /\ DOMAIN p.saw = p.assets /\ WorldTyped
      /\ ActiveIsPlaced /\ p.reply = "none" /\ audit \in [Requests -> Seq(Events)]
  BY <1>1, RequestFacts, AtWork DEF HasRead, Inductive
<1>3. /\ \A a \in DOMAIN p.again : MayQuery(p.actor, p.again[a]) => Checked(r, a, "bridge")
      /\ \A a \in p.assets : Checked(r, a, "service")
  BY <1>1, RequestFacts DEF SeenByService, SeenByBridge, PastService
<1>4. CASE /\ p.assets \ DOMAIN p.again = {} /\ Goto(r, "bridge_authorize")
           /\ UNCHANGED <<world, audit, reports, readable>>
  <2>1. PICK q : q = [p EXCEPT !.at = "bridge_authorize"]
    OBVIOUS
  <2>2. /\ Shaped(q) /\ q.at = "bridge_authorize" /\ q.reply = p.reply /\ q.names = p.names
        /\ q.assets = p.assets /\ q.rule = p.rule /\ q.scenario = p.scenario /\ q.saw = p.saw
        /\ q.again = p.again /\ q.result = p.result /\ q.actor = p.actor
    <3>1. Shaped(p)
      BY <1>2
    <3> QED
      BY <2>1, <3>1, GotoFields
  <2>3. RequestTyped(q)
    BY <1>2, <2>2 DEF RequestTyped, Steps
  <2>4. DOMAIN p.again = p.assets
    BY <1>2, <1>4 DEF RequestTyped
  <2>5. HasRead(q) /\ HasRule(q) /\ HasResult(q)
    BY <1>1, <1>2, <2>2, <2>4, RequestFacts
    DEF HasRead, HasRule, HasResult, Justified, BeforeAssets, PastService
  <2>6. SeenByService(r, q)' /\ SeenByBridge(r, q)'
    <3>1. UNCHANGED grants /\ readable' = readable
      BY <1>4 DEF world
    <3> QED
      BY <1>2, <1>3, <2>2, <3>1, MayQuerySame DEF SeenByService, SeenByBridge, Checked, PastBridge
  <2>7. Outcome(r, q)'
    BY <1>1, <1>4, <2>2, AtWork DEF Outcome
  <2>8. audit' \in [Requests -> Seq(Events)] /\ Update(r, q)
    BY <1>2, <1>4, <2>1 DEF Goto
  <2> QED
    BY <1>4, <2>2, <2>3, <2>5, <2>6, <2>7, <2>8, RequestStep
<1>5. ASSUME NEW a \in active, a \in p.assets \ DOMAIN p.again,
             Update(r, [p EXCEPT !.again = [b \in DOMAIN p.again \cup {a} |->
                                              IF b = a THEN place[a] ELSE p.again[b]]]),
             Witness(r, a, "bridge"), UNCHANGED <<world, audit, reports>>
      PROVE  Inductive'
  <2>1. PICK more :
          more = [b \in DOMAIN p.again \cup {a} |-> IF b = a THEN place[a] ELSE p.again[b]]
    OBVIOUS
  <2>2. PICK q : q = [p EXCEPT !.again = more]
    OBVIOUS
  <2>3. /\ Shaped(q) /\ q.at = "bridge" /\ q.reply = p.reply /\ q.names = p.names
        /\ q.assets = p.assets /\ q.rule = p.rule /\ q.scenario = p.scenario /\ q.saw = p.saw
        /\ q.again = more /\ q.result = p.result /\ q.actor = p.actor
    BY <1>1, <1>2, <2>2 DEF Shaped
  <2>4. more \in PathOf /\ DOMAIN more = DOMAIN p.again \cup {a}
    <3>1. p.again \in PathOf /\ WorldTyped /\ ActiveIsPlaced
      BY <1>2 DEF RequestTyped
    <3> QED
      BY <2>1, <3>1, ReadMore
  <2>5. RequestTyped(q)
    BY <1>2, <1>5, <2>3, <2>4 DEF RequestTyped, Steps
  <2>6. HasRead(q) /\ HasRule(q) /\ HasResult(q)
    BY <1>1, <1>2, <2>3, RequestFacts
    DEF HasRead, HasRule, HasResult, Justified, BeforeAssets, PastService
  <2>7. /\ grants' = grants /\ readable \subseteq readable'
        /\ MayQuery(p.actor, place[a]) => <<r, a, "bridge">> \in readable'
    BY <1>2, <1>5 DEF world, Witness, ActiveIsPlaced
  <2>8. SeenByBridge(r, q)'
    <3> SUFFICES ASSUME NEW b \in DOMAIN more, MayQuery(p.actor, more[b])
                 PROVE  <<r, b, "bridge">> \in readable'
      BY <1>2, <2>3, <2>7, MayQuerySame DEF SeenByBridge, Checked, PastBridge
    <3>1. CASE b = a
      BY <2>1, <2>7, <3>1
    <3>2. CASE b # a
      BY <1>3, <2>1, <2>4, <2>7, <3>2 DEF Checked
    <3> QED
      BY <3>1, <3>2
  <2>9. SeenByService(r, q)'
    BY <1>3, <2>3, <2>7 DEF SeenByService, Checked
  <2>10. Outcome(r, q)'
    BY <1>1, <1>5, <2>3, AtWork DEF Outcome
  <2>11. audit' \in [Requests -> Seq(Events)] /\ Update(r, q)
    BY <1>2, <1>5, <2>1, <2>2
  <2> QED
    BY <1>5, <2>3, <2>5, <2>6, <2>7, <2>8, <2>9, <2>10, <2>11, RequestStep
<1>6. CASE Fail(r)
  BY <1>1, <1>6, AuditedKeeps
<1> QED
  BY <1>4, <1>5, <1>6 DEF BridgeRead

LEMMA BridgeAuthorizeKeeps ==
  ASSUME Inductive, NEW r \in Requests, BridgeAuthorize(r) PROVE Inductive'
<1> DEFINE p == request[r]
<1>1. p.at = "bridge_authorize"
  BY DEF BridgeAuthorize
<1>2. /\ Shaped(p) /\ RequestTyped(p) /\ DOMAIN p.again = p.assets
      /\ p.reply = "none" /\ audit \in [Requests -> Seq(Events)]
  BY <1>1, RequestFacts, AtWork DEF HasRead
<1>3. ASSUME Allowed(r, p.again), Goto(r, "match"), UNCHANGED <<world, audit, reports, readable>>
      PROVE  Inductive'
  <2>1. PICK q : q = [p EXCEPT !.at = "match"]
    OBVIOUS
  <2>2. /\ Shaped(q) /\ q.at = "match" /\ q.reply = p.reply /\ q.names = p.names
        /\ q.assets = p.assets /\ q.rule = p.rule /\ q.scenario = p.scenario /\ q.saw = p.saw
        /\ q.again = p.again /\ q.result = p.result /\ q.actor = p.actor
    <3>1. Shaped(p)
      BY <1>2
    <3> QED
      BY <2>1, <3>1, GotoFields
  <2>3. RequestTyped(q)
    BY <1>2, <2>2 DEF RequestTyped, Steps
  <2>4. HasRead(q) /\ HasRule(q) /\ HasResult(q)
    BY <1>1, <1>2, <2>2, RequestFacts
    DEF HasRead, HasRule, HasResult, Justified, BeforeAssets, PastService
  <2>5. \A a \in p.assets : Checked(r, a, "service") /\ Checked(r, a, "bridge")
    BY <1>1, <1>2, <1>3, AllowedMayQuery, RequestFacts
    DEF SeenByService, SeenByBridge, PastService
  <2>6. SeenByService(r, q)' /\ SeenByBridge(r, q)'
    BY <1>2, <1>3, <2>2, <2>5 DEF SeenByService, SeenByBridge, Checked
  <2>7. Outcome(r, q)'
    BY <1>1, <1>3, <2>2, AtWork DEF Outcome
  <2>8. audit' \in [Requests -> Seq(Events)] /\ Update(r, q)
    BY <1>2, <1>3, <2>1 DEF Goto
  <2> QED
    BY <1>3, <2>2, <2>3, <2>4, <2>6, <2>7, <2>8, RequestStep
<1> QED
  BY <1>1, <1>3, AuditedKeeps DEF BridgeAuthorize

LEMMA BridgeMatchKeeps ==
  ASSUME Inductive, NEW r \in Requests, BridgeMatch(r) PROVE Inductive'
<1> DEFINE p == request[r]
<1>1. p.at = "match"
  BY DEF BridgeMatch
<1>2. /\ Shaped(p) /\ RequestTyped(p)
      /\ p.reply = "none" /\ audit \in [Requests -> Seq(Events)]
  BY <1>1, RequestFacts, AtWork
<1>3. ASSUME IsFixture(rules[p.rule]), p.assets \subseteq Samples,
             Assess(p.assets, Facts(p.assets)).level # "DENIED",
             Update(r, [p EXCEPT !.result = Assess(p.assets, Facts(p.assets)),
                                 !.banks = CandidateBanks(Facts(p.assets)), !.at = "report"]),
             UNCHANGED <<world, audit, reports, readable>>
      PROVE  Inductive'
  <2>1. PICK result, banks :
          result = Assess(p.assets, Facts(p.assets)) /\ banks = CandidateBanks(Facts(p.assets))
    OBVIOUS
  <2>2. PICK q : q = [p EXCEPT !.result = result, !.banks = banks, !.at = "report"]
    OBVIOUS
  <2>3. /\ Shaped(q) /\ q.at = "report" /\ q.reply = p.reply /\ q.names = p.names
        /\ q.assets = p.assets /\ q.rule = p.rule /\ q.scenario = p.scenario /\ q.saw = p.saw
        /\ q.again = p.again /\ q.result = result /\ q.banks = banks /\ q.actor = p.actor
    <3>1. Shaped(p)
      BY <1>2
    <3> QED
      BY <2>2, <3>1 DEF Shaped
  <2>4. RequestTyped(q)
    <3>1. result.score \in 0 .. 100
      BY <1>3, <2>1, AssessScore
    <3> QED
      BY <1>2, <2>3, <3>1 DEF RequestTyped, Steps
  <2>5. HasRead(q)
    BY <2>3 DEF HasRead, BeforeAssets
  <2>6. HasRule(q)
    BY <1>1, <2>3, RequestFacts DEF HasRule, PastService
  <2>7. HasResult(q)
    BY <1>3, <2>1, <2>3 DEF HasResult
  <2>8. SeenByService(r, q)' /\ SeenByBridge(r, q)'
    BY <1>1, <1>3, <2>3, RequestFacts
    DEF SeenByService, SeenByBridge, Checked, PastService, PastBridge
  <2>9. Outcome(r, q)'
    BY <1>1, <1>2, <1>3, <2>3, AtWork DEF Outcome
  <2>10. audit' \in [Requests -> Seq(Events)] /\ Update(r, q)
    BY <1>2, <1>3, <2>1, <2>2
  <2> QED
    BY <1>3, <2>3, <2>4, <2>5, <2>6, <2>7, <2>8, <2>9, <2>10, RequestStep
<1> QED
  BY <1>1, <1>3, AuditedKeeps DEF BridgeMatch

LEMMA StoreReportKeeps ==
  ASSUME Inductive, NEW r \in Requests, StoreReport(r) PROVE Inductive'
<1> DEFINE p == request[r]
<1>1. /\ p.at = "report" /\ reports' = reports \cup {r} /\ Goto(r, "audit")
      /\ UNCHANGED <<world, audit, readable>>
  BY DEF StoreReport
<1>2. /\ Shaped(p) /\ RequestTyped(p)
      /\ p.reply = "none" /\ audit \in [Requests -> Seq(Events)]
  BY <1>1, RequestFacts, AtWork
<1>3. PICK q : q = [p EXCEPT !.at = "audit"]
  OBVIOUS
<1>4. /\ Shaped(q) /\ q.at = "audit" /\ q.reply = p.reply /\ q.names = p.names
      /\ q.assets = p.assets /\ q.rule = p.rule /\ q.scenario = p.scenario /\ q.saw = p.saw
      /\ q.again = p.again /\ q.result = p.result /\ q.banks = p.banks /\ q.actor = p.actor
  <2>1. Shaped(p)
    BY <1>2
  <2> QED
    BY <1>3, <2>1, GotoFields
<1>5. RequestTyped(q)
  BY <1>2, <1>4 DEF RequestTyped, Steps
<1>6. HasRead(q) /\ HasRule(q) /\ HasResult(q)
  BY <1>1, <1>4, RequestFacts DEF HasRead, HasRule, HasResult, BeforeAssets, PastService
<1>7. SeenByService(r, q)' /\ SeenByBridge(r, q)'
  BY <1>1, <1>4, RequestFacts DEF SeenByService, SeenByBridge, Checked, PastService, PastBridge
<1>8. Outcome(r, q)'
  BY <1>1, <1>2, <1>4, AtWork DEF Outcome
<1>9. audit' \in [Requests -> Seq(Events)] /\ Update(r, q)
  BY <1>1, <1>2, <1>3 DEF Goto
<1> QED
  BY <1>1, <1>4, <1>5, <1>6, <1>7, <1>8, <1>9, RequestStep

LEMMA AuditReportKeeps ==
  ASSUME Inductive, NEW r \in Requests, AuditReport(r) PROVE Inductive'
<1> DEFINE p == request[r]
<1>1. /\ p.at = "audit" /\ Update(r, [p EXCEPT !.at = "done", !.reply = "reported"])
      /\ audit' = [audit EXCEPT ![r] = Append(audit[r], "assessment_report_created")]
      /\ UNCHANGED <<world, reports, readable>>
  BY DEF AuditReport, AnswerAudited
<1>2. /\ Shaped(p) /\ RequestTyped(p) /\ p.reply = "none" /\ audit[r] = <<>> /\ r \in reports
      /\ audit \in [Requests -> Seq(Events)]
  BY <1>1, RequestFacts, AtWork
<1>3. PICK q : q = [p EXCEPT !.at = "done", !.reply = "reported"]
  OBVIOUS
<1>4. /\ Shaped(q) /\ q.at = "done" /\ q.reply = "reported" /\ q.names = p.names
      /\ q.assets = p.assets /\ q.rule = p.rule /\ q.scenario = p.scenario /\ q.saw = p.saw
      /\ q.again = p.again /\ q.result = p.result /\ q.banks = p.banks /\ q.actor = p.actor
  <2>1. Shaped(p)
    BY <1>2
  <2> QED
    BY <1>3, <2>1 DEF Shaped
<1>5. RequestTyped(q)
  BY <1>2, <1>4 DEF RequestTyped, Steps, Replies
<1>6. HasRead(q) /\ HasRule(q) /\ HasResult(q)
  BY <1>1, <1>4, RequestFacts DEF HasRead, HasRule, HasResult, BeforeAssets, PastService
<1>7. SeenByService(r, q)' /\ SeenByBridge(r, q)'
  BY <1>1, <1>4, RequestFacts DEF SeenByService, SeenByBridge, Checked, PastService, PastBridge
<1>8. /\ audit' \in [Requests -> Seq(Events)] /\ audit'[r] = <<"assessment_report_created">>
      /\ \A x \in Requests \ {r} : audit'[x] = audit[x]
  BY <1>1, <1>2 DEF Events
<1>9. Outcome(r, q)'
  BY <1>1, <1>2, <1>4, <1>8 DEF Outcome
<1> QED
  BY <1>1, <1>3, <1>4, <1>5, <1>6, <1>7, <1>8, <1>9, RequestStep
-----------------------------------------------------------------------------
LEMMA InitInductive == Init => Inductive
<1> SUFFICES ASSUME Init PROVE Inductive
  OBVIOUS
<1>1. \A r \in Requests : request[r] = Idle /\ audit[r] = <<>>
  BY DEF Init
<1>2. WorldTyped /\ ActiveIsPlaced
  <2>1. place \in [Assets -> Paths \cup {None}] /\ \A a \in Assets : place[a] # None
    BY AssessmentAssumption DEF Init, Assets
  <2>2. rules \in Seq(Rules) /\ Len(rules) <= MaxRules
    <3>1. Seeded \in Rules
      BY AssessmentAssumption DEF Seeded, Rules
    <3>2. CASE rules = <<>>
      BY <3>2, AssessmentAssumption
    <3>3. CASE rules = <<Seeded>>
      <4>1. Len(rules) = 1 /\ rules \in Seq(Rules)
        BY <3>1, <3>3
      <4> QED
        BY <4>1, AssessmentAssumption
    <3> QED
      BY <3>2, <3>3 DEF Init
  <2> QED
    BY <2>1, <2>2, AssessmentAssumption DEF Init, WorldTyped, ActiveIsPlaced
<1>3. TypeOK
  <2>1. audit \in [Requests -> Seq(Events)] /\ reports \subseteq Requests
    BY DEF Init
  <2> QED
    BY <1>1, <1>2, <2>1, IdleShaped, TypeParts
<1>4. RequestsShaped
  BY <1>1, IdleShaped DEF RequestsShaped, Init
<1>5. ASSUME NEW r \in Requests PROVE Established(r)
  <2>1. /\ Idle.at = "idle" /\ Idle.reply = "none" /\ Idle.saw = <<>> /\ Idle.again = <<>>
    BY DEF Idle
  <2>2. HasRead(Idle)
    BY <2>1, EmptyPath DEF HasRead
  <2>3. HasRule(Idle) /\ HasResult(Idle)
    BY <2>1 DEF HasRule, HasResult, Justified, PastService
  <2>4. SeenByService(r, Idle) /\ SeenByBridge(r, Idle)
    BY <2>1 DEF SeenByService, SeenByBridge, PastService, PastBridge
  <2>5. Outcome(r, Idle)
    BY <1>1, <2>1 DEF Outcome, Init
  <2> QED
    BY <1>1, <2>2, <2>3, <2>4, <2>5 DEF Established
<1> QED
  BY <1>2, <1>3, <1>4, <1>5 DEF Inductive

LEMMA NextKeeps == Inductive /\ [Next]_vars => Inductive'
<1> SUFFICES ASSUME Inductive, [Next]_vars PROVE Inductive'
  OBVIOUS
<1>1. CASE UNCHANGED vars
  <2>1. UNCHANGED <<place, active, grants, rules, moves, request, audit, reports, readable>>
    BY <1>1 DEF vars, world
  <2>2. WorldTyped' /\ ActiveIsPlaced'
    BY <2>1, TypeParts DEF Inductive, WorldTyped, ActiveIsPlaced
  <2> QED
    BY <2>1, <2>2, MayQuerySame, WorldStep
<1>2. ASSUME NEW r \in Requests,
             Direct(r) \/ Sample(r) \/ RealAssess(r) \/ ServiceStep(r) \/ BridgeStep(r)
      PROVE  Inductive'
  BY <1>2, DirectKeeps, SampleKeeps, RealAssessKeeps, ResolveKeeps, PickRuleKeeps,
     LookupRuleKeeps, ReadAssetKeeps, AuthorizeKeeps, StoreReportKeeps, AuditReportKeeps,
     BridgeReadKeeps, BridgeAuthorizeKeeps, BridgeMatchKeeps
  DEF ServiceStep, BridgeStep
<1>3. ASSUME NEW a \in Assets, NEW path \in Paths, Move(a, path) PROVE Inductive'
  BY <1>3, MoveKeeps
<1>4. ASSUME NEW f \in Files, RevokeFile(f) \/ RemoveFile(f) PROVE Inductive'
  BY <1>4, RevokeFileKeeps, RemoveFileKeeps
<1>5. CASE CreateRule
  BY <1>5, CreateRuleKeeps
<1> QED
  BY <1>1, <1>2, <1>3, <1>4, <1>5 DEF Next

\* The inductive invariant holds however moves, deletions and new rule sets come between
\* the steps of the assessments.
THEOREM InductiveInvariant == Spec => []Inductive
BY InitInductive, NextKeeps, PTL DEF Spec

\* Repository and requests only hold values of their types; every score is a percentage.
THEOREM TypeCorrect == Spec => []TypeOK
<1>1. Inductive => TypeOK
  BY DEF Inductive
<1> QED
  BY <1>1, InductiveInvariant, PTL

\* A stored report rests on assets that were active and that the actor could query both
\* when the service and when the bridge read them, whatever moved between the two.
THEOREM ReportsRestOnReadableAssets == Spec => []ReportedWereReadable
<1>1. ASSUME Inductive PROVE ReportedWereReadable
  <2> SUFFICES ASSUME NEW r \in reports, NEW a \in Assets, a \in request[r].assets
               PROVE  {<<r, a, "service">>, <<r, a, "bridge">>} \subseteq readable
    BY DEF ReportedWereReadable
  <2>1. r \in Requests
    BY <1>1, TypeParts DEF Inductive
  <2>2. request[r].at = "audit" \/ request[r].reply = "reported"
    BY <1>1, <2>1, RequestFacts DEF Outcome
  <2>3. Checked(r, a, "service") /\ Checked(r, a, "bridge")
    BY <1>1, <2>1, <2>2, RequestFacts DEF SeenByService, SeenByBridge, PastService, PastBridge
  <2> QED
    BY <2>3 DEF Checked
<1> QED
  BY <1>1, InductiveInvariant, PTL

\* create_assessment_report leaves one audit event for a denied, failed or reported
\* assessment and none otherwise, and a report exactly for those that are reported.
THEOREM OutcomesAreAudited == Spec => []OutcomeIsAudited
<1>1. ASSUME Inductive PROVE OutcomeIsAudited
  <2>1. \A r \in Requests : Outcome(r, request[r])
    BY <1>1, RequestFacts
  <2> QED
    BY <2>1 DEF Outcome, OutcomeIsAudited
<1> QED
  BY <1>1, InductiveInvariant, PTL

\* Any rule of fewer than 200 requirements: a result is judged by an active rule version
\* that is the fixture's, and its level, score, missing entries, citations and candidate
\* banks all say the same about the materials that were handed in.
THEOREM ResultsAreJustified ==
  ASSUME Len(Banks[Assessed]) < 200
  PROVE  Spec => []ResultIsJustified
<1>1. ASSUME Inductive PROVE ResultIsJustified
  <2> SUFFICES ASSUME NEW r \in Requests, Justified(request[r])
               PROVE
                 LET q == request[r]
                     rule == rules[q.rule]
                     met == {i \in DOMAIN Banks[Assessed] :
                               \E a \in q.assets : Key[a] = Banks[Assessed][i]}
                 IN  /\ rule.demo /\ rule.right /\ rule.active /\ rule.scenario = q.scenario
                     /\ q.banks[Assessed] = q.result
                     /\ q.result.missing = DOMAIN Banks[Assessed] \ met
                     /\ q.result.level = "MATCH" <=> met = DOMAIN Banks[Assessed]
                     /\ q.result.level = "MATCH" <=> q.result.score = 100
                     /\ {c.asset : c \in q.result.cites} = q.assets
    BY DEF ResultIsJustified, Justified
  <2> DEFINE q == request[r]
             A == q.assets
             bank == Banks[Assessed]
             met == {i \in DOMAIN bank : \E a \in A : Key[a] = bank[i]}
  <2>1. /\ A \subseteq Samples /\ IsFixture(rules[q.rule])
        /\ rules[q.rule].active /\ rules[q.rule].scenario = q.scenario
        /\ q.result = Assess(A, Facts(A)) /\ q.result.level # "DENIED"
        /\ q.banks = CandidateBanks(Facts(A))
    BY <1>1, RequestFacts DEF HasResult, HasRule
  <2>2. Denied.level = "DENIED"
    BY DEF Denied
  <2>3. q.result = ScoreMatches(bank, Facts(A))
    BY <2>1, <2>2, AssessFacts
  <2>4. Matched(bank, Facts(A)) = met
    BY FactsMeet
  <2>5. /\ q.result.level = Level(bank, Facts(A)) /\ q.result.score = Score(bank, Facts(A))
        /\ q.result.missing = DOMAIN bank \ met /\ q.result.cites = Citations(Facts(A))
    BY <2>3, <2>4 DEF ScoreMatches
  <2>6. /\ bank \in Seq(Materials) /\ bank # <<>> /\ Assessed \in DOMAIN Banks
    BY BanksTyped, AssessmentAssumption
  <2>7. /\ q.result.level = "MATCH" <=> met = DOMAIN bank
        /\ q.result.level = "MATCH" <=> q.result.score = 100
    <3>1. /\ Score(bank, Facts(A)) = 100 <=> Matched(bank, Facts(A)) = DOMAIN bank
          /\ Level(bank, Facts(A)) = "MATCH" <=> Matched(bank, Facts(A)) = DOMAIN bank
      BY <2>6, FullScoreIsAMatch
    <3> HIDE DEF met, q, A, bank
    <3> QED
      BY <2>4, <2>5, <3>1
  <2>8. q.banks[Assessed] = q.result
    BY <2>1, <2>3, <2>6 DEF CandidateBanks, ScoreMulti
  <2>9. {c.asset : c \in q.result.cites} = A
    BY <2>5, FactsMeet
  <2>10. rules[q.rule].demo /\ rules[q.rule].right
    BY <2>1 DEF IsFixture
  <2> QED
    BY <2>1, <2>5, <2>7, <2>8, <2>9, <2>10
<1> QED
  BY <1>1, InductiveInvariant, PTL

\* Whatever rule sets are created, the version a scenario's samples are judged by stays
\* the first one that was there.
THEOREM RulesAreStable == Spec => RuleIsStable
<1>1. ASSUME Inductive, [Next]_vars, NEW scenario \in Scenarios, ActiveDemoRule(scenario) # NoRule
      PROVE  ActiveDemoRule(scenario)' = ActiveDemoRule(scenario)
  <2>1. CASE rules' = rules
    BY <2>1 DEF ActiveDemoRule, Demo
  <2>2. CASE CreateRule
    <3>1. WorldTyped
      BY <1>1, TypeParts DEF Inductive
    <3>2. Demo(scenario) # {}
      BY <1>1 DEF ActiveDemoRule, Oldest
    <3>3. PICK S, T : S = Demo(scenario) /\ T = Demo(scenario)'
      OBVIOUS
    <3>4. /\ S \subseteq 1 .. Len(rules) /\ T \subseteq 1 .. Len(rules) + 1 /\ Len(rules) \in Nat
          /\ S = T \cap 1 .. Len(rules)
      BY <2>2, <3>1, <3>3, CreateRuleFacts DEF Demo
    <3>5. Oldest(T) = Oldest(S)
      BY <3>2, <3>3, <3>4, OldestStays
    <3> QED
      BY <3>3, <3>5 DEF ActiveDemoRule
  <2>3. rules' = rules \/ CreateRule
    <3>1. ASSUME NEW r \in Requests, ServiceStep(r) PROVE rules' = rules
      BY <3>1 DEF ServiceStep, Resolve, PickRule, LookupRule, ReadAsset, Authorize, StoreReport,
         AuditReport, Answer, AnswerAudited, Deny, Fail, world
    <3>2. ASSUME NEW r \in Requests, BridgeStep(r) PROVE rules' = rules
      BY <3>2 DEF BridgeStep, BridgeRead, BridgeAuthorize, BridgeMatch, Answer, AnswerAudited,
         Deny, Fail, world
    <3>3. ASSUME NEW r \in Requests, Direct(r) \/ Sample(r) \/ RealAssess(r)
          PROVE  rules' = rules
      BY <3>3 DEF Direct, Sample, RealAssess, world
    <3>4. ASSUME NEW a \in Assets, NEW path \in Paths, Move(a, path) PROVE rules' = rules
      BY <3>4 DEF Move
    <3>5. ASSUME NEW f \in Files, RevokeFile(f) \/ RemoveFile(f) PROVE rules' = rules
      BY <3>5 DEF RevokeFile, RemoveFile
    <3>6. UNCHANGED vars => rules' = rules
      BY DEF vars, world
    <3> QED
      BY <1>1, <3>1, <3>2, <3>3, <3>4, <3>5, <3>6 DEF Next
  <2> QED
    BY <2>1, <2>2, <2>3
<1>2. Inductive /\ [Next]_vars =>
        [\A scenario \in Scenarios :
           ActiveDemoRule(scenario) # NoRule =>
             ActiveDemoRule(scenario)' = ActiveDemoRule(scenario)]_vars
  BY <1>1
<1> QED
  BY <1>2, InductiveInvariant, PTL DEF Spec, RuleIsStable
=============================================================================
