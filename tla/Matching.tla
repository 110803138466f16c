------------------------------ MODULE Matching ------------------------------
(***************************************************************************)
(* FinanceMaterialMatchingService: how the facts found in documents are    *)
(* matched with the requirements of a rule.                                *)
(*                                                                         *)
(* A hit is a chunk that was found: its tenant, asset, version, chunk and  *)
(* the material key of its document.  A requirement is an entry of a       *)
(* rule's sequence, told by its material key; entries may share a key.     *)
(* Citations are sets: a chunk found twice is cited once.                  *)
(***************************************************************************)
EXTENDS Naturals, Sequences, FiniteSets

\* Python's round: to the nearest integer, a half to the even one.
RoundHalfEven_Up(a, b) == a \div b + 1

RoundHalfEven(a, b) ==
  LET q == a \div b
      r == a % b
  IN  IF 2 * r > b \/ (2 * r = b /\ q % 2 = 1) THEN q + 1 ELSE q

\* The filter of a search: the active versions in scope, less those of denied assets.
Filter(scope) == {v \in scope.allowed : v.asset \notin scope.denied}

InFilter(hits, tenant, filter) ==
  \A h \in hits : h.tenant = tenant /\ [asset |-> h.asset, version |-> h.version] \in filter

Matched(rule, hits) == {i \in DOMAIN rule : \E h \in hits : h.key = rule[i]}

Score(rule, hits) ==
  IF rule = <<>> THEN 0
  ELSE RoundHalfEven(100 * Cardinality(Matched(rule, hits)), Len(rule))

Level_AllOrNothing(rule, hits) ==
  IF Matched(rule, hits) = DOMAIN rule THEN "MATCH" ELSE "NOT_MATCH"

Level(rule, hits) ==
  IF Matched(rule, hits) = {} THEN "MISSING_INFO"
  ELSE IF Matched(rule, hits) = DOMAIN rule THEN "MATCH" ELSE "POSSIBLE"

Citations(hits) == {[asset |-> h.asset, version |-> h.version, chunk |-> h.chunk] : h \in hits}

\* _score_matches: level, score, missing entries and what is cited.
ScoreMatches(rule, hits) ==
  [level   |-> Level(rule, hits),
   score   |-> Score(rule, hits),
   missing |-> DOMAIN rule \ Matched(rule, hits),
   cites   |-> Citations(hits)]

Denied == [level |-> "DENIED", score |-> 0, missing |-> {}, cites |-> {}]

\* match: nothing in scope, or a hit out of it, denies.
Match(tenant, scope, rule, hits) ==
  IF Filter(scope) = {} \/ ~InFilter(hits, tenant, Filter(scope))
  THEN Denied
  ELSE ScoreMatches(rule, hits)

\* score_multi_rule_matches: each candidate rule against the same hits.
ScoreMulti(rules, hits) == [c \in DOMAIN rules |-> ScoreMatches(rules[c], hits)]
=============================================================================
