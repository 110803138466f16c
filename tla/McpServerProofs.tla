--------------------------- MODULE McpServerProofs ---------------------------
(***************************************************************************)
(* Theorems about McpServer for every set of users, agents, samples and    *)
(* grants, every rule and every number of calls.                           *)
(***************************************************************************)
EXTENDS McpServer, FiniteSetTheorems, SequenceTheorems, TLAPS
-----------------------------------------------------------------------------
(***************************************************************************)
(* What the policy says of several paths, and of one spelled in two ways.  *)
(***************************************************************************)
\* The grants allow the path and none denies it.
Granted(user, action, path) ==
  /\ Valid(path)
  /\ ~HasEffect(Applicable(user, grants, action, path), "DENY")
  /\ HasEffect(Applicable(user, grants, action, path), "ALLOW")

\* A request is denied unless each of its paths is granted.
LEMMA EachIsGranted ==
  ASSUME NEW user, NEW action, NEW paths
  PROVE  Decision(user, action, paths) # "DENY" <=>
           paths # {} /\ \A path \in paths : Granted(user, action, path)
BY DEF Decision, Evaluate, RiskState, Granted

LEMMA OnePathGranted ==
  ASSUME NEW user, NEW action, NEW path
  PROVE  Decision(user, action, {path}) # "DENY" <=> Granted(user, action, path)
<1>1. {path} # {} /\ \A q \in {path} : q = path
  OBVIOUS
<1> QED
  BY <1>1, EachIsGranted

\* Two spellings of a path are decided alike.
LEMMA SpelledAlike ==
  ASSUME NEW user, NEW action, NEW p, NEW q, Valid(p), Valid(q), Normalize(p) = Normalize(q)
  PROVE  Decision(user, action, {p}) = "DENY" <=> Decision(user, action, {q}) = "DENY"
<1>1. Applicable(user, grants, action, p) = Applicable(user, grants, action, q)
  BY DEF Applicable, Within
<1>2. Granted(user, action, p) <=> Granted(user, action, q)
  BY <1>1 DEF Granted
<1> QED
  BY <1>2, OnePathGranted

Decisions == {"DENY", "DIRECT", "SELF_CONFIRM", "APPROVAL_REQUIRED"}

LEMMA DecisionTyped ==
  ASSUME NEW user, NEW action, NEW paths
  PROVE  Decision(user, action, paths) \in Decisions
BY DEF Decision, Evaluate, RiskState, Decisions

\* An assessment's level is one of three, and it cites what was asked for.
Levels == {"MATCH", "POSSIBLE", "MISSING_INFO"}

LEMMA ResultTyped ==
  ASSUME NEW rule, NEW A
  PROVE  /\ ScoreMatches(rule, Facts(A)).level \in Levels
         /\ {c.asset : c \in ScoreMatches(rule, Facts(A)).cites} \subseteq A
<1>1. Level(rule, Facts(A)) \in Levels
  BY DEF Level, Levels
<1>2. {c.asset : c \in Citations(Facts(A))} \subseteq A
  BY DEF Citations, Facts
<1> QED
  BY <1>1, <1>2 DEF ScoreMatches
-----------------------------------------------------------------------------
(***************************************************************************)
(* The inductive invariant: what each call was answered, and the trail.    *)
(***************************************************************************)
Args == Actions \X Probes \cup Samples \cup Idle \cup Unknown \cup Requested \cup Limits \cup {{}}

Replies == Statuses \cup {"error", "killed", "events"}

CallRecords ==
  [tool : Tools, user : Users \cup {None}, agent : Agents \cup {None}, args : Args,
   reply : Replies, cites : SUBSET Samples, llm : BOOLEAN, events : Seq(Event), seen : Nat]

\* The policy's answer, as each of the tools gives it.
Judged(c) ==
  /\ c.tool = "authz_check" =>
       /\ c.args \in Actions \X Probes
       /\ c.reply = Decision(c.user, c.args[1], {c.args[2]})
  /\ c.tool = "query_knowledge" =>
       /\ c.reply = "DENIED" <=> ~MayRead(c.user, c.args)
       /\ c.reply = "DENIED" => c.cites = {} /\ ~c.llm
  /\ c.tool = "assess_materials" =>
       /\ c.reply # "killed" /\ c.args # {} /\ c.args \subseteq Samples =>
            Decision(c.user, "query", {PathOf[a] : a \in c.args}) # "DENY"
       /\ c.cites # {} => c.reply # "killed" /\ c.args # {} /\ c.args \subseteq Samples

AllJudged == \A i \in DOMAIN calls : calls[i].user # None => Judged(calls[i])

CallsTyped == calls \in Seq(CallRecords) /\ Len(calls) <= MaxCalls

TrailTyped ==
  /\ grants \in GrantChoices /\ running \in BOOLEAN
  /\ trail \in Seq(Event) /\ Len(trail) \in 1 .. Len(calls) + 1

\* A call that an agent's name will be recorded for.
Acts(c) == c.agent # None /\ c.reply \notin {"error", "killed"}

EventOf(c) == [user |-> c.user.id, agent |-> c.agent, tool |-> c.tool, status |-> c.reply]

\* The agents' calls stand in the trail in their order, after the seed.
Recording ==
  /\ trail[1] = SeedEvent /\ Len(trail) = 1 + Cardinality(Acted(Len(calls)))
  /\ \A i \in Acted(Len(calls)) : trail[1 + Cardinality(Acted(i))] = EventOf(calls[i])

Listed(c) ==
  c.reply = "events" =>
    LET n == Len(c.events)
    IN  /\ c.args \in Nat /\ c.seen <= Len(trail)
        /\ n = IF c.args < c.seen THEN c.args ELSE c.seen
        /\ \A k \in 1 .. n : c.events[k] = trail[c.seen - n + k]

Listings == \A i \in DOMAIN calls : Listed(calls[i])

Inductive == CallsTyped /\ TrailTyped /\ AllJudged /\ Recording /\ Listings

LEMMA InitInductive ==
  ASSUME Init PROVE Inductive
<1>1. SeedEvent \in Event
  BY DEF SeedEvent, Event, Statuses
<1>2. trail = <<SeedEvent>> /\ calls = <<>> /\ grants \in GrantChoices /\ running = TRUE
  BY DEF Init
<1>3. Len(trail) = 1 /\ Len(calls) = 0 /\ trail[1] = SeedEvent /\ DOMAIN calls = {}
  BY <1>2
<1>4. CallsTyped
  BY <1>2, <1>3, McpServerAssumption DEF CallsTyped, McpServerAssumption
<1>5. TrailTyped
  BY <1>1, <1>2, <1>3 DEF TrailTyped
<1>6. Recording
  <2>1. Acted(Len(calls)) = {}
    BY <1>3 DEF Acted
  <2>2. Cardinality({}) = 0
    BY FS_EmptySet
  <2> QED
    BY <1>3, <2>1, <2>2 DEF Recording
<1>7. AllJudged /\ Listings
  BY <1>3 DEF AllJudged, Listings
<1> QED
  BY <1>4, <1>5, <1>6, <1>7 DEF Inductive

\* The agents' calls are numbered: their count grows by one with each.
LEMMA ActedCount ==
  ASSUME CallsTyped
  PROVE  /\ \A n \in Nat : IsFiniteSet(Acted(n)) /\ Cardinality(Acted(n)) \in Nat
         /\ \A n \in Nat : \A m \in 0 .. n : Cardinality(Acted(m)) <= Cardinality(Acted(n))
         /\ \A n \in Nat : \A i \in Acted(n) : i \in 1 .. n /\ Cardinality(Acted(i)) \in Nat \ {0}
<1>1. ASSUME NEW n \in Nat PROVE IsFiniteSet(Acted(n)) /\ Cardinality(Acted(n)) \in Nat
  <2>1. IsFiniteSet(1 .. n) /\ Acted(n) \subseteq 1 .. n
    BY FS_Interval DEF Acted
  <2> QED
    BY <2>1, FS_Subset, FS_CardinalityType
<1>2. ASSUME NEW n \in Nat, NEW m \in 0 .. n PROVE Cardinality(Acted(m)) <= Cardinality(Acted(n))
  <2>1. Acted(m) \subseteq Acted(n)
    BY DEF Acted
  <2> QED
    BY <1>1, <2>1, FS_Subset
<1>3. ASSUME NEW n \in Nat, NEW i \in Acted(n)
      PROVE  i \in 1 .. n /\ Cardinality(Acted(i)) \in Nat \ {0}
  <2>1. i \in 1 .. n /\ i \in Nat /\ i \in Acted(i)
    BY DEF Acted
  <2>2. IsFiniteSet(Acted(i)) /\ Cardinality(Acted(i)) \in Nat
    BY <1>1, <2>1
  <2>3. Cardinality(Acted(i)) # 0
    BY <2>1, <2>2, FS_EmptySet
  <2> QED
    BY <2>1, <2>2, <2>3
<1> QED
  BY <1>1, <1>2, <1>3
-----------------------------------------------------------------------------
(***************************************************************************)
(* A call that is answered keeps the invariant, whatever the tool.         *)
(***************************************************************************)
\* A call c is added, and its event if an agent made it and was answered.
Adds(c) ==
  /\ Len(calls) < MaxCalls /\ calls' = Append(calls, c) /\ grants' = grants /\ running' \in BOOLEAN
  /\ c \in CallRecords /\ c.seen = Len(trail)
  /\ trail' = IF Acts(c) THEN Append(trail, EventOf(c)) ELSE trail
  /\ Acts(c) => EventOf(c) \in Event

LEMMA AddsFacts ==
  ASSUME Inductive, NEW c, Adds(c)
  PROVE  /\ Len(calls) \in Nat /\ Len(calls') = Len(calls) + 1 /\ calls' \in Seq(CallRecords)
         /\ calls'[Len(calls) + 1] = c
         /\ \A i \in 1 .. Len(calls) : calls'[i] = calls[i]
         /\ DOMAIN calls = 1 .. Len(calls) /\ DOMAIN calls' = 1 .. Len(calls) + 1
         /\ Len(trail) \in Nat /\ trail' \in Seq(Event)
         /\ Len(trail') = IF Acts(c) THEN Len(trail) + 1 ELSE Len(trail)
         /\ \A i \in 1 .. Len(trail) : trail'[i] = trail[i]
         /\ Acts(c) => trail'[Len(trail) + 1] = EventOf(c)
  BY DEF Inductive, CallsTyped, TrailTyped, Adds

LEMMA AddsTyped ==
  ASSUME Inductive, NEW c, Adds(c)
  PROVE  CallsTyped' /\ TrailTyped'
<1>1. Len(calls') <= MaxCalls
  BY AddsFacts, McpServerAssumption DEF Adds, McpServerAssumption
<1>2. Len(trail) \in 1 .. Len(calls) + 1 /\ grants \in GrantChoices
  BY DEF Inductive, TrailTyped
<1>3. Len(trail') \in 1 .. Len(calls') + 1
  BY <1>2, AddsFacts
<1>4. CallsTyped'
  BY <1>1, AddsFacts DEF CallsTyped
<1>5. TrailTyped'
  BY <1>2, <1>3, AddsFacts DEF TrailTyped, Adds
<1> QED
  BY <1>4, <1>5

LEMMA AddsRecording ==
  ASSUME Inductive, NEW c, Adds(c)
  PROVE  Recording'
<1>1. PICK n \in Nat : n = Len(calls) /\ n + 1 = Len(calls')
  BY AddsFacts
<1>2. CallsTyped /\ Recording /\ CallsTyped'
  BY AddsTyped DEF Inductive
<1>3. \A m \in 0 .. n : Acted(m)' = Acted(m)
  BY <1>1, AddsFacts DEF Acted
<1>4. Acted(n + 1)' = Acted(n) \cup (IF Acts(c) THEN {n + 1} ELSE {})
  BY <1>1, AddsFacts DEF Acted, Acts
<1>5. /\ IsFiniteSet(Acted(n)) /\ n + 1 \notin Acted(n) /\ Cardinality(Acted(n)) \in Nat
      /\ Len(trail) = 1 + Cardinality(Acted(n))
  BY <1>1, <1>2, ActedCount DEF Recording
<1>6. Cardinality(Acted(n + 1)') = IF Acts(c) THEN Cardinality(Acted(n)) + 1 ELSE Cardinality(Acted(n))
  <2>1. CASE Acts(c)
    BY <1>4, <1>5, <2>1, FS_AddElement
  <2>2. CASE ~Acts(c)
    BY <1>4, <2>2
  <2> QED
    BY <2>1, <2>2
<1>7. Len(trail') = 1 + Cardinality(Acted(n + 1)')
  BY <1>5, <1>6, AddsFacts
<1>8. ASSUME NEW i \in Acted(n + 1)'
      PROVE  trail'[1 + Cardinality(Acted(i)')] = EventOf(calls'[i])
  <2>1. CASE i \in Acted(n)
    <3>1. /\ i \in 1 .. n /\ Cardinality(Acted(i)) \in Nat \ {0}
          /\ Cardinality(Acted(i)) <= Cardinality(Acted(n))
      BY <1>2, <2>1, ActedCount
    <3>2. trail[1 + Cardinality(Acted(i))] = EventOf(calls[i])
      BY <1>1, <1>2, <2>1 DEF Recording
    <3>3. Acted(i)' = Acted(i) /\ calls'[i] = calls[i]
      BY <1>1, <1>3, <3>1, AddsFacts
    <3>4. trail'[1 + Cardinality(Acted(i))] = trail[1 + Cardinality(Acted(i))]
      BY <1>5, <3>1, AddsFacts
    <3> QED
      BY <3>2, <3>3, <3>4
  <2>2. CASE Acts(c) /\ i = n + 1
    <3>1. 1 + Cardinality(Acted(i)') = Len(trail) + 1
      BY <1>5, <1>6, <2>2
    <3>2. calls'[i] = c
      BY <1>1, <2>2, AddsFacts
    <3> QED
      BY <2>2, <3>1, <3>2, AddsFacts
  <2> QED
    BY <1>4, <2>1, <2>2
<1>9. trail'[1] = SeedEvent
  <2>1. trail[1] = SeedEvent /\ Len(trail) >= 1
    BY <1>2 DEF Recording, Inductive, TrailTyped
  <2> QED
    BY <2>1, AddsFacts
<1> QED
  BY <1>1, <1>7, <1>8, <1>9 DEF Recording, EventOf

LEMMA AddsJudged ==
  ASSUME Inductive, NEW c, Adds(c), c.user # None => Judged(c)
  PROVE  AllJudged'
<1>1. \A d : Judged(d) => Judged(d)'
  BY DEF Adds, Judged, MayRead, Decision
<1>2. ASSUME NEW i \in DOMAIN calls', NEW d, d = calls'[i], d.user # None
      PROVE  Judged(d)'
  <2>1. CASE i = Len(calls) + 1
    BY <1>1, <1>2, <2>1, AddsFacts
  <2>2. CASE i \in DOMAIN calls
    <3>1. Judged(d)
      BY <1>2, <2>2, AddsFacts DEF Inductive, AllJudged
    <3> QED
      BY <1>1, <3>1
  <2> QED
    BY <2>1, <2>2, AddsFacts
<1>3. \A i \in DOMAIN calls' : \A d : d = calls'[i] /\ d.user # None => Judged(d)'
  BY <1>2
<1> QED
  BY <1>3 DEF AllJudged, Judged, MayRead, Decision

LEMMA AddsListings ==
  ASSUME Inductive, NEW c, Adds(c), Listed(c)
  PROVE  Listings'
<1>1. ASSUME NEW d \in CallRecords, Listed(d) PROVE Listed(d)'
  <2> SUFFICES ASSUME d.reply = "events" PROVE Listed(d)'
    BY DEF Listed
  <2> DEFINE n == Len(d.events)
  <2>1. /\ d.args \in Nat /\ d.seen <= Len(trail) /\ d.seen \in Nat
        /\ n = IF d.args < d.seen THEN d.args ELSE d.seen
        /\ \A k \in 1 .. n : d.events[k] = trail[d.seen - n + k]
    BY <1>1 DEF Listed, CallRecords
  <2>2. d.seen <= Len(trail')
    BY <2>1, AddsFacts
  <2>3. ASSUME NEW k \in 1 .. n PROVE d.events[k] = trail'[d.seen - n + k]
    <3>1. d.seen - n + k \in 1 .. Len(trail)
      BY <2>1, AddsFacts
    <3> QED
      BY <2>1, <3>1, AddsFacts
  <2> QED
    BY <2>1, <2>2, <2>3 DEF Listed
<1>2. ASSUME NEW i \in DOMAIN calls', NEW d, d = calls'[i] PROVE Listed(d)'
  <2>1. CASE i = Len(calls) + 1
    <3>1. d = c /\ c \in CallRecords
      BY <1>2, <2>1, AddsFacts DEF Adds
    <3> QED
      BY <1>1, <3>1
  <2>2. CASE i \in DOMAIN calls
    <3>1. d \in CallRecords /\ Listed(d)
      BY <1>2, <2>2, AddsFacts DEF Inductive, Listings, CallsTyped
    <3> QED
      BY <1>1, <3>1
  <2> QED
    BY <2>1, <2>2, AddsFacts
<1>3. \A i \in DOMAIN calls' : \A d : d = calls'[i] => Listed(d)'
  BY <1>2
<1> QED
  BY <1>3 DEF Listings, Listed

LEMMA AddsInductive ==
  ASSUME Inductive, NEW c, Adds(c), c.user # None => Judged(c), Listed(c)
  PROVE  Inductive'
BY AddsTyped, AddsRecording, AddsJudged, AddsListings DEF Inductive
-----------------------------------------------------------------------------
(***************************************************************************)
(* Each message adds one such call.                                        *)
(***************************************************************************)
\* What a call is before it is answered.
LEMMA CallTyped ==
  ASSUME Inductive, NEW tool \in Tools, NEW user \in Users \cup {None},
         NEW agent \in Agents \cup {None}, NEW args \in Args
  PROVE  /\ Call(tool, user, agent, args) \in CallRecords
         /\ Len(trail) \in Nat
<1>1. Len(trail) \in Nat
  BY DEF Inductive, TrailTyped
<1>2. <<>> \in Seq(Event) /\ {} \in SUBSET Samples /\ "error" \in Replies
  BY DEF Replies
<1> QED
  BY <1>1, <1>2 DEF Call, CallRecords

\* An answered call with a status: its event is recorded if an agent made it.
LEMMA DoneAdds ==
  ASSUME Inductive, Ready, NEW c \in CallRecords, c.seen = Len(trail), c.reply \in Statuses,
         c.user \in Users, Done(c), Judged(c)
  PROVE  Inductive'
<1>1. c.reply \notin {"error", "killed", "events"}
  BY DEF Statuses
<1>2. EventOf(c) \in Event
  BY DEF EventOf, Event, CallRecords
<1>3. running' \in BOOLEAN
  BY DEF Done, Inductive, TrailTyped
<1>4. trail' = IF Acts(c) THEN Append(trail, EventOf(c)) ELSE trail
  BY <1>1 DEF Acts, EventOf, Done, Recorded
<1>5. Adds(c)
  BY <1>2, <1>3, <1>4 DEF Adds, Done, Answered, Ready
<1> QED
  BY <1>1, <1>5, AddsInductive DEF Listed

\* A call without an answer changes nothing but what was asked.
LEMMA UnansweredAdds ==
  ASSUME Inductive, Ready, NEW c \in CallRecords, c.seen = Len(trail), c.reply \in {"error", "killed"},
         Answered(c), running' \in BOOLEAN, UNCHANGED <<grants, trail>>,
         c.user # None => Judged(c)
  PROVE  Inductive'
<1>1. ~Acts(c)
  BY DEF Acts
<1>2. Adds(c)
  BY <1>1 DEF Adds, Answered, Ready
<1> QED
  BY <1>2, AddsInductive DEF Listed

LEMMA BadCallKeeps ==
  ASSUME Inductive, BadCall PROVE Inductive'
<1>1. PICK tool \in Tools, agent \in Agents \cup {None} : Refused(Call(tool, None, agent, {}))
  BY DEF BadCall
<1>2. PICK c : c = Call(tool, None, agent, {})
  OBVIOUS
<1>3. {} \in Args
  BY DEF Args
<1>4. c \in CallRecords
  BY <1>2, <1>3, CallTyped
<1>5. c.seen = Len(trail) /\ c.reply = "error" /\ c.user = None
  BY <1>2 DEF Call
<1>6. Ready /\ Answered(c) /\ running' \in BOOLEAN /\ UNCHANGED <<grants, trail>>
  BY <1>1, <1>2 DEF BadCall, Refused, Inductive, TrailTyped
<1> QED
  BY <1>4, <1>5, <1>6, UnansweredAdds

LEMMA AuthzCheckKeeps ==
  ASSUME Inductive, AuthzCheck PROVE Inductive'
<1>1. PICK user \in Users, agent \in Agents \cup {None}, action \in Actions, path \in Probes :
        Done([Call("authz_check", user, agent, <<action, path>>) EXCEPT
                !.reply = Decision(user, action, {path})])
  BY DEF AuthzCheck
<1>2. PICK args, reply, call, c :
        /\ args = <<action, path>> /\ reply = Decision(user, action, {path})
        /\ call = Call("authz_check", user, agent, args) /\ c = [call EXCEPT !.reply = reply]
  OBVIOUS
<1>3. args \in Args /\ args \in Actions \X Probes /\ "authz_check" \in Tools /\ Ready
  BY <1>2 DEF Args, Tools, AuthzCheck
<1>4. reply \in Statuses /\ reply \in Replies /\ reply = Decision(user, action, {path})
  BY <1>2, DecisionTyped DEF Decisions, Statuses, Replies
<1>5. call \in CallRecords
  BY <1>2, <1>3, CallTyped
<1>6. /\ c \in CallRecords /\ c.seen = Len(trail) /\ c.reply = reply
      /\ c.tool = "authz_check" /\ c.user = user /\ c.args = args
  BY <1>2, <1>4, <1>5 DEF Call, CallRecords
<1>7. Judged(c)
  <2>1. c.args[1] = action /\ c.args[2] = path /\ c.args \in Actions \X Probes
    BY <1>2, <1>3, <1>6
  <2>2. c.reply = Decision(c.user, c.args[1], {c.args[2]})
    BY <1>4, <1>6, <2>1
  <2> QED
    BY <1>6, <2>1, <2>2 DEF Judged
<1>8. Done(c)
  BY <1>1, <1>2
<1> QED
  BY <1>3, <1>4, <1>6, <1>7, <1>8, DoneAdds

\* A query is answered with one of three statuses.
AsksOnlyToRead(user, a, call) ==
  IF ~MayRead(user, a)
  THEN Done([call EXCEPT !.reply = "DENIED"])
  ELSE \/ \E llm \in BOOLEAN : Done([call EXCEPT !.reply = "REFUSED", !.llm = llm])
       \/ Done([call EXCEPT !.reply = "ANSWERED", !.llm = TRUE, !.cites = {a}])

LEMMA QueryAnswers ==
  ASSUME NEW user, NEW agent, NEW a, NEW call, call = Call("query_knowledge", user, agent, a),
         call \in CallRecords, AsksOnlyToRead(user, a, call)
  PROVE  \E reply \in Statuses, llm \in BOOLEAN, cites \in SUBSET Samples :
           /\ Done([call EXCEPT !.reply = reply, !.llm = llm, !.cites = cites])
           /\ reply = "DENIED" <=> ~MayRead(user, a)
           /\ reply = "DENIED" => cites = {} /\ ~llm
<1>1. /\ [call EXCEPT !.reply = "DENIED"]
           = [call EXCEPT !.reply = "DENIED", !.llm = FALSE, !.cites = {}]
      /\ \A llm \in BOOLEAN :
           [call EXCEPT !.reply = "REFUSED", !.llm = llm]
             = [call EXCEPT !.reply = "REFUSED", !.llm = llm, !.cites = {}]
  <2>0. call.llm = FALSE /\ call.cites = {}
    BY DEF Call
  <2>1. [call EXCEPT !.reply = "DENIED"]
          = [call EXCEPT !.reply = "DENIED", !.llm = FALSE, !.cites = {}]
    BY <2>0 DEF CallRecords
  <2>2. ASSUME NEW llm \in BOOLEAN
        PROVE  [call EXCEPT !.reply = "REFUSED", !.llm = llm]
                 = [call EXCEPT !.reply = "REFUSED", !.llm = llm, !.cites = {}]
    BY <2>0 DEF CallRecords
  <2> QED
    BY <2>1, <2>2
<1> {"DENIED", "REFUSED", "ANSWERED"} \subseteq Statuses
  BY DEF Statuses
<1>2. CASE ~MayRead(user, a)
  <2>1. Done([call EXCEPT !.reply = "DENIED", !.llm = FALSE, !.cites = {}])
    BY <1>1, <1>2 DEF AsksOnlyToRead
  <2> WITNESS "DENIED" \in Statuses, FALSE \in BOOLEAN, {} \in SUBSET Samples
  <2> QED
    BY <1>2, <2>1
<1>3. ASSUME MayRead(user, a), NEW llm \in BOOLEAN, Done([call EXCEPT !.reply = "REFUSED", !.llm = llm])
      PROVE  \E reply \in Statuses, lm \in BOOLEAN, cites \in SUBSET Samples :
               /\ Done([call EXCEPT !.reply = reply, !.llm = lm, !.cites = cites])
               /\ reply = "DENIED" <=> ~MayRead(user, a)
               /\ reply = "DENIED" => cites = {} /\ ~lm
  <2>1. Done([call EXCEPT !.reply = "REFUSED", !.llm = llm, !.cites = {}])
    BY <1>1, <1>3
  <2> WITNESS "REFUSED" \in Statuses, llm \in BOOLEAN, {} \in SUBSET Samples
  <2> QED
    BY <1>3, <2>1
<1>4. CASE MayRead(user, a) /\ Done([call EXCEPT !.reply = "ANSWERED", !.llm = TRUE, !.cites = {a}])
  <2> {a} \in SUBSET Samples
    BY <1>4 DEF MayRead
  <2> WITNESS "ANSWERED" \in Statuses, TRUE \in BOOLEAN, {a} \in SUBSET Samples
  <2> QED
    BY <1>4
<1> QED
  BY <1>2, <1>3, <1>4 DEF AsksOnlyToRead

LEMMA QueryKnowledgeKeeps ==
  ASSUME Inductive, QueryKnowledge PROVE Inductive'
<1>1. PICK user \in Users, agent \in Agents \cup {None}, a \in Samples \cup Idle \cup Unknown :
        LET call == Call("query_knowledge", user, agent, a)
        IN  IF ~MayRead(user, a)
            THEN Done([call EXCEPT !.reply = "DENIED"])
            ELSE \/ \E llm \in BOOLEAN : Done([call EXCEPT !.reply = "REFUSED", !.llm = llm])
                 \/ Done([call EXCEPT !.reply = "ANSWERED", !.llm = TRUE, !.cites = {a}])
  BY DEF QueryKnowledge
<1>2. PICK call : call = Call("query_knowledge", user, agent, a)
  OBVIOUS
<1>3. a \in Args /\ "query_knowledge" \in Tools /\ Statuses \subseteq Replies /\ Ready
  BY DEF Args, Tools, Replies, QueryKnowledge
<1>4. call \in CallRecords
  BY <1>2, <1>3, CallTyped
<1>5. /\ call.tool = "query_knowledge" /\ call.user = user /\ call.args = a
      /\ call.llm = FALSE /\ call.cites = {} /\ call.events = <<>> /\ call.seen = Len(trail)
  BY <1>2 DEF Call
<1>6. PICK reply \in Statuses, llm \in BOOLEAN, cites \in SUBSET Samples :
        /\ Done([call EXCEPT !.reply = reply, !.llm = llm, !.cites = cites])
        /\ reply = "DENIED" <=> ~MayRead(user, a)
        /\ reply = "DENIED" => cites = {} /\ ~llm
  <2>1. AsksOnlyToRead(user, a, call)
    BY <1>1, <1>2 DEF AsksOnlyToRead
  <2> QED
    BY <1>2, <1>4, <2>1, QueryAnswers
<1>7. PICK c : c = [call EXCEPT !.reply = reply, !.llm = llm, !.cites = cites]
  OBVIOUS
<1>8. /\ c \in CallRecords /\ c.seen = Len(trail) /\ c.tool = "query_knowledge" /\ c.user = user
      /\ c.args = a /\ c.reply = reply /\ c.llm = llm /\ c.cites = cites
  BY <1>3, <1>4, <1>5, <1>7 DEF CallRecords
<1>9. Judged(c)
  BY <1>6, <1>8 DEF Judged
<1> QED
  BY <1>3, <1>6, <1>7, <1>8, <1>9, DoneAdds

LEMMA AssessMaterialsKeeps ==
  ASSUME Inductive, AssessMaterials PROVE Inductive'
<1>1. PICK user \in Users, agent \in Agents \cup {None}, A \in Requested :
        LET call   == Call("assess_materials", user, agent, A)
            result == ScoreMatches(Banks[Assessed], Facts(A))
        IN  \/ /\ A = {} \/ ~(A \subseteq Samples)
               /\ Refused(call)
            \/ /\ A # {} /\ A \subseteq Samples
               /\ IF Decision(user, "query", {PathOf[a] : a \in A}) = "DENY"
                  THEN Killed(call)
                  ELSE \/ SourceFails(call)
                       \/ Done([call EXCEPT !.reply = result.level,
                                            !.cites = {c.asset : c \in result.cites}])
  BY DEF AssessMaterials
<1>2. PICK call, level, cites, denied :
        /\ call = Call("assess_materials", user, agent, A)
        /\ level = ScoreMatches(Banks[Assessed], Facts(A)).level
        /\ cites = {c.asset : c \in ScoreMatches(Banks[Assessed], Facts(A)).cites}
        /\ denied = (Decision(user, "query", {PathOf[a] : a \in A}) = "DENY")
  OBVIOUS
<1>3. A \in Args /\ "assess_materials" \in Tools /\ Ready /\ running \in BOOLEAN
  BY DEF Args, Tools, AssessMaterials, Inductive, TrailTyped
<1>4. call \in CallRecords
  BY <1>2, <1>3, CallTyped
<1>5. /\ call.tool = "assess_materials" /\ call.user = user /\ call.args = A
      /\ call.reply = "error" /\ call.cites = {} /\ call.seen = Len(trail)
  BY <1>2 DEF Call
<1>6. CASE (A = {} \/ ~(A \subseteq Samples) \/ ~denied) /\ Refused(call)
  <2>1. Judged(call)
    BY <1>2, <1>5, <1>6 DEF Judged
  <2> QED
    BY <1>3, <1>4, <1>5, <1>6, <2>1, UnansweredAdds DEF Refused
<1>7. CASE Killed(call)
  <2>1. PICK c : c = [call EXCEPT !.reply = "killed"]
    OBVIOUS
  <2>2. /\ c \in CallRecords /\ c.tool = "assess_materials" /\ c.user = user /\ c.args = A
        /\ c.reply = "killed" /\ c.cites = {} /\ c.seen = Len(trail)
    BY <1>4, <1>5, <2>1 DEF CallRecords, Replies
  <2>3. Judged(c)
    BY <2>2 DEF Judged
  <2>4. Answered(c) /\ running' = FALSE /\ UNCHANGED <<grants, trail>>
    BY <1>7, <2>1 DEF Killed
  <2> QED
    BY <1>3, <2>2, <2>3, <2>4, UnansweredAdds
<1>8. CASE /\ A # {} /\ A \subseteq Samples /\ ~denied
           /\ Done([call EXCEPT !.reply = level, !.cites = cites])
  <2>1. PICK c : c = [call EXCEPT !.reply = level, !.cites = cites]
    OBVIOUS
  <2>2. level \in Statuses /\ level \in Replies /\ cites \in SUBSET Samples /\ level # "killed"
    BY <1>2, <1>8, ResultTyped DEF Levels, Statuses, Replies
  <2>3. /\ c \in CallRecords /\ c.tool = "assess_materials" /\ c.user = user /\ c.args = A
        /\ c.reply = level /\ c.cites = cites /\ c.seen = Len(trail)
    BY <1>4, <1>5, <2>1, <2>2 DEF CallRecords
  <2>4. Judged(c)
    BY <1>2, <1>8, <2>2, <2>3 DEF Judged
  <2> QED
    BY <1>3, <1>8, <2>1, <2>2, <2>3, <2>4, DoneAdds
<1> QED
  BY <1>1, <1>2, <1>6, <1>7, <1>8 DEF SourceFails

\* The end of the trail has as many events as it was asked for, or all.
LEMMA LastEvents ==
  ASSUME trail \in Seq(Event), NEW limit \in Nat, limit # 0
  PROVE  \E n \in 0 .. Len(trail) :
           /\ n = IF limit < Len(trail) THEN limit ELSE Len(trail)
           /\ Last(limit) \in Seq(Event) /\ Len(Last(limit)) = n
           /\ \A k \in 1 .. n : Last(limit)[k] = trail[Len(trail) - n + k]
<1>1. PICK len \in Nat : len = Len(trail)
  OBVIOUS
<1>2. PICK n \in 0 .. len : n = IF limit < len THEN limit ELSE len
  <2>1. CASE limit < len
    BY <2>1
  <2>2. CASE ~(limit < len)
    BY <2>2
  <2> QED
    BY <2>1, <2>2
<1>3. PICK m \in Int : m = len - n + 1
  OBVIOUS
<1>4. Last(limit) = SubSeq(trail, m, len)
  <2>1. CASE limit > len
    <3>1. n = len /\ m = 1
      BY <1>2, <1>3, <2>1
    <3> QED
      BY <1>1, <2>1, <3>1 DEF Last
  <2>2. CASE ~(limit > len)
    <3>1. n = limit
      BY <1>2, <2>2
    <3> QED
      BY <1>1, <1>3, <2>2, <3>1 DEF Last
  <2> QED
    BY <2>1, <2>2
<1>5. \A k \in m .. len : trail[k] \in Event
  BY <1>1, <1>2, <1>3
<1>6. /\ SubSeq(trail, m, len) \in Seq(Event)
      /\ Len(SubSeq(trail, m, len)) = IF m <= len THEN len - m + 1 ELSE 0
      /\ \A k \in 1 .. len - m + 1 : SubSeq(trail, m, len)[k] = trail[m + k - 1]
  BY <1>5, SubSeqProperties
<1>7. len - m + 1 = n /\ (IF m <= len THEN len - m + 1 ELSE 0) = n
  BY <1>2, <1>3
<1>8. \A k \in 1 .. n : m + k - 1 = len - n + k
  BY <1>2, <1>3
<1>9. /\ Last(limit) \in Seq(Event) /\ Len(Last(limit)) = n
      /\ \A k \in 1 .. n : Last(limit)[k] = trail[len - n + k]
  BY <1>4, <1>6, <1>7, <1>8
<1> QED
  BY <1>1, <1>2, <1>9

\* A listing shows what the trail ends with.
LEMMA ListingKeeps ==
  ASSUME Inductive, ListAuditEvents PROVE Inductive'
<1>1. PICK limit \in Limits :
        LET call == Call("list_audit_events", None, None, limit)
        IN  IF limit = 0
            THEN Refused(call)
            ELSE /\ Answered([call EXCEPT !.reply = "events", !.events = Last(limit)])
                 /\ UNCHANGED <<grants, trail, running>>
  BY DEF ListAuditEvents
<1>2. PICK call, c : /\ call = Call("list_audit_events", None, None, limit)
                     /\ c = [call EXCEPT !.reply = "events", !.events = Last(limit)]
  OBVIOUS
<1>3. limit \in Args /\ limit \in Nat /\ "list_audit_events" \in Tools /\ Ready /\ running \in BOOLEAN
  BY McpServerAssumption
  DEF Args, Tools, ListAuditEvents, Inductive, TrailTyped, McpServerAssumption
<1>4. call \in CallRecords
  BY <1>2, <1>3, CallTyped
<1>5. /\ call.user = None /\ call.agent = None /\ call.seen = Len(trail) /\ call.args = limit
      /\ call.reply = "error"
  BY <1>2 DEF Call
<1>6. CASE Refused(call)
  BY <1>3, <1>4, <1>5, <1>6, UnansweredAdds DEF Refused
<1>7. CASE limit # 0 /\ Answered(c) /\ UNCHANGED <<grants, trail, running>>
  <2>1. trail \in Seq(Event) /\ Len(trail) \in Nat
    BY DEF Inductive, TrailTyped
  <2>2. PICK n \in 0 .. Len(trail) :
          /\ n = IF limit < Len(trail) THEN limit ELSE Len(trail)
          /\ Last(limit) \in Seq(Event) /\ Len(Last(limit)) = n
          /\ \A k \in 1 .. n : Last(limit)[k] = trail[Len(trail) - n + k]
    BY <1>3, <1>7, <2>1, LastEvents
  <2>4. /\ c \in CallRecords /\ c.seen = Len(trail) /\ c.args = limit /\ c.agent = None
        /\ c.user = None /\ c.reply = "events" /\ c.events = Last(limit)
    <3>1. "events" \in Replies
      BY DEF Replies
    <3>2. PICK events \in Seq(Event) : events = Last(limit)
      BY <2>2
    <3>3. c = [call EXCEPT !.reply = "events", !.events = events]
      BY <1>2, <3>2
    <3> QED
      BY <1>4, <1>5, <3>1, <3>2, <3>3 DEF CallRecords
  <2>5. Listed(c)
    <3>1. Len(c.events) = n /\ n = (IF c.args < c.seen THEN c.args ELSE c.seen)
      BY <2>2, <2>4
    <3>2. c.args \in Nat /\ c.seen <= Len(trail)
      BY <1>3, <2>1, <2>4
    <3>3. \A k \in 1 .. n : c.events[k] = trail[c.seen - n + k]
      BY <2>2, <2>4
    <3> QED
      BY <3>1, <3>2, <3>3 DEF Listed
  <2>6. Adds(c)
    BY <1>3, <1>7, <2>4 DEF Adds, Acts, Answered, Ready
  <2> QED
    BY <2>4, <2>5, <2>6, AddsInductive
<1> QED
  BY <1>1, <1>2, <1>6, <1>7

LEMMA NextInductive ==
  ASSUME Inductive, [Next]_vars PROVE Inductive'
<1>1. CASE UNCHANGED vars
  <2>1. CallsTyped' /\ TrailTyped'
    BY <1>1 DEF vars, Inductive, CallsTyped, TrailTyped
  <2>2. AllJudged'
    BY <1>1 DEF vars, Inductive, AllJudged, Judged, MayRead, Decision
  <2>3. Recording'
    BY <1>1 DEF vars, Inductive, Recording, Acted, EventOf
  <2>4. Listings'
    BY <1>1 DEF vars, Inductive, Listings, Listed
  <2> QED
    BY <2>1, <2>2, <2>3, <2>4 DEF Inductive
<1> QED
  BY <1>1, BadCallKeeps, AuthzCheckKeeps, QueryKnowledgeKeeps, AssessMaterialsKeeps, ListingKeeps
  DEF Next
-----------------------------------------------------------------------------
\* What every call was answered follows from the grants, and the trail from the calls.
THEOREM InductiveInvariant == Spec => []Inductive
<1> QED
  BY InitInductive, NextInductive, PTL DEF Spec

\* Grants, trail, loop and calls keep their types, for any grants and number of calls.
THEOREM TypeCorrect == Spec => []TypeOK
<1>1. ASSUME Inductive PROVE TypeOK
  <2>1. /\ calls \in Seq(CallRecords) /\ Len(calls) <= MaxCalls /\ Len(calls) \in Nat
        /\ MaxCalls \in Nat /\ Len(trail) \in 1 .. Len(calls) + 1
    BY <1>1, McpServerAssumption DEF Inductive, CallsTyped, TrailTyped, McpServerAssumption
  <2>2. \A i \in DOMAIN calls : calls[i] \in CallRecords
    BY <2>1
  <2>3. \A i \in DOMAIN calls :
          /\ calls[i].tool \in Tools /\ calls[i].agent \in Agents \cup {None}
          /\ calls[i].reply \in Statuses \cup {"error", "killed", "events"}
          /\ calls[i].llm \in BOOLEAN
    BY <2>2 DEF CallRecords, Replies
  <2>4. Len(trail) <= MaxCalls + 1
    BY <2>1
  <2> QED
    BY <1>1, <2>1, <2>3, <2>4 DEF Inductive, TrailTyped, TypeOK
<1> QED
  BY <1>1, InductiveInvariant, PTL

\* What authz_check told of a path, however it is spelled, is what query_knowledge and
\* assess_materials did with the asset there, before and after (mcp_server.py:130).
THEOREM ChecksPredictUse == Spec => []CheckAgreesWithUse
<1>1. ASSUME Inductive PROVE CheckAgreesWithUse
  <2> SUFFICES ASSUME NEW i \in Of("authz_check"), NEW s \in Samples,
                      NEW user, user = calls[i].user, NEW path, path = calls[i].args[2],
                      calls[i].args[1] = "query", Valid(path), Normalize(path) = Normalize(PathOf[s])
               PROVE  /\ \A j \in Of("query_knowledge") :
                           calls[j].user = user /\ calls[j].args = s =>
                             /\ calls[i].reply = "DENY" <=> calls[j].reply = "DENIED"
                             /\ calls[i].reply = "DENY" => calls[j].cites = {} /\ ~calls[j].llm
                      /\ \A j \in Of("assess_materials") :
                           calls[j].user = user /\ s \in calls[j].args =>
                             /\ calls[i].reply = "DENY" => calls[j].cites = {}
                             /\ calls[i].reply = "DENY" /\ calls[j].args \subseteq Samples =>
                                  calls[j].reply = "killed"
    BY DEF CheckAgreesWithUse
  <2>1. \A tool \in Tools : \A j \in Of(tool) : calls[j].tool = tool /\ Judged(calls[j])
    BY <1>1 DEF Inductive, AllJudged, Of
  <2>2. /\ Judged(calls[i]) /\ calls[i].tool = "authz_check"
        /\ \A j \in Of("query_knowledge") : Judged(calls[j]) /\ calls[j].tool = "query_knowledge"
        /\ \A j \in Of("assess_materials") : Judged(calls[j]) /\ calls[j].tool = "assess_materials"
    BY <2>1 DEF Tools
  <2>3. calls[i].reply = "DENY" <=> Decision(user, "query", {PathOf[s]}) = "DENY"
    <3>1. calls[i].reply = "DENY" <=> Decision(user, "query", {path}) = "DENY"
      BY <2>2 DEF Judged
    <3>2. Valid(PathOf[s])
      BY McpServerAssumption DEF McpServerAssumption
    <3> QED
      BY <3>1, <3>2, SpelledAlike
  <2>4. ASSUME NEW j \in Of("query_knowledge"), calls[j].user = user, calls[j].args = s
        PROVE  /\ calls[i].reply = "DENY" <=> calls[j].reply = "DENIED"
               /\ calls[i].reply = "DENY" => calls[j].cites = {} /\ ~calls[j].llm
    <3>1. Judged(calls[j]) /\ calls[j].tool = "query_knowledge"
      BY <2>2
    <3>2. calls[j].reply = "DENIED" <=> Decision(user, "query", {PathOf[s]}) = "DENY"
      BY <2>4, <3>1 DEF Judged, MayRead
    <3>3. calls[j].reply = "DENIED" => calls[j].cites = {} /\ ~calls[j].llm
      BY <3>1 DEF Judged
    <3> QED
      BY <2>3, <3>2, <3>3
  <2>5. ASSUME NEW j \in Of("assess_materials"), calls[j].user = user, s \in calls[j].args
        PROVE  /\ calls[i].reply = "DENY" => calls[j].cites = {}
               /\ calls[i].reply = "DENY" /\ calls[j].args \subseteq Samples =>
                    calls[j].reply = "killed"
    <3>1. Judged(calls[j]) /\ calls[j].tool = "assess_materials" /\ calls[j].args # {}
      BY <2>2, <2>5
    <3>2. PathOf[s] \in {PathOf[a] : a \in calls[j].args}
      BY <2>5
    <3>3. calls[j].reply # "killed" /\ calls[j].args \subseteq Samples => calls[i].reply # "DENY"
      <4>1. calls[j].reply # "killed" /\ calls[j].args \subseteq Samples =>
              Decision(user, "query", {PathOf[a] : a \in calls[j].args}) # "DENY"
        BY <2>5, <3>1 DEF Judged
      <4> QED
        BY <2>3, <3>2, <4>1, EachIsGranted, OnePathGranted
    <3>4. calls[j].cites # {} => calls[j].reply # "killed" /\ calls[j].args \subseteq Samples
      BY <3>1 DEF Judged
    <3> QED
      BY <3>3, <3>4
  <2> QED
    BY <2>4, <2>5
<1> QED
  BY <1>1, InductiveInvariant, PTL

\* The audit trail is the seed and then each agent's answered call once, in their order,
\* and a listing is the end of the trail as it was (_record_agent_action).
THEOREM TrailIsComplete == Spec => []TrailIsTheAgentsCalls
<1>1. Inductive => TrailIsTheAgentsCalls
  BY DEF Inductive, Recording, EventOf, Listings, Listed, TrailIsTheAgentsCalls
<1> QED
  BY <1>1, InductiveInvariant, PTL
=============================================================================
