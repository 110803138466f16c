------------------------------ MODULE McpServer ------------------------------
(***************************************************************************)
(* The MCP server: one process that reads messages from its standard input *)
(* one after another, each handled to its end by handle_message before the *)
(* next.  Its repository is seeded at start and changed by nothing but the *)
(* audit events of the calls that agents make.                             *)
(*                                                                         *)
(* Messages that are no tool call change nothing and are left out.         *)
(***************************************************************************)
EXTENDS Naturals, Sequences, FiniteSets, Policy, Matching

CONSTANTS
  Users,         \* demo identities, as actors of Policy
  Agents,        \* names of agents
  Samples,       \* seeded assets with a ready active version
  Idle,          \* assets without one
  Unknown,       \* asset ids that do not exist
  Requested,     \* the lists of asset ids that assess_materials is called with
  PathOf,        \* [Samples -> paths]
  Key,           \* [Samples -> material keys]
  Banks,         \* the fixture's rules
  Assessed,      \* index of the assessed rule
  GrantChoices,  \* the sets of grants a repository may be seeded with
  Actions,       \* actions authz_check is asked about
  Probes,        \* paths it is asked about, as they are spelled
  Limits,        \* limits list_audit_events is asked for
  MaxCalls,      \* calls of a run
  None

\* The paths of the import manifest are relative and without "..".
ASSUME McpServerAssumption ==
  /\ PathOf \in [Samples -> {PathOf[s] : s \in Samples}]
  /\ \A s \in Samples : Valid(PathOf[s])
  /\ Assessed \in DOMAIN Banks
  /\ Limits \subseteq Nat /\ MaxCalls \in Nat
  /\ \A A \in Requested : A \subseteq Samples \cup Idle \cup Unknown

VARIABLES
  grants,    \* permission_grants
  trail,     \* audit events, oldest first
  running,   \* the stdio loop runs
  calls      \* history: the calls with what they were answered, in order

vars == <<grants, trail, running, calls>>

Tools == {"authz_check", "assess_materials", "query_knowledge", "list_audit_events"}

SeedEvent == [user |-> None, agent |-> None, tool |-> None, status |-> "seeded"]

Statuses == {"seeded", "DENY", "DIRECT", "SELF_CONFIRM", "APPROVAL_REQUIRED", "MATCH", "POSSIBLE",
             "MISSING_INFO", "DENIED", "REFUSED", "ANSWERED"}

Event == [user : {u.id : u \in Users} \cup {None}, agent : Agents \cup {None},
          tool : Tools \cup {None}, status : Statuses]

TypeOK ==
  /\ grants \in GrantChoices
  /\ trail \in Seq(Event) /\ Len(trail) <= MaxCalls + 1
  /\ running \in BOOLEAN
  /\ Len(calls) <= MaxCalls
  /\ \A i \in DOMAIN calls :
       /\ calls[i].tool \in Tools /\ calls[i].agent \in Agents \cup {None}
       /\ calls[i].reply \in Statuses \cup {"error", "killed", "events"}
       /\ calls[i].llm \in BOOLEAN

Init ==
  /\ grants \in GrantChoices
  /\ trail = <<SeedEvent>>
  /\ running = TRUE
  /\ calls = <<>>
-----------------------------------------------------------------------------
Call(tool, user, agent, args) ==
  [tool |-> tool, user |-> user, agent |-> agent, args |-> args,
   reply |-> "error", cites |-> {}, llm |-> FALSE, events |-> <<>>, seen |-> Len(trail)]

Ready == running /\ Len(calls) < MaxCalls

Answered(call) == calls' = Append(calls, call)

\* A ValueError, LookupError or KeyError becomes an error answer.
Refused(call) == Answered(call) /\ UNCHANGED <<grants, trail, running>>

\* Any other exception leaves handle_message and ends the loop, without an answer.
Killed(call) ==
  /\ Answered([call EXCEPT !.reply = "killed"])
  /\ running' = FALSE
  /\ UNCHANGED <<grants, trail>>

\* _record_agent_action: what an agent did, under its name and its user's.
Recorded_Always(call) ==
  trail' = Append(trail, [user |-> call.user.id, agent |-> call.agent,
                          tool |-> call.tool, status |-> call.reply])

Recorded(call) ==
  trail' = IF call.agent = None THEN trail
           ELSE Append(trail, [user |-> call.user.id, agent |-> call.agent,
                               tool |-> call.tool, status |-> call.reply])

Done(call) == Answered(call) /\ Recorded(call) /\ UNCHANGED <<grants, running>>

Decision(user, action, paths) == Evaluate(user, grants, action, paths, FALSE)
-----------------------------------------------------------------------------
\* Bad arguments, an unknown user or an unknown tool.
BadCall ==
  /\ Ready
  /\ \E tool \in Tools, agent \in Agents \cup {None} : Refused(Call(tool, None, agent, {}))

AuthzCheck ==
  /\ Ready
  /\ \E user \in Users, agent \in Agents \cup {None}, action \in Actions, path \in Probes :
       Done([Call("authz_check", user, agent, <<action, path>>) EXCEPT
               !.reply = Decision(user, action, {path})])

\* DemoRagPort.query: whoever may not read the asset gets nothing and asks no model.
MayRead(user, a) == a \in Samples /\ Decision(user, "query", {PathOf[a]}) # "DENY"

QueryKnowledge ==
  /\ Ready
  /\ \E user \in Users, agent \in Agents \cup {None}, a \in Samples \cup Idle \cup Unknown :
       LET call == Call("query_knowledge", user, agent, a)
       IN  IF ~MayRead(user, a)
           THEN Done([call EXCEPT !.reply = "DENIED"])
           ELSE \/ \E llm \in BOOLEAN : Done([call EXCEPT !.reply = "REFUSED", !.llm = llm])
                \/ Done([call EXCEPT !.reply = "ANSWERED", !.llm = TRUE, !.cites = {a}])

Facts(A) == {[tenant |-> "t", asset |-> a, version |-> 1, chunk |-> a, key |-> Key[a]] : a \in A}

\* The bridge reads the files at the source again, which its repository does not follow: one
\* that is gone or has changed is a ValueError, one that cannot be read an OSError.
SourceFails(call) == Refused(call) \/ Killed(call)

\* The bridge asks the policy for all paths at once, before it reads; its PermissionError kills.
AssessMaterials ==
  /\ Ready
  /\ \E user \in Users, agent \in Agents \cup {None}, A \in Requested :
       LET call   == Call("assess_materials", user, agent, A)
           result == ScoreMatches(Banks[Assessed], Facts(A))
       IN  \/ /\ A = {} \/ ~(A \subseteq Samples)
              /\ Refused(call)
           \/ /\ A # {} /\ A \subseteq Samples
              /\ IF Decision(user, "query", {PathOf[a] : a \in A}) = "DENY"
                 THEN Killed(call)
                 ELSE \/ SourceFails(call)
                      \/ Done([call EXCEPT !.reply = result.level,
                                           !.cites = {c.asset : c \in result.cites}])

\* The last events of the trail; a limit that is not positive is refused, because
\* a slice from minus zero is the whole trail.
Last(limit) == SubSeq(trail, IF limit > Len(trail) THEN 1 ELSE Len(trail) - limit + 1, Len(trail))

ListAuditEvents ==
  /\ Ready
  /\ \E limit \in Limits :
       LET call == Call("list_audit_events", None, None, limit)
       IN  IF limit = 0
           THEN Refused(call)
           ELSE /\ Answered([call EXCEPT !.reply = "events", !.events = Last(limit)])
                /\ UNCHANGED <<grants, trail, running>>

Next == BadCall \/ AuthzCheck \/ QueryKnowledge \/ AssessMaterials \/ ListAuditEvents

Spec == Init /\ [][Next]_vars
-----------------------------------------------------------------------------
Of(tool) == {i \in DOMAIN calls : calls[i].tool = tool /\ calls[i].user # None}

\* What authz_check tells of a user and a path, however the path is spelled, is what
\* the other tools do, whichever agent asked: where it denied a query, no answer quotes
\* the asset and no model was asked about it, and where it allowed one, the query is
\* not denied.  An assessment is made only if each of its assets alone may be queried
\* (mcp_server.py:130: an agent inherits the grants of its user); if one may not, the
\* call ends without an answer, so that it tells nothing of the files at the source either.
CheckAgreesWithUse ==
  \A i \in Of("authz_check"), s \in Samples :
    LET user == calls[i].user  path == calls[i].args[2]  denied == calls[i].reply = "DENY"
    IN  calls[i].args[1] = "query" /\ Valid(path) /\ Normalize(path) = Normalize(PathOf[s]) =>
          /\ \A j \in Of("query_knowledge") :
               calls[j].user = user /\ calls[j].args = s =>
                 /\ denied <=> calls[j].reply = "DENIED"
                 /\ denied => calls[j].cites = {} /\ ~calls[j].llm
          /\ \A j \in Of("assess_materials") :
               calls[j].user = user /\ s \in calls[j].args =>
                 /\ denied => calls[j].cites = {}
                 /\ denied /\ calls[j].args \subseteq Samples => calls[j].reply = "killed"

\* The agents' calls among the first n that got an answer.
Acted(n) == {i \in 1 .. n : calls[i].agent # None /\ calls[i].reply \notin {"error", "killed"}}

\* The trail is the seed and then, in order, the tool calls of agents that were
\* answered, each once, with its agent, its user and the answer's status; a user's own
\* calls, listings and refused calls add nothing (financial-preassessment-v2-demo-checklist.md:169).
\* A listing shows the newest events that the calls before it had left, in their order:
\* as many as it was asked for, or all of them when they are fewer.
TrailIsTheAgentsCalls ==
  /\ trail[1] = SeedEvent /\ Len(trail) = 1 + Cardinality(Acted(Len(calls)))
  /\ \A i \in Acted(Len(calls)) :
       trail[1 + Cardinality(Acted(i))] = [user |-> calls[i].user.id, agent |-> calls[i].agent,
                                           tool |-> calls[i].tool, status |-> calls[i].reply]
  /\ \A i \in DOMAIN calls :
       calls[i].reply = "events" =>
         LET c == calls[i]  n == Len(c.events)
         IN  /\ n = IF c.args < c.seen THEN c.args ELSE c.seen
             /\ \A k \in 1 .. n : c.events[k] = trail[c.seen - n + k]

\* The policy denied the call: a tool said so, or the bridge's PermissionError ended the loop.
WasDenied(call) ==
  \/ call.reply \in {"DENY", "DENIED"}
  \/ /\ call.reply = "killed"
     /\ Decision(call.user, "query", {PathOf[a] : a \in call.args}) = "DENY"

\* Of an agent's call that the policy denied, the trail keeps the agent's name
\* (financial-preassessment-v2-demo-checklist.md:169: denials leave a trace as well).
DenialsRecorded ==
  \A i \in DOMAIN calls :
    calls[i].agent # None /\ WasDenied(calls[i]) =>
      \E k \in DOMAIN trail : trail[k].agent = calls[i].agent /\ trail[k].tool = calls[i].tool
=============================================================================
