--------------------------- MODULE AnswerProviders ---------------------------
(***************************************************************************)
(* The registry of language models behind the answers: POST                *)
(* /api/llm/provider, which switches it and may bring a cloud key typed    *)
(* into the page, POST /api/session/logout, which clears such a key, and   *)
(* the queries that ask the generator the bridge holds.                    *)
(*                                                                         *)
(* There is one registry for all sessions, and its handlers run on pool    *)
(* threads without a lock.  One action is one read or write of the         *)
(* registry's fields or of the bridge's generator.  A typed key is named   *)
(* by the request that brought it.                                         *)
(***************************************************************************)
EXTENDS Naturals, FiniteSets

CONSTANTS
  Requests,     \* switches, logouts and queries of the run, each handled once
  MaxInFlight,  \* handlers at work at a time: 1 makes them sequential
  None, EnvKey  \* no generator or cloud key; the cloud key of the environment

ASSUME AnswerProvidersAssumption ==
  /\ IsFiniteSet(Requests) /\ MaxInFlight \in Nat \ {0}
  /\ {None, EnvKey} \cap Requests = {} /\ None # EnvKey

Providers == {"local", "cloud"}

\* A generator: whose endpoint it asks, and with which cloud key.
Generators == [provider : Providers, key : Requests \cup {EnvKey, None}]

VARIABLES
  environment,  \* is there a cloud key; providers whose configuration is complete
  current,      \* the registry's current provider
  override,     \* the typed cloud key
  generator,    \* the registry's generator
  port,         \* the generator the bridge asks
  request,      \* the handlers
  ended,        \* history: typed keys whose session was logged out
  overlap       \* history: did a request ever come while another was at work?

registry == <<environment, current, override, generator, port>>
vars     == <<registry, request, ended, overlap>>

Steps == {"idle", "type_key", "build", "set_generator", "set_current", "take", "set_port",
          "clear_key", "look", "look_key", "fall_back", "rebuild", "check", "ask", "done"}

\* A handler: its step, what was asked for, the generator that it has built or read and
\* has yet to store, and the one that it asked.
Idle == [at |-> "idle", wants |-> "none", provider |-> "local", typed |-> FALSE,
         held |-> None, used |-> None, reply |-> "none"]

TypeOK ==
  /\ environment \in [key : {EnvKey, None}, set : SUBSET Providers]
  /\ current \in Providers
  /\ override \in Requests \cup {None}
  /\ {generator, port} \subseteq Generators \cup {None}
  /\ request \in [Requests -> [at : Steps, wants : {"none", "switch", "logout", "query"},
                               provider : Providers, typed : BOOLEAN,
                               held : Generators \cup {None}, used : Generators \cup {None},
                               reply : {"none", "switched", "unknown_provider", "signed_out",
                                        "answered", "llm_not_configured", "crashed"}]]
  /\ ended \subseteq Requests
  /\ overlap \in BOOLEAN

\* _build: a provider without url or model has no generator; a missing key is no fault.
Build_OneKey(provider) ==
  IF provider \notin environment.set THEN None
  ELSE [provider |-> provider, key |-> IF override # None THEN override ELSE environment.key]

Build(provider) ==
  IF provider \notin environment.set THEN None
  ELSE [provider |-> provider,
        key |-> IF provider = "local" THEN None
                ELSE IF override # None THEN override ELSE environment.key]

\* The server starts with the local provider.
Init ==
  /\ environment \in [key : {EnvKey, None}, set : SUBSET Providers]
  /\ current = "local" /\ override = None
  /\ generator = Build("local") /\ port = generator
  /\ request = [r \in Requests |-> Idle]
  /\ ended = {} /\ overlap = FALSE
-----------------------------------------------------------------------------
InFlight == {r \in Requests : request[r].at \notin {"idle", "done"}}

Goto(r, step) == request' = [request EXCEPT ![r].at = step]

Hold(r, step, held) == request' = [request EXCEPT ![r].at = step, ![r].held = held]

Answer(r, reply) ==
  request' = [request EXCEPT ![r].at = "done", ![r].held = None, ![r].reply = reply]

Come(r, new) ==
  /\ request[r].at = "idle" /\ Cardinality(InFlight) < MaxInFlight
  /\ request' = [request EXCEPT ![r] = new]
  /\ overlap' = (overlap \/ InFlight # {})
  /\ UNCHANGED <<registry, ended>>

\* An unknown provider is refused before anything is stored.
SwitchCome(r) ==
  \/ Come(r, [Idle EXCEPT !.at = "done", !.wants = "switch", !.reply = "unknown_provider"])
  \/ \E provider \in Providers, typed \in BOOLEAN :
       Come(r, [Idle EXCEPT !.at = IF typed THEN "type_key" ELSE "build", !.wants = "switch",
                            !.provider = provider, !.typed = typed])

\* The key is kept whichever provider is asked for.
SwitchKey(r) ==
  /\ request[r].at = "type_key"
  /\ override' = r
  /\ Goto(r, "build")
  /\ UNCHANGED <<environment, current, generator, port, ended, overlap>>

SwitchBuild(r) ==
  /\ request[r].at = "build"
  /\ Hold(r, "set_generator", Build(request[r].provider))
  /\ UNCHANGED <<registry, ended, overlap>>

SwitchStore(r) ==
  /\ request[r].at = "set_generator"
  /\ generator' = request[r].held
  /\ Hold(r, "set_current", None)
  /\ UNCHANGED <<environment, current, override, port, ended, overlap>>

SwitchCurrent(r) ==
  /\ request[r].at = "set_current"
  /\ current' = request[r].provider
  /\ Goto(r, "take")
  /\ UNCHANGED <<environment, override, generator, port, ended, overlap>>

\* The bridge takes over what the registry holds now.
TakeGenerator(r) ==
  /\ request[r].at = "take"
  /\ Hold(r, "set_port", generator)
  /\ UNCHANGED <<registry, ended, overlap>>

SetPort(r) ==
  /\ request[r].at = "set_port"
  /\ port' = request[r].held
  /\ IF request[r].wants = "switch"
     THEN Answer(r, "switched") /\ UNCHANGED ended
     ELSE Answer(r, "signed_out") /\ ended' = {q \in Requests : request[q].typed}
  /\ UNCHANGED <<environment, current, override, generator, overlap>>
-----------------------------------------------------------------------------
\* Logout, whoever logs out; it needs no live session.
LogoutCome(r) == Come(r, [Idle EXCEPT !.at = "clear_key", !.wants = "logout"])

LogoutClear_RestoresEnv(r) ==
  /\ request[r].at = "clear_key"
  /\ override' = environment.key
  /\ Goto(r, "look")
  /\ UNCHANGED <<environment, current, generator, port, ended, overlap>>

LogoutClear(r) ==
  /\ request[r].at = "clear_key"
  /\ override' = None
  /\ Goto(r, "look")
  /\ UNCHANGED <<environment, current, generator, port, ended, overlap>>

\* It reads the provider and, if that is the cloud, whether a key is left.
LogoutLook(r) ==
  /\ request[r].at = "look"
  /\ Goto(r, IF current = "cloud" THEN "look_key" ELSE "take")
  /\ UNCHANGED <<registry, ended, overlap>>

LogoutLookKey(r) ==
  /\ request[r].at = "look_key"
  /\ Goto(r, IF {override, environment.key} = {None} THEN "fall_back" ELSE "take")
  /\ UNCHANGED <<registry, ended, overlap>>

LogoutFallBack_KeepsGenerator(r) ==
  /\ request[r].at = "fall_back"
  /\ current' = "local"
  /\ Goto(r, "take")
  /\ UNCHANGED <<environment, override, generator, port, ended, overlap>>

LogoutFallBack(r) ==
  /\ request[r].at = "fall_back"
  /\ current' = "local"
  /\ Goto(r, "rebuild")
  /\ UNCHANGED <<environment, override, generator, port, ended, overlap>>

\* The local generator is built without a look at the override.
LogoutRebuild(r) ==
  /\ request[r].at = "rebuild"
  /\ generator' = Build("local")
  /\ Goto(r, "take")
  /\ UNCHANGED <<environment, current, override, port, ended, overlap>>
-----------------------------------------------------------------------------
\* A query that is authorized looks whether there is a generator, and asks it after
\* it has searched: two reads of the bridge's field.
QueryCome(r) == Come(r, [Idle EXCEPT !.at = "check", !.wants = "query"])

QueryCheck(r) ==
  /\ request[r].at = "check"
  /\ IF port = None THEN Answer(r, "llm_not_configured") ELSE Goto(r, "ask")
  /\ UNCHANGED <<registry, ended, overlap>>

QueryAsk(r) ==
  /\ request[r].at = "ask"
  /\ request' = [request EXCEPT ![r].at = "done", ![r].used = port,
                                ![r].reply = IF port = None THEN "crashed" ELSE "answered"]
  /\ UNCHANGED <<registry, ended, overlap>>
-----------------------------------------------------------------------------
Step(r) ==
  \/ SwitchKey(r) \/ SwitchBuild(r) \/ SwitchStore(r) \/ SwitchCurrent(r)
  \/ LogoutClear(r) \/ LogoutLook(r) \/ LogoutLookKey(r) \/ LogoutFallBack(r) \/ LogoutRebuild(r)
  \/ TakeGenerator(r) \/ SetPort(r)
  \/ QueryCheck(r) \/ QueryAsk(r)

Next == \E r \in Requests : SwitchCome(r) \/ LogoutCome(r) \/ QueryCome(r) \/ Step(r)

Spec == Init /\ [][Next]_vars
-----------------------------------------------------------------------------
\* A cloud key, typed or not, is never sent to the local model's endpoint, however
\* switches, logouts and queries interleave.
CloudKeyStaysInCloud ==
  \A g \in {generator, port} \cup UNION {{request[r].held, request[r].used} : r \in Requests} :
    g # None /\ g.key # None => g.provider = "cloud"

\* While no handler is at work and none ever overlapped another, the provider the
\* page is told is the one that answers.  Unless the environment has a cloud key, it
\* does so with the key in force, and a key that was typed is in no field and answers
\* no query once somebody logged out (README.md:56).
StatusIsWhatAnswers ==
  ~overlap /\ InFlight = {} =>
    /\ port = generator
    /\ generator # None => generator.provider = current
    /\ environment.key = None =>
         /\ generator = Build(current)
         /\ \A k \in ended : \A g \in {generator, port} : override # k /\ (g # None => g.key # k)

\* After a logout no generator holds a key that was typed before it (README.md:56:
\* the key is only held for the session and cleared at logout).
KeyClearedOnLogout ==
  \A k \in ended : override # k /\ (port # None => port.key # k)
=============================================================================
