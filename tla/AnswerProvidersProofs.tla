------------------------ MODULE AnswerProvidersProofs ------------------------
(***************************************************************************)
(* Theorems about AnswerProviders for every set of requests and every      *)
(* number of threads: where a cloud key goes, and what the page is told.   *)
(***************************************************************************)
EXTENDS AnswerProviders, TLAPS
-----------------------------------------------------------------------------
(***************************************************************************)
(* The inductive invariant.                                                *)
(***************************************************************************)
\* Who has not come yet is as at the start, and was not logged out.
Unstarted ==
  \A r \in Requests : request[r].at = "idle" => request[r] = Idle /\ r \notin ended

\* What a request wants decides through which steps it goes.
SwitchSteps == {"type_key", "build", "set_generator", "set_current"}

LogoutSteps == {"clear_key", "look", "look_key", "fall_back", "rebuild"}

LastSteps == {"take", "set_port"}

Routed ==
  \A r \in Requests :
    /\ request[r].at \in SwitchSteps => request[r].wants = "switch"
    /\ request[r].at \in LogoutSteps => request[r].wants = "logout"
    /\ request[r].at \in LastSteps => request[r].wants \in {"switch", "logout"}

\* The generator is the one of the current provider; without a key in the environment
\* it holds the key in force, and that key is of no session that was logged out.
Serves  == generator # None => generator.provider = current
Matches == environment.key = None => generator = Build(current)
Unspent == environment.key = None => override \notin ended
Steady  == port = generator /\ Serves /\ Matches /\ Unspent

\* What a handler that has the registry for itself has achieved at each step.
Stage(r) ==
  LET at == request[r].at
  IN  /\ at \in {"type_key", "clear_key", "check", "ask"} => Steady
      /\ at = "type_key" => r \notin ended
      /\ at \in {"build", "set_generator", "set_current"} => Unspent
      /\ at = "set_generator" => request[r].held = Build(request[r].provider)
      /\ at = "set_current" => generator = Build(request[r].provider)
      /\ at \in {"look", "look_key", "fall_back", "rebuild"} => override = None
      /\ at \in {"look", "look_key"} => Serves
      /\ at = "look" /\ current = "local" => Matches
      /\ at = "rebuild" => current = "local"
      /\ at \in LastSteps =>
           /\ Serves /\ Matches
           /\ IF request[r].wants = "switch" THEN Unspent ELSE override = None
      /\ at = "set_port" => request[r].held = generator

Alone == \A q, r \in InFlight : q = r

Unshared ==
  ~overlap => /\ Alone
              /\ InFlight = {} => Steady
              /\ \A r \in InFlight : Stage(r)

Inductive == TypeOK /\ Unstarted /\ Routed /\ CloudKeyStaysInCloud /\ Unshared
-----------------------------------------------------------------------------
(***************************************************************************)
(* What the steps write, pointwise.                                        *)
(***************************************************************************)
Replies == {"none", "switched", "unknown_provider", "signed_out", "answered",
            "llm_not_configured", "crashed"}

Records == [at : Steps, wants : {"none", "switch", "logout", "query"}, provider : Providers,
            typed : BOOLEAN, held : Generators \cup {None}, used : Generators \cup {None},
            reply : Replies]

\* The registry asks its own endpoint: only a cloud generator is built with a key.
InCloud(g) == g # None /\ g.key # None => g.provider = "cloud"

LEMMA BuildFacts ==
  ASSUME TypeOK, NEW provider \in Providers
  PROVE  /\ Build(provider) \in Generators \cup {None}
         /\ InCloud(Build(provider))
         /\ Build(provider) # None => Build(provider).provider = provider
         /\ Build(provider) # None => Build(provider).key \in {None, override, environment.key}
<1> DEFINE key == IF provider = "local" THEN None
                  ELSE IF override # None THEN override ELSE environment.key
<1>1. /\ key \in {None, override, environment.key}
      /\ provider = "local" => key = None
  OBVIOUS
<1>2. /\ key \in Requests \cup {EnvKey, None}
      /\ key # None => provider = "cloud"
  BY <1>1 DEF TypeOK, Providers
<1>3. Build(provider) = IF provider \notin environment.set THEN None
                        ELSE [provider |-> provider, key |-> key]
  BY DEF Build
<1> HIDE DEF key
<1> QED
  BY <1>1, <1>2, <1>3 DEF Generators, InCloud

LEMMA GotoAt ==
  ASSUME TypeOK, NEW r \in Requests, NEW step \in Steps, Goto(r, step)
  PROVE  /\ request' \in [Requests -> Records]
         /\ request'[r] = [request[r] EXCEPT !.at = step]
         /\ \A q \in Requests \ {r} : request'[q] = request[q]
<1> DEFINE next == [request[r] EXCEPT !.at = step]
<1>1. next \in Records
  BY DEF TypeOK, Records, Replies
<1>2. request' = [request EXCEPT ![r] = next]
  BY DEF Goto
<1> HIDE DEF next
<1>3. request \in [Requests -> Records]
  BY DEF TypeOK, Records, Replies
<1>4. request' \in [Requests -> Records] /\ request'[r] = next
      /\ \A q \in Requests \ {r} : request'[q] = request[q]
  BY <1>1, <1>2, <1>3
<1> QED
  BY <1>4 DEF next

LEMMA HoldAt ==
  ASSUME TypeOK, NEW r \in Requests, NEW step \in Steps, NEW held \in Generators \cup {None},
         Hold(r, step, held)
  PROVE  /\ request' \in [Requests -> Records]
         /\ request'[r] = [request[r] EXCEPT !.at = step, !.held = held]
         /\ \A q \in Requests \ {r} : request'[q] = request[q]
<1> DEFINE next == [request[r] EXCEPT !.at = step, !.held = held]
<1> request[r] \in Records
  BY DEF TypeOK, Records, Replies
<1>1. next \in Records
  BY DEF Records
<1>2. request' = [request EXCEPT ![r] = next]
  BY DEF Hold, TypeOK
<1> HIDE DEF next
<1>3. request \in [Requests -> Records]
  BY DEF TypeOK, Records, Replies
<1>4. request' \in [Requests -> Records] /\ request'[r] = next
      /\ \A q \in Requests \ {r} : request'[q] = request[q]
  BY <1>1, <1>2, <1>3
<1> QED
  BY <1>4 DEF next

LEMMA AnswerAt ==
  ASSUME TypeOK, NEW r \in Requests, NEW reply \in Replies, Answer(r, reply)
  PROVE  /\ request' \in [Requests -> Records]
         /\ request'[r] = [request[r] EXCEPT !.at = "done", !.held = None, !.reply = reply]
         /\ \A q \in Requests \ {r} : request'[q] = request[q]
<1> DEFINE next == [request[r] EXCEPT !.at = "done", !.held = None, !.reply = reply]
<1> request[r] \in Records
  BY DEF TypeOK, Records, Replies
<1>1. next \in Records
  BY DEF Records, Steps
<1>2. request' = [request EXCEPT ![r] = next]
  BY DEF Answer, TypeOK
<1> HIDE DEF next
<1>3. request \in [Requests -> Records]
  BY DEF TypeOK, Records, Replies
<1>4. request' \in [Requests -> Records] /\ request'[r] = next
      /\ \A q \in Requests \ {r} : request'[q] = request[q]
  BY <1>1, <1>2, <1>3
<1> QED
  BY <1>4 DEF next

\* What any step of a handler changes in the handlers' records.
Advances(r, next) ==
  /\ request' \in [Requests -> Records]
  /\ request'[r] = next
  /\ \A q \in Requests \ {r} : request'[q] = request[q]

LEMMA Typed ==
  ASSUME NEW r \in Requests, NEW next, Advances(r, next),
         environment' \in [key : {EnvKey, None}, set : SUBSET Providers],
         current' \in Providers, override' \in Requests \cup {None},
         generator' \in Generators \cup {None}, port' \in Generators \cup {None},
         ended' \subseteq Requests, overlap' \in BOOLEAN
  PROVE  TypeOK'
BY DEF TypeOK, Advances, Records, Replies

\* With the registry for itself, the handler that works is the only one before and after.
LEMMA Exclusive ==
  ASSUME TypeOK, Unshared, ~overlap, NEW r \in Requests, r \in InFlight,
         NEW next, Advances(r, next)
  PROVE  /\ Stage(r)
         /\ InFlight' \subseteq {r}
         /\ next.at = "done" => InFlight' = {}
         /\ next.at \notin {"idle", "done"} => InFlight' = {r}
BY DEF Unshared, Alone, InFlight, Advances
-----------------------------------------------------------------------------
(***************************************************************************)
(* The two shapes of a step: a handler that is at work, one that comes.    *)
(***************************************************************************)
RoutedAs(next) ==
  /\ next.at \in SwitchSteps => next.wants = "switch"
  /\ next.at \in LogoutSteps => next.wants = "logout"
  /\ next.at \in LastSteps => next.wants \in {"switch", "logout"}

LEMMA HandlerStep ==
  ASSUME Inductive, NEW r \in Requests, r \in InFlight,
         NEW next, Advances(r, next), next.at # "idle", next.at \in Steps, RoutedAs(next),
         environment' = environment, overlap' = overlap,
         current' \in Providers, override' \in Requests \cup {None},
         generator' \in Generators \cup {None}, port' \in Generators \cup {None},
         ended' \subseteq Requests,
         \A q \in ended' : q \in ended \/ request[q].typed,
         InCloud(generator)', InCloud(port)', InCloud(next.held), InCloud(next.used),
         ~overlap /\ Stage(r) => IF next.at = "done" THEN Steady' ELSE Stage(r)'
  PROVE  Inductive'
<1>1. TypeOK'
  <2>1. /\ environment' \in [key : {EnvKey, None}, set : SUBSET Providers]
        /\ overlap' \in BOOLEAN
    BY DEF Inductive, TypeOK
  <2> QED
    BY <2>1, Typed
<1>2. Unstarted'
  <2> SUFFICES ASSUME NEW q \in Requests, request'[q].at = "idle"
               PROVE  request'[q] = Idle /\ q \notin ended'
    BY DEF Unstarted
  <2>1. q # r /\ request'[q] = request[q]
    BY DEF Advances
  <2>2. request[q] = Idle /\ q \notin ended
    BY <2>1 DEF Inductive, Unstarted
  <2>3. ~request[q].typed
    BY <2>2 DEF Idle
  <2> QED
    BY <2>1, <2>2, <2>3
<1>3. Routed'
  BY DEF Inductive, Routed, RoutedAs, Advances
<1>4. CloudKeyStaysInCloud'
  BY DEF Inductive, CloudKeyStaysInCloud, InCloud, Advances
<1>5. Unshared'
  <2> SUFFICES ASSUME ~overlap PROVE Unshared'
    BY DEF Unshared
  <2>1. /\ Stage(r)
        /\ InFlight' \subseteq {r}
        /\ next.at = "done" => InFlight' = {}
        /\ next.at \notin {"idle", "done"} => InFlight' = {r}
    BY Exclusive DEF Inductive
  <2>2. IF next.at = "done" THEN Steady' ELSE Stage(r)'
    BY <2>1
  <2> QED
    BY <2>1, <2>2 DEF Unshared, Alone
<1> QED
  BY <1>1, <1>2, <1>3, <1>4, <1>5 DEF Inductive

LEMMA HandlerComes ==
  ASSUME Inductive, NEW r \in Requests, NEW new \in Records, Come(r, new),
         new.at \in {"done", "type_key", "build", "clear_key", "check"},
         new.held = None, new.used = None, RoutedAs(new)
  PROVE  Inductive'
<1>1. Advances(r, new)
  BY DEF Come, Inductive, TypeOK, Records, Replies, Advances
<1>2. UNCHANGED <<environment, current, override, generator, port, ended>>
      /\ overlap' = (overlap \/ InFlight # {}) /\ request[r].at = "idle"
  BY DEF Come, registry
<1>3. TypeOK'
  <2>1. overlap' \in BOOLEAN
    BY <1>2 DEF Inductive, TypeOK
  <2> QED
    BY <1>1, <1>2, <2>1, Typed DEF Inductive, TypeOK
<1>4. Unstarted'
  BY <1>1, <1>2 DEF Inductive, Unstarted, Advances
<1>5. Routed'
  BY <1>1 DEF Inductive, Routed, RoutedAs, Advances
<1>6. CloudKeyStaysInCloud'
  BY <1>1, <1>2 DEF Inductive, CloudKeyStaysInCloud, Advances
<1>7. Unshared'
  <2> SUFFICES ASSUME ~overlap' PROVE Unshared'
    BY DEF Unshared
  <2>1. ~overlap /\ InFlight = {}
    BY <1>2
  <2>2. Steady /\ r \notin ended
    BY <1>2, <2>1 DEF Inductive, Unshared, Unstarted
  <2>3. Steady'
    BY <1>2, <2>2 DEF Steady, Serves, Matches, Unspent, Build
  <2>4. InFlight' \subseteq {r}
    BY <1>1, <2>1 DEF InFlight, Advances
  <2>5. Stage(r)'
    BY <1>1, <1>2, <2>2, <2>3 DEF Stage, Steady, Advances, LastSteps
  <2> QED
    BY <2>3, <2>4, <2>5 DEF Unshared, Alone
<1> QED
  BY <1>3, <1>4, <1>5, <1>6, <1>7 DEF Inductive
-----------------------------------------------------------------------------
(***************************************************************************)
(* Every step keeps the invariant.                                         *)
(***************************************************************************)
LEMMA ComingKeeps ==
  ASSUME Inductive, NEW r \in Requests, SwitchCome(r) \/ LogoutCome(r) \/ QueryCome(r)
  PROVE  Inductive'
<1> USE DEF Records, Replies, Steps, Idle, Providers, RoutedAs, SwitchSteps, LogoutSteps, LastSteps
<1>1. ASSUME Come(r, [Idle EXCEPT !.at = "done", !.wants = "switch", !.reply = "unknown_provider"])
      PROVE  Inductive'
  <2> DEFINE new == [Idle EXCEPT !.at = "done", !.wants = "switch", !.reply = "unknown_provider"]
  <2>1. new \in Records /\ new.at = "done" /\ new.held = None /\ new.used = None /\ RoutedAs(new)
    OBVIOUS
  <2>2. Come(r, new)
    BY <1>1
  <2> HIDE DEF new
  <2> QED
    BY <2>1, <2>2, HandlerComes
<1>2. ASSUME NEW provider \in Providers, NEW typed \in BOOLEAN,
             Come(r, [Idle EXCEPT !.at = IF typed THEN "type_key" ELSE "build", !.wants = "switch",
                                  !.provider = provider, !.typed = typed])
      PROVE  Inductive'
  <2> DEFINE new == [Idle EXCEPT !.at = IF typed THEN "type_key" ELSE "build", !.wants = "switch",
                                 !.provider = provider, !.typed = typed]
  <2>1. new \in Records /\ new.at \in {"type_key", "build"} /\ new.held = None /\ new.used = None /\ RoutedAs(new)
    OBVIOUS
  <2>2. Come(r, new)
    BY <1>2
  <2> HIDE DEF new
  <2> QED
    BY <2>1, <2>2, HandlerComes
<1>3. ASSUME NEW at \in {"clear_key", "check"}, NEW wants \in {"logout", "query"},
             at = "clear_key" => wants = "logout",
             Come(r, [Idle EXCEPT !.at = at, !.wants = wants])
      PROVE  Inductive'
  <2> DEFINE new == [Idle EXCEPT !.at = at, !.wants = wants]
  <2>1. new \in Records /\ new.at = at /\ new.held = None /\ new.used = None /\ RoutedAs(new)
    BY <1>3
  <2>2. Come(r, new)
    BY <1>3
  <2> HIDE DEF new
  <2> QED
    BY <2>1, <2>2, HandlerComes
<1>4. CASE SwitchCome(r)
  BY <1>1, <1>2, <1>4 DEF SwitchCome
<1>5. CASE LogoutCome(r)
  <2>1. Come(r, [Idle EXCEPT !.at = "clear_key", !.wants = "logout"])
    BY <1>5 DEF LogoutCome
  <2> QED
    BY <1>3, <2>1
<1>6. CASE QueryCome(r)
  <2>1. Come(r, [Idle EXCEPT !.at = "check", !.wants = "query"])
    BY <1>6 DEF QueryCome
  <2> QED
    BY <1>3, <2>1
<1> QED
  BY <1>4, <1>5, <1>6

\* What the invariant says of the registry, part by part.
LEMMA RegistryFacts ==
  ASSUME Inductive
  PROVE  /\ TypeOK
         /\ current \in Providers /\ override \in Requests \cup {None}
         /\ generator \in Generators \cup {None} /\ port \in Generators \cup {None}
         /\ ended \subseteq Requests
         /\ InCloud(generator) /\ InCloud(port)
         /\ \A r \in Requests : /\ InCloud(request[r].held) /\ InCloud(request[r].used)
                               /\ request[r] \in Records
BY DEF Inductive, TypeOK, CloudKeyStaysInCloud, InCloud, Records, Replies

LEMMA SwitchKeyKeeps ==
  ASSUME Inductive, NEW r \in Requests, SwitchKey(r) PROVE Inductive'
<1> DEFINE next == [request[r] EXCEPT !.at = "build"]
<1>1. Advances(r, next)
  BY GotoAt DEF SwitchKey, Inductive, Advances, Steps
<1>2. r \in InFlight /\ request[r].at = "type_key"
  BY DEF SwitchKey, InFlight
<1>3. /\ next.at = "build" /\ next.held = request[r].held /\ next.used = request[r].used
      /\ next.wants = request[r].wants
  BY RegistryFacts DEF Records
<1>4. RoutedAs(next)
  BY <1>2, <1>3 DEF Inductive, Routed, RoutedAs, SwitchSteps, LogoutSteps, LastSteps
<1>5. UNCHANGED <<environment, current, generator, port, ended, overlap>> /\ override' = r
  BY DEF SwitchKey
<1> HIDE DEF next
<1>6. ~overlap /\ Stage(r) => Stage(r)'
  BY <1>1, <1>2, <1>3, <1>5 DEF Stage, Unspent, Advances, LastSteps
<1> QED
  BY <1>1, <1>2, <1>3, <1>4, <1>5, <1>6, RegistryFacts, HandlerStep DEF InCloud, Steps

LEMMA SwitchBuildKeeps ==
  ASSUME Inductive, NEW r \in Requests, SwitchBuild(r) PROVE Inductive'
<1>1. r \in InFlight /\ request[r].at = "build" /\ request[r].provider \in Providers
  BY RegistryFacts DEF SwitchBuild, InFlight, Records
<1>2. PICK held \in Generators \cup {None} :
        held = Build(request[r].provider) /\ InCloud(held) /\ Hold(r, "set_generator", held)
  BY <1>1, RegistryFacts, BuildFacts DEF SwitchBuild
<1> DEFINE next == [request[r] EXCEPT !.at = "set_generator", !.held = held]
<1>3. Advances(r, next)
  <2>0. request \in [Requests -> Records]
    BY DEF Inductive, TypeOK, Records, Replies
  <2>1. request \in [Requests -> Records] /\ request' = [request EXCEPT ![r] = next]
    BY <1>2, <2>0 DEF Hold
  <2>2. next \in Records
    BY <2>1 DEF Records, Steps
  <2> HIDE DEF next
  <2> QED
    BY <2>1, <2>2 DEF Advances
<1>4. /\ next.at = "set_generator" /\ next.held = held /\ next.used = request[r].used
      /\ next.wants = request[r].wants /\ next.provider = request[r].provider
  BY RegistryFacts DEF Records
<1>5. RoutedAs(next)
  BY <1>1, <1>4 DEF Inductive, Routed, RoutedAs, SwitchSteps, LogoutSteps, LastSteps
<1>6. UNCHANGED <<environment, current, override, generator, port, ended, overlap>>
  BY DEF SwitchBuild, registry
<1> HIDE DEF next
<1>7. ~overlap /\ Stage(r) => Stage(r)'
  BY <1>1, <1>2, <1>3, <1>4, <1>6 DEF Stage, Unspent, Advances, Build, LastSteps
<1> QED
  BY <1>1, <1>2, <1>3, <1>4, <1>5, <1>6, <1>7, RegistryFacts, HandlerStep DEF InCloud, Steps

LEMMA SwitchStoreKeeps ==
  ASSUME Inductive, NEW r \in Requests, SwitchStore(r) PROVE Inductive'
<1> DEFINE next == [request[r] EXCEPT !.at = "set_current", !.held = None]
<1>1. Advances(r, next)
  BY HoldAt DEF SwitchStore, Inductive, Advances, Steps
<1>2. r \in InFlight /\ request[r].at = "set_generator"
  BY DEF SwitchStore, InFlight
<1>3. /\ next.at = "set_current" /\ next.held = None /\ next.used = request[r].used
      /\ next.wants = request[r].wants /\ next.provider = request[r].provider
  BY RegistryFacts DEF Records
<1>4. RoutedAs(next)
  BY <1>2, <1>3 DEF Inductive, Routed, RoutedAs, SwitchSteps, LogoutSteps, LastSteps
<1>5. /\ UNCHANGED <<environment, current, override, port, ended, overlap>>
      /\ generator' = request[r].held
  BY DEF SwitchStore
<1>6. generator' \in Generators \cup {None} /\ InCloud(generator)'
  BY <1>5, RegistryFacts DEF InCloud, Records
<1> HIDE DEF next
<1>7. ~overlap /\ Stage(r) => Stage(r)'
  BY <1>1, <1>2, <1>3, <1>5 DEF Stage, Unspent, Advances, Build, LastSteps
<1> QED
  BY <1>1, <1>2, <1>3, <1>4, <1>5, <1>6, <1>7, RegistryFacts, HandlerStep DEF InCloud, Steps

LEMMA SwitchCurrentKeeps ==
  ASSUME Inductive, NEW r \in Requests, SwitchCurrent(r) PROVE Inductive'
<1> DEFINE next == [request[r] EXCEPT !.at = "take"]
<1>1. Advances(r, next)
  BY GotoAt DEF SwitchCurrent, Inductive, Advances, Steps
<1>2. r \in InFlight /\ request[r].at = "set_current"
  BY DEF SwitchCurrent, InFlight
<1>3. /\ next.at = "take" /\ next.held = request[r].held /\ next.used = request[r].used
      /\ next.wants = request[r].wants /\ next.wants = "switch"
  BY <1>2, RegistryFacts DEF Records, Inductive, Routed, SwitchSteps
<1>4. RoutedAs(next)
  BY <1>3 DEF RoutedAs, SwitchSteps, LogoutSteps, LastSteps
<1>5. /\ UNCHANGED <<environment, override, generator, port, ended, overlap>>
      /\ current' = request[r].provider
  BY DEF SwitchCurrent
<1>6. request[r].provider \in Providers
  BY RegistryFacts DEF Records
<1> HIDE DEF next
<1>7. ASSUME Stage(r) PROVE Stage(r)'
  <2>1. Unspent /\ generator = Build(request[r].provider)
    BY <1>2, <1>7 DEF Stage
  <2>2. Build(current)' = Build(request[r].provider)
    BY <1>5 DEF Build
  <2>3. Serves' /\ Matches' /\ Unspent'
    BY <1>5, <1>6, <2>1, <2>2, RegistryFacts, BuildFacts DEF Serves, Matches, Unspent
  <2> QED
    BY <1>1, <1>3, <2>3 DEF Stage, Advances, LastSteps
<1> QED
  BY <1>1, <1>2, <1>3, <1>4, <1>5, <1>6, <1>7, RegistryFacts, HandlerStep DEF InCloud, Steps

LEMMA TakeGeneratorKeeps ==
  ASSUME Inductive, NEW r \in Requests, TakeGenerator(r) PROVE Inductive'
<1> DEFINE next == [request[r] EXCEPT !.at = "set_port", !.held = generator]
<1>1. Advances(r, next)
  BY RegistryFacts, HoldAt DEF TakeGenerator, Advances, Steps
<1>2. r \in InFlight /\ request[r].at = "take"
  BY DEF TakeGenerator, InFlight
<1>3. /\ next.at = "set_port" /\ next.held = generator /\ next.used = request[r].used
      /\ next.wants = request[r].wants
  BY RegistryFacts DEF Records
<1>4. RoutedAs(next)
  BY <1>2, <1>3 DEF Inductive, Routed, RoutedAs, SwitchSteps, LogoutSteps, LastSteps
<1>5. UNCHANGED <<environment, current, override, generator, port, ended, overlap>>
  BY DEF TakeGenerator, registry
<1> HIDE DEF next
<1>6. ~overlap /\ Stage(r) => Stage(r)'
  BY <1>1, <1>2, <1>3, <1>5
  DEF Stage, Serves, Matches, Unspent, Advances, Build, LastSteps
<1> QED
  BY <1>1, <1>2, <1>3, <1>4, <1>5, <1>6, RegistryFacts, HandlerStep DEF InCloud, Steps

LEMMA SetPortKeeps ==
  ASSUME Inductive, NEW r \in Requests, SetPort(r) PROVE Inductive'
<1>1. r \in InFlight /\ request[r].at = "set_port"
  BY DEF SetPort, InFlight
<1>2. UNCHANGED <<environment, current, override, generator, overlap>> /\ port' = request[r].held
  BY DEF SetPort
<1>3. PICK reply \in {"switched", "signed_out"} :
        /\ Answer(r, reply)
        /\ reply = "switched" => request[r].wants = "switch" /\ ended' = ended
        /\ reply = "signed_out" =>
             /\ request[r].wants # "switch"
             /\ ended' = {q \in Requests : request[q].typed}
  BY DEF SetPort
<1> DEFINE next == [request[r] EXCEPT !.at = "done", !.held = None, !.reply = reply]
<1>4. Advances(r, next)
  BY <1>3, AnswerAt DEF Inductive, Advances, Replies
<1>5. next.at = "done" /\ next.held = None /\ next.used = request[r].used
  BY RegistryFacts DEF Records
<1>6. RoutedAs(next)
  BY <1>5 DEF RoutedAs, SwitchSteps, LogoutSteps, LastSteps
<1> HIDE DEF next
<1>7. ended' \subseteq Requests /\ \A q \in ended' : q \in ended \/ request[q].typed
  BY <1>3, RegistryFacts
<1>8. ASSUME Stage(r) PROVE Steady'
  <2>1. /\ Serves /\ Matches /\ request[r].held = generator
        /\ IF request[r].wants = "switch" THEN Unspent ELSE override = None
    BY <1>1, <1>8 DEF Stage, LastSteps
  <2>2. Serves' /\ Matches' /\ port' = generator'
    BY <1>2, <2>1 DEF Serves, Matches, Build
  <2>3. Unspent'
    BY <1>2, <1>3, <1>7, <2>1, AnswerProvidersAssumption DEF Unspent
  <2> QED
    BY <2>2, <2>3 DEF Steady
<1>9. port' \in Generators \cup {None} /\ InCloud(port)'
  BY <1>2, RegistryFacts DEF InCloud, Records
<1> QED
  BY <1>1, <1>2, <1>4, <1>5, <1>6, <1>7, <1>8, <1>9, RegistryFacts, HandlerStep DEF InCloud, Steps

LEMMA LogoutClearKeeps ==
  ASSUME Inductive, NEW r \in Requests, LogoutClear(r) PROVE Inductive'
<1> DEFINE next == [request[r] EXCEPT !.at = "look"]
<1>1. Advances(r, next)
  BY GotoAt DEF LogoutClear, Inductive, Advances, Steps
<1>2. r \in InFlight /\ request[r].at = "clear_key"
  BY DEF LogoutClear, InFlight
<1>3. /\ next.at = "look" /\ next.held = request[r].held /\ next.used = request[r].used
      /\ next.wants = request[r].wants
  BY RegistryFacts DEF Records
<1>4. RoutedAs(next)
  BY <1>2, <1>3 DEF Inductive, Routed, RoutedAs, SwitchSteps, LogoutSteps, LastSteps
<1>5. UNCHANGED <<environment, current, generator, port, ended, overlap>> /\ override' = None
  BY DEF LogoutClear
<1> HIDE DEF next
<1>6. ASSUME Stage(r) PROVE Stage(r)'
  <2>1. Serves /\ Matches
    BY <1>2, <1>6 DEF Stage, Steady
  <2>2. Serves' /\ (current' = "local" => Matches')
    BY <1>5, <2>1 DEF Serves, Matches, Build
  <2> QED
    BY <1>1, <1>3, <1>5, <2>2 DEF Stage, Advances, LastSteps
<1> QED
  BY <1>1, <1>2, <1>3, <1>4, <1>5, <1>6, RegistryFacts, HandlerStep DEF InCloud, Steps

\* Looking for a provider and a key that are left changes nothing; without overlap the
\* logout finds no typed key, so it leaves the cloud where it is for a key of the environment.
LEMMA LogoutLooksKeep ==
  ASSUME Inductive, NEW r \in Requests, LogoutLook(r) \/ LogoutLookKey(r) PROVE Inductive'
<1>1. r \in InFlight /\ request[r].at \in {"look", "look_key"}
  BY DEF LogoutLook, LogoutLookKey, InFlight
<1>2. UNCHANGED <<environment, current, override, generator, port, ended, overlap>>
  BY DEF LogoutLook, LogoutLookKey, registry
<1>3. PICK step \in {"look_key", "fall_back", "take"} :
        /\ Goto(r, step)
        /\ step = "take" /\ request[r].at = "look" => current # "cloud"
        /\ step = "take" /\ request[r].at = "look_key" => {override, environment.key} # {None}
  <2>1. CASE LogoutLook(r)
    <3>1. Goto(r, IF current = "cloud" THEN "look_key" ELSE "take") /\ request[r].at = "look"
      BY <2>1 DEF LogoutLook
    <3>2. CASE current = "cloud"
      BY <3>1, <3>2
    <3>3. CASE current # "cloud"
      BY <3>1, <3>3
    <3> QED
      BY <3>2, <3>3
  <2>2. CASE LogoutLookKey(r)
    <3>1. /\ Goto(r, IF {override, environment.key} = {None} THEN "fall_back" ELSE "take")
          /\ request[r].at = "look_key"
      BY <2>2 DEF LogoutLookKey
    <3>2. CASE {override, environment.key} = {None}
      BY <3>1, <3>2
    <3>3. CASE {override, environment.key} # {None}
      BY <3>1, <3>3
    <3> QED
      BY <3>2, <3>3
  <2> QED
    BY <2>1, <2>2
<1> DEFINE next == [request[r] EXCEPT !.at = step]
<1>4. Advances(r, next)
  <2>1. TypeOK /\ step \in Steps /\ Goto(r, step)
    BY <1>3 DEF Inductive, Steps
  <2> QED
    BY <2>1, GotoAt DEF Advances
<1>5. /\ next.at = step /\ next.held = request[r].held /\ next.used = request[r].used
      /\ next.wants = request[r].wants /\ next.wants = "logout"
  BY <1>1, RegistryFacts DEF Records, Inductive, Routed, LogoutSteps
<1>6. RoutedAs(next)
  BY <1>3, <1>5 DEF RoutedAs, SwitchSteps, LogoutSteps, LastSteps
<1> HIDE DEF next
<1>7. ASSUME Stage(r) PROVE Stage(r)'
  <2>1. override = None /\ Serves
    BY <1>1, <1>7 DEF Stage
  <2>2. override' = None /\ Serves'
    BY <1>2, <2>1 DEF Serves
  <2>3. CASE step = "take"
    <3>1. ASSUME request[r].at = "look" PROVE Matches'
      <4>1. current = "local"
        BY <1>3, <2>3, <3>1, RegistryFacts DEF Providers
      <4>2. Matches
        BY <1>7, <3>1, <4>1 DEF Stage
      <4> QED
        BY <1>2, <4>2 DEF Matches, Build
    <3>2. ASSUME request[r].at = "look_key" PROVE Matches'
      <4>1. environment.key # None
        BY <1>3, <2>1, <2>3, <3>2
      <4> QED
        BY <1>2, <4>1 DEF Matches
    <3>3. Matches'
      BY <1>1, <3>1, <3>2
    <3> QED
      BY <1>4, <1>5, <2>2, <2>3, <3>3 DEF Stage, Advances, LastSteps
  <2>4. CASE step # "take"
    BY <1>3, <1>4, <1>5, <2>2, <2>4 DEF Stage, Advances, LastSteps
  <2> QED
    BY <2>3, <2>4
<1> QED
  BY <1>1, <1>2, <1>3, <1>4, <1>5, <1>6, <1>7, RegistryFacts, HandlerStep DEF InCloud, Steps

LEMMA LogoutFallBackKeeps ==
  ASSUME Inductive, NEW r \in Requests, LogoutFallBack(r) PROVE Inductive'
<1> DEFINE next == [request[r] EXCEPT !.at = "rebuild"]
<1>1. Advances(r, next)
  BY GotoAt DEF LogoutFallBack, Inductive, Advances, Steps
<1>2. r \in InFlight /\ request[r].at = "fall_back"
  BY DEF LogoutFallBack, InFlight
<1>3. /\ next.at = "rebuild" /\ next.held = request[r].held /\ next.used = request[r].used
      /\ next.wants = request[r].wants
  BY RegistryFacts DEF Records
<1>4. RoutedAs(next)
  BY <1>2, <1>3 DEF Inductive, Routed, RoutedAs, SwitchSteps, LogoutSteps, LastSteps
<1>5. /\ UNCHANGED <<environment, override, generator, port, ended, overlap>>
      /\ current' = "local"
  BY DEF LogoutFallBack
<1> HIDE DEF next
<1>6. ~overlap /\ Stage(r) => Stage(r)'
  BY <1>1, <1>2, <1>3, <1>5 DEF Stage, Advances, LastSteps
<1> QED
  BY <1>1, <1>2, <1>3, <1>4, <1>5, <1>6, RegistryFacts, HandlerStep
  DEF InCloud, Steps, Providers

LEMMA LogoutRebuildKeeps ==
  ASSUME Inductive, NEW r \in Requests, LogoutRebuild(r) PROVE Inductive'
<1> DEFINE next == [request[r] EXCEPT !.at = "take"]
<1>1. Advances(r, next)
  BY GotoAt DEF LogoutRebuild, Inductive, Advances, Steps
<1>2. r \in InFlight /\ request[r].at = "rebuild"
  BY DEF LogoutRebuild, InFlight
<1>3. /\ next.at = "take" /\ next.held = request[r].held /\ next.used = request[r].used
      /\ next.wants = request[r].wants /\ next.wants = "logout"
  BY <1>2, RegistryFacts DEF Records, Inductive, Routed, LogoutSteps
<1>4. RoutedAs(next)
  BY <1>3 DEF RoutedAs, SwitchSteps, LogoutSteps, LastSteps
<1>5. /\ UNCHANGED <<environment, current, override, port, ended, overlap>>
      /\ generator' = Build("local")
  BY DEF LogoutRebuild
<1>6. generator' \in Generators \cup {None} /\ InCloud(generator)'
      /\ (generator' # None => generator'.provider = "local")
  BY <1>5, RegistryFacts, BuildFacts DEF InCloud, Providers
<1> HIDE DEF next
<1>7. ASSUME Stage(r) PROVE Stage(r)'
  <2>1. override = None /\ current = "local"
    BY <1>2, <1>7 DEF Stage
  <2>2. Serves' /\ Matches'
    BY <1>5, <1>6, <2>1 DEF Serves, Matches, Build
  <2> QED
    BY <1>1, <1>3, <1>5, <2>1, <2>2 DEF Stage, Advances, LastSteps
<1> QED
  BY <1>1, <1>2, <1>3, <1>4, <1>5, <1>6, <1>7, RegistryFacts, HandlerStep DEF InCloud, Steps

LEMMA QueryKeeps ==
  ASSUME Inductive, NEW r \in Requests, QueryCheck(r) \/ QueryAsk(r) PROVE Inductive'
<1>1. /\ r \in InFlight /\ request[r].at \in {"check", "ask"}
      /\ UNCHANGED <<environment, current, override, generator, port, ended, overlap>>
  BY DEF QueryCheck, QueryAsk, InFlight, registry
<1>2. ~overlap /\ Stage(r) => Steady'
  BY <1>1 DEF Stage, Steady, Serves, Matches, Unspent, Build
<1>3. ASSUME NEW next, Advances(r, next), next.at \in {"ask", "done"}, InCloud(next.held),
             InCloud(next.used)
      PROVE  Inductive'
  <2>1. RoutedAs(next)
    BY <1>3 DEF RoutedAs, SwitchSteps, LogoutSteps, LastSteps
  <2>2. ~overlap /\ Stage(r) => IF next.at = "done" THEN Steady' ELSE Stage(r)'
    BY <1>2, <1>3 DEF Stage, Advances, LastSteps
  <2> QED
    BY <1>1, <1>3, <2>1, <2>2, RegistryFacts, HandlerStep DEF InCloud, Steps
<1>4. CASE QueryCheck(r) /\ port = None
  <2> DEFINE next == [request[r] EXCEPT !.at = "done", !.held = None, !.reply = "llm_not_configured"]
  <2>1. Advances(r, next)
    BY <1>4, AnswerAt DEF QueryCheck, Inductive, Advances, Replies
  <2>2. next.at = "done" /\ next.held = None /\ next.used = request[r].used
    BY RegistryFacts DEF Records
  <2> HIDE DEF next
  <2> QED
    BY <1>3, <2>1, <2>2, RegistryFacts DEF InCloud
<1>5. CASE QueryCheck(r) /\ port # None
  <2> DEFINE next == [request[r] EXCEPT !.at = "ask"]
  <2>1. Advances(r, next)
    BY <1>5, GotoAt DEF QueryCheck, Inductive, Advances, Steps
  <2>2. next.at = "ask" /\ next.held = request[r].held /\ next.used = request[r].used
    BY RegistryFacts DEF Records
  <2> HIDE DEF next
  <2> QED
    BY <1>3, <2>1, <2>2, RegistryFacts DEF InCloud
<1>6. CASE QueryAsk(r)
  <2> DEFINE reply == IF port = None THEN "crashed" ELSE "answered"
             next  == [request[r] EXCEPT !.at = "done", !.used = port, !.reply = reply]
  <2>1. request[r] \in Records /\ port \in Generators \cup {None} /\ reply \in Replies
    BY RegistryFacts DEF Replies
  <2>2. request' = [request EXCEPT ![r] = next] /\ request \in [Requests -> Records]
    BY <1>6 DEF QueryAsk, Inductive, TypeOK, Records, Replies
  <2> HIDE DEF reply
  <2>3. /\ next \in Records /\ next.at = "done" /\ next.used = port
        /\ next.held = request[r].held
    BY <2>1 DEF Records, Steps
  <2> HIDE DEF next
  <2>4. Advances(r, next)
    BY <2>2, <2>3 DEF Advances
  <2>5. InCloud(next.held) /\ InCloud(next.used)
    BY <2>3, RegistryFacts
  <2> QED
    BY <1>3, <2>3, <2>4, <2>5
<1> QED
  BY <1>4, <1>5, <1>6
-----------------------------------------------------------------------------
LEMMA InitInductive == Init => Inductive
<1> SUFFICES ASSUME Init PROVE Inductive
  OBVIOUS
<1>1. \A r \in Requests : request[r] = Idle
  BY DEF Init
<1>2. Idle \in Records
  BY DEF Idle, Records, Steps, Providers, Replies
<1>3. TypeOK
  <2>1. request \in [Requests -> Records]
    BY <1>2 DEF Init
  <2>2. generator \in Generators \cup {None} /\ port \in Generators \cup {None}
    BY DEF Init, Build, Generators, Providers
  <2> QED
    BY <2>1, <2>2 DEF TypeOK, Init, Providers, Records, Replies
<1>4. Unstarted /\ Routed
  BY <1>1 DEF Unstarted, Routed, Idle, SwitchSteps, LogoutSteps, LastSteps, Init
<1>5. InCloud(generator) /\ (generator # None => generator.provider = "local")
  BY <1>3, BuildFacts DEF Init, Providers
<1>6. CloudKeyStaysInCloud
  BY <1>1, <1>5 DEF CloudKeyStaysInCloud, InCloud, Init, Idle
<1>7. Steady
  BY <1>5 DEF Steady, Serves, Matches, Unspent, Init
<1>8. InFlight = {}
  BY <1>1 DEF InFlight, Idle
<1> QED
  BY <1>3, <1>4, <1>6, <1>7, <1>8 DEF Inductive, Unshared, Alone

LEMMA StutterKeeps == Inductive /\ UNCHANGED vars => Inductive'
<1> SUFFICES ASSUME Inductive, UNCHANGED vars PROVE Inductive'
  OBVIOUS
<1> USE DEF vars, registry
<1>1. TypeOK' /\ Unstarted' /\ Routed' /\ CloudKeyStaysInCloud'
  BY DEF Inductive, TypeOK, Unstarted, Routed, CloudKeyStaysInCloud
<1>2. InFlight' = InFlight /\ (Steady' <=> Steady) /\ \A r \in Requests : Stage(r)' <=> Stage(r)
  BY DEF InFlight, Steady, Serves, Matches, Unspent, Stage, Build
<1>3. Unshared'
  BY <1>2 DEF Inductive, Unshared, Alone, InFlight
<1> QED
  BY <1>1, <1>3 DEF Inductive

LEMMA NextKeeps == Inductive /\ [Next]_vars => Inductive'
<1> SUFFICES ASSUME Inductive, Next PROVE Inductive'
  BY StutterKeeps
<1>1. PICK r \in Requests : SwitchCome(r) \/ LogoutCome(r) \/ QueryCome(r) \/ Step(r)
  BY DEF Next
<1> QED
  BY <1>1, ComingKeeps, SwitchKeyKeeps, SwitchBuildKeeps, SwitchCurrentKeeps, SetPortKeeps,
     SwitchStoreKeeps, TakeGeneratorKeeps, LogoutClearKeeps, LogoutLooksKeep, LogoutFallBackKeeps,
     LogoutRebuildKeeps, QueryKeeps
  DEF Step

\* The inductive invariant holds however switches, logouts and queries interleave.
THEOREM InductiveInvariant == Spec => []Inductive
BY InitInductive, NextKeeps, PTL DEF Spec

\* The registry, the bridge and the handlers only hold values of their types.
THEOREM TypeCorrect == Spec => []TypeOK
<1>1. Inductive => TypeOK
  BY DEF Inductive
<1> QED
  BY <1>1, InductiveInvariant, PTL

\* No interleaving of llm/provider, logout and queries makes the registry or the bridge
\* send a cloud key, typed or of the environment, to the local model's endpoint.
THEOREM CloudKeysStayInTheCloud == Spec => []CloudKeyStaysInCloud
<1>1. Inductive => CloudKeyStaysInCloud
  BY DEF Inductive
<1> QED
  BY <1>1, InductiveInvariant, PTL

\* As long as no handler overlapped another, what llm/status tells between requests is
\* the provider that answers, and no key of a session that was logged out is left.
THEOREM StatusTellsWhoAnswers == Spec => []StatusIsWhatAnswers
<1>1. ASSUME Inductive PROVE StatusIsWhatAnswers
  <2> SUFFICES ASSUME ~overlap, InFlight = {}
               PROVE  /\ port = generator
                      /\ generator # None => generator.provider = current
                      /\ environment.key = None =>
                           /\ generator = Build(current)
                           /\ \A k \in ended : \A g \in {generator, port} :
                                override # k /\ (g # None => g.key # k)
    BY DEF StatusIsWhatAnswers
  <2>1. Steady
    BY <1>1 DEF Inductive, Unshared
  <2>2. ASSUME environment.key = None, NEW k \in ended
        PROVE  override # k /\ (generator # None => generator.key # k)
    <3>1. override # k /\ generator = Build(current)
      BY <2>1, <2>2 DEF Steady, Unspent, Matches
    <3>2. generator # None => generator.key \in {None, override}
      BY <1>1, <2>2, <3>1, BuildFacts, RegistryFacts
    <3>3. k # None
      BY <1>1, RegistryFacts, AnswerProvidersAssumption
    <3> QED
      BY <3>1, <3>2, <3>3
  <2> QED
    BY <2>1, <2>2 DEF Steady, Serves, Matches
<1> QED
  BY <1>1, InductiveInvariant, PTL
=============================================================================
