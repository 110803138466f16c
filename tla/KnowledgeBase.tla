---------------------------- MODULE KnowledgeBase ----------------------------
(***************************************************************************)
(* The knowledge files of a workspace: knowledge_upload, file delete,      *)
(* logout with its clearing of uploads, and (multi-file) queries, over the *)
(* asset records, the grants, the sessions and the search index.           *)
(*                                                                         *)
(* An upload is `async def': after `await file.read()' it keeps the event  *)
(* loop to its end, so uploads exclude one another.  The other handlers    *)
(* run on pool threads beside it.  One action is one read or write of      *)
(* state that another thread can touch; the index is one tuple, which each *)
(* update reads, rebuilds and stores.                                      *)
(*                                                                         *)
(* Everything an upload makes is named by its request: the asset, its one  *)
(* version, the version's slice of the index, and the QUERY grant.         *)
(***************************************************************************)
EXTENDS Naturals, FiniteSets

CONSTANTS
  Requests,       \* the HTTP requests of the run, each handled once
  Names,          \* file names under the upload directory
  Sessions,       \* browser sessions, each logged in once
  UserOf,         \* session -> user
  ClearOnLogout,  \* clear_uploads_on_logout
  MayRaise,       \* may a scan raise because another thread stores meanwhile?
  MaxInFlight,    \* handlers at work at a time: 1 makes them sequential
  None

ASSUME KnowledgeBaseAssumption ==
  /\ IsFiniteSet(Requests)
  /\ DOMAIN UserOf = Sessions
  /\ ClearOnLogout \in BOOLEAN
  /\ MayRaise \in BOOLEAN
  /\ MaxInFlight \in Nat \ {0}
  /\ None \notin Requests

\* What a client sends: an upload or a delete names one file, a query some.
Calls ==
  [want : {"upload", "delete"}, session : Sessions, names : {{n} : n \in Names}]
  \cup [want : {"query"}, session : Sessions, names : (SUBSET Names) \ {{}}]
  \cup [want : {"logout"}, session : Sessions, names : {{}}]

Steps == {"idle", "done",
          "read", "create", "parse", "slice_read", "slice_store", "transit", "activate",
          "store_active", "add_grant",
          "find_own", "list", "next", "drop_read", "drop_store", "revoke", "remove", "sign_out",
          "find", "authorize", "check_grant", "scope_grants", "scope_assets", "search",
          "references", "generate"}

Replies == {"none", "uploaded", "exists", "ingest_failed", "deleted", "missing", "denied",
            "signed_out", "answered", "refused", "crashed"}

VARIABLES
  session,  \* state of a session: new, live or closed
  asset,    \* the asset an upload made: none, inactive or active
  version,  \* index state of its version: none, queued or ready
  index,    \* uploads whose slice is in the index
  grants,   \* uploads whose QUERY grant exists
  pc, call, reply,  \* threads: step, request, answer
  local,    \* what a handler holds (Local)
  cited,    \* versions an answer cites
  removed, gone,  \* history: assets removed in full; those removed when a query came
  overlap   \* history: did a request ever come while another was at work?

server  == <<session, asset, version, index, grants>>
history == <<removed, gone, overlap>>
vars    == <<server, pc, call, reply, local, cited, history>>

Local == [names  : SUBSET Names,        \* names a query has still to look up
          picked : SUBSET Requests,     \* assets still to be worked on
          sliced : SUBSET Requests,     \* of these, the ones that were active when read
          item   : Requests \cup {None}, \* the one at work
          scope  : SUBSET Requests,     \* versions a query is narrowed to, then its evidence
          held   : SUBSET Names,        \* names the query's user held grants for when read
          copy   : SUBSET Requests]     \* the tuple an update of the index read

Blank == [names |-> {}, picked |-> {}, sliced |-> {}, item |-> None, scope |-> {}, held |-> {},
          copy |-> {}]

TypeOK ==
  /\ session \in [Sessions -> {"new", "live", "closed"}]
  /\ asset \in [Requests -> {"none", "inactive", "active"}]
  /\ version \in [Requests -> {"none", "queued", "ready"}]
  /\ index \subseteq Requests /\ grants \subseteq Requests
  /\ pc \in [Requests -> Steps]
  /\ call \in [Requests -> Calls \cup {None}]
  /\ \A r \in Requests : pc[r] # "idle" => call[r] \in Calls
  /\ reply \in [Requests -> Replies]
  /\ local \in [Requests -> Local]
  /\ {cited, gone} \subseteq [Requests -> SUBSET Requests]
  /\ removed \subseteq Requests
  /\ overlap \in BOOLEAN

Init ==
  /\ session = [s \in Sessions |-> "new"]
  /\ asset = [r \in Requests |-> "none"]
  /\ version = [r \in Requests |-> "none"]
  /\ index = {} /\ grants = {}
  /\ pc = [r \in Requests |-> "idle"]
  /\ call = [r \in Requests |-> None]
  /\ reply = [r \in Requests |-> "none"]
  /\ local = [r \in Requests |-> Blank]
  /\ cited = [r \in Requests |-> {}] /\ gone = cited
  /\ removed = {}
  /\ overlap = FALSE
-----------------------------------------------------------------------------
InFlight == {r \in Requests : pc[r] \notin {"idle", "done"}}

Owner(r) == UserOf[call[r].session]

\* The path of what an upload made, and the asset records at the paths of names.
FileOf(r) == call[r].names

AssetsAt(some) == {a \in Requests : asset[a] # "none" /\ FileOf(a) \subseteq some}

\* Names of the files a user's grants cover.
Granted(user) == UNION {FileOf(g) : g \in {h \in grants : Owner(h) = user}}

Goto(r, step) == pc' = [pc EXCEPT ![r] = step] /\ UNCHANGED reply

\* The next step of a handler, which keeps what it holds or takes up mine.
Go(r, step) == Goto(r, step) /\ UNCHANGED local

GoWith(r, step, mine) == Goto(r, step) /\ local' = [local EXCEPT ![r] = mine]

Answer(r, answer) ==
  /\ pc' = [pc EXCEPT ![r] = "done"]
  /\ reply' = [reply EXCEPT ![r] = answer]
  /\ local' = [local EXCEPT ![r] = Blank]

\* A scan of a dictionary raises when another thread adds or removes a key meanwhile:
\* the steps that do, by dictionary.
Resizing == [assets   |-> {"create", "store_active", "remove"},
             versions |-> {"create", "remove"},
             grants   |-> {"add_grant", "revoke"}]

Raises(r, dictionary) ==
  /\ MayRaise
  /\ \E q \in Requests \ {r} : pc[q] \in Resizing[dictionary]
  /\ Answer(r, "crashed")
-----------------------------------------------------------------------------
Login(s) ==
  /\ session[s] = "new"
  /\ session' = [session EXCEPT ![s] = "live"]
  /\ UNCHANGED <<asset, version, index, grants, pc, call, reply, local, cited, history>>

FirstStep(want) ==
  CASE want = "upload" -> "read"
    [] want = "delete" -> "find_own"
    [] want = "query"  -> "find"
    [] want = "logout" -> IF ClearOnLogout THEN "list" ELSE "sign_out"

\* require_actor resolves the cookie before the handler starts.
Arrive(r) ==
  /\ pc[r] = "idle" /\ Cardinality(InFlight) < MaxInFlight
  /\ \E c \in Calls :
       /\ session[c.session] = "live"
       /\ call' = [call EXCEPT ![r] = c]
       /\ GoWith(r, FirstStep(c.want), [Blank EXCEPT !.names = c.names])
       /\ gone' = [gone EXCEPT ![r] = IF c.want = "query" THEN removed ELSE {}]
  /\ overlap' = (overlap \/ InFlight # {})
  /\ UNCHANGED <<server, cited, removed>>
-----------------------------------------------------------------------------
\* Steps of an upload that keep the event loop.
OnLoop == {"create", "parse", "slice_read", "slice_store", "transit", "activate",
           "store_active", "add_grant"}

UploadRead(r) ==
  /\ pc[r] = "read"
  /\ \A q \in Requests : pc[q] \notin OnLoop
  /\ IF AssetsAt(FileOf(r)) # {} THEN Answer(r, "exists") ELSE Go(r, "create")
  /\ UNCHANGED <<server, call, cited, history>>

\* get_or_create_asset, then create_asset_version, whose scan may raise. An asset
\* removed between the two leaves a version row that nothing reads.
UploadCreate(r) ==
  /\ pc[r] = "create"
  /\ asset' = [asset EXCEPT ![r] = "inactive"]
  /\ \/ version' = [version EXCEPT ![r] = "queued"] /\ Go(r, "parse")
     \/ Raises(r, "versions") /\ UNCHANGED version
  /\ UNCHANGED <<session, index, grants, call, cited, history>>

\* A document that does not parse, or to nothing, leaves its asset behind.
UploadParse(r) ==
  /\ pc[r] = "parse"
  /\ Go(r, "slice_read") \/ Answer(r, "ingest_failed")
  /\ UNCHANGED <<server, call, cited, history>>

\* An update of the index builds the new tuple from the one it read.
ReadIndex(r, next) ==
  /\ GoWith(r, next, [local[r] EXCEPT !.copy = index])
  /\ UNCHANGED <<server, call, cited, history>>

UploadSliceRead(r) == pc[r] = "slice_read" /\ ReadIndex(r, "slice_store")

UploadSliceStore(r) ==
  /\ pc[r] = "slice_store"
  /\ index' = local[r].copy \cup {r}
  /\ Go(r, "transit")
  /\ UNCHANGED <<session, asset, version, grants, call, cited, history>>

\* queued, parsing, indexed, ready; KeyError if the version was removed meanwhile,
\* here or at the activation, is one no handler expects.
UploadTransit_StopsAtIndexed(r) ==
  /\ pc[r] = "transit" /\ version[r] # "none"
  /\ version' = [version EXCEPT ![r] = "indexed"]
  /\ Go(r, "activate")
  /\ UNCHANGED <<session, asset, index, grants, call, cited, history>>

UploadTransit(r) ==
  /\ pc[r] = "transit"
  /\ \/ version[r] = "none" /\ Answer(r, "crashed") /\ UNCHANGED version
     \/ /\ version[r] # "none"
        /\ version' = [version EXCEPT ![r] = "ready"]
        /\ Go(r, "activate")
  /\ UNCHANGED <<session, asset, index, grants, call, cited, history>>

UploadActivate(r) ==
  /\ pc[r] = "activate"
  /\ IF asset[r] = "none" THEN Answer(r, "crashed") ELSE Go(r, "store_active")
  /\ UNCHANGED <<server, call, cited, history>>

\* activate_asset_version stores a copy of the asset it read: a removal between
\* the two is undone, but for the version.
UploadStoreActive(r) ==
  /\ pc[r] = "store_active"
  /\ asset' = [asset EXCEPT ![r] = "active"]
  /\ Go(r, "add_grant")
  /\ UNCHANGED <<session, version, index, grants, call, cited, history>>

UploadGrant(r) ==
  /\ pc[r] = "add_grant"
  /\ grants' = grants \cup {r}
  /\ Answer(r, "uploaded")
  /\ UNCHANGED <<session, asset, version, index, call, cited, history>>
-----------------------------------------------------------------------------
\* A handler picks the assets it will drop, with their active versions as they are.
Pick(r, some) ==
  GoWith(r, "next", [local[r] EXCEPT !.picked = some,
                                     !.sliced = {a \in some : asset[a] = "active"}])

DeleteFind_AnyOwner(r) ==
  /\ pc[r] = "find_own"
  /\ LET found == AssetsAt(FileOf(r))
     IN  \/ found = {} /\ Answer(r, "missing")
         \/ found # {} /\ Pick(r, found)
  /\ UNCHANGED <<server, call, cited, history>>

DeleteFind(r) ==
  /\ pc[r] = "find_own"
  /\ LET found == AssetsAt(FileOf(r))
     IN  \/ found = {} /\ Answer(r, "missing")
         \/ (\E a \in found : Owner(a) # Owner(r)) /\ Answer(r, "denied")
         \/ found # {} /\ (\A a \in found : Owner(a) = Owner(r)) /\ Pick(r, found)
  /\ UNCHANGED <<server, call, cited, history>>

LogoutList_ActiveOnly(r) ==
  /\ pc[r] = "list"
  /\ Pick(r, {a \in AssetsAt(Names) : Owner(a) = Owner(r) /\ asset[a] = "active"})
  /\ UNCHANGED <<server, call, cited, history>>

LogoutList(r) ==
  /\ pc[r] = "list"
  /\ Pick(r, {a \in AssetsAt(Names) : Owner(a) = Owner(r)})
  /\ UNCHANGED <<server, call, cited, history>>

DropNext(r) ==
  /\ pc[r] = "next"
  /\ LET picked == local[r].picked
     IN  \/ picked = {} /\ call[r].want = "logout" /\ Go(r, "sign_out")
         \/ picked = {} /\ call[r].want = "delete" /\ Answer(r, "deleted")
         \/ \E a \in picked :
              GoWith(r, IF a \in local[r].sliced THEN "drop_read" ELSE "revoke",
                     [local[r] EXCEPT !.picked = picked \ {a}, !.item = a])
  /\ UNCHANGED <<server, call, cited, history>>

DropRead(r) == pc[r] = "drop_read" /\ ReadIndex(r, "drop_store")

DropStore(r) ==
  /\ pc[r] = "drop_store"
  /\ index' = local[r].copy \ {local[r].item}
  /\ Go(r, "revoke")
  /\ UNCHANGED <<session, asset, version, grants, call, cited, history>>

\* revoke_permission_grants drops every grant with the file's path.
Covering_Inactive(r) ==
  {g \in grants : FileOf(g) = FileOf(local[r].item) /\ local[r].item \notin local[r].sliced}

Covering(r) == {g \in grants : FileOf(g) = FileOf(local[r].item)}

DropGrants(r) ==
  /\ pc[r] = "revoke"
  /\ grants' = grants \ Covering(r)
  /\ Go(r, "remove")
  /\ UNCHANGED <<session, asset, version, index, call, cited, history>>

\* remove_asset pops the asset and then its version; the scan for it may raise.
DropAsset(r) ==
  /\ pc[r] = "remove"
  /\ LET a == local[r].item
     IN  /\ asset' = [asset EXCEPT ![a] = "none"]
         /\ \/ asset[a] = "none" /\ Go(r, "next") /\ UNCHANGED <<version, removed>>
            \/ /\ asset[a] # "none"
               /\ version' = [version EXCEPT ![a] = "none"]
               /\ removed' = removed \cup {a}
               /\ Go(r, "next")
            \/ asset[a] # "none" /\ Raises(r, "versions") /\ UNCHANGED <<version, removed>>
  /\ UNCHANGED <<session, index, grants, call, cited, gone, overlap>>

SignOut(r) ==
  /\ pc[r] = "sign_out"
  /\ session' = [session EXCEPT ![call[r].session] = "closed"]
  /\ Answer(r, "signed_out")
  /\ UNCHANGED <<asset, version, index, grants, call, cited, history>>
-----------------------------------------------------------------------------
\* The route turns names into asset ids one by one; a missing one ends the query.
QueryFind(r) ==
  /\ pc[r] = "find"
  /\ \E n \in local[r].names :
       \/ AssetsAt({n}) = {} /\ Answer(r, "missing")
       \/ /\ AssetsAt({n}) # {}
          /\ GoWith(r, IF local[r].names = {n} THEN "authorize" ELSE "find",
                    [local[r] EXCEPT !.names = @ \ {n}, !.picked = @ \cup AssetsAt({n})])
  /\ UNCHANGED <<server, call, cited, history>>

\* The port authorizes each id on its own: the asset must be active, and a grant,
\* read after it, must cover its path.
QueryAuthorize(r) ==
  /\ pc[r] = "authorize"
  /\ \/ local[r].picked = {} /\ Go(r, "scope_grants")
     \/ \E a \in local[r].picked :
          \/ asset[a] # "active" /\ Answer(r, "denied")
          \/ /\ asset[a] = "active"
             /\ GoWith(r, "check_grant", [local[r] EXCEPT !.picked = @ \ {a}, !.item = a])
  /\ UNCHANGED <<server, call, cited, history>>

QueryCheckGrant(r) ==
  /\ pc[r] = "check_grant"
  /\ IF FileOf(local[r].item) \subseteq Granted(Owner(r))
     THEN GoWith(r, "authorize", [local[r] EXCEPT !.scope = @ \cup {local[r].item}])
     ELSE Answer(r, "denied")
  /\ UNCHANGED <<server, call, cited, history>>

QueryScopeGrants(r) ==
  /\ pc[r] = "scope_grants"
  /\ GoWith(r, "scope_assets", [local[r] EXCEPT !.held = Granted(Owner(r))])
  /\ UNCHANGED <<server, call, cited, history>>

\* Active, with its version row present and ready.
Serving_AnyVersion(a) == asset[a] = "active"

Serving(a) == asset[a] = "active" /\ version[a] = "ready"

\* The scope the adapter resolves, narrowed to the authorized assets.
QueryScopeAssets(r) ==
  /\ pc[r] = "scope_assets"
  /\ LET allowed == {a \in local[r].scope : Serving(a) /\ FileOf(a) \subseteq local[r].held}
     IN  GoWith(r, "search", [local[r] EXCEPT !.scope = allowed])
  /\ UNCHANGED <<server, call, cited, history>>

\* The best chunks are the evidence: of some of the versions searched.
QuerySearch(r) ==
  /\ pc[r] = "search"
  /\ LET found == local[r].scope \cap index
     IN  \/ found = {} /\ Answer(r, "refused")
         \/ \E hits \in (SUBSET found) \ {{}} :
              GoWith(r, "references", [local[r] EXCEPT !.scope = hits])
  /\ UNCHANGED <<server, call, cited, history>>

\* A reference that is rejected raises PermissionError out of the handler.
QueryReferences(r) ==
  /\ pc[r] = "references"
  /\ IF \A a \in local[r].scope : Serving(a) THEN Go(r, "generate") ELSE Answer(r, "crashed")
  /\ UNCHANGED <<server, call, cited, history>>

\* The model answers from the evidence, or is not available.
QueryGenerate(r) ==
  /\ pc[r] = "generate"
  /\ \/ cited' = [cited EXCEPT ![r] = local[r].scope] /\ Answer(r, "answered")
     \/ Answer(r, "refused") /\ UNCHANGED cited
  /\ UNCHANGED <<server, call, history>>
-----------------------------------------------------------------------------
ScanRaises(r) ==
  /\ \/ pc[r] \in {"read", "create", "find_own", "list", "find", "scope_assets"}
        /\ Raises(r, "assets")
     \/ pc[r] \in {"revoke", "check_grant", "scope_grants"} /\ Raises(r, "grants")
  /\ UNCHANGED <<server, call, cited, history>>

UploadStep(r) ==
  \/ UploadRead(r) \/ UploadCreate(r) \/ UploadParse(r) \/ UploadSliceRead(r)
  \/ UploadSliceStore(r) \/ UploadTransit(r) \/ UploadActivate(r) \/ UploadStoreActive(r)
  \/ UploadGrant(r)

DropStep(r) ==
  \/ DeleteFind(r) \/ LogoutList(r) \/ DropNext(r) \/ DropRead(r) \/ DropStore(r)
  \/ DropGrants(r) \/ DropAsset(r) \/ SignOut(r)

QueryStep(r) ==
  \/ QueryFind(r) \/ QueryAuthorize(r) \/ QueryCheckGrant(r) \/ QueryScopeGrants(r)
  \/ QueryScopeAssets(r) \/ QuerySearch(r) \/ QueryReferences(r) \/ QueryGenerate(r)

Next ==
  \/ \E s \in Sessions : Login(s)
  \/ \E r \in Requests : Arrive(r) \/ UploadStep(r) \/ DropStep(r) \/ QueryStep(r) \/ ScanRaises(r)

Spec == Init /\ [][Next]_vars
-----------------------------------------------------------------------------
\* A query that comes after a file was removed, record and version, never answers from
\* it, though the index may have kept, or a late activation brought back, the rest:
\* the index is never an authority (InMemorySearchIndex).
DeletedNeverAnswers == \A r \in Requests : cited[r] \cap gone[r] = {}

\* An answer cites files of the user who asked. Only where requests overlapped, the
\* grant of that user's own upload of the same name may have outlived the upload.
AnswersOwnFiles ==
  \A r \in Requests : \A a \in cited[r] :
    \/ Owner(a) = Owner(r)
    \/ /\ overlap
       /\ \E b \in Requests :
            reply[b] = "uploaded" /\ Owner(b) = Owner(r) /\ FileOf(b) = FileOf(a)

\* As long as requests come one at a time, records, grants and index agree between
\* them on the uploads that succeeded and were not removed, and a user without a session
\* has left no file, not even of an upload that failed.
RecordsAgree ==
  InFlight = {} /\ ~overlap =>
    LET kept == {a \in Requests : reply[a] = "uploaded"} \ removed
    IN  /\ index = kept
        /\ grants = kept
        /\ kept = {a \in Requests : asset[a] = "active"}
        /\ ClearOnLogout =>
             \A a \in Requests : asset[a] # "none" =>
               \E s \in Sessions : session[s] = "live" /\ UserOf[s] = Owner(a)

\* Deleting never touches another account's material (main.py:715): a slice or a grant
\* that goes in a handler's step was its user's own, as long as no request overlapped
\* another; beside an upload, the tuple a delete stores may lack another user's slice.
DeletesOnlyOwn ==
  [][\A r \in Requests : ~overlap /\ pc[r] # pc'[r] /\ call[r] # None =>
       \A a \in (index \ index') \cup (grants \ grants') : Owner(a) = Owner(r)]_vars
=============================================================================
