# Verification of the agent workspace control plane

TLA+ models of the control plane in this repository (`src/control_plane`) and of the parts
of the retrieval service (`src/service`) it shares state with, checked with TLC on small
instances. Every safety property that TLC checks is also proved with TLAPS, for every instance.

## 1. The system

A FastAPI application (`control_plane/app/main.py`) authorizes what an agent or a
browser wants to do with the files of a workspace. Risky work goes through a loop:
a *plan* is created from the current assets, its creator *confirms* it, somebody else
*approves* it where the policy asks for that, a *port* executes it in a controlled
directory, a second port *reads the result back*, and what does not verify becomes a
*recovery task*. Beside the loop there are knowledge files that are uploaded, parsed,
indexed and queried, assessments computed from seeded materials and a rule set, and an
MCP server that offers four of these operations to agents.

All state is in memory (`InMemoryControlPlaneRepository`, the session store, the RAG
index); only the files themselves are on disk. A restart of the server loses everything
but the files, so it has no crash recovery and none is modelled; what may crash and be
taken up again is an ingestion job (`AssetVersions`). Concurrency is real: handlers declared
`def` run on the threads of the server's pool, handlers declared `async def` (the
uploads, the material assessment) run on the event loop and block it, and no handler
takes a lock.

### Inventory

| Component | State | Operations | Interacts with | Hard behaviour | What makes it correct |
|---|---|---|---|---|---|
| Plan loop (`service.py` 746-1368) | plans, confirmations, approvals, jobs, recovery tasks, audit | `confirm_plan`, `decide_approval`, `_execute_plan`, `resolve_recovery_task` | repository, executor and verifier ports | two handlers on one plan; frozen copies written back; ports that raise; retries with the same key; expiry and revoked grants between steps | confirmed by the creator and approved by another before anything runs; runs once; results only from a read-back; every failed read-back owned by a task |
| Controlled directory (`controlled_file_executor.py`, `verification.py`, `plan_demo_upload`, `create_plan`) | files, assets' paths, active versions, plan snapshots | upload, create plan, execute, verify, apply path updates | plan loop, repository | uploads racing plans; `rename` over existing files; plans of several operations that fail half way; snapshots that do not name the path; the same bytes uploaded twice | the records and the disk agree, or the plan to blame is on record; verified means the approved content is where it was approved to be |
| Repository (`repository.py`, `domain.py`) | dictionaries of frozen records | lookups by scan, store by key, uniqueness checks | everything | check-then-store and scans beside other threads | unique confirmation, approval and job; legal version transitions |
| Upload pipeline (`service.py` 205-366) | assets, versions, index state | `upload`, `update_index_state`, activation | policy, executor, RAG port | reports that arrive late, twice or in another order; a hand-over that raises after it was accepted; check and store without a lock | the state goes forward only, each step once; only a ready version is active; a refused hand-over ends failed |
| Knowledge files (`main.py` 465-752, 1444-1473) | assets of a session's user, files, index slices | upload, delete, clear on logout, query | sessions, RAG bridges, index | an upload on the loop against a delete or a logout on a thread; ingestion that fails half way | no query answers from a deleted file or another user's; a failed upload leaves nothing behind |
| RAG ingestion and index (`service/app/rag/ingestion.py`, `index.py`) | one tuple of chunks | `process`, `replace_version`, `delete_version`, `search` | bridges, retrieval, index-state route | read-modify-write of the tuple from several threads; jobs delivered again | chunks are there before a version is reported ready; nothing else's slice is touched |
| Retrieval (`retrieval.py`, `vector_retrieval.py`, `llm.py`) | none of its own | `answer` | index, policy, model | grant or version changed while the model answers | nothing unauthorized is ranked, sent to the model or cited |
| Rules, assessments, matching (`service.py` 368-564, `finance_matching.py`) | rule sets, versions, reports | create rule set, assess | retrieval, repository | assets and grants that change between the service's check and the bridge's; rule sets anybody may create; many exits, each with its own trail | a report rests on what the actor could read at both checks and on the fixture's rule; one audit event per outcome; score, level and missing items agree |
| Sessions (`sessions.py`, `main.py` 287-320) | tokens, identities, context versions | login, resolve, logout | every route | logout while the user's requests run | a revoked token acts no more; its uploads are gone |
| Provider registry (`main.py` 971-1019) | current model, cloud key | switch, set and clear the key | queries, logout | one registry for all sessions, three fields stored one after another | a cloud key goes to no other endpoint and is used no more once cleared; what the page shows is what answers |
| Policy (`policy.py`) | none | `evaluate_authorization` | every operation | deny before allow, path prefixes, role and user principals | what one operation is told, every other is; a denied path denies the whole request |
| Plan hash (`plan_hash.py`) | none | canonical hash | plan loop | - | equal plans, equal hashes |
| MCP server (`mcp_server.py`) | its own seeded repository, audit trail | four tools | policy, bridges, matching | three ways to the policy; exceptions that end the loop | tools agree with `authz_check`; the trail is the agents' calls, in order |
| Demo seeding (`scripts/`) | assets, grants and the rule set at start | seed, verify files | - | - | an initial state of the modules above |
| Browser client (`static/`) | - | - | routes | - | not modelled |

Every hazard found, with its line and the properties that watch it, is in
`PROJECT.json`; those no property watches have a note.

## 2. The modules

| Module | What it is |
|---|---|
| `PlanExecution` | the plan loop: every step of every handler |
| `PlanLifecycle` | the abstract life of a plan, which `PlanExecution` implements |
| `MCPlanExecution` | instances: carol (creator, approver), dave (approver), olga (approver elsewhere) |
| `PlanExecutionProofs`, `PlanSequenceProofs` | the theorems about `PlanExecution` and their proofs: for every interleaving, and for requests that come one at a time |
| `ControlledDirectory` | disk, uploads, asset records, snapshots, execution and read-back |
| `MCControlledDirectory` | its instances |
| `ControlledDirectoryProofs` | the theorems about `ControlledDirectory` and their proofs |
| `KnowledgeBase` | knowledge files: upload, delete, logout, queries, over records, grants, sessions and index |
| `MCKnowledgeBase` | its instances: alice and bob |
| `KnowledgeBaseProofs` | the theorems about `KnowledgeBase` and their proofs |
| `AssetVersions` | upload, hand-over, ingestion job with redelivery, index-state reports, activation |
| `IndexLifecycle` | the abstract life of a version, which `AssetVersions` implements |
| `MCAssetVersions` | its instance |
| `AssetVersionsProofs` | the theorems about `AssetVersions` and their proofs |
| `Policy` | `evaluate_authorization`: operators over actors, grants and paths, no state |
| `Matching` | scoring of found facts against a rule's requirements, no state |
| `Assessment` | the three assessment routes, the bridge, rule sets, and what others change meanwhile; uses `Policy`, `Matching` |
| `MCAssessment` | its instance: two samples, alice who uploaded a file, bob who is denied one sample |
| `AssessmentProofs` | the theorems about `Policy`, `Matching` and `Assessment` and their proofs |
| `McpServer` | the four tools of the MCP server and their audit trail; uses `Policy`, `Matching` |
| `MCMcpServer` | its instance: alice and bob under three sets of grants |
| `McpServerProofs` | the theorems about `McpServer` and their proofs |
| `AnswerProviders` | provider registry, typed key, the bridge's generator: switches, logouts, queries |
| `MCAnswerProviders` | its instances |
| `AnswerProvidersProofs` | the theorems about `AnswerProviders` and their proofs |

### PlanExecution

*State.* `planState`, `confirmedBy`, `approval`, `jobState`, `taskState`, `audit` are the
repository's dictionaries, reduced to the fields the handlers test. A job is keyed by
plan and idempotency key as `_find_execution_job_by_key` does; a recovery task by the
request that opened it; the audit log by request, because the properties only ask which
events a request left. `pc`, `call`, `seen`, `outcome` and `reply` are a handler's thread:
its next step, the request, the frozen `Plan` and `Approval` it read, what its ports
answered and the HTTP answer. `drift` is the part of the world that revalidation looks
at: expiry, context version, grants, asset snapshots. `evidence` and `late` are history,
read by no action.

*Steps.* One action per call of the repository or a port, in the order of the code.
A thread can be switched between any two of them, so the frozen copy a handler read is
in `seen` and every test the code makes on the copy is made on `seen`. Inside one
repository method there is no switch that matters: the interpreter switches only at loop
back-edges and calls, so a `for` over a dictionary that finds nothing is followed by the
store without one, and a store by another thread *during* the scan makes it raise
`RuntimeError` - the action `ScanRaises`. Where the code reads two records one after the
other and nothing it decides could tell the difference, the comment at the action says so.
A plan update is `replace(plan, state=...)`, so the last writer wins; that is `SetPlan`.

*Ports.* The executor answers completed, permission denied or failed; the verifier any
verdict of `Verdicts`, or raises when `MayRaise`. `UNMATCHED` stands for a result that
says VERIFIED with `matched` false, which the service records as `unverified`.

*Environment.* `Drift` makes a plan not executable at any moment; only a grant can come
back (`Regrant`).

### PlanLifecycle

Eight lines of state machine for one plan: confirm, approve or reject, start, conclude,
resolve. `plan_serial` checks that `PlanExecution` with `MaxInFlight = 1` implements it
with `state <- planState`. With two threads it does not: a second handler writes
`executing` over a settled plan; this is the `KeyRunsOnce` finding.

### ControlledDirectory

*State.* `disk` maps a path to the file there; a file, its version and a new asset have the
number of the upload that made them, and `bytes` tells what it wrote. Two uploads may write
the same bytes. The code compares fingerprints and never sees a file's number, and neither
does any guard of the model but revalidation, which compares versions (`Same` is the
comparison of fingerprints); the properties use numbers to tell which file went where.
`assetPath` and `active` are the asset records and their active versions. A plan has its
operations, the snapshots `create_plan` took, a `stage` and the operation its thread is `at`.
`origin` (where a file was uploaded) and `took` (which file a move renamed) are history.

*Steps.* An upload is four steps (policy check, `exists`, `write_bytes`, registration),
on the event loop and so one at a time; a plan's execution one step per operation, then
one per read-back, then one per path update. The approvals a plan needs are
`PlanExecution`'s matter: here a plan starts at most once, whenever its snapshots match.
`overlap` is history: it tells whether a handler ever started beside another, for the
properties that promise more when none did.

*Abstracted.* Directories, path-escape checks (all paths are valid), and the executor's
exceptions other than a missing source. A failure of the verifier is in `PlanExecution`.

### KnowledgeBase

*State.* `asset`, `version`, `index` and `grants` are the asset records, the index states,
the slices of the index and the QUERY grants of uploaded files. All four are indexed by the
upload request that made them, because an upload makes exactly one of each with a fresh id;
path and owner of a record are those of its request. `session` is the session store.
`local` is what a handler's thread holds: ids it looked up, grants it read, the tuple of the
index it is about to replace. `removed`, `gone` and `overlap` are history.

*Steps.* `knowledge_upload` is `async def`: once it has its bytes it keeps the event loop,
so at most one upload is in `OnLoop`, beside deletes, logouts and queries on pool threads.
Each read and each store of shared state that another thread can come between is a step:
`replace_version` and `delete_version` read the tuple and store a new one,
`activate_asset_version` reads an asset and stores a changed copy. Steps are merged where a
thread between them leads to the same end, and the comment at the action says so. A scan
raises only while another thread is at a step that adds or removes a key of that dictionary
(`Raises`).

*Abstracted.* A document has one slice, and a search returns some of the slices in its scope
(the limit and the ranking decide which); the controlled samples, which no handler changes,
and grants that come from elsewhere are left out.

### AssetVersions and IndexLifecycle

*State.* `version`, `asset`, `active` and `chunks` are the index states, the asset records,
`active_version_id` and the search index; `file` is the directory. `request` is an upload's
handler, `worker` the ingestion job of its version, and `report` a call of the index-status
route, named by version, delivery and state. Delivery 0 is the upload's own call, when it
marks its version failed. `torn` is history: versions two of whose writers were between
check and store at one time.

*Steps.* An upload is policy check, write, registration, hand-over; it keeps the event loop,
except that `mark_failed` waits for its own report. A report is a read with the transition
check (`ReportRead`) and a store (`ReportStore`), as `transition_asset_version` has no lock.
The job follows `IngestionService.process`: report, parse, replace, two reports, activate.

*Faults.* `Crash` at any step delivers the job again, up to `MaxDeliveries`, or gives it up;
its outstanding report stays on its way. The hand-over may raise before or after the port took the
version. A report's scan of the audit trail may raise (`lost`). Queue and redelivery are not
in `src/`; `Deliver` and `Crash` are modelled from how `process` and the route are written to
be called again, and marked external in the map.

*Abstraction.* `IndexLifecycle` lets a version go queued, parsing, indexed, ready, or fail on
the way, each step once. The promise ends for a version when two of its writers overlap
(`Tear`), because then the code really does overwrite a final state.

### Policy and Matching

Pure operators. A path is the sequence of its segments, so a prefix that ends inside a name
covers nothing, and `.` segments, `..`, absolute paths and backslashes do what they do in
`policy.py`. The decision is a set comprehension over the grants that apply. `Matching` keeps
requirement keys, the citations and the rounding of the score (half to even, as in Python).
Both are checked where they are used, in `Assessment` and `McpServer`, against properties
that state the result in another way.

### Assessment

*State.* `place`, `active` and `grants` are the asset records and grants a route reads, `rules`
the rule versions in order of creation, `request` a route's thread with what it read at the
service (`saw`) and at the bridge (`again`), `audit` and `reports` what it left. `readable` is
history: at which check the actor could really query the asset.

*Steps.* One action per asset read, per reading of the grants, per lookup of a rule, and per
store. `Direct`, `Sample` and `RealAssess` are the three routes; the third runs on the event
loop in one step and leaves neither report nor event. `Move`, `RevokeFile`, `RemoveFile` and
`CreateRule` are what plans, deletes and other users do meanwhile.

*Abstracted.* A document is one fact with one material key; explanation and disclaimer texts,
the language model's wording, and the subjects of a query are left out.

### McpServer

One process handles one message after another, so an action is a whole call. `calls` records
what each was answered, `trail` the audit events. Agents act with their user's grants.
`Killed` is an exception that `handle_message` does not catch, after which nothing runs. An
allowed assessment reads the sources' files again, which belong to nobody in the model: they may
be missing or changed (`Refused`) or unreadable (`Killed`) at any call (`SourceFails`).

### AnswerProviders

`current`, `override` and `generator` are the registry's three fields, `port` the generator the
bridge asks; each read or write of one is a step, because handlers hold no lock, and what a
handler built or read and has yet to store is in its `held`. (Only the build of a generator, which
may read the override, is one step.) A typed key is the request that typed it, a generator a pair
of endpoint and key. The environment may have a
key and may configure either provider.

## 3. What is checked

| Run | Instance | Shows |
|---|---|---|
| `plan_concurrent` | 3 requests, 2 threads, 2 plans (one self-confirmed, one that needs approval), 2 keys, 3 actors, scans and ports that raise, expiry | `TypeOK`; four eyes (`EvidenceComplete`); a self-confirmed plan runs once whatever the keys (`SelfConfirmedOnce`); an expired plan does not run (`ExpiredNeverRuns`); every settled state is some execution's verdict (`StatesWitnessed`); a failed read-back has its task and its audit (`UnverifiedOpensTask`); a retry never shows a job that nobody runs (`StoredJobHasRunner`); a plan is left executing only by a handler that crashed after the executor ran (`LimboIsACrash`) |
| `plan_serial` | 4 requests one after the other, revoked and restored grants | a plan runs once (`RunsOnce`), a rejection and a refused confirmation stand (`RefusalsStand`), plan and job agree between requests (`PlanAgreesWithJob`), a failed plan always has a task to resolve, which is resolved once (`RecoveryOwed`); refinement of `PlanLifecycle` |
| `plan_liveness` | 3 requests, 2 threads, ports that do not raise | an executing plan always settles (`ExecutingSettles`) |
| `directory` | 2 uploads of 2 possible contents, 2 plans of up to 2 operations, 3 paths, 3 handlers at a time | `TypeOK`; without overlap, whatever plans verified, mismatched or failed, the file at a record's path has the record's bytes, or a plan is to blame: one that did not verify and touched the path, a verified trash of it, a verified move onto it for another asset, or a stale one that took its file (`RecordsAgreeWithDisk`); of two operations that move one version from one path at most one is verified, unless another move, or an upload of the same bytes, brought a file to one of their paths (`RaceHasOneWinner`); a verified trash removed its file, unless a move took it away first or brought its record there with another file (`TrashRemovesItsFile`) |
| `knowledge_base` | 4 requests of 2 users, 2 threads, 2 file names, scans that raise | `TypeOK`; a removed file never answers a later query, whatever the index or a late activation kept (`DeletedNeverAnswers`); answers cite the asker's own files, another's only where requests overlapped and the asker once uploaded a file of that name (`AnswersOwnFiles`); without overlap, replies, records, grants and index agree and no file outlives its user's sessions (`RecordsAgree`), and a delete takes away nobody else's slice or grant (`DeletesOnlyOwn`) |
| `index_versions` | 2 uploads to one path, jobs delivered up to twice | `TypeOK`; refinement of `IndexLifecycle`; a report that comes again counts once (`AcceptedOnce`); only a ready version is active and a ready one has its chunks (`ActiveIsFound`); `rag_enqueue_failed` is final even if the job runs (`RefusedHandOverFails`); a version that was handed over settles (`HandedOverSettles`) |
| `assessment` | 1 request by any route, 2 actors, 2 samples, 1 uploaded file, 3 paths, 1 move, up to 2 rule versions | `TypeOK`; a report rests on assets readable at both checks (`ReportedWereReadable`); every outcome leaves its one event (`OutcomeIsAudited`); later rule sets do not displace the fixture (`RuleIsStable`); results are judged by it, and score, level, missing items and candidate banks agree (`ResultIsJustified`) |
| `mcp` | 3 calls of 4 tools, 2 users, an agent, 3 sets of grants, paths spelled in 5 ways | `TypeOK`; `authz_check` tells what the other tools do, sources that fail included (`CheckAgreesWithUse`); the trail is the answered calls of agents and listings are its newest events (`TrailIsTheAgentsCalls`) |
| `providers` | 4 switches, logouts and queries, 2 threads, every environment | `TypeOK`; a cloud key goes to the cloud only (`CloudKeyStaysInCloud`); without overlap, the provider shown is the one that answers and, without a key in the environment, a typed key is gone after logout (`StatusIsWhatAnswers`) |
| `plan_key_once`, `mcp_denials_recorded`, `providers_key_cleared` | - | the findings below |

*Why the bounds are enough.* The handlers of the loop interact through one plan. Two
threads give every race of two handlers; the third request makes the first two start
from a state another request left (a plan that needs approval must be confirmed before
two decisions can race). Two keys are what tells the same retry from another one. The
second plan shows that neither steals the other's records. Four serial requests are
confirm, decide, resolve and one that should be refused. In the directory, three paths
are a source, a target and a third place; two plans are a race for one file, and an upload
beside them is the third thread; two operations are the least where a plan fails half way. Two
uploads are a file and one that has the same bytes, or has not, in place of it or beside it; two
contents tell a match from a mismatch.
For the knowledge files, four requests are an upload, its delete, another user's upload of
the name and a query, the shortest way for a grant to cover the wrong file; two names are
the least a multi-file query needs; two threads are an upload on the loop and one handler
beside it, or two of the pool. Versions do not share state but the path and the audit trail:
two uploads are a version and what happens beside it, two deliveries a job and its repetition
while old reports are on their way. Assessments only read what they share, so one request
suffices against movers, deleters and rule makers; two samples tell a
partial match from a full one and one denied path from all allowed; one move is enough to
come between any two reads (`MaxMoves`), two rule versions are the first and one that could
displace it (`MaxRules`). Three calls of the MCP server are a check, the use it predicts and
a listing. Four provider requests are a switch with a key, a switch, a logout and a query;
two of them at a time are every race of two handlers over the registry.
No counter of the code is cut short: requests, uploads and plans are handed out once each,
which is also why the runs say `CHECK_DEADLOCK FALSE` - a system that served all its
requests stops. Threads never wait for one another, so there is no deadlock to look for.

*Fairness.* In `PlanExecution`, `FairSpec` asks weak fairness of `Step(r)`: the thread of a
request that has arrived is scheduled again. Nothing is asked of clients, of `Drift`, or of
`ScanRaises`. `ExecutingSettles` needs `MayRaise = FALSE`; with a verifier that raises it
is false, and `LimboIsACrash` says of the run where it raises how far it goes. In
`AssetVersions`, `FairSpec` asks weak fairness of `UploadStep`, `ReportStep` and
`WorkerStep`: handlers that have begun and workers that hold a job go on. `Crash` is not
fair, nor does an upload have to come. `HandedOverSettles` names what may keep a version from
settling: a job that crashed at every delivery, a report that was answered 500 and passed
over, and two writers that overlapped.

*Symmetry* is over requests, keys, names, paths and plans where the instance treats them
alike, and not used in the runs with a liveness property. The refinement checked under
symmetry (`plan_serial`) and the action property (`knowledge_base`) are safety properties
that treat those values alike.

*Faults.* Each property is paired in `PROJECT.json` with a faulty variant of a definition
(`X_Y` is `X` with fault `Y`) under which the property's run fails.

## 4. Findings

- **One key, two executions** (`plan_key_once`). `decide_approval` and `confirm_plan`
  check job, approval and plan on copies; `add_execution_job` hands a second thread the
  first one's job and both execute. README.md:19 lists idempotency as delivered.
- **A denied assessment ends the MCP server** (`mcp_denials_recorded`). The bridge raises
  `PermissionError`, which neither the tool nor `handle_message` expects: no answer, no audit
  event, and the loop is over. The demo checklist (line 169) says denials leave a trace as well.
- **A typed key that outlives the logout** (`providers_key_cleared`). `clear_cloud_key` rebuilds
  the generator only when no cloud key is left; with one in the environment, the generator
  built with the typed key stays in use. README.md:56 says it is cleared at logout.

Further disagreements of code and documents, each kept as the exception a passing property
names, so that the property says exactly how far the promise holds:

- two resolutions of one recovery task in flight both pass the pending check and both answer
  success; engineering-principles.md:152 promises 409 (`RecoveryOwed` is checked for one request
  at a time);
- the verifier's call is outside the handler's `try`: if it raises, the job stays queued and
  the plan executing, without a task; engineering-principles.md:81 wants every result that is
  not VERIFIED in a named state (`LimboIsACrash`);
- a trash plan made before its asset moved passes revalidation, the executor skips the missing
  source and the verifier finds it absent while the file lives on;
  engineering-principles.md:163 (the first exception in `TrashRemovesItsFile`);
- an upload in flight while its user logs out creates its asset after the logout listed the
  user's files; main.py:1449 promises a clean slate (`RecordsAgree` excludes overlap);
- a move may bring a file to an upload's target between its probe and its write, which then replaces
  that file; the docstring of `controlled_file_executor.py` (line 10) says that a repeated target
  raises `FileExistsError` (`RecordsAgreeWithDisk` excludes overlap);
- `delete_version` stores a tuple built from the one it read before another user's upload
  stored its own, which is never found again; main.py:715 (`DeletesOnlyOwn` excludes overlap).

Seen in the models and contradicted by no document, hence not findings: a revalidation
that fails after the confirmation was stored leaves a plan that each retry answers with
an unexpected `ValueError`; one that fails after the approval was stored leaves an
approved plan nothing can run; `rename` onto another asset's path replaces its file and
leaves two records at one path; a plan whose second operation fails or does not verify leaves
the first one done and the records unchanged (the first exception in `RecordsAgreeWithDisk`); the
same bytes uploaded again at the source of a stale move verify it: two rivals win, and the new
asset's record is left at an empty path (an exception in `RaceHasOneWinner`, another in
`RecordsAgreeWithDisk`); a stale move may replace or carry off a third asset's file while another
move of its plan puts the approved bytes at the same target, and the plan verifies (the last
exception in `RecordsAgreeWithDisk`); an upload between probe and registration may add a
version to an asset that a plan has just moved there, so that a later trash of that record looks
for a version that the move replaced (the second exception in `TrashRemovesItsFile`); a third move
may carry the version a race was about back, and both rivals verify in turn (the other exception in
`RaceHasOneWinner`); a delete between the two halves of an
activation leaves a record without a version, which is listed and answers nothing, and a
grant that covers the next file of that name (the exception in `AnswersOwnFiles`); two
reports in flight for one version may overwrite a final state (`torn`); an index-status
report refused while the upload marks its version failed leaves that upload with a 500;
where nothing is seeded, the first rule set with the fixture's source type becomes the one
samples are judged by, whoever made it, and with a wrong label every sample fails; a query
that runs beside a switch to a provider that is not configured ends with a 500.

## 5. What is proved

Each theorem holds for every value of the constants its module's `Assumption` allows: any finite
sets of requests, users, keys and paths, any number of threads, plans, uploads, deliveries or
calls. All invariants of the passing runs, both refinements and both action properties are proved.

| Module | Theorems and the properties they state |
|---|---|
| `PlanExecutionProofs` | `TypeCorrect` (`TypeOK`), `FourEyes` (`EvidenceComplete`), `SelfConfirmedPlansRunOnce` (`SelfConfirmedOnce`), `ExpiredPlansDoNotRun` (`ExpiredNeverRuns`), `StatesAreWitnessed` (`StatesWitnessed`), `UnverifiedIsOwedATask` (`UnverifiedOpensTask`), `StoredJobsHaveRunners` (`StoredJobHasRunner`), `LimboOnlyAfterACrash` (`LimboIsACrash`) |
| `PlanSequenceProofs` | with `MaxInFlight = 1`: `PlansRunOnce` (`RunsOnce`), `PlansAgreeWithJobs` (`PlanAgreesWithJob`), `RecoveryIsOwed` (`RecoveryOwed`), `RefusalsAreFinal` (`RefusalsStand`), `Refinement` (`ImplementsLifecycle` of `PlanLifecycle`) |
| `AssetVersionsProofs` | `TypeCorrect`, `ActiveVersionsAreFound` (`ActiveIsFound`), `ReportsAreAcceptedOnce` (`AcceptedOnce`), `RefusedHandOversFail` (`RefusedHandOverFails`), `Refinement` (`ImplementsLifecycle` of `IndexLifecycle`) |
| `ControlledDirectoryProofs` | `TypeCorrect`, `RacesHaveOneWinner` (`RaceHasOneWinner`), `TrashedFilesAreGone` (`TrashRemovesItsFile`), `RecordsDescribeTheDisk` (`RecordsAgreeWithDisk`) |
| `KnowledgeBaseProofs` | `TypeCorrect`, `DeletedFilesNeverAnswer` (`DeletedNeverAnswers`), `AnswersCiteOwnFiles` (`AnswersOwnFiles`), `RecordsAndIndexAgree` (`RecordsAgree`), `DeletesTouchOnlyOwn` (`DeletesOnlyOwn`) |
| `AssessmentProofs` | `PathsAreDecidedOneByOne`, `DenyIsNeverOutvoted` about `Policy`; `FullScoreIsAMatch` about `Matching`; `TypeCorrect`, `ReportsRestOnReadableAssets` (`ReportedWereReadable`), `OutcomesAreAudited` (`OutcomeIsAudited`), `ResultsAreJustified` (`ResultIsJustified`), `RulesAreStable` (`RuleIsStable`) |
| `McpServerProofs` | `TypeCorrect`, `ChecksPredictUse` (`CheckAgreesWithUse`), `TrailIsComplete` (`TrailIsTheAgentsCalls`) |
| `AnswerProvidersProofs` | `TypeCorrect`, `CloudKeysStayInTheCloud` (`CloudKeyStaysInCloud`), `StatusTellsWhoAnswers` (`StatusIsWhatAnswers`) |

Every module also has its `InductiveInvariant` (`ResultsInvariant` and `SequentialInvariant`
extend the first one). The type invariant and the safety properties of these systems are hardly
ever inductive alone: they speak of what was stored or answered and say nothing of the threads on
their way there. What is added is, in each:

- *Plan loop, any interleaving.* `Inductive` says what a thread may rely on at each step: which
  handler it is in (`Routed`), what its request was checked for (`Admitted`), what the records
  of a plan can be (`Records`), what has been stored once it is past a step (`Backed`), that at
  most one thread holds a plan's confirmation (`OneHolder`), that the executor saw the records
  (`Evidenced`), and that a late request stops at revalidation (`Lateness`). `Results` adds who
  ran (`PastExecutor`), how far its result has been read back (`OutcomeFits`), and for every job
  and plan state the execution whose result it is (`JobsWitnessed`, `PlansWitnessed`): a copy
  written back by a second thread is that thread's own result, so overwriting keeps a witness.
- *Plan loop, one request at a time.* `Sequential` says the plan's state at each step (`Staged`)
  and that what the handler read still holds when it looks at it (`Fresh`). Both are false with
  two threads, which is why these theorems assume `MaxInFlight = 1` and the finding
  `KeyRunsOnce` exists. The refinement maps each step that writes the plan to the action of
  `PlanLifecycle` of that name, and every other step to a stutter.
- *Versions.* Chunks before reports (`ChunksFirst`), and as long as no two writers overlapped,
  a report about to be stored is still legal and alone (`WritersApart`); an accepted one is
  behind the version and the only of its kind (`AcceptedPassed`). A step of a torn version maps
  to `Tear` or to a stutter of `IndexLifecycle`.
- *Directory.* A file, not its bytes, is at one path at most, for nothing copies one
  (`OneCopy`), and it came to its path by its upload or by a move that ran and took it (`Traced`).
  A version that a move took away does not come back by itself (`Left`), and a move onto its own
  path never verifies (`Apart`); so, unless another move or an upload of the same bytes brought
  a file there, the only file at a rival's target that can match is the version itself
  (`OnlyVersion`), and of two rivals one finds it missing (`Duels`). `Whereabouts` says for
  every record and every approved operation that its file is there, nowhere, or moved by a
  move that ran. For `RecordsAgreeWithDisk`, `Sequential` says of the plan at work what it has
  checked (`Matches`) and which records it has renamed (`Renamed`); that before it renames any,
  a record that disagrees has a path the plan touched (`Framed`), so that a plan that fails or
  mismatches is to blame; and that an asset it does not move agrees, or is named by an exception,
  or the plan will not verify (`Bystanders`).
- *Knowledge files.* Per handler what it has placed, made and dropped so far and what it may
  still cite (`Placed`, `Made`, `Drops`, `Answers`); while nothing overlapped, one handler is at
  work (`Alone`) and the collections agree but for what it has in hand (`Agreed`, `Uploads`,
  `Removes`, `Leaves`).
- *Assessments.* `Established` says for each step what was checked for the assets read so far,
  which rule was picked and what the result is made of.
- *MCP server.* Grants never change, so each answer is the policy's (`AllJudged`); an agent's
  n-th answered call is the event after the seed and n - 1 others (`Recording`).
- *Providers.* A cloud key is only ever beside the cloud's endpoint, in the registry, the bridge or a
  handler's hands; while nothing overlapped, the fields agree at each handler's step
  (`Unshared`).

Each proof has one lemma per action, or per conjunct where few actions disturb it, on top of
lemmas on what a step writes (`StepMoves`, `GotoFacts`, `ExecuteFacts`, `AddsFacts`, ...); the
invariants were model-checked on the instance of their run before they were proved.

*Assumptions on constants,* beyond types: `None` is none of the values it stands beside; a grant
made for an uploaded file allows (the default of `PermissionGrant.effect`, domain.py:61); a
bank of the fixture has a requirement (finance_demo_rag.py:535 refuses one without); the fixture
is the first rule version (`MaxRules` is positive); the import manifest's paths are relative and
without `..`. `ResultsAreJustified` and `FullScoreIsAMatch` need a rule of fewer than 200 requirements:
from there on `round` gives 100 points with one missing; the fixture has a handful.

*What proving corrected.* Some statements were true of TLC's instances and false of larger
ones, and now name the case: a third move that carries the version of a race back
(`RaceHasOneWinner`), a move that brings a trash plan's record to the path with another file
(`TrashRemovesItsFile`), a plan two of whose moves have one target (`RecordsAgreeWithDisk`),
and a grant whose file is gone while its user's next upload of that name
is not there yet (`AnswersOwnFiles`). `TrailIsTheAgentsCalls` counts calls instead of filtering
them, and `CheckAgreesWithUse` compares both paths as normalized; they say what they said before.
`Level` and `Build` no longer choose between overlapping cases, and `Assessment` names its set of
`Materials`.

*Only model-checked:* the two liveness properties, `ExecutingSettles` and `HandedOverSettles`,
as liveness under fairness is out of the prover's reach. What the recursion inside `SelectSeq`
makes of a path (`Normalize`) is never looked into: the theorems only use that equal normal
forms are decided alike.

## 6. Plan

In order of importance; what is done is marked.

1. `PlanExecution`, `PlanLifecycle`, and all their safety proofs - *done*.
2. `ControlledDirectory` - *done*, with proofs.
3. `KnowledgeBase` - *done*, with proofs.
4. `AssetVersions` with `IndexLifecycle` - *done*, with proofs and refinement.
5. `Policy` and `Matching` - *done*, with lemmas.
6. `Assessment`, `McpServer`, `AnswerProviders` - *done*, with proofs.
7. Left to model: the inside of retrieval (ranking, re-ranking, the checks on what the model
   cites) beyond what `KnowledgeBase` has of it; the directory structure and path-escape checks
   of the executor.
8. Left to prove: how far two handlers of one plan may depart from `PlanLifecycle` (a weaker
   lifecycle that `PlanExecution` implements with any number of threads), as `IndexLifecycle`
   does for versions.

## 7. Not modelled

- Wire formats, HTTP status mapping, wording, logging, pagination and read-only listings; the
  JSON-RPC framing of the MCP server and its messages that call no tool.
- The hash algorithm (only whether the presented hash is the plan's) and the content of
  documents; prompts, embeddings, scores and the order of hits.
- The seeding script's comparison of the asset files with their manifest, which runs once before
  anything is served, and the script that builds those files; what they leave is the initial
  state of `Assessment` and `McpServer`.
- The browser client, which holds no state the server relies on: its calls are the inputs.
- Anything across a restart of the server, since nothing but files is persisted.
