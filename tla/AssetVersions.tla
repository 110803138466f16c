---------------------------- MODULE AssetVersions ----------------------------
(***************************************************************************)
(* POST /api/uploads and what follows it: the asset and version an upload  *)
(* registers, the hand-over to the RAG service, the ingestion job there    *)
(* (IngestionService.process) and the index-status reports it sends back,  *)
(* through which a version becomes ready or failed.                        *)
(*                                                                         *)
(* Uploads run on the event loop, so one at a time; a report is handled on *)
(* a pool thread, which reads the version, checks the transition and       *)
(* stores a new version, without a lock.  A worker that crashes or gives   *)
(* up on a report has its job delivered again, while the report it sent    *)
(* may still be at work.                                                   *)
(*                                                                         *)
(* An upload names its version.  A report is named by version, delivery    *)
(* of the job and state; delivery 0 is the upload itself, which marks the  *)
(* version failed when the hand-over raises.                               *)
(***************************************************************************)
EXTENDS Naturals, FiniteSets

CONSTANTS
  Uploads,        \* the upload requests of the run
  Paths,          \* target paths
  MaxDeliveries,  \* how often a job is delivered
  None

ASSUME AssetVersionsAssumption ==
  /\ IsFiniteSet(Uploads)
  /\ MaxDeliveries \in Nat \ {0}
  /\ None \notin Paths

Reported == {"parsing", "indexed", "ready", "failed"}

IndexStates == {"absent", "queued"} \cup Reported

Deliveries == 0 .. MaxDeliveries

Reports == Uploads \X Deliveries \X Reported

Answered == {"accepted", "refused", "lost"}

VARIABLES
  file,      \* upload whose content is at a path, None without a file
  asset,     \* paths that have an asset record
  version,   \* index state of an upload's version
  active,    \* uploads whose version is their asset's active one
  request,   \* an upload: its step, target path and answer
  report,    \* a report: where it is and the state its handler read
  worker,    \* the job of a version: delivery and step
  chunks,    \* versions that have chunks in the search index
  torn       \* history: versions two of whose writers overlapped

store == <<file, asset, active, chunks>>
vars  == <<store, version, request, report, worker, torn>>

RequestSteps == {"idle", "write", "register", "enqueue", "mark_failed", "done"}

Replies == {"none", "denied", "target_exists", "upload_failed", "mismatch", "uploaded",
            "rag_enqueue_failed", "crashed"}

WorkerSteps == {"none", "parse", "replace", "activate", "finished", "dead"} \cup Reported

TypeOK ==
  /\ file \in [Paths -> Uploads \cup {None}]
  /\ asset \subseteq Paths
  /\ version \in [Uploads -> IndexStates]
  /\ {active, chunks, torn} \subseteq SUBSET Uploads
  /\ request \in [Uploads -> [at : RequestSteps, path : Paths \cup {None}, reply : Replies]]
  /\ report \in [Reports -> [at : {"unsent", "sent", "store"} \cup Answered,
                             saw : IndexStates]]
  /\ worker \in [Uploads -> [delivery : Deliveries, at : WorkerSteps]]

Unsent == [at |-> "unsent", saw |-> "absent"]

Init ==
  /\ file = [p \in Paths |-> None]
  /\ asset = {}
  /\ version = [u \in Uploads |-> "absent"]
  /\ active = {} /\ chunks = {} /\ torn = {}
  /\ request = [u \in Uploads |-> [at |-> "idle", path |-> None, reply |-> "none"]]
  /\ report = [t \in Reports |-> Unsent]
  /\ worker = [u \in Uploads |-> [delivery |-> 0, at |-> "none"]]
-----------------------------------------------------------------------------
Goto(u, step) == request' = [request EXCEPT ![u].at = step]

Answer(u, answer) == request' = [request EXCEPT ![u].at = "done", ![u].reply = answer]

Send(t) == report' = [report EXCEPT ![t] = [at |-> "sent", saw |-> "absent"]]

\* Versions whose reports or upload are at work, other than t.
OthersAtWork(t) ==
  \/ \E q \in Reports \ {t} : report[q].at = "store"
  \/ \E u \in Uploads : request[u].at \notin {"idle", "done", "mark_failed"}
-----------------------------------------------------------------------------
\* The policy denies an upload onto the path of any asset, and one without a grant.
OverwriteAllowed(path) == path \notin asset

UploadCheck(u) ==
  /\ request[u].at = "idle"
  /\ \A q \in Uploads : request[q].at \in {"idle", "done"}
  /\ \E path \in Paths :
       \/ request' = [request EXCEPT ![u] = [at |-> "done", path |-> path, reply |-> "denied"]]
       \/ /\ OverwriteAllowed(path)
          /\ request' = [request EXCEPT ![u] = [at |-> "write", path |-> path, reply |-> "none"]]
  /\ UNCHANGED <<store, version, report, worker, torn>>

\* The executor finds a file, fails, or writes; a result with another path or name
\* leaves what it wrote.
UploadWrite(u) ==
  /\ request[u].at = "write"
  /\ LET path == request[u].path
     IN  \/ file[path] # None /\ Answer(u, "target_exists") /\ UNCHANGED file
         \/ Answer(u, "upload_failed") /\ UNCHANGED file
         \/ /\ file[path] = None
            /\ file' = [file EXCEPT ![path] = u]
            /\ Answer(u, "mismatch") \/ Goto(u, "register")
  /\ UNCHANGED <<asset, active, chunks, version, report, worker, torn>>

\* get_or_create_asset, create_asset_version and the event asset_version_created.
UploadRegister_OwnState(u) ==
  /\ request[u].at = "register"
  /\ asset' = asset \cup {request[u].path}
  /\ version' = [version EXCEPT ![u] = "uploaded"]
  /\ Goto(u, "enqueue")
  /\ UNCHANGED <<file, active, chunks, report, worker, torn>>

UploadRegister(u) ==
  /\ request[u].at = "register"
  /\ asset' = asset \cup {request[u].path}
  /\ version' = [version EXCEPT ![u] = "queued"]
  /\ Goto(u, "enqueue")
  /\ UNCHANGED <<file, active, chunks, report, worker, torn>>

\* A delivery of the job begins with its first report.
Deliver(u, n) ==
  /\ worker' = [worker EXCEPT ![u] = [delivery |-> n, at |-> "parsing"]]
  /\ Send(<<u, n, "parsing">>)

\* The port accepts the version, or raises: because it did not, or although it did.
UploadEnqueue_NeverMarks(u) ==
  /\ request[u].at = "enqueue"
  /\ \/ Deliver(u, 1) /\ Answer(u, "uploaded")
     \/ Deliver(u, 1) /\ Answer(u, "rag_enqueue_failed")
     \/ Answer(u, "rag_enqueue_failed") /\ UNCHANGED <<report, worker>>
  /\ UNCHANGED <<store, version, torn>>

UploadEnqueue(u) ==
  /\ request[u].at = "enqueue"
  /\ \/ Deliver(u, 1) /\ Answer(u, "uploaded")
     \/ /\ worker' = [worker EXCEPT ![u] = [delivery |-> 1, at |-> "parsing"]]
        /\ report' = [report EXCEPT ![<<u, 1, "parsing">>] = [Unsent EXCEPT !.at = "sent"],
                                    ![<<u, 0, "failed">>] = [Unsent EXCEPT !.at = "sent"]]
        /\ Goto(u, "mark_failed")
     \/ Send(<<u, 0, "failed">>) /\ Goto(u, "mark_failed") /\ UNCHANGED worker
  /\ UNCHANGED <<store, version, torn>>

\* The upload's own update_index_state; a refused transition is one nobody expects.
UploadMarkFailed(u) ==
  /\ request[u].at = "mark_failed"
  /\ \/ report[<<u, 0, "failed">>].at = "accepted" /\ Answer(u, "rag_enqueue_failed")
     \/ report[<<u, 0, "failed">>].at \in {"refused", "lost"} /\ Answer(u, "crashed")
  /\ UNCHANGED <<store, version, report, worker, torn>>
-----------------------------------------------------------------------------
\* transition_asset_version: the states that may follow a state.
Following_Repeats(state) ==
  CASE state = "queued"  -> {"parsing", "failed"}
    [] state = "parsing" -> {"parsing", "indexed", "failed"}
    [] state = "indexed" -> {"ready", "failed"}
    [] OTHER             -> {}

Following_Reopens(state) ==
  CASE state = "queued"  -> {"parsing", "failed"}
    [] state = "parsing" -> {"indexed", "failed"}
    [] state = "indexed" -> {"ready", "failed"}
    [] state = "failed"  -> {"parsing"}
    [] OTHER             -> {}

Following(state) ==
  CASE state = "queued"  -> {"parsing", "failed"}
    [] state = "parsing" -> {"indexed", "failed"}
    [] state = "indexed" -> {"ready", "failed"}
    [] OTHER             -> {}

\* update_index_state reads the version and refuses a transition that is not allowed.
\* Its scan of the audit trail raises while another handler appends to it.
ReportRead(t) ==
  /\ report[t].at = "sent"
  /\ LET u == t[1]
     IN  \/ /\ t[3] \in Following(version[u])
            /\ report' = [report EXCEPT ![t] = [at |-> "store", saw |-> version[u]]]
            /\ torn' = IF \E q \in Reports \ {t} : q[1] = u /\ report[q].at = "store"
                       THEN torn \cup {u} ELSE torn
         \/ /\ t[3] \notin Following(version[u])
            /\ report' = [report EXCEPT ![t].at = "refused"]
            /\ UNCHANGED torn
         \/ /\ OthersAtWork(t)
            /\ report' = [report EXCEPT ![t].at = "lost"]
            /\ UNCHANGED torn
  /\ UNCHANGED <<store, version, request, worker>>

\* The store replaces the version by the copy with the reported state.
ReportStore(t) ==
  /\ report[t].at = "store"
  /\ version' = [version EXCEPT ![t[1]] = t[3]]
  /\ report' = [report EXCEPT ![t] = [at |-> "accepted", saw |-> "absent"]]
  /\ UNCHANGED <<store, request, worker, torn>>
-----------------------------------------------------------------------------
\* IngestionService.process. Each report is a call that the job waits for; an answer
\* that is not 200 ends the job (Crash) or is passed over, as the reporter likes.
MoveOn(u, step) == worker' = [worker EXCEPT ![u].at = step]

CallOf(u) == <<u, worker[u].delivery, worker[u].at>>

\* The job goes to a report, which it sends.
ReportNext(u, state) == MoveOn(u, state) /\ Send(<<u, worker[u].delivery, state>>)

AfterReport(u) ==
  /\ worker[u].at \in Reported /\ report[CallOf(u)].at \in Answered
  /\ CASE worker[u].at = "parsing" -> MoveOn(u, "parse") /\ UNCHANGED report
       [] worker[u].at = "indexed" -> ReportNext(u, "ready")
       [] worker[u].at = "ready"   -> MoveOn(u, "activate") /\ UNCHANGED report
       [] worker[u].at = "failed"  -> MoveOn(u, "finished") /\ UNCHANGED report
  /\ UNCHANGED <<store, version, request, torn>>

\* A document that does not parse, or to chunks that are not the target's, fails.
Parse_Silent(u) ==
  /\ worker[u].at = "parse"
  /\ MoveOn(u, "replace") \/ MoveOn(u, "finished")
  /\ UNCHANGED <<store, version, request, report, torn>>

Parse(u) ==
  /\ worker[u].at = "parse"
  /\ \/ MoveOn(u, "replace") /\ UNCHANGED report
     \/ ReportNext(u, "failed")
  /\ UNCHANGED <<store, version, request, torn>>

Replace_ReportsFirst(u) ==
  /\ worker[u].at = "replace"
  /\ ReportNext(u, "indexed")
  /\ chunks' \in {chunks, chunks \cup {u}}
  /\ UNCHANGED <<file, asset, active, version, request, torn>>

Replace(u) ==
  /\ worker[u].at = "replace"
  /\ \/ chunks' = chunks \cup {u} /\ ReportNext(u, "indexed")
     \/ ReportNext(u, "failed") /\ UNCHANGED chunks
  /\ UNCHANGED <<file, asset, active, version, request, torn>>

\* activate_asset_version makes only a ready version the active one.
Activable(u) == version[u] = "ready"

Activate(u) ==
  /\ worker[u].at = "activate"
  /\ active' = IF Activable(u) THEN active \cup {u} ELSE active
  /\ MoveOn(u, "finished")
  /\ UNCHANGED <<file, asset, chunks, version, request, report, torn>>

\* The worker dies, gives up waiting, or its reporter raises; the job is delivered
\* again or given up for good.
Crash(u) ==
  /\ worker[u].at \notin {"none", "finished", "dead"}
  /\ LET n == worker[u].delivery
     IN  \/ n < MaxDeliveries /\ Deliver(u, n + 1)
         \/ n = MaxDeliveries /\ MoveOn(u, "dead") /\ UNCHANGED report
  /\ UNCHANGED <<store, version, request, torn>>
-----------------------------------------------------------------------------
UploadStep(u) ==
  UploadWrite(u) \/ UploadRegister(u) \/ UploadEnqueue(u) \/ UploadMarkFailed(u)

ReportStep(t) == ReportRead(t) \/ ReportStore(t)

WorkerStep(u) == AfterReport(u) \/ Parse(u) \/ Replace(u) \/ Activate(u)

Next ==
  \/ \E u \in Uploads : UploadCheck(u) \/ UploadStep(u) \/ WorkerStep(u) \/ Crash(u)
  \/ \E t \in Reports : ReportStep(t)

Spec == Init /\ [][Next]_vars

\* Handlers and workers that have begun keep running; nothing has to crash.
FairSpec ==
  /\ Spec
  /\ \A u \in Uploads : WF_vars(UploadStep(u)) /\ WF_vars(WorkerStep(u))
  /\ \A t \in Reports : WF_vars(ReportStep(t))
-----------------------------------------------------------------------------
\* The index states a version goes through, whatever reports come again or late, until
\* two of its writers overlap: the check and the store of transition_asset_version are
\* two steps, so then even failed may be overwritten (repository.py:236).
Lifecycle ==
  INSTANCE IndexLifecycle WITH
    Versions <- Uploads,
    state    <- [u \in Uploads |-> IF u \in torn THEN "torn" ELSE version[u]]
ImplementsLifecycle == Lifecycle!Spec

\* A report that is delivered again changes a version, and enters the audit trail, once.
AcceptedOnce ==
  \A u \in Uploads \ torn, s \in Reported :
    Cardinality({n \in Deliveries : report[<<u, n, s>>].at = "accepted"}) <= 1

\* Nothing but a ready version of a registered asset is active (test_policy.py:228), and
\* a ready version can be found: its chunks were stored before anybody said so, in
\* whatever order the reports of its deliveries are handled.
ActiveIsFound ==
  /\ \A u \in Uploads : version[u] = "ready" => u \in chunks
  /\ \A u \in active \ torn : version[u] = "ready" /\ request[u].path \in asset

\* After the answer rag_enqueue_failed the version is failed for good and never
\* becomes active, even if the port had handed it over before it raised.
RefusedHandOverFails ==
  \A u \in Uploads \ torn :
    request[u].reply = "rag_enqueue_failed" => version[u] = "failed" /\ u \notin active

\* A version that was handed over becomes ready or failed, unless its job crashed at
\* every delivery or one of its reports was answered 500 and passed over.
HandedOverSettles ==
  \A u \in Uploads :
    worker[u].at # "none" ~>
      \/ version[u] \in {"ready", "failed"} \/ worker[u].at = "dead" \/ u \in torn
      \/ \E n \in Deliveries, s \in Reported : report[<<u, n, s>>].at = "lost"
=============================================================================
