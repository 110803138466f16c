------------------------- MODULE AssetVersionsProofs -------------------------
(***************************************************************************)
(* Theorems about AssetVersions for every finite set of uploads, every set *)
(* of paths and every number of deliveries: its invariants, and that it    *)
(* implements IndexLifecycle.                                              *)
(***************************************************************************)
EXTENDS AssetVersions, FiniteSetTheorems, TLAPS
-----------------------------------------------------------------------------
(***************************************************************************)
(* The inductive invariant: what holds the invariants of the model up.     *)
(***************************************************************************)
\* An upload that passed the policy has a path; its version exists once it is registered.
Registered ==
  \A u \in Uploads :
    /\ request[u].at # "idle" => request[u].path \in Paths
    /\ version[u] # "absent" =>
         request[u].at \notin {"idle", "write", "register"} /\ request[u].path \in asset

\* Only a registered version is handed over and reported on, and its job speaks for the
\* deliveries from 1 on: 0 is the upload's own report.
HandedOver ==
  /\ \A u \in Uploads :
       /\ request[u].at \in {"enqueue", "mark_failed"} => version[u] # "absent"
       /\ worker[u].at # "none" => version[u] # "absent" /\ worker[u].delivery # 0
  /\ \A t \in Reports : report[t].at # "unsent" => version[t[1]] # "absent"

\* Whoever says indexed or ready, or is about to, stored the chunks before.
ChunksFirst ==
  /\ \A u \in Uploads :
       worker[u].at \in {"indexed", "ready", "activate"} \/ version[u] = "ready" => u \in chunks
  /\ \A t \in Reports : t[3] \in {"indexed", "ready"} /\ report[t].at # "unsent" => t[1] \in chunks

\* Where no writers overlapped, what a handler read of a version is what it still is.
WritersApart ==
  \A t \in Reports : report[t].at = "store" /\ t[1] \notin torn =>
    /\ t[3] \in Following(version[t[1]])
    /\ \A q \in Reports \ {t} : q[1] = t[1] => report[q].at # "store"

\* The states a version was in before, and the one it is in.
Passed(state) ==
  CASE state = "parsing" -> {"parsing"}
    [] state = "indexed" -> {"parsing", "indexed"}
    [] state = "ready"   -> {"parsing", "indexed", "ready"}
    [] state = "failed"  -> {"parsing", "indexed", "failed"}
    [] OTHER             -> {}

\* An accepted report is behind its version, and the only one of its kind.
AcceptedPassed ==
  \A t \in Reports : report[t].at = "accepted" /\ t[1] \notin torn =>
    /\ t[3] \in Passed(version[t[1]])
    /\ \A q \in Reports \ {t} : q[1] = t[1] /\ q[3] = t[3] => report[q].at # "accepted"

\* An upload answers rag_enqueue_failed after its own report was accepted.
RefusalRecorded ==
  \A u \in Uploads : request[u].reply = "rag_enqueue_failed" =>
    request[u].at = "done" /\ report[<<u, 0, "failed">>].at = "accepted"

\* An active version is ready and belongs to a registered asset.
ActiveIsReady == \A u \in active \ torn : version[u] = "ready" /\ request[u].path \in asset

Inductive ==
  /\ TypeOK /\ Registered /\ HandedOver /\ ChunksFirst
  /\ WritersApart /\ AcceptedPassed /\ RefusalRecorded /\ ActiveIsReady
-----------------------------------------------------------------------------
(***************************************************************************)
(* What the model's small steps change and leave alone.                    *)
(***************************************************************************)
RequestRecords == [at : RequestSteps, path : Paths \cup {None}, reply : Replies]
ReportRecords  == [at : {"unsent", "sent", "store"} \cup Answered, saw : IndexStates]
WorkerRecords  == [delivery : Deliveries, at : WorkerSteps]

\* A request that goes on keeps its path and its answer, and no other request moves.
LEMMA GotoFacts ==
  ASSUME TypeOK, NEW u \in Uploads, NEW step \in RequestSteps, Goto(u, step)
  PROVE  /\ request' \in [Uploads -> RequestRecords]
         /\ \A v \in Uploads :
              /\ request'[v].path = request[v].path /\ request'[v].reply = request[v].reply
              /\ request'[v].at = IF v = u THEN step ELSE request[v].at
  BY DEF TypeOK, Goto, RequestRecords

\* An answer ends the request and keeps its path.
LEMMA AnswerFacts ==
  ASSUME TypeOK, NEW u \in Uploads, NEW answer \in Replies, Answer(u, answer)
  PROVE  /\ request' \in [Uploads -> RequestRecords]
         /\ \A v \in Uploads :
              /\ request'[v].path = request[v].path
              /\ request'[v].at = IF v = u THEN "done" ELSE request[v].at
              /\ request'[v].reply = IF v = u THEN answer ELSE request[v].reply
  BY DEF TypeOK, Answer, RequestRecords, RequestSteps

\* A report that is sent is at its beginning, and no other report changes.
LEMMA SendFacts ==
  ASSUME TypeOK, NEW t \in Reports, Send(t)
  PROVE  /\ report' \in [Reports -> ReportRecords]
         /\ \A q \in Reports : report'[q] = IF q = t THEN [at |-> "sent", saw |-> "absent"]
                                                     ELSE report[q]
  BY DEF TypeOK, Send, ReportRecords, IndexStates

\* A job that moves on stays in its delivery, and no other job moves.
LEMMA MoveOnFacts ==
  ASSUME TypeOK, NEW u \in Uploads, NEW step \in WorkerSteps, MoveOn(u, step)
  PROVE  /\ worker' \in [Uploads -> WorkerRecords]
         /\ \A v \in Uploads :
              /\ worker'[v].delivery = worker[v].delivery
              /\ worker'[v].at = IF v = u THEN step ELSE worker[v].at
  BY DEF TypeOK, MoveOn, WorkerRecords

\* A state that may follow another one was not passed, and nothing passed is lost by it.
LEMMA FollowingFacts ==
  ASSUME NEW state \in IndexStates, NEW next \in Following(state)
  PROVE  /\ state \in {"queued", "parsing", "indexed"}
         /\ next \in Reported /\ next \notin Passed(state)
         /\ next \in Passed(next) /\ Passed(state) \subseteq Passed(next)
         /\ <<state, next>> \in Lifecycle!Steps
  BY DEF Following, Passed, IndexStates, Reported, Lifecycle!Steps
-----------------------------------------------------------------------------
(***************************************************************************)
(* Every action keeps the inductive invariant.  A conjunct that an action  *)
(* cannot disturb follows from what the action leaves alone.               *)
(***************************************************************************)
\* The policy check picks a path for an upload that has no version yet.
LEMMA UploadCheckInductive ==
  ASSUME Inductive, NEW u \in Uploads, UploadCheck(u)
  PROVE  Inductive'
<1> USE DEF Inductive
<1>1. PICK path \in Paths, step \in {"done", "write"}, answer \in {"denied", "none"} :
        request' = [request EXCEPT ![u] = [at |-> step, path |-> path, reply |-> answer]]
  BY DEF UploadCheck
<1>2. /\ request' \in [Uploads -> RequestRecords]
      /\ \A v \in Uploads \ {u} : request'[v] = request[v]
      /\ request'[u] = [at |-> step, path |-> path, reply |-> answer]
  BY <1>1 DEF TypeOK, RequestRecords, RequestSteps, Replies
<1>3. request[u].at = "idle" /\ UNCHANGED <<store, version, report, worker, torn>>
  BY DEF UploadCheck
<1>4. TypeOK'
  BY <1>2, <1>3 DEF TypeOK, RequestRecords, store
<1>5. Registered' /\ HandedOver'
  BY <1>2, <1>3 DEF Registered, HandedOver, store
<1>6. ChunksFirst' /\ WritersApart' /\ AcceptedPassed'
  BY <1>3 DEF ChunksFirst, WritersApart, AcceptedPassed, store
<1>7. RefusalRecorded'
  BY <1>2, <1>3 DEF RefusalRecorded
<1>8. ActiveIsReady'
  BY <1>2, <1>3 DEF ActiveIsReady, Registered, store, TypeOK
<1> QED
  BY <1>4, <1>5, <1>6, <1>7, <1>8

\* The executor's write changes the disk and nothing that the invariant is about.
LEMMA UploadWriteInductive ==
  ASSUME Inductive, NEW u \in Uploads, UploadWrite(u)
  PROVE  Inductive'
<1> USE DEF Inductive
<1>1. /\ request[u].at = "write" /\ request[u].path \in Paths
      /\ UNCHANGED <<asset, active, chunks, version, report, worker, torn>>
  BY DEF UploadWrite, Registered
<1>2. \/ Goto(u, "register")
      \/ \E answer \in {"target_exists", "upload_failed", "mismatch"} : Answer(u, answer)
  BY DEF UploadWrite
<1> DEFINE MovesTo(step) ==
      /\ request' \in [Uploads -> RequestRecords]
      /\ \A v \in Uploads :
           /\ request'[v].path = request[v].path
           /\ request'[v].at = IF v = u THEN step ELSE request[v].at
           /\ request'[v].reply = "rag_enqueue_failed" =>
                v # u /\ request[v].reply = "rag_enqueue_failed"
<1>3. PICK step \in {"register", "done"} : MovesTo(step)
  <2>1. request[u].reply # "rag_enqueue_failed"
    BY <1>1 DEF RefusalRecorded
  <2>2. CASE Goto(u, "register")
    <3>1. MovesTo("register")
      BY <2>1, <2>2, GotoFacts DEF RequestSteps
    <3> QED
      BY <3>1
  <2>3. ASSUME NEW answer \in {"target_exists", "upload_failed", "mismatch"}, Answer(u, answer)
        PROVE  MovesTo("done")
    BY <2>1, <2>3, AnswerFacts DEF Replies
  <2> QED
    BY <1>2, <2>2, <2>3
<1>4. TypeOK'
  <2>1. file' \in [Paths -> Uploads \cup {None}]
    BY DEF UploadWrite, TypeOK
  <2> QED
    BY <1>1, <1>3, <2>1 DEF TypeOK, RequestRecords
<1>5. Registered' /\ HandedOver'
  BY <1>1, <1>3 DEF Registered, HandedOver
<1>6. ChunksFirst' /\ WritersApart' /\ AcceptedPassed'
  BY <1>1 DEF ChunksFirst, WritersApart, AcceptedPassed
<1>7. RefusalRecorded'
  BY <1>1, <1>3 DEF RefusalRecorded
<1>8. ActiveIsReady'
  BY <1>1, <1>3 DEF ActiveIsReady, TypeOK
<1> QED
  BY <1>4, <1>5, <1>6, <1>7, <1>8

\* The version that is registered is new: no handler has read it, no report was accepted.
LEMMA UploadRegisterInductive ==
  ASSUME Inductive, NEW u \in Uploads, UploadRegister(u)
  PROVE  Inductive'
<1> USE DEF Inductive
<1>1. /\ request[u].at = "register" /\ request[u].path \in Paths /\ version[u] = "absent"
      /\ asset' = asset \cup {request[u].path}
      /\ version' = [version EXCEPT ![u] = "queued"]
      /\ UNCHANGED <<file, active, chunks, report, worker, torn>>
  BY DEF UploadRegister, Registered
<1>2. /\ request' \in [Uploads -> RequestRecords]
      /\ \A v \in Uploads :
           /\ request'[v].path = request[v].path /\ request'[v].reply = request[v].reply
           /\ request'[v].at = IF v = u THEN "enqueue" ELSE request[v].at
  BY GotoFacts DEF UploadRegister, RequestSteps
<1>3. TypeOK'
  BY <1>1, <1>2 DEF TypeOK, RequestRecords, IndexStates
<1>4. Registered'
  BY <1>1, <1>2 DEF Registered, TypeOK
<1>5. HandedOver' /\ ChunksFirst'
  <2>1. /\ \A t \in Reports : t[1] \in Uploads
        /\ \A v \in Uploads : version'[v] = IF v = u THEN "queued" ELSE version[v]
    BY <1>1 DEF Reports, TypeOK
  <2>2. HandedOver'
    BY <1>1, <1>2, <2>1 DEF HandedOver
  <2>3. ChunksFirst'
    BY <1>1, <2>1 DEF ChunksFirst
  <2> QED
    BY <2>2, <2>3
<1>6. \A t \in Reports : t[1] = u /\ u \notin torn => report[t].at \notin {"store", "accepted"}
  BY <1>1 DEF WritersApart, AcceptedPassed, Following, Passed
<1>7. WritersApart' /\ AcceptedPassed'
  <2>1. \A v \in Uploads \ {u} : version'[v] = version[v]
    BY <1>1 DEF TypeOK
  <2>2. \A t \in Reports : t[1] \in Uploads
    BY DEF Reports
  <2> QED
    BY <1>1, <1>6, <2>1, <2>2 DEF WritersApart, AcceptedPassed
<1>8. RefusalRecorded'
  BY <1>1, <1>2 DEF RefusalRecorded
<1>9. ActiveIsReady'
  BY <1>1, <1>2 DEF ActiveIsReady, TypeOK
<1> QED
  BY <1>3, <1>4, <1>5, <1>7, <1>8, <1>9

\* Sending reports leaves what handlers have read, and what was accepted, as it is.
LEMMA SendingInductive ==
  ASSUME WritersApart, AcceptedPassed, UNCHANGED <<version, torn>>,
         \A q \in Reports : report'[q] = report[q] \/ report'[q].at = "sent"
  PROVE  WritersApart' /\ AcceptedPassed'
BY DEF WritersApart, AcceptedPassed

\* The hand-over starts the first delivery, the upload's own failed report, or both.
LEMMA UploadEnqueueInductive ==
  ASSUME Inductive, NEW u \in Uploads, UploadEnqueue(u)
  PROVE  Inductive'
<1> USE DEF Inductive
<1>1. request[u].at = "enqueue" /\ UNCHANGED <<store, version, torn>>
  BY DEF UploadEnqueue
<1>2. /\ request' \in [Uploads -> RequestRecords]
      /\ \A v \in Uploads :
           /\ request'[v].path = request[v].path
           /\ v # u => request'[v].reply = request[v].reply /\ request'[v].at = request[v].at
      /\ request'[u].at \in {"done", "mark_failed"}
      /\ request'[u].reply # "rag_enqueue_failed"
  <2>1. request[u].reply # "rag_enqueue_failed"
    BY <1>1 DEF RefusalRecorded
  <2>2. CASE Answer(u, "uploaded")
    BY <2>2, AnswerFacts DEF Replies
  <2>3. CASE Goto(u, "mark_failed")
    BY <2>1, <2>3, GotoFacts DEF RequestSteps
  <2> QED
    BY <2>2, <2>3 DEF UploadEnqueue
<1>3. /\ report' \in [Reports -> ReportRecords]
      /\ \A q \in Reports : \/ report'[q] = report[q]
                            \/ q[1] = u /\ q[3] \in {"parsing", "failed"} /\ report'[q].at = "sent"
  <2>1. <<u, 1, "parsing">> \in Reports /\ <<u, 0, "failed">> \in Reports
    BY AssetVersionsAssumption DEF Reports, Deliveries, Reported
  <2>2. CASE Send(<<u, 1, "parsing">>) \/ Send(<<u, 0, "failed">>)
    BY <2>1, <2>2, SendFacts
  <2>3. CASE report' = [report EXCEPT ![<<u, 1, "parsing">>] = [Unsent EXCEPT !.at = "sent"],
                                      ![<<u, 0, "failed">>] = [Unsent EXCEPT !.at = "sent"]]
    <3>1. [Unsent EXCEPT !.at = "sent"] = [at |-> "sent", saw |-> "absent"]
      BY DEF Unsent
    <3> DEFINE sent == [at |-> "sent", saw |-> "absent"]
    <3>2. sent \in ReportRecords /\ sent.at = "sent" /\ report \in [Reports -> ReportRecords]
      BY DEF TypeOK, ReportRecords, IndexStates
    <3>3. report' = [report EXCEPT ![<<u, 1, "parsing">>] = sent, ![<<u, 0, "failed">>] = sent]
      BY <2>3, <3>1
    <3> HIDE DEF sent
    <3> QED
      BY <2>1, <3>2, <3>3
  <2> QED
    BY <2>2, <2>3 DEF UploadEnqueue, Deliver
<1>4. /\ worker' \in [Uploads -> WorkerRecords]
      /\ \A v \in Uploads :
           worker'[v] = worker[v] \/ (v = u /\ worker'[v] = [delivery |-> 1, at |-> "parsing"])
  <2> DEFINE begun == [delivery |-> 1, at |-> "parsing"]
  <2>1. begun \in WorkerRecords /\ worker \in [Uploads -> WorkerRecords]
    BY AssetVersionsAssumption DEF TypeOK, WorkerRecords, WorkerSteps, Reported, Deliveries
  <2>2. worker' = worker \/ worker' = [worker EXCEPT ![u] = begun]
    BY DEF UploadEnqueue, Deliver
  <2> HIDE DEF begun
  <2>3. \A v \in Uploads : worker'[v] = worker[v] \/ (v = u /\ worker'[v] = begun)
    BY <2>1, <2>2
  <2> QED
    BY <2>1, <2>2, <2>3 DEF begun
<1>5. TypeOK'
  BY <1>1, <1>2, <1>3, <1>4 DEF TypeOK, RequestRecords, ReportRecords, WorkerRecords, store
<1>6. Registered'
  BY <1>1, <1>2 DEF Registered, store
<1>7. HandedOver'
  <2>1. version[u] # "absent"
    BY <1>1 DEF HandedOver
  <2>2. \A t \in Reports : report'[t].at # "unsent" => version'[t[1]] # "absent"
    BY <1>1, <1>3, <2>1 DEF HandedOver
  <2>3. ASSUME NEW v \in Uploads
        PROVE  worker'[v].at # "none" => version'[v] # "absent" /\ worker'[v].delivery # 0
    <3>1. CASE worker'[v] = worker[v]
      BY <1>1, <3>1 DEF HandedOver
    <3>2. CASE v = u /\ worker'[v] = [delivery |-> 1, at |-> "parsing"]
      BY <1>1, <2>1, <3>2
    <3> QED
      BY <1>4, <3>1, <3>2
  <2>4. \A v \in Uploads : request'[v].at \in {"enqueue", "mark_failed"} => version'[v] # "absent"
    BY <1>1, <1>2, <2>1 DEF HandedOver
  <2> QED
    BY <2>2, <2>3, <2>4 DEF HandedOver
<1>8. ChunksFirst'
  BY <1>1, <1>3, <1>4 DEF ChunksFirst, store
<1>9. WritersApart' /\ AcceptedPassed'
  BY <1>1, <1>3, SendingInductive
<1>10. RefusalRecorded'
  <2>1. \A v \in Uploads : <<v, 0, "failed">> \in Reports
    BY AssetVersionsAssumption DEF Reports, Deliveries, Reported
  <2> QED
    BY <1>1, <1>2, <1>3, <2>1 DEF RefusalRecorded
<1>11. ActiveIsReady'
  BY <1>1, <1>2 DEF ActiveIsReady, TypeOK, store
<1> QED
  BY <1>5, <1>6, <1>7, <1>8, <1>9, <1>10, <1>11

\* The upload answers rag_enqueue_failed only when its own report was accepted.
LEMMA UploadMarkFailedInductive ==
  ASSUME Inductive, NEW u \in Uploads, UploadMarkFailed(u)
  PROVE  Inductive'
<1> USE DEF Inductive
<1>1. request[u].at = "mark_failed" /\ UNCHANGED <<store, version, report, worker, torn>>
  BY DEF UploadMarkFailed
<1>2. PICK answer \in {"rag_enqueue_failed", "crashed"} :
        /\ Answer(u, answer)
        /\ answer = "rag_enqueue_failed" => report[<<u, 0, "failed">>].at = "accepted"
  BY DEF UploadMarkFailed
<1>3. /\ request' \in [Uploads -> RequestRecords]
      /\ \A v \in Uploads :
           /\ request'[v].path = request[v].path
           /\ request'[v].at = IF v = u THEN "done" ELSE request[v].at
           /\ request'[v].reply = IF v = u THEN answer ELSE request[v].reply
  BY <1>2, AnswerFacts DEF Replies
<1>4. TypeOK'
  BY <1>1, <1>3 DEF TypeOK, RequestRecords, store
<1>5. Registered' /\ HandedOver'
  BY <1>1, <1>3 DEF Registered, HandedOver, store
<1>6. ChunksFirst' /\ WritersApart' /\ AcceptedPassed'
  BY <1>1 DEF ChunksFirst, WritersApart, AcceptedPassed, store
<1>7. RefusalRecorded'
  BY <1>1, <1>2, <1>3 DEF RefusalRecorded
<1>8. ActiveIsReady'
  BY <1>1, <1>3 DEF ActiveIsReady, TypeOK, store
<1> QED
  BY <1>4, <1>5, <1>6, <1>7, <1>8

\* A handler that reads while another one is about to store tears its version.
LEMMA ReportReadInductive ==
  ASSUME Inductive, NEW t \in Reports, ReportRead(t)
  PROVE  Inductive'
<1> USE DEF Inductive
<1> DEFINE u == t[1]
<1>1. /\ u \in Uploads /\ t[3] \in Reported /\ version[u] \in IndexStates
      /\ report[t].at = "sent" /\ UNCHANGED <<store, version, request, worker>>
  BY DEF ReportRead, Reports, TypeOK
<1>2. /\ report' \in [Reports -> ReportRecords]
      /\ \A q \in Reports \ {t} : report'[q] = report[q]
      /\ \/ report'[t].at \in {"refused", "lost"}
         \/ report'[t].at = "store" /\ t[3] \in Following(version[u])
  <2>1. report \in [Reports -> ReportRecords]
    BY DEF TypeOK, ReportRecords
  <2>2. CASE report' = [report EXCEPT ![t] = [at |-> "store", saw |-> version[u]]]
    BY <1>1, <2>1, <2>2 DEF ReportRead, ReportRecords
  <2>3. ASSUME NEW verdict \in {"refused", "lost"}, report' = [report EXCEPT ![t].at = verdict]
        PROVE  <1>2
    BY <1>1, <2>1, <2>3 DEF ReportRecords, Answered
  <2> QED
    BY <2>2, <2>3 DEF ReportRead
<1>3. /\ torn \subseteq torn' /\ torn' \subseteq Uploads
      /\ report'[t].at = "store" /\ u \notin torn' =>
           \A q \in Reports \ {t} : q[1] = u => report[q].at # "store"
  BY <1>1, <1>2 DEF ReportRead, TypeOK
<1>4. TypeOK'
  BY <1>1, <1>2, <1>3 DEF TypeOK, ReportRecords, store
<1>5. Registered' /\ HandedOver'
  BY <1>1, <1>2 DEF Registered, HandedOver, store
<1>6. ChunksFirst'
  BY <1>1, <1>2 DEF ChunksFirst, store
<1>7. WritersApart'
  BY <1>1, <1>2, <1>3 DEF WritersApart
<1>8. AcceptedPassed'
  BY <1>1, <1>2, <1>3 DEF AcceptedPassed
<1>9. RefusalRecorded'
  <2>1. \A v \in Uploads : <<v, 0, "failed">> \in Reports
    BY AssetVersionsAssumption DEF Reports, Deliveries, Reported
  <2> QED
    BY <1>1, <1>2, <2>1 DEF RefusalRecorded
<1>10. ActiveIsReady'
  BY <1>1, <1>3 DEF ActiveIsReady, store
<1> QED
  BY <1>4, <1>5, <1>6, <1>7, <1>8, <1>9, <1>10

\* The store advances a version that is not torn by one step of its lifecycle.
LEMMA ReportStoreInductive ==
  ASSUME Inductive, NEW t \in Reports, ReportStore(t)
  PROVE  Inductive'
<1> USE DEF Inductive
<1> DEFINE u == t[1]
<1>1. /\ u \in Uploads /\ t[3] \in Reported /\ \A q \in Reports : q[1] \in Uploads
      /\ report[t].at = "store" /\ UNCHANGED <<store, request, worker, torn>>
  BY DEF ReportStore, Reports, TypeOK
<1>2. /\ report' \in [Reports -> ReportRecords]
      /\ \A q \in Reports \ {t} : report'[q] = report[q]
      /\ report'[t].at = "accepted"
  <2> DEFINE accepted == [at |-> "accepted", saw |-> "absent"]
  <2>1. accepted \in ReportRecords /\ accepted.at = "accepted" /\ report \in [Reports -> ReportRecords]
    BY DEF TypeOK, ReportRecords, IndexStates, Answered
  <2>2. report' = [report EXCEPT ![t] = accepted]
    BY DEF ReportStore
  <2> HIDE DEF accepted
  <2> QED
    BY <2>1, <2>2
<1>3. /\ version' \in [Uploads -> IndexStates]
      /\ \A v \in Uploads : version'[v] = IF v = u THEN t[3] ELSE version[v]
  BY <1>1 DEF ReportStore, TypeOK, IndexStates
<1>4. TypeOK'
  BY <1>1, <1>2, <1>3 DEF TypeOK, ReportRecords, store
<1>5. version[u] # "absent" /\ t[3] # "absent"
  BY <1>1 DEF HandedOver, Reported
<1>6. Registered' /\ HandedOver'
  BY <1>1, <1>2, <1>3, <1>5 DEF Registered, HandedOver, store
<1>7. ChunksFirst'
  BY <1>1, <1>2, <1>3 DEF ChunksFirst, store
<1>8. WritersApart'
  BY <1>1, <1>2, <1>3 DEF WritersApart
<1>9. u \notin torn => /\ version[u] \in {"queued", "parsing", "indexed"}
                       /\ t[3] \notin Passed(version[u]) /\ t[3] \in Passed(t[3])
                       /\ Passed(version[u]) \subseteq Passed(t[3])
  <2>1. version[u] \in IndexStates
    BY <1>1 DEF TypeOK
  <2> QED
    BY <1>1, <2>1, FollowingFacts DEF WritersApart
<1>10. AcceptedPassed'
  BY <1>1, <1>2, <1>3, <1>9 DEF AcceptedPassed
<1>11. RefusalRecorded'
  <2>1. \A v \in Uploads : <<v, 0, "failed">> \in Reports
    BY AssetVersionsAssumption DEF Reports, Deliveries, Reported
  <2> QED
    BY <1>1, <1>2, <2>1 DEF RefusalRecorded
<1>12. ActiveIsReady'
  BY <1>1, <1>3, <1>9 DEF ActiveIsReady, TypeOK, store
<1> QED
  BY <1>4, <1>6, <1>7, <1>8, <1>10, <1>11, <1>12
-----------------------------------------------------------------------------
\* What every step of a job has in common: it stores no version and no answer, it only
\* adds chunks, and the reports it sends are its own.
JobStep(u) ==
  /\ UNCHANGED <<file, asset, version, request, torn>>
  /\ worker[u].at # "none"
  /\ chunks \subseteq chunks' /\ chunks' \subseteq Uploads
  /\ worker' \in [Uploads -> WorkerRecords] /\ worker'[u].delivery # 0
  /\ \A v \in Uploads \ {u} : worker'[v] = worker[v]
  /\ worker'[u].at \in {"indexed", "ready", "activate"} => u \in chunks'
  /\ report' \in [Reports -> ReportRecords]
  /\ \A q \in Reports :
       \/ report'[q] = report[q]
       \/ /\ q[1] = u /\ q[2] # 0 /\ report'[q].at = "sent"
          /\ q[3] \in {"indexed", "ready"} => u \in chunks'

\* A step of a job keeps all of the invariant but what it says of active versions.
LEMMA JobStepInductive ==
  ASSUME Inductive, NEW u \in Uploads, JobStep(u), active' \subseteq Uploads, ActiveIsReady'
  PROVE  Inductive'
<1> USE DEF Inductive, JobStep
<1>1. TypeOK'
  BY DEF TypeOK, ReportRecords, WorkerRecords
<1>2. Registered'
  BY DEF Registered
<1>3. HandedOver'
  BY DEF HandedOver
<1>4. ChunksFirst'
  BY DEF ChunksFirst, Reports
<1>5. WritersApart' /\ AcceptedPassed'
  BY SendingInductive
<1>6. RefusalRecorded'
  <2>1. \A v \in Uploads : <<v, 0, "failed">> \in Reports /\ <<v, 0, "failed">>[2] = 0
    BY AssetVersionsAssumption DEF Reports, Deliveries, Reported
  <2> QED
    BY <2>1 DEF RefusalRecorded
<1> QED
  BY <1>1, <1>2, <1>3, <1>4, <1>5, <1>6

\* A job that moves on without a report makes such a step.
LEMMA MoveOnIsJobStep ==
  ASSUME Inductive, NEW u \in Uploads, NEW step \in WorkerSteps, MoveOn(u, step),
         worker[u].at # "none",
         UNCHANGED <<file, asset, chunks, version, request, report, torn>>,
         step \in {"indexed", "ready", "activate"} => u \in chunks
  PROVE  JobStep(u)
<1>1. worker[u].delivery # 0 /\ chunks \subseteq Uploads /\ report \in [Reports -> ReportRecords]
  BY DEF Inductive, TypeOK, HandedOver, ReportRecords
<1>2. /\ worker' \in [Uploads -> WorkerRecords] /\ worker'[u].delivery = worker[u].delivery
      /\ worker'[u].at = step
  BY MoveOnFacts DEF Inductive
<1>3. \A v \in Uploads \ {u} : worker'[v] = worker[v]
  BY DEF MoveOn, Inductive, TypeOK
<1> QED
  BY <1>1, <1>2, <1>3 DEF JobStep

\* So does a job that moves to its next report and sends it, in its own delivery.
LEMMA ReportNextIsJobStep ==
  ASSUME Inductive, NEW u \in Uploads, NEW state \in Reported, ReportNext(u, state),
         worker[u].at # "none",
         UNCHANGED <<file, asset, version, request, torn>>,
         chunks' = chunks \/ chunks' = chunks \cup {u},
         state \in {"indexed", "ready"} => u \in chunks'
  PROVE  JobStep(u)
<1> DEFINE t == <<u, worker[u].delivery, state>>
<1>1. /\ worker[u].delivery # 0 /\ chunks \subseteq Uploads /\ state \in WorkerSteps
      /\ t \in Reports /\ t[1] = u /\ t[2] # 0 /\ t[3] = state
  BY DEF Inductive, TypeOK, HandedOver, Reports, WorkerSteps
<1>2. MoveOn(u, state) /\ Send(t)
  BY DEF ReportNext
<1>3. /\ worker' \in [Uploads -> WorkerRecords] /\ worker'[u].delivery = worker[u].delivery
      /\ worker'[u].at = state
  BY <1>1, <1>2, MoveOnFacts DEF Inductive
<1>4. \A v \in Uploads \ {u} : worker'[v] = worker[v]
  BY <1>2 DEF MoveOn, Inductive, TypeOK
<1> HIDE DEF t
<1>5. /\ report' \in [Reports -> ReportRecords]
      /\ \A q \in Reports : report'[q] = report[q] \/ (q = t /\ report'[q].at = "sent")
  <2>1. TypeOK /\ t \in Reports /\ Send(t)
    BY <1>1, <1>2 DEF Inductive
  <2> QED
    BY <2>1, SendFacts
<1>6. state \in {"indexed", "ready", "activate"} => u \in chunks'
  BY DEF Reported
<1> QED
  BY <1>1, <1>3, <1>4, <1>5, <1>6 DEF JobStep

\* The job waits for the answer to its report and goes on, whatever the answer was.
LEMMA AfterReportInductive ==
  ASSUME Inductive, NEW u \in Uploads, AfterReport(u)
  PROVE  Inductive'
<1>1. /\ worker[u].at \in Reported /\ worker[u].at # "none"
      /\ worker[u].at \in {"indexed", "ready"} => u \in chunks
      /\ UNCHANGED <<store, version, request, torn>>
  BY DEF AfterReport, Reported, Inductive, ChunksFirst
<1>2. ASSUME NEW step \in {"parse", "activate", "finished"}, MoveOn(u, step), UNCHANGED report,
             step = "activate" => worker[u].at = "ready"
      PROVE  JobStep(u)
  BY <1>1, <1>2, MoveOnIsJobStep DEF WorkerSteps, store
<1>3. ASSUME worker[u].at = "indexed", ReportNext(u, "ready")
      PROVE  JobStep(u)
  BY <1>1, <1>3, ReportNextIsJobStep DEF Reported, store
<1>4. JobStep(u)
  BY <1>1, <1>2, <1>3 DEF AfterReport, Reported
<1> QED
  BY <1>1, <1>4, JobStepInductive DEF store, Inductive, ActiveIsReady, TypeOK

\* Parsing sends the job on, or to its report that it failed.
LEMMA ParseInductive ==
  ASSUME Inductive, NEW u \in Uploads, Parse(u)
  PROVE  Inductive'
<1>1. worker[u].at = "parse" /\ UNCHANGED <<store, version, request, torn>>
  BY DEF Parse
<1>2. ASSUME MoveOn(u, "replace") /\ UNCHANGED report
      PROVE  JobStep(u)
  BY <1>1, <1>2, MoveOnIsJobStep DEF WorkerSteps, store
<1>3. ASSUME ReportNext(u, "failed")
      PROVE  JobStep(u)
  BY <1>1, <1>3, ReportNextIsJobStep DEF Reported, store
<1>4. JobStep(u)
  BY <1>2, <1>3 DEF Parse
<1> QED
  BY <1>1, <1>4, JobStepInductive DEF store, Inductive, ActiveIsReady, TypeOK

\* The chunks are stored in the step that sends the report indexed, before it is handled.
LEMMA ReplaceInductive ==
  ASSUME Inductive, NEW u \in Uploads, Replace(u)
  PROVE  Inductive'
<1>1. worker[u].at = "replace" /\ UNCHANGED <<file, asset, active, version, request, torn>>
  BY DEF Replace
<1>2. ASSUME chunks' = chunks \cup {u} /\ ReportNext(u, "indexed")
      PROVE  JobStep(u)
  BY <1>1, <1>2, ReportNextIsJobStep DEF Reported
<1>3. ASSUME ReportNext(u, "failed") /\ UNCHANGED chunks
      PROVE  JobStep(u)
  BY <1>1, <1>3, ReportNextIsJobStep DEF Reported
<1>4. JobStep(u)
  BY <1>2, <1>3 DEF Replace
<1> QED
  BY <1>1, <1>4, JobStepInductive DEF Inductive, ActiveIsReady, TypeOK

\* A version is made active after it was found ready, and a ready version is registered.
LEMMA ActivateInductive ==
  ASSUME Inductive, NEW u \in Uploads, Activate(u)
  PROVE  Inductive'
<1>1. /\ worker[u].at = "activate" /\ MoveOn(u, "finished")
      /\ UNCHANGED <<file, asset, chunks, version, request, report, torn>>
  BY DEF Activate
<1>2. JobStep(u)
  BY <1>1, MoveOnIsJobStep DEF WorkerSteps
<1>3. active' \subseteq Uploads /\ ActiveIsReady'
  BY <1>1 DEF Activate, Activable, Inductive, ActiveIsReady, TypeOK, Registered
<1> QED
  BY <1>2, <1>3, JobStepInductive

\* A delivery that ends early starts the next one, or none.
LEMMA CrashInductive ==
  ASSUME Inductive, NEW u \in Uploads, Crash(u)
  PROVE  Inductive'
<1> DEFINE n == worker[u].delivery
           begun == [delivery |-> n + 1, at |-> "parsing"]
           t == <<u, n + 1, "parsing">>
<1>1. /\ worker[u].at # "none" /\ n \in Deliveries /\ n # 0 /\ chunks \subseteq Uploads
      /\ UNCHANGED <<store, version, request, torn>>
  BY DEF Crash, Inductive, HandedOver, TypeOK
<1>2. ASSUME n < MaxDeliveries /\ Deliver(u, n + 1)
      PROVE  JobStep(u)
  <2>1. /\ begun \in WorkerRecords /\ begun.delivery # 0 /\ begun.at = "parsing"
        /\ t \in Reports /\ t[1] = u /\ t[2] # 0 /\ t[3] = "parsing"
    BY <1>1, <1>2, AssetVersionsAssumption
    DEF Deliveries, WorkerSteps, Reports, Reported, WorkerRecords
  <2>2. worker' = [worker EXCEPT ![u] = begun] /\ Send(t)
    BY <1>2 DEF Deliver
  <2> HIDE DEF n, begun, t
  <2>3. /\ worker' \in [Uploads -> WorkerRecords] /\ worker'[u] = begun
        /\ \A v \in Uploads \ {u} : worker'[v] = worker[v]
    BY <2>1, <2>2 DEF Inductive, TypeOK, WorkerRecords
  <2>4. /\ report' \in [Reports -> ReportRecords]
        /\ \A q \in Reports : report'[q] = report[q] \/ (q = t /\ report'[q].at = "sent")
    BY <2>1, <2>2, SendFacts DEF Inductive
  <2> QED
    BY <1>1, <2>1, <2>3, <2>4 DEF JobStep, store
<1>3. ASSUME MoveOn(u, "dead") /\ UNCHANGED report
      PROVE  JobStep(u)
  BY <1>1, <1>3, MoveOnIsJobStep DEF WorkerSteps, store
<1>4. JobStep(u)
  BY <1>2, <1>3 DEF Crash
<1> QED
  BY <1>1, <1>4, JobStepInductive DEF store, Inductive, ActiveIsReady, TypeOK
-----------------------------------------------------------------------------
(***************************************************************************)
(* The theorems.                                                           *)
(***************************************************************************)
\* Before any upload there is no file, no version and no report.
LEMMA InitInductive == Init => Inductive
<1> SUFFICES ASSUME Init PROVE Inductive
  OBVIOUS
<1>1. TypeOK
  <2>1. 0 \in Deliveries
    BY AssetVersionsAssumption DEF Deliveries
  <2> QED
    BY <2>1 DEF Init, TypeOK, IndexStates, RequestSteps, Replies, WorkerSteps, Unsent
<1>2. Registered /\ HandedOver /\ RefusalRecorded /\ ActiveIsReady
  BY DEF Init, Registered, HandedOver, RefusalRecorded, ActiveIsReady, Unsent
<1>3. ChunksFirst /\ WritersApart /\ AcceptedPassed
  BY DEF Init, ChunksFirst, WritersApart, AcceptedPassed, Unsent
<1> QED
  BY <1>1, <1>2, <1>3 DEF Inductive

\* Every action of Next keeps the invariant, by the lemma of the action.
LEMMA NextInductive == Inductive /\ [Next]_vars => Inductive'
<1> SUFFICES ASSUME Inductive, [Next]_vars PROVE Inductive'
  OBVIOUS
<1>1. ASSUME NEW u \in Uploads, UploadCheck(u) \/ UploadStep(u) PROVE Inductive'
  BY <1>1, UploadCheckInductive, UploadWriteInductive, UploadRegisterInductive,
     UploadEnqueueInductive, UploadMarkFailedInductive DEF UploadStep
<1>2. ASSUME NEW u \in Uploads, WorkerStep(u) \/ Crash(u) PROVE Inductive'
  BY <1>2, AfterReportInductive, ParseInductive, ReplaceInductive, ActivateInductive,
     CrashInductive DEF WorkerStep
<1>3. ASSUME NEW t \in Reports, ReportStep(t) PROVE Inductive'
  BY <1>3, ReportReadInductive, ReportStoreInductive DEF ReportStep
<1>4. CASE UNCHANGED vars
  BY <1>4 DEF Inductive, TypeOK, Registered, HandedOver, ChunksFirst, WritersApart,
              AcceptedPassed, RefusalRecorded, ActiveIsReady, vars, store
<1> QED
  BY <1>1, <1>2, <1>3, <1>4 DEF Next

\* Uploads, reports and jobs keep the inductive invariant, in every interleaving.
THEOREM InductiveInvariant == Spec => []Inductive
BY InitInductive, NextInductive, PTL DEF Spec

\* TypeOK, for every number of uploads and deliveries: what create_upload, the report
\* handlers and the jobs store stays within its type.
THEOREM TypeCorrect == Spec => []TypeOK
<1>1. Inductive => TypeOK
  BY DEF Inductive
<1> QED
  BY <1>1, InductiveInvariant, PTL

\* ActiveIsFound: a ready version has its chunks in the index, and an active one that no
\* two writers tore is ready and belongs to an asset, whatever order reports arrive in.
THEOREM ActiveVersionsAreFound == Spec => []ActiveIsFound
<1>1. Inductive => ActiveIsFound
  BY DEF Inductive, ActiveIsFound, ChunksFirst, ActiveIsReady
<1> QED
  BY <1>1, InductiveInvariant, PTL

\* A finite set without two different elements has at most one.
LEMMA AtMostOne ==
  ASSUME NEW S, IsFiniteSet(S), \A x, y \in S : x = y
  PROVE  Cardinality(S) <= 1
<1>1. CASE S = {}
  BY <1>1, FS_EmptySet
<1>2. CASE S # {}
  <2>1. PICK x : S = {x}
    BY <1>2
  <2> QED
    BY <2>1, FS_Singleton
<1> QED
  BY <1>1, <1>2

\* AcceptedOnce: of the reports of a state that the deliveries of a job repeat, the
\* transition check lets one through, unless two writers of the version overlapped.
THEOREM ReportsAreAcceptedOnce == Spec => []AcceptedOnce
<1>1. ASSUME Inductive, NEW u \in Uploads \ torn, NEW s \in Reported
      PROVE  Cardinality({n \in Deliveries : report[<<u, n, s>>].at = "accepted"}) <= 1
  <2> DEFINE accepted == {n \in Deliveries : report[<<u, n, s>>].at = "accepted"}
  <2>1. IsFiniteSet(accepted)
    <3>1. IsFiniteSet(Deliveries)
      BY AssetVersionsAssumption, FS_Interval DEF Deliveries
    <3> QED
      BY <3>1, FS_Subset
  <2>2. ASSUME NEW m \in accepted, NEW n \in accepted PROVE m = n
    BY <1>1 DEF Inductive, AcceptedPassed, Reports
  <2> HIDE DEF accepted
  <2>3. Cardinality(accepted) <= 1
    BY <2>1, <2>2, AtMostOne
  <2> QED
    BY <2>3 DEF accepted
<1>2. Inductive => AcceptedOnce
  BY <1>1 DEF AcceptedOnce
<1> QED
  BY <1>2, InductiveInvariant, PTL

\* RefusedHandOverFails: an upload that answered rag_enqueue_failed left its version
\* failed and inactive, even where the job had been handed over.
THEOREM RefusedHandOversFail == Spec => []RefusedHandOverFails
<1>1. ASSUME Inductive, NEW u \in Uploads \ torn, request[u].reply = "rag_enqueue_failed"
      PROVE  version[u] = "failed" /\ u \notin active
  <2>1. "failed" \in Passed(version[u])
    <3> DEFINE t == <<u, 0, "failed">>
    <3>1. t \in Reports /\ t[1] = u /\ t[3] = "failed" /\ report[t].at = "accepted"
      BY <1>1, AssetVersionsAssumption
      DEF Inductive, RefusalRecorded, Reports, Deliveries, Reported
    <3> HIDE DEF t
    <3> QED
      BY <1>1, <3>1 DEF Inductive, AcceptedPassed
  <2>2. version[u] = "failed"
    BY <2>1 DEF Passed
  <2> QED
    BY <1>1, <2>2 DEF Inductive, ActiveIsReady
<1>2. Inductive => RefusedHandOverFails
  BY <1>1 DEF RefusedHandOverFails
<1> QED
  BY <1>2, InductiveInvariant, PTL
-----------------------------------------------------------------------------
(***************************************************************************)
(* The refinement: under the state that AssetVersions shows of a version,  *)
(* every step is a step of IndexLifecycle or changes nothing there.        *)
(***************************************************************************)
\* What IndexLifecycle sees of the versions.
Shown == [u \in Uploads |-> IF u \in torn THEN "torn" ELSE version[u]]

\* A step that moves one version along the lifecycle is an Advance of it.
LEMMA ShownAdvance ==
  ASSUME TypeOK, UNCHANGED torn, NEW u \in Uploads, NEW next \in IndexStates,
         version' = [version EXCEPT ![u] = next],
         u \notin torn => <<version[u], next>> \in Lifecycle!Steps
  PROVE  Lifecycle!Next \/ UNCHANGED Shown
<1>1. CASE u \in torn
  BY <1>1 DEF Shown, TypeOK
<1>2. CASE u \notin torn
  <2>1. Shown[u] = version[u] /\ Shown' = [Shown EXCEPT ![u] = next]
    BY <1>2 DEF Shown, TypeOK
  <2>2. Lifecycle!Advance(u)
    BY <1>2, <2>1 DEF Lifecycle!Advance, Shown
  <2> QED
    BY <2>2 DEF Lifecycle!Next
<1> QED
  BY <1>1, <1>2

\* Registration, storing a report and reading it beside another writer are the steps
\* that IndexLifecycle sees.
LEMMA StepRefines ==
  ASSUME Inductive, [Next]_vars
  PROVE  Lifecycle!Next \/ UNCHANGED Shown
<1> USE DEF Inductive
<1>1. ASSUME NEW u \in Uploads, UploadRegister(u)
      PROVE  Lifecycle!Next \/ UNCHANGED Shown
  <2>1. <<version[u], "queued">> \in Lifecycle!Steps /\ "queued" \in IndexStates
    BY <1>1 DEF UploadRegister, Registered, Lifecycle!Steps, IndexStates
  <2> QED
    BY <1>1, <2>1, ShownAdvance DEF UploadRegister
<1>2. ASSUME NEW t \in Reports, ReportStore(t)
      PROVE  Lifecycle!Next \/ UNCHANGED Shown
  <2>1. t[1] \in Uploads /\ t[3] \in IndexStates /\ version[t[1]] \in IndexStates
    BY DEF Reports, IndexStates, TypeOK
  <2>2. t[1] \notin torn => <<version[t[1]], t[3]>> \in Lifecycle!Steps
    BY <1>2, <2>1, FollowingFacts DEF ReportStore, WritersApart
  <2> QED
    BY <1>2, <2>1, <2>2, ShownAdvance DEF ReportStore
<1>3. ASSUME NEW t \in Reports, ReportRead(t)
      PROVE  Lifecycle!Next \/ UNCHANGED Shown
  <2>1. t[1] \in Uploads /\ version[t[1]] \in IndexStates /\ UNCHANGED version
    BY <1>3 DEF Reports, TypeOK, ReportRead
  <2>2. CASE torn' = torn
    BY <2>1, <2>2 DEF Shown
  <2>3. CASE torn' = torn \cup {t[1]} /\ t[1] \notin torn /\ t[3] \in Following(version[t[1]])
    <3>1. /\ Shown[t[1]] \in {"queued", "parsing", "indexed"}
          /\ Shown' = [Shown EXCEPT ![t[1]] = "torn"]
      BY <2>1, <2>3, FollowingFacts DEF Shown
    <3> QED
      BY <2>1, <3>1 DEF Lifecycle!Next, Lifecycle!Tear, Shown
  <2> QED
    BY <1>3, <2>2, <2>3 DEF ReportRead
<1>4. CASE UNCHANGED <<version, torn>>
  BY <1>4 DEF Shown
<1> QED
  <2>1. ASSUME NEW u \in Uploads, UploadCheck(u) \/ UploadStep(u)
        PROVE  UploadRegister(u) \/ UNCHANGED <<version, torn>>
    BY <2>1 DEF UploadCheck, UploadStep, UploadWrite, UploadEnqueue, UploadMarkFailed
  <2>2. ASSUME NEW u \in Uploads, WorkerStep(u) \/ Crash(u)
        PROVE  UNCHANGED <<version, torn>>
    BY <2>2 DEF WorkerStep, AfterReport, Parse, Replace, Activate, Crash
  <2>3. UNCHANGED vars => UNCHANGED <<version, torn>>
    BY DEF vars
  <2> QED
    BY <1>1, <1>2, <1>3, <1>4, <2>1, <2>2, <2>3 DEF Next, ReportStep

\* ImplementsLifecycle: what anyone can read of a version goes through the states that
\* transition_asset_version allows, each taken once, until two of its writers overlap.
THEOREM Refinement == Spec => ImplementsLifecycle
<1>1. Init => Lifecycle!Init
  BY DEF Init, Lifecycle!Init
<1>2. Inductive /\ [Next]_vars => [Lifecycle!Next]_Shown
  BY StepRefines
<1> QED
  BY <1>1, <1>2, InductiveInvariant, PTL DEF Spec, ImplementsLifecycle, Lifecycle!Spec, Shown
=============================================================================
