---------------------------- MODULE PlanExecution ----------------------------
(***************************************************************************)
(* Confirmation, approval, execution, verification and recovery of plans:  *)
(* ControlPlaneService.confirm_plan, decide_approval, _execute_plan and    *)
(* resolve_recovery_task over InMemoryControlPlaneRepository.              *)
(*                                                                         *)
(* A request is one HTTP call; its handler is a plain `def', so it runs on *)
(* a thread of the server's pool and interleaves with the others without a *)
(* lock.  One action is one call of the repository or of a port: a Plan or *)
(* Approval a handler has read is a frozen copy, and everything it decides *)
(* from the copy is local to the thread.  A repository method runs without *)
(* a thread switch that matters: between the end of a scan and the store   *)
(* that follows there is no switch point, and a store during the scan      *)
(* makes the scan raise (ScanRaises).                                      *)
(*                                                                         *)
(* The executor and the verifier are ports here: any outcome their types   *)
(* allow.  ControlledDirectory models the adapters behind them.            *)
(*                                                                         *)
(* A definition named X_Y, here and in the other modules, is not part of   *)
(* the specification: it is definition X with the fault Y, for the runs    *)
(* that check that a property notices the fault.                           *)
(***************************************************************************)
EXTENDS Naturals, FiniteSets

CONSTANTS
  Requests,       \* the HTTP requests of the run, each handled once
  Plans,          \* plans created by create_plan, in state pending_confirmation
  Actors,         \* identities of the sessions
  Keys,           \* values of the Idempotency-Key header
  Creator,        \* plan -> the actor that created it
  NeedsApproval,  \* plans whose decision_state is APPROVAL_REQUIRED
  Approvers,      \* actors that hold the approver role
  WorkspaceOf,    \* actor -> workspace
  Verdicts,       \* verification results the port may give
  DriftKinds,     \* reasons for which a plan may stop being executable
  HasVerifier,    \* is a verification_port injected?
  MayRaise,       \* may a port or a scan raise what no handler expects?
  MaxInFlight,    \* threads of the pool: 1 makes the requests sequential
  None

Unverified == {"mismatch", "unknown", "needs_recovery", "escalated", "unverified"}

JobStates == {"none", "queued", "failed", "completed", "verified"} \cup Unverified

PlanStates == {"pending_confirmation", "pending_approval", "approved", "rejected",
               "executing", "failed", "completed", "verified", "recovered"} \cup Unverified

TaskStates == {"none", "pending", "recovered", "escalated"}

\* What a verification port may answer; UNMATCHED is a result with matched = False
\* whose status is VERIFIED all the same.
VerdictNames == {"VERIFIED", "MISMATCH", "UNKNOWN", "NEEDS_RECOVERY", "ESCALATED", "UNMATCHED"}

\* PermissionError of the executor; any other exception, or a result that is not
\* "completed" with an operation id.
Failures == {"denied", "error"}

Outcomes == {"none", "completed"} \cup Failures \cup Verdicts

ASSUME PlanExecutionAssumption ==
  /\ Creator \in [Plans -> Actors]
  /\ NeedsApproval \subseteq Plans
  /\ Approvers \subseteq Actors
  /\ DOMAIN WorkspaceOf = Actors
  /\ Verdicts \subseteq VerdictNames
  /\ DriftKinds \subseteq {"expired", "context_drift", "acl_denied", "asset_snapshot_drift"}
  /\ HasVerifier \in BOOLEAN
  /\ MayRaise \in BOOLEAN
  /\ MaxInFlight \in Nat \ {0}
  /\ IsFiniteSet(Requests)
  /\ None \notin Actors \cup Keys \cup Requests
  /\ None \notin [confirmer : Actors \cup {None}, approver : Actors \cup {None}]

Resolutions == {"recovered", "escalated"}

Decisions == {"approved", "rejected"}

\* What a client sends: want is "confirm" for POST /api/plans/../confirm, a
\* decision for /api/approvals/../decide, a resolution for
\* /api/recovery-tasks/../resolve; hash tells whether the expected_plan_hash it
\* presents is the plan's.
Calls == [want : {"confirm"} \cup Decisions \cup Resolutions, plan : Plans, actor : Actors,
          key : Keys \cup {None}, hash : BOOLEAN, task : Requests \cup {None}]

Steps == {"idle", "load_plan", "load_approval", "load_task", "lookup_job",
          "lookup_confirmation", "lookup_approval", "add_confirmation",
          "to_pending_approval", "add_approval", "reject_approval", "reject_plan",
          "revalidate_decision", "approve_approval", "approve_plan",
          "find_job", "revalidate", "add_job", "to_executing", "execute", "verify",
          "apply_paths", "settle_job", "settle_plan", "open_task",
          "resolve_task", "resolve_plan", "done"}

Replies == {"none", "refused", "job", "approval", "conflict", "not_executable", "rejected",
            "failed", "unverified", "resolved", "crashed"}

Events == {"approval_requested", "approval_rejected", "approval_approved",
           "plan_revalidation_failed", "execution_denied", "execution_failed",
           "execution_completed", "execution_verified", "execution_verification_failed",
           "recovery_task_created", "recovery_resolved", "recovery_escalated"}

NoApproval == [requester |-> None, approver |-> None, decision |-> "none"]

VARIABLES
  planState,    \* repository.plans[p].state
  confirmedBy,  \* confirmed_by of the plan's confirmation, None without one
  approval,     \* the plan's approval record
  jobState,     \* state of the job of <<plan, idempotency key>>
  taskState,    \* state of the recovery task a request created
  audit,        \* audit events a request appended
  drift,        \* why the plan is not executable now (environment)
  pc, call, seen, outcome, reply,  \* threads: step, input, stale copies, port result, answer
  evidence,     \* history: what the executor was given by a request, None before
  late          \* history: was the plan already past its expiry when the request came?

store   == <<planState, confirmedBy, approval, jobState, taskState, audit>>
history == <<evidence, late>>
vars    == <<store, drift, pc, call, seen, outcome, reply, history>>
-----------------------------------------------------------------------------
StoreOK ==
  /\ planState \in [Plans -> PlanStates]
  /\ confirmedBy \in [Plans -> Actors \cup {None}]
  /\ approval \in [Plans -> [requester : Actors \cup {None}, approver : Actors \cup {None},
                             decision : Decisions \cup {"none", "pending"}]]
  /\ jobState \in [Plans \X Keys -> JobStates]
  /\ taskState \in [Requests -> TaskStates]
  /\ audit \in [Requests -> SUBSET Events]
  /\ drift \in [Plans -> SUBSET DriftKinds]

ThreadsOK ==
  /\ pc \in [Requests -> Steps]
  /\ call \in [Requests -> Calls \cup {None}]
  /\ \A r \in Requests : pc[r] # "idle" => call[r] \in Calls
  /\ reply \in [Requests -> Replies]

LocalsOK ==
  /\ seen \in [Requests -> [plan : PlanStates, decision : Decisions \cup {"none", "pending"}]]
  /\ outcome \in [Requests -> Outcomes]
  /\ evidence \in [Requests -> [confirmer : Actors \cup {None}, approver : Actors \cup {None}]
                               \cup {None}]
  /\ late \in [Requests -> BOOLEAN]

TypeOK == StoreOK /\ ThreadsOK /\ LocalsOK

Init ==
  /\ planState = [p \in Plans |-> "pending_confirmation"]
  /\ confirmedBy = [p \in Plans |-> None]
  /\ approval = [p \in Plans |-> NoApproval]
  /\ jobState = [j \in Plans \X Keys |-> "none"]
  /\ taskState = [r \in Requests |-> "none"]
  /\ audit = [r \in Requests |-> {}]
  /\ drift = [p \in Plans |-> {}]
  /\ pc = [r \in Requests |-> "idle"]
  /\ call = [r \in Requests |-> None]
  /\ seen = [r \in Requests |-> [plan |-> "pending_confirmation", decision |-> "none"]]
  /\ outcome = [r \in Requests |-> "none"]
  /\ reply = [r \in Requests |-> "none"]
  /\ evidence = [r \in Requests |-> None]
  /\ late = [r \in Requests |-> FALSE]
-----------------------------------------------------------------------------
InFlight == {r \in Requests : pc[r] \notin {"idle", "done"}}

PlanOf(r) == call[r].plan

JobOf(r) == jobState[<<PlanOf(r), call[r].key>>]

Ran(r) == evidence[r] # None

Goto(r, step) == pc' = [pc EXCEPT ![r] = step] /\ UNCHANGED reply

Answer(r, answer) ==
  /\ pc' = [pc EXCEPT ![r] = "done"]
  /\ reply' = [reply EXCEPT ![r] = answer]

SetPlan(r, state) == planState' = [planState EXCEPT ![PlanOf(r)] = state]

SetJob(r, state) == jobState' = [jobState EXCEPT ![<<PlanOf(r), call[r].key>>] = state]

Note(r, event) == audit' = [audit EXCEPT ![r] = @ \cup {event}]
-----------------------------------------------------------------------------
\* A client sends a request and a free thread takes it. An approval or a task
\* is named by its id, so it exists (an unknown id is a 404 without effect).
Addressable(c) ==
  \/ c.want = "confirm" /\ c.key # None /\ c.task = None
  \/ c.want \in Decisions /\ c.key # None /\ c.task = None /\ approval[c.plan] # NoApproval
  \/ /\ c.want \in Resolutions /\ c.key = None /\ c.task # None /\ c.hash
     /\ taskState[c.task] # "none" /\ c.plan = PlanOf(c.task)

FirstStep(c) == IF c.want = "confirm" THEN "load_plan"
                ELSE IF c.want \in Decisions THEN "load_approval" ELSE "load_task"

Arrive(r) ==
  /\ pc[r] = "idle"
  /\ Cardinality(InFlight) < MaxInFlight
  /\ \E c \in Calls :
       /\ Addressable(c)
       /\ call' = [call EXCEPT ![r] = c]
       /\ late' = [late EXCEPT ![r] = "expired" \in drift[c.plan]]
       /\ Goto(r, FirstStep(c))
  /\ UNCHANGED <<store, drift, seen, outcome, evidence>>

\* confirm_plan: the plan is read once; creator and hash are checked.
MayConfirm(c) == c.actor = Creator[c.plan] /\ c.hash

LoadPlan(r) ==
  /\ pc[r] = "load_plan"
  /\ \/ ~MayConfirm(call[r]) /\ Answer(r, "refused") /\ UNCHANGED seen
     \/ /\ MayConfirm(call[r])
        /\ seen' = [seen EXCEPT ![r] = [plan |-> planState[PlanOf(r)], decision |-> "none"]]
        /\ Goto(r, "lookup_job")
  /\ UNCHANGED <<store, drift, call, outcome, history>>

\* decide_approval: approval and plan are read; then workspace, four eyes (the
\* recorded requester), role and hash are checked. The plan read just after the
\* approval differs from one read with it only by turning an answer into a conflict.
MayDecide_NoFourEyes(c) ==
  /\ WorkspaceOf[c.actor] = WorkspaceOf[Creator[c.plan]]
  /\ c.actor \in Approvers
  /\ c.hash

MayDecide(c) ==
  /\ WorkspaceOf[c.actor] = WorkspaceOf[Creator[c.plan]]
  /\ approval[c.plan].requester # c.actor
  /\ c.actor \in Approvers
  /\ c.hash

LoadApproval(r) ==
  /\ pc[r] = "load_approval"
  /\ \/ ~MayDecide(call[r]) /\ Answer(r, "refused") /\ UNCHANGED seen
     \/ /\ MayDecide(call[r])
        /\ seen' = [seen EXCEPT ![r] = [plan |-> planState[PlanOf(r)],
                                        decision |-> approval[PlanOf(r)].decision]]
        /\ Goto(r, "lookup_job")
  /\ UNCHANGED <<store, drift, call, outcome, history>>

\* A job of this plan and key answers a retry, whatever its state; otherwise the
\* copies read before decide.
StillPending_Unchecked(r) == approval[PlanOf(r)] # NoApproval

StillPending(r) == seen[r].decision = "pending" /\ seen[r].plan = "pending_approval"

LookupJob(r) ==
  /\ pc[r] = "lookup_job"
  /\ \/ JobOf(r) # "none" /\ Answer(r, "job")
     \/ JobOf(r) = "none" /\ call[r].want = "confirm" /\ Goto(r, "lookup_confirmation")
     \/ /\ JobOf(r) = "none" /\ call[r].want \in Decisions
        /\ \/ ~StillPending(r) /\ Answer(r, "conflict")
           \/ StillPending(r) /\ call[r].want = "rejected" /\ Goto(r, "reject_approval")
           \/ StillPending(r) /\ call[r].want = "approved" /\ Goto(r, "revalidate_decision")
  /\ UNCHANGED <<store, drift, call, seen, outcome, history>>

\* A confirmation of a plan waiting for approval answers with that approval; any
\* other plan that is not (or was not, when read) pending_confirmation conflicts.
LookupConfirmation(r) ==
  /\ pc[r] = "lookup_confirmation"
  /\ LET repeated == /\ confirmedBy[PlanOf(r)] # None
                     /\ PlanOf(r) \in NeedsApproval
                     /\ seen[r].plan = "pending_approval"
     IN  \/ repeated /\ Goto(r, "lookup_approval")
         \/ ~repeated /\ seen[r].plan # "pending_confirmation" /\ Answer(r, "conflict")
         \/ ~repeated /\ seen[r].plan = "pending_confirmation" /\ Goto(r, "add_confirmation")
  /\ UNCHANGED <<store, drift, call, seen, outcome, history>>

LookupApproval(r) ==
  /\ pc[r] = "lookup_approval"
  /\ Answer(r, IF approval[PlanOf(r)] = NoApproval THEN "conflict" ELSE "approval")
  /\ UNCHANGED <<store, drift, call, seen, outcome, history>>

\* One confirmation per plan: the repository raises ValueError for a second one,
\* which no handler expects.
Confirmable_Unchecked(p) == p \in Plans

Confirmable(p) == confirmedBy[p] = None

AddConfirmation_SkipsApproval(r) ==
  /\ pc[r] = "add_confirmation"
  /\ Confirmable(PlanOf(r))
  /\ confirmedBy' = [confirmedBy EXCEPT ![PlanOf(r)] = call[r].actor]
  /\ Goto(r, "find_job")
  /\ UNCHANGED <<planState, approval, jobState, taskState, audit, drift, call, seen, outcome,
                 history>>

AddConfirmation(r) ==
  /\ pc[r] = "add_confirmation"
  /\ \/ ~Confirmable(PlanOf(r)) /\ Answer(r, "crashed") /\ UNCHANGED confirmedBy
     \/ /\ Confirmable(PlanOf(r))
        /\ confirmedBy' = [confirmedBy EXCEPT ![PlanOf(r)] = call[r].actor]
        /\ Goto(r, IF PlanOf(r) \in NeedsApproval THEN "to_pending_approval" ELSE "find_job")
  /\ UNCHANGED <<planState, approval, jobState, taskState, audit, drift, call, seen, outcome,
                 history>>

\* The plan turns pending_approval before its approval exists.
ToPendingApproval(r) ==
  /\ pc[r] = "to_pending_approval"
  /\ SetPlan(r, "pending_approval")
  /\ Goto(r, "add_approval")
  /\ UNCHANGED <<confirmedBy, approval, jobState, taskState, audit, drift, call, seen, outcome,
                 history>>

AddApproval(r) ==
  /\ pc[r] = "add_approval"
  /\ approval' = [approval EXCEPT ![PlanOf(r)] =
                    [requester |-> call[r].actor, approver |-> None, decision |-> "pending"]]
  /\ Note(r, "approval_requested")
  /\ Answer(r, "approval")
  /\ UNCHANGED <<planState, confirmedBy, jobState, taskState, drift, call, seen, outcome, history>>
-----------------------------------------------------------------------------
\* Each update of an approval replaces the record by the copy read at the start
\* with this handler's decision; so does each update of a plan with its state.
Decide(r, decision) ==
  approval' = [approval EXCEPT ![PlanOf(r)] =
                 [requester |-> @.requester, approver |-> call[r].actor, decision |-> decision]]

RejectApproval(r) ==
  /\ pc[r] = "reject_approval"
  /\ Decide(r, "rejected")
  /\ Goto(r, "reject_plan")
  /\ UNCHANGED <<planState, confirmedBy, jobState, taskState, audit, drift, call, seen, outcome,
                 history>>

RejectPlan(r) ==
  /\ pc[r] = "reject_plan"
  /\ SetPlan(r, "rejected")
  /\ Note(r, "approval_rejected")
  /\ Answer(r, "rejected")
  /\ UNCHANGED <<confirmedBy, approval, jobState, taskState, drift, call, seen, outcome, history>>

\* Expiry, context version, ACL of the creator and asset snapshots, in that order;
\* the first that fails is audited and the plan keeps its state.
Executable_IgnoresExpiry(p) == drift[p] \subseteq {"expired"}

Executable(p) == drift[p] = {}

Revalidate(r, next) ==
  \/ Executable(PlanOf(r)) /\ Goto(r, next) /\ UNCHANGED audit
  \/ /\ ~Executable(PlanOf(r))
     /\ Note(r, "plan_revalidation_failed")
     /\ Answer(r, "not_executable")

RevalidateDecision(r) ==
  /\ pc[r] = "revalidate_decision"
  /\ Revalidate(r, "approve_approval")
  /\ UNCHANGED <<planState, confirmedBy, approval, jobState, taskState, drift, call, seen, outcome,
                 history>>

ApproveApproval(r) ==
  /\ pc[r] = "approve_approval"
  /\ Decide(r, "approved")
  /\ Note(r, "approval_approved")
  /\ Goto(r, "approve_plan")
  /\ UNCHANGED <<planState, confirmedBy, jobState, taskState, drift, call, seen, outcome, history>>

ApprovePlan(r) ==
  /\ pc[r] = "approve_plan"
  /\ SetPlan(r, "approved")
  /\ Goto(r, "find_job")
  /\ UNCHANGED <<confirmedBy, approval, jobState, taskState, audit, drift, call, seen, outcome,
                 history>>
-----------------------------------------------------------------------------
\* _execute_plan, reached from both handlers.
FindJob_StoresFirst(r) ==
  /\ pc[r] = "find_job"
  /\ \/ JobOf(r) # "none" /\ Answer(r, "job") /\ UNCHANGED jobState
     \/ JobOf(r) = "none" /\ Goto(r, "revalidate") /\ SetJob(r, "queued")
  /\ UNCHANGED <<planState, confirmedBy, approval, taskState, audit, drift, call, seen, outcome,
                 history>>

FindJob(r) ==
  /\ pc[r] = "find_job"
  /\ \/ JobOf(r) # "none" /\ Answer(r, "job")
     \/ JobOf(r) = "none" /\ Goto(r, "revalidate")
  /\ UNCHANGED <<store, drift, call, seen, outcome, history>>

RevalidateExecution(r) ==
  /\ pc[r] = "revalidate"
  /\ Revalidate(r, "add_job")
  /\ UNCHANGED <<planState, confirmedBy, approval, jobState, taskState, drift, call, seen, outcome,
                 history>>

\* add_execution_job returns the job another thread stored meanwhile, and the
\* handler goes on with it as with its own.
AddJob(r) ==
  /\ pc[r] = "add_job"
  /\ \/ JobOf(r) = "none" /\ SetJob(r, "queued")
     \/ JobOf(r) # "none" /\ UNCHANGED jobState
  /\ Goto(r, "to_executing")
  /\ UNCHANGED <<planState, confirmedBy, approval, taskState, audit, drift, call, seen, outcome,
                 history>>

ToExecuting(r) ==
  /\ pc[r] = "to_executing"
  /\ SetPlan(r, "executing")
  /\ Goto(r, "execute")
  /\ UNCHANGED <<confirmedBy, approval, jobState, taskState, audit, drift, call, seen, outcome,
                 history>>

\* The executor is given the confirmation and, after an approval, who approved.
EvidenceOf(r) ==
  [confirmer |-> confirmedBy[PlanOf(r)],
   approver  |-> IF call[r].want = "approved" THEN call[r].actor ELSE None]

\* Whatever the executor answers, files may have changed.
Execute(r) ==
  /\ pc[r] = "execute"
  /\ evidence' = [evidence EXCEPT ![r] = EvidenceOf(r)]
  /\ \E result \in Failures \cup {"completed"} :
       /\ outcome' = [outcome EXCEPT ![r] = result]
       /\ Goto(r, IF result \in Failures THEN "settle_job"
                  ELSE IF HasVerifier THEN "verify" ELSE "apply_paths")
  /\ UNCHANGED <<store, drift, call, seen, late>>

\* The read-back. An exception of the verifier leaves the handler.
Verify(r) ==
  /\ pc[r] = "verify"
  /\ \/ \E verdict \in Verdicts :
          /\ outcome' = [outcome EXCEPT ![r] = verdict]
          /\ Goto(r, IF verdict = "VERIFIED" THEN "apply_paths" ELSE "settle_job")
     \/ MayRaise /\ Answer(r, "crashed") /\ UNCHANGED outcome
  /\ UNCHANGED <<store, drift, call, seen, history>>

\* Moves the plan's assets to their target paths; KeyError if one was removed.
ApplyPaths(r) ==
  /\ pc[r] = "apply_paths"
  /\ \/ Goto(r, "settle_job")
     \/ MayRaise /\ Answer(r, "crashed")
  /\ UNCHANGED <<store, drift, call, seen, outcome, history>>
-----------------------------------------------------------------------------
\* _fail_execution, the completed branch, _complete_verified_execution and
\* _record_unverified_execution all write the job, then the plan, then the audit.
SettledState_Untranslated(result) == IF result \in Failures THEN "failed" ELSE result

SettledState(result) ==
  CASE result \in Failures -> "failed"
    [] result = "VERIFIED" -> "verified"
    [] result = "MISMATCH" -> "mismatch"
    [] result = "UNKNOWN" -> "unknown"
    [] result = "NEEDS_RECOVERY" -> "needs_recovery"
    [] result = "ESCALATED" -> "escalated"
    [] result = "UNMATCHED" -> "unverified"
    [] OTHER -> "completed"

SettledEvent(result) ==
  CASE result = "denied" -> "execution_denied"
    [] result = "error" -> "execution_failed"
    [] result = "completed" -> "execution_completed"
    [] result = "VERIFIED" -> "execution_verified"
    [] OTHER -> "execution_verification_failed"

SettleJob_TrustsExecutor(r) ==
  /\ pc[r] = "settle_job"
  /\ SetJob(r, IF outcome[r] \in Failures THEN "failed" ELSE "verified")
  /\ Goto(r, "settle_plan")
  /\ UNCHANGED <<planState, confirmedBy, approval, taskState, audit, drift, call, seen, outcome,
                 history>>

SettleJob(r) ==
  /\ pc[r] = "settle_job"
  /\ SetJob(r, SettledState(outcome[r]))
  /\ Goto(r, "settle_plan")
  /\ UNCHANGED <<planState, confirmedBy, approval, taskState, audit, drift, call, seen, outcome,
                 history>>

SettlePlan_OpensNoTask(r) ==
  /\ pc[r] = "settle_plan"
  /\ SetPlan(r, SettledState(outcome[r]))
  /\ Note(r, SettledEvent(outcome[r]))
  /\ Answer(r, IF outcome[r] = "VERIFIED" THEN "job" ELSE "failed")
  /\ UNCHANGED <<confirmedBy, approval, jobState, taskState, drift, call, seen, outcome, history>>

SettlePlan_KeepsFailedPlan(r) ==
  /\ pc[r] = "settle_plan"
  /\ Note(r, SettledEvent(outcome[r]))
  /\ IF outcome[r] \in Failures
     THEN Answer(r, "failed") /\ UNCHANGED planState
     ELSE Goto(r, "open_task") /\ SetPlan(r, SettledState(outcome[r]))
  /\ UNCHANGED <<confirmedBy, approval, jobState, taskState, drift, call, seen, outcome, history>>

SettlePlan(r) ==
  /\ pc[r] = "settle_plan"
  /\ SetPlan(r, SettledState(outcome[r]))
  /\ Note(r, SettledEvent(outcome[r]))
  /\ IF SettledState(outcome[r]) \in Unverified
     THEN Goto(r, "open_task")
     ELSE Answer(r, IF outcome[r] \in Failures THEN "failed" ELSE "job")
  /\ UNCHANGED <<confirmedBy, approval, jobState, taskState, drift, call, seen, outcome, history>>

OpenTask(r) ==
  /\ pc[r] = "open_task"
  /\ taskState' = [taskState EXCEPT ![r] = "pending"]
  /\ Note(r, "recovery_task_created")
  /\ Answer(r, "unverified")
  /\ UNCHANGED <<planState, confirmedBy, approval, jobState, drift, call, seen, outcome, history>>
-----------------------------------------------------------------------------
\* resolve_recovery_task: the task is read and its workspace and state checked
\* on the copy; then the task and, after it, its plan are overwritten.
Resolvable(c) ==
  /\ taskState[c.task] = "pending"
  /\ WorkspaceOf[c.actor] = WorkspaceOf[Creator[c.plan]]

LoadTask(r) ==
  /\ pc[r] = "load_task"
  /\ \/ Resolvable(call[r]) /\ Goto(r, "resolve_task")
     \/ ~Resolvable(call[r]) /\ Answer(r, "conflict")
  /\ UNCHANGED <<store, drift, call, seen, outcome, history>>

ResolveTask(r) ==
  /\ pc[r] = "resolve_task"
  /\ taskState' = [taskState EXCEPT ![call[r].task] = call[r].want]
  /\ Goto(r, "resolve_plan")
  /\ UNCHANGED <<planState, confirmedBy, approval, jobState, audit, drift, call, seen, outcome,
                 history>>

ResolvePlan_KeepsPlan(r) ==
  /\ pc[r] = "resolve_plan"
  /\ Note(r, IF call[r].want = "recovered" THEN "recovery_resolved" ELSE "recovery_escalated")
  /\ Answer(r, "resolved")
  /\ UNCHANGED <<planState, confirmedBy, approval, jobState, taskState, drift, call, seen,
                 outcome, history>>

ResolvePlan(r) ==
  /\ pc[r] = "resolve_plan"
  /\ SetPlan(r, call[r].want)
  /\ Note(r, IF call[r].want = "recovered" THEN "recovery_resolved" ELSE "recovery_escalated")
  /\ Answer(r, "resolved")
  /\ UNCHANGED <<confirmedBy, approval, jobState, taskState, drift, call, seen, outcome, history>>
-----------------------------------------------------------------------------
\* A scan of a repository dictionary raises if another thread stores into it.
Scans == {"lookup_job", "lookup_confirmation", "lookup_approval", "add_confirmation",
          "add_approval", "revalidate_decision", "find_job", "revalidate", "add_job"}

ScanRaises(r) ==
  /\ MayRaise
  /\ pc[r] \in Scans
  /\ InFlight \ {r} # {}
  /\ Answer(r, "crashed")
  /\ UNCHANGED <<store, drift, call, seen, outcome, history>>

\* Time passes the expiry, a session gets another context version, a grant is
\* revoked, an asset changes its version or goes. Only a grant can come back.
Drift(p) ==
  /\ \E kind \in DriftKinds \ drift[p] : drift' = [drift EXCEPT ![p] = @ \cup {kind}]
  /\ UNCHANGED <<store, pc, call, seen, outcome, reply, history>>

Regrant(p) ==
  /\ "acl_denied" \in drift[p]
  /\ drift' = [drift EXCEPT ![p] = @ \ {"acl_denied"}]
  /\ UNCHANGED <<store, pc, call, seen, outcome, reply, history>>

ConfirmStep(r) ==
  \/ LoadPlan(r) \/ LookupConfirmation(r) \/ LookupApproval(r) \/ AddConfirmation(r)
  \/ ToPendingApproval(r) \/ AddApproval(r)

DecideStep(r) ==
  \/ LoadApproval(r) \/ RejectApproval(r) \/ RejectPlan(r)
  \/ RevalidateDecision(r) \/ ApproveApproval(r) \/ ApprovePlan(r)

ExecuteStep(r) ==
  \/ FindJob(r) \/ RevalidateExecution(r) \/ AddJob(r) \/ ToExecuting(r) \/ Execute(r)
  \/ Verify(r) \/ ApplyPaths(r) \/ SettleJob(r) \/ SettlePlan(r) \/ OpenTask(r)

ResolveStep(r) == LoadTask(r) \/ ResolveTask(r) \/ ResolvePlan(r)

Step(r) == LookupJob(r) \/ ConfirmStep(r) \/ DecideStep(r) \/ ExecuteStep(r) \/ ResolveStep(r)

Next ==
  \/ \E r \in Requests : Arrive(r) \/ Step(r) \/ ScanRaises(r)
  \/ \E p \in Plans : Drift(p) \/ Regrant(p)

Spec == Init /\ [][Next]_vars

\* The thread of a request that has arrived keeps running.
FairSpec == Spec /\ \A r \in Requests : WF_vars(Step(r))
-----------------------------------------------------------------------------
(***************************************************************************)
(* What holds however the threads interleave.                              *)
(***************************************************************************)
\* Nothing reaches the executor without its creator's confirmation and, where the
\* policy asks for approval, another actor of the workspace holding the role
\* (README.md:17, four eyes), however confirm_plan and decide_approval interleave.
EvidenceComplete ==
  \A r \in Requests : Ran(r) =>
    /\ call[r].hash
    /\ evidence[r].confirmer = Creator[PlanOf(r)]
    /\ PlanOf(r) \in NeedsApproval =>
         /\ evidence[r].approver \in Approvers \ {Creator[PlanOf(r)]}
         /\ WorkspaceOf[evidence[r].approver] = WorkspaceOf[Creator[PlanOf(r)]]

\* A plan that needs no approval is executed at most once, whatever keys its
\* creator retries with: add_confirmation lets one request through.
SelfConfirmedOnce ==
  \A q, r \in Requests :
    /\ Ran(q) /\ Ran(r)
    /\ PlanOf(q) = PlanOf(r) /\ PlanOf(q) \notin NeedsApproval
    => q = r

\* A plan that had expired when a request came is not executed by that request.
ExpiredNeverRuns == \A r \in Requests : late[r] => ~Ran(r)

\* A settled job, and a plan in a state that only an execution gives, repeat the
\* result of one execution of that plan (and key): two handlers that overwrite each
\* other never leave a verdict nobody read back.
Witness(p, state) ==
  {r \in Requests : Ran(r) /\ PlanOf(r) = p /\ SettledState(outcome[r]) = state}

StatesWitnessed ==
  \A p \in Plans :
    /\ \A k \in Keys : jobState[<<p, k>>] \notin {"none", "queued"} =>
         \E r \in Witness(p, jobState[<<p, k>>]) : call[r].key = k
    /\ planState[p] \in {"failed", "completed", "verified"} \cup (Unverified \ {"escalated"})
         => Witness(p, planState[p]) # {}

\* A read-back that does not verify always ends in a recovery task and both audit
\* events, and a recovery task exists for nothing else (engineering-principles.md:145).
UnverifiedOpensTask ==
  \A r \in Requests :
    LET unverified == /\ Ran(r) /\ pc[r] = "done"
                      /\ SettledState(outcome[r]) \in Unverified
    IN  /\ unverified => taskState[r] # "none"
        /\ taskState[r] # "none" =>
             unverified /\ {"execution_verification_failed", "recovery_task_created"} \subseteq audit[r]

\* A job in a reply was stored by a request that has executed it or still will: a retry
\* never shows a job that nobody runs, though it may show one that is still queued.
StoredJobHasRunner ==
  \A r \in Requests : reply[r] = "job" /\ ~Ran(r) =>
    \E q \in Requests \ {r} :
      /\ Ran(q) \/ pc[q] \in {"to_executing", "execute"}
      /\ PlanOf(q) = PlanOf(r) /\ call[q].key = call[r].key

\* Between requests a plan is executing only if a handler crashed after the executor
\* ran; whatever else comes back unverified has one of the states that
\* engineering-principles.md:81 asks for.
LimboIsACrash ==
  InFlight = {} =>
    \A p \in Plans : planState[p] = "executing" =>
      \E r \in Requests : Ran(r) /\ PlanOf(r) = p /\ reply[r] = "crashed"

\* With ports that raise only what the handlers expect, no plan stays executing:
\* every interleaving of the handlers ends in a state of the verification table.
ExecutingSettles ==
  \A p \in Plans : planState[p] = "executing" ~> planState[p] # "executing"
-----------------------------------------------------------------------------
(***************************************************************************)
(* Why it holds: the inductive invariant.                                  *)
(***************************************************************************)
ConfirmSteps == {"lookup_confirmation", "lookup_approval", "add_confirmation",
                 "to_pending_approval", "add_approval"}

ApproveSteps == {"revalidate_decision", "approve_approval", "approve_plan"}

RejectSteps == {"reject_approval", "reject_plan"}

ExecuteSteps == {"find_job", "revalidate", "add_job", "to_executing", "execute", "verify",
                 "apply_paths", "settle_job", "settle_plan", "open_task"}

ResolveSteps == {"load_task", "resolve_task", "resolve_plan"}

\* A thread is in the handler its request asked for.
Routed ==
  \A r \in Requests :
    /\ pc[r] \in {"load_plan"} \cup ConfirmSteps => call[r].want = "confirm"
    /\ pc[r] = "load_approval" => call[r].want \in Decisions
    /\ pc[r] = "lookup_job" => call[r].want \in {"confirm"} \cup Decisions
    /\ pc[r] \in ApproveSteps => call[r].want = "approved"
    /\ pc[r] \in RejectSteps => call[r].want = "rejected"
    /\ pc[r] \in ExecuteSteps => call[r].want \in {"confirm", "approved"}
    /\ pc[r] \in ResolveSteps => call[r].want \in Resolutions

\* Past its first checks, a request comes from the creator, or from an approver of
\* the workspace who is not the creator.
PastChecks(r) ==
  \/ pc[r] \in {"lookup_job"} \cup ConfirmSteps \cup ApproveSteps \cup RejectSteps
              \cup ExecuteSteps
  \/ Ran(r)

Admitted ==
  \A r \in Requests : PastChecks(r) =>
    /\ call[r].hash
    /\ call[r].want = "confirm" => call[r].actor = Creator[PlanOf(r)]
    /\ call[r].want # "confirm" =>
         /\ call[r].actor \in Approvers \ {Creator[PlanOf(r)]}
         /\ WorkspaceOf[call[r].actor] = WorkspaceOf[Creator[PlanOf(r)]]

\* The confirmation and the approval request of a plan are its creator's, and only
\* a confirmed plan that needs one has an approval.
Records ==
  \A p \in Plans :
    /\ confirmedBy[p] \in {None, Creator[p]}
    /\ approval[p] # NoApproval =>
         /\ p \in NeedsApproval
         /\ confirmedBy[p] = Creator[p]
         /\ approval[p].requester = Creator[p]

\* The request that holds the one confirmation of its plan.
Holds(r) ==
  /\ pc[r] \in {"to_pending_approval", "add_approval"} \cup ExecuteSteps \/ Ran(r)
  /\ call[r].want = "confirm"

\* What a thread may rely on once it is past add_confirmation, or decides.
Backed ==
  \A r \in Requests :
    /\ pc[r] # "idle" /\ call[r].want \in Decisions => approval[PlanOf(r)] # NoApproval
    /\ pc[r] \in ExecuteSteps \/ Ran(r) =>
         (call[r].want = "confirm" <=> PlanOf(r) \notin NeedsApproval)
    /\ pc[r] \in {"to_pending_approval", "add_approval"} => PlanOf(r) \in NeedsApproval
    /\ Ran(r) => /\ pc[r] \in ExecuteSteps \cup {"done"}
                 /\ call[r].want \in {"confirm", "approved"}
    /\ Holds(r) => confirmedBy[PlanOf(r)] # None

OneHolder ==
  \A q, r \in Requests : Holds(q) /\ Holds(r) /\ PlanOf(q) = PlanOf(r) => q = r

\* What the executor was given is what the repository holds.
Evidenced ==
  \A r \in Requests : Ran(r) =>
    /\ evidence[r].confirmer = Creator[PlanOf(r)]
    /\ call[r].want = "approved" => evidence[r].approver = call[r].actor

\* An expiry does not pass, so a request that came after it stops at a revalidation.
Lateness ==
  \A r \in Requests : late[r] =>
    /\ pc[r] # "idle"
    /\ "expired" \in drift[PlanOf(r)]
    /\ ~Ran(r)
    /\ pc[r] \in ExecuteSteps => pc[r] \in {"find_job", "revalidate"}

Inductive ==
  TypeOK /\ Routed /\ Admitted /\ Records /\ Backed /\ OneHolder /\ Evidenced /\ Lateness
-----------------------------------------------------------------------------
(***************************************************************************)
(* What holds when requests come one at a time (MaxInFlight = 1).          *)
(***************************************************************************)
\* However often, with whatever keys and by whomever a plan is confirmed, decided
\* and recovered, it is executed at most once.
RunsOnce ==
  \A q, r \in Requests : Ran(q) /\ Ran(r) /\ PlanOf(q) = PlanOf(r) => q = r

\* A rejected plan never runs, whoever asks later, and neither does one whose
\* confirmation revalidation refused: it stays pending_confirmation and confirmed, and
\* even if the cause passes, no request of its creator executes it.
RefusalsStand ==
  \A r \in Requests : Ran(r) =>
    /\ approval[PlanOf(r)].decision # "rejected"
    /\ \A q \in Requests :
         call[q] # None /\ call[q].want = "confirm" /\ reply[q] = "not_executable"
           => PlanOf(q) # PlanOf(r)

\* Between requests, a plan's state is that of its settled job, or of the
\* resolution of the task that job left.
PlanAgreesWithJob ==
  InFlight = {} =>
    \A p \in Plans, k \in Keys : jobState[<<p, k>>] \notin {"none", "queued"} =>
      \/ planState[p] = jobState[<<p, k>>]
      \/ planState[p] \in Resolutions /\ jobState[<<p, k>>] \in Unverified

\* Between requests, a plan whose verification failed has a task somebody can
\* still resolve, until a resolution is recorded; one request resolves it, a later one
\* gets the 409 that engineering-principles.md:152 names.
RecoveryOwed ==
  /\ InFlight = {} =>
       \A p \in Plans : planState[p] \in Unverified =>
         \E r \in Requests : taskState[r] # "none" /\ PlanOf(r) = p
                             /\ (taskState[r] = "pending" \/ planState[p] = taskState[r])
  /\ \A q, r \in Requests :
       reply[q] = "resolved" /\ reply[r] = "resolved" /\ call[q].task = call[r].task => q = r

\* The states a plan goes through.
Lifecycle == INSTANCE PlanLifecycle WITH state <- planState
ImplementsLifecycle == Lifecycle!Spec
-----------------------------------------------------------------------------
(***************************************************************************)
(* What the documentation says and threads or ports break.                 *)
(***************************************************************************)
\* README.md:19 lists idempotency of plans among what is delivered: requests that
\* carry the same key for a plan execute it once.
KeyRunsOnce ==
  \A q, r \in Requests :
    Ran(q) /\ Ran(r) /\ PlanOf(q) = PlanOf(r) /\ call[q].key = call[r].key => q = r
=============================================================================
