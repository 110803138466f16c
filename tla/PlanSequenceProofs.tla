-------------------------- MODULE PlanSequenceProofs --------------------------
(***************************************************************************)
(* Theorems about PlanExecution when requests come one at a time           *)
(* (MaxInFlight = 1), for every set of requests, plans, actors and keys:   *)
(* a plan goes through PlanLifecycle and is executed at most once.         *)
(***************************************************************************)
EXTENDS PlanExecutionProofs
-----------------------------------------------------------------------------
(***************************************************************************)
(* The inductive invariant, on top of Inductive and Results.               *)
(***************************************************************************)
\* No two threads work at the same time.
Alone == \A q, r \in InFlight : q = r

\* What the one thread read about its plan still holds when it looks at it.
Fresh ==
  \A r \in Requests :
    pc[r] \in {"lookup_job", "lookup_confirmation"} => seen[r].plan = planState[PlanOf(r)]

\* The state of the plan at each step of its handler.
Staged ==
  \A r \in Requests :
    LET state == planState[PlanOf(r)]
    IN  /\ pc[r] \in {"add_confirmation", "to_pending_approval"} => state = "pending_confirmation"
        /\ pc[r] \in {"add_approval", "revalidate_decision", "approve_approval", "approve_plan",
                      "reject_approval", "reject_plan"} => state = "pending_approval"
        /\ pc[r] \in {"find_job", "revalidate", "add_job", "to_executing"} =>
             state = IF PlanOf(r) \in NeedsApproval THEN "approved" ELSE "pending_confirmation"
        /\ pc[r] \in {"execute", "verify", "apply_paths", "settle_job", "settle_plan"} =>
             state = "executing"
        /\ pc[r] = "open_task" => state = SettledState(outcome[r])
        /\ pc[r] \in {"resolve_task", "resolve_plan"} => state \in Unverified

\* A plan that was executed never gets back to a state from which it could be.
StatesOfRun == {"executing", "failed", "completed", "verified", "recovered"} \cup Unverified

Advanced == \A r \in Requests : Ran(r) => planState[PlanOf(r)] \in StatesOfRun

\* Nobody has executed the plan that a thread is about to execute.
FirstRun == \A q, r \in Requests : pc[q] = "execute" /\ Ran(r) => PlanOf(q) # PlanOf(r)

\* A plan keeps its result until the task it left is resolved.
ResultKept ==
  \A r \in Requests : Settled(r) /\ pc[r] # "settle_plan" =>
    \/ planState[PlanOf(r)] = SettledState(outcome[r])
    \/ planState[PlanOf(r)] \in Resolutions /\ SettledState(outcome[r]) \in Unverified

\* A task is pending as long as its plan has the unverified result, then the plan
\* gets its resolution.
TasksAgree ==
  \A t \in Requests :
    /\ taskState[t] # "none" => reply[t] = "unverified"
    /\ taskState[t] = "pending" => planState[PlanOf(t)] = SettledState(outcome[t])
    /\ taskState[t] \in Resolutions =>
         \/ planState[PlanOf(t)] = taskState[t]
         \/ \E q \in Requests : pc[q] = "resolve_plan" /\ call[q].task = t

\* A plan in an unverified state has a task, or its handler is about to open one.
Owed ==
  \A p \in Plans : planState[p] \in Unverified =>
    \E r \in Requests : PlanOf(r) = p /\ Ran(r) /\ (pc[r] = "open_task" \/ taskState[r] # "none")

\* Who resolves a task, or has, is the only one.
Resolver(q) == pc[q] = "resolve_plan" \/ reply[q] = "resolved"

OneResolver ==
  /\ \A q \in Requests :
       /\ pc[q] = "resolve_task" => taskState[call[q].task] = "pending"
       /\ Resolver(q) => call[q].task \in Requests /\ taskState[call[q].task] \in Resolutions
       /\ pc[q] = "resolve_plan" => taskState[call[q].task] = call[q].want
  /\ \A q, r \in Requests :
       Resolver(q) /\ Resolver(r) /\ call[q].task = call[r].task => q = r

\* A rejected approval belongs to a rejected plan, or to one that is being rejected.
RejectionsHold ==
  \A p \in Plans : approval[p].decision = "rejected" =>
    \/ planState[p] = "rejected"
    \/ /\ planState[p] = "pending_approval"
       /\ \E q \in Requests : pc[q] = "reject_plan" /\ PlanOf(q) = p

\* A confirmation that revalidation refused is the plan's only one, and spent.
Refused(q) == pc[q] = "done" /\ call[q].want = "confirm" /\ reply[q] = "not_executable"

RefusedIsSpent ==
  \A q \in Requests : Refused(q) =>
    /\ PlanOf(q) \notin NeedsApproval
    /\ confirmedBy[PlanOf(q)] # None
    /\ \A r \in Requests : Holds(r) => PlanOf(r) # PlanOf(q)

Sequential ==
  /\ Alone /\ Fresh /\ Staged /\ Advanced /\ FirstRun /\ RunsOnce /\ ResultKept
  /\ TasksAgree /\ Owed /\ OneResolver /\ RejectionsHold /\ RefusedIsSpent
-----------------------------------------------------------------------------
(***************************************************************************)
(* How a thread moves, and when a plan changes its state.                  *)
(***************************************************************************)
\* The step from which a thread comes to a step.
Follows(from, step) ==
  /\ step = "lookup_job" => from \in {"load_plan", "load_approval"}
  /\ step \in {"lookup_confirmation", "reject_approval", "revalidate_decision"} =>
       from = "lookup_job"
  /\ step \in {"lookup_approval", "add_confirmation"} => from = "lookup_confirmation"
  /\ step = "to_pending_approval" => from = "add_confirmation"
  /\ step = "add_approval" => from = "to_pending_approval"
  /\ step = "reject_plan" => from = "reject_approval"
  /\ step = "approve_approval" => from = "revalidate_decision"
  /\ step = "approve_plan" => from = "approve_approval"
  /\ step = "find_job" => from \in {"add_confirmation", "approve_plan"}
  /\ step = "revalidate" => from = "find_job"
  /\ step = "add_job" => from = "revalidate"
  /\ step = "to_executing" => from = "add_job"
  /\ step = "execute" => from = "to_executing"
  /\ step = "verify" => from = "execute"
  /\ step = "apply_paths" => from \in {"execute", "verify"}
  /\ step = "settle_job" => from \in {"execute", "verify", "apply_paths"}
  /\ step = "settle_plan" => from = "settle_job"
  /\ step = "open_task" => from = "settle_plan"
  /\ step = "resolve_task" => from = "load_task"
  /\ step = "resolve_plan" => from = "resolve_task"

LEMMA WorkFollows ==
  ASSUME TypeOK, NEW r \in Requests, Work(r)
  PROVE  Follows(pc[r], pc'[r])
<1> USE DEF Follows
<1>1. ASSUME NEW step \in Steps, Goto(r, step), Follows(pc[r], step)
      PROVE  Follows(pc[r], pc'[r])
  BY <1>1, GotoAt
<1>2. ASSUME NEW answer, Answer(r, answer)
      PROVE  Follows(pc[r], pc'[r])
  BY <1>2, AnswerAt DEF TypeOK, ThreadsOK
<1> USE DEF Steps
<1>3. CASE ScanRaises(r)
  BY <1>2, <1>3 DEF ScanRaises
<1>4. CASE LookupJob(r)
  <2>1. /\ pc[r] = "lookup_job"
        /\ pc'[r] \in {"done", "lookup_confirmation", "reject_approval", "revalidate_decision"}
    BY <1>4, GotoAt, AnswerAt DEF LookupJob
  <2> QED
    BY <2>1
<1>5. CASE LoadPlan(r) \/ LookupConfirmation(r) \/ LookupApproval(r)
  <2>1. CASE LoadPlan(r)
    BY <1>1, <1>2, <2>1 DEF LoadPlan
  <2>2. CASE LookupConfirmation(r)
    BY <1>1, <1>2, <2>2 DEF LookupConfirmation
  <2>3. CASE LookupApproval(r)
    BY <1>1, <1>2, <2>3 DEF LookupApproval
  <2> QED
    BY <1>5, <2>1, <2>2, <2>3
<1>6. CASE AddConfirmation(r) \/ ToPendingApproval(r) \/ AddApproval(r)
  <2>1. CASE AddConfirmation(r)
    <3>1. pc[r] = "add_confirmation" /\ pc'[r] \in {"done", "to_pending_approval", "find_job"}
      BY <2>1, GotoAt, AnswerAt DEF AddConfirmation
    <3> QED
      BY <3>1
  <2>2. CASE ToPendingApproval(r)
    BY <1>1, <1>2, <2>2 DEF ToPendingApproval
  <2>3. CASE AddApproval(r)
    BY <1>1, <1>2, <2>3 DEF AddApproval
  <2> QED
    BY <1>6, <2>1, <2>2, <2>3
<1>7. CASE LoadApproval(r) \/ RejectApproval(r) \/ RejectPlan(r)
  <2>1. CASE LoadApproval(r)
    BY <1>1, <1>2, <2>1 DEF LoadApproval
  <2>2. CASE RejectApproval(r)
    BY <1>1, <1>2, <2>2 DEF RejectApproval
  <2>3. CASE RejectPlan(r)
    BY <1>1, <1>2, <2>3 DEF RejectPlan
  <2> QED
    BY <1>7, <2>1, <2>2, <2>3
<1>8. CASE RevalidateDecision(r) \/ ApproveApproval(r) \/ ApprovePlan(r)
  <2>1. CASE RevalidateDecision(r)
    BY <1>1, <1>2, <2>1 DEF RevalidateDecision, Revalidate
  <2>2. CASE ApproveApproval(r)
    BY <1>1, <1>2, <2>2 DEF ApproveApproval
  <2>3. CASE ApprovePlan(r)
    BY <1>1, <1>2, <2>3 DEF ApprovePlan
  <2> QED
    BY <1>8, <2>1, <2>2, <2>3
<1>9. CASE FindJob(r) \/ RevalidateExecution(r) \/ AddJob(r) \/ ToExecuting(r)
  <2>1. CASE FindJob(r)
    BY <1>1, <1>2, <2>1 DEF FindJob
  <2>2. CASE RevalidateExecution(r)
    BY <1>1, <1>2, <2>2 DEF RevalidateExecution, Revalidate
  <2>3. CASE AddJob(r)
    BY <1>1, <1>2, <2>3 DEF AddJob
  <2>4. CASE ToExecuting(r)
    BY <1>1, <1>2, <2>4 DEF ToExecuting
  <2> QED
    BY <1>9, <2>1, <2>2, <2>3, <2>4
<1>10. CASE Execute(r) \/ Verify(r) \/ ApplyPaths(r) \/ SettleJob(r) \/ SettlePlan(r) \/ OpenTask(r)
  <2>1. pc[r] \in RunSteps \ {"add_job", "to_executing"}
    BY <1>10 DEF Execute, Verify, ApplyPaths, SettleJob, SettlePlan, OpenTask, RunSteps, AfterSteps
  <2> QED
    BY <2>1, ExecuteFacts, VerifyFacts, ApplyPathsFacts, SettleJobFacts, SettlePlanFacts,
       OpenTaskFacts
    DEF RunSteps, AfterSteps
<1>11. CASE ResolveStep(r)
  <2>1. CASE LoadTask(r)
    BY <1>1, <1>2, <2>1 DEF LoadTask
  <2>2. CASE ResolveTask(r)
    BY <1>1, <1>2, <2>2 DEF ResolveTask
  <2>3. CASE ResolvePlan(r)
    BY <1>1, <1>2, <2>3 DEF ResolvePlan
  <2> QED
    BY <1>11, <2>1, <2>2, <2>3 DEF ResolveStep
<1> QED
  BY <1>3, <1>4, <1>5, <1>6, <1>7, <1>8, <1>9, <1>10, <1>11
  DEF Work, Step, ConfirmStep, DecideStep, ExecuteStep

\* The step of a thread that is not executing yet is the one its program counter names.
LEMMA EarlyStepAt ==
  ASSUME NEW r \in Requests, Work(r), ~ScanRaises(r)
  PROVE  /\ pc[r] = "load_plan" => LoadPlan(r)
         /\ pc[r] = "load_approval" => LoadApproval(r)
         /\ pc[r] = "load_task" => LoadTask(r)
         /\ pc[r] = "lookup_job" => LookupJob(r)
         /\ pc[r] = "lookup_confirmation" => LookupConfirmation(r)
         /\ pc[r] = "add_confirmation" => AddConfirmation(r)
         /\ pc[r] = "to_pending_approval" => ToPendingApproval(r)
         /\ pc[r] = "add_approval" => AddApproval(r)
         /\ pc[r] = "reject_approval" => RejectApproval(r)
         /\ pc[r] = "reject_plan" => RejectPlan(r)
         /\ pc[r] = "approve_approval" => ApproveApproval(r)
         /\ pc[r] = "approve_plan" => ApprovePlan(r)
         /\ pc[r] = "revalidate" => RevalidateExecution(r)
<1>1. CASE LookupJob(r)
  BY <1>1 DEF LookupJob
<1>2. CASE ConfirmStep(r)
  BY <1>2 DEF ConfirmStep, LoadPlan, LookupConfirmation, LookupApproval, AddConfirmation,
              ToPendingApproval, AddApproval
<1>3. CASE DecideStep(r)
  BY <1>3 DEF DecideStep, LoadApproval, RejectApproval, RejectPlan, RevalidateDecision,
              ApproveApproval, ApprovePlan
<1>4. CASE ExecuteStep(r)
  BY <1>4 DEF ExecuteStep, FindJob, RevalidateExecution, AddJob, ToExecuting, Execute,
              Verify, ApplyPaths, SettleJob, SettlePlan, OpenTask
<1>5. CASE ResolveStep(r)
  BY <1>5 DEF ResolveStep, LoadTask, ResolveTask, ResolvePlan
<1> QED
  BY <1>1, <1>2, <1>3, <1>4, <1>5 DEF Work, Step

\* What a thread has checked when it goes on to a step.
LEMMA WorkGuards ==
  ASSUME TypeOK, NEW r \in Requests, Work(r)
  PROVE  /\ pc'[r] = "lookup_job" => seen'[r].plan = planState[PlanOf(r)]
         /\ pc'[r] = "lookup_confirmation" => seen'[r] = seen[r]
         /\ pc'[r] = "add_confirmation" => seen[r].plan = "pending_confirmation"
         /\ pc'[r] \in {"reject_approval", "revalidate_decision"} => seen[r].plan = "pending_approval"
         /\ pc[r] = "add_confirmation" /\ pc'[r] = "find_job" => PlanOf(r) \notin NeedsApproval
         /\ pc'[r] = "resolve_task" => taskState[call[r].task] = "pending"
<1>1. Follows(pc[r], pc'[r])
  BY WorkFollows
<1>2. CASE ScanRaises(r)
  BY <1>2, AnswerAt DEF ScanRaises
<1>3. CASE ~ScanRaises(r) /\ pc'[r] = "lookup_job"
  <2>1. LoadPlan(r) \/ LoadApproval(r)
    BY <1>1, <1>3, EarlyStepAt DEF Follows
  <2>2. ~Answer(r, "refused")
    BY <1>3, AnswerAt
  <2>3. PICK decision : seen' = [seen EXCEPT ![r] = [plan |-> planState[PlanOf(r)], decision |-> decision]]
    BY <2>1, <2>2 DEF LoadPlan, LoadApproval
  <2> QED
    BY <1>3, <2>3 DEF TypeOK, LocalsOK
<1>4. CASE ~ScanRaises(r) /\ pc'[r] \in {"lookup_confirmation", "reject_approval", "revalidate_decision"}
  <2>1. LookupJob(r)
    BY <1>1, <1>4, EarlyStepAt DEF Follows
  <2>2. pc'[r] \in {"reject_approval", "revalidate_decision"} => StillPending(r)
    BY <2>1, GotoAt, AnswerAt DEF LookupJob
  <2> QED
    BY <1>4, <2>1, <2>2 DEF LookupJob, StillPending
<1>5. CASE ~ScanRaises(r) /\ pc'[r] = "add_confirmation"
  <2>1. LookupConfirmation(r)
    BY <1>1, <1>5, EarlyStepAt DEF Follows
  <2> QED
    BY <1>5, <2>1, GotoAt, AnswerAt DEF LookupConfirmation
<1>6. CASE ~ScanRaises(r) /\ pc[r] = "add_confirmation" /\ pc'[r] = "find_job"
  BY <1>6, EarlyStepAt, GotoAt, AnswerAt DEF AddConfirmation
<1>7. CASE ~ScanRaises(r) /\ pc'[r] = "resolve_task"
  <2>1. LoadTask(r)
    BY <1>1, <1>7, EarlyStepAt DEF Follows
  <2> QED
    BY <1>7, <2>1, GotoAt, AnswerAt DEF LoadTask, Resolvable
<1> QED
  BY <1>2, <1>3, <1>4, <1>5, <1>6, <1>7

\* The state in which a step leaves its own plan.
PlanAfter(r) ==
  CASE pc[r] = "to_pending_approval" -> "pending_approval"
    [] pc[r] = "reject_plan" -> "rejected"
    [] pc[r] = "approve_plan" -> "approved"
    [] pc[r] = "to_executing" -> "executing"
    [] pc[r] = "settle_plan" -> SettledState(outcome[r])
    [] pc[r] = "resolve_plan" -> call[r].want
    [] OTHER -> planState[PlanOf(r)]

LEMMA WorkPlan ==
  ASSUME TypeOK, Routed, NEW r \in Requests, Work(r)
  PROVE  \A p \in Plans : planState'[p] = IF p = PlanOf(r) THEN PlanAfter(r) ELSE planState[p]
<1>1. CASE pc[r] = "to_pending_approval"
  <2>1. ~ScanRaises(r)
    BY <1>1 DEF ScanRaises, Scans
  <2>2. SetPlan(r, "pending_approval")
    BY <1>1, <2>1, EarlyStepAt DEF ToPendingApproval
  <2> QED
    BY <1>1, <2>2, SetPlanAt DEF PlanAfter
<1>2. CASE pc[r] = "reject_plan"
  <2>1. ~ScanRaises(r)
    BY <1>2 DEF ScanRaises, Scans
  <2>2. SetPlan(r, "rejected")
    BY <1>2, <2>1, EarlyStepAt DEF RejectPlan
  <2> QED
    BY <1>2, <2>2, SetPlanAt DEF PlanAfter
<1>3. CASE pc[r] = "approve_plan"
  <2>1. ~ScanRaises(r)
    BY <1>3 DEF ScanRaises, Scans
  <2>2. SetPlan(r, "approved")
    BY <1>3, <2>1, EarlyStepAt DEF ApprovePlan
  <2> QED
    BY <1>3, <2>2, SetPlanAt DEF PlanAfter
<1>4. CASE pc[r] \in {"to_executing", "settle_plan", "resolve_plan"}
  BY <1>4, ToExecutingFacts, SettlePlanFacts, ResolvePlanFacts DEF PlanAfter
<1>5. CASE pc[r] \notin {"to_pending_approval", "reject_plan", "approve_plan", "to_executing",
                         "settle_plan", "resolve_plan"}
  <2>1. UNCHANGED planState
    <3>1. CASE pc[r] \in RunSteps \cup {"resolve_task"}
      BY <1>5, <3>1, AddJobFacts, ExecuteFacts, VerifyFacts, ApplyPathsFacts, SettleJobFacts,
         OpenTaskFacts, ResolveTaskFacts
      DEF RunSteps, AfterSteps
    <3>2. CASE pc[r] \notin RunSteps \cup {"resolve_task"}
      <4>1. CASE ScanRaises(r) \/ LookupJob(r) \/ LoadTask(r)
        BY <4>1 DEF ScanRaises, LookupJob, LoadTask, store
      <4>2. CASE ConfirmStep(r)
        BY <1>5, <4>2 DEF ConfirmStep, LoadPlan, LookupConfirmation, LookupApproval,
                          AddConfirmation, ToPendingApproval, AddApproval, store
      <4>3. CASE DecideStep(r)
        BY <1>5, <4>3 DEF DecideStep, LoadApproval, RejectApproval, RejectPlan,
                          RevalidateDecision, ApproveApproval, ApprovePlan, store
      <4>4. CASE FindJob(r) \/ RevalidateExecution(r)
        BY <4>4 DEF FindJob, RevalidateExecution, store
      <4>5. \/ ScanRaises(r) \/ LookupJob(r) \/ LoadTask(r) \/ ConfirmStep(r) \/ DecideStep(r)
            \/ FindJob(r) \/ RevalidateExecution(r)
        BY <1>5, <3>2 DEF Work, Step, ExecuteStep, ResolveStep, AddJob, ToExecuting, Execute,
                          Verify, ApplyPaths, SettleJob, SettlePlan, OpenTask, ResolveTask,
                          ResolvePlan, RunSteps, AfterSteps
      <4> QED
        BY <4>1, <4>2, <4>3, <4>4, <4>5
    <3> QED
      BY <3>1, <3>2
  <2> QED
    BY <1>5, <2>1 DEF PlanAfter
<1> QED
  BY <1>1, <1>2, <1>3, <1>4, <1>5

\* While a thread works, every other request waits or is done, and stays so.
LEMMA Elsewhere ==
  ASSUME TypeOK, Routed, Alone, NEW r \in Requests, Work(r)
  PROVE  /\ UNCHANGED call
         /\ \A q \in Requests \ {r} :
              /\ pc[q] \in {"idle", "done"} /\ pc'[q] = pc[q]
              /\ reply'[q] = reply[q] /\ outcome'[q] = outcome[q] /\ Ran(q)' = Ran(q)
<1>1. pc[r] \notin {"idle", "done"}
  BY WorkFrame
<1> QED
  BY <1>1, RunFrame DEF Alone, InFlight

\* A request that ran has a plan.
LEMMA RanPlan ==
  ASSUME TypeOK, PastExecutor, NEW r \in Requests, Ran(r)
  PROVE  PlanOf(r) \in Plans
BY CallKnown DEF PastExecutor, AfterSteps
-----------------------------------------------------------------------------
(***************************************************************************)
(* A step of a handler keeps each conjunct of Sequential.                  *)
(***************************************************************************)
LEMMA WorkAlone ==
  ASSUME TypeOK, Routed, Alone, NEW r \in Requests, Work(r)
  PROVE  Alone'
BY Elsewhere DEF Alone, InFlight

LEMMA WorkFresh ==
  ASSUME TypeOK, Routed, Alone, Fresh, NEW r \in Requests, Work(r)
  PROVE  Fresh'
<1> SUFFICES ASSUME NEW q \in Requests, pc'[q] \in {"lookup_job", "lookup_confirmation"}
             PROVE  seen'[q].plan = planState'[PlanOf(q)']
  BY DEF Fresh
<1>1. q = r /\ PlanOf(q)' = PlanOf(r)
  BY Elsewhere DEF PlanOf
<1>2. pc[r] \in {"load_plan", "load_approval", "lookup_job"}
  BY <1>1, WorkFollows DEF Follows
<1>3. planState'[PlanOf(r)] = planState[PlanOf(r)]
  BY <1>2, WorkPlan, CallKnown DEF PlanAfter
<1>4. pc'[r] = "lookup_confirmation" => pc[r] = "lookup_job"
  BY WorkFollows DEF Follows
<1> QED
  BY <1>1, <1>3, <1>4, WorkGuards DEF Fresh

LEMMA WorkStaged ==
  ASSUME TypeOK, Routed, Records, Backed, Alone, Fresh, Staged, NEW r \in Requests, Work(r),
         Addressed, UnverifiedOpensTask, TasksAgree
  PROVE  Staged'
<1> DEFINE after == planState'[PlanOf(r)]
<1>0. PlanOf(r) \in Plans /\ UNCHANGED call /\ after = PlanAfter(r)
  BY WorkFrame, CallKnown, WorkPlan
<1>1. pc'[r] \in {"add_confirmation", "to_pending_approval"} => after = "pending_confirmation"
  <2>1. pc'[r] = "add_confirmation" => /\ pc[r] = "lookup_confirmation"
                                       /\ seen[r].plan = "pending_confirmation"
    BY WorkFollows, WorkGuards DEF Follows
  <2>2. pc'[r] = "to_pending_approval" => pc[r] = "add_confirmation"
    BY WorkFollows DEF Follows
  <2> QED
    BY <1>0, <2>1, <2>2 DEF PlanAfter, Fresh, Staged
<1>2. pc'[r] \in {"add_approval", "revalidate_decision", "approve_approval", "approve_plan",
                  "reject_approval", "reject_plan"} => after = "pending_approval"
  <2>1. pc'[r] \in {"reject_approval", "revalidate_decision"} =>
          pc[r] = "lookup_job" /\ seen[r].plan = "pending_approval"
    BY WorkFollows, WorkGuards DEF Follows
  <2>2. /\ pc'[r] = "add_approval" => pc[r] = "to_pending_approval"
        /\ pc'[r] = "approve_approval" => pc[r] = "revalidate_decision"
        /\ pc'[r] = "approve_plan" => pc[r] = "approve_approval"
        /\ pc'[r] = "reject_plan" => pc[r] = "reject_approval"
    BY WorkFollows DEF Follows
  <2> QED
    BY <1>0, <2>1, <2>2 DEF PlanAfter, Fresh, Staged
<1>3. pc'[r] \in {"find_job", "revalidate", "add_job", "to_executing"} =>
        after = IF PlanOf(r) \in NeedsApproval THEN "approved" ELSE "pending_confirmation"
  <2>1. CASE pc'[r] = "find_job"
    <3>1. CASE pc[r] = "add_confirmation"
      BY <1>0, <2>1, <3>1, WorkGuards DEF PlanAfter, Staged
    <3>2. CASE pc[r] = "approve_plan"
      <4>1. PlanOf(r) \in NeedsApproval
        BY <1>0, <3>2 DEF Routed, ApproveSteps, Backed, Decisions, Records
      <4> QED
        BY <1>0, <3>2, <4>1 DEF PlanAfter
    <3> QED
      BY <2>1, <3>1, <3>2, WorkFollows DEF Follows
  <2>2. CASE pc'[r] \in {"revalidate", "add_job", "to_executing"}
    <3>1. pc[r] \in {"find_job", "revalidate", "add_job"}
      BY <2>2, WorkFollows DEF Follows
    <3> QED
      BY <1>0, <3>1 DEF PlanAfter, Staged
  <2> QED
    BY <2>1, <2>2
<1>4. pc'[r] \in {"execute", "verify", "apply_paths", "settle_job", "settle_plan"} =>
        after = "executing"
  <2>1. pc'[r] = "execute" => pc[r] = "to_executing"
    BY WorkFollows DEF Follows
  <2>2. pc'[r] \in {"verify", "apply_paths", "settle_job", "settle_plan"} =>
          pc[r] \in {"execute", "verify", "apply_paths", "settle_job"}
    BY WorkFollows DEF Follows
  <2> QED
    BY <1>0, <2>1, <2>2 DEF PlanAfter, Staged
<1>5. pc'[r] = "open_task" => after = SettledState(outcome'[r])
  <2>1. pc'[r] = "open_task" => pc[r] = "settle_plan"
    BY WorkFollows DEF Follows
  <2>2. pc[r] = "settle_plan" => outcome' = outcome
    BY SettlePlanFacts
  <2> QED
    BY <1>0, <2>1, <2>2 DEF PlanAfter
<1>6. pc'[r] \in {"resolve_task", "resolve_plan"} => after \in Unverified
  <2>1. CASE pc'[r] = "resolve_task"
    <3>1. pc[r] = "load_task" /\ taskState[call[r].task] = "pending"
      BY <2>1, WorkFollows, WorkGuards DEF Follows
    <3>2. call[r].task \in Requests /\ PlanOf(r) = PlanOf(call[r].task)
      BY <3>1 DEF Addressed, Routed, ResolveSteps
    <3>3. planState[PlanOf(r)] = SettledState(outcome[call[r].task])
      BY <3>1, <3>2 DEF TasksAgree
    <3>4. SettledState(outcome[call[r].task]) \in Unverified
      BY <3>1, <3>2 DEF UnverifiedOpensTask
    <3> QED
      BY <1>0, <3>1, <3>3, <3>4 DEF PlanAfter
  <2>2. CASE pc'[r] = "resolve_plan"
    <3>1. pc[r] = "resolve_task"
      BY <2>2, WorkFollows DEF Follows
    <3> QED
      BY <1>0, <3>1 DEF PlanAfter, Staged
  <2> QED
    BY <2>1, <2>2
<1> HIDE DEF after
<1>7. SUFFICES ASSUME NEW q \in Requests
               PROVE  Staged!(q)'
  BY DEF Staged
<1>8. CASE q # r
  BY <1>8, Elsewhere
<1>9. CASE q = r
  BY <1>0, <1>1, <1>2, <1>3, <1>4, <1>5, <1>6, <1>9 DEF PlanOf, after
<1> QED
  BY <1>8, <1>9

\* The plan of an execution changes only when that execution, or its task, is settled.
LEMMA RanPlanMoves ==
  ASSUME TypeOK, Routed, PastExecutor, Staged, Advanced, NEW r \in Requests, Work(r),
         NEW q \in Requests, Ran(q)
  PROVE  \/ planState'[PlanOf(q)] = planState[PlanOf(q)]
         \/ /\ pc[r] = "settle_plan" /\ PlanOf(q) = PlanOf(r)
            /\ planState'[PlanOf(q)] = SettledState(outcome[r])
         \/ /\ pc[r] = "resolve_plan" /\ PlanOf(q) = PlanOf(r)
            /\ planState'[PlanOf(q)] = call[r].want /\ call[r].want \in Resolutions
<1>1. PlanOf(q) \in Plans /\ planState[PlanOf(q)] \in StatesOfRun
  BY RanPlan DEF Advanced
<1>2. {"pending_confirmation", "pending_approval", "approved"} \cap StatesOfRun = {}
  BY DEF StatesOfRun, Unverified
<1>3. PlanOf(q) = PlanOf(r) =>
        pc[r] \notin {"to_pending_approval", "reject_plan", "approve_plan", "to_executing"}
  BY <1>1, <1>2 DEF Staged
<1>4. pc[r] = "resolve_plan" => call[r].want \in Resolutions
  BY DEF Routed, ResolveSteps
<1> QED
  BY <1>1, <1>3, <1>4, WorkPlan DEF PlanAfter

LEMMA WorkAdvanced ==
  ASSUME TypeOK, Routed, PastExecutor, Staged, Advanced, NEW r \in Requests, Work(r)
  PROVE  Advanced'
<1> SUFFICES ASSUME NEW q \in Requests, Ran(q)'
             PROVE  planState'[PlanOf(q)] \in StatesOfRun
  <2>1. UNCHANGED call
    BY WorkFrame
  <2> QED
    BY <2>1 DEF Advanced, PlanOf
<1>1. CASE Ran(q)
  <2>1. SettledState(outcome[r]) \in StatesOfRun /\ Resolutions \subseteq StatesOfRun
    BY DEF SettledState, StatesOfRun, Unverified, Resolutions
  <2> QED
    BY <1>1, <2>1, RanPlanMoves DEF Advanced
<1>2. CASE q = r /\ pc[r] = "execute"
  BY <1>2, ExecuteFacts DEF Staged, StatesOfRun
<1> QED
  BY <1>1, <1>2, WorkRan

LEMMA WorkRunsOnce ==
  ASSUME TypeOK, Routed, PastExecutor, Alone, Staged, Advanced, FirstRun, RunsOnce,
         NEW r \in Requests, Work(r)
  PROVE  FirstRun' /\ RunsOnce'
<1>0. \A q \in Requests : PlanOf(q)' = PlanOf(q)
  BY Elsewhere DEF PlanOf
<1>1. ASSUME NEW q \in Requests, NEW x \in Requests, pc'[q] = "execute", Ran(x)'
      PROVE  PlanOf(q) # PlanOf(x)
  <2>1. q = r /\ pc[r] = "to_executing"
    BY <1>1, Elsewhere, WorkFollows DEF Follows
  <2>2. Ran(x)
    BY <1>1, <2>1, WorkRan
  <2>3. planState[PlanOf(r)] \notin StatesOfRun
    BY <2>1 DEF Staged, StatesOfRun, Unverified
  <2> QED
    BY <2>1, <2>2, <2>3 DEF Advanced
<1>2. ASSUME NEW q \in Requests, NEW x \in Requests, Ran(q)', Ran(x)', PlanOf(q) = PlanOf(x)
      PROVE  q = x
  BY <1>2, WorkRan DEF FirstRun, RunsOnce
<1> QED
  BY <1>0, <1>1, <1>2 DEF FirstRun, RunsOnce

\* Whose task a request resolves: it is the execution of the request's plan.
LEMMA TaskOfPlan ==
  ASSUME Addressed, UnverifiedOpensTask, RunsOnce, NEW r \in Requests,
         pc[r] # "idle", call[r].want \in Resolutions, NEW q \in Requests, Ran(q),
         PlanOf(q) = PlanOf(r)
  PROVE  call[r].task = q
BY DEF Addressed, UnverifiedOpensTask, RunsOnce

LEMMA WorkResultKept ==
  ASSUME TypeOK, Routed, PastExecutor, Addressed, AnswersLast, UnverifiedOpensTask, Alone,
         Staged, Advanced, RunsOnce, ResultKept, NEW r \in Requests, Work(r)
  PROVE  ResultKept'
<1> SUFFICES ASSUME NEW q \in Requests, Settled(q)', pc'[q] # "settle_plan"
             PROVE  \/ planState'[PlanOf(q)] = SettledState(outcome'[q])
                    \/ /\ planState'[PlanOf(q)] \in Resolutions
                       /\ SettledState(outcome'[q]) \in Unverified
  <2>1. UNCHANGED call
    BY WorkFrame
  <2> QED
    BY <2>1 DEF ResultKept, PlanOf
<1>1. CASE q # r
  <2>1. Settled(q) /\ pc[q] # "settle_plan" /\ outcome'[q] = outcome[q]
    BY <1>1, Elsewhere DEF Settled
  <2>2. Ran(q)
    BY <2>1 DEF Settled
  <2>3. CASE planState'[PlanOf(q)] = planState[PlanOf(q)]
    BY <2>1, <2>3 DEF ResultKept
  <2>4. ~(pc[r] = "settle_plan" /\ PlanOf(q) = PlanOf(r))
    BY <1>1, <2>2 DEF PastExecutor, AfterSteps, RunsOnce
  <2>5. CASE /\ pc[r] = "resolve_plan" /\ PlanOf(q) = PlanOf(r)
             /\ planState'[PlanOf(q)] = call[r].want /\ call[r].want \in Resolutions
    <3>1. call[r].task = q
      BY <2>2, <2>5, TaskOfPlan
    <3>2. SettledState(outcome[q]) \in Unverified
      BY <2>5, <3>1 DEF Addressed, UnverifiedOpensTask
    <3> QED
      BY <2>1, <2>5, <3>2
  <2> QED
    BY <2>2, <2>3, <2>4, <2>5, RanPlanMoves
<1>2. CASE q = r
  <2>1. pc[r] \in AfterSteps
    <3>1. Ran(r) \/ (pc[r] = "execute" /\ pc'[r] \in ExecuteSteps)
      BY <1>2, WorkRan DEF Settled
    <3>2. pc[r] # "execute"
      BY <1>2, ExecuteFacts DEF Settled
    <3> QED
      BY <3>1, <3>2, WorkFrame DEF PastExecutor
  <2>2. pc[r] \in {"settle_plan", "open_task"}
    BY <1>2, <2>1, VerifyFacts, ApplyPathsFacts, SettleJobFacts DEF Settled, AfterSteps
  <2>3. PlanOf(r) \in Plans
    BY <2>2, CallKnown
  <2> QED
    BY <1>2, <2>2, <2>3, SettlePlanFacts, OpenTaskFacts DEF Staged
<1> QED
  BY <1>1, <1>2

\* Tasks are written by open_task and resolve_task only.
LEMMA WorkTaskState ==
  ASSUME TypeOK, Routed, NEW r \in Requests, Work(r)
  PROVE  \A t \in Requests :
           taskState'[t] = IF pc[r] = "open_task" /\ t = r THEN "pending"
                           ELSE IF pc[r] = "resolve_task" /\ t = call[r].task THEN call[r].want
                           ELSE taskState[t]
<1>1. CASE pc[r] \in {"open_task", "resolve_task"}
  BY <1>1, OpenTaskFacts, ResolveTaskFacts
<1>2. CASE pc[r] \in (RunSteps \cup {"resolve_plan"}) \ {"open_task"}
  BY <1>2, AddJobFacts, ToExecutingFacts, ExecuteFacts, VerifyFacts, ApplyPathsFacts,
     SettleJobFacts, SettlePlanFacts, ResolvePlanFacts
  DEF RunSteps, AfterSteps
<1>3. CASE pc[r] \notin RunSteps \cup {"resolve_task", "resolve_plan"}
  BY <1>3, QuietSteps DEF Quiet, RunSteps, AfterSteps
<1> QED
  BY <1>1, <1>2, <1>3 DEF RunSteps, AfterSteps

LEMMA WorkTasksAgree ==
  ASSUME TypeOK, Routed, PastExecutor, Addressed, UnverifiedOpensTask, Alone, Staged, Advanced,
         RunsOnce, TasksAgree, OneResolver, NEW r \in Requests, Work(r)
  PROVE  TasksAgree'
<1> SUFFICES ASSUME NEW t \in Requests
             PROVE  TasksAgree!(t)'
  BY DEF TasksAgree
<1>0. UNCHANGED call
  BY WorkFrame
<1>1. CASE pc[r] = "open_task" /\ t = r
  <2>1. planState'[PlanOf(r)] = SettledState(outcome[r])
    BY <1>1, OpenTaskFacts DEF Staged
  <2> QED
    BY <1>0, <1>1, <2>1, OpenTaskFacts DEF PlanOf, Resolutions
<1>2. CASE pc[r] = "resolve_task" /\ t = call[r].task
  <2>1. taskState[t] # "none" /\ t # r
    BY <1>2, WorkFrame DEF Addressed, Routed, ResolveSteps, UnverifiedOpensTask
  <2> QED
    BY <1>0, <1>2, <2>1, ResolveTaskFacts, Elsewhere DEF TasksAgree, Resolutions
<1>3. CASE taskState[t] # "none" /\ taskState'[t] = taskState[t]
  <2>1. Ran(t) /\ t # r /\ outcome'[t] = outcome[t] /\ reply'[t] = reply[t]
    <3>1. Ran(t) /\ pc[t] = "done"
      BY <1>3 DEF UnverifiedOpensTask
    <3> QED
      BY <3>1, WorkFrame, Elsewhere
  <2>2. ~(pc[r] = "settle_plan" /\ PlanOf(t) = PlanOf(r))
    BY <2>1 DEF PastExecutor, AfterSteps, RunsOnce
  <2>3. pc[r] = "resolve_plan" /\ PlanOf(t) = PlanOf(r) =>
          call[r].task = t /\ taskState[t] = call[r].want /\ call[r].want \in Resolutions
    BY <2>1, TaskOfPlan DEF OneResolver, Routed, ResolveSteps
  <2>4. taskState[t] = "pending" => planState'[PlanOf(t)] = SettledState(outcome[t])
    BY <2>1, <2>2, <2>3, RanPlanMoves DEF TasksAgree, Resolutions
  <2>5. ASSUME taskState[t] \in Resolutions
        PROVE  planState'[PlanOf(t)] = taskState[t]
               \/ \E q \in Requests : pc'[q] = "resolve_plan" /\ call[q].task = t
    <3>1. CASE planState[PlanOf(t)] = taskState[t]
      BY <2>1, <2>2, <2>3, <3>1, RanPlanMoves
    <3>2. ASSUME NEW q \in Requests, pc[q] = "resolve_plan", call[q].task = t
          PROVE  planState'[PlanOf(t)] = taskState[t]
      <4>1. q = r
        BY <3>2, Elsewhere
      <4>2. PlanOf(r) = PlanOf(t) /\ call[r].want = taskState[t]
        BY <3>2, <4>1 DEF Addressed, Routed, ResolveSteps, OneResolver
      <4> QED
        BY <3>2, <4>1, <4>2, ResolvePlanFacts, CallKnown
    <3> QED
      BY <2>5, <3>1, <3>2 DEF TasksAgree
  <2> QED
    BY <1>0, <1>3, <2>1, <2>4, <2>5 DEF TasksAgree, PlanOf
<1>4. CASE taskState[t] = "none" /\ taskState'[t] = "none"
  BY <1>4 DEF Resolutions
<1> QED
  BY <1>1, <1>2, <1>3, <1>4, WorkTaskState

LEMMA WorkOwed ==
  ASSUME TypeOK, Routed, PastExecutor, Addressed, UnverifiedOpensTask, Alone, Owed,
         NEW r \in Requests, Work(r)
  PROVE  Owed'
<1> SUFFICES ASSUME NEW p \in Plans, planState'[p] \in Unverified
             PROVE  \E q \in Requests : /\ PlanOf(q) = p /\ Ran(q)'
                                        /\ pc'[q] = "open_task" \/ taskState'[q] # "none"
  <2>1. UNCHANGED call
    BY WorkFrame
  <2> QED
    BY <2>1 DEF Owed, PlanOf
<1>1. CASE p = PlanOf(r) /\ pc[r] = "settle_plan"
  <2>1. Ran(r)' /\ pc'[r] = "open_task"
    BY <1>1, RanStays, SettlePlanFacts DEF PastExecutor, AfterSteps
  <2> QED
    BY <1>1, <2>1
<1>2. CASE p = PlanOf(r) /\ pc[r] = "resolve_plan"
  <2>1. PICK t \in Requests : taskState[t] # "none" /\ PlanOf(t) = p
    BY <1>2 DEF Addressed, Routed, ResolveSteps
  <2>2. Ran(t)
    BY <2>1 DEF UnverifiedOpensTask
  <2>3. Ran(t)' /\ taskState'[t] # "none"
    BY <2>1, <2>2, RanStays, TaskStays
  <2> QED
    BY <2>1, <2>3
<1>3. CASE ~(p = PlanOf(r) /\ pc[r] \in {"settle_plan", "resolve_plan"})
  <2>1. planState[p] \in Unverified
    BY <1>3, WorkPlan DEF PlanAfter, Unverified
  <2>2. PICK q \in Requests : /\ PlanOf(q) = p /\ Ran(q)
                              /\ pc[q] = "open_task" \/ taskState[q] # "none"
    BY <2>1 DEF Owed
  <2>3. CASE taskState[q] # "none"
    BY <2>2, <2>3, RanStays, TaskStays
  <2>4. CASE pc[q] = "open_task"
    <3>1. q = r
      BY <2>4, Elsewhere
    <3> QED
      BY <2>2, <2>4, <3>1, RanStays, OpenTaskFacts
  <2> QED
    BY <2>2, <2>3, <2>4
<1> QED
  BY <1>1, <1>2, <1>3

\* Where two of the answers come from.
LEMMA WorkAnswer ==
  ASSUME TypeOK, AnswersLast, NEW r \in Requests, Work(r)
  PROVE  /\ reply'[r] = "resolved" => pc[r] = "resolve_plan"
         /\ reply'[r] = "not_executable" => pc[r] \in {"revalidate", "revalidate_decision"}
<1>0. reply[r] = "none"
  BY WorkFrame DEF AnswersLast
<1>1. CASE ScanRaises(r)
  BY <1>0, <1>1, AnswerAt DEF ScanRaises
<1>2. CASE LookupJob(r)
  BY <1>0, <1>2, GotoAt, AnswerAt DEF LookupJob
<1>3. CASE ConfirmStep(r)
  <2>1. CASE LoadPlan(r) \/ LookupConfirmation(r) \/ LookupApproval(r)
    BY <1>0, <2>1, GotoAt, AnswerAt DEF LoadPlan, LookupConfirmation, LookupApproval
  <2>2. CASE AddConfirmation(r) \/ ToPendingApproval(r) \/ AddApproval(r)
    BY <1>0, <2>2, GotoAt, AnswerAt DEF AddConfirmation, ToPendingApproval, AddApproval
  <2> QED
    BY <1>3, <2>1, <2>2 DEF ConfirmStep
<1>4. CASE DecideStep(r)
  <2>1. CASE LoadApproval(r) \/ RejectApproval(r) \/ RejectPlan(r)
    BY <1>0, <2>1, GotoAt, AnswerAt DEF LoadApproval, RejectApproval, RejectPlan
  <2>2. CASE RevalidateDecision(r) \/ ApproveApproval(r) \/ ApprovePlan(r)
    BY <1>0, <2>2, GotoAt, AnswerAt DEF RevalidateDecision, Revalidate, ApproveApproval, ApprovePlan
  <2> QED
    BY <1>4, <2>1, <2>2 DEF DecideStep
<1>5. CASE ExecuteStep(r)
  <2>1. CASE FindJob(r) \/ RevalidateExecution(r)
    BY <1>0, <2>1, GotoAt, AnswerAt DEF FindJob, RevalidateExecution, Revalidate
  <2>2. CASE pc[r] \in RunSteps
    BY <1>0, <2>2, AddJobFacts, ToExecutingFacts, ExecuteFacts, VerifyFacts, ApplyPathsFacts,
       SettleJobFacts, SettlePlanFacts, OpenTaskFacts
    DEF RunSteps, AfterSteps
  <2>3. FindJob(r) \/ RevalidateExecution(r) \/ pc[r] \in RunSteps
    BY <1>5 DEF ExecuteStep, AddJob, ToExecuting, Execute, Verify, ApplyPaths, SettleJob,
                SettlePlan, OpenTask, RunSteps, AfterSteps
  <2> QED
    BY <2>1, <2>2, <2>3
<1>6. CASE ResolveStep(r)
  BY <1>0, <1>6, GotoAt, AnswerAt DEF ResolveStep, LoadTask, ResolveTask, ResolvePlan
<1> QED
  BY <1>1, <1>2, <1>3, <1>4, <1>5, <1>6 DEF Work, Step

LEMMA WorkOneResolver ==
  ASSUME TypeOK, Routed, Addressed, AnswersLast, UnverifiedOpensTask, Alone, OneResolver,
         NEW r \in Requests, Work(r)
  PROVE  OneResolver'
<1>0. UNCHANGED call
  BY WorkFrame
<1>1. ASSUME NEW q \in Requests, Resolver(q)'
      PROVE  Resolver(q) \/ (q = r /\ pc[r] = "resolve_task")
  <2>1. CASE q # r
    BY <1>1, <2>1, Elsewhere DEF Resolver
  <2>2. CASE q = r
    BY <1>1, <2>2, WorkAnswer, WorkFollows DEF Resolver, Follows
  <2> QED
    BY <2>1, <2>2
<1>2. ASSUME NEW t \in Requests, taskState[t] \in Resolutions
      PROVE  taskState'[t] \in Resolutions
  <2>1. pc[r] = "resolve_task" => call[r].want \in Resolutions
    BY DEF Routed, ResolveSteps
  <2>2. t # r
    BY <1>2, WorkFrame DEF UnverifiedOpensTask, Resolutions
  <2> QED
    BY <1>2, <2>1, <2>2, WorkTaskState
<1>3. ASSUME pc[r] = "resolve_task"
      PROVE  /\ call[r].task \in Requests /\ taskState[call[r].task] = "pending"
             /\ taskState'[call[r].task] = call[r].want /\ call[r].want \in Resolutions
  <2>1. call[r].task \in Requests
    BY <1>3 DEF Addressed, Routed, ResolveSteps
  <2> QED
    BY <1>3, <2>1, ResolveTaskFacts DEF OneResolver
<1>4. ASSUME NEW q \in Requests, Resolver(q)'
      PROVE  call[q].task \in Requests /\ taskState'[call[q].task] \in Resolutions
  BY <1>1, <1>2, <1>3, <1>4 DEF OneResolver
<1>5. ASSUME NEW q \in Requests, pc'[q] = "resolve_plan"
      PROVE  taskState'[call[q].task] = call[q].want
  <2>1. q = r /\ pc[r] = "resolve_task"
    BY <1>5, Elsewhere, WorkFollows DEF Follows
  <2> QED
    BY <1>3, <2>1
<1>6. ASSUME NEW q \in Requests, pc'[q] = "resolve_task"
      PROVE  taskState'[call[q].task] = "pending"
  <2>1. q = r /\ pc[r] = "load_task" /\ taskState[call[r].task] = "pending"
    BY <1>6, Elsewhere, WorkFollows, WorkGuards DEF Follows
  <2>2. call[r].task \in Requests
    BY <2>1 DEF Addressed, Routed, ResolveSteps
  <2> QED
    BY <2>1, <2>2, WorkTaskState
<1>7. ASSUME NEW q \in Requests, NEW x \in Requests, Resolver(q)', Resolver(x)',
             call[q].task = call[x].task
      PROVE  q = x
  BY <1>1, <1>3, <1>7 DEF OneResolver, Resolutions
<1> QED
  BY <1>0, <1>4, <1>5, <1>6, <1>7 DEF OneResolver

LEMMA WorkRejectionsHold ==
  ASSUME TypeOK, Routed, Alone, Staged, RejectionsHold, NEW r \in Requests, Work(r)
  PROVE  RejectionsHold'
<1> SUFFICES ASSUME NEW p \in Plans, approval'[p].decision = "rejected"
             PROVE  \/ planState'[p] = "rejected"
                    \/ /\ planState'[p] = "pending_approval"
                       /\ \E q \in Requests : pc'[q] = "reject_plan" /\ PlanOf(q) = p
  <2>1. UNCHANGED call
    BY WorkFrame
  <2> QED
    BY <2>1 DEF RejectionsHold, PlanOf
<1>1. CASE approval'[p] = approval[p]
  <2>1. CASE planState[p] = "rejected"
    <3>1. p = PlanOf(r) => pc[r] \notin {"to_pending_approval", "reject_plan", "approve_plan",
                                         "to_executing", "settle_plan", "resolve_plan"}
      BY <2>1 DEF Staged, Unverified
    <3> QED
      BY <2>1, <3>1, WorkPlan DEF PlanAfter
  <2>2. ASSUME NEW q \in Requests, pc[q] = "reject_plan", PlanOf(q) = p
        PROVE  planState'[p] = "rejected"
    <3>1. q = r
      BY <2>2, Elsewhere
    <3> QED
      BY <2>2, <3>1, WorkPlan DEF PlanAfter
  <2> QED
    BY <1>1, <2>1, <2>2 DEF RejectionsHold
<1>2. CASE p = PlanOf(r) /\ pc[r] = "reject_approval"
  <2>1. ~ScanRaises(r)
    BY <1>2 DEF ScanRaises, Scans
  <2>2. pc'[r] = "reject_plan"
    BY <1>2, <2>1, EarlyStepAt, GotoAt DEF RejectApproval
  <2> QED
    BY <1>2, <2>2, WorkPlan DEF PlanAfter, Staged
<1>3. CASE p = PlanOf(r) /\ pc[r] = "approve_approval"
  <2>1. ~ScanRaises(r)
    BY <1>3 DEF ScanRaises, Scans
  <2>2. Decide(r, "approved")
    BY <1>3, <2>1, EarlyStepAt DEF ApproveApproval
  <2>3. approval'[p].decision = "approved"
    BY <1>3, <2>2 DEF Decide, TypeOK, StoreOK
  <2> QED
    BY <2>3
<1> QED
  BY <1>1, <1>2, <1>3, WorkApproval

LEMMA WorkRefusedIsSpent ==
  ASSUME PlanExecutionAssumption, TypeOK, Routed, Backed, OneHolder, PastExecutor, AnswersLast,
         RefusedIsSpent, NEW r \in Requests, Work(r)
  PROVE  RefusedIsSpent'
<1>0. UNCHANGED call /\ PlanOf(r) \in Plans /\ call[r].actor \in Actors /\ None \notin Actors
  BY WorkFrame, CallKnown DEF PlanExecutionAssumption
<1> SUFFICES ASSUME NEW q \in Requests, Refused(q)'
             PROVE  /\ PlanOf(q) \notin NeedsApproval
                    /\ confirmedBy'[PlanOf(q)] # None
                    /\ \A x \in Requests : Holds(x)' => PlanOf(x) # PlanOf(q)
  BY <1>0 DEF RefusedIsSpent, PlanOf
<1>1. CASE q # r
  <2>1. Refused(q) /\ PlanOf(q) \in Plans
    <3>1. Refused(q)
      BY <1>0, <1>1, RunFrame DEF Refused
    <3> QED
      BY <3>1, CallKnown DEF Refused
  <2>2. PlanOf(q) \notin NeedsApproval /\ confirmedBy[PlanOf(q)] # None
    BY <2>1 DEF RefusedIsSpent
  <2>3. confirmedBy'[PlanOf(q)] # None
    BY <1>0, <2>1, <2>2, WorkConfirmation DEF TypeOK, StoreOK
  <2>4. ASSUME NEW x \in Requests, Holds(x)'
        PROVE  PlanOf(x) # PlanOf(q)
    <3>1. CASE Holds(x)
      BY <2>1, <3>1 DEF RefusedIsSpent
    <3>2. CASE x = r /\ pc[r] = "add_confirmation" /\ pc'[r] # "done"
      BY <2>2, <3>2, WorkConfirmation
    <3> QED
      BY <2>4, <3>1, <3>2, WorkHolds
  <2> QED
    BY <2>2, <2>3, <2>4
<1>2. CASE q = r
  <2>1. pc[r] = "revalidate" /\ call[r].want = "confirm" /\ pc'[r] = "done"
    BY <1>0, <1>2, WorkAnswer DEF Refused, Routed, ApproveSteps
  <2>2. Holds(r) /\ ~Ran(r)
    BY <2>1 DEF Holds, ExecuteSteps, PastExecutor, AfterSteps
  <2>3. PlanOf(r) \notin NeedsApproval /\ confirmedBy[PlanOf(r)] # None
    BY <2>1, <2>2 DEF Backed, ExecuteSteps
  <2>4. confirmedBy' = confirmedBy /\ ~Holds(r)'
    BY <2>1, <2>2, WorkConfirmation, WorkRan DEF Holds, ExecuteSteps
  <2>5. ASSUME NEW x \in Requests, Holds(x)'
        PROVE  PlanOf(x) # PlanOf(r)
    BY <2>1, <2>2, <2>4, <2>5, WorkHolds DEF OneHolder
  <2> QED
    BY <1>2, <2>3, <2>4, <2>5
<1> QED
  BY <1>1, <1>2

LEMMA WorkSequential ==
  ASSUME Inductive, Results, Sequential, NEW r \in Requests, Work(r)
  PROVE  Sequential'
BY PlanExecutionAssumption, WorkAlone, WorkFresh, WorkStaged, WorkAdvanced, WorkRunsOnce,
   WorkResultKept, WorkTasksAgree, WorkOwed, WorkOneResolver, WorkRejectionsHold,
   WorkRefusedIsSpent
DEF Inductive, Results, Sequential
-----------------------------------------------------------------------------
(***************************************************************************)
(* A new request, and the environment, keep Sequential too.                *)
(***************************************************************************)
\* With one thread, a request is taken only when no other is being handled.
LEMMA ArriveAlone ==
  ASSUME PlanExecutionAssumption, MaxInFlight = 1, NEW r \in Requests, Arrive(r)
  PROVE  InFlight = {}
<1>1. IsFiniteSet(InFlight)
  BY FS_Subset DEF PlanExecutionAssumption, InFlight
<1>2. Cardinality(InFlight) \in Nat /\ Cardinality(InFlight) < 1
  BY <1>1, FS_CardinalityType DEF Arrive
<1> QED
  BY <1>1, <1>2, FS_EmptySet

LEMMA ArriveSequential ==
  ASSUME PlanExecutionAssumption, MaxInFlight = 1, Inductive, Results, Sequential,
         NEW r \in Requests, Arrive(r)
  PROVE  Sequential'
<1> USE DEF Sequential
<1>0. \A q \in Requests : pc[q] \in {"idle", "done"}
  BY ArriveAlone DEF InFlight
<1>1. PICK c \in Calls :
        /\ pc[r] = "idle"
        /\ call' = [call EXCEPT ![r] = c]
        /\ pc' = [pc EXCEPT ![r] = FirstStep(c)]
        /\ UNCHANGED <<planState, confirmedBy, approval, taskState, seen, outcome, evidence, reply>>
  BY DEF Arrive, Goto, store
<1>2. /\ pc'[r] \in {"load_plan", "load_approval", "load_task"}
      /\ \A q \in Requests \ {r} : pc'[q] = pc[q] /\ call'[q] = call[q] /\ PlanOf(q)' = PlanOf(q)
  <2>1. /\ pc'[r] = FirstStep(c)
        /\ \A q \in Requests \ {r} : pc'[q] = pc[q] /\ call'[q] = call[q]
    BY <1>1 DEF Inductive, TypeOK, ThreadsOK
  <2> QED
    BY <2>1 DEF FirstStep, PlanOf
<1>3. \A q \in Requests : Ran(q)' <=> Ran(q)
  BY <1>1 DEF Ran
<1>4. ~Ran(r) /\ reply[r] = "none" /\ taskState[r] = "none"
  BY <1>1 DEF Results, PastExecutor, AfterSteps, AnswersLast, UnverifiedOpensTask
<1>5. Alone' /\ Fresh' /\ Staged'
  BY <1>0, <1>2 DEF Alone, InFlight, Fresh, Staged
<1>6. Advanced' /\ FirstRun' /\ RunsOnce'
  <2>1. Advanced' /\ RunsOnce'
    BY <1>1, <1>2, <1>3, <1>4 DEF Advanced, RunsOnce
  <2>2. \A q \in Requests : pc'[q] # "execute"
    BY <1>0, <1>2
  <2> QED
    BY <2>1, <2>2 DEF FirstRun
<1>7. ResultKept'
  <2>1. \A q \in Requests : Settled(q)' => q # r /\ Settled(q) /\ pc'[q] = pc[q]
    BY <1>1, <1>2, <1>3, <1>4 DEF Settled
  <2> QED
    BY <1>1, <1>2, <2>1 DEF ResultKept
<1>8. TasksAgree'
  <2> SUFFICES ASSUME NEW t \in Requests, taskState[t] # "none"
               PROVE  TasksAgree!(t)'
    BY <1>1 DEF TasksAgree, Resolutions
  <2>1. t # r /\ ~\E q \in Requests : pc[q] = "resolve_plan" /\ call[q].task = t
    BY <1>0, <1>4
  <2> QED
    BY <1>1, <1>2, <2>1 DEF TasksAgree
<1>9. Owed'
  <2> SUFFICES ASSUME NEW p \in Plans, planState[p] \in Unverified
               PROVE  Owed!(p)!2'
    BY <1>1 DEF Owed
  <2>1. PICK q \in Requests : PlanOf(q) = p /\ Ran(q) /\ (pc[q] = "open_task" \/ taskState[q] # "none")
    BY DEF Owed
  <2> QED
    BY <1>1, <1>2, <1>3, <1>4, <2>1
<1>10. OneResolver'
  <2>1. \A q \in Requests : /\ Resolver(q)' => q # r /\ Resolver(q)
                            /\ pc'[q] \notin {"resolve_task", "resolve_plan"}
    BY <1>0, <1>1, <1>2, <1>4 DEF Resolver
  <2> QED
    BY <1>1, <1>2, <2>1 DEF OneResolver
<1>11. RejectionsHold'
  BY <1>0, <1>1 DEF RejectionsHold
<1>12. RefusedIsSpent'
  <2>1. \A q \in Requests : Refused(q)' => q # r /\ Refused(q)
    BY <1>1, <1>2 DEF Refused
  <2>2. \A q \in Requests : Holds(q)' => q # r /\ Holds(q)
    BY <1>1, <1>2, <1>3, <1>4 DEF Holds, ExecuteSteps
  <2> QED
    BY <1>1, <1>2, <2>1, <2>2 DEF RefusedIsSpent
<1> QED
  BY <1>5, <1>6, <1>7, <1>8, <1>9, <1>10, <1>11, <1>12

\* What Sequential speaks of.
SequentialVars == <<planState, confirmedBy, approval, taskState, pc, call, seen, outcome, reply,
                    evidence>>

LEMMA UnchangedSequential == Sequential /\ UNCHANGED SequentialVars => Sequential'
<1> SUFFICES ASSUME Sequential, UNCHANGED SequentialVars
             PROVE  Sequential'
  OBVIOUS
<1> USE DEF Sequential, SequentialVars, Ran, PlanOf
<1>1. Alone' /\ Fresh' /\ Staged'
  BY DEF Alone, InFlight, Fresh, Staged
<1>2. Advanced' /\ FirstRun' /\ RunsOnce' /\ ResultKept'
  BY DEF Advanced, FirstRun, RunsOnce, ResultKept, Settled
<1>3. TasksAgree' /\ Owed' /\ OneResolver'
  BY DEF TasksAgree, Owed, OneResolver, Resolver
<1>4. RejectionsHold' /\ RefusedIsSpent'
  BY DEF RejectionsHold, RefusedIsSpent, Refused, Holds
<1> QED
  BY <1>1, <1>2, <1>3, <1>4

LEMMA InitSequential == Init => Sequential
<1> SUFFICES ASSUME Init
             PROVE  Sequential
  OBVIOUS
<1> USE DEF Init, Ran
<1>1. Alone /\ Fresh /\ Staged
  BY DEF Alone, InFlight, Fresh, Staged
<1>2. Advanced /\ FirstRun /\ RunsOnce /\ ResultKept
  BY DEF Advanced, FirstRun, RunsOnce, ResultKept, Settled
<1>3. TasksAgree /\ Owed /\ OneResolver
  BY DEF TasksAgree, Resolutions, Owed, Unverified, OneResolver, Resolver
<1>4. RejectionsHold /\ RefusedIsSpent
  BY DEF RejectionsHold, NoApproval, RefusedIsSpent, Refused
<1> QED
  BY <1>1, <1>2, <1>3, <1>4 DEF Sequential

LEMMA NextSequential ==
  ASSUME PlanExecutionAssumption, MaxInFlight = 1
  PROVE  Inductive /\ Results /\ Sequential /\ [Next]_vars => Sequential'
<1> SUFFICES ASSUME Inductive, Results, Sequential, [Next]_vars
             PROVE  Sequential'
  OBVIOUS
<1>1. ASSUME NEW p \in Plans, Drift(p) \/ Regrant(p)
      PROVE  Sequential'
  BY <1>1, UnchangedSequential DEF Drift, Regrant, SequentialVars, store, history
<1>2. CASE UNCHANGED vars
  BY <1>2, UnchangedSequential DEF SequentialVars, vars, store, history
<1> QED
  BY <1>1, <1>2, WorkSequential, ArriveSequential DEF Next, Work
-----------------------------------------------------------------------------
(***************************************************************************)
(* The theorems.                                                           *)
(***************************************************************************)
\* With one thread, the state of a plan is at every moment the one that the step of its
\* handler, its execution, its task and its approval call for.
THEOREM SequentialInvariant ==
  ASSUME MaxInFlight = 1
  PROVE  Spec => [](Inductive /\ Results /\ Sequential)
<1>1. Init => Inductive /\ Results /\ Sequential
  BY InitInductive, InitResults, InitSequential, PlanExecutionAssumption
<1>2. Inductive /\ Results /\ Sequential /\ [Next]_vars => (Inductive /\ Results /\ Sequential)'
  BY NextInductive, NextResults, NextSequential, PlanExecutionAssumption
<1> QED
  BY <1>1, <1>2, PTL DEF Spec

\* One execution per plan, whoever confirms, decides and retries with whatever keys
\* (confirm_plan, decide_approval, _execute_plan).
THEOREM PlansRunOnce ==
  ASSUME MaxInFlight = 1
  PROVE  Spec => []RunsOnce
<1>1. Sequential => RunsOnce
  BY DEF Sequential
<1> QED
  BY <1>1, SequentialInvariant, PTL

\* Between requests no job contradicts the state of its plan.
THEOREM PlansAgreeWithJobs ==
  ASSUME MaxInFlight = 1
  PROVE  Spec => []PlanAgreesWithJob
<1>1. ASSUME Results, Sequential
      PROVE  PlanAgreesWithJob
  <2> SUFFICES ASSUME InFlight = {}, NEW p \in Plans, NEW k \in Keys,
                      jobState[<<p, k>>] \notin {"none", "queued"}
               PROVE  \/ planState[p] = jobState[<<p, k>>]
                      \/ planState[p] \in Resolutions /\ jobState[<<p, k>>] \in Unverified
    BY DEF PlanAgreesWithJob
  <2>1. PICK r \in Requests : /\ Settled(r) /\ PlanOf(r) = p
                              /\ SettledState(outcome[r]) = jobState[<<p, k>>]
    BY <1>1 DEF Results, JobsWitnessed
  <2>2. pc[r] # "settle_plan"
    BY DEF InFlight
  <2> QED
    BY <1>1, <2>1, <2>2 DEF Sequential, ResultKept
<1> QED
  BY <1>1, SequentialInvariant, PTL

\* Between requests an unverified plan has a task that somebody can resolve or has, and
\* resolve_recovery_task resolves a task for one request only.
THEOREM RecoveryIsOwed ==
  ASSUME MaxInFlight = 1
  PROVE  Spec => []RecoveryOwed
<1>1. ASSUME Inductive, Sequential
      PROVE  RecoveryOwed
  <2>1. ASSUME InFlight = {}, NEW p \in Plans, planState[p] \in Unverified
        PROVE  \E r \in Requests : taskState[r] # "none" /\ PlanOf(r) = p
                                   /\ (taskState[r] = "pending" \/ planState[p] = taskState[r])
    <3>1. \A q \in Requests : pc[q] \in {"idle", "done"}
      BY <2>1 DEF InFlight
    <3>2. PICK r \in Requests : PlanOf(r) = p /\ (pc[r] = "open_task" \/ taskState[r] # "none")
      BY <1>1, <2>1 DEF Sequential, Owed
    <3>3. taskState[r] # "none"
      BY <3>1, <3>2
    <3>4. taskState[r] \in {"pending"} \cup Resolutions
      BY <1>1, <3>3 DEF Inductive, TypeOK, StoreOK, TaskStates, Resolutions
    <3> QED
      BY <1>1, <3>1, <3>2, <3>3, <3>4 DEF Sequential, TasksAgree
  <2> QED
    BY <1>1, <2>1 DEF RecoveryOwed, Sequential, OneResolver, Resolver
<1> QED
  BY <1>1, SequentialInvariant, PTL

\* A rejection and a refused revalidation are final: no later request executes the plan.
THEOREM RefusalsAreFinal ==
  ASSUME MaxInFlight = 1
  PROVE  Spec => []RefusalsStand
<1>1. ASSUME Inductive, Results, Sequential
      PROVE  RefusalsStand
  <2> SUFFICES ASSUME NEW r \in Requests, Ran(r)
               PROVE  RefusalsStand!(r)!2
    BY DEF RefusalsStand
  <2>1. PlanOf(r) \in Plans /\ planState[PlanOf(r)] \in StatesOfRun
    BY <1>1, RanPlan DEF Inductive, Results, Sequential, Advanced
  <2>2. approval[PlanOf(r)].decision # "rejected"
    <3>1. {"rejected", "pending_approval"} \cap StatesOfRun = {}
      BY DEF StatesOfRun, Unverified
    <3> QED
      BY <1>1, <2>1, <3>1 DEF Sequential, RejectionsHold
  <2>3. ASSUME NEW q \in Requests, call[q].want = "confirm", reply[q] = "not_executable"
        PROVE  PlanOf(q) # PlanOf(r)
    <3>1. Refused(q)
      BY <1>1, <2>3 DEF Results, AnswersLast, Refused
    <3>2. PlanOf(q) \notin NeedsApproval /\ ~(Holds(r) /\ PlanOf(r) = PlanOf(q))
      BY <1>1, <3>1 DEF Sequential, RefusedIsSpent
    <3>3. PlanOf(r) \notin NeedsApproval => Holds(r)
      BY <1>1 DEF Inductive, Backed, Holds
    <3> QED
      BY <3>2, <3>3
  <2> QED
    BY <2>2, <2>3
<1> QED
  BY <1>1, SequentialInvariant, PTL

\* Every step of a handler is a step of PlanLifecycle for its plan, or leaves all plans.
LEMMA WorkRefines ==
  ASSUME Inductive, Results, Sequential, NEW r \in Requests, Work(r)
  PROVE  Lifecycle!Next \/ planState' = planState
<1> USE DEF Inductive, Results, Sequential
<1> DEFINE p == PlanOf(r)
<1>1. p \in Plans /\ planState' = [planState EXCEPT ![p] = PlanAfter(r)]
  <2>1. p \in Plans
    BY WorkFrame, CallKnown
  <2>2. planState' \in [Plans -> PlanStates]
    BY WorkInductive, PlanExecutionAssumption DEF TypeOK, StoreOK
  <2>3. \A x \in Plans : planState'[x] = IF x = p THEN PlanAfter(r) ELSE planState[x]
    BY WorkPlan
  <2> QED
    BY <2>1, <2>2, <2>3 DEF TypeOK, StoreOK
<1>2. CASE pc[r] = "to_pending_approval"
  <2>1. p \in NeedsApproval
    BY <1>2 DEF Backed
  <2>2. Lifecycle!Confirm(p)
    BY <1>1, <1>2, <2>1 DEF PlanAfter, Staged, Lifecycle!Confirm, Lifecycle!Move
  <2> QED
    BY <1>1, <2>2 DEF Lifecycle!Next
<1>3. CASE pc[r] = "approve_plan"
  <2>1. Lifecycle!Approve(p)
    BY <1>1, <1>3 DEF PlanAfter, Staged, Lifecycle!Approve, Lifecycle!Move
  <2> QED
    BY <1>1, <2>1 DEF Lifecycle!Next
<1>4. CASE pc[r] = "reject_plan"
  <2>1. Lifecycle!Reject(p)
    BY <1>1, <1>4 DEF PlanAfter, Staged, Lifecycle!Reject, Lifecycle!Move
  <2> QED
    BY <1>1, <2>1 DEF Lifecycle!Next
<1>5. CASE pc[r] = "to_executing"
  <2>1. Lifecycle!Start(p)
    BY <1>1, <1>5 DEF PlanAfter, Staged, Lifecycle!Start, Lifecycle!Move
  <2> QED
    BY <1>1, <2>1 DEF Lifecycle!Next
<1>6. CASE pc[r] = "settle_plan"
  <2>1. outcome[r] \in Settleable
    BY <1>6 DEF OutcomeFits, AfterSteps
  <2>2. SettledState(outcome[r]) \in
          {"failed"} \cup (IF HasVerifier THEN {"verified"} \cup Lifecycle!Unverified
                                         ELSE {"completed"})
    BY <2>1, PlanExecutionAssumption
    DEF Settleable, SettledState, Failures, PlanExecutionAssumption, VerdictNames,
        Lifecycle!Unverified
  <2>3. Lifecycle!Conclude(p)
    BY <1>1, <1>6, <2>2 DEF PlanAfter, Staged, Lifecycle!Conclude, Lifecycle!Move
  <2> QED
    BY <1>1, <2>3 DEF Lifecycle!Next
<1>7. CASE pc[r] = "resolve_plan"
  <2>1. call[r].want \in {"recovered", "escalated"}
    BY <1>7 DEF Routed, ResolveSteps, Resolutions
  <2>2. Lifecycle!Resolve(p)
    BY <1>1, <1>7, <2>1
    DEF PlanAfter, Staged, Unverified, Lifecycle!Unverified, Lifecycle!Resolve, Lifecycle!Move
  <2> QED
    BY <1>1, <2>2 DEF Lifecycle!Next
<1>8. CASE pc[r] \notin {"to_pending_approval", "reject_plan", "approve_plan", "to_executing",
                         "settle_plan", "resolve_plan"}
  BY <1>1, <1>8 DEF PlanAfter, TypeOK, StoreOK
<1> QED
  BY <1>2, <1>3, <1>4, <1>5, <1>6, <1>7, <1>8

\* Served by one thread, the handlers implement the lifecycle of a plan: confirmation,
\* approval by policy, one execution with one result, a resolution.
THEOREM Refinement ==
  ASSUME MaxInFlight = 1
  PROVE  Spec => ImplementsLifecycle
<1>1. Init => Lifecycle!Init
  BY DEF Init, Lifecycle!Init
<1>2. Inductive /\ Results /\ Sequential /\ [Next]_vars => [Lifecycle!Next]_planState
  <2> SUFFICES ASSUME Inductive, Results, Sequential, [Next]_vars
               PROVE  Lifecycle!Next \/ planState' = planState
    OBVIOUS
  <2>1. ASSUME NEW r \in Requests, Arrive(r)
        PROVE  planState' = planState
    BY <2>1 DEF Arrive, store
  <2>2. ASSUME NEW p \in Plans, Drift(p) \/ Regrant(p)
        PROVE  planState' = planState
    BY <2>2 DEF Drift, Regrant, store
  <2>3. CASE UNCHANGED vars
    BY <2>3 DEF vars, store
  <2> QED
    BY <2>1, <2>2, <2>3, WorkRefines DEF Next, Work
<1> QED
  BY <1>1, <1>2, SequentialInvariant, PTL DEF Spec, ImplementsLifecycle, Lifecycle!Spec
=============================================================================
