------------------------- MODULE PlanExecutionProofs -------------------------
(***************************************************************************)
(* Theorems about PlanExecution for every set of requests, plans, actors   *)
(* and keys, and every number of threads: first what is given to the       *)
(* executor, then what its results leave in the repository.  Those about   *)
(* requests that come one at a time are in PlanSequenceProofs.             *)
(***************************************************************************)
EXTENDS PlanExecution, FiniteSetTheorems, TLAPS
-----------------------------------------------------------------------------
(***************************************************************************)
(* Type correctness, one lemma per handler.                                *)
(***************************************************************************)
\* An EXCEPT whose value has the type of the range keeps the type, whatever its index.
LEMMA ExceptType ==
  ASSUME NEW S, NEW T, NEW f \in [S -> T], NEW a, NEW b \in T
  PROVE  [f EXCEPT ![a] = b] \in [S -> T]
OBVIOUS

\* A request that is being handled has a call, so its plan and key are known.
LEMMA CallKnown ==
  ASSUME TypeOK, NEW r \in Requests, pc[r] # "idle"
  PROVE  /\ call[r] \in Calls
         /\ PlanOf(r) \in Plans
         /\ call[r].actor \in Actors
  BY DEF TypeOK, ThreadsOK, Calls, PlanOf

\* The result of an execution names a job state, a plan state and an audit event.
LEMMA SettledTypes ==
  ASSUME NEW result
  PROVE  /\ SettledState(result) \in JobStates
         /\ SettledState(result) \in PlanStates
         /\ SettledEvent(result) \in Events
  BY DEF SettledState, SettledEvent, JobStates, PlanStates, Unverified, Events

\* A thread's program counter and answer change together.
Moves(r) == \/ \E step \in Steps : Goto(r, step)
            \/ \E answer \in Replies : Answer(r, answer)

LEMMA MovesTypes ==
  ASSUME ThreadsOK, NEW r \in Requests, pc[r] # "idle", Moves(r), UNCHANGED call
  PROVE  ThreadsOK'
<1>1. CASE \E step \in Steps : Goto(r, step)
  BY <1>1 DEF ThreadsOK, Goto
<1>2. CASE \E answer \in Replies : Answer(r, answer)
  BY <1>2 DEF ThreadsOK, Answer, Steps
<1> QED
  BY <1>1, <1>2 DEF Moves

\* Every step of a handler moves its own thread and leaves its call alone.
LEMMA StepMoves ==
  ASSUME NEW r \in Requests, Step(r)
  PROVE  pc[r] # "idle" /\ Moves(r) /\ UNCHANGED call
<1> USE DEF Moves, Steps, Replies
<1>1. CASE LookupJob(r)
  BY <1>1 DEF LookupJob
<1>2. CASE ConfirmStep(r)
  BY <1>2 DEF ConfirmStep, LoadPlan, LookupConfirmation, LookupApproval, AddConfirmation,
              ToPendingApproval, AddApproval
<1>3. CASE DecideStep(r)
  BY <1>3 DEF DecideStep, LoadApproval, RejectApproval, RejectPlan, RevalidateDecision,
              Revalidate, ApproveApproval, ApprovePlan
<1>4. CASE ExecuteStep(r)
  BY <1>4 DEF ExecuteStep, FindJob, RevalidateExecution, Revalidate, AddJob, ToExecuting,
              Execute, Verify, ApplyPaths, SettleJob, SettlePlan, OpenTask
<1>5. CASE ResolveStep(r)
  BY <1>5 DEF ResolveStep, LoadTask, ResolveTask, ResolvePlan
<1> QED
  BY <1>1, <1>2, <1>3, <1>4, <1>5 DEF Step

\* What the handlers write into the repository has the type of the repository.
LEMMA StepStore ==
  ASSUME TypeOK, Routed, NEW r \in Requests, Step(r)
  PROVE  StoreOK'
<1>0. /\ PlanOf(r) \in Plans
      /\ call[r] \in Calls
  BY StepMoves, CallKnown
<1>1. ASSUME NEW state \in PlanStates, SetPlan(r, state)
      PROVE  planState' \in [Plans -> PlanStates]
  BY <1>1 DEF SetPlan, TypeOK, StoreOK
<1>2. ASSUME NEW state \in JobStates, SetJob(r, state)
      PROVE  jobState' \in [Plans \X Keys -> JobStates]
  BY <1>2, ExceptType, Zenon DEF SetJob, TypeOK, StoreOK
<1>3. ASSUME NEW event \in Events, Note(r, event)
      PROVE  audit' \in [Requests -> SUBSET Events]
  BY <1>3 DEF Note, TypeOK, StoreOK
<1>4. ASSUME NEW decision \in Decisions, Decide(r, decision)
      PROVE  approval' \in [Plans -> [requester : Actors \cup {None}, approver : Actors \cup {None},
                                      decision : Decisions \cup {"none", "pending"}]]
  BY <1>0, <1>4 DEF Decide, TypeOK, StoreOK, Calls
<1>5. ASSUME NEW next, Revalidate(r, next)
      PROVE  audit' \in [Requests -> SUBSET Events]
  BY <1>3, <1>5 DEF Revalidate, Events, TypeOK, StoreOK
<1> USE DEF TypeOK, StoreOK, store, PlanStates, JobStates, Unverified, Events, TaskStates
<1>6. CASE LookupJob(r) \/ ConfirmStep(r)
  <2>1. CASE LookupJob(r) \/ LoadPlan(r) \/ LookupConfirmation(r) \/ LookupApproval(r)
    BY <2>1 DEF LookupJob, LoadPlan, LookupConfirmation, LookupApproval
  <2>2. CASE AddConfirmation(r)
    BY <1>0, <2>2 DEF AddConfirmation, Calls
  <2>3. CASE ToPendingApproval(r)
    BY <1>1, <2>3 DEF ToPendingApproval
  <2>4. CASE AddApproval(r)
    BY <1>0, <1>3, <2>4 DEF AddApproval, Calls
  <2> QED
    BY <1>6, <2>1, <2>2, <2>3, <2>4 DEF ConfirmStep
<1>7. CASE DecideStep(r)
  <2>1. CASE LoadApproval(r)
    BY <2>1 DEF LoadApproval
  <2>2. CASE RejectApproval(r) \/ ApproveApproval(r)
    BY <1>3, <1>4, <2>2 DEF RejectApproval, ApproveApproval, Decisions
  <2>3. CASE RejectPlan(r) \/ ApprovePlan(r)
    BY <1>1, <1>3, <2>3 DEF RejectPlan, ApprovePlan
  <2>4. CASE RevalidateDecision(r)
    BY <1>5, <2>4 DEF RevalidateDecision
  <2> QED
    BY <1>7, <2>1, <2>2, <2>3, <2>4 DEF DecideStep
<1>8. CASE ExecuteStep(r)
  <2>1. CASE FindJob(r) \/ Execute(r) \/ Verify(r) \/ ApplyPaths(r)
    BY <2>1 DEF FindJob, Execute, Verify, ApplyPaths
  <2>2. CASE RevalidateExecution(r)
    BY <1>5, <2>2 DEF RevalidateExecution
  <2>3. CASE AddJob(r)
    BY <1>2, <2>3 DEF AddJob
  <2>4. CASE SettleJob(r)
    <3> HIDE DEF PlanStates, JobStates, Unverified, Events, TaskStates
    <3>1. jobState' \in [Plans \X Keys -> JobStates]
      BY <1>2, SettledTypes, <2>4 DEF SettleJob
    <3>2. UNCHANGED <<planState, confirmedBy, approval, taskState, audit, drift>>
      BY <2>4 DEF SettleJob
    <3> QED
      BY <3>1, <3>2
  <2>5. CASE ToExecuting(r)
    BY <1>1, <2>5 DEF ToExecuting
  <2>6. CASE SettlePlan(r)
    <3> HIDE DEF PlanStates, JobStates, Unverified, Events, TaskStates
    <3>1. planState' \in [Plans -> PlanStates] /\ audit' \in [Requests -> SUBSET Events]
      BY <1>1, <1>3, SettledTypes, <2>6 DEF SettlePlan
    <3>2. UNCHANGED <<confirmedBy, approval, jobState, taskState, drift>>
      BY <2>6 DEF SettlePlan
    <3> QED
      BY <3>1, <3>2
  <2>7. CASE OpenTask(r)
    BY <1>3, <2>7 DEF OpenTask
  <2> QED
    BY <1>8, <2>1, <2>2, <2>3, <2>4, <2>5, <2>6, <2>7 DEF ExecuteStep
<1>9. CASE ResolveStep(r)
  <2>1. CASE LoadTask(r)
    BY <2>1 DEF LoadTask
  <2>2. CASE ResolveTask(r)
    <3>1. call[r].want \in Resolutions
      BY <2>2 DEF Routed, ResolveSteps, ResolveTask
    <3> QED
      BY <3>1, <2>2 DEF ResolveTask, Resolutions
  <2>3. CASE ResolvePlan(r)
    <3>1. call[r].want \in Resolutions
      BY <2>3 DEF Routed, ResolveSteps, ResolvePlan
    <3>2. planState' \in [Plans -> PlanStates]
      BY <1>1, <2>3, <3>1 DEF ResolvePlan, Resolutions
    <3>3. audit' \in [Requests -> SUBSET Events]
      BY <1>3, <2>3 DEF ResolvePlan
    <3> QED
      BY <2>3, <3>2, <3>3 DEF ResolvePlan
  <2> QED
    BY <1>9, <2>1, <2>2, <2>3 DEF ResolveStep
<1> QED
  BY <1>6, <1>7, <1>8, <1>9 DEF Step

\* What a handler keeps for itself has its type too.
LEMMA StepLocals ==
  ASSUME TypeOK, NEW r \in Requests, Step(r)
  PROVE  LocalsOK'
<1>0. /\ PlanOf(r) \in Plans
      /\ call[r] \in Calls
      /\ call[r].actor \in Actors
  BY StepMoves, CallKnown
<1> USE DEF TypeOK, LocalsOK, history
<1>1. CASE LoadPlan(r) \/ LoadApproval(r)
  <2> DEFINE S == [plan : PlanStates, decision : Decisions \cup {"none", "pending"}]
             v == [plan |-> planState[PlanOf(r)],
                   decision |-> IF LoadPlan(r) THEN "none" ELSE approval[PlanOf(r)].decision]
  <2>1. UNCHANGED <<outcome, evidence, late>>
    BY <1>1 DEF LoadPlan, LoadApproval
  <2>2. seen' = seen \/ seen' = [seen EXCEPT ![r] = v]
    BY <1>1 DEF LoadPlan, LoadApproval
  <2>3. v \in S
    BY <1>0 DEF StoreOK
  <2> QED
    BY <2>1, <2>2, <2>3
<1>2. CASE Execute(r)
  <2>1. evidence' = [evidence EXCEPT ![r] = EvidenceOf(r)] /\ UNCHANGED <<seen, late>>
    BY <1>2 DEF Execute
  <2>2. outcome' \in [Requests -> Outcomes]
    BY <1>2 DEF Execute, Outcomes
  <2>3. EvidenceOf(r) \in [confirmer : Actors \cup {None}, approver : Actors \cup {None}]
    BY <1>0 DEF EvidenceOf, StoreOK
  <2> QED
    BY <2>1, <2>2, <2>3
<1>3. CASE Verify(r)
  BY <1>3 DEF Verify, Outcomes
<1>4. CASE LookupJob(r) \/ ResolveStep(r)
  BY <1>4 DEF LookupJob, ResolveStep, LoadTask, ResolveTask, ResolvePlan
<1>5. CASE ConfirmStep(r)
  BY <1>1, <1>5 DEF ConfirmStep, LookupConfirmation, LookupApproval, AddConfirmation,
                    ToPendingApproval, AddApproval
<1>6. CASE DecideStep(r)
  BY <1>1, <1>6 DEF DecideStep, RejectApproval, RejectPlan, RevalidateDecision,
                    ApproveApproval, ApprovePlan
<1>7. CASE ExecuteStep(r)
  BY <1>2, <1>3, <1>7 DEF ExecuteStep, FindJob, RevalidateExecution, AddJob, ToExecuting,
                    ApplyPaths, SettleJob, SettlePlan, OpenTask
<1> QED
  BY <1>4, <1>5, <1>6, <1>7 DEF Step
-----------------------------------------------------------------------------
(***************************************************************************)
(* What a step of a handler does to the control state, in one place: the   *)
(* invariants below follow from these facts without the actions.           *)
(***************************************************************************)
Work(r) == Step(r) \/ ScanRaises(r)

\* Other threads stand still; calls, the environment and expiry marks do not change.
LEMMA WorkFrame ==
  ASSUME TypeOK, NEW r \in Requests, Work(r)
  PROVE  /\ UNCHANGED <<call, drift, late>>
         /\ pc[r] \notin {"idle", "done"}
         /\ \A q \in Requests \ {r} : pc'[q] = pc[q] /\ evidence'[q] = evidence[q]
<1> USE DEF TypeOK, ThreadsOK, LocalsOK, Goto, Answer, Scans, history, vars
<1>1. CASE ScanRaises(r)
  BY <1>1 DEF ScanRaises
<1>2. CASE LookupJob(r) \/ ResolveStep(r)
  BY <1>2 DEF LookupJob, ResolveStep, LoadTask, ResolveTask, ResolvePlan
<1>3. CASE ConfirmStep(r)
  BY <1>3 DEF ConfirmStep, LoadPlan, LookupConfirmation, LookupApproval, AddConfirmation,
              ToPendingApproval, AddApproval
<1>4. CASE DecideStep(r)
  BY <1>4 DEF DecideStep, LoadApproval, RejectApproval, RejectPlan, RevalidateDecision,
              Revalidate, ApproveApproval, ApprovePlan
<1>5. CASE ExecuteStep(r)
  BY <1>5 DEF ExecuteStep, FindJob, RevalidateExecution, Revalidate, AddJob, ToExecuting,
              Execute, Verify, ApplyPaths, SettleJob, SettlePlan, OpenTask
<1> QED
  BY <1>1, <1>2, <1>3, <1>4, <1>5 DEF Work, Step

\* Where a thread may be after a step, and what must have held for it to get there.
LEMMA WorkFlow ==
  ASSUME TypeOK, NEW r \in Requests, Work(r)
  PROVE  /\ pc'[r] \notin {"idle", "load_plan", "load_approval", "load_task"}
         /\ pc'[r] = "lookup_job" =>
              \/ pc[r] = "load_plan" /\ MayConfirm(call[r])
              \/ pc[r] = "load_approval" /\ MayDecide(call[r])
         /\ pc'[r] \in ConfirmSteps =>
              \/ pc[r] = "lookup_job" /\ call[r].want = "confirm"
              \/ pc[r] \in ConfirmSteps
         /\ pc'[r] \in ApproveSteps =>
              \/ pc[r] = "lookup_job" /\ call[r].want = "approved"
              \/ pc[r] \in ApproveSteps
         /\ pc'[r] \in RejectSteps =>
              \/ pc[r] = "lookup_job" /\ call[r].want = "rejected"
              \/ pc[r] \in RejectSteps
         /\ pc'[r] \in ResolveSteps => pc[r] \in ResolveSteps
         /\ pc'[r] \in ExecuteSteps =>
              \/ pc[r] = "add_confirmation" /\ PlanOf(r) \notin NeedsApproval
              \/ pc[r] = "approve_plan"
              \/ pc[r] \in ExecuteSteps
         /\ pc'[r] \in {"to_pending_approval", "add_approval"} =>
              \/ pc[r] = "add_confirmation" /\ PlanOf(r) \in NeedsApproval
              \/ pc[r] = "to_pending_approval"
         /\ pc'[r] \in ExecuteSteps \ {"find_job", "revalidate"} =>
              \/ pc[r] = "revalidate" /\ Executable(PlanOf(r))
              \/ pc[r] \in ExecuteSteps \ {"find_job", "revalidate"}
<1> USE DEF TypeOK, ThreadsOK, Goto, Answer, ConfirmSteps, ApproveSteps, RejectSteps,
            ExecuteSteps, ResolveSteps
<1>1. CASE ScanRaises(r)
  BY <1>1 DEF ScanRaises
<1>2. CASE LookupJob(r)
  BY <1>2 DEF LookupJob
<1>3. CASE ConfirmStep(r)
  BY <1>3 DEF ConfirmStep, LoadPlan, LookupConfirmation, LookupApproval, AddConfirmation,
              ToPendingApproval, AddApproval
<1>4. CASE DecideStep(r)
  BY <1>4 DEF DecideStep, LoadApproval, RejectApproval, RejectPlan, RevalidateDecision,
              Revalidate, ApproveApproval, ApprovePlan
<1>5. CASE ExecuteStep(r)
  <2>1. CASE FindJob(r) \/ RevalidateExecution(r) \/ AddJob(r) \/ ToExecuting(r) \/ Execute(r)
    BY <2>1 DEF FindJob, RevalidateExecution, Revalidate, AddJob, ToExecuting, Execute
  <2>2. CASE Verify(r) \/ ApplyPaths(r) \/ SettleJob(r) \/ SettlePlan(r) \/ OpenTask(r)
    BY <2>2 DEF Verify, ApplyPaths, SettleJob, SettlePlan, OpenTask
  <2> QED
    BY <1>5, <2>1, <2>2 DEF ExecuteStep
<1>6. CASE ResolveStep(r)
  BY <1>6 DEF ResolveStep, LoadTask, ResolveTask, ResolvePlan
<1> QED
  BY <1>1, <1>2, <1>3, <1>4, <1>5, <1>6 DEF Work, Step

\* Once in _execute_plan, a thread leaves it only with an answer.
LEMMA WorkExecutes ==
  ASSUME TypeOK, NEW r \in Requests, Work(r), pc[r] \in ExecuteSteps
  PROVE  pc'[r] \in ExecuteSteps \cup {"done"}
<1> USE DEF TypeOK, ThreadsOK, Goto, Answer, ExecuteSteps
<1>1. CASE ScanRaises(r)
  BY <1>1 DEF ScanRaises
<1>2. CASE ExecuteStep(r)
  BY <1>2 DEF ExecuteStep, FindJob, RevalidateExecution, Revalidate, AddJob, ToExecuting,
              Execute, Verify, ApplyPaths, SettleJob, SettlePlan, OpenTask
<1>3. ~LookupJob(r) /\ ~ConfirmStep(r) /\ ~DecideStep(r) /\ ~ResolveStep(r)
  BY DEF LookupJob, ConfirmStep, LoadPlan, LookupConfirmation, LookupApproval, AddConfirmation,
         ToPendingApproval, AddApproval, DecideStep, LoadApproval, RejectApproval, RejectPlan,
         RevalidateDecision, ApproveApproval, ApprovePlan, ResolveStep, LoadTask, ResolveTask,
         ResolvePlan
<1> QED
  BY <1>1, <1>2, <1>3 DEF Work, Step

\* The executor is called at one place, and the plan is still being executed after it.
LEMMA WorkEvidence ==
  ASSUME TypeOK, NEW r \in Requests, Work(r)
  PROVE  \/ evidence' = evidence
         \/ /\ pc[r] = "execute"
            /\ pc'[r] \in ExecuteSteps
            /\ evidence'[r] = EvidenceOf(r)
<1> USE DEF TypeOK, ThreadsOK, LocalsOK, history
<1>1. CASE Execute(r)
  BY <1>1 DEF Execute, Goto, ExecuteSteps
<1>2. CASE ScanRaises(r) \/ LookupJob(r) \/ ResolveStep(r)
  BY <1>2 DEF ScanRaises, LookupJob, ResolveStep, LoadTask, ResolveTask, ResolvePlan
<1>3. CASE ConfirmStep(r)
  BY <1>3 DEF ConfirmStep, LoadPlan, LookupConfirmation, LookupApproval, AddConfirmation,
              ToPendingApproval, AddApproval
<1>4. CASE DecideStep(r)
  BY <1>4 DEF DecideStep, LoadApproval, RejectApproval, RejectPlan, RevalidateDecision,
              ApproveApproval, ApprovePlan
<1>5. CASE ExecuteStep(r)
  BY <1>1, <1>5 DEF ExecuteStep, FindJob, RevalidateExecution, AddJob, ToExecuting,
                    Verify, ApplyPaths, SettleJob, SettlePlan, OpenTask
<1> QED
  BY <1>2, <1>3, <1>4, <1>5 DEF Work, Step

\* Only add_confirmation, which asks that there be none, writes a confirmation, and
\* whoever gets past it has written one.
LEMMA WorkConfirmation ==
  ASSUME TypeOK, NEW r \in Requests, Work(r)
  PROVE  /\ \/ confirmedBy' = confirmedBy /\ (pc[r] = "add_confirmation" => pc'[r] = "done")
            \/ /\ pc[r] = "add_confirmation"
               /\ confirmedBy[PlanOf(r)] = None
               /\ confirmedBy' = [confirmedBy EXCEPT ![PlanOf(r)] = call[r].actor]
<1> USE DEF TypeOK, ThreadsOK, store
<1>1. CASE AddConfirmation(r)
  BY <1>1 DEF AddConfirmation, Confirmable, Answer
<1>2. CASE ScanRaises(r) \/ LookupJob(r) \/ ResolveStep(r)
  BY <1>2 DEF ScanRaises, Answer, LookupJob, ResolveStep, LoadTask, ResolveTask, ResolvePlan
<1>3. CASE ConfirmStep(r)
  BY <1>1, <1>3 DEF ConfirmStep, LoadPlan, LookupConfirmation, LookupApproval,
                    ToPendingApproval, AddApproval
<1>4. CASE DecideStep(r)
  BY <1>4 DEF DecideStep, LoadApproval, RejectApproval, RejectPlan, RevalidateDecision,
              ApproveApproval, ApprovePlan
<1>5. CASE ExecuteStep(r)
  BY <1>5 DEF ExecuteStep, FindJob, RevalidateExecution, AddJob, ToExecuting, Execute,
              Verify, ApplyPaths, SettleJob, SettlePlan, OpenTask
<1> QED
  BY <1>2, <1>3, <1>4, <1>5 DEF Work, Step

\* Only add_approval writes an approval's requester; a decision keeps it.
LEMMA WorkApproval ==
  ASSUME TypeOK, NEW r \in Requests, Work(r), NEW p \in Plans
  PROVE  \/ approval'[p] = approval[p]
         \/ /\ p = PlanOf(r) /\ pc[r] = "add_approval"
            /\ approval'[p].requester = call[r].actor
            /\ approval'[p].decision = "pending"
         \/ /\ p = PlanOf(r) /\ pc[r] \in {"reject_approval", "approve_approval"}
            /\ approval'[p].requester = approval[p].requester
            /\ approval'[p].decision \in Decisions
<1> USE DEF TypeOK, StoreOK, ThreadsOK, store, Decisions
<1>1. CASE AddApproval(r)
  BY <1>1 DEF AddApproval
<1>2. CASE RejectApproval(r) \/ ApproveApproval(r)
  BY <1>2 DEF RejectApproval, ApproveApproval, Decide
<1>3. CASE ScanRaises(r) \/ LookupJob(r) \/ ResolveStep(r)
  BY <1>3 DEF ScanRaises, LookupJob, ResolveStep, LoadTask, ResolveTask, ResolvePlan
<1>4. CASE ConfirmStep(r)
  BY <1>1, <1>4 DEF ConfirmStep, LoadPlan, LookupConfirmation, LookupApproval, AddConfirmation,
                    ToPendingApproval
<1>5. CASE DecideStep(r)
  BY <1>2, <1>5 DEF DecideStep, LoadApproval, RejectPlan, RevalidateDecision, ApprovePlan
<1>6. CASE ExecuteStep(r)
  BY <1>6 DEF ExecuteStep, FindJob, RevalidateExecution, AddJob, ToExecuting, Execute,
              Verify, ApplyPaths, SettleJob, SettlePlan, OpenTask
<1> QED
  BY <1>3, <1>4, <1>5, <1>6 DEF Work, Step
-----------------------------------------------------------------------------
(***************************************************************************)
(* A step of a handler keeps each conjunct of Inductive.                   *)
(***************************************************************************)
LEMMA WorkRouted ==
  ASSUME TypeOK, Routed, NEW r \in Requests, Work(r)
  PROVE  Routed'
<1> SUFFICES ASSUME NEW q \in Requests
             PROVE  Routed!(q)'
  BY DEF Routed
<1>1. CASE q # r
  BY <1>1, WorkFrame DEF Routed
<1>2. CASE q = r
  BY <1>2, WorkFrame, WorkFlow DEF Routed, ConfirmSteps, ApproveSteps, RejectSteps, ExecuteSteps
<1> QED
  BY <1>1, <1>2

\* No step forgets that the executor ran, so Ran can only turn true, in execute.
LEMMA WorkRan ==
  ASSUME TypeOK, NEW r \in Requests, Work(r), NEW q \in Requests
  PROVE  Ran(q)' => Ran(q) \/ (q = r /\ pc[r] = "execute" /\ pc'[r] \in ExecuteSteps)
BY WorkFrame, WorkEvidence DEF Ran

LEMMA WorkAdmitted ==
  ASSUME TypeOK, Routed, Admitted, Records, Backed, NEW r \in Requests, Work(r)
  PROVE  Admitted'
<1> SUFFICES ASSUME NEW q \in Requests
             PROVE  Admitted!(q)'
  BY DEF Admitted
<1>1. UNCHANGED call
  BY WorkFrame
<1>2. CASE q # r
  BY <1>1, <1>2, WorkFrame, WorkRan DEF Admitted, PastChecks, PlanOf
<1>3. CASE q = r /\ PastChecks(r)
  BY <1>1, <1>3 DEF Admitted, PlanOf
<1>4. CASE q = r /\ ~PastChecks(r)
  <2>1. pc'[r] = "lookup_job" \/ ~PastChecks(q)'
    BY <1>4, WorkRan, WorkFlow DEF PastChecks, ConfirmSteps, ApproveSteps, ExecuteSteps
  <2>2. CASE pc[r] = "load_plan" /\ MayConfirm(call[r])
    BY <1>1, <1>4, <2>2 DEF MayConfirm, Routed, PlanOf
  <2>3. CASE pc[r] = "load_approval" /\ MayDecide(call[r])
    <3>1. approval[PlanOf(r)] # NoApproval
      BY <2>3 DEF Routed, Backed
    <3>2. approval[PlanOf(r)].requester = Creator[PlanOf(r)]
      BY <2>3, <3>1, CallKnown DEF Records
    <3>3. call[r].want # "confirm"
      BY <2>3 DEF Routed, Decisions
    <3> QED
      BY <1>1, <1>4, <2>3, <3>2, <3>3 DEF MayDecide, PlanOf
  <2> QED
    BY <1>4, <2>1, <2>2, <2>3, WorkFlow
<1> QED
  BY <1>2, <1>3, <1>4

LEMMA WorkRecords ==
  ASSUME PlanExecutionAssumption, TypeOK, Routed, Admitted, Records, Backed,
         NEW r \in Requests, Work(r)
  PROVE  Records'
<1>0. Creator \in [Plans -> Actors] /\ None \notin Actors /\ PlanOf(r) \in Plans
  BY WorkFrame, CallKnown DEF PlanExecutionAssumption
<1>1. pc[r] \in ConfirmSteps => call[r].actor = Creator[PlanOf(r)]
  BY DEF Routed, Admitted, PastChecks
<1> SUFFICES ASSUME NEW p \in Plans
             PROVE  Records!(p)'
  BY DEF Records
<1>2. \/ confirmedBy'[p] = confirmedBy[p]
      \/ confirmedBy[p] = None /\ confirmedBy'[p] = Creator[p]
  BY <1>0, <1>1, WorkConfirmation DEF TypeOK, StoreOK, ConfirmSteps
<1>3. confirmedBy'[p] \in {None, Creator[p]}
  BY <1>2 DEF Records
<1>4. ASSUME approval'[p] # NoApproval
      PROVE  p \in NeedsApproval /\ confirmedBy'[p] = Creator[p]
             /\ approval'[p].requester = Creator[p]
  <2>1. CASE approval'[p] = approval[p]
    BY <1>0, <1>2, <1>4, <2>1 DEF Records
  <2>2. CASE p = PlanOf(r) /\ pc[r] = "add_approval"
                            /\ approval'[p].requester = call[r].actor
    <3>1. p \in NeedsApproval /\ Holds(r)
      BY <2>2 DEF Backed, Routed, Holds, ConfirmSteps
    <3>2. confirmedBy[p] = Creator[p]
      BY <2>2, <3>1 DEF Backed, Records
    <3> QED
      BY <1>0, <1>1, <1>2, <2>2, <3>1, <3>2 DEF ConfirmSteps
  <2>3. CASE p = PlanOf(r) /\ pc[r] \in {"reject_approval", "approve_approval"}
                            /\ approval'[p].requester = approval[p].requester
    <3>1. approval[p] # NoApproval
      BY <2>3, WorkFrame DEF Backed, Routed, RejectSteps, ApproveSteps, Decisions
    <3> QED
      BY <1>0, <1>2, <2>3, <3>1 DEF Records
  <2> QED
    BY <2>1, <2>2, <2>3, WorkApproval
<1> QED
  BY <1>3, <1>4

\* An approval, once requested, stays.
LEMMA WorkKeepsApproval ==
  ASSUME TypeOK, NEW r \in Requests, Work(r), NEW p \in Plans, approval[p] # NoApproval
  PROVE  approval'[p] # NoApproval
BY WorkApproval DEF NoApproval, Decisions

LEMMA WorkHolds ==
  ASSUME TypeOK, Routed, NEW r \in Requests, Work(r), NEW q \in Requests
  PROVE  Holds(q)' => Holds(q) \/ (q = r /\ pc[r] = "add_confirmation" /\ pc'[r] # "done")
<1>1. CASE q # r
  BY <1>1, WorkFrame, WorkRan DEF Holds
<1>2. CASE q = r
  BY <1>2, WorkFrame, WorkFlow, WorkRan
     DEF Holds, Routed, ConfirmSteps, ApproveSteps, ExecuteSteps
<1> QED
  BY <1>1, <1>2

LEMMA WorkBacked ==
  ASSUME PlanExecutionAssumption, TypeOK, Routed, Admitted, Records, Backed,
         NEW r \in Requests, Work(r)
  PROVE  Backed'
<1>0. UNCHANGED call
  BY WorkFrame
<1> SUFFICES ASSUME NEW q \in Requests
             PROVE  Backed!(q)'
  BY DEF Backed
<1>1. (pc[q] # "idle" /\ call[q].want \in Decisions => approval[PlanOf(q)] # NoApproval)'
  BY <1>0, WorkFrame, WorkKeepsApproval, CallKnown DEF Backed, PlanOf
<1>2. (pc[q] \in ExecuteSteps \/ Ran(q) =>
         (call[q].want = "confirm" <=> PlanOf(q) \notin NeedsApproval))'
  <2>1. CASE pc[q] \in ExecuteSteps \/ Ran(q)
    BY <1>0, <2>1 DEF Backed, PlanOf
  <2>2. CASE q = r /\ pc[r] = "add_confirmation" /\ PlanOf(r) \notin NeedsApproval
    BY <1>0, <2>2 DEF Routed, ConfirmSteps, PlanOf
  <2>3. CASE q = r /\ pc[r] = "approve_plan"
    BY <1>0, <2>3, CallKnown DEF Routed, ApproveSteps, Backed, Decisions, Records, PlanOf
  <2> QED
    BY <2>1, <2>2, <2>3, WorkFlow, WorkFrame, WorkRan DEF ExecuteSteps
<1>3. (pc[q] \in {"to_pending_approval", "add_approval"} => PlanOf(q) \in NeedsApproval)'
  BY <1>0, WorkFlow, WorkFrame DEF Backed, PlanOf
<1>4. (Ran(q) => pc[q] \in ExecuteSteps \cup {"done"} /\ call[q].want \in {"confirm", "approved"})'
  <2>1. CASE q = r /\ pc[r] = "execute" /\ pc'[r] \in ExecuteSteps
    BY <1>0, <2>1 DEF Routed, ExecuteSteps
  <2>2. CASE Ran(q)
    <3>1. pc[q] \in ExecuteSteps \cup {"done"} /\ call[q].want \in {"confirm", "approved"}
      BY <2>2 DEF Backed
    <3> QED
      BY <1>0, <3>1, WorkFrame, WorkExecutes
  <2> QED
    BY <2>1, <2>2, WorkRan
<1>5. (Holds(q) => confirmedBy[PlanOf(q)] # None)'
  <2>1. PlanOf(r) \in Plans /\ call[r].actor \in Actors /\ None \notin Actors
    BY WorkFrame, CallKnown DEF PlanExecutionAssumption
  <2>2. CASE Holds(q)
    <3>1. confirmedBy[PlanOf(q)] # None
      BY <2>2 DEF Backed
    <3>2. PlanOf(q) \in Plans
      BY <2>2, CallKnown DEF Holds, Backed, ExecuteSteps
    <3> QED
      BY <1>0, <2>1, <3>1, <3>2, WorkConfirmation DEF PlanOf, TypeOK, StoreOK
  <2>3. CASE q = r /\ pc[r] = "add_confirmation" /\ pc'[r] # "done"
    BY <1>0, <2>1, <2>3, WorkConfirmation DEF PlanOf, TypeOK, StoreOK
  <2> QED
    BY <2>2, <2>3, WorkHolds
<1> QED
  BY <1>1, <1>2, <1>3, <1>4, <1>5

LEMMA WorkOneHolder ==
  ASSUME TypeOK, Routed, Backed, OneHolder, NEW r \in Requests, Work(r)
  PROVE  OneHolder'
<1>0. UNCHANGED call
  BY WorkFrame
<1> SUFFICES ASSUME NEW p \in Requests, NEW q \in Requests,
                    Holds(p)', Holds(q)', PlanOf(p)' = PlanOf(q)'
             PROVE  p = q
  BY DEF OneHolder
<1>1. PlanOf(p) = PlanOf(q)
  BY <1>0 DEF PlanOf
<1>2. ASSUME pc[r] = "add_confirmation", pc'[r] # "done", NEW h \in Requests, Holds(h)
      PROVE  PlanOf(h) # PlanOf(r)
  BY <1>2, WorkConfirmation DEF Backed
<1> QED
  BY <1>1, <1>2, WorkHolds DEF OneHolder

LEMMA WorkEvidenced ==
  ASSUME PlanExecutionAssumption, TypeOK, Routed, Records, Backed, Evidenced,
         NEW r \in Requests, Work(r)
  PROVE  Evidenced'
<1>0. UNCHANGED call
  BY WorkFrame
<1> SUFFICES ASSUME NEW q \in Requests, Ran(q)'
             PROVE  Evidenced!(q)!2'
  BY DEF Evidenced
<1>1. CASE evidence'[q] = evidence[q]
  BY <1>0, <1>1 DEF Evidenced, Ran, PlanOf
<1>2. CASE q = r /\ pc[r] = "execute" /\ evidence'[r] = EvidenceOf(r)
  <2>1. confirmedBy[PlanOf(r)] = Creator[PlanOf(r)]
    <3>1. PlanOf(r) \in Plans
      BY <1>2, CallKnown
    <3>2. CASE call[r].want = "confirm"
      BY <1>2, <3>1, <3>2 DEF Holds, Backed, Records, ExecuteSteps
    <3>3. CASE call[r].want = "approved"
      BY <1>2, <3>1, <3>3 DEF Backed, Records, Decisions
    <3> QED
      BY <1>2, <3>2, <3>3 DEF Routed, ExecuteSteps
  <2> QED
    BY <1>0, <1>2, <2>1 DEF EvidenceOf, PlanOf
<1> QED
  BY <1>1, <1>2, WorkFrame, WorkEvidence

LEMMA WorkLateness ==
  ASSUME TypeOK, Lateness, NEW r \in Requests, Work(r)
  PROVE  Lateness'
<1>0. UNCHANGED <<call, drift, late>>
  BY WorkFrame
<1> SUFFICES ASSUME NEW q \in Requests, late[q]
             PROVE  Lateness!(q)!2'
  BY <1>0 DEF Lateness
<1>1. "expired" \in drift[PlanOf(q)] /\ ~Ran(q) /\ ~Executable(PlanOf(q))
  BY DEF Lateness, Executable
<1>2. pc'[q] \in ExecuteSteps => pc'[q] \in {"find_job", "revalidate"}
  BY <1>1, WorkFlow, WorkFrame DEF Lateness
<1>3. ~Ran(q)'
  BY <1>1, WorkRan DEF Lateness, ExecuteSteps
<1>4. pc'[q] # "idle"
  BY WorkFrame, WorkFlow DEF Lateness
<1> QED
  BY <1>0, <1>1, <1>2, <1>3, <1>4 DEF PlanOf

LEMMA WorkInductive ==
  ASSUME PlanExecutionAssumption, Inductive, NEW r \in Requests, Work(r)
  PROVE  Inductive'
<1>1. TypeOK'
  <2>1. CASE Step(r)
    <3>1. ThreadsOK'
      BY <2>1, StepMoves, MovesTypes DEF Inductive, TypeOK
    <3> QED
      BY <2>1, <3>1, StepStore, StepLocals DEF Inductive, TypeOK
  <2>2. CASE ScanRaises(r)
    BY <2>2 DEF ScanRaises, Inductive, TypeOK, StoreOK, ThreadsOK, LocalsOK, store, history,
                Answer, Steps, Replies, Scans
  <2> QED
    BY <2>1, <2>2 DEF Work
<1> QED
  BY <1>1, WorkRouted, WorkAdmitted, WorkRecords, WorkBacked, WorkOneHolder, WorkEvidenced,
     WorkLateness DEF Inductive
-----------------------------------------------------------------------------
(***************************************************************************)
(* A new request, and the environment, keep it too.                        *)
(***************************************************************************)
LEMMA ArriveInductive ==
  ASSUME Inductive, NEW r \in Requests, Arrive(r)
  PROVE  Inductive'
<1> USE DEF Inductive, TypeOK
<1>1. PICK c \in Calls :
        /\ Addressable(c)
        /\ pc[r] = "idle"
        /\ call' = [call EXCEPT ![r] = c]
        /\ late' = [late EXCEPT ![r] = "expired" \in drift[c.plan]]
        /\ pc' = [pc EXCEPT ![r] = FirstStep(c)]
        /\ UNCHANGED <<planState, confirmedBy, approval, jobState, taskState, audit, drift,
                       seen, outcome, evidence, reply>>
  BY DEF Arrive, Goto, store
<1>2. /\ c.plan \in Plans
      /\ c.want \in Decisions => approval[c.plan] # NoApproval
      /\ c.want \in {"confirm"} \cup Decisions \cup Resolutions
  BY <1>1 DEF Addressable, Calls, Decisions, Resolutions
<1>3. /\ pc'[r] = FirstStep(c) /\ call'[r] = c
      /\ \A q \in Requests \ {r} : pc'[q] = pc[q] /\ call'[q] = call[q]
  BY <1>1 DEF ThreadsOK
<1>4. /\ ~Ran(r) /\ ~Ran(r)'
      /\ FirstStep(c) \in {"load_plan", "load_approval", "load_task"}
      /\ FirstStep(c) = "load_plan" => c.want = "confirm"
      /\ FirstStep(c) = "load_approval" => c.want \in Decisions
      /\ FirstStep(c) = "load_task" => c.want \in Resolutions
  BY <1>1, <1>2 DEF Backed, Ran, FirstStep, ExecuteSteps
<1>5. TypeOK'
  <2>1. StoreOK'
    BY <1>1 DEF StoreOK
  <2>2. ThreadsOK'
    BY <1>1, <1>4 DEF ThreadsOK, Steps
  <2>3. LocalsOK'
    BY <1>1 DEF LocalsOK
  <2> QED
    BY <2>1, <2>2, <2>3
<1>6. Routed'
  BY <1>3, <1>4 DEF Routed, ConfirmSteps, ApproveSteps, RejectSteps, ExecuteSteps, ResolveSteps
<1>7. Admitted'
  BY <1>1, <1>3, <1>4 DEF Admitted, PastChecks, Ran, PlanOf, ConfirmSteps, ApproveSteps,
                          RejectSteps, ExecuteSteps
<1>8. Records'
  BY <1>1 DEF Records
<1>9. Backed'
  <2> SUFFICES ASSUME NEW q \in Requests
               PROVE  Backed!(q)'
    BY DEF Backed
  <2>1. CASE q = r
    BY <1>1, <1>2, <1>3, <1>4, <2>1 DEF Holds, PlanOf, ExecuteSteps
  <2>2. CASE q # r
    BY <1>1, <1>3, <2>2 DEF Backed, Holds, Ran, PlanOf
  <2> QED
    BY <2>1, <2>2
<1>10. OneHolder'
  <2>1. ASSUME NEW q \in Requests, Holds(q)'
        PROVE  q # r /\ Holds(q) /\ PlanOf(q)' = PlanOf(q)
    BY <1>1, <1>3, <1>4, <2>1 DEF Holds, Ran, PlanOf, ExecuteSteps
  <2> QED
    BY <2>1 DEF OneHolder
<1>11. Evidenced'
  BY <1>1, <1>3, <1>4 DEF Evidenced, Ran, PlanOf
<1>12. Lateness'
  <2> SUFFICES ASSUME NEW q \in Requests, late'[q]
               PROVE  Lateness!(q)!2'
    BY DEF Lateness
  <2>1. CASE q = r
    <3>1. "expired" \in drift[c.plan]
      BY <1>1, <2>1 DEF LocalsOK
    <3> QED
      BY <1>1, <1>3, <1>4, <2>1, <3>1 DEF PlanOf, ExecuteSteps
  <2>2. CASE q # r
    BY <1>1, <1>3, <2>2 DEF Lateness, LocalsOK, Ran, PlanOf
  <2> QED
    BY <2>1, <2>2
<1> QED
  BY <1>5, <1>6, <1>7, <1>8, <1>9, <1>10, <1>11, <1>12

\* Drift and Regrant change why a plan is not executable, and never undo an expiry.
LEMMA EnvironmentInductive ==
  ASSUME Inductive, NEW p \in Plans, Drift(p) \/ Regrant(p)
  PROVE  Inductive'
<1> USE DEF Inductive, TypeOK, store, history
<1>1. UNCHANGED <<planState, confirmedBy, approval, jobState, taskState, audit, pc, call, seen,
                  outcome, reply, evidence, late>>
  BY DEF Drift, Regrant
<1>2. /\ drift' \in [Plans -> SUBSET DriftKinds]
      /\ \A q \in Plans : "expired" \in drift[q] => "expired" \in drift'[q]
  <2>1. drift \in [Plans -> SUBSET DriftKinds]
    BY DEF StoreOK
  <2>2. CASE Drift(p)
    <3>1. PICK kind \in DriftKinds : drift' = [drift EXCEPT ![p] = @ \cup {kind}]
      BY <2>2 DEF Drift
    <3> QED
      BY <2>1, <3>1
  <2>3. CASE Regrant(p)
    BY <2>1, <2>3 DEF Regrant
  <2> QED
    BY <2>2, <2>3
<1>3. StoreOK' /\ ThreadsOK' /\ LocalsOK'
  BY <1>1, <1>2 DEF StoreOK, ThreadsOK, LocalsOK
<1>4. Routed' /\ Admitted' /\ Records'
  BY <1>1 DEF Routed, Admitted, PastChecks, Records, Ran, PlanOf
<1>5. Backed' /\ OneHolder' /\ Evidenced'
  BY <1>1 DEF Backed, OneHolder, Evidenced, Holds, Ran, PlanOf
<1>6. Lateness'
  <2> SUFFICES ASSUME NEW q \in Requests, late[q]
               PROVE  Lateness!(q)!2'
    BY <1>1 DEF Lateness
  <2>1. PlanOf(q) \in Plans
    BY CallKnown DEF Lateness
  <2> QED
    BY <1>1, <1>2, <2>1 DEF Lateness, Ran, PlanOf
<1> QED
  BY <1>3, <1>4, <1>5, <1>6
-----------------------------------------------------------------------------
(***************************************************************************)
(* The theorems.                                                           *)
(***************************************************************************)
LEMMA InitInductive == PlanExecutionAssumption /\ Init => Inductive
<1> SUFFICES ASSUME PlanExecutionAssumption, Init
             PROVE  Inductive
  OBVIOUS
<1> USE DEF Init
<1>1. StoreOK
  BY DEF StoreOK, PlanStates, JobStates, TaskStates, NoApproval
<1>2. ThreadsOK /\ LocalsOK
  BY DEF ThreadsOK, LocalsOK, Steps, Replies, PlanStates, Outcomes
<1>3. Routed /\ Admitted /\ Records
  BY DEF Routed, Admitted, PastChecks, Records, Ran, ConfirmSteps, ApproveSteps, RejectSteps,
         ExecuteSteps, ResolveSteps
<1>4. Backed /\ OneHolder /\ Evidenced /\ Lateness
  BY DEF Backed, OneHolder, Evidenced, Lateness, Holds, Ran, ExecuteSteps
<1> QED
  BY <1>1, <1>2, <1>3, <1>4 DEF Inductive, TypeOK

LEMMA StutterInductive == Inductive /\ UNCHANGED vars => Inductive'
BY DEF Inductive, TypeOK, StoreOK, ThreadsOK, LocalsOK, Routed, Admitted, PastChecks, Records,
       Backed, OneHolder, Evidenced, Lateness, Holds, Ran, PlanOf, vars, store, history

LEMMA NextInductive == PlanExecutionAssumption /\ Inductive /\ [Next]_vars => Inductive'
BY WorkInductive, ArriveInductive, EnvironmentInductive, StutterInductive DEF Next, Work

\* Whatever threads interleave and whatever the ports answer, the repository and the
\* threads keep the invariant the properties below rest on.
THEOREM InductiveInvariant == Spec => []Inductive
BY PlanExecutionAssumption, InitInductive, NextInductive, PTL DEF Spec

\* Type correctness of the repository and of the handlers' local state.
THEOREM TypeCorrect == Spec => []TypeOK
<1>1. Inductive => TypeOK
  BY DEF Inductive
<1> QED
  BY <1>1, InductiveInvariant, PTL

\* Four eyes (README.md:17): what the executor is given was confirmed by the creator
\* and, where the policy asks for it, approved by another actor with the role.
THEOREM FourEyes == Spec => []EvidenceComplete
<1>1. ASSUME Inductive
      PROVE  EvidenceComplete
  <2> SUFFICES ASSUME NEW r \in Requests, Ran(r)
               PROVE  EvidenceComplete!(r)!2
    BY DEF EvidenceComplete
  <2>1. call[r].hash /\ evidence[r].confirmer = Creator[PlanOf(r)]
    BY <1>1 DEF Inductive, Admitted, PastChecks, Evidenced
  <2>2. ASSUME PlanOf(r) \in NeedsApproval
        PROVE  /\ evidence[r].approver \in Approvers \ {Creator[PlanOf(r)]}
               /\ WorkspaceOf[evidence[r].approver] = WorkspaceOf[Creator[PlanOf(r)]]
    <3>1. call[r].want = "approved"
      BY <1>1, <2>2 DEF Inductive, Backed
    <3> QED
      BY <1>1, <3>1 DEF Inductive, Admitted, PastChecks, Evidenced
  <2> QED
    BY <2>1, <2>2
<1> QED
  BY <1>1, InductiveInvariant, PTL

\* A plan that needs no approval is executed by one request at most.
THEOREM SelfConfirmedPlansRunOnce == Spec => []SelfConfirmedOnce
<1>1. ASSUME Inductive
      PROVE  SelfConfirmedOnce
  BY <1>1 DEF Inductive, SelfConfirmedOnce, OneHolder, Holds, Backed
<1> QED
  BY <1>1, InductiveInvariant, PTL

\* A request that comes after the plan's expiry never reaches the executor.
THEOREM ExpiredPlansDoNotRun == Spec => []ExpiredNeverRuns
<1>1. ASSUME Inductive
      PROVE  ExpiredNeverRuns
  BY <1>1 DEF Inductive, ExpiredNeverRuns, Lateness
<1> QED
  BY <1>1, InductiveInvariant, PTL
-----------------------------------------------------------------------------
(***************************************************************************)
(* The inductive invariant for results, on top of Inductive.               *)
(***************************************************************************)
\* Steps of _execute_plan that follow the call of the executor.
AfterSteps == {"verify", "apply_paths", "settle_job", "settle_plan", "open_task"}

\* A request has called the executor exactly if it is past that call.
PastExecutor ==
  \A r \in Requests :
    /\ pc[r] \in AfterSteps => Ran(r)
    /\ Ran(r) => pc[r] \in AfterSteps \cup {"done"}

\* Results that a handler may settle: without a verifier, what the executor answered.
Settleable == Failures \cup (IF HasVerifier THEN Verdicts ELSE {"completed"})

\* How far a result has been read back.
OutcomeFits ==
  \A r \in Requests :
    /\ pc[r] = "verify" => HasVerifier /\ outcome[r] = "completed"
    /\ pc[r] = "apply_paths" => outcome[r] = IF HasVerifier THEN "VERIFIED" ELSE "completed"
    /\ pc[r] \in AfterSteps \ {"verify"} => outcome[r] \in Settleable
    /\ pc[r] = "open_task" => /\ SettledState(outcome[r]) \in Unverified
                              /\ "execution_verification_failed" \in audit[r]

\* A resolution names a task that exists; any other request names a key.
Addressed ==
  \A r \in Requests : pc[r] # "idle" =>
    IF call[r].want \in Resolutions
    THEN /\ call[r].task \in Requests /\ taskState[call[r].task] # "none"
         /\ PlanOf(r) = PlanOf(call[r].task)
    ELSE call[r].key \in Keys

\* Who is not done has not answered.
AnswersLast == \A r \in Requests : pc[r] # "done" => reply[r] = "none"

\* A request that wrote the state of its result into its job.
Settled(r) == /\ Ran(r)
              /\ pc[r] \in {"settle_plan", "open_task", "done"}
              /\ reply[r] # "crashed"

JobsWitnessed ==
  \A p \in Plans, k \in Keys : jobState[<<p, k>>] \notin {"none", "queued"} =>
    \E r \in Requests : /\ Settled(r) /\ PlanOf(r) = p /\ call[r].key = k
                        /\ SettledState(outcome[r]) = jobState[<<p, k>>]

\* Plan states that only an execution gives; escalated is a resolution's, too.
ResultStates == {"failed", "completed", "verified"} \cup (Unverified \ {"escalated"})

PlansWitnessed ==
  \A p \in Plans : planState[p] \in ResultStates =>
    \E r \in Requests : /\ Settled(r) /\ pc[r] # "settle_plan" /\ PlanOf(r) = p
                        /\ SettledState(outcome[r]) = planState[p]

\* Whoever runs the job of a plan and key, or will without another check.
Runs(q, p, k) == /\ Ran(q) \/ pc[q] \in {"to_executing", "execute"}
                 /\ PlanOf(q) = p /\ call[q].key = k

JobsRun ==
  \A p \in Plans, k \in Keys : jobState[<<p, k>>] # "none" => \E q \in Requests : Runs(q, p, k)

\* The request that made a plan executing is at it, or it crashed after the executor.
ExecutingHeld ==
  \A p \in Plans : planState[p] = "executing" =>
    \E r \in Requests :
      /\ PlanOf(r) = p
      /\ \/ pc[r] \in {"execute", "verify", "apply_paths", "settle_job", "settle_plan"}
         \/ Ran(r) /\ pc[r] = "done" /\ reply[r] = "crashed"

Results ==
  /\ PastExecutor /\ OutcomeFits /\ Addressed /\ AnswersLast
  /\ JobsWitnessed /\ PlansWitnessed /\ JobsRun /\ ExecutingHeld
  /\ UnverifiedOpensTask /\ StoredJobHasRunner
-----------------------------------------------------------------------------
(***************************************************************************)
(* What the steps write, pointwise.                                        *)
(***************************************************************************)
\* A thread that goes on answers nothing, and no other thread moves.
LEMMA GotoAt ==
  ASSUME TypeOK, NEW r \in Requests, NEW step, Goto(r, step)
  PROVE  /\ \A q \in Requests : pc'[q] = IF q = r THEN step ELSE pc[q]
         /\ \A q \in Requests : reply'[q] = reply[q]
BY DEF TypeOK, ThreadsOK, Goto

\* A thread that answers is done.
LEMMA AnswerAt ==
  ASSUME TypeOK, NEW r \in Requests, NEW answer, Answer(r, answer)
  PROVE  /\ \A q \in Requests : pc'[q] = IF q = r THEN "done" ELSE pc[q]
         /\ \A q \in Requests : reply'[q] = IF q = r THEN answer ELSE reply[q]
BY DEF TypeOK, ThreadsOK, Answer

\* A handler writes the state of its own plan, ...
LEMMA SetPlanAt ==
  ASSUME TypeOK, NEW r \in Requests, NEW state, SetPlan(r, state)
  PROVE  \A p \in Plans : planState'[p] = IF p = PlanOf(r) THEN state ELSE planState[p]
BY DEF TypeOK, StoreOK, SetPlan

\* ... its own job ...
LEMMA SetJobAt ==
  ASSUME TypeOK, NEW r \in Requests, NEW state, SetJob(r, state)
  PROVE  \A p \in Plans, k \in Keys :
           jobState'[<<p, k>>] = IF p = PlanOf(r) /\ k = call[r].key THEN state
                                 ELSE jobState[<<p, k>>]
BY DEF TypeOK, StoreOK, SetJob

\* ... and its own audit events.
LEMMA NoteAt ==
  ASSUME TypeOK, NEW r \in Requests, NEW event, Note(r, event)
  PROVE  \A q \in Requests : audit'[q] = IF q = r THEN audit[q] \cup {event} ELSE audit[q]
BY DEF TypeOK, StoreOK, Note

\* The step of a thread is the one its program counter names.
RunSteps == {"add_job", "to_executing", "execute"} \cup AfterSteps

LEMMA StepAt ==
  ASSUME NEW r \in Requests, Work(r)
  PROVE  /\ pc[r] = "add_job" => AddJob(r) \/ ScanRaises(r)
         /\ pc[r] = "to_executing" => ToExecuting(r)
         /\ pc[r] = "execute" => Execute(r)
         /\ pc[r] = "verify" => Verify(r)
         /\ pc[r] = "apply_paths" => ApplyPaths(r)
         /\ pc[r] = "settle_job" => SettleJob(r)
         /\ pc[r] = "settle_plan" => SettlePlan(r)
         /\ pc[r] = "open_task" => OpenTask(r)
         /\ pc[r] = "resolve_task" => ResolveTask(r)
         /\ pc[r] = "resolve_plan" => ResolvePlan(r)
<1>1. CASE ScanRaises(r)
  BY <1>1 DEF ScanRaises, Scans
<1>2. CASE LookupJob(r)
  BY <1>2 DEF LookupJob
<1>3. CASE ConfirmStep(r)
  BY <1>3 DEF ConfirmStep, LoadPlan, LookupConfirmation, LookupApproval, AddConfirmation,
              ToPendingApproval, AddApproval
<1>4. CASE DecideStep(r)
  BY <1>4 DEF DecideStep, LoadApproval, RejectApproval, RejectPlan, RevalidateDecision,
              ApproveApproval, ApprovePlan
<1>5. CASE ExecuteStep(r)
  BY <1>5 DEF ExecuteStep, FindJob, RevalidateExecution, AddJob, ToExecuting, Execute,
              Verify, ApplyPaths, SettleJob, SettlePlan, OpenTask
<1>6. CASE ResolveStep(r)
  BY <1>6 DEF ResolveStep, LoadTask, ResolveTask, ResolvePlan
<1> QED
  BY <1>1, <1>2, <1>3, <1>4, <1>5, <1>6 DEF Work, Step

\* Before add_job, a handler touches no job, task or result, it takes a plan only to a
\* state that is not a result, and it answers with a job only if it has found one.
Quiet(r) ==
  /\ UNCHANGED <<call, jobState, taskState, outcome, evidence>>
  /\ \A q \in Requests : audit[q] \subseteq audit'[q]
  /\ \A q \in Requests \ {r} : pc'[q] = pc[q] /\ reply'[q] = reply[q]
  /\ pc'[r] \notin (RunSteps \ {"add_job"}) \cup {"resolve_plan"}
  /\ pc'[r] # "done" => reply'[r] = reply[r]
  /\ pc'[r] = "done" /\ reply'[r] = "job" => JobOf(r) # "none" /\ call[r].want \notin Resolutions
  /\ \A p \in Plans : \/ planState'[p] = planState[p]
                      \/ planState'[p] \in {"pending_approval", "approved", "rejected"}

LEMMA QuietSteps ==
  ASSUME TypeOK, Routed, NEW r \in Requests, Work(r),
         pc[r] \notin RunSteps \cup {"resolve_task", "resolve_plan"}
  PROVE  Quiet(r)
<1> DEFINE Moved ==
      /\ \A q \in Requests \ {r} : pc'[q] = pc[q] /\ reply'[q] = reply[q]
      /\ pc'[r] \notin (RunSteps \ {"add_job"}) \cup {"resolve_plan"}
      /\ pc'[r] # "done" => reply'[r] = reply[r]
      /\ pc'[r] = "done" /\ reply'[r] = "job" => JobOf(r) # "none" /\ call[r].want \notin Resolutions
<1>1. ASSUME NEW step \in Steps, step \notin (RunSteps \ {"add_job"}) \cup {"resolve_plan", "done"},
             Goto(r, step)
      PROVE  Moved
  BY <1>1, GotoAt
<1>2. ASSUME NEW answer \in Replies \ {"job"}, Answer(r, answer)
      PROVE  Moved
  BY <1>2, AnswerAt DEF RunSteps, AfterSteps
<1>3. ASSUME Answer(r, "job"), JobOf(r) # "none", pc[r] \in {"lookup_job", "find_job"}
      PROVE  Moved
  <2>1. call[r].want \notin Resolutions
    BY <1>3 DEF Routed, ExecuteSteps, Resolutions, Decisions
  <2> QED
    BY <1>3, <2>1, AnswerAt DEF RunSteps, AfterSteps
<1> HIDE DEF Moved
<1>4. ASSUME NEW next, Revalidate(r, next), next \in {"approve_approval", "add_job"}
      PROVE  Moved /\ \A q \in Requests : audit[q] \subseteq audit'[q]
  <2>1. CASE Goto(r, next) /\ UNCHANGED audit
    BY <1>1, <1>4, <2>1 DEF Steps, RunSteps, AfterSteps
  <2>2. CASE Note(r, "plan_revalidation_failed") /\ Answer(r, "not_executable")
    BY <1>2, <2>2, NoteAt DEF Replies
  <2> QED
    BY <1>4, <2>1, <2>2 DEF Revalidate
<1> DEFINE Still == UNCHANGED <<call, jobState, taskState, outcome, evidence>>
           Grows == \A q \in Requests : audit[q] \subseteq audit'[q]
           Plain == \A p \in Plans : \/ planState'[p] = planState[p]
                                     \/ planState'[p] \in {"pending_approval", "approved", "rejected"}
<1> HIDE DEF Moved
<1> SUFFICES Still /\ Grows /\ Plain /\ Moved
  BY DEF Quiet, Moved
<1> USE DEF Steps, Replies, RunSteps, AfterSteps
<1>5. CASE LookupJob(r) \/ LoadPlan(r) \/ LoadApproval(r) \/ LoadTask(r)
  <2>1. CASE LookupJob(r)
    BY <1>1, <1>2, <1>3, <2>1 DEF LookupJob, store, history
  <2>2. CASE LoadPlan(r) \/ LoadApproval(r)
    BY <1>1, <1>2, <2>2 DEF LoadPlan, LoadApproval, store, history
  <2>3. CASE LoadTask(r)
    BY <1>1, <1>2, <2>3 DEF LoadTask, store, history
  <2> QED
    BY <1>5, <2>1, <2>2, <2>3
<1>6. CASE LookupConfirmation(r) \/ LookupApproval(r) \/ ScanRaises(r) \/ FindJob(r)
  <2>1. CASE LookupConfirmation(r)
    BY <1>1, <1>2, <2>1 DEF LookupConfirmation, store, history
  <2>2. CASE LookupApproval(r) \/ ScanRaises(r)
    <3>1. \E answer \in {"conflict", "approval", "crashed"} : Answer(r, answer)
      BY <2>2 DEF LookupApproval, ScanRaises
    <3> QED
      BY <1>2, <2>2, <3>1 DEF LookupApproval, ScanRaises, store, history
  <2>3. CASE FindJob(r)
    BY <1>1, <1>3, <2>3 DEF FindJob, store, history
  <2> QED
    BY <1>6, <2>1, <2>2, <2>3
<1>7. CASE AddConfirmation(r)
  <2>1. \/ Answer(r, "crashed")
        \/ \E step \in {"to_pending_approval", "find_job"} : Goto(r, step)
    BY <1>7 DEF AddConfirmation
  <2> QED
    BY <1>1, <1>2, <1>7, <2>1 DEF AddConfirmation, history
<1>8. CASE ToPendingApproval(r) \/ ApprovePlan(r)
  <2>1. Moved
    BY <1>1, <1>8 DEF ToPendingApproval, ApprovePlan
  <2>2. Plain
    BY <1>8, SetPlanAt DEF ToPendingApproval, ApprovePlan
  <2> QED
    BY <1>8, <2>1, <2>2 DEF ToPendingApproval, ApprovePlan, history
<1>9. CASE RejectPlan(r)
  <2>1. Moved
    BY <1>2, <1>9 DEF RejectPlan
  <2>2. Plain
    BY <1>9, SetPlanAt DEF RejectPlan
  <2>3. Grows
    BY <1>9, NoteAt DEF RejectPlan
  <2> QED
    BY <1>9, <2>1, <2>2, <2>3 DEF RejectPlan, history
<1>10. CASE AddApproval(r)
  <2>1. Moved
    BY <1>2, <1>10 DEF AddApproval
  <2>2. Grows
    BY <1>10, NoteAt DEF AddApproval
  <2> QED
    BY <1>10, <2>1, <2>2 DEF AddApproval, history
<1>11. CASE RejectApproval(r)
  BY <1>1, <1>11 DEF RejectApproval, history
<1>12. CASE ApproveApproval(r)
  <2>1. Moved
    BY <1>1, <1>12 DEF ApproveApproval
  <2>2. Grows
    BY <1>12, NoteAt DEF ApproveApproval
  <2> QED
    BY <1>12, <2>1, <2>2 DEF ApproveApproval, history
<1>13. CASE RevalidateDecision(r) \/ RevalidateExecution(r)
  BY <1>4, <1>13 DEF RevalidateDecision, RevalidateExecution, history
<1>14. /\ ~AddJob(r) /\ ~ToExecuting(r) /\ ~Execute(r) /\ ~Verify(r) /\ ~ApplyPaths(r)
       /\ ~SettleJob(r) /\ ~SettlePlan(r) /\ ~OpenTask(r) /\ ~ResolveTask(r) /\ ~ResolvePlan(r)
  BY DEF AddJob, ToExecuting, Execute, Verify, ApplyPaths, SettleJob, SettlePlan, OpenTask,
         ResolveTask, ResolvePlan
<1> QED
  BY <1>5, <1>6, <1>7, <1>8, <1>9, <1>10, <1>11, <1>12, <1>13, <1>14
  DEF Work, Step, ConfirmStep, DecideStep, ExecuteStep, ResolveStep

\* add_execution_job stores a job as queued, or finds one, or its scan raises.
LEMMA AddJobFacts ==
  ASSUME TypeOK, NEW r \in Requests, Work(r), pc[r] = "add_job"
  PROVE  /\ UNCHANGED <<planState, taskState, audit, outcome, evidence>>
         /\ \/ /\ pc'[r] = "to_executing" /\ reply'[r] = reply[r]
               /\ \A p \in Plans, k \in Keys :
                    \/ jobState'[<<p, k>>] = jobState[<<p, k>>]
                    \/ p = PlanOf(r) /\ k = call[r].key /\ jobState'[<<p, k>>] = "queued"
            \/ pc'[r] = "done" /\ reply'[r] = "crashed" /\ UNCHANGED jobState
<1>1. CASE AddJob(r)
  <2>1. pc'[r] = "to_executing" /\ reply'[r] = reply[r]
    BY <1>1, GotoAt DEF AddJob
  <2>2. \A p \in Plans, k \in Keys :
          \/ jobState'[<<p, k>>] = jobState[<<p, k>>]
          \/ p = PlanOf(r) /\ k = call[r].key /\ jobState'[<<p, k>>] = "queued"
    <3>1. CASE SetJob(r, "queued")
      <4>1. \A p \in Plans, k \in Keys :
              jobState'[<<p, k>>] = IF p = PlanOf(r) /\ k = call[r].key THEN "queued"
                                    ELSE jobState[<<p, k>>]
        BY <3>1, SetJobAt
      <4> QED
        BY <4>1
    <3>2. CASE UNCHANGED jobState
      BY <3>2
    <3> QED
      BY <1>1, <3>1, <3>2 DEF AddJob
  <2> QED
    BY <1>1, <2>1, <2>2 DEF AddJob, history
<1>2. CASE ScanRaises(r)
  BY <1>2, AnswerAt DEF ScanRaises, store, history
<1> QED
  BY <1>1, <1>2, StepAt

\* The plan turns executing in the step before the executor is called.
LEMMA ToExecutingFacts ==
  ASSUME TypeOK, NEW r \in Requests, Work(r), pc[r] = "to_executing"
  PROVE  /\ UNCHANGED <<jobState, taskState, audit, outcome, evidence>>
         /\ pc'[r] = "execute" /\ reply'[r] = reply[r]
         /\ \A p \in Plans : planState'[p] = IF p = PlanOf(r) THEN "executing" ELSE planState[p]
<1>1. ToExecuting(r)
  BY StepAt
<1> QED
  BY <1>1, GotoAt, SetPlanAt DEF ToExecuting, history

\* The executor fails, or its result is read back if there is a verifier.
LEMMA ExecuteFacts ==
  ASSUME TypeOK, NEW r \in Requests, Work(r), pc[r] = "execute"
  PROVE  /\ UNCHANGED <<planState, jobState, taskState, audit>>
         /\ Ran(r)' /\ reply'[r] = reply[r]
         /\ \A q \in Requests \ {r} : outcome'[q] = outcome[q]
         /\ \/ pc'[r] = "settle_job" /\ outcome'[r] \in Failures
            \/ pc'[r] = "verify" /\ outcome'[r] = "completed" /\ HasVerifier
            \/ pc'[r] = "apply_paths" /\ outcome'[r] = "completed" /\ ~HasVerifier
<1>1. Execute(r)
  BY StepAt
<1>2. PICK result \in Failures \cup {"completed"} :
        /\ outcome' = [outcome EXCEPT ![r] = result]
        /\ Goto(r, IF result \in Failures THEN "settle_job"
                   ELSE IF HasVerifier THEN "verify" ELSE "apply_paths")
  BY <1>1 DEF Execute
<1>3. evidence'[r] = EvidenceOf(r)
  BY <1>1 DEF Execute, TypeOK, LocalsOK
<1>4. Ran(r)'
  <2>1. call[r].actor \in Actors /\ PlanOf(r) \in Plans
    BY <1>1, CallKnown DEF Execute
  <2>2. EvidenceOf(r) \in [confirmer : Actors \cup {None}, approver : Actors \cup {None}]
    BY <2>1 DEF EvidenceOf, TypeOK, StoreOK
  <2> QED
    BY <1>3, <2>2, PlanExecutionAssumption DEF Ran, PlanExecutionAssumption
<1>5. /\ pc'[r] = IF result \in Failures THEN "settle_job"
                  ELSE IF HasVerifier THEN "verify" ELSE "apply_paths"
      /\ reply'[r] = reply[r]
  BY <1>2, GotoAt
<1>6. outcome'[r] = result /\ \A q \in Requests \ {r} : outcome'[q] = outcome[q]
  BY <1>2 DEF TypeOK, LocalsOK
<1> QED
  BY <1>1, <1>4, <1>5, <1>6 DEF Execute, store, Failures

\* The read-back gives a verdict or leaves the handler.
LEMMA VerifyFacts ==
  ASSUME TypeOK, NEW r \in Requests, Work(r), pc[r] = "verify"
  PROVE  /\ UNCHANGED <<planState, jobState, taskState, audit, evidence>>
         /\ \A q \in Requests \ {r} : outcome'[q] = outcome[q]
         /\ \/ pc'[r] = "done" /\ reply'[r] = "crashed" /\ UNCHANGED outcome
            \/ /\ reply'[r] = reply[r] /\ outcome'[r] \in Verdicts
               /\ pc'[r] = IF outcome'[r] = "VERIFIED" THEN "apply_paths" ELSE "settle_job"
<1>1. Verify(r)
  BY StepAt
<1>2. CASE Answer(r, "crashed") /\ UNCHANGED outcome
  BY <1>1, <1>2, AnswerAt DEF Verify, store, history
<1>3. ASSUME NEW verdict \in Verdicts, outcome' = [outcome EXCEPT ![r] = verdict],
             Goto(r, IF verdict = "VERIFIED" THEN "apply_paths" ELSE "settle_job")
      PROVE  /\ \A q \in Requests \ {r} : outcome'[q] = outcome[q]
             /\ reply'[r] = reply[r] /\ outcome'[r] \in Verdicts
             /\ pc'[r] = IF outcome'[r] = "VERIFIED" THEN "apply_paths" ELSE "settle_job"
  <2>1. outcome'[r] = verdict /\ \A q \in Requests \ {r} : outcome'[q] = outcome[q]
    BY <1>3 DEF TypeOK, LocalsOK
  <2> QED
    BY <1>3, <2>1, GotoAt
<1> QED
  BY <1>1, <1>2, <1>3 DEF Verify, store, history

\* The assets move, or the handler is left.
LEMMA ApplyPathsFacts ==
  ASSUME TypeOK, NEW r \in Requests, Work(r), pc[r] = "apply_paths"
  PROVE  /\ UNCHANGED <<planState, jobState, taskState, audit, outcome, evidence>>
         /\ \/ pc'[r] = "settle_job" /\ reply'[r] = reply[r]
            \/ pc'[r] = "done" /\ reply'[r] = "crashed"
<1>1. ApplyPaths(r)
  BY StepAt
<1> QED
  BY <1>1, GotoAt, AnswerAt DEF ApplyPaths, store, history

\* The job gets the state of the result.
LEMMA SettleJobFacts ==
  ASSUME TypeOK, NEW r \in Requests, Work(r), pc[r] = "settle_job"
  PROVE  /\ UNCHANGED <<planState, taskState, audit, outcome, evidence>>
         /\ pc'[r] = "settle_plan" /\ reply'[r] = reply[r]
         /\ \A p \in Plans, k \in Keys :
              jobState'[<<p, k>>] = IF p = PlanOf(r) /\ k = call[r].key
                                    THEN SettledState(outcome[r]) ELSE jobState[<<p, k>>]
<1>1. SettleJob(r)
  BY StepAt
<1>2. pc'[r] = "settle_plan" /\ reply'[r] = reply[r]
  BY <1>1, GotoAt DEF SettleJob
<1>3. SetJob(r, SettledState(outcome[r]))
  BY <1>1 DEF SettleJob
<1> QED
  BY <1>1, <1>2, <1>3, SetJobAt DEF SettleJob, history

\* The plan gets it after the job; only an unverified one leads to a recovery task.
LEMMA SettlePlanFacts ==
  ASSUME TypeOK, NEW r \in Requests, Work(r), pc[r] = "settle_plan"
  PROVE  /\ UNCHANGED <<jobState, taskState, outcome, evidence>>
         /\ \A p \in Plans : planState'[p] = IF p = PlanOf(r) THEN SettledState(outcome[r])
                                                              ELSE planState[p]
         /\ \A q \in Requests : audit[q] \subseteq audit'[q]
         /\ SettledEvent(outcome[r]) \in audit'[r]
         /\ \/ /\ pc'[r] = "open_task" /\ reply'[r] = reply[r]
               /\ SettledState(outcome[r]) \in Unverified
            \/ /\ pc'[r] = "done" /\ reply'[r] \in {"job", "failed"}
               /\ SettledState(outcome[r]) \notin Unverified
<1>1. SettlePlan(r)
  BY StepAt
<1>2. SetPlan(r, SettledState(outcome[r])) /\ Note(r, SettledEvent(outcome[r]))
  BY <1>1 DEF SettlePlan
<1>3. /\ \A q \in Requests : audit[q] \subseteq audit'[q]
      /\ SettledEvent(outcome[r]) \in audit'[r]
  <2> DEFINE event == SettledEvent(outcome[r])
  <2>1. \A q \in Requests : audit'[q] = IF q = r THEN audit[q] \cup {event} ELSE audit[q]
    BY <1>2, NoteAt
  <2> QED
    BY <2>1
<1>4. \/ /\ pc'[r] = "open_task" /\ reply'[r] = reply[r]
         /\ SettledState(outcome[r]) \in Unverified
      \/ /\ pc'[r] = "done" /\ reply'[r] \in {"job", "failed"}
         /\ SettledState(outcome[r]) \notin Unverified
  BY <1>1, GotoAt, AnswerAt DEF SettlePlan
<1>5. \A p \in Plans : planState'[p] = IF p = PlanOf(r) THEN SettledState(outcome[r])
                                                        ELSE planState[p]
  BY <1>2, SetPlanAt
<1> QED
  BY <1>1, <1>3, <1>4, <1>5 DEF SettlePlan, history

\* The recovery task is the last thing a handler of an unverified result writes.
LEMMA OpenTaskFacts ==
  ASSUME TypeOK, NEW r \in Requests, Work(r), pc[r] = "open_task"
  PROVE  /\ UNCHANGED <<planState, jobState, outcome, evidence>>
         /\ \A q \in Requests : taskState'[q] = IF q = r THEN "pending" ELSE taskState[q]
         /\ \A q \in Requests : audit[q] \subseteq audit'[q]
         /\ "recovery_task_created" \in audit'[r]
         /\ pc'[r] = "done" /\ reply'[r] = "unverified"
<1>1. OpenTask(r)
  BY StepAt
<1>2. \A q \in Requests : taskState'[q] = IF q = r THEN "pending" ELSE taskState[q]
  BY <1>1 DEF OpenTask, TypeOK, StoreOK
<1>3. /\ \A q \in Requests : audit[q] \subseteq audit'[q]
      /\ "recovery_task_created" \in audit'[r]
  <2> DEFINE event == "recovery_task_created"
  <2>1. \A q \in Requests : audit'[q] = IF q = r THEN audit[q] \cup {event} ELSE audit[q]
    BY <1>1, NoteAt DEF OpenTask
  <2> QED
    BY <2>1
<1> QED
  BY <1>1, <1>2, <1>3, AnswerAt DEF OpenTask, history

\* A resolution overwrites its task ...
LEMMA ResolveTaskFacts ==
  ASSUME TypeOK, Routed, NEW r \in Requests, Work(r), pc[r] = "resolve_task"
  PROVE  /\ UNCHANGED <<planState, jobState, audit, outcome, evidence>>
         /\ call[r].want \in Resolutions
         /\ \A q \in Requests : taskState'[q] = IF q = call[r].task THEN call[r].want
                                                                   ELSE taskState[q]
         /\ pc'[r] = "resolve_plan" /\ reply'[r] = reply[r]
<1>1. ResolveTask(r) /\ call[r].want \in Resolutions
  BY StepAt DEF Routed, ResolveSteps
<1>2. \A q \in Requests : taskState'[q] = IF q = call[r].task THEN call[r].want
                                                             ELSE taskState[q]
  BY <1>1 DEF ResolveTask, TypeOK, StoreOK
<1> QED
  BY <1>1, <1>2, GotoAt DEF ResolveTask, history

\* ... and then its plan.
LEMMA ResolvePlanFacts ==
  ASSUME TypeOK, Routed, NEW r \in Requests, Work(r), pc[r] = "resolve_plan"
  PROVE  /\ UNCHANGED <<jobState, taskState, outcome, evidence>>
         /\ call[r].want \in Resolutions
         /\ \A p \in Plans : planState'[p] = IF p = PlanOf(r) THEN call[r].want ELSE planState[p]
         /\ \A q \in Requests : audit[q] \subseteq audit'[q]
         /\ pc'[r] = "done" /\ reply'[r] = "resolved"
<1>1. ResolvePlan(r) /\ call[r].want \in Resolutions
  BY StepAt DEF Routed, ResolveSteps
<1>2. \A q \in Requests : audit[q] \subseteq audit'[q]
  <2> DEFINE event == IF call[r].want = "recovered" THEN "recovery_resolved" ELSE "recovery_escalated"
  <2>1. \A q \in Requests : audit'[q] = IF q = r THEN audit[q] \cup {event} ELSE audit[q]
    BY <1>1, NoteAt DEF ResolvePlan
  <2> QED
    BY <2>1
<1>3. \A p \in Plans : planState'[p] = IF p = PlanOf(r) THEN call[r].want ELSE planState[p]
  BY <1>1, SetPlanAt DEF ResolvePlan
<1>4. pc'[r] = "done" /\ reply'[r] = "resolved"
  BY <1>1, AnswerAt DEF ResolvePlan
<1> QED
  BY <1>1, <1>2, <1>3, <1>4 DEF ResolvePlan, history

\* Whatever a thread does, the other threads stay as they are.
LEMMA RunFrame ==
  ASSUME TypeOK, Routed, NEW r \in Requests, Work(r)
  PROVE  /\ UNCHANGED <<call, drift>>
         /\ \A q \in Requests \ {r} : /\ pc'[q] = pc[q] /\ reply'[q] = reply[q]
                                      /\ outcome'[q] = outcome[q] /\ Ran(q)' = Ran(q)
<1>1. /\ UNCHANGED <<call, drift>>
      /\ \A q \in Requests \ {r} : pc'[q] = pc[q] /\ Ran(q)' = Ran(q)
  BY WorkFrame DEF Ran
<1>2. ASSUME NEW q \in Requests \ {r} PROVE reply'[q] = reply[q]
  <2>1. CASE ScanRaises(r)
    BY <2>1, AnswerAt DEF ScanRaises
  <2>2. CASE Step(r)
    BY <2>2, StepMoves, GotoAt, AnswerAt DEF Moves
  <2> QED
    BY <2>1, <2>2 DEF Work
<1>3. ASSUME NEW q \in Requests \ {r} PROVE outcome'[q] = outcome[q]
  <2>1. CASE pc[r] \in RunSteps \cup {"resolve_task", "resolve_plan"}
    BY <2>1, AddJobFacts, ToExecutingFacts, ExecuteFacts, VerifyFacts, ApplyPathsFacts,
       SettleJobFacts, SettlePlanFacts, OpenTaskFacts, ResolveTaskFacts, ResolvePlanFacts
    DEF RunSteps, AfterSteps
  <2>2. CASE pc[r] \notin RunSteps \cup {"resolve_task", "resolve_plan"}
    BY <2>2, QuietSteps DEF Quiet
  <2> QED
    BY <2>1, <2>2
<1> QED
  BY <1>1, <1>2, <1>3
-----------------------------------------------------------------------------
(***************************************************************************)
(* A step of a handler keeps each conjunct of Results.                     *)
(***************************************************************************)
\* A request that called the executor has called it for good.
LEMMA RanStays ==
  ASSUME TypeOK, Routed, NEW r \in Requests, Work(r), NEW q \in Requests, Ran(q)
  PROVE  Ran(q)'
<1>1. CASE q # r
  BY <1>1, RunFrame
<1>2. CASE q = r /\ pc[r] \in RunSteps \cup {"resolve_task", "resolve_plan"}
  BY <1>2, AddJobFacts, ToExecutingFacts, ExecuteFacts, VerifyFacts, ApplyPathsFacts,
     SettleJobFacts, SettlePlanFacts, OpenTaskFacts, ResolveTaskFacts, ResolvePlanFacts
  DEF RunSteps, AfterSteps, Ran
<1>3. CASE q = r /\ pc[r] \notin RunSteps \cup {"resolve_task", "resolve_plan"}
  BY <1>3, QuietSteps DEF Quiet, Ran
<1> QED
  BY <1>1, <1>2, <1>3

LEMMA WorkPastExecutor ==
  ASSUME TypeOK, Routed, PastExecutor, NEW r \in Requests, Work(r)
  PROVE  PastExecutor'
<1> SUFFICES ASSUME NEW q \in Requests
             PROVE  PastExecutor!(q)'
  BY DEF PastExecutor
<1>1. CASE q # r
  BY <1>1, RunFrame DEF PastExecutor
<1>2. CASE q = r /\ pc[r] = "execute"
  BY <1>2, ExecuteFacts DEF PastExecutor, AfterSteps
<1>3. CASE q = r /\ pc[r] \in AfterSteps
  <2>1. Ran(r)'
    BY <1>3, RanStays DEF PastExecutor
  <2>2. pc'[r] \in AfterSteps \cup {"done"}
    BY <1>3, VerifyFacts, ApplyPathsFacts, SettleJobFacts, SettlePlanFacts, OpenTaskFacts
    DEF AfterSteps
  <2> QED
    BY <1>3, <2>1, <2>2
<1>4. CASE q = r /\ pc[r] \in {"add_job", "to_executing", "resolve_task", "resolve_plan"}
  <2>1. ~Ran(r)
    BY <1>4 DEF PastExecutor, AfterSteps
  <2>2. UNCHANGED evidence /\ pc'[r] \notin AfterSteps
    BY <1>4, AddJobFacts, ToExecutingFacts, ResolveTaskFacts, ResolvePlanFacts DEF AfterSteps
  <2> QED
    BY <1>4, <2>1, <2>2 DEF Ran
<1>5. CASE q = r /\ pc[r] \notin RunSteps \cup {"resolve_task", "resolve_plan"}
  <2>1. ~Ran(r)
    BY <1>5, WorkFrame DEF PastExecutor, RunSteps
  <2>2. UNCHANGED evidence /\ pc'[r] \notin AfterSteps
    BY <1>5, QuietSteps DEF Quiet, AfterSteps, RunSteps
  <2> QED
    BY <1>5, <2>1, <2>2 DEF Ran
<1> QED
  BY <1>1, <1>2, <1>3, <1>4, <1>5 DEF RunSteps

LEMMA WorkOutcomeFits ==
  ASSUME TypeOK, Routed, OutcomeFits, NEW r \in Requests, Work(r)
  PROVE  OutcomeFits'
<1> SUFFICES ASSUME NEW q \in Requests
             PROVE  OutcomeFits!(q)'
  BY DEF OutcomeFits
<1>0. audit[q] \subseteq audit'[q]
  <2>1. CASE pc[r] \in RunSteps \cup {"resolve_task", "resolve_plan"}
    BY <2>1, AddJobFacts, ToExecutingFacts, ExecuteFacts, VerifyFacts, ApplyPathsFacts,
       SettleJobFacts, SettlePlanFacts, OpenTaskFacts, ResolveTaskFacts, ResolvePlanFacts
    DEF RunSteps, AfterSteps
  <2>2. CASE pc[r] \notin RunSteps \cup {"resolve_task", "resolve_plan"}
    BY <2>2, QuietSteps DEF Quiet
  <2> QED
    BY <2>1, <2>2
<1>1. CASE q # r
  BY <1>0, <1>1, RunFrame DEF OutcomeFits
<1>2. CASE q = r /\ pc[r] = "execute"
  BY <1>2, ExecuteFacts DEF Settleable, AfterSteps, Failures
<1>3. CASE q = r /\ pc[r] = "verify"
  BY <1>3, VerifyFacts DEF OutcomeFits, Settleable, AfterSteps
<1>4. CASE q = r /\ pc[r] = "apply_paths"
  BY <1>4, ApplyPathsFacts DEF OutcomeFits, AfterSteps
<1>5. CASE q = r /\ pc[r] = "settle_job"
  BY <1>5, SettleJobFacts DEF OutcomeFits, AfterSteps
<1>6. CASE q = r /\ pc[r] = "settle_plan"
  <2>1. SettledState(outcome[r]) \in Unverified =>
          SettledEvent(outcome[r]) = "execution_verification_failed"
    BY DEF SettledState, SettledEvent, Unverified, Failures
  <2> QED
    BY <1>6, <2>1, SettlePlanFacts DEF OutcomeFits, AfterSteps
<1>7. CASE q = r /\ pc[r] \in {"add_job", "to_executing", "open_task", "resolve_task", "resolve_plan"}
  BY <1>7, AddJobFacts, ToExecutingFacts, OpenTaskFacts, ResolveTaskFacts, ResolvePlanFacts
  DEF AfterSteps
<1>8. CASE q = r /\ pc[r] \notin RunSteps \cup {"resolve_task", "resolve_plan"}
  BY <1>8, QuietSteps DEF Quiet, RunSteps, AfterSteps
<1> QED
  BY <1>1, <1>2, <1>3, <1>4, <1>5, <1>6, <1>7, <1>8 DEF RunSteps, AfterSteps

\* A task that exists keeps existing.
LEMMA TaskStays ==
  ASSUME TypeOK, Routed, NEW r \in Requests, Work(r), NEW q \in Requests, taskState[q] # "none"
  PROVE  taskState'[q] # "none"
<1>1. CASE pc[r] \in RunSteps \cup {"resolve_task", "resolve_plan"}
  BY <1>1, AddJobFacts, ToExecutingFacts, ExecuteFacts, VerifyFacts, ApplyPathsFacts,
     SettleJobFacts, SettlePlanFacts, OpenTaskFacts, ResolveTaskFacts, ResolvePlanFacts
  DEF RunSteps, AfterSteps, Resolutions
<1>2. CASE pc[r] \notin RunSteps \cup {"resolve_task", "resolve_plan"}
  BY <1>2, QuietSteps DEF Quiet
<1> QED
  BY <1>1, <1>2

LEMMA WorkAddressed ==
  ASSUME TypeOK, Routed, Addressed, NEW r \in Requests, Work(r)
  PROVE  Addressed'
<1>1. UNCHANGED call /\ \A q \in Requests : pc[q] = "idle" => pc'[q] = "idle"
  BY WorkFrame
<1> QED
  BY <1>1, TaskStays DEF Addressed, PlanOf

LEMMA WorkAnswersLast ==
  ASSUME TypeOK, Routed, AnswersLast, NEW r \in Requests, Work(r)
  PROVE  AnswersLast'
<1> SUFFICES ASSUME NEW q \in Requests, pc'[q] # "done"
             PROVE  reply'[q] = "none"
  BY DEF AnswersLast
<1>1. CASE q # r
  BY <1>1, RunFrame DEF AnswersLast
<1>2. CASE q = r
  <2>1. reply[r] = "none"
    BY WorkFrame DEF AnswersLast
  <2>2. CASE pc[r] \in RunSteps \cup {"resolve_task", "resolve_plan"}
    BY <1>2, <2>1, <2>2, AddJobFacts, ToExecutingFacts, ExecuteFacts, VerifyFacts,
       ApplyPathsFacts, SettleJobFacts, SettlePlanFacts, OpenTaskFacts, ResolveTaskFacts,
       ResolvePlanFacts
    DEF RunSteps, AfterSteps
  <2>3. CASE pc[r] \notin RunSteps \cup {"resolve_task", "resolve_plan"}
    BY <1>2, <2>1, <2>3, QuietSteps DEF Quiet
  <2> QED
    BY <2>2, <2>3
<1> QED
  BY <1>1, <1>2

\* Whoever has settled a job stays the witness of what it wrote.
LEMMA SettledStays ==
  ASSUME TypeOK, Routed, AnswersLast, NEW r \in Requests, Work(r), NEW q \in Requests, Settled(q)
  PROVE  /\ Settled(q)' /\ outcome'[q] = outcome[q]
         /\ pc[q] # "settle_plan" => pc'[q] # "settle_plan"
<1>1. CASE q # r
  BY <1>1, RunFrame DEF Settled
<1>2. CASE q = r
  <2>1. pc[r] \in {"settle_plan", "open_task"} /\ Ran(q)'
    BY <1>2, RanStays, WorkFrame DEF Settled
  <2> QED
    BY <1>2, <2>1, SettlePlanFacts, OpenTaskFacts DEF Settled, AnswersLast
<1> QED
  BY <1>1, <1>2

\* A result never settles as none, queued or executing.
LEMMA SettledIsAResult ==
  ASSUME NEW result
  PROVE  /\ SettledState(result) \notin {"none", "queued", "executing"}
         /\ SettledState("completed") \notin Unverified
         /\ SettledState("VERIFIED") \notin Unverified
BY DEF SettledState, Unverified, Failures

LEMMA WorkJobsWitnessed ==
  ASSUME TypeOK, Routed, PastExecutor, AnswersLast, JobsWitnessed, NEW r \in Requests, Work(r)
  PROVE  JobsWitnessed'
<1> SUFFICES ASSUME NEW p \in Plans, NEW k \in Keys, jobState'[<<p, k>>] \notin {"none", "queued"}
             PROVE  \E q \in Requests : /\ Settled(q)' /\ PlanOf(q)' = p /\ call'[q].key = k
                                        /\ SettledState(outcome'[q]) = jobState'[<<p, k>>]
  BY DEF JobsWitnessed
<1>0. UNCHANGED call
  BY WorkFrame
<1>1. CASE jobState'[<<p, k>>] = jobState[<<p, k>>]
  <2>1. PICK q \in Requests : /\ Settled(q) /\ PlanOf(q) = p /\ call[q].key = k
                              /\ SettledState(outcome[q]) = jobState[<<p, k>>]
    BY <1>1 DEF JobsWitnessed
  <2> QED
    BY <1>0, <1>1, <2>1, SettledStays DEF PlanOf
<1>2. CASE pc[r] = "settle_job" /\ p = PlanOf(r) /\ k = call[r].key
  <2>1. Settled(r)'
    <3>1. Ran(r)' /\ reply[r] = "none"
      BY <1>2, RanStays DEF PastExecutor, AfterSteps, AnswersLast
    <3> QED
      BY <1>2, <3>1, SettleJobFacts DEF Settled
  <2>2. outcome' = outcome /\ jobState'[<<p, k>>] = SettledState(outcome[r])
    BY <1>2, SettleJobFacts
  <2> QED
    BY <1>0, <1>2, <2>1, <2>2 DEF PlanOf
<1>3. CASE pc[r] = "settle_job" /\ ~(p = PlanOf(r) /\ k = call[r].key)
  BY <1>1, <1>3, SettleJobFacts
<1>4. CASE pc[r] = "add_job"
  BY <1>1, <1>4, AddJobFacts
<1>5. CASE pc[r] \notin {"settle_job", "add_job"}
  <2>1. UNCHANGED jobState
    <3>1. CASE pc[r] \in RunSteps \cup {"resolve_task", "resolve_plan"}
      BY <1>5, <3>1, ToExecutingFacts, ExecuteFacts, VerifyFacts, ApplyPathsFacts,
         SettlePlanFacts, OpenTaskFacts, ResolveTaskFacts, ResolvePlanFacts
      DEF RunSteps, AfterSteps
    <3>2. CASE pc[r] \notin RunSteps \cup {"resolve_task", "resolve_plan"}
      BY <3>2, QuietSteps DEF Quiet
    <3> QED
      BY <3>1, <3>2
  <2> QED
    BY <1>1, <2>1
<1> QED
  BY <1>2, <1>3, <1>4, <1>5

LEMMA WorkPlansWitnessed ==
  ASSUME TypeOK, Routed, PastExecutor, AnswersLast, PlansWitnessed, NEW r \in Requests, Work(r)
  PROVE  PlansWitnessed'
<1> SUFFICES ASSUME NEW p \in Plans, planState'[p] \in ResultStates
             PROVE  \E q \in Requests : /\ Settled(q)' /\ pc'[q] # "settle_plan" /\ PlanOf(q)' = p
                                        /\ SettledState(outcome'[q]) = planState'[p]
  BY DEF PlansWitnessed
<1>0. UNCHANGED call
  BY WorkFrame
<1>1. CASE planState'[p] = planState[p]
  <2>1. PICK q \in Requests : /\ Settled(q) /\ pc[q] # "settle_plan" /\ PlanOf(q) = p
                              /\ SettledState(outcome[q]) = planState[p]
    BY <1>1 DEF PlansWitnessed
  <2> QED
    BY <1>0, <1>1, <2>1, SettledStays DEF PlanOf
<1>2. CASE pc[r] = "settle_plan" /\ p = PlanOf(r)
  <2>1. Ran(r)' /\ outcome' = outcome /\ planState'[p] = SettledState(outcome[r])
    BY <1>2, RanStays, SettlePlanFacts DEF PastExecutor, AfterSteps
  <2>2. pc'[r] \in {"open_task", "done"} /\ reply'[r] # "crashed"
    BY <1>2, SettlePlanFacts DEF AnswersLast
  <2> QED
    BY <1>0, <1>2, <2>1, <2>2 DEF Settled, PlanOf
<1>3. CASE pc[r] = "settle_plan" /\ p # PlanOf(r)
  BY <1>1, <1>3, SettlePlanFacts
<1>4. CASE pc[r] \in {"to_executing", "resolve_plan"}
  <2>1. "executing" \notin ResultStates /\ Resolutions \cap ResultStates = {}
    BY DEF ResultStates, Resolutions, Unverified
  <2> QED
    BY <1>1, <1>4, <2>1, ToExecutingFacts, ResolvePlanFacts
<1>5. CASE pc[r] \in (RunSteps \cup {"resolve_task"}) \ {"to_executing", "settle_plan"}
  BY <1>1, <1>5, AddJobFacts, ExecuteFacts, VerifyFacts, ApplyPathsFacts, SettleJobFacts,
     OpenTaskFacts, ResolveTaskFacts
  DEF RunSteps, AfterSteps
<1>6. CASE pc[r] \notin RunSteps \cup {"resolve_task", "resolve_plan"}
  <2>1. {"pending_approval", "approved", "rejected"} \cap ResultStates = {}
    BY DEF ResultStates, Unverified
  <2> QED
    BY <1>1, <1>6, <2>1, QuietSteps DEF Quiet
<1> QED
  BY <1>2, <1>3, <1>4, <1>5, <1>6

\* Whoever runs a job, or will, keeps doing so.
LEMMA RunsStays ==
  ASSUME TypeOK, Routed, NEW r \in Requests, Work(r), NEW q \in Requests, NEW p, NEW k, Runs(q, p, k)
  PROVE  Runs(q, p, k)'
<1>1. UNCHANGED call
  BY WorkFrame
<1>2. CASE Ran(q)
  BY <1>1, <1>2, RanStays DEF Runs, PlanOf
<1>3. CASE q # r
  BY <1>1, <1>3, RunFrame DEF Runs, PlanOf
<1>4. CASE q = r /\ pc[r] \in {"to_executing", "execute"}
  BY <1>1, <1>4, ToExecutingFacts, ExecuteFacts DEF Runs, PlanOf
<1> QED
  BY <1>2, <1>3, <1>4 DEF Runs

LEMMA WorkJobsRun ==
  ASSUME TypeOK, Routed, PastExecutor, JobsRun, NEW r \in Requests, Work(r)
  PROVE  JobsRun'
<1> SUFFICES ASSUME NEW p \in Plans, NEW k \in Keys, jobState'[<<p, k>>] # "none"
             PROVE  \E q \in Requests : Runs(q, p, k)'
  BY DEF JobsRun
<1>0. UNCHANGED call
  BY WorkFrame
<1>1. CASE jobState'[<<p, k>>] = jobState[<<p, k>>]
  BY <1>1, RunsStays DEF JobsRun
<1>2. CASE pc[r] = "settle_job"
  <2>1. CASE p = PlanOf(r) /\ k = call[r].key
    <3>1. Runs(r, p, k)
      BY <1>2, <2>1 DEF Runs, PastExecutor, AfterSteps
    <3> QED
      BY <3>1, RunsStays
  <2> QED
    BY <1>1, <1>2, <2>1, SettleJobFacts
<1>3. CASE pc[r] = "add_job"
  <2>1. CASE pc'[r] = "to_executing" /\ p = PlanOf(r) /\ k = call[r].key
    BY <1>0, <2>1 DEF Runs, PlanOf
  <2> QED
    BY <1>1, <1>3, <2>1, AddJobFacts
<1>4. CASE pc[r] \in RunSteps \cup {"resolve_task", "resolve_plan"} /\ pc[r] \notin {"settle_job", "add_job"}
  BY <1>1, <1>4, ToExecutingFacts, ExecuteFacts, VerifyFacts, ApplyPathsFacts,
     SettlePlanFacts, OpenTaskFacts, ResolveTaskFacts, ResolvePlanFacts
  DEF RunSteps, AfterSteps
<1>5. CASE pc[r] \notin RunSteps \cup {"resolve_task", "resolve_plan"}
  BY <1>1, <1>5, QuietSteps DEF Quiet
<1> QED
  BY <1>2, <1>3, <1>4, <1>5

LEMMA WorkRunner ==
  ASSUME TypeOK, Routed, PastExecutor, Addressed, AnswersLast, JobsRun, StoredJobHasRunner,
         NEW r \in Requests, Work(r)
  PROVE  StoredJobHasRunner'
<1> SUFFICES ASSUME NEW q \in Requests, reply'[q] = "job", ~Ran(q)'
             PROVE  \E x \in Requests \ {q} : Runs(x, PlanOf(q), call[q].key)'
  <2>1. UNCHANGED call
    BY WorkFrame
  <2> QED
    BY <2>1 DEF StoredJobHasRunner, Runs, PlanOf
<1>1. ~Ran(q)
  BY RanStays
<1>2. CASE q # r
  <2>1. reply[q] = "job"
    BY <1>2, RunFrame
  <2>2. PICK x \in Requests \ {q} : Runs(x, PlanOf(q), call[q].key)
    BY <1>1, <2>1 DEF StoredJobHasRunner, Runs
  <2> QED
    BY <2>2, RunsStays, WorkFrame DEF Runs, PlanOf
<1>3. CASE q = r
  <2>1. reply[r] = "none" /\ pc[r] # "idle"
    BY WorkFrame DEF AnswersLast
  <2>2. pc[r] \notin RunSteps \cup {"resolve_task", "resolve_plan"}
    BY <1>1, <1>3, <2>1, AddJobFacts, ToExecutingFacts, ExecuteFacts, ResolveTaskFacts,
       ResolvePlanFacts
    DEF PastExecutor, RunSteps
  <2>3. JobOf(r) # "none" /\ call[r].want \notin Resolutions
    BY <1>3, <2>1, <2>2, QuietSteps DEF Quiet
  <2>4. call[r].key \in Keys /\ PlanOf(r) \in Plans
    BY <2>1, <2>3, CallKnown DEF Addressed
  <2>5. PICK x \in Requests : Runs(x, PlanOf(r), call[r].key)
    BY <2>3, <2>4 DEF JobsRun, JobOf
  <2>6. x # r
    BY <1>1, <1>3, <2>2, <2>5 DEF Runs, RunSteps
  <2> QED
    BY <1>3, <2>5, <2>6, RunsStays, WorkFrame DEF Runs, PlanOf
<1> QED
  BY <1>2, <1>3

LEMMA WorkExecutingHeld ==
  ASSUME TypeOK, Routed, PastExecutor, AnswersLast, ExecutingHeld, NEW r \in Requests, Work(r)
  PROVE  ExecutingHeld'
<1> DEFINE Holder(q) ==
      \/ pc[q] \in {"execute", "verify", "apply_paths", "settle_job", "settle_plan"}
      \/ Ran(q) /\ pc[q] = "done" /\ reply[q] = "crashed"
<1> SUFFICES ASSUME NEW p \in Plans, planState'[p] = "executing"
             PROVE  \E q \in Requests : PlanOf(q)' = p /\ Holder(q)'
  BY DEF ExecutingHeld
<1>0. UNCHANGED call
  BY WorkFrame
<1>1. CASE pc[r] = "to_executing" /\ p = PlanOf(r)
  BY <1>0, <1>1, ToExecutingFacts DEF PlanOf
<1>2. CASE planState[p] = "executing" /\ ~(pc[r] = "settle_plan" /\ p = PlanOf(r))
  <2>1. PICK q \in Requests : PlanOf(q) = p /\ Holder(q)
    BY <1>2 DEF ExecutingHeld
  <2>2. CASE q # r
    BY <1>0, <2>1, <2>2, RunFrame DEF PlanOf
  <2>3. CASE q = r
    <3>1. pc[r] \in {"execute", "verify", "apply_paths", "settle_job"}
      BY <1>2, <2>1, <2>3, WorkFrame
    <3>2. pc[r] # "execute" => Ran(r)'
      BY <3>1, RanStays DEF PastExecutor, AfterSteps
    <3>3. Holder(r)'
      BY <3>1, <3>2, ExecuteFacts, VerifyFacts, ApplyPathsFacts, SettleJobFacts
    <3> QED
      BY <1>0, <2>1, <2>3, <3>3 DEF PlanOf
  <2> QED
    BY <2>2, <2>3
<1>3. CASE pc[r] = "settle_plan" /\ p = PlanOf(r)
  BY <1>3, SettlePlanFacts, SettledIsAResult
<1>4. CASE planState[p] # "executing" /\ ~(pc[r] = "to_executing" /\ p = PlanOf(r))
  <2>1. CASE pc[r] \in RunSteps \cup {"resolve_task", "resolve_plan"}
    BY <1>4, <2>1, AddJobFacts, ToExecutingFacts, ExecuteFacts, VerifyFacts, ApplyPathsFacts,
       SettleJobFacts, SettlePlanFacts, OpenTaskFacts, ResolveTaskFacts, ResolvePlanFacts,
       SettledIsAResult
    DEF RunSteps, AfterSteps, Resolutions
  <2>2. CASE pc[r] \notin RunSteps \cup {"resolve_task", "resolve_plan"}
    BY <1>4, <2>2, QuietSteps DEF Quiet
  <2> QED
    BY <2>1, <2>2
<1> QED
  BY <1>1, <1>2, <1>3, <1>4

LEMMA WorkTasks ==
  ASSUME TypeOK, Routed, PastExecutor, OutcomeFits, Addressed, UnverifiedOpensTask,
         NEW r \in Requests, Work(r)
  PROVE  UnverifiedOpensTask'
<1> DEFINE unverified(q) == /\ Ran(q) /\ pc[q] = "done"
                            /\ SettledState(outcome[q]) \in Unverified
           both(q) == {"execution_verification_failed", "recovery_task_created"} \subseteq audit[q]
<1> SUFFICES ASSUME NEW q \in Requests
             PROVE  /\ unverified(q)' => taskState'[q] # "none"
                    /\ taskState'[q] # "none" => unverified(q)' /\ both(q)'
  BY DEF UnverifiedOpensTask
<1>0. /\ unverified(q) => taskState[q] # "none"
      /\ taskState[q] # "none" => unverified(q) /\ both(q)
  BY DEF UnverifiedOpensTask
<1>1. CASE q # r
  <2>1. unverified(q)' <=> unverified(q)
    BY <1>1, RunFrame
  <2>2. audit[q] \subseteq audit'[q] /\ (taskState[q] = "none" <=> taskState'[q] = "none")
    <3>1. CASE pc[r] \in RunSteps
      BY <1>1, <3>1, AddJobFacts, ToExecutingFacts, ExecuteFacts, VerifyFacts, ApplyPathsFacts,
         SettleJobFacts, SettlePlanFacts, OpenTaskFacts
      DEF RunSteps, AfterSteps
    <3>2. CASE pc[r] \in {"resolve_task", "resolve_plan"}
      <4>1. taskState[call[r].task] # "none"
        BY <3>2 DEF Addressed, Routed, ResolveSteps
      <4> QED
        BY <3>2, <4>1, ResolveTaskFacts, ResolvePlanFacts DEF Resolutions
    <3>3. CASE pc[r] \notin RunSteps \cup {"resolve_task", "resolve_plan"}
      BY <3>3, QuietSteps DEF Quiet
    <3> QED
      BY <3>1, <3>2, <3>3
  <2> QED
    BY <1>0, <2>1, <2>2
<1>2. CASE q = r
  <2>1. taskState[r] = "none" /\ pc[r] # "done"
    BY <1>0, <1>2, WorkFrame
  <2>2. CASE pc[r] = "open_task"
    <3>1. SettledState(outcome[r]) \in Unverified /\ "execution_verification_failed" \in audit[r]
      BY <2>2 DEF OutcomeFits
    <3>2. Ran(r)'
      BY <2>2, RanStays DEF PastExecutor, AfterSteps
    <3> QED
      BY <1>2, <2>2, <3>1, <3>2, OpenTaskFacts
  <2>3. CASE pc[r] \in {"verify", "apply_paths", "settle_plan"}
    <3>1. pc'[r] = "done" => SettledState(outcome'[r]) \notin Unverified
      BY <2>3, VerifyFacts, ApplyPathsFacts, SettlePlanFacts, SettledIsAResult DEF OutcomeFits
    <3>2. taskState'[r] = "none"
      BY <2>1, <2>3, VerifyFacts, ApplyPathsFacts, SettlePlanFacts
    <3> QED
      BY <1>2, <3>1, <3>2
  <2>4. CASE pc[r] \in {"execute", "settle_job"}
    BY <1>2, <2>1, <2>4, ExecuteFacts, SettleJobFacts
  <2>5. CASE pc[r] \in {"add_job", "to_executing", "resolve_task", "resolve_plan"}
    <3>1. ~Ran(r) /\ UNCHANGED evidence
      BY <2>5, AddJobFacts, ToExecutingFacts, ResolveTaskFacts, ResolvePlanFacts
      DEF PastExecutor, AfterSteps
    <3>2. pc[r] = "resolve_task" => call[r].task # r
      BY <2>1 DEF Addressed, Routed, ResolveSteps
    <3>3. taskState'[r] = "none"
      BY <2>1, <2>5, <3>2, AddJobFacts, ToExecutingFacts, ResolveTaskFacts, ResolvePlanFacts
    <3> QED
      BY <1>2, <3>1, <3>3 DEF Ran
  <2>6. CASE pc[r] \notin RunSteps \cup {"resolve_task", "resolve_plan"}
    <3>1. ~Ran(r) /\ UNCHANGED <<evidence, taskState>>
      BY <2>1, <2>6, QuietSteps DEF Quiet, PastExecutor, RunSteps
    <3> QED
      BY <1>2, <2>1, <3>1 DEF Ran
  <2> QED
    BY <2>2, <2>3, <2>4, <2>5, <2>6 DEF RunSteps, AfterSteps
<1> QED
  BY <1>1, <1>2

LEMMA WorkResults ==
  ASSUME Inductive, Results, NEW r \in Requests, Work(r)
  PROVE  Results'
BY WorkPastExecutor, WorkOutcomeFits, WorkAddressed, WorkAnswersLast, WorkJobsWitnessed,
   WorkPlansWitnessed, WorkJobsRun, WorkExecutingHeld, WorkTasks, WorkRunner
DEF Results, Inductive
-----------------------------------------------------------------------------
(***************************************************************************)
(* A new request, and the environment, keep Results too.                   *)
(***************************************************************************)
\* A request that arrives has not run, settled or answered anything.
LEMMA ArriveResults ==
  ASSUME Inductive, Results, NEW r \in Requests, Arrive(r)
  PROVE  Results'
<1> USE DEF Results
<1>1. PICK c \in Calls :
        /\ Addressable(c) /\ pc[r] = "idle"
        /\ call' = [call EXCEPT ![r] = c]
        /\ pc' = [pc EXCEPT ![r] = FirstStep(c)]
        /\ UNCHANGED <<planState, jobState, taskState, audit, outcome, evidence, reply>>
  BY DEF Arrive, Goto, store
<1>2. /\ pc'[r] \in {"load_plan", "load_approval", "load_task"} /\ call'[r] = c
      /\ \A q \in Requests \ {r} : pc'[q] = pc[q] /\ call'[q] = call[q]
      /\ ~Ran(r) /\ reply[r] = "none" /\ taskState[r] = "none"
  <2>1. /\ pc'[r] = FirstStep(c) /\ call'[r] = c
        /\ \A q \in Requests \ {r} : pc'[q] = pc[q] /\ call'[q] = call[q]
    BY <1>1 DEF Inductive, TypeOK, ThreadsOK
  <2>2. ~Ran(r) /\ reply[r] = "none" /\ taskState[r] = "none"
    BY <1>1 DEF PastExecutor, AfterSteps, AnswersLast, UnverifiedOpensTask
  <2> QED
    BY <2>1, <2>2 DEF FirstStep
<1>3. \A q \in Requests : Ran(q)' <=> Ran(q)
  BY <1>1 DEF Ran
<1>4. PastExecutor' /\ OutcomeFits' /\ AnswersLast'
  BY <1>1, <1>2, <1>3 DEF PastExecutor, OutcomeFits, AnswersLast, AfterSteps
<1>5. Addressed'
  <2> SUFFICES ASSUME NEW q \in Requests
               PROVE  Addressed!(q)'
    BY DEF Addressed
  <2>1. CASE q # r
    <3>1. pc[q] # "idle" /\ call[q].want \in Resolutions => call[q].task # r
      BY <1>2 DEF Addressed
    <3> QED
      BY <1>1, <1>2, <2>1, <3>1 DEF Addressed, PlanOf
  <2>2. CASE q = r /\ c.want \in Resolutions
    <3>1. /\ c.task \in Requests \cup {None} /\ c.task # None /\ taskState[c.task] # "none"
          /\ c.plan = PlanOf(c.task)
      BY <1>1, <2>2 DEF Addressable, Calls, Resolutions, Decisions
    <3>2. c.task \in Requests \ {r}
      BY <1>2, <3>1
    <3> QED
      BY <1>1, <1>2, <2>2, <3>1, <3>2 DEF PlanOf
  <2>3. CASE q = r /\ c.want \notin Resolutions
    BY <1>1, <1>2, <2>3 DEF Addressable, Calls
  <2> QED
    BY <2>1, <2>2, <2>3
<1>6. \A q \in Requests \ {r} : PlanOf(q)' = PlanOf(q) /\ call'[q].key = call[q].key
  BY <1>2 DEF PlanOf
<1>7. \A q \in Requests : Settled(q) => q # r /\ Settled(q)'
  BY <1>1, <1>2, <1>3 DEF Settled
<1>8. JobsWitnessed' /\ PlansWitnessed'
  BY <1>1, <1>2, <1>6, <1>7 DEF JobsWitnessed, PlansWitnessed
<1>9. JobsRun'
  <2> SUFFICES ASSUME NEW p \in Plans, NEW k \in Keys, jobState'[<<p, k>>] # "none"
               PROVE  \E q \in Requests : Runs(q, p, k)'
    BY DEF JobsRun
  <2>1. PICK q \in Requests : Runs(q, p, k)
    BY <1>1 DEF JobsRun
  <2> QED
    BY <1>1, <1>2, <1>3, <1>6, <2>1 DEF Runs
<1>10. ExecutingHeld'
  BY <1>1, <1>2, <1>3, <1>6 DEF ExecutingHeld
<1>11. UnverifiedOpensTask'
  BY <1>1, <1>2, <1>3 DEF UnverifiedOpensTask
<1>12. StoredJobHasRunner'
  <2> SUFFICES ASSUME NEW q \in Requests, reply'[q] = "job", ~Ran(q)'
               PROVE  StoredJobHasRunner!(q)!2'
    BY DEF StoredJobHasRunner
  <2>1. q # r /\ reply[q] = "job" /\ ~Ran(q)
    BY <1>1, <1>2, <1>3
  <2>2. PICK x \in Requests \ {q} : /\ Ran(x) \/ pc[x] \in {"to_executing", "execute"}
                                    /\ PlanOf(x) = PlanOf(q) /\ call[x].key = call[q].key
    BY <2>1 DEF StoredJobHasRunner
  <2>3. x # r
    BY <1>1, <1>2, <2>2
  <2> QED
    BY <1>2, <1>3, <1>6, <2>1, <2>2, <2>3
<1> QED
  BY <1>4, <1>5, <1>8, <1>9, <1>10, <1>11, <1>12

\* What Results speaks of, of the threads and of the repository.
ResultVars == <<planState, jobState, taskState, audit, pc, call, outcome, reply, evidence>>

LEMMA UnchangedResults == Results /\ UNCHANGED ResultVars => Results'
<1> SUFFICES ASSUME Results, UNCHANGED ResultVars
             PROVE  Results'
  OBVIOUS
<1> USE DEF Results, ResultVars, Ran, PlanOf
<1>1. PastExecutor' /\ OutcomeFits' /\ Addressed' /\ AnswersLast'
  BY DEF PastExecutor, OutcomeFits, Addressed, AnswersLast
<1>2. JobsWitnessed' /\ PlansWitnessed'
  BY DEF JobsWitnessed, PlansWitnessed, Settled
<1>3. JobsRun' /\ ExecutingHeld'
  BY DEF JobsRun, Runs, ExecutingHeld
<1>4. UnverifiedOpensTask' /\ StoredJobHasRunner'
  BY DEF UnverifiedOpensTask, StoredJobHasRunner
<1> QED
  BY <1>1, <1>2, <1>3, <1>4

LEMMA InitResults == Init => Results
<1> SUFFICES ASSUME Init
             PROVE  Results
  OBVIOUS
<1> USE DEF Init, Ran
<1>1. PastExecutor /\ OutcomeFits /\ Addressed /\ AnswersLast
  BY DEF PastExecutor, OutcomeFits, Addressed, AnswersLast, AfterSteps
<1>2. JobsWitnessed /\ PlansWitnessed
  BY DEF JobsWitnessed, PlansWitnessed, ResultStates, Unverified
<1>3. JobsRun /\ ExecutingHeld
  BY DEF JobsRun, ExecutingHeld
<1>4. UnverifiedOpensTask /\ StoredJobHasRunner
  BY DEF UnverifiedOpensTask, StoredJobHasRunner
<1> QED
  BY <1>1, <1>2, <1>3, <1>4 DEF Results

LEMMA NextResults == Inductive /\ Results /\ [Next]_vars => Results'
<1> SUFFICES ASSUME Inductive, Results, [Next]_vars
             PROVE  Results'
  OBVIOUS
<1>1. ASSUME NEW p \in Plans, Drift(p) \/ Regrant(p)
      PROVE  Results'
  BY <1>1, UnchangedResults DEF Drift, Regrant, ResultVars, store, history
<1>2. CASE UNCHANGED vars
  BY <1>2, UnchangedResults DEF ResultVars, vars, store, history
<1> QED
  BY <1>1, <1>2, WorkResults, ArriveResults DEF Next, Work

\* What the handlers write as results, however they interleave, agrees with what they
\* executed, and what an execution owes is in progress or has been written.
THEOREM ResultsInvariant == Spec => [](Inductive /\ Results)
<1>1. Init => Inductive /\ Results
  BY InitInductive, InitResults, PlanExecutionAssumption
<1>2. Inductive /\ Results /\ [Next]_vars => (Inductive /\ Results)'
  BY NextInductive, NextResults, PlanExecutionAssumption
<1> QED
  BY <1>1, <1>2, PTL DEF Spec

\* No settled job and no settled plan shows a result that nobody read back, even where
\* two handlers of a plan overwrite each other (_complete_verified_execution,
\* _record_unverified_execution, _fail_execution).
THEOREM StatesAreWitnessed == Spec => []StatesWitnessed
<1>1. ASSUME Results
      PROVE  StatesWitnessed
  <2>1. ASSUME NEW p \in Plans, NEW k \in Keys, jobState[<<p, k>>] \notin {"none", "queued"}
        PROVE  \E r \in Witness(p, jobState[<<p, k>>]) : call[r].key = k
    BY <1>1, <2>1 DEF Results, JobsWitnessed, Settled, Witness
  <2>2. ASSUME NEW p \in Plans, planState[p] \in ResultStates
        PROVE  Witness(p, planState[p]) # {}
    BY <1>1, <2>2 DEF Results, PlansWitnessed, Settled, Witness
  <2> QED
    BY <2>1, <2>2 DEF StatesWitnessed, ResultStates
<1> QED
  BY <1>1, ResultsInvariant, PTL

\* A read-back that does not verify leaves a task and both audit events
\* (engineering-principles.md:145), and nothing else leaves a task.
THEOREM UnverifiedIsOwedATask == Spec => []UnverifiedOpensTask
<1>1. Results => UnverifiedOpensTask
  BY DEF Results
<1> QED
  BY <1>1, ResultsInvariant, PTL

\* A retry that is answered with a stored job is answered with one that some other
\* request ran or is about to run.
THEOREM StoredJobsHaveRunners == Spec => []StoredJobHasRunner
<1>1. Results => StoredJobHasRunner
  BY DEF Results
<1> QED
  BY <1>1, ResultsInvariant, PTL

\* When no handler is running, a plan still executing is one whose handler crashed
\* between the executor's answer and settling the plan.
THEOREM LimboOnlyAfterACrash == Spec => []LimboIsACrash
<1>1. ASSUME Results
      PROVE  LimboIsACrash
  <2> SUFFICES ASSUME InFlight = {}, NEW p \in Plans, planState[p] = "executing"
               PROVE  \E r \in Requests : Ran(r) /\ PlanOf(r) = p /\ reply[r] = "crashed"
    BY DEF LimboIsACrash
  <2>1. \A r \in Requests : pc[r] \in {"idle", "done"}
    BY DEF InFlight
  <2> QED
    BY <1>1, <2>1 DEF Results, ExecutingHeld
<1> QED
  BY <1>1, ResultsInvariant, PTL
=============================================================================
