---------------------------- MODULE PlanExecution ----------------------------
(***************************************************************************)
(* Execution of approved plans.  Each run is one POST /plans/resume:       *)
(* Orchestrator.resume_approved_plan claims the plan grant, process() takes *)
(* the plan through the pipeline, and for every step a step grant is       *)
(* issued, spent by ToolExecutionGuard, and the tool is called through     *)
(* ToolGateway; then the plan grant is closed by complete_plan or, after   *)
(* the completed steps have been rolled back, by fail_plan.                *)
(*                                                                         *)
(* Runs are coroutines of one event loop: a run gives way only where its   *)
(* code awaits, so an action here is the code between two awaits.  Nothing *)
(* keeps two runs off the same grant.  A run may be cancelled at any await *)
(* (asyncio.wait_for in process), and the sidecar may die, which ends all  *)
(* runs and keeps the rows of the database.                                *)
(***************************************************************************)
EXTENDS ExecutionGrants

CONSTANTS
    Runs,           \* resume requests, each served once
    MaxAttempts,    \* RecoveryPolicy.max_retries
    NoRun, NoGrant

ASSUME AttemptsAssumption == MaxAttempts \in Nat \ {0}
ASSUME NoRunAssumption == NoRun \notin Runs
ASSUME NoGrantAssumption == NoGrant \notin Grants

VARIABLES
    run,        \* run[r]: where the request r is in its plan
    calls,      \* calls[g][i]: times the tool of step i was called under g
    holder,     \* holder[g][i]: the run that spent the step grant (history)
    undone      \* undone[g]: steps whose effect a rollback tool reversed

vars == <<grantVars, run, calls, holder, undone>>

\* start: in the pipeline before its steps; loop: about to take up step next;
\* issued: holds the step grant, TOOL_STARTED being emitted; authorised: grant
\* spent, tool not called; called: tool running; finish: every step succeeded;
\* undoing: a step failed, undo steps left to roll back; succeeding, failing: the
\* grant is closed and the result decided, its events being emitted.
Suspended == {"start", "loop", "issued", "authorised", "called", "finish", "undoing",
              "succeeding", "failing"}
Ended == {"refused", "stopped", "completed", "failed", "gone"}

Run == [pc: Suspended \cup Ended \cup {"idle"}, grant: Grants \cup {NoGrant},
        next: 0 .. MaxSteps, tries: 0 .. (MaxAttempts - 1), undo: 0 .. MaxSteps]

TypeOK ==
    /\ GrantsTypeOK
    /\ run \in [Runs -> Run]
    /\ calls \in [Grants -> [StepIndex -> Nat]]
    /\ holder \in [Grants -> [StepIndex -> Runs \cup {NoRun}]]
    /\ undone \in [Grants -> SUBSET StepIndex]

Init ==
    /\ GrantsInit
    /\ run = [r \in Runs |-> [pc |-> "idle", grant |-> NoGrant, next |-> 0, tries |-> 0, undo |-> 0]]
    /\ calls = [g \in Grants |-> [i \in StepIndex |-> 0]]
    /\ holder = [g \in Grants |-> [i \in StepIndex |-> NoRun]]
    /\ undone = [g \in Grants |-> {}]

At(r, pc) == run[r].pc = pc
Goto(r, pc) == run' = [run EXCEPT ![r].pc = pc]

\* A step of r failed: the loop breaks and the rollback of the steps that had
\* completed in this run begins.
FailStep(r) == run' = [run EXCEPT ![r].pc = "undoing", ![r].undo = run[r].next]

history == <<calls, holder, undone>>

------------------------------------------------------------------------------
(* POST /plans/approve: request_plan_grant and approve_plan_grant are two  *)
(* transactions.                                                           *)

Request(g) ==
    /\ \E size \in 1 .. MaxSteps, expires \in 0 .. (MaxTime + 1) : RequestPlanGrant(g, size, expires)
    /\ UNCHANGED <<run, history>>

Approve(g) == ApprovePlanGrant(g) /\ UNCHANGED <<run, history>>

Cancel(g) == CancelPendingGrant(g) /\ UNCHANGED <<run, history>>

Pass == Tick /\ UNCHANGED <<run, history>>

------------------------------------------------------------------------------
(* POST /plans/resume                                                      *)

Resume(r, g) ==
    /\ At(r, "idle")
    /\ ResumeApprovedPlan(g)
    /\ run' = [run EXCEPT ![r].grant = g,
                          ![r].pc = IF Resumable(g) THEN "start" ELSE "refused"]
    /\ UNCHANGED history

\* Rate limit, structural validation, REJECT, grounding: process() returns
\* an error and leaves the plan grant in progress.
StopEarly(r) ==
    /\ At(r, "start")
    /\ Goto(r, "stopped")
    /\ UNCHANGED <<grantVars, history>>

Begin(r) ==
    /\ At(r, "start")
    /\ Goto(r, "loop")
    /\ UNCHANGED <<grantVars, history>>

\* _execute_single_step, before any grant: conservative mode or the tool
\* category's rate limit.
BlockStep(r) ==
    /\ At(r, "loop")
    /\ FailStep(r)
    /\ UNCHANGED <<grantVars, history>>

\* _resolve_step_params raises for an unresolvable placeholder and nothing in
\* the pipeline catches it: neither rollback nor fail_plan is reached.
RaiseInStep(r) ==
    /\ At(r, "loop")
    /\ Goto(r, "gone")
    /\ UNCHANGED <<grantVars, history>>

\* Mutant: a resumed run steps over the steps that are spent already.
IssueSkippingSpent(r) ==
    LET g == run[r].grant  i == run[r].next IN
    /\ At(r, "loop")
    /\ \/ IssueNextStepGrant(g, i) /\ run' = [run EXCEPT ![r].pc = "issued", ![r].tries = 0]
       \/ /\ step[g][i] = "consumed" /\ i + 1 < plan[g].size
          /\ run' = [run EXCEPT ![r].next = i + 1] /\ UNCHANGED grantVars
    /\ UNCHANGED history

\* resume_approved_plan (the plan of a run is no longer "approved", so it only
\* checks) and issue_next_step_grant.
Issue(r) ==
    LET g == run[r].grant  i == run[r].next IN
    /\ At(r, "loop")
    /\ \/ IssueNextStepGrant(g, i) /\ run' = [run EXCEPT ![r].pc = "issued", ![r].tries = 0]
       \/ ~Issuable(g, i) /\ FailStep(r) /\ UNCHANGED grantVars
    /\ UNCHANGED history

\* ToolExecutionGuard refuses the request before it touches the grant:
\* ambiguity, argument validation, or a fallback tool the grant is not bound to.
GuardRefuses(r) ==
    /\ At(r, "issued")
    /\ FailStep(r)
    /\ UNCHANGED <<grantVars, history>>

\* _consume_execution_grant.
Spend(r) ==
    LET g == run[r].grant  i == run[r].next IN
    /\ At(r, "issued")
    /\ \/ /\ ConsumeStep(g, i)
          /\ Goto(r, "authorised")
          /\ holder' = [holder EXCEPT ![g][i] = r]
       \/ /\ ~Consumable(g, i)
          /\ FailStep(r)
          /\ UNCHANGED <<grantVars, holder>>
    /\ UNCHANGED <<calls, undone>>

\* Mutant: a denied tool does not stop the loop.
DenyToolIgnored(r) ==
    /\ At(r, "authorised")
    /\ run' = [run EXCEPT ![r].next = @ + 1,
                          ![r].pc = IF run[r].next + 1 = plan[run[r].grant].size
                                    THEN "finish" ELSE "loop"]
    /\ UNCHANGED <<grantVars, history>>

\* The grant is spent, the tool not yet called: the guard's rate limit, an
\* unknown tool, policy, circuit breaker, audit preflight, grounding.
DenyTool(r) ==
    /\ At(r, "authorised")
    /\ FailStep(r)
    /\ UNCHANGED <<grantVars, history>>

CallTool(r) ==
    LET g == run[r].grant  i == run[r].next IN
    /\ At(r, "authorised")
    /\ Goto(r, "called")
    /\ calls' = [calls EXCEPT ![g][i] = @ + 1]
    /\ UNCHANGED <<grantVars, holder, undone>>

ToolSucceeds(r) ==
    /\ At(r, "called")
    /\ run' = [run EXCEPT ![r].next = @ + 1,
                          ![r].pc = IF run[r].next + 1 = plan[run[r].grant].size
                                    THEN "finish" ELSE "loop"]
    /\ UNCHANGED <<grantVars, history>>

\* RetryHandler: a transient failure is tried again with the same step grant.
Retry(r) ==
    /\ At(r, "called") \/ At(r, "authorised")
    /\ run[r].tries + 1 < MaxAttempts
    /\ run' = [run EXCEPT ![r].pc = "issued", ![r].tries = @ + 1]
    /\ UNCHANGED <<grantVars, history>>

\* Any other failure, or RetryExhaustedError.
ToolFails(r) ==
    /\ At(r, "called")
    /\ FailStep(r)
    /\ UNCHANGED <<grantVars, history>>

\* RollbackManager: backwards over the steps this run completed; a step that
\* is not reversible is skipped, a rollback tool that fails is only recorded.
UndoStep(r) ==
    LET i == run[r].undo - 1  g == run[r].grant IN
    /\ At(r, "undoing")
    /\ run[r].undo > 0
    /\ run' = [run EXCEPT ![r].undo = i]
    /\ \/ undone' = [undone EXCEPT ![g] = @ \cup {i}]
       \/ UNCHANGED undone
    /\ UNCHANGED <<grantVars, calls, holder>>

\* Mutant: the failed run ends without fail_plan.
CloseFailedQuietly(r) ==
    /\ At(r, "undoing")
    /\ run[r].undo = 0
    /\ Goto(r, "failing")
    /\ UNCHANGED <<grantVars, history>>

CloseFailed(r) ==
    /\ At(r, "undoing")
    /\ run[r].undo = 0
    /\ FailPlan(run[r].grant)
    /\ Goto(r, "failing")
    /\ UNCHANGED history

\* Mutant: the result of complete_plan is not looked at.
FinishUnchecked(r) ==
    /\ At(r, "finish")
    /\ CompletePlan(run[r].grant)
    /\ \E outcome \in {"succeeding", "failing"} : Goto(r, outcome)
    /\ UNCHANGED history

\* complete_plan comes first.  The result is an error if it refuses, and also if
\* what the steps brought back does not satisfy the grounding requirements.
Finish(r) ==
    LET g == run[r].grant IN
    /\ At(r, "finish")
    /\ CompletePlan(g)
    /\ \/ Goto(r, "failing")
       \/ Completable(g) /\ Transits(g, "in_progress", "consumed") /\ Goto(r, "succeeding")
    /\ UNCHANGED history

\* The last events are emitted and the result returned.
Report(r) ==
    /\ \/ At(r, "succeeding") /\ Goto(r, "completed")
       \/ At(r, "failing") /\ Goto(r, "failed")
    /\ UNCHANGED <<grantVars, history>>

\* asyncio.wait_for in process() cancels the run at the await it is in.
TimeOut(r) ==
    /\ run[r].pc \in Suspended
    /\ Goto(r, "gone")
    /\ UNCHANGED <<grantVars, history>>

\* The sidecar dies.
Crash ==
    /\ \E r \in Runs : run[r].pc \in Suspended
    /\ run' = [r \in Runs |-> IF run[r].pc \in Suspended
                              THEN [run[r] EXCEPT !.pc = "gone"] ELSE run[r]]
    /\ UNCHANGED <<grantVars, history>>

------------------------------------------------------------------------------
RunStep(r) ==
    \/ StopEarly(r) \/ Begin(r) \/ BlockStep(r) \/ RaiseInStep(r) \/ Issue(r)
    \/ GuardRefuses(r) \/ Spend(r) \/ DenyTool(r) \/ CallTool(r)
    \/ ToolSucceeds(r) \/ Retry(r) \/ ToolFails(r)
    \/ UndoStep(r) \/ CloseFailed(r) \/ Finish(r) \/ Report(r)

Next ==
    \/ Pass
    \/ \E g \in Grants : Request(g) \/ Approve(g) \/ Cancel(g)
    \/ \E r \in Runs : RunStep(r) \/ TimeOut(r) \/ \E g \in Grants : Exists(g) /\ Resume(r, g)
    \/ Crash

Spec == Init /\ [][Next]_vars

\* The event loop keeps resuming a coroutine that can proceed; requests,
\* approvals, time, timeouts and crashes are not fair.
FairSpec == Spec /\ \A r \in Runs : WF_vars(RunStep(r))

------------------------------------------------------------------------------
(* Properties                                                              *)

\* Retries, concurrent resumes, timeouts and restarts included, the tool of a
\* step is called at most once under a plan grant, and only after the tools of
\* all earlier steps were.
CalledOnceInOrder ==
    \A g \in Grants : \A i \in StepIndex :
        /\ calls[g][i] <= 1
        /\ calls[g][i] = 1 => \A j \in 0 .. i : calls[g][j] = 1

\* All the effects of one plan come from one run.  Two resumes may race for
\* the first step; whoever loses it, or comes later, gets no further, because
\* every run starts over at step 0 and a spent step grant is never reissued.
SingleExecutor ==
    \A g \in Grants : \A i, j \in StepIndex :
        holder[g][i] # NoRun /\ holder[g][j] # NoRun => holder[g][i] = holder[g][j]

\* Run r spent and called every step of plan g, and no step was rolled back.
PerformedBy(r, g) ==
    /\ run[r].grant = g /\ undone[g] = {}
    /\ \A i \in 0 .. (plan[g].size - 1) : calls[g][i] = 1 /\ holder[g][i] = r

\* A plan recorded as consumed was performed whole by one run, with no step rolled
\* back by it or by a competing one, even if that run is cut off while it reports,
\* or reports an error after the fact.  And a run reports success only of a plan
\* that it performed itself and that is recorded as consumed
\* (orchestrator.py:1290-1351).
CompletedMeansPerformed ==
    /\ \A g \in Grants : plan[g].status = "consumed" =>
           \E r \in Runs : PerformedBy(r, g) /\ run[r].pc \in {"succeeding", "failing"} \cup Ended
    /\ \A r \in Runs : run[r].pc \in {"succeeding", "completed"} =>
           PerformedBy(r, run[r].grant) /\ plan[run[r].grant].status = "consumed"

\* Once a rollback has reversed a step, no tool of that plan is running or
\* about to run in any run, so a forward effect never lands on top of a
\* reversed one.
NoCallAfterUndo ==
    \A g \in Grants : undone[g] # {} =>
        \A r \in Runs : run[r].grant = g => run[r].pc \notin {"authorised", "called"}

\* A run that enters the execution loop closes its plan grant (consumed,
\* failed or expired) unless it is cut off by a timeout, a crash or an
\* exception: the plan is not left in progress by a run that ran to its end.
LoopClosesPlan ==
    \A r \in Runs, g \in Grants :
        (run[r].grant = g /\ At(r, "loop")) ~> (plan[g].status \in Closed \/ At(r, "gone"))

\* ConfirmationBroker.resume_approved_plan: "Atomically claim a durable plan".
\* At most one run executes a plan grant.  Does not hold.
ClaimIsExclusive ==
    \A r, s \in Runs :
        /\ run[r].pc \in Suspended /\ run[s].pc \in Suspended
        /\ run[r].grant = run[s].grant
        => r = s

------------------------------------------------------------------------------
(* Refinement of the promise made to the user                              *)

Phase(g) ==
    CASE plan[g].status \in {"none", "pending"} -> "draft"
      [] plan[g].status \in {"approved", "in_progress"} -> "granted"
      [] plan[g].status = "consumed" -> "completed"
      [] OTHER -> "closed"

\* Steps performed exactly once, up to the first that was not.
Performed(g) == {i \in StepIndex : \A j \in 0 .. i : calls[g][j] = 1}

Promise == INSTANCE ApprovedPlan WITH
    phase <- [g \in Grants |-> Phase(g)],
    size <- [g \in Grants |-> plan[g].size],
    performed <- [g \in Grants |-> Cardinality(Performed(g))]

\* The execution of plans implements ApprovedPlan.
KeepsPromise == Promise!Spec

==============================================================================
