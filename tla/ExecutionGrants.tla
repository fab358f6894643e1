--------------------------- MODULE ExecutionGrants ---------------------------
(***************************************************************************)
(* The durable grants that authorise the execution of an approved plan:    *)
(* the tables plan_approval_grants and step_execution_grants, the          *)
(* conditional updates of ExecutionGrantRepository on them, and the        *)
(* operations ConfirmationBroker builds from those updates.                *)
(*                                                                         *)
(* Every operation of the repository is one BEGIN IMMEDIATE transaction    *)
(* and every broker operation below runs without an await on the sidecar's *)
(* event loop, so each of them is one action.  The identity, plan and      *)
(* parameter hashes a caller must present are not modelled: a call with    *)
(* other bindings is refused before it changes a row.                      *)
(***************************************************************************)
EXTENDS Integers, FiniteSets

CONSTANTS
    Grants,     \* plan grant ids
    MaxSteps,   \* bound on the number of steps of a plan payload
    MaxTime     \* bound on the clock

ASSUME BoundsAssumption == MaxSteps \in Nat \ {0} /\ MaxTime \in Nat

VARIABLES
    plan,       \* plan[g]: the row of g in plan_approval_grants
    step,       \* step[g][i]: status of the row (g, i) of step_execution_grants
    now         \* the clock the repository reads (_now)

grantVars == <<plan, step, now>>

StepIndex == 0 .. (MaxSteps - 1)

\* The statuses the CHECK constraint of plan_approval_grants admits.
StatusCheck == {"pending", "approved", "in_progress", "consumed",
                "rejected", "expired", "cancelled", "failed"}
Live == {"pending", "approved", "in_progress"}
Closed == StatusCheck \ Live

\* A row not inserted yet has status "none".
PlanRow == [status: StatusCheck \cup {"none"}, size: 0 .. MaxSteps, expires: 0 .. (MaxTime + 1)]
StepStatus == {"none", "approved", "consumed"}

GrantsTypeOK ==
    /\ plan \in [Grants -> PlanRow]
    /\ step \in [Grants -> [StepIndex -> StepStatus]]
    /\ now \in 0 .. MaxTime

GrantsInit ==
    /\ plan = [g \in Grants |-> [status |-> "none", size |-> 0, expires |-> 0]]
    /\ step = [g \in Grants |-> [i \in StepIndex |-> "none"]]
    /\ now = 0

------------------------------------------------------------------------------
(* ExecutionGrantRepository                                                *)

\* The (expected, target) pairs transition_plan accepts.
Transitions == {<<"pending", "approved">>, <<"approved", "in_progress">>,
                <<"in_progress", "consumed">>, <<"pending", "rejected">>,
                <<"pending", "cancelled">>, <<"approved", "cancelled">>,
                <<"in_progress", "failed">>}

Unexpired(g) == plan[g].expires > now

\* Mutant: the UPDATE without its status condition.
TransitsWhateverStatus(g, from, to) == <<from, to>> \in Transitions /\ Unexpired(g)

\* transition_plan(g, from, to) would return True.
Transits(g, from, to) ==
    /\ <<from, to>> \in Transitions
    /\ plan[g].status = from
    /\ Unexpired(g)

\* A live grant past its expiry is marked expired by whichever transition
\* touches it next, and that transition is refused.
LapsesOnTouch(g) == plan[g].status \in Live /\ ~Unexpired(g)

\* Mutant: a lapsed grant gets a status the CHECK constraint does not list.
TransitionPlanUnlistedStatus(g, from, to) ==
    /\ plan' = [plan EXCEPT ![g].status =
                    IF Transits(g, from, to) THEN to
                    ELSE IF <<from, to>> \in Transitions /\ LapsesOnTouch(g) THEN "lapsed"
                    ELSE @]
    /\ UNCHANGED <<step, now>>

TransitionPlan(g, from, to) ==
    /\ plan' = [plan EXCEPT ![g].status =
                    IF Transits(g, from, to) THEN to
                    ELSE IF <<from, to>> \in Transitions /\ LapsesOnTouch(g) THEN "expired"
                    ELSE @]
    /\ UNCHANGED <<step, now>>

\* Mutant: the UPDATE without its expires_at condition.
ConsumableWithoutExpiry(g, i) == step[g][i] = "approved"

\* Mutant: the UPDATE without its status condition.
ConsumableAgain(g, i) == step[g][i] \in {"approved", "consumed"} /\ Unexpired(g)

\* consume_step: the conditional UPDATE.  The parent plan is not consulted.
Consumable(g, i) == step[g][i] = "approved" /\ Unexpired(g)

ConsumeStep(g, i) ==
    /\ Consumable(g, i)
    /\ step' = [step EXCEPT ![g][i] = "consumed"]
    /\ UNCHANGED <<plan, now>>

ConsumedSteps(g) == {i \in StepIndex : step[g][i] = "consumed"}

------------------------------------------------------------------------------
(* ConfirmationBroker                                                      *)

\* request_plan_grant: a row under a fresh grant id.  Any expires_at is
\* accepted, one already past included.
RequestPlanGrant(g, size, expires) ==
    /\ plan[g].status = "none"
    /\ plan' = [plan EXCEPT ![g] = [status |-> "pending", size |-> size, expires |-> expires]]
    /\ UNCHANGED <<step, now>>

Exists(g) == plan[g].status # "none"

ApprovePlanGrant(g) == Exists(g) /\ TransitionPlan(g, "pending", "approved")

\* resume_approved_plan accepts a plan already in progress as readily as one
\* it has just claimed.
Resumable(g) ==
    \/ plan[g].status = "in_progress"
    \/ Transits(g, "approved", "in_progress")

ResumeApprovedPlan(g) ==
    /\ Exists(g)
    /\ IF plan[g].status = "approved"
       THEN TransitionPlan(g, "approved", "in_progress")
       ELSE UNCHANGED grantVars

\* Mutants: the order check dropped; the status check dropped.
IssuableInAnyOrder(g, i) ==
    /\ plan[g].status = "in_progress"
    /\ step[g][i] # "consumed"
IssuableUnderAnyPlan(g, i) ==
    /\ Exists(g)
    /\ \A j \in 0 .. (i - 1) : step[g][j] = "consumed"
    /\ step[g][i] # "consumed"

\* issue_next_step_grant: the plan is in progress, every earlier step is
\* consumed, and the row of this step is absent or still approved.
Issuable(g, i) ==
    /\ plan[g].status = "in_progress"
    /\ \A j \in 0 .. (i - 1) : step[g][j] = "consumed"
    /\ step[g][i] # "consumed"

IssueNextStepGrant(g, i) ==
    /\ Issuable(g, i)
    /\ step' = [step EXCEPT ![g][i] = "approved"]
    /\ UNCHANGED <<plan, now>>

\* Mutant: completion without the count of the payload's steps.
CompletableEarly(g) == ConsumedSteps(g) # {}

\* complete_plan counts the consumed rows and compares with the payload.
Completable(g) == plan[g].size # 0 /\ Cardinality(ConsumedSteps(g)) = plan[g].size

CompletePlan(g) ==
    /\ Exists(g)
    /\ IF Completable(g)
       THEN TransitionPlan(g, "in_progress", "consumed")
       ELSE UNCHANGED grantVars

FailPlan(g) == Exists(g) /\ TransitionPlan(g, "in_progress", "failed")

\* The only caller that cancels is ContinuationExecutor.cancel.
CancelPendingGrant(g) == Exists(g) /\ TransitionPlan(g, "pending", "cancelled")

Tick ==
    /\ now < MaxTime
    /\ now' = now + 1
    /\ UNCHANGED <<plan, step>>

------------------------------------------------------------------------------
GrantsNext ==
    \/ Tick
    \/ \E g \in Grants :
        \/ \E size \in 0 .. MaxSteps, expires \in 0 .. (MaxTime + 1) :
                RequestPlanGrant(g, size, expires)
        \/ ApprovePlanGrant(g)
        \/ ResumeApprovedPlan(g)
        \/ CompletePlan(g)
        \/ FailPlan(g)
        \/ CancelPendingGrant(g)
        \/ \E i \in StepIndex : IssueNextStepGrant(g, i) \/ ConsumeStep(g, i)

GrantsSpec == GrantsInit /\ [][GrantsNext]_grantVars

------------------------------------------------------------------------------
(* Properties                                                              *)

\* Whatever the callers do and in whichever order, the rows of a plan grant
\* form a consumed prefix followed by at most one outstanding step grant: no
\* step is authorised before the ones it follows, and two callers never hold
\* authority for different steps of one plan (issue_next_step_grant).
OneStepAhead ==
    \A g \in Grants : \A i \in StepIndex :
        step[g][i] # "none" => \A j \in 0 .. (i - 1) : step[g][j] = "consumed"

\* A plan is closed as consumed only when every step of its payload has had
\* its authority spent: complete_plan only counts rows, and the count is the
\* right set because the consumed rows form a prefix.  (A caller may have
\* spent further steps by then: the broker never checks a step index against
\* the payload.)
CompletedPlanIsSpent ==
    \A g \in Grants :
        plan[g].status = "consumed" =>
            /\ plan[g].size > 0
            /\ 0 .. (plan[g].size - 1) \subseteq ConsumedSteps(g)

\* A closed plan grant issues nothing more and is never reopened; what may
\* still happen under it is the consumption of the one step grant that was
\* outstanding when it closed (transition_plan, create_step, consume_step).
ClosedPlanOnlyDrains ==
    [][\A g \in Grants : plan[g].status \in Closed =>
            /\ plan'[g] = plan[g]
            /\ \A i \in StepIndex :
                step'[g][i] # step[g][i] =>
                    /\ step[g][i] = "approved"
                    /\ step'[g][i] = "consumed"]_grantVars

\* No step's authority is spent at or after the expiry the user approved,
\* even when the plan is still marked in progress because nothing has touched
\* it since (expiry is lazy in transition_plan, checked again in consume_step).
NothingSpentAfterExpiry ==
    [][\A g \in Grants : ~Unexpired(g) =>
            ConsumedSteps(g)' = ConsumedSteps(g)]_grantVars

==============================================================================
