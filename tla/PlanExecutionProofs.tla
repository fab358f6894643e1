------------------------- MODULE PlanExecutionProofs -------------------------
(***************************************************************************)
(* Proofs about PlanExecution, for any number of runs, plans and steps and *)
(* any retry bound.                                                        *)
(*                                                                         *)
(* Every action is a step of ExecutionGrants or leaves its rows alone, so  *)
(* what is proved of the rows there holds here.  The inductive invariant   *)
(* adds what a run owns at each point of its loop: it spent the grant and  *)
(* made the one call of every step it has behind it, it spent the grant of *)
(* the step it is authorised for, and a step rolled back belongs to a run  *)
(* that will never call a tool again.                                      *)
(***************************************************************************)
EXTENDS PlanExecution, ExecutionGrantsProofs

\* Plans are approved with steps (POST /plans/approve demands plan.steps).
PlansHaveSteps == \A g \in Grants : plan[g].status # "none" => plan[g].size > 0

\* Where a run stands in its plan.
Position(r) ==
    /\ run[r].pc \in {"idle", "start"} => run[r].next = 0
    /\ run[r].pc \in Suspended \cup {"completed"} =>
            run[r].grant \in Grants /\ plan[run[r].grant].status # "none"
    /\ run[r].pc \in Suspended \ {"finish", "succeeding", "failing"} => run[r].next < plan[run[r].grant].size
    /\ run[r].pc \in {"finish", "succeeding", "completed"} => run[r].next = plan[run[r].grant].size
    /\ At(r, "undoing") => run[r].undo <= run[r].next

\* The database and the history agree.
Ledger ==
    \A g \in Grants : \A i \in StepIndex :
        /\ holder[g][i] # NoRun <=> step[g][i] = "consumed"
        /\ step[g][i] # "consumed" => calls[g][i] = 0
        /\ calls[g][i] <= 1

\* What a run owns.
Possession(r) ==
    LET g == run[r].grant IN
    /\ run[r].pc \in Suspended \cup {"completed"} =>
            \A j \in 0 .. (run[r].next - 1) : holder[g][j] = r /\ calls[g][j] = 1
    /\ At(r, "authorised") => holder[g][run[r].next] = r /\ calls[g][run[r].next] = 0
    /\ At(r, "called") => holder[g][run[r].next] = r /\ calls[g][run[r].next] = 1

\* A step that was rolled back belongs to a run that is done calling tools.
UndoneIsOver ==
    \A g \in Grants : \A i \in undone[g] :
        /\ holder[g][i] # NoRun
        /\ run[holder[g][i]].pc \in {"undoing", "failing", "failed", "gone"}
        /\ run[holder[g][i]].grant = g

\* A run that is done with the steps of its plan, or was cut off.
Concluded == {"succeeding", "failing"} \cup Ended

\* A run that reports success has recorded it.
SuccessIsRecorded ==
    \A r \in Runs : run[r].pc \in {"succeeding", "completed"} => plan[run[r].grant].status = "consumed"

Inv ==
    /\ TypeOK /\ GrantsInv /\ PlansHaveSteps
    /\ \A r \in Runs : Position(r) /\ Possession(r)
    /\ Ledger /\ CalledOnceInOrder /\ SingleExecutor

------------------------------------------------------------------------------
(* The rows                                                                *)

LEMMA RowsInit == Init => GrantsInit
BY DEF Init

\* A suspended run works at an index of the step table.
LEMMA AtStep ==
    ASSUME TypeOK, NEW r \in Runs, Position(r), run[r].pc \in Suspended \ {"finish", "succeeding", "failing"}
    PROVE  run[r].grant \in Grants /\ run[r].next \in StepIndex
BY BoundsAssumption DEF TypeOK, GrantsTypeOK, PlanRow, Position, StepIndex, Run

LEMMA RowsStep ==
    ASSUME TypeOK, \A r \in Runs : Position(r), [Next]_vars
    PROVE  [GrantsNext]_grantVars
<1>1. CASE UNCHANGED vars
  BY <1>1 DEF vars, grantVars
<1>2. CASE Pass
  BY <1>2 DEF Pass, GrantsNext
<1>3. ASSUME NEW g \in Grants, Request(g) \/ Approve(g) \/ Cancel(g)
      PROVE  GrantsNext
  BY <1>3, BoundsAssumption DEF Request, Approve, Cancel, GrantsNext
<1>4. ASSUME NEW r \in Runs, NEW g \in Grants, Resume(r, g)
      PROVE  GrantsNext
  BY <1>4 DEF Resume, GrantsNext
<1>5. ASSUME NEW r \in Runs, Issue(r) \/ Spend(r)
      PROVE  [GrantsNext]_grantVars
  <2>1. run[r].grant \in Grants /\ run[r].next \in StepIndex
    BY <1>5, AtStep DEF Issue, Spend, At, Suspended
  <2> QED
    BY <1>5, <2>1 DEF Issue, Spend, GrantsNext, grantVars
<1>6. ASSUME NEW r \in Runs, CloseFailed(r) \/ Finish(r)
      PROVE  [GrantsNext]_grantVars
  <2>1. run[r].grant \in Grants
    BY <1>6 DEF CloseFailed, Finish, Report, At, Position, Suspended
  <2> QED
    BY <1>6, <2>1 DEF CloseFailed, Finish, GrantsNext, grantVars
<1>7. ASSUME NEW r \in Runs,
             \/ StopEarly(r) \/ Begin(r) \/ BlockStep(r) \/ RaiseInStep(r)
             \/ GuardRefuses(r) \/ DenyTool(r) \/ CallTool(r) \/ ToolSucceeds(r)
             \/ Retry(r) \/ ToolFails(r) \/ UndoStep(r) \/ Report(r) \/ TimeOut(r)
      PROVE  UNCHANGED grantVars
  BY <1>7 DEF StopEarly, Begin, BlockStep, RaiseInStep, GuardRefuses, DenyTool, CallTool,
              ToolSucceeds, Retry, ToolFails, UndoStep, Report, TimeOut, grantVars
<1>8. CASE Crash
  BY <1>8 DEF Crash, grantVars
<1> QED
  BY <1>1, <1>2, <1>3, <1>4, <1>5, <1>6, <1>7, <1>8 DEF Next, RunStep

\* What the steps of the rows leave in place: a plan keeps its size and its
\* existence, and spent authority stays spent.
LEMMA RowsFrame ==
    ASSUME GrantsTypeOK, [GrantsNext]_grantVars, NEW g \in Grants
    PROVE  /\ plan[g].status # "none" => plan'[g].status # "none" /\ plan'[g].size = plan[g].size
           /\ \A i \in StepIndex : step[g][i] = "consumed" => step'[g][i] = "consumed"
<1>1. ConsumedSteps(g) \subseteq ConsumedSteps(g)'
  BY SpentStaysSpent
<1>2. ASSUME NEW h \in Grants, NEW from, NEW to, TransitionPlan(h, from, to), plan[g].status # "none"
      PROVE  plan'[g].status # "none" /\ plan'[g].size = plan[g].size
  <2>1. CASE h # g
    BY <1>2, <2>1, TransitionEffect
  <2>2. CASE h = g
    <3>1. CASE plan[g].status \notin Live
      BY <1>2, <2>2, <3>1, TransitionEffect
    <3>2. CASE plan[g].status \in Live
      BY <1>2, <2>2, <3>2 DEF TransitionPlan, Transits, Transitions, LapsesOnTouch, GrantsTypeOK, PlanRow
    <3> QED
      BY <3>1, <3>2
  <2> QED
    BY <2>1, <2>2
<1>3. ASSUME NEW h \in Grants, NEW size, NEW expires, RequestPlanGrant(h, size, expires),
             plan[g].status # "none"
      PROVE  plan'[g] = plan[g]
  BY <1>3 DEF RequestPlanGrant, GrantsTypeOK
<1>4. plan[g].status # "none" => plan'[g].status # "none" /\ plan'[g].size = plan[g].size
  BY <1>2, <1>3, StepKinds DEF Tick, IssueNextStepGrant, ConsumeStep, grantVars
<1> QED
  BY <1>1, <1>4 DEF ConsumedSteps

\* How the row of a plan may change: it is inserted, or it makes a transition,
\* and only a run that finishes asks for "consumed".
LEMMA PlanKinds ==
    ASSUME TypeOK, \A r \in Runs : Position(r), Next
    PROVE  \/ UNCHANGED plan
           \/ \E g \in Grants : Request(g)
           \/ \E g \in Grants : \E from, to :
                /\ TransitionPlan(g, from, to)
                /\ to = "consumed" => \E r \in Runs : Finish(r) /\ run[r].grant = g
<1>1. ASSUME NEW g \in Grants, Approve(g) \/ Cancel(g)
      PROVE  \E from, to : TransitionPlan(g, from, to) /\ to # "consumed"
  BY <1>1 DEF Approve, Cancel, ApprovePlanGrant, CancelPendingGrant
<1>2. ASSUME NEW r \in Runs, NEW g \in Grants, Resume(r, g)
      PROVE  UNCHANGED plan \/ \E from, to : TransitionPlan(g, from, to) /\ to # "consumed"
  BY <1>2 DEF Resume, ResumeApprovedPlan, grantVars
<1>3. ASSUME NEW r \in Runs, CloseFailed(r) \/ Finish(r)
      PROVE  run[r].grant \in Grants
  BY <1>3 DEF CloseFailed, Finish, Report, At, Position, Suspended
<1>4. ASSUME NEW r \in Runs, CloseFailed(r)
      PROVE  \E from, to : TransitionPlan(run[r].grant, from, to) /\ to # "consumed"
  BY <1>4 DEF CloseFailed, FailPlan
<1>5. ASSUME NEW r \in Runs, Finish(r)
      PROVE  UNCHANGED plan \/ \E from, to : TransitionPlan(run[r].grant, from, to)
  BY <1>5 DEF Finish, CompletePlan, grantVars
<1>6. ASSUME NEW r \in Runs, Issue(r) \/ Spend(r)
      PROVE  UNCHANGED plan
  BY <1>6 DEF Issue, Spend, IssueNextStepGrant, ConsumeStep, grantVars
<1>7. ASSUME NEW r \in Runs,
             \/ StopEarly(r) \/ Begin(r) \/ BlockStep(r) \/ RaiseInStep(r)
             \/ GuardRefuses(r) \/ DenyTool(r) \/ CallTool(r) \/ ToolSucceeds(r)
             \/ Retry(r) \/ ToolFails(r) \/ UndoStep(r) \/ Report(r) \/ TimeOut(r)
      PROVE  UNCHANGED plan
  BY <1>7 DEF StopEarly, Begin, BlockStep, RaiseInStep, GuardRefuses, DenyTool, CallTool,
              ToolSucceeds, Retry, ToolFails, UndoStep, Report, TimeOut, grantVars
<1>8. Pass \/ Crash => UNCHANGED plan
  BY DEF Pass, Tick, Crash, grantVars
<1> QED
  BY <1>1, <1>2, <1>3, <1>4, <1>5, <1>6, <1>7, <1>8 DEF Next, RunStep

LEMMA PlansHaveStepsStep == Inv /\ [Next]_vars => PlansHaveSteps'
<1> SUFFICES ASSUME Inv, [Next]_vars, NEW g \in Grants, plan'[g].status # "none"
             PROVE  plan'[g].size > 0
  BY DEF PlansHaveSteps
<1>1. [GrantsNext]_grantVars /\ GrantsTypeOK
  BY RowsStep DEF Inv, TypeOK
<1>2. CASE plan[g].status # "none"
  BY <1>1, <1>2, RowsFrame DEF Inv, PlansHaveSteps
<1>3. CASE plan[g].status = "none"
  <2>1. ASSUME NEW h \in Grants, NEW from, NEW to, TransitionPlan(h, from, to)
        PROVE  plan'[g] = plan[g]
    BY <1>1, <1>3, <2>1, TransitionEffect DEF Live
  <2>2. ASSUME NEW h \in Grants, Request(h)
        PROVE  plan'[g].size > 0
    BY <1>1, <1>3, <2>2, BoundsAssumption DEF Request, RequestPlanGrant, GrantsTypeOK
  <2> QED
    BY <1>1, <1>3, <2>1, <2>2, PlanKinds DEF Inv, vars, grantVars
<1> QED
  BY <1>2, <1>3

------------------------------------------------------------------------------
(* The runs                                                                *)

LEMMA UpdateType ==
    ASSUME NEW A, NEW B, NEW C, NEW f \in [A -> [B -> C]], NEW a \in A, NEW b \in B, NEW c \in C
    PROVE  [f EXCEPT ![a][b] = c] \in [A -> [B -> C]]
OBVIOUS

LEMMA TypeRuns == Inv /\ [Next]_vars => TypeOK'
<1> SUFFICES ASSUME Inv, [Next]_vars
             PROVE  TypeOK'
  OBVIOUS
<1>1. GrantsTypeOK'
  BY RowsStep, TypeStep DEF Inv, TypeOK
<1>2. TypeOK /\ run \in [Runs -> Run]
  BY DEF Inv, TypeOK
<1>3. CASE UNCHANGED <<run, history>>
  BY <1>1, <1>2, <1>3 DEF TypeOK, history
<1>4. ASSUME NEW r \in Runs, NEW g \in Grants, Resume(r, g)
      PROVE  TypeOK'
  <2>1. run'[r] \in Run /\ run' = [run EXCEPT ![r] = run'[r]]
    BY <1>2, <1>4 DEF Resume, Run, Suspended, Ended
  <2> QED
    BY <1>1, <1>2, <1>4, <2>1 DEF Resume, TypeOK, history
<1>5. ASSUME NEW r \in Runs, RunStep(r) \/ TimeOut(r)
      PROVE  TypeOK'
  <2>1. run[r].pc \in Suspended
    BY <1>5 DEF RunStep, StopEarly, Begin, BlockStep, RaiseInStep, Issue, GuardRefuses, Spend, DenyTool,
                CallTool, ToolSucceeds, Retry, ToolFails, UndoStep, CloseFailed, Finish, Report, TimeOut, At, Suspended
  <2>2. /\ run[r] \in Run /\ run[r].grant \in Grants
        /\ run[r].pc \notin {"finish", "succeeding", "failing"} => run[r].next \in StepIndex /\ run[r].next + 1 \in 0 .. MaxSteps
    BY <1>2, <2>1, AtStep, BoundsAssumption DEF Inv, Position, StepIndex
  <2>3. run' \in [Runs -> Run]
    BY <1>2, <1>5, <2>1, <2>2, BoundsAssumption, AttemptsAssumption
       DEF RunStep, StopEarly, Begin, BlockStep, RaiseInStep, Issue, GuardRefuses, Spend, DenyTool,
           CallTool, ToolSucceeds, Retry, ToolFails, UndoStep, CloseFailed, Finish, Report, TimeOut,
           FailStep, Goto, Run, Suspended, Ended, At
  <2>4. calls' \in [Grants -> [StepIndex -> Nat]]
    <3>1. CASE CallTool(r)
      <4>1. run[r].next \in StepIndex
        BY <2>2, <3>1 DEF CallTool, At
      <4> QED
        BY <1>2, <2>2, <3>1, <4>1 DEF CallTool, TypeOK
    <3> QED
      BY <1>2, <1>5, <3>1
         DEF TypeOK, RunStep, StopEarly, Begin, BlockStep, RaiseInStep, Issue, GuardRefuses, Spend, DenyTool,
             ToolSucceeds, Retry, ToolFails, UndoStep, CloseFailed, Finish, Report, TimeOut, history
  <2>5. holder' \in [Grants -> [StepIndex -> Runs \cup {NoRun}]]
    <3>1. CASE Spend(r)
      <4>1. run[r].next \in StepIndex
        BY <2>2, <3>1 DEF Spend, At
      <4>2. holder' = [holder EXCEPT ![run[r].grant][run[r].next] = r] \/ UNCHANGED holder
        BY <3>1 DEF Spend
      <4>3. holder \in [Grants -> [StepIndex -> Runs \cup {NoRun}]] /\ r \in Runs \cup {NoRun}
        BY <1>2 DEF TypeOK
      <4>4. [holder EXCEPT ![run[r].grant][run[r].next] = r] \in [Grants -> [StepIndex -> Runs \cup {NoRun}]]
        BY <2>2, <4>1, <4>3, UpdateType
      <4> QED
        BY <4>2, <4>3, <4>4
    <3> QED
      BY <1>2, <1>5, <3>1
         DEF TypeOK, RunStep, StopEarly, Begin, BlockStep, RaiseInStep, Issue, GuardRefuses, DenyTool,
             CallTool, ToolSucceeds, Retry, ToolFails, UndoStep, CloseFailed, Finish, Report, TimeOut, history
  <2>6. undone' \in [Grants -> SUBSET StepIndex]
    <3>1. CASE UndoStep(r)
      <4>1. run[r].undo - 1 \in StepIndex
        BY <1>2, <2>2, <3>1, BoundsAssumption DEF UndoStep, Run, StepIndex
      <4> QED
        BY <1>2, <2>2, <3>1, <4>1 DEF UndoStep, TypeOK
    <3> QED
      BY <1>2, <1>5, <3>1
         DEF TypeOK, RunStep, StopEarly, Begin, BlockStep, RaiseInStep, Issue, GuardRefuses, Spend, DenyTool,
             CallTool, ToolSucceeds, Retry, ToolFails, CloseFailed, Finish, Report, TimeOut, history
  <2> QED
    BY <1>1, <2>3, <2>4, <2>5, <2>6 DEF TypeOK
<1>6. CASE Crash
  <2>1. \A r \in Runs : run'[r] \in Run
    BY <1>2, <1>6 DEF Crash, Run, Ended
  <2> QED
    BY <1>1, <1>2, <1>6, <2>1 DEF Crash, TypeOK, history
<1> QED
  BY <1>3, <1>4, <1>5, <1>6 DEF Next, Request, Approve, Cancel, Pass, vars, history

\* A step moves one run, or ends the suspended ones, or moves none.
LEMMA WhoMoves ==
    ASSUME TypeOK, [Next]_vars, NEW s \in Runs
    PROVE  \/ run'[s] = run[s]
           \/ run[s].pc \in Suspended /\ run'[s] = [run[s] EXCEPT !.pc = "gone"]
           \/ RunStep(s)
           \/ \E g \in Grants : Exists(g) /\ Resume(s, g)
<1>1. ASSUME NEW r \in Runs, RunStep(r), r # s
      PROVE  run'[s] = run[s]
  BY <1>1 DEF TypeOK, RunStep, StopEarly, Begin, BlockStep, RaiseInStep, Issue, GuardRefuses, Spend, DenyTool,
              CallTool, ToolSucceeds, Retry, ToolFails, UndoStep, CloseFailed, Finish, Report, FailStep, Goto
<1>2. ASSUME NEW r \in Runs, NEW g \in Grants, Resume(r, g), r # s
      PROVE  run'[s] = run[s]
  BY <1>2 DEF TypeOK, Resume
<1>3. ASSUME NEW r \in Runs, TimeOut(r)
      PROVE  \/ run'[s] = run[s]
             \/ run[s].pc \in Suspended /\ run'[s] = [run[s] EXCEPT !.pc = "gone"]
  BY <1>3 DEF TypeOK, TimeOut, Goto
<1>4. CASE Crash
  BY <1>4 DEF TypeOK, Crash
<1>5. UNCHANGED run => run'[s] = run[s]
  OBVIOUS
<1> QED
  BY <1>1, <1>2, <1>3, <1>4, <1>5 DEF Next, Pass, Request, Approve, Cancel, vars

LEMMA PositionStep ==
    ASSUME Inv, [Next]_vars, NEW s \in Runs
    PROVE  Position(s)'
<1>1. /\ TypeOK /\ Position(s) /\ run[s] \in Run
      /\ run[s].grant \in Grants => plan[run[s].grant] \in PlanRow
  BY DEF Inv, TypeOK, GrantsTypeOK
<1>2. \A g \in Grants : plan[g].status # "none" => plan'[g].status # "none" /\ plan'[g].size = plan[g].size
  BY RowsStep, RowsFrame DEF Inv, TypeOK
<1>3. CASE run'[s] = run[s]
  BY <1>1, <1>2, <1>3 DEF Position, At, Suspended, Run
<1>4. CASE run[s].pc \in Suspended /\ run'[s] = [run[s] EXCEPT !.pc = "gone"]
  BY <1>1, <1>4 DEF Position, At, Suspended, Run
<1>5. ASSUME NEW g \in Grants, Exists(g), Resume(s, g)
      PROVE  Position(s)'
  <2>1. run'[s] = [run[s] EXCEPT !.grant = g, !.pc = IF Resumable(g) THEN "start" ELSE "refused"]
    BY <1>1, <1>5 DEF Resume, TypeOK
  <2>2. run[s].next = 0 /\ plan'[g].status # "none" /\ plan'[g].size > 0
    BY <1>1, <1>2, <1>5 DEF Resume, Position, Exists, At, Inv, PlansHaveSteps
  <2> QED
    BY <1>1, <1>5, <2>1, <2>2 DEF Position, At, Suspended, Run
<1>6. CASE RunStep(s)
  <2>1. run[s].grant \in Grants /\ plan[run[s].grant].status # "none" /\ plan[run[s].grant].size \in Nat
    BY <1>1, <1>6, BoundsAssumption
       DEF RunStep, StopEarly, Begin, BlockStep, RaiseInStep, Issue, GuardRefuses, Spend, DenyTool,
           CallTool, ToolSucceeds, Retry, ToolFails, UndoStep, CloseFailed, Finish, Report, At, Position, Suspended, PlanRow
  <2>2. plan'[run[s].grant].status # "none" /\ plan'[run[s].grant].size = plan[run[s].grant].size
    BY <1>2, <2>1
  <2>3. CASE StopEarly(s) \/ Begin(s) \/ RaiseInStep(s) \/ Issue(s) \/ Spend(s) \/ CallTool(s) \/ Retry(s)
    BY <1>1, <2>1, <2>2, <2>3 DEF TypeOK, StopEarly, Begin, RaiseInStep, Issue, Spend, CallTool, Retry,
        FailStep, Goto, At, Position, Suspended, Run
  <2>4. CASE BlockStep(s) \/ GuardRefuses(s) \/ DenyTool(s) \/ ToolFails(s)
    BY <1>1, <2>1, <2>2, <2>4 DEF TypeOK, BlockStep, GuardRefuses, DenyTool, ToolFails,
        FailStep, At, Position, Suspended, Run
  <2>5. CASE ToolSucceeds(s)
    BY <1>1, <2>1, <2>2, <2>5 DEF TypeOK, ToolSucceeds, At, Position, Suspended, Run
  <2>6. CASE UndoStep(s)
    BY <1>1, <2>1, <2>2, <2>6 DEF TypeOK, UndoStep, At, Position, Suspended, Run
  <2>7. CASE CloseFailed(s) \/ Finish(s) \/ Report(s)
    <3>1. PICK pc \in {"succeeding", "failing", "completed", "failed"} : run'[s] = [run[s] EXCEPT !.pc = pc]
      BY <1>1, <2>7 DEF TypeOK, CloseFailed, Finish, Report, Goto
    <3>2. pc \in {"succeeding", "completed"} => run[s].pc \in {"finish", "succeeding"}
      BY <1>1, <2>7, <3>1 DEF CloseFailed, Finish, Report, Goto, At, TypeOK, Run
    <3> QED
      BY <1>1, <2>1, <2>2, <3>1, <3>2 DEF At, Position, Suspended, Run
  <2> QED
    BY <1>6, <2>3, <2>4, <2>5, <2>6, <2>7 DEF RunStep
<1> QED
  BY <1>1, <1>3, <1>4, <1>5, <1>6, WhoMoves

------------------------------------------------------------------------------
(* Authority and calls                                                     *)

\* A run spends the step grant it holds.
Spends(r) ==
    LET g == run[r].grant  i == run[r].next IN
    /\ At(r, "issued") /\ Consumable(g, i)
    /\ run' = [run EXCEPT ![r].pc = "authorised"]
    /\ step' = [step EXCEPT ![g][i] = "consumed"]
    /\ holder' = [holder EXCEPT ![g][i] = r]
    /\ UNCHANGED calls

\* A run obtains the next step grant.
Issues(r) ==
    LET g == run[r].grant  i == run[r].next IN
    /\ At(r, "loop") /\ Issuable(g, i)
    /\ run' = [run EXCEPT ![r].pc = "issued", ![r].tries = 0]
    /\ step' = [step EXCEPT ![g][i] = "approved"]
    /\ UNCHANGED <<calls, holder>>

\* Only these touch the step rows, the holders and the calls.
LEMMA LedgerKinds ==
    ASSUME TypeOK, \A r \in Runs : Position(r), [Next]_vars
    PROVE  \/ UNCHANGED <<step, calls, holder>>
           \/ \E r \in Runs : Issues(r) \/ Spends(r) \/ (CallTool(r) /\ UNCHANGED step)
<1>1. ASSUME NEW g \in Grants, \/ Request(g) \/ Approve(g) \/ Cancel(g)
                               \/ \E r \in Runs : Resume(r, g)
      PROVE  UNCHANGED <<step, calls, holder>>
  <2>1. ASSUME NEW from, NEW to, TransitionPlan(g, from, to)
        PROVE  UNCHANGED step
    BY <2>1 DEF TransitionPlan
  <2> QED
    BY <1>1, <2>1 DEF Request, RequestPlanGrant, Approve, ApprovePlanGrant, Cancel, CancelPendingGrant,
        Resume, ResumeApprovedPlan, grantVars, history
<1>2. ASSUME NEW r \in Runs, CloseFailed(r) \/ Finish(r)
      PROVE  UNCHANGED <<step, calls, holder>>
  BY <1>2 DEF CloseFailed, FailPlan, Finish, CompletePlan, TransitionPlan, grantVars, history
<1>3. ASSUME NEW r \in Runs, Issue(r)
      PROVE  Issues(r) \/ UNCHANGED <<step, calls, holder>>
  BY <1>3 DEF Issue, IssueNextStepGrant, Issues, grantVars, history
<1>4. ASSUME NEW r \in Runs, Spend(r)
      PROVE  Spends(r) \/ UNCHANGED <<step, calls, holder>>
  BY <1>4 DEF Spend, ConsumeStep, Spends, Goto, grantVars
<1>5. ASSUME NEW r \in Runs,
             \/ StopEarly(r) \/ Begin(r) \/ BlockStep(r) \/ RaiseInStep(r)
             \/ GuardRefuses(r) \/ DenyTool(r) \/ ToolSucceeds(r)
             \/ Retry(r) \/ ToolFails(r) \/ UndoStep(r) \/ Report(r) \/ TimeOut(r)
      PROVE  UNCHANGED <<step, calls, holder>>
  BY <1>5 DEF StopEarly, Begin, BlockStep, RaiseInStep, GuardRefuses, DenyTool,
              ToolSucceeds, Retry, ToolFails, UndoStep, Report, TimeOut, grantVars, history
<1>6. ASSUME NEW r \in Runs, CallTool(r)
      PROVE  UNCHANGED step
  BY <1>6 DEF CallTool, grantVars
<1>7. Pass \/ Crash \/ UNCHANGED vars => UNCHANGED <<step, calls, holder>>
  BY DEF Pass, Tick, Crash, grantVars, history, vars
<1> QED
  BY <1>1, <1>2, <1>3, <1>4, <1>5, <1>6, <1>7 DEF Next, RunStep

LEMMA LedgerStep ==
    ASSUME Inv, [Next]_vars
    PROVE  Ledger' /\ CalledOnceInOrder' /\ SingleExecutor'
<1>1. TypeOK /\ GrantsTypeOK /\ Ledger /\ CalledOnceInOrder /\ SingleExecutor /\ OneStepAhead
  BY DEF Inv, TypeOK, GrantsInv
<1>2. CASE UNCHANGED <<step, calls, holder>>
  BY <1>1, <1>2 DEF Ledger, CalledOnceInOrder, SingleExecutor
<1>3. ASSUME NEW r \in Runs, Issues(r)
      PROVE  Ledger' /\ CalledOnceInOrder' /\ SingleExecutor'
  <2>1. run[r].grant \in Grants /\ run[r].next \in StepIndex
    BY <1>3, AtStep DEF Issues, At, Suspended, Inv
  <2> QED
    BY <1>1, <1>3, <2>1 DEF Issues, Issuable, Ledger, CalledOnceInOrder, SingleExecutor, GrantsTypeOK
<1>4. ASSUME NEW r \in Runs, Spends(r)
      PROVE  Ledger' /\ CalledOnceInOrder' /\ SingleExecutor'
  <2> DEFINE g == run[r].grant  i == run[r].next
  <2>1. g \in Grants /\ i \in StepIndex
    BY <1>4, AtStep DEF Spends, At, Suspended, Inv
  <2>2. step[g][i] = "approved" /\ r # NoRun
    BY <1>4, NoRunAssumption DEF Spends, Consumable
  <2>3. Ledger'
    BY <1>1, <1>4, <2>1, <2>2 DEF Spends, Ledger, TypeOK, GrantsTypeOK
  <2>4. CalledOnceInOrder'
    BY <1>1, <1>4 DEF Spends, CalledOnceInOrder
  <2>5. ASSUME NEW k \in StepIndex, k # i, holder[g][k] # NoRun
        PROVE  holder[g][k] = r
    <3>1. step[g][k] = "consumed"
      BY <1>1, <2>1, <2>5 DEF Ledger
    <3>2. k < i
      BY <1>1, <2>1, <2>2, <2>5, <3>1 DEF OneStepAhead, StepIndex
    <3>3. k \in 0 .. (run[r].next - 1)
      BY <2>1, <2>5, <3>2, BoundsAssumption DEF StepIndex
    <3>4. \A j \in 0 .. (run[r].next - 1) : holder[run[r].grant][j] = r
      BY <1>4 DEF Inv, Possession, Spends, At, Suspended
    <3> QED
      BY <3>3, <3>4
  <2>6. SingleExecutor'
    BY <1>1, <1>4, <2>1, <2>5 DEF Spends, SingleExecutor, TypeOK
  <2> QED
    BY <2>3, <2>4, <2>6
<1>5. ASSUME NEW r \in Runs, CallTool(r), UNCHANGED step
      PROVE  Ledger' /\ CalledOnceInOrder' /\ SingleExecutor'
  <2> DEFINE g == run[r].grant  i == run[r].next
  <2>1. g \in Grants /\ i \in StepIndex
    BY <1>5, AtStep DEF CallTool, At, Suspended, Inv
  <2>2. /\ holder[g][i] = r /\ calls[g][i] = 0
        /\ \A j \in 0 .. (i - 1) : calls[g][j] = 1
    BY <1>5 DEF CallTool, Inv, Possession, At, Suspended
  <2>3. calls' = [calls EXCEPT ![g][i] = 1] /\ UNCHANGED holder
    BY <1>1, <1>5, <2>1, <2>2 DEF CallTool, TypeOK
  <2>4. Ledger'
    BY <1>1, <1>5, <2>1, <2>2, <2>3, NoRunAssumption DEF Ledger, TypeOK
  <2>5. CalledOnceInOrder'
    BY <1>1, <2>1, <2>2, <2>3 DEF CalledOnceInOrder, TypeOK, StepIndex
  <2>6. SingleExecutor'
    BY <1>1, <2>3 DEF SingleExecutor
  <2> QED
    BY <2>4, <2>5, <2>6
<1> QED
  BY <1>2, <1>3, <1>4, <1>5, LedgerKinds DEF Inv

\* What a run owns stays its own, and only the run itself calls the tool of a
\* step it owns.
LEMMA OwnedFrame ==
    ASSUME Inv, [Next]_vars, NEW s \in Runs, NEW g \in Grants, NEW j \in StepIndex, holder[g][j] = s
    PROVE  /\ holder'[g][j] = s
           /\ calls[g][j] = 1 => calls'[g][j] = 1
           /\ calls'[g][j] # calls[g][j] => CallTool(s) /\ run[s].grant = g /\ run[s].next = j
<1>1. TypeOK /\ Ledger
  BY DEF Inv
<1>2. CASE UNCHANGED <<step, calls, holder>>
  BY <1>2
<1>3. ASSUME NEW r \in Runs, Issues(r)
      PROVE  holder'[g][j] = s /\ calls'[g][j] = calls[g][j]
  BY <1>3 DEF Issues
<1>4. ASSUME NEW r \in Runs, Spends(r)
      PROVE  holder'[g][j] = s /\ calls'[g][j] = calls[g][j]
  <2>1. run[r].grant \in Grants /\ run[r].next \in StepIndex
    BY <1>4, AtStep DEF Spends, At, Suspended, Inv
  <2>2. step[g][j] = "consumed"
    BY <1>1, NoRunAssumption DEF Ledger
  <2>3. ~(run[r].grant = g /\ run[r].next = j)
    BY <1>4, <2>2 DEF Spends, Consumable
  <2> QED
    BY <1>1, <1>4, <2>1, <2>3 DEF Spends, TypeOK
<1>5. ASSUME NEW r \in Runs, CallTool(r)
      PROVE  /\ holder'[g][j] = s
             /\ calls[g][j] = 1 => calls'[g][j] = 1
             /\ calls'[g][j] # calls[g][j] => CallTool(s) /\ run[s].grant = g /\ run[s].next = j
  <2>1. run[r].grant \in Grants /\ run[r].next \in StepIndex
    BY <1>5, AtStep DEF CallTool, At, Suspended, Inv
  <2>2. holder[run[r].grant][run[r].next] = r /\ calls[run[r].grant][run[r].next] = 0
    BY <1>5 DEF CallTool, Inv, Possession
  <2>3. CASE run[r].grant = g /\ run[r].next = j
    <3>1. r = s
      BY <2>2, <2>3
    <3>2. UNCHANGED holder
      BY <1>5 DEF CallTool
    <3> QED
      BY <1>5, <2>2, <2>3, <3>1, <3>2
  <2>4. CASE ~(run[r].grant = g /\ run[r].next = j)
    BY <1>1, <1>5, <2>1, <2>4 DEF CallTool, TypeOK
  <2> QED
    BY <2>3, <2>4
<1> QED
  BY <1>2, <1>3, <1>4, <1>5, LedgerKinds DEF Inv

LEMMA PossessionStep ==
    ASSUME Inv, [Next]_vars, NEW s \in Runs
    PROVE  Possession(s)'
<1> DEFINE g == run[s].grant  n == run[s].next
<1>1. TypeOK /\ Position(s) /\ Possession(s) /\ run[s] \in Run
  BY DEF Inv, TypeOK
<1>2. ASSUME run[s].pc \in Suspended \cup {"completed"}, NEW j \in 0 .. (n - 1)
      PROVE  /\ g \in Grants /\ j \in StepIndex /\ holder[g][j] = s /\ calls[g][j] = 1
             /\ holder'[g][j] = s /\ calls'[g][j] = 1
  <2>1. g \in Grants /\ j \in StepIndex
    BY <1>1, <1>2, BoundsAssumption DEF Position, Run, StepIndex
  <2>2. holder[g][j] = s /\ calls[g][j] = 1
    BY <1>1, <1>2 DEF Possession
  <2> QED
    BY <2>1, <2>2, OwnedFrame
<1>3. CASE run'[s] = run[s]
  <2>1. CASE At(s, "authorised") \/ At(s, "called")
    <3>1. g \in Grants /\ n \in StepIndex /\ holder[g][n] = s
      BY <1>1, <2>1, AtStep DEF At, Suspended, Possession
    <3>2. ~CallTool(s)
      BY <1>1, <1>3 DEF CallTool, Goto, At, TypeOK, Run
    <3>3. holder'[g][n] = s /\ calls'[g][n] = calls[g][n]
      BY <3>1, <3>2, OwnedFrame
    <3> QED
      BY <1>1, <1>2, <1>3, <3>3 DEF Possession, At
  <2> QED
    BY <1>2, <1>3, <2>1 DEF Possession, At
<1>4. CASE run[s].pc \in Suspended /\ run'[s] = [run[s] EXCEPT !.pc = "gone"]
  BY <1>1, <1>4 DEF Possession, At, Suspended, Run
<1>5. ASSUME NEW h \in Grants, Exists(h), Resume(s, h)
      PROVE  Possession(s)'
  BY <1>1, <1>5 DEF Resume, Possession, Position, At, Suspended, Run, TypeOK
<1>6. ASSUME run[s].pc \in Suspended, run'[s].grant = g, run'[s].next = n,
             run'[s].pc \notin {"authorised", "called"}
      PROVE  Possession(s)'
  BY <1>2, <1>6 DEF Possession, At
<1>7. CASE RunStep(s)
  <2>1. CASE Spend(s)
    <3>1. g \in Grants /\ n \in StepIndex
      BY <1>1, <2>1, AtStep DEF Spend, At, Suspended
    <3>2. CASE Consumable(g, n)
      <4>1. calls[g][n] = 0
        BY <3>1, <3>2 DEF Inv, Ledger, Consumable
      <4>2. /\ run[s].pc = "issued" /\ run'[s] = [run[s] EXCEPT !.pc = "authorised"]
            /\ UNCHANGED calls
        BY <1>1, <2>1, <3>2 DEF Spend, Goto, At, TypeOK
      <4>3. holder'[g][n] = s
        BY <1>1, <2>1, <3>1, <3>2 DEF Spend, TypeOK
      <4> QED
        BY <1>1, <1>2, <4>1, <4>2, <4>3 DEF Possession, At, Suspended, Run
    <3>3. CASE ~Consumable(g, n)
      BY <1>1, <1>6, <2>1, <3>3 DEF Spend, ConsumeStep, FailStep, At, Suspended, TypeOK, Run
    <3> QED
      BY <3>2, <3>3
  <2>2. CASE CallTool(s)
    <3>1. g \in Grants /\ n \in StepIndex /\ holder[g][n] = s /\ calls[g][n] = 0
      BY <1>1, <2>2, AtStep DEF CallTool, At, Suspended, Possession
    <3> QED
      BY <1>1, <1>2, <2>2, <3>1 DEF CallTool, Goto, Possession, At, Suspended, TypeOK, Run
  <2>3. CASE ToolSucceeds(s)
    <3>1. g \in Grants /\ n \in StepIndex /\ holder[g][n] = s /\ calls[g][n] = 1
      BY <1>1, <2>3, AtStep DEF ToolSucceeds, At, Suspended, Possession
    <3>2. \A j \in 0 .. (n + 1 - 1) : holder'[g][j] = s /\ calls'[g][j] = 1
      BY <1>1, <1>2, <2>3, <3>1 DEF ToolSucceeds, history, At, Suspended, StepIndex
    <3> QED
      BY <1>1, <2>3, <3>2 DEF ToolSucceeds, Possession, At, Suspended, TypeOK, Run
  <2>4. CASE StopEarly(s) \/ Begin(s) \/ RaiseInStep(s) \/ Issue(s) \/ Retry(s)
    BY <1>1, <1>6, <2>4 DEF StopEarly, Begin, RaiseInStep, Issue, Retry,
        FailStep, Goto, At, Suspended, TypeOK, Run
  <2>5. CASE BlockStep(s) \/ GuardRefuses(s) \/ DenyTool(s) \/ ToolFails(s)
    BY <1>1, <1>6, <2>5 DEF BlockStep, GuardRefuses, DenyTool, ToolFails,
        FailStep, At, Suspended, TypeOK, Run
  <2>6. CASE UndoStep(s) \/ CloseFailed(s) \/ Finish(s) \/ Report(s)
    BY <1>1, <1>6, <2>6 DEF UndoStep, CloseFailed, Finish, Report, Goto, At, Suspended, TypeOK, Run
  <2> QED
    BY <1>7, <2>1, <2>2, <2>3, <2>4, <2>5, <2>6 DEF RunStep
<1> QED
  BY <1>1, <1>3, <1>4, <1>5, <1>7, WhoMoves

LEMMA InvInit0 == Init => Inv
<1> SUFFICES ASSUME Init
             PROVE  Inv
  OBVIOUS
<1>1. GrantsInv /\ GrantsTypeOK
  BY RowsInit, InvInit DEF GrantsInv
<1>2. TypeOK
  BY <1>1, AttemptsAssumption, BoundsAssumption DEF Init, TypeOK, Run, StepIndex, Suspended
<1>3. PlansHaveSteps
  BY DEF Init, GrantsInit, PlansHaveSteps
<1>4. \A r \in Runs : Position(r) /\ Possession(r)
  BY DEF Init, Position, Possession, At, Suspended
<1>5. Ledger /\ CalledOnceInOrder /\ SingleExecutor
  BY DEF Init, GrantsInit, Ledger, CalledOnceInOrder, SingleExecutor
<1> QED
  BY <1>1, <1>2, <1>3, <1>4, <1>5 DEF Inv

LEMMA InvNext == Inv /\ [Next]_vars => Inv'
<1> SUFFICES ASSUME Inv, [Next]_vars
             PROVE  Inv'
  OBVIOUS
<1>1. GrantsInv'
  BY RowsStep, InvStep DEF Inv
<1>2. TypeOK' /\ PlansHaveSteps'
  BY TypeRuns, PlansHaveStepsStep
<1>3. \A r \in Runs : Position(r)' /\ Possession(r)'
  BY PositionStep, PossessionStep
<1> QED
  BY <1>1, <1>2, <1>3, LedgerStep DEF Inv

LEMMA Invariance == Spec => []Inv
BY InvInit0, InvNext, PTL DEF Spec

\* The rows, runs and histories keep their types.
THEOREM ExecutionTypeCorrect == Spec => []TypeOK
<1>1. Inv => TypeOK
  BY DEF Inv
<1> QED
  BY <1>1, Invariance, PTL

\* Whatever runs there are and however they interleave, retry, time out or
\* die, the rows behave as ExecutionGrants says: the execution of plans
\* implements the specification of the grants.
THEOREM ExecutionUsesGrants == Spec => GrantsSpec
<1>1. Inv /\ [Next]_vars => [GrantsNext]_grantVars
  BY RowsStep DEF Inv
<1> QED
  BY <1>1, RowsInit, Invariance, PTL DEF Spec, GrantsSpec

\* For any number of concurrent or repeated resumes and any retry bound, the
\* tool of a step is called at most once under a grant, after those before it
\* (issue_next_step_grant, _consume_execution_grant, RetryHandler.execute).
THEOREM AtMostOneCall == Spec => []CalledOnceInOrder
<1>1. Inv => CalledOnceInOrder
  BY DEF Inv
<1> QED
  BY <1>1, Invariance, PTL

\* Nothing keeps a second resume out of the pipeline, yet the order of the
\* step grants gives all the authority of a plan to one run.
THEOREM OneRunExecutes == Spec => []SingleExecutor
<1>1. Inv => SingleExecutor
  BY DEF Inv
<1> QED
  BY <1>1, Invariance, PTL

------------------------------------------------------------------------------
(* Rollback and completion                                                 *)

\* A run at the end of its life or out of the loop calls no tool any more.
LEMMA OverStaysOver ==
    ASSUME Inv, [Next]_vars, NEW s \in Runs, run[s].pc \in {"undoing", "failing", "failed", "gone"}
    PROVE  run'[s].pc \in {"undoing", "failing", "failed", "gone"} /\ run'[s].grant = run[s].grant
<1>1. run[s] \in Run /\ TypeOK
  BY DEF Inv, TypeOK
<1>2. ASSUME RunStep(s)
      PROVE  UndoStep(s) \/ CloseFailed(s) \/ Report(s)
  BY <1>2 DEF RunStep, StopEarly, Begin, BlockStep, RaiseInStep, Issue, GuardRefuses, Spend, DenyTool,
      CallTool, ToolSucceeds, Retry, ToolFails, Finish, At
<1>3. ASSUME UndoStep(s) \/ CloseFailed(s) \/ Report(s)
      PROVE  run'[s].pc \in {"undoing", "failing", "failed", "gone"} /\ run'[s].grant = run[s].grant
  BY <1>1, <1>3 DEF UndoStep, CloseFailed, Report, Goto, At, TypeOK, Run
<1>4. ~\E g \in Grants : Resume(s, g)
  BY DEF Resume, At
<1> QED
  BY <1>1, <1>2, <1>3, <1>4, WhoMoves DEF Run

\* Only a rollback adds to undone, and only a step that the run completed.
LEMMA UndoneKinds ==
    ASSUME Inv, [Next]_vars, NEW g \in Grants, NEW i \in undone'[g], i \notin undone[g]
    PROVE  \E r \in Runs : /\ UndoStep(r) /\ run[r].grant = g /\ i = run[r].undo - 1
                           /\ i \in 0 .. (run[r].next - 1)
                           /\ holder[g][i] = r
<1>1. TypeOK
  BY DEF Inv
<1>2. ASSUME ~\E r \in Runs : UndoStep(r)
      PROVE  UNCHANGED undone
  BY <1>2 DEF Next, RunStep, Pass, Request, Approve, Cancel, Resume, StopEarly, Begin, BlockStep,
      RaiseInStep, Issue, GuardRefuses, Spend, DenyTool, CallTool, ToolSucceeds, Retry, ToolFails,
      CloseFailed, Finish, Report, TimeOut, Crash, history, vars
<1>3. PICK r \in Runs : UndoStep(r)
  BY <1>2
<1>4. run[r].grant \in Grants /\ Position(r) /\ Possession(r) /\ run[r] \in Run
  BY <1>1, <1>3, AtStep DEF Inv, UndoStep, At, Suspended, TypeOK
<1>5. run[r].grant = g /\ i = run[r].undo - 1
  BY <1>1, <1>3, <1>4 DEF UndoStep, TypeOK
<1>6. i \in 0 .. (run[r].next - 1)
  BY <1>3, <1>4, <1>5, BoundsAssumption DEF UndoStep, Position, Run
<1>7. holder[g][i] = r
  BY <1>3, <1>4, <1>5, <1>6 DEF Possession, UndoStep, At, Suspended
<1> QED
  BY <1>3, <1>5, <1>6, <1>7

LEMMA UndoneStep == Inv /\ UndoneIsOver /\ [Next]_vars => UndoneIsOver'
<1> SUFFICES ASSUME Inv, UndoneIsOver, [Next]_vars, NEW g \in Grants, NEW i \in undone'[g]
             PROVE  /\ holder'[g][i] # NoRun
                    /\ run'[holder'[g][i]].pc \in {"undoing", "failing", "failed", "gone"}
                    /\ run'[holder'[g][i]].grant = g
  BY DEF UndoneIsOver
<1>1. TypeOK /\ TypeOK'
  BY TypeRuns DEF Inv
<1>2. i \in StepIndex
  BY <1>1 DEF TypeOK
<1>3. PICK h \in Runs : holder[g][i] = h /\ run[h].pc \in {"undoing", "failing", "failed", "gone"} /\ run[h].grant = g
  <2>1. CASE i \in undone[g]
    BY <1>1, <1>2, <2>1 DEF UndoneIsOver, TypeOK
  <2>2. CASE i \notin undone[g]
    BY <2>2, UndoneKinds DEF UndoStep, At
  <2> QED
    BY <2>1, <2>2
<1>4. holder'[g][i] = h
  BY <1>2, <1>3, OwnedFrame
<1> QED
  BY <1>3, <1>4, NoRunAssumption, OverStaysOver

LEMMA UndoneInvariance == Spec => [](Inv /\ UndoneIsOver)
<1>1. Init => UndoneIsOver
  BY DEF Init, UndoneIsOver
<1> QED
  BY <1>1, InvInit0, InvNext, UndoneStep, PTL DEF Spec

\* Once a step of a plan has been rolled back no run is about to call, or is
\* inside, a tool of that plan (RollbackManager.rollback against the races of
\* concurrent resumes).
THEOREM NoCallOverRollback == Spec => []NoCallAfterUndo
<1>1. Inv /\ UndoneIsOver => NoCallAfterUndo
  <2> SUFFICES ASSUME Inv, UndoneIsOver, NEW g \in Grants, undone[g] # {}, NEW r \in Runs, run[r].grant = g,
                      run[r].pc \in {"authorised", "called"}
               PROVE  FALSE
    BY DEF NoCallAfterUndo
  <2>1. PICK i \in undone[g] : TRUE
    OBVIOUS
  <2>2. i \in StepIndex /\ run[r].next \in StepIndex
    BY AtStep DEF Inv, TypeOK, Suspended
  <2>3. holder[g][run[r].next] = r
    BY DEF Inv, Possession, At
  <2>4. holder[g][i] = r
    BY <2>2, <2>3, NoRunAssumption DEF Inv, SingleExecutor, UndoneIsOver
  <2> QED
    BY <2>4 DEF UndoneIsOver
<1> QED
  BY <1>1, UndoneInvariance, PTL

\* A run past its last step only reports, or is cut off.
LEMMA ConcludedStays ==
    ASSUME Inv, [Next]_vars, NEW r \in Runs, run[r].pc \in Concluded
    PROVE  /\ run'[r].pc \in Concluded /\ run'[r].grant = run[r].grant
           /\ run'[r].pc \in {"succeeding", "completed"} => run[r].pc \in {"succeeding", "completed"}
<1>1. run[r] \in Run /\ TypeOK
  BY DEF Inv, TypeOK
<1>2. RunStep(r) => Report(r)
  BY DEF RunStep, StopEarly, Begin, BlockStep, RaiseInStep, Issue, GuardRefuses, Spend, DenyTool,
      CallTool, ToolSucceeds, Retry, ToolFails, UndoStep, CloseFailed, Finish, At, Concluded, Ended
<1>3. Report(r) => /\ run'[r].pc \in Concluded /\ run'[r].grant = run[r].grant
                   /\ run'[r].pc = "completed" => run[r].pc = "succeeding"
                   /\ run'[r].pc # "succeeding"
  BY <1>1 DEF Report, Goto, At, TypeOK, Run, Concluded, Ended
<1>4. ~\E g \in Grants : Resume(r, g)
  BY DEF Resume, At, Concluded, Ended
<1> QED
  BY <1>1, <1>2, <1>3, <1>4, WhoMoves DEF Run, Concluded, Ended

\* A plan recorded as consumed stays so.
LEMMA ConsumedStays ==
    ASSUME Inv, [Next]_vars, NEW g \in Grants, plan[g].status = "consumed"
    PROVE  plan'[g] = plan[g]
<1>1. GrantsTypeOK
  BY DEF Inv, TypeOK
<1>2. ASSUME NEW h \in Grants, NEW from, NEW to, TransitionPlan(h, from, to)
      PROVE  plan'[g] = plan[g]
  BY <1>1, <1>2, TransitionEffect DEF Live
<1>3. ASSUME NEW h \in Grants, Request(h)
      PROVE  plan'[g] = plan[g]
  BY <1>1, <1>3 DEF Request, RequestPlanGrant, GrantsTypeOK
<1> QED
  BY <1>2, <1>3, PlanKinds DEF Inv, vars, grantVars

\* The run that performed plan g from its first step to its last.
Performer(r, g) == PerformedBy(r, g) /\ run[r].pc \in Concluded

ConsumedIsPerformed == \A g \in Grants : plan[g].status = "consumed" => \E r \in Runs : Performer(r, g)

LEMMA SuccessStep == Inv /\ SuccessIsRecorded /\ [Next]_vars => SuccessIsRecorded'
<1> SUFFICES ASSUME Inv, SuccessIsRecorded, [Next]_vars, NEW r \in Runs,
                    run'[r].pc \in {"succeeding", "completed"}
             PROVE  plan'[run'[r].grant].status = "consumed"
  BY DEF SuccessIsRecorded
<1>1. TypeOK /\ run[r] \in Run /\ Position(r)
  BY DEF Inv, TypeOK
<1>2. CASE run[r].pc \in Concluded
  <2>1. run'[r].grant = run[r].grant /\ run[r].pc \in {"succeeding", "completed"}
    BY <1>2, ConcludedStays
  <2>2. run[r].grant \in Grants /\ plan[run[r].grant].status = "consumed"
    BY <1>1, <2>1 DEF SuccessIsRecorded, Position, Suspended
  <2> QED
    BY <2>1, <2>2, ConsumedStays
<1>3. CASE Finish(r)
  <2>1. run[r].grant \in Grants
    BY <1>1, <1>3 DEF Finish, Position, At, Suspended
  <2>2. /\ Completable(run[r].grant) /\ Transits(run[r].grant, "in_progress", "consumed")
        /\ run'[r].grant = run[r].grant
    BY <1>1, <1>3 DEF Finish, Goto, TypeOK, Run
  <2>3. plan' = [plan EXCEPT ![run[r].grant].status = "consumed"]
    BY <1>3, <2>2 DEF Finish, CompletePlan, TransitionPlan
  <2> QED
    BY <1>1, <2>1, <2>2, <2>3 DEF TypeOK, GrantsTypeOK, PlanRow
<1>4. ASSUME RunStep(r), ~Finish(r), run[r].pc \notin Concluded
      PROVE  run'[r].pc \notin {"succeeding", "completed"}
  BY <1>1, <1>4 DEF RunStep, StopEarly, Begin, BlockStep, RaiseInStep, Issue, GuardRefuses, Spend, DenyTool,
      CallTool, ToolSucceeds, Retry, ToolFails, UndoStep, CloseFailed, Report, FailStep, Goto, At, TypeOK, Run,
      Concluded
<1>5. ASSUME NEW g \in Grants, Resume(r, g)
      PROVE  run'[r].pc \notin {"succeeding", "completed"}
  BY <1>1, <1>5 DEF Resume, TypeOK, Run
<1> QED
  BY <1>1, <1>2, <1>3, <1>4, <1>5, WhoMoves DEF Run, Concluded, Ended

\* Nothing a run performed whole is rolled back, by it or by another run.
LEMMA PerformerStays ==
    ASSUME Inv, UndoneIsOver, [Next]_vars, NEW g \in Grants, NEW r \in Runs, Performer(r, g),
           plan[g].status = "consumed"
    PROVE  Performer(r, g)'
<1>1. /\ TypeOK /\ run'[r].pc \in Concluded /\ run'[r].grant = run[r].grant
      /\ plan'[g] = plan[g] /\ plan[g].size \in 0 .. MaxSteps
  BY ConcludedStays, ConsumedStays DEF Inv, Performer, TypeOK, GrantsTypeOK, PlanRow
<1>2. \A i \in 0 .. (plan[g].size - 1) : i \in StepIndex /\ calls'[g][i] = 1 /\ holder'[g][i] = r
  <2> SUFFICES ASSUME NEW i \in 0 .. (plan[g].size - 1)
               PROVE  i \in StepIndex /\ calls'[g][i] = 1 /\ holder'[g][i] = r
    OBVIOUS
  <2>1. i \in StepIndex
    BY <1>1, BoundsAssumption DEF StepIndex
  <2> QED
    BY <2>1, OwnedFrame DEF Performer, PerformedBy
<1>3. undone'[g] = {}
  <2> SUFFICES ASSUME NEW i \in undone'[g]
               PROVE  FALSE
    OBVIOUS
  <2>1. PICK s \in Runs : UndoStep(s) /\ run[s].grant = g /\ i \in 0 .. (run[s].next - 1) /\ holder[g][i] = s
    BY UndoneKinds DEF Performer, PerformedBy
  <2>2. run[s].next < plan[g].size /\ run[s].next \in Nat
    BY <1>1, <2>1, BoundsAssumption DEF Inv, Position, UndoStep, At, Suspended, TypeOK, Run
  <2>3. i \in 0 .. (plan[g].size - 1)
    BY <1>1, <2>1, <2>2
  <2>4. s = r
    BY <2>1, <2>3 DEF Performer, PerformedBy
  <2> QED
    BY <2>1, <2>4 DEF Performer, UndoStep, At, Concluded, Ended
<1> QED
  BY <1>1, <1>2, <1>3 DEF Performer, PerformedBy

LEMMA ConsumedHasPerformer ==
    ASSUME Inv, UndoneIsOver, ConsumedIsPerformed, [Next]_vars,
           NEW g \in Grants, plan'[g].status = "consumed"
    PROVE  \E r \in Runs : Performer(r, g)'
<1>1. TypeOK /\ GrantsTypeOK
  BY DEF Inv, TypeOK
<1>2. CASE plan[g].status = "consumed"
  BY <1>2, PerformerStays DEF ConsumedIsPerformed
<1>3. CASE plan[g].status # "consumed"
  <2>1. ASSUME NEW h \in Grants, Request(h)
        PROVE  plan'[g].status # "consumed"
    BY <1>1, <1>3, <2>1 DEF Request, RequestPlanGrant, GrantsTypeOK, PlanRow
  <2>2. PICK r \in Runs : Finish(r) /\ run[r].grant = g
    <3>1. PICK h \in Grants : \E from, to :
                /\ TransitionPlan(h, from, to)
                /\ to = "consumed" => \E r \in Runs : Finish(r) /\ run[r].grant = h
      BY <1>3, <2>1, PlanKinds DEF Inv, vars, grantVars
    <3> QED
      BY <1>1, <1>3, <3>1, TransitionEffect
  <2>3. Completable(g) /\ plan'[g].size = plan[g].size
    <3>1. CASE Completable(g)
      BY <1>1, <1>3, <2>2, <3>1, TransitionEffect DEF Finish, CompletePlan, GrantsTypeOK, PlanRow
    <3>2. CASE ~Completable(g)
      BY <1>3, <2>2, <3>2 DEF Finish, CompletePlan, grantVars
    <3> QED
      BY <3>1, <3>2
  <2>4. /\ run'[r].pc \in {"succeeding", "failing"} /\ run'[r].grant = g
        /\ UNCHANGED history /\ run[r] \in Run
    BY <1>1, <2>2 DEF Finish, Goto, TypeOK, Run
  <2>5. run[r].next = plan[g].size /\ plan[g].size \in Nat /\ plan[g].size # 0 /\ run[r].pc = "finish"
    BY <1>1, <2>2, <2>3, BoundsAssumption DEF Finish, At, Completable, Inv, Position, GrantsTypeOK, PlanRow
  <2>6. \A i \in 0 .. (plan[g].size - 1) : calls[g][i] = 1 /\ holder[g][i] = r
    BY <2>2, <2>5 DEF Inv, Possession, Suspended
  <2>7. undone[g] = {}
    <3> SUFFICES ASSUME NEW i \in undone[g]
                 PROVE  FALSE
      OBVIOUS
    <3>1. 0 \in StepIndex /\ i \in StepIndex /\ holder[g][0] = r
      BY <1>1, <2>5, <2>6, BoundsAssumption DEF TypeOK, StepIndex
    <3>2. holder[g][i] = r
      BY <3>1, NoRunAssumption DEF Inv, SingleExecutor, UndoneIsOver
    <3> QED
      BY <2>5, <3>2 DEF UndoneIsOver
  <2> QED
    BY <2>3, <2>4, <2>6, <2>7 DEF Performer, PerformedBy, history, Concluded
<1> QED
  BY <1>2, <1>3

Recorded == Inv /\ UndoneIsOver /\ SuccessIsRecorded /\ ConsumedIsPerformed

LEMMA RecordedInit == Init => Recorded
BY InvInit0 DEF Init, GrantsInit, Recorded, UndoneIsOver, SuccessIsRecorded, ConsumedIsPerformed

LEMMA RecordedStep == Recorded /\ [Next]_vars => Recorded'
<1>1. Recorded /\ [Next]_vars => ConsumedIsPerformed'
  BY ConsumedHasPerformer DEF Recorded, ConsumedIsPerformed
<1> QED
  BY <1>1, InvNext, UndoneStep, SuccessStep DEF Recorded

\* Whoever reports success is the one that performed the plan.
LEMMA ReporterIsPerformer ==
    ASSUME Recorded, NEW r \in Runs, run[r].pc \in {"succeeding", "completed"}
    PROVE  PerformedBy(r, run[r].grant)
<1>1. PICK g \in Grants : g = run[r].grant /\ plan[g].status = "consumed"
  BY DEF Recorded, Inv, Position, Suspended, SuccessIsRecorded
<1>2. PICK p \in Runs : Performer(p, g)
  BY <1>1 DEF Recorded, ConsumedIsPerformed
<1>3. run[r].next = plan[g].size /\ plan[g].size \in Nat /\ plan[g].size > 0
  BY <1>1 DEF Recorded, Inv, Position, PlansHaveSteps, TypeOK, GrantsTypeOK, PlanRow
<1>4. 0 \in 0 .. (plan[g].size - 1) /\ holder[g][0] = r
  BY <1>1, <1>3 DEF Recorded, Inv, Possession, Suspended
<1>5. p = r
  BY <1>2, <1>4 DEF Performer, PerformedBy
<1> QED
  BY <1>1, <1>2, <1>5 DEF Performer

\* A plan recorded as consumed was performed whole by one run, and no step of it
\* was or will be rolled back, although that run may be cut off or report an error
\* once the row is written; and success is reported only by the run that performed
\* a plan so recorded (complete_plan, _run_pipeline, RollbackManager.rollback).
THEOREM CompletionIsPerformance == Spec => []CompletedMeansPerformed
<1>1. Recorded => CompletedMeansPerformed
  BY ReporterIsPerformer
     DEF Recorded, ConsumedIsPerformed, SuccessIsRecorded, CompletedMeansPerformed, Performer, Concluded
<1> QED
  BY <1>1, RecordedInit, RecordedStep, PTL DEF Spec

------------------------------------------------------------------------------
(* The promise of ApprovedPlan                                             *)

\* What the refinement needs besides: a row that is not there has no size, the
\* calls of a plan are of its steps, and its runs began after the approval.
Promising ==
    /\ \A g \in Grants : plan[g].status = "none" => plan[g].size = 0
    /\ \A g \in Grants : \A i \in StepIndex : calls[g][i] = 1 => i < plan[g].size
    /\ \A r \in Runs : run[r].pc \in Suspended => plan[run[r].grant].status \notin {"none", "pending"}

\* What a step makes of the row of g, if it changes it at all.
LEMMA RowChanges ==
    ASSUME Inv, Next, NEW g \in Grants, plan'[g] # plan[g]
    PROVE  /\ \A h \in Grants \ {g} : plan'[h] = plan[h]
           /\ UNCHANGED calls
           /\ \/ /\ plan[g].status = "none" /\ plan'[g].status = "pending"
                 /\ plan'[g].size \in 1 .. MaxSteps
              \/ /\ plan'[g].size = plan[g].size
                 /\ \/ plan[g].status \in Live /\ plan'[g].status = "expired"
                    \/ /\ <<plan[g].status, plan'[g].status>> \in Transitions
                       /\ plan'[g].status = "consumed" => \E r \in Runs : Finish(r) /\ run[r].grant = g
<1>1. TypeOK /\ GrantsTypeOK /\ plan[g] \in PlanRow /\ \A r \in Runs : Position(r)
  BY DEF Inv, TypeOK, GrantsTypeOK
<1>2. UNCHANGED calls
  <2>1. ASSUME NEW r \in Runs, CallTool(r)
        PROVE  FALSE
    BY <2>1 DEF CallTool, grantVars
  <2> QED
    BY <1>1, <2>1, LedgerKinds DEF Issues, Spends
<1>3. ASSUME NEW h \in Grants, Request(h)
      PROVE  /\ \A k \in Grants \ {h} : plan'[k] = plan[k]
             /\ plan[h].status = "none" /\ plan'[h].status = "pending" /\ plan'[h].size \in 1 .. MaxSteps
  BY <1>1, <1>3 DEF Request, RequestPlanGrant, GrantsTypeOK, PlanRow
<1>4. ASSUME NEW h \in Grants, NEW from, NEW to, TransitionPlan(h, from, to), plan'[h] # plan[h]
      PROVE  /\ \A k \in Grants \ {h} : plan'[k] = plan[k]
             /\ plan'[h].size = plan[h].size
             /\ \/ plan[h].status \in Live /\ plan'[h].status = "expired"
                \/ <<plan[h].status, plan'[h].status>> \in Transitions /\ plan'[h].status = to
  <2>1. (\A k \in Grants \ {h} : plan'[k] = plan[k]) /\ plan'[h].size = plan[h].size
    BY <1>1, <1>4, TransitionEffect
  <2>2. plan[h] \in PlanRow
    BY <1>1 DEF GrantsTypeOK
  <2>3. CASE Transits(h, from, to)
    <3>1. plan'[h].status = to /\ plan[h].status = from /\ <<from, to>> \in Transitions
      BY <1>1, <1>4, <2>2, <2>3 DEF TransitionPlan, Transits, GrantsTypeOK, PlanRow
    <3> QED
      BY <2>1, <3>1
  <2>4. CASE ~Transits(h, from, to)
    <3>1. plan[h].status \in Live /\ plan'[h].status = "expired"
      BY <1>1, <1>4, <2>2, <2>4 DEF TransitionPlan, LapsesOnTouch, GrantsTypeOK, PlanRow
    <3> QED
      BY <2>1, <3>1
  <2> QED
    BY <2>3, <2>4
<1>5. CASE \E h \in Grants : Request(h)
  BY <1>2, <1>3, <1>5
<1>6. CASE \E h \in Grants : \E from, to :
                /\ TransitionPlan(h, from, to)
                /\ to = "consumed" => \E r \in Runs : Finish(r) /\ run[r].grant = h
  <2>1. PICK h \in Grants : \E from, to :
                /\ TransitionPlan(h, from, to)
                /\ to = "consumed" => \E r \in Runs : Finish(r) /\ run[r].grant = h
    BY <1>6
  <2>2. PICK from, to : /\ TransitionPlan(h, from, to)
                        /\ to = "consumed" => \E r \in Runs : Finish(r) /\ run[r].grant = h
    BY <2>1
  <2>3. h = g
    BY <1>1, <2>2, TransitionEffect
  <2> QED
    BY <1>2, <1>4, <2>2, <2>3
<1> QED
  BY <1>1, <1>5, <1>6, PlanKinds

LEMMA PromisingInit == Init => Promising
BY DEF Init, GrantsInit, Promising, Suspended

LEMMA PromisingStep == Inv /\ Promising /\ [Next]_vars => Promising'
<1> SUFFICES ASSUME Inv, Promising, [Next]_vars
             PROVE  Promising'
  OBVIOUS
<1>1. TypeOK /\ GrantsTypeOK /\ [GrantsNext]_grantVars
  BY RowsStep DEF Inv, TypeOK
<1>2. CASE UNCHANGED vars
  BY <1>2 DEF vars, grantVars, Promising
<1>3. CASE Next
  <2>1. ASSUME NEW g \in Grants, plan'[g].status = "none"
        PROVE  plan'[g].size = 0
    <3>1. plan[g].status = "none"
      BY <1>1, <2>1, RowsFrame
    <3>2. plan'[g] = plan[g]
      BY <1>3, <2>1, <3>1, RowChanges DEF Transitions, Live
    <3> QED
      BY <3>1, <3>2 DEF Promising
  <2>2. ASSUME NEW g \in Grants, NEW i \in StepIndex, calls'[g][i] = 1
        PROVE  i < plan'[g].size
    <3>1. CASE calls[g][i] = 1
      <4>1. i < plan[g].size /\ i \in Nat /\ plan[g].size \in Nat
        BY <1>1, <3>1, BoundsAssumption DEF Promising, GrantsTypeOK, PlanRow, StepIndex
      <4>2. plan[g].status # "none"
        BY <4>1 DEF Promising
      <4> QED
        BY <1>1, <4>1, <4>2, RowsFrame
    <3>2. CASE calls[g][i] # 1
      <4>1. PICK r \in Runs : CallTool(r) /\ UNCHANGED plan
        BY <1>1, <2>2, <3>2, LedgerKinds DEF Issues, Spends, CallTool, grantVars, Inv
      <4>2. run[r].grant = g /\ run[r].next = i
        BY <1>1, <2>2, <3>2, <4>1 DEF CallTool, TypeOK
      <4>3. Position(r) /\ run[r].pc = "authorised"
        BY <4>1 DEF Inv, CallTool, At
      <4> QED
        BY <4>1, <4>2, <4>3 DEF Position, Suspended
    <3> QED
      BY <3>1, <3>2
  <2>3. ASSUME NEW g \in Grants, plan[g].status \notin {"none", "pending"}
        PROVE  plan'[g].status \notin {"none", "pending"}
    BY <1>3, <2>3, RowChanges DEF Transitions
  <2>4. ASSUME NEW s \in Runs, run'[s].pc \in Suspended
        PROVE  plan'[run'[s].grant].status \notin {"none", "pending"}
    <3>1. CASE run[s].pc \in Suspended /\ run'[s].grant = run[s].grant
      <4>1. run[s].grant \in Grants
        BY <3>1 DEF Inv, Position
      <4> QED
        BY <2>3, <3>1, <4>1 DEF Promising
    <3>2. ASSUME NEW g \in Grants, Resume(s, g)
          PROVE  plan'[run'[s].grant].status \notin {"none", "pending"}
      <4>1. run'[s].grant = g /\ Resumable(g)
        BY <1>1, <2>4, <3>2 DEF Resume, TypeOK, Run, Suspended
      <4> QED
        BY <2>3, <4>1 DEF Resumable, Transits
    <3>3. RunStep(s) => run[s].pc \in Suspended /\ run'[s].grant = run[s].grant
      BY <1>1 DEF RunStep, StopEarly, Begin, BlockStep, RaiseInStep, Issue, GuardRefuses, Spend, DenyTool,
         CallTool, ToolSucceeds, Retry, ToolFails, UndoStep, CloseFailed, Finish, Report, FailStep, Goto, At,
         Suspended, TypeOK, Run
    <3>4. run[s] \in Run
      BY <1>1 DEF TypeOK
    <3> QED
      BY <1>1, <2>4, <3>1, <3>2, <3>3, <3>4, WhoMoves DEF Suspended, Run
  <2> QED
    BY <2>1, <2>2, <2>4 DEF Promising
<1> QED
  BY <1>2, <1>3

\* The calls of a plan are the first ones, and as many as were performed.
LEMMA PerformedIsCalled ==
    ASSUME Inv, NEW g \in Grants
    PROVE  /\ Performed(g) = {i \in StepIndex : calls[g][i] = 1}
           /\ IsFiniteSet(Performed(g)) /\ Cardinality(Performed(g)) \in Nat
<1>1. Performed(g) = {i \in StepIndex : calls[g][i] = 1}
  BY BoundsAssumption DEF Inv, CalledOnceInOrder, Performed, StepIndex
<1>2. IsFiniteSet(StepIndex)
  <2>1. 0 \in Int /\ MaxSteps - 1 \in Int
    BY BoundsAssumption
  <2> QED
    BY <2>1, FS_Interval, Zenon DEF StepIndex
<1>3. Performed(g) \in SUBSET StepIndex
  BY DEF Performed
<1>4. IsFiniteSet(Performed(g))
  BY <1>2, <1>3, FS_Subset, Zenon
<1> QED
  BY <1>1, <1>4, FS_CardinalityType, Zenon

\* Performed steps are steps of the plan: fewer than its size while one of them
\* is missing, and exactly its size when none is.
LEMMA PerformedCount ==
    ASSUME Inv, Promising, NEW g \in Grants
    PROVE  /\ \A i \in 0 .. (plan[g].size - 1) :
                 i \notin Performed(g) => Cardinality(Performed(g)) < plan[g].size
           /\ (\A i \in 0 .. (plan[g].size - 1) : calls[g][i] = 1)
                 => Cardinality(Performed(g)) = plan[g].size
<1> DEFINE n == plan[g].size
<1>1. n \in Nat /\ 0 .. (n - 1) \subseteq StepIndex
  BY BoundsAssumption DEF Inv, TypeOK, GrantsTypeOK, PlanRow, StepIndex
<1>2. Performed(g) = {i \in StepIndex : calls[g][i] = 1} /\ Cardinality(Performed(g)) \in Nat
  BY PerformedIsCalled
<1>3. Performed(g) \in SUBSET (0 .. (n - 1))
  BY <1>1, <1>2, BoundsAssumption DEF Promising, StepIndex
<1>4. IsFiniteSet(0 .. (n - 1)) /\ Cardinality(0 .. (n - 1)) = n
  <2>1. 0 \in Int /\ n - 1 \in Int
    BY <1>1
  <2>2. /\ IsFiniteSet(0 .. (n - 1))
        /\ Cardinality(0 .. (n - 1)) = IF 0 > n - 1 THEN 0 ELSE (n - 1) - 0 + 1
    BY <2>1, FS_Interval, Zenon
  <2> QED
    BY <1>1, <2>2
<1>5. /\ Cardinality(Performed(g)) <= Cardinality(0 .. (n - 1))
      /\ Cardinality(0 .. (n - 1)) = Cardinality(Performed(g)) => 0 .. (n - 1) = Performed(g)
  BY <1>3, <1>4, FS_Subset, Zenon
<1>6. ASSUME NEW i \in 0 .. (n - 1), i \notin Performed(g)
      PROVE  Cardinality(Performed(g)) < n
  BY <1>1, <1>2, <1>4, <1>5, <1>6
<1>7. ASSUME \A i \in 0 .. (n - 1) : calls[g][i] = 1
      PROVE  Cardinality(Performed(g)) = n
  <2>1. Performed(g) = 0 .. (n - 1)
    BY <1>1, <1>2, <1>3, <1>7
  <2> QED
    BY <1>4, <2>1
<1> QED
  BY <1>6, <1>7

\* A step that changes the row of a plan draws, grants, completes or closes it,
\* or is not seen by the user.
LEMMA RowRefines ==
    ASSUME Recorded, Promising, Next, NEW g \in Grants, plan'[g] # plan[g]
    PROVE  [Promise!Next]_(Promise!vars)
<1> DEFINE phase == [h \in Grants |-> Phase(h)]
           size == [h \in Grants |-> plan[h].size]
           performed == [h \in Grants |-> Cardinality(Performed(h))]
<1>1. Inv /\ plan[g] \in PlanRow /\ plan'[g] \in PlanRow
  BY TypeRuns DEF Recorded, Inv, TypeOK, GrantsTypeOK
<1>2. /\ \A h \in Grants \ {g} : plan'[h] = plan[h]
      /\ UNCHANGED calls
      /\ \/ /\ plan[g].status = "none" /\ plan'[g].status = "pending"
            /\ plan'[g].size \in 1 .. MaxSteps
         \/ /\ plan'[g].size = plan[g].size
            /\ \/ plan[g].status \in Live /\ plan'[g].status = "expired"
               \/ /\ <<plan[g].status, plan'[g].status>> \in Transitions
                  /\ plan'[g].status = "consumed" => \E r \in Runs : Finish(r) /\ run[r].grant = g
  BY <1>1, RowChanges
<1>3. performed' = performed
  BY <1>2 DEF Performed
<1>4. \A h \in Grants \ {g} : Phase(h)' = Phase(h) /\ plan'[h].size = plan[h].size
  BY <1>2 DEF Phase
<1>5. /\ phase' = [phase EXCEPT ![g] = Phase(g)'] /\ phase[g] = Phase(g)
      /\ size' = [size EXCEPT ![g] = plan'[g].size] /\ size[g] = plan[g].size
  BY <1>4
<1>6. plan[g].status # "none" => plan[g].size > 0
  BY <1>1 DEF Inv, PlansHaveSteps
<1>7. CASE plan[g].status = "none"
  <2>1. Phase(g) = "draft" /\ Phase(g)' = "draft" /\ plan'[g].size \in 1 .. MaxSteps
    BY <1>2, <1>7 DEF Phase, Live, Transitions
  <2>2. plan[g].size = 0
    BY <1>7 DEF Promising
  <2>3. phase' = phase
    BY <1>5, <2>1
  <2> HIDE DEF phase, size, performed
  <2>4. /\ phase[g] = "draft" /\ size[g] = 0
        /\ \E n \in 1 .. MaxSteps : size' = [size EXCEPT ![g] = n]
        /\ UNCHANGED <<phase, performed>>
    BY <1>3, <1>5, <2>1, <2>2, <2>3
  <2> QED
    BY <2>4 DEF Promise!Next, Promise!Draw, phase, size, performed
<1>8. CASE plan[g].status # "none"
  <2>1. size' = size /\ size[g] > 0
    BY <1>2, <1>5, <1>6, <1>8
  <2>2. \/ Phase(g)' = Phase(g)
        \/ Phase(g) = "draft" /\ Phase(g)' = "granted"
        \/ Phase(g) \in {"draft", "granted"} /\ Phase(g)' = "closed"
        \/ Phase(g) = "granted" /\ Phase(g)' = "completed" /\ plan'[g].status = "consumed"
    BY <1>2, <1>8 DEF Phase, Live, Transitions
  <2>3. CASE Phase(g)' = Phase(g)
    <3>1. phase' = phase
      BY <1>5, <2>3
    <3> QED
      BY <1>3, <2>1, <3>1 DEF Promise!vars
  <2>4. CASE Phase(g) = "draft" /\ Phase(g)' = "granted"
    <3>1. /\ phase[g] = "draft" /\ phase' = [phase EXCEPT ![g] = "granted"]
      BY <1>5, <2>4
    <3> QED
      BY <1>3, <2>1, <3>1 DEF Promise!Next, Promise!Grant
  <2>5. CASE Phase(g) \in {"draft", "granted"} /\ Phase(g)' = "closed"
    <3>1. /\ phase[g] \in {"draft", "granted"} /\ phase' = [phase EXCEPT ![g] = "closed"]
      BY <1>5, <2>5
    <3> QED
      BY <1>3, <2>1, <3>1 DEF Promise!Next, Promise!Close
  <2>6. CASE Phase(g) = "granted" /\ Phase(g)' = "completed" /\ plan'[g].status = "consumed"
    <3>1. /\ phase[g] = "granted" /\ phase' = [phase EXCEPT ![g] = "completed"]
      BY <1>5, <2>6
    <3>2. PICK r \in Runs : Finish(r) /\ run[r].grant = g
      BY <1>2, <1>8, <2>6 DEF Live, Phase
    <3>3. \A i \in 0 .. (plan[g].size - 1) : calls[g][i] = 1
      BY <1>1, <3>2 DEF Finish, At, Inv, Position, Possession, Suspended
    <3>4. performed[g] = size[g]
      BY <1>1, <3>3, PerformedCount
    <3> QED
      BY <1>3, <2>1, <3>1, <3>4 DEF Promise!Next, Promise!Complete
  <2> QED
    BY <2>2, <2>3, <2>4, <2>5, <2>6
<1> QED
  BY <1>7, <1>8

\* A call of a tool performs the next step of a plan that is granted, or that
\* was closed while the step was authorised.
LEMMA CallRefines ==
    ASSUME Recorded, Promising, Next, NEW r \in Runs, CallTool(r)
    PROVE  [Promise!Next]_(Promise!vars)
<1> DEFINE phase == [h \in Grants |-> Phase(h)]
           size == [h \in Grants |-> plan[h].size]
           performed == [h \in Grants |-> Cardinality(Performed(h))]
<1>1. PICK g \in Grants : g = run[r].grant
  BY DEF Recorded, Inv, CallTool, At, Position, Suspended
<1>2. PICK i \in StepIndex : i = run[r].next
  BY AtStep DEF Recorded, Inv, CallTool, At, Suspended
<1>3. /\ Inv /\ UNCHANGED plan /\ calls[g][i] = 0 /\ i < plan[g].size
      /\ calls' = [calls EXCEPT ![g][i] = calls[g][i] + 1]
      /\ calls \in [Grants -> [StepIndex -> Nat]]
  BY <1>1, <1>2 DEF Recorded, Inv, TypeOK, CallTool, At, Position, Possession, Suspended, grantVars
<1>4. plan[g].status \notin {"none", "pending"}
  BY <1>1 DEF Promising, CallTool, At, Suspended
<1>5. i \in 0 .. (plan[g].size - 1)
  BY <1>3, BoundsAssumption DEF StepIndex, Inv, TypeOK, GrantsTypeOK, PlanRow
<1>6. plan[g].status # "consumed"
  BY <1>3, <1>5 DEF Recorded, ConsumedIsPerformed, Performer, PerformedBy
<1>7. Phase(g) \in {"granted", "closed"}
  BY <1>4, <1>6 DEF Phase
<1>8. Inv'
  BY InvNext DEF Recorded
<1>9. /\ Performed(g) = {j \in StepIndex : calls[g][j] = 1}
      /\ IsFiniteSet(Performed(g)) /\ Cardinality(Performed(g)) \in Nat
  BY <1>3, PerformedIsCalled
<1>10. Performed(g)' = {j \in StepIndex : calls'[g][j] = 1}
  <2>1. Inv => Performed(g) = {j \in StepIndex : calls[g][j] = 1}
    BY PerformedIsCalled
  <2> QED
    BY <1>8, BoundsAssumption DEF Inv, CalledOnceInOrder, Performed, StepIndex
<1>11. Performed(g)' = Performed(g) \cup {i} /\ i \notin Performed(g)
  BY <1>3, <1>9, <1>10
<1>12. Cardinality(Performed(g) \cup {i}) = Cardinality(Performed(g)) + 1
  BY <1>9, <1>11, FS_AddElement, Zenon
<1>13. \A h \in Grants \ {g} : Performed(h)' = Performed(h)
  BY <1>3 DEF Performed
<1>14. performed' = [performed EXCEPT ![g] = performed[g] + 1]
  BY <1>11, <1>12, <1>13
<1>15. performed[g] < size[g] /\ phase[g] \in {"granted", "closed"}
  BY <1>3, <1>5, <1>7, <1>11, PerformedCount
<1>16. UNCHANGED <<phase, size>>
  BY <1>3 DEF Phase
<1> QED
  BY <1>14, <1>15, <1>16 DEF Promise!Next, Promise!Perform

\* For any number of runs and steps, the execution of plans implements what the
\* approval of a plan promises its user (Orchestrator._run_pipeline under the
\* grants of ConfirmationBroker).
THEOREM PromiseIsKept == Spec => KeepsPromise
<1>1. Init => Promise!Init
  <2> SUFFICES ASSUME Init
               PROVE  Promise!Init
    OBVIOUS
  <2>1. \A g \in Grants : Performed(g) = {}
    BY BoundsAssumption DEF Init, Performed, StepIndex
  <2>2. \A g \in Grants : Cardinality(Performed(g)) = 0
    BY <2>1, FS_EmptySet
  <2>3. \A g \in Grants : Phase(g) = "draft" /\ plan[g].size = 0
    BY DEF Init, GrantsInit, Phase
  <2> QED
    BY <2>2, <2>3 DEF Promise!Init
<1>2. Recorded /\ Promising /\ [Next]_vars => [Promise!Next]_(Promise!vars)
  <2> SUFFICES ASSUME Recorded, Promising, [Next]_vars
               PROVE  [Promise!Next]_(Promise!vars)
    OBVIOUS
  <2>1. CASE UNCHANGED vars
    BY <2>1 DEF vars, grantVars, Promise!vars, Phase, Performed
  <2>2. CASE Next /\ \E g \in Grants : plan'[g] # plan[g]
    BY <2>2, RowRefines
  <2>3. CASE Next /\ \E r \in Runs : CallTool(r)
    BY <2>3, CallRefines
  <2>4. CASE /\ Next /\ ~(\E r \in Runs : CallTool(r))
             /\ ~(\E g \in Grants : plan'[g] # plan[g])
    <3>1. UNCHANGED calls
      BY <2>4, LedgerKinds DEF Recorded, Inv, Issues, Spends
    <3>2. \A g \in Grants : plan'[g] = plan[g] /\ Phase(g)' = Phase(g) /\ Performed(g)' = Performed(g)
      BY <2>4, <3>1 DEF Phase, Performed
    <3> QED
      BY <3>2 DEF Promise!vars
  <2> QED
    BY <2>1, <2>2, <2>3, <2>4
<1>3. Inv /\ Promising /\ [Next]_vars => Promising'
  BY PromisingStep
<1>4. Recorded => Inv
  BY DEF Recorded
<1> QED
  BY <1>1, <1>2, <1>3, <1>4, RecordedInit, RecordedStep, PromisingInit, PTL
     DEF Spec, KeepsPromise, Promise!Spec

------------------------------------------------------------------------------
(* The end of a run                                                        *)

\* The safety half of LoopClosesPlan: a run closes its plan grant before it tells
\* anybody of its success or failure (complete_plan, fail_plan).
EndedRunsClosePlan ==
    \A r \in Runs : run[r].pc \in {"succeeding", "failing", "completed", "failed"} =>
        plan[run[r].grant].status \in Closed

\* The plan of a run was claimed, by it or by an earlier run.
Claimed ==
    \A r \in Runs : run[r].pc \in Suspended \cup {"completed", "failed"} =>
        run[r].grant \in Grants /\ plan[run[r].grant].status \in Closed \cup {"in_progress"}

\* Step grants exist for steps of the plan only.
StepsOfPlan == \A g \in Grants : \A i \in StepIndex : step[g][i] # "none" => i < plan[g].size

Closing == Inv /\ Promising /\ StepsOfPlan /\ Claimed /\ EndedRunsClosePlan

\* A row in progress is closed or stays so; a closed one stays closed.
LEMMA RowAdvances ==
    ASSUME Inv, [Next]_vars, NEW g \in Grants, plan[g].status \in Closed \cup {"in_progress"}
    PROVE  /\ plan'[g].status \in Closed \cup {"in_progress"}
           /\ plan[g].status \in Closed => plan'[g].status \in Closed
<1>1. CASE plan'[g] = plan[g]
  BY <1>1
<1>2. CASE Next /\ plan'[g] # plan[g]
  BY <1>2, RowChanges DEF Transitions, Closed, Live, StatusCheck
<1> QED
  BY <1>1, <1>2 DEF vars, grantVars

LEMMA StepsOfPlanStep ==
    ASSUME Inv, Promising, StepsOfPlan, [Next]_vars
    PROVE  StepsOfPlan'
<1> SUFFICES ASSUME NEW g \in Grants, NEW i \in StepIndex, step'[g][i] # "none"
             PROVE  i < plan'[g].size
  BY DEF StepsOfPlan
<1>1. TypeOK /\ GrantsTypeOK /\ [GrantsNext]_grantVars
  BY RowsStep DEF Inv, TypeOK
<1>2. i < plan[g].size
  <2>1. CASE step'[g][i] = step[g][i]
    BY <2>1 DEF StepsOfPlan
  <2>2. ASSUME NEW r \in Runs, Issues(r) \/ Spends(r)
        PROVE  i < plan[g].size
    <3>1. /\ run[r].grant \in Grants /\ run[r].next \in StepIndex
          /\ run[r].next < plan[run[r].grant].size
      BY <2>2, AtStep DEF Issues, Spends, At, Suspended, Inv, Position
    <3> QED
      BY <1>1, <2>2, <3>1 DEF Issues, Spends, GrantsTypeOK, StepsOfPlan
  <2> QED
    BY <1>1, <2>1, <2>2, LedgerKinds DEF Inv
<1>3. i \in Nat /\ plan[g].size \in Nat
  BY <1>1, BoundsAssumption DEF GrantsTypeOK, PlanRow, StepIndex
<1>4. plan[g].status # "none"
  BY <1>2, <1>3 DEF Promising
<1> QED
  BY <1>1, <1>2, <1>4, RowsFrame

\* A run that has all its steps behind it finds the count of complete_plan
\* right: the consumed rows are the steps of the plan and no others.
LEMMA FinishedIsCompletable ==
    ASSUME Inv, StepsOfPlan, NEW r \in Runs, At(r, "finish")
    PROVE  Completable(run[r].grant)
<1>1. PICK g \in Grants : g = run[r].grant
  BY DEF Inv, At, Position, Suspended
<1> DEFINE n == plan[g].size
<1>2. n \in Nat /\ n > 0 /\ run[r].next = n /\ 0 .. (n - 1) \subseteq StepIndex
  BY <1>1, BoundsAssumption
     DEF Inv, TypeOK, GrantsTypeOK, PlanRow, PlansHaveSteps, At, Position, Suspended, StepIndex
<1>3. \A j \in 0 .. (n - 1) : holder[g][j] = r
  BY <1>1, <1>2 DEF Inv, Possession, At, Suspended
<1>4. \A j \in 0 .. (n - 1) : step[g][j] = "consumed"
  BY <1>2, <1>3, NoRunAssumption DEF Inv, Ledger
<1>5. ConsumedSteps(g) = 0 .. (n - 1)
  <2>1. \A j \in ConsumedSteps(g) : j \in 0 .. (n - 1)
    BY <1>2, BoundsAssumption DEF StepsOfPlan, ConsumedSteps, StepIndex
  <2>2. \A j \in 0 .. (n - 1) : j \in ConsumedSteps(g)
    BY <1>2, <1>4 DEF ConsumedSteps
  <2> QED
    BY <2>1, <2>2
<1>6. Cardinality(0 .. (n - 1)) = n
  <2>1. 0 \in Int /\ n - 1 \in Int
    BY <1>2
  <2>2. Cardinality(0 .. (n - 1)) = IF 0 > n - 1 THEN 0 ELSE (n - 1) - 0 + 1
    BY <2>1, FS_Interval, Zenon
  <2> QED
    BY <1>2, <2>2
<1> QED
  BY <1>1, <1>2, <1>5, <1>6 DEF Completable

LEMMA ClosingStep ==
    ASSUME Closing, [Next]_vars, NEW s \in Runs
    PROVE  /\ run'[s].pc \in Suspended \cup {"completed", "failed"} =>
                run'[s].grant \in Grants /\ plan'[run'[s].grant].status \in Closed \cup {"in_progress"}
           /\ run'[s].pc \in {"succeeding", "failing", "completed", "failed"} =>
                plan'[run'[s].grant].status \in Closed
<1>1. Inv /\ TypeOK /\ GrantsTypeOK /\ run[s] \in Run
  BY DEF Closing, Inv, TypeOK
<1>2. ASSUME run[s].pc \in Suspended \cup {"completed", "failed"}
      PROVE  /\ run[s].grant \in Grants
             /\ plan[run[s].grant].status \in Closed \cup {"in_progress"}
             /\ plan'[run[s].grant].status \in Closed \cup {"in_progress"}
             /\ plan[run[s].grant].status \in Closed => plan'[run[s].grant].status \in Closed
  BY <1>1, <1>2, RowAdvances DEF Closing, Claimed
<1>3. CASE run'[s] = run[s]
  BY <1>2, <1>3 DEF Closing, EndedRunsClosePlan, Suspended
<1>4. CASE run'[s] = [run[s] EXCEPT !.pc = "gone"]
  BY <1>1, <1>4 DEF Run, Suspended
<1>5. ASSUME NEW g \in Grants, Resume(s, g)
      PROVE  /\ run'[s].pc \in Suspended => run'[s].grant \in Grants /\ plan'[run'[s].grant].status = "in_progress"
             /\ run'[s].pc \notin {"succeeding", "failing", "completed", "failed"}
  <2>1. run'[s].grant = g /\ run'[s].pc = IF Resumable(g) THEN "start" ELSE "refused"
    BY <1>1, <1>5 DEF Resume, TypeOK, Run
  <2>2. ASSUME Resumable(g)
        PROVE  plan'[g].status = "in_progress"
    BY <1>1, <1>5, <2>2 DEF Resume, ResumeApprovedPlan, Resumable, Transits, TransitionPlan, grantVars,
       GrantsTypeOK, PlanRow
  <2> QED
    BY <2>1, <2>2 DEF Suspended
<1>6. ASSUME RunStep(s)
      PROVE  /\ run[s].pc \in Suspended /\ run'[s].grant = run[s].grant
             /\ \/ CloseFailed(s) \/ Finish(s) \/ Report(s)
                \/ run'[s].pc \notin {"succeeding", "failing", "completed", "failed"}
  BY <1>1, <1>6 DEF RunStep, StopEarly, Begin, BlockStep, RaiseInStep, Issue, GuardRefuses, Spend, DenyTool,
     CallTool, ToolSucceeds, Retry, ToolFails, UndoStep, CloseFailed, Finish, Report, FailStep, Goto, At,
     Suspended, TypeOK, Run
<1>7. ASSUME CloseFailed(s) \/ Finish(s)
      PROVE  plan'[run[s].grant].status \in Closed
  <2>1. PICK g \in Grants : g = run[s].grant
    BY <1>2, <1>7 DEF CloseFailed, Finish, Report, At, Suspended
  <2>2. plan[g].status \in Closed \/ plan[g].status = "in_progress"
    BY <1>2, <1>7, <2>1 DEF CloseFailed, Finish, Report, At, Suspended
  <2>3. CASE plan[g].status \in Closed
    BY <1>2, <1>7, <2>1, <2>3 DEF CloseFailed, Finish, Report, At, Suspended
  <2>4. CASE plan[g].status = "in_progress"
    <3>1. TransitionPlan(g, "in_progress", "failed") \/ TransitionPlan(g, "in_progress", "consumed")
      BY <1>7, <2>1, FinishedIsCompletable DEF CloseFailed, FailPlan, Finish, CompletePlan, Closing
    <3> QED
      BY <1>1, <2>1, <2>4, <3>1 DEF TransitionPlan, Transits, Transitions, LapsesOnTouch, Live, Closed,
         StatusCheck, GrantsTypeOK, PlanRow
  <2> QED
    BY <2>2, <2>3, <2>4
<1>8. ASSUME Report(s)
      PROVE  plan'[run[s].grant].status \in Closed
  BY <1>2, <1>8 DEF Report, At, Suspended, Closing, EndedRunsClosePlan
<1> QED
  BY <1>1, <1>2, <1>3, <1>4, <1>5, <1>6, <1>7, <1>8, WhoMoves

\* Every run that reports an outcome, success or failure, has closed the plan
\* it executed; complete_plan never turns down a run that did every step, short
\* of the expiry, which closes the plan too (complete_plan, fail_plan,
\* transition_plan).
THEOREM OutcomesClosePlan == Spec => []EndedRunsClosePlan
<1>1. Init => Closing
  BY InvInit0, PromisingInit DEF Init, GrantsInit, Closing, StepsOfPlan, Claimed, EndedRunsClosePlan, Suspended
<1>2. Closing /\ [Next]_vars => Closing'
  <2> SUFFICES ASSUME Closing, [Next]_vars
               PROVE  Closing'
    OBVIOUS
  <2>1. Inv' /\ Promising' /\ StepsOfPlan'
    BY InvNext, PromisingStep, StepsOfPlanStep DEF Closing
  <2> QED
    BY <2>1, ClosingStep DEF Closing, Claimed, EndedRunsClosePlan
<1>3. Closing => EndedRunsClosePlan
  BY DEF Closing
<1> QED
  BY <1>1, <1>2, <1>3, PTL DEF Spec

------------------------------------------------------------------------------
(* Authority in step with effects                                          *)

\* Neither a competing run nor a retry is ever handed the authority of a step
\* before the tools of all the steps it follows were called: the rows say only
\* that those steps were spent, which a refused tool would do as well.
AuthorityFollowsEffects ==
    \A g \in Grants : \A i \in StepIndex :
        step[g][i] # "none" => \A j \in 0 .. (i - 1) : calls[g][j] = 1

LEMMA EffectsStep ==
    ASSUME Inv, AuthorityFollowsEffects, [Next]_vars
    PROVE  AuthorityFollowsEffects'
<1> SUFFICES ASSUME NEW g \in Grants, NEW i \in StepIndex, step'[g][i] # "none", NEW j \in 0 .. (i - 1)
             PROVE  calls'[g][j] = 1
  BY DEF AuthorityFollowsEffects
<1>1. TypeOK /\ GrantsTypeOK /\ j \in StepIndex
  BY BoundsAssumption DEF Inv, TypeOK, StepIndex
<1>2. calls[g][j] = 1
  <2>1. CASE step'[g][i] = step[g][i]
    BY <2>1 DEF AuthorityFollowsEffects
  <2>2. ASSUME NEW r \in Runs, Issues(r) \/ Spends(r), step'[g][i] # step[g][i]
        PROVE  calls[g][j] = 1
    <3>1. run[r].grant \in Grants /\ run[r].next \in StepIndex
      BY <2>2, AtStep DEF Issues, Spends, At, Suspended, Inv
    <3>2. run[r].grant = g /\ run[r].next = i
      BY <1>1, <2>2, <3>1 DEF Issues, Spends, GrantsTypeOK
    <3> QED
      BY <2>2, <3>2 DEF Issues, Spends, Inv, Possession, At, Suspended
  <2> QED
    BY <2>1, <2>2, <1>1, LedgerKinds DEF Inv
<1>3. holder[g][j] \in Runs
  BY <1>1, <1>2 DEF Inv, Ledger, TypeOK
<1> QED
  BY <1>1, <1>2, <1>3, OwnedFrame

\* Authority follows effects for any number of runs, retries and crashes
\* (issue_next_step_grant against _run_pipeline).
THEOREM AuthorityIsEarned == Spec => []AuthorityFollowsEffects
<1>1. Init => AuthorityFollowsEffects
  BY DEF Init, GrantsInit, AuthorityFollowsEffects
<1> QED
  BY <1>1, InvInit0, InvNext, EffectsStep, PTL DEF Spec

\* ClaimIsExclusive does not hold: two runs may be in the loop of one plan.  But
\* while one of them has a tool authorised or running, no other has, and no
\* other has come past the first step.
OneRunAdvances ==
    \A r, s \in Runs :
        /\ run[r].grant = run[s].grant
        /\ run[r].pc \in {"authorised", "called"}
        /\ run[s].pc \in {"authorised", "called"} \/ (run[s].pc \in Suspended /\ run[s].next > 0)
        => r = s

\* What the docstring of resume_approved_plan claims for the plan holds of the
\* steps: no two runs are inside the tools of one plan at a time.
THEOREM RacingRunsStandStill == Spec => []OneRunAdvances
<1>1. Inv => OneRunAdvances
  <2> SUFFICES ASSUME Inv, NEW r \in Runs, NEW s \in Runs, run[r].grant = run[s].grant,
                      run[r].pc \in {"authorised", "called"},
                      run[s].pc \in {"authorised", "called"} \/ (run[s].pc \in Suspended /\ run[s].next > 0)
               PROVE  r = s
    BY DEF OneRunAdvances
  <2>1. PICK g \in Grants : g = run[r].grant
    BY DEF Inv, Position, Suspended
  <2>2. run[r].next \in StepIndex /\ holder[g][run[r].next] = r
    BY <2>1, AtStep DEF Inv, Possession, At, Suspended
  <2>3. \E i \in StepIndex : holder[g][i] = s
    <3>1. CASE run[s].pc \in {"authorised", "called"}
      BY <2>1, <3>1, AtStep DEF Inv, Possession, At, Suspended
    <3>2. CASE run[s].pc \in Suspended /\ run[s].next > 0
      <4>1. 0 \in StepIndex /\ 0 \in 0 .. (run[s].next - 1)
        BY <3>2, BoundsAssumption DEF StepIndex, Inv, TypeOK, Run
      <4> QED
        BY <2>1, <3>2, <4>1 DEF Inv, Possession
    <3> QED
      BY <3>1, <3>2
  <2> QED
    BY <2>2, <2>3, NoRunAssumption DEF Inv, SingleExecutor
<1> QED
  BY <1>1, Invariance, PTL

------------------------------------------------------------------------------
(* Every run ends                                                          *)

\* A variant.  A step costs at most three awaits for each attempt and one to
\* take it up; a failed run has its completed steps to roll back.
Round == 3 * MaxAttempts + 1
Ahead(next) == (MaxSteps - next) * Round

RankAt(pc, next, tries, undo) ==
    LET ahead == MaxSteps + 3 + Ahead(next)  tried == 3 * tries IN
    CASE pc = "start" -> ahead + 1
      [] pc = "loop" -> ahead
      [] pc = "issued" -> ahead - tried - 1
      [] pc = "authorised" -> ahead - tried - 2
      [] pc = "called" -> ahead - tried - 3
      [] pc = "undoing" -> undo + 2
      [] pc = "finish" -> 2
      [] pc \in {"succeeding", "failing"} -> 1
      [] OTHER -> 0

Rank(r) == RankAt(run[r].pc, run[r].next, run[r].tries, run[r].undo)

\* Every step a run takes brings it nearer to its end, whatever the others do
\* in between: the safety half of LoopClosesPlan.
EveryStepCounts == [][\A r \in Runs : RunStep(r) => Rank(r) \in Nat \ {0} /\ Rank(r)' \in 0 .. (Rank(r) - 1)]_vars

\* A run with a step to do has more than its attempts at it left.
LEMMA Rounds ==
    ASSUME NEW n \in Nat, n < MaxSteps
    PROVE  /\ Ahead(n) \in Nat /\ Ahead(n) >= 3 * MaxAttempts + 1
           /\ Ahead(n + 1) \in Nat /\ Ahead(n + 1) = Ahead(n) - 3 * MaxAttempts - 1
<1>1. Round \in Nat /\ Round = 3 * MaxAttempts + 1
  BY AttemptsAssumption DEF Round
<1>2. PICK k \in Nat : k = MaxSteps - (n + 1)
  BY BoundsAssumption
<1>3. MaxSteps - n = k + 1
  BY <1>2, BoundsAssumption
<1>4. (k + 1) * Round = k * Round + Round /\ k * Round \in Nat
  BY <1>1
<1>5. Ahead(n) = k * Round + Round /\ Ahead(n + 1) = k * Round
  BY <1>2, <1>3, <1>4 DEF Ahead
<1> QED
  BY <1>1, <1>4, <1>5, AttemptsAssumption

LEMMA RankValues ==
    ASSUME NEW n, Ahead(n) \in Nat, NEW t \in Nat, NEW u
    PROVE  /\ RankAt("start", n, t, u) = MaxSteps + 4 + Ahead(n)
           /\ RankAt("loop", n, t, u) = MaxSteps + 3 + Ahead(n)
           /\ RankAt("issued", n, t, u) = MaxSteps + 2 + Ahead(n) - 3 * t
           /\ RankAt("authorised", n, t, u) = MaxSteps + 1 + Ahead(n) - 3 * t
           /\ RankAt("called", n, t, u) = MaxSteps + Ahead(n) - 3 * t
<1> DEFINE ahead == MaxSteps + 3 + Ahead(n)
<1>1. /\ RankAt("start", n, t, u) = ahead + 1
      /\ RankAt("loop", n, t, u) = ahead
      /\ RankAt("issued", n, t, u) = ahead - 3 * t - 1
      /\ RankAt("authorised", n, t, u) = ahead - 3 * t - 2
      /\ RankAt("called", n, t, u) = ahead - 3 * t - 3
  BY Zenon DEF RankAt
<1> QED
  BY <1>1, BoundsAssumption

\* What is left of a run where it stands.
LEMMA RankOfRun ==
    ASSUME Inv, NEW r \in Runs, run[r].pc \in Suspended
    PROVE  /\ Rank(r) \in Nat \ {0}
           /\ run[r].pc \notin {"undoing", "finish", "succeeding", "failing"} => Rank(r) > 2 + run[r].next
<1>1. run[r] \in Run /\ Position(r) /\ run[r].grant \in Grants /\ plan[run[r].grant].size \in 0 .. MaxSteps
  BY DEF Inv, TypeOK, Position, GrantsTypeOK, PlanRow
<1>2. PICK n \in 0 .. MaxSteps, t \in 0 .. (MaxAttempts - 1), u \in Nat :
        n = run[r].next /\ t = run[r].tries /\ u = run[r].undo
  BY <1>1, BoundsAssumption DEF Run
<1>3. run[r].pc \notin {"undoing", "finish", "succeeding", "failing"} => n < MaxSteps
  BY <1>1, <1>2, BoundsAssumption DEF Position
<1>4. Rank(r) = RankAt(run[r].pc, n, t, u)
  BY <1>2 DEF Rank
<1>5. CASE run[r].pc \in {"undoing", "finish", "succeeding", "failing"}
  BY <1>2, <1>4, <1>5 DEF RankAt
<1>6. CASE run[r].pc \notin {"undoing", "finish", "succeeding", "failing"}
  <2>1. Ahead(n) \in Nat /\ Ahead(n) >= 3 * MaxAttempts + 1
    BY <1>2, <1>3, <1>6, Rounds, BoundsAssumption
  <2> QED
    BY <1>2, <1>3, <1>4, <1>6, <2>1, RankValues, BoundsAssumption, AttemptsAssumption DEF Suspended
<1> QED
  BY <1>5, <1>6

LEMMA RankFalls ==
    ASSUME Inv, NEW r \in Runs, RunStep(r)
    PROVE  Rank(r) \in Nat \ {0} /\ Rank(r)' \in 0 .. (Rank(r) - 1)
<1>1. TypeOK /\ run[r] \in Run /\ Position(r) /\ run[r].pc \in Suspended
  BY DEF Inv, TypeOK, RunStep, StopEarly, Begin, BlockStep, RaiseInStep, Issue, GuardRefuses, Spend, DenyTool,
     CallTool, ToolSucceeds, Retry, ToolFails, UndoStep, CloseFailed, Finish, Report, At, Suspended
<1>2. /\ Rank(r) \in Nat \ {0}
      /\ run[r].pc \notin {"undoing", "finish", "succeeding", "failing"} => Rank(r) > 2 + run[r].next
  BY <1>1, RankOfRun
<1> SUFFICES Rank(r)' \in 0 .. (Rank(r) - 1)
  BY <1>2
<1>3. PICK n \in 0 .. MaxSteps, t \in 0 .. (MaxAttempts - 1), u \in Nat :
        n = run[r].next /\ t = run[r].tries /\ u = run[r].undo
  BY <1>1, BoundsAssumption DEF Run
<1>4. run[r].pc \notin {"undoing", "finish", "succeeding", "failing"} => n < MaxSteps
  BY <1>1, <1>3, BoundsAssumption DEF Position, Inv, TypeOK, GrantsTypeOK, PlanRow
<1>5. /\ Rank(r) = RankAt(run[r].pc, n, t, u)
      /\ Rank(r)' = RankAt(run'[r].pc, run'[r].next, run'[r].tries, run'[r].undo)
  BY <1>3 DEF Rank
<1>6. CASE StopEarly(r) \/ RaiseInStep(r) \/ Report(r)
  <2>1. run'[r].pc \in Ended
    BY <1>1, <1>6 DEF StopEarly, RaiseInStep, Report, Goto, TypeOK, Ended, Run
  <2>2. Rank(r)' = 0
    BY <1>5, <2>1 DEF RankAt, Ended
  <2> QED
    BY <1>2, <2>2
<1>7. ASSUME run[r].pc \notin {"undoing", "finish", "succeeding", "failing"}, FailStep(r)
      PROVE  Rank(r)' \in 0 .. (Rank(r) - 1)
  <2>1. run'[r].pc = "undoing" /\ run'[r].undo = n
    BY <1>1, <1>3, <1>7 DEF FailStep, TypeOK, Run
  <2>2. Rank(r)' = n + 2
    BY <1>5, <2>1 DEF RankAt
  <2> QED
    BY <1>2, <1>3, <1>7, <2>2
<1>8. CASE BlockStep(r) \/ GuardRefuses(r) \/ DenyTool(r) \/ ToolFails(r)
  BY <1>7, <1>8 DEF BlockStep, GuardRefuses, DenyTool, ToolFails, At
<1>9. CASE UndoStep(r)
  <2>1. run[r].pc = "undoing" /\ u > 0 /\ run'[r].pc = "undoing" /\ run'[r].undo = u - 1
    BY <1>1, <1>3, <1>9 DEF UndoStep, At, TypeOK, Run
  <2>2. Rank(r) = u + 2 /\ Rank(r)' = (u - 1) + 2
    BY <1>5, <2>1 DEF RankAt
  <2> QED
    BY <1>3, <2>1, <2>2
<1>10. ASSUME NEW pc \in {"loop", "issued", "authorised", "called"}, NEW tries \in 0 .. (MaxAttempts - 1),
              run[r].pc \notin {"undoing", "finish", "succeeding", "failing"},
              run' = [run EXCEPT ![r].pc = pc, ![r].tries = tries],
              \/ run[r].pc = "start" /\ pc = "loop"
              \/ run[r].pc = "loop" /\ pc = "issued" /\ tries = 0
              \/ run[r].pc = "issued" /\ pc = "authorised" /\ tries = t
              \/ run[r].pc = "authorised" /\ pc = "called" /\ tries = t
              \/ run[r].pc \in {"authorised", "called"} /\ pc = "issued" /\ tries = t + 1
       PROVE  Rank(r)' \in 0 .. (Rank(r) - 1)
  <2>1. run'[r].pc = pc /\ run'[r].tries = tries /\ run'[r].next = n /\ run'[r].undo = u
    BY <1>1, <1>3, <1>10 DEF TypeOK, Run
  <2>2. Rank(r)' = RankAt(pc, n, tries, u)
    BY <1>5, <2>1
  <2>3. n < MaxSteps
    BY <1>4, <1>10
  <2>4. Ahead(n) \in Nat /\ Ahead(n) >= 3 * MaxAttempts + 1
    BY <1>3, <2>3, Rounds, BoundsAssumption
  <2>5. /\ run[r].pc = "start" => Rank(r) = MaxSteps + 4 + Ahead(n)
        /\ run[r].pc = "loop" => Rank(r) = MaxSteps + 3 + Ahead(n)
        /\ run[r].pc = "issued" => Rank(r) = MaxSteps + 2 + Ahead(n) - 3 * t
        /\ run[r].pc = "authorised" => Rank(r) = MaxSteps + 1 + Ahead(n) - 3 * t
        /\ run[r].pc = "called" => Rank(r) = MaxSteps + Ahead(n) - 3 * t
    BY <1>3, <1>5, <2>4, RankValues, AttemptsAssumption
  <2>6. /\ pc = "loop" => Rank(r)' = MaxSteps + 3 + Ahead(n)
        /\ pc = "issued" => Rank(r)' = MaxSteps + 2 + Ahead(n) - 3 * tries
        /\ pc = "authorised" => Rank(r)' = MaxSteps + 1 + Ahead(n) - 3 * tries
        /\ pc = "called" => Rank(r)' = MaxSteps + Ahead(n) - 3 * tries
    BY <2>2, <2>4, RankValues, AttemptsAssumption
  <2> QED
    BY <1>3, <1>10, <2>4, <2>5, <2>6, BoundsAssumption, AttemptsAssumption
<1>11. CASE Begin(r)
  BY <1>1, <1>3, <1>10, <1>11 DEF Begin, Goto, At, TypeOK, Run
<1>12. CASE Issue(r)
  BY <1>7, <1>10, <1>12, AttemptsAssumption DEF Issue, At
<1>13. CASE Spend(r)
  BY <1>3, <1>7, <1>10, <1>13, Zenon DEF Spend, Goto, At
<1>14. CASE CallTool(r)
  BY <1>1, <1>3, <1>10, <1>14 DEF CallTool, Goto, At, TypeOK, Run
<1>15. CASE Retry(r)
  <2>1. /\ run[r].pc \in {"authorised", "called"} /\ t + 1 \in 0 .. (MaxAttempts - 1)
        /\ run' = [run EXCEPT ![r].pc = "issued", ![r].tries = t + 1]
    BY <1>3, <1>15, AttemptsAssumption DEF Retry, At
  <2> QED
    BY <1>10, <2>1
<1>16. CASE ToolSucceeds(r)
  <2>1. /\ run[r].pc = "called" /\ n < MaxSteps
        /\ run'[r].pc \in {"finish", "loop"} /\ run'[r].next = n + 1 /\ run'[r].tries = t
    BY <1>1, <1>3, <1>4, <1>16 DEF ToolSucceeds, At, TypeOK, Run
  <2>2. /\ Ahead(n) \in Nat /\ Ahead(n) >= 3 * MaxAttempts + 1
        /\ Ahead(n + 1) \in Nat /\ Ahead(n + 1) = Ahead(n) - 3 * MaxAttempts - 1
    BY <1>3, <2>1, Rounds, BoundsAssumption
  <2>3. Rank(r) = MaxSteps + Ahead(n) - 3 * t
    BY <1>3, <1>5, <2>1, <2>2, RankValues
  <2>4. run'[r].pc = "finish" => Rank(r)' = 2
    BY <1>5 DEF RankAt
  <2>5. run'[r].pc = "loop" => Rank(r)' = MaxSteps + 3 + Ahead(n + 1)
    BY <1>3, <1>5, <2>1, <2>2, RankValues
  <2> QED
    BY <1>3, <2>1, <2>2, <2>3, <2>4, <2>5, BoundsAssumption, AttemptsAssumption
<1>17. CASE CloseFailed(r) \/ Finish(r)
  <2>1. run[r].pc \in {"undoing", "finish"} /\ run'[r].pc \in {"succeeding", "failing"}
    BY <1>1, <1>17 DEF CloseFailed, Finish, Goto, At, TypeOK, Run
  <2>2. Rank(r) >= 2 /\ Rank(r)' = 1
    BY <1>3, <1>5, <2>1 DEF RankAt
  <2> QED
    BY <1>2, <2>2
<1> QED
  BY <1>6, <1>8, <1>9, <1>11, <1>12, <1>13, <1>14, <1>15, <1>16, <1>17 DEF RunStep

\* The steps of a run are bounded in advance by its plan and the retry bound
\* (RetryHandler.execute, RollbackManager.rollback): no run goes on for ever.
THEOREM RunsRunOut == Spec => EveryStepCounts
<1>1. Inv /\ [Next]_vars =>
        [\A r \in Runs : RunStep(r) => Rank(r) \in Nat \ {0} /\ Rank(r)' \in 0 .. (Rank(r) - 1)]_vars
  BY RankFalls
<1> QED
  BY <1>1, Invariance, PTL DEF Spec, EveryStepCounts

\* What no step of the grants may do, no step of their execution does: a closed
\* plan only drains, and nothing is spent past the expiry.
THEOREM ExecutionDrains == Spec => ClosedPlanOnlyDrains /\ NothingSpentAfterExpiry
BY ExecutionUsesGrants, ClosedPlanDrains, ExpiryBindsSpending, PTL

==============================================================================
