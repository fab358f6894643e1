------------------------ MODULE ExecutionGrantsProofs ------------------------
(***************************************************************************)
(* Proofs about ExecutionGrants, for any set of grants and any bounds: the *)
(* type invariant, the two safety invariants and the two action            *)
(* properties.  The inductive invariant is the conjunction of the first    *)
(* three: the count made by complete_plan is meaningful only because the   *)
(* consumed rows of a plan form a prefix of its steps.                     *)
(***************************************************************************)
EXTENDS ExecutionGrants, FiniteSetTheorems, TLAPS

GrantsInv == GrantsTypeOK /\ OneStepAhead /\ CompletedPlanIsSpent

------------------------------------------------------------------------------
(* What a transition does, whatever its arguments                          *)

\* transition_plan never touches the step rows, never leaves a closed or an
\* absent row, and marks a plan consumed only when it was asked to.
LEMMA TransitionEffect ==
    ASSUME GrantsTypeOK, NEW g \in Grants, NEW from, NEW to, TransitionPlan(g, from, to)
    PROVE  /\ GrantsTypeOK'
           /\ UNCHANGED <<step, now>>
           /\ \A h \in Grants \ {g} : plan'[h] = plan[h]
           /\ plan'[g].size = plan[g].size
           /\ plan'[g].expires = plan[g].expires
           /\ plan[g].status \notin Live => plan'[g] = plan[g]
           /\ plan'[g].status = "consumed" /\ plan[g].status # "consumed" => to = "consumed"
<1>1. plan[g] \in PlanRow
  BY DEF GrantsTypeOK
<1>2. CASE Transits(g, from, to)
  <2>1. to \in StatusCheck /\ plan[g].status \in Live
    BY <1>2 DEF Transits, Transitions, StatusCheck, Live
  <2>2. plan' = [plan EXCEPT ![g].status = to]
    BY <1>2 DEF TransitionPlan
  <2> QED
    BY <1>1, <2>1, <2>2 DEF TransitionPlan, GrantsTypeOK, PlanRow
<1>3. CASE ~Transits(g, from, to) /\ <<from, to>> \in Transitions /\ LapsesOnTouch(g)
  <2>1. plan' = [plan EXCEPT ![g].status = "expired"]
    BY <1>3 DEF TransitionPlan
  <2> QED
    BY <1>1, <1>3, <2>1 DEF TransitionPlan, GrantsTypeOK, PlanRow, StatusCheck, LapsesOnTouch
<1>4. CASE ~Transits(g, from, to) /\ ~(<<from, to>> \in Transitions /\ LapsesOnTouch(g))
  <2>1. plan' = plan
    BY <1>1, <1>4 DEF TransitionPlan, GrantsTypeOK, PlanRow
  <2> QED
    BY <2>1 DEF TransitionPlan, GrantsTypeOK
<1> QED
  BY <1>2, <1>3, <1>4

\* The status changes of the broker are transitions, or change nothing.
LEMMA BrokerEffect ==
    ASSUME GrantsTypeOK, NEW g \in Grants,
           ApprovePlanGrant(g) \/ ResumeApprovedPlan(g) \/ CompletePlan(g) \/ FailPlan(g) \/ CancelPendingGrant(g)
    PROVE  \/ UNCHANGED grantVars
           \/ \E from, to : /\ TransitionPlan(g, from, to)
                            /\ to = "consumed" => Completable(g)
<1>1. CASE ApprovePlanGrant(g)
  BY <1>1 DEF ApprovePlanGrant
<1>2. CASE ResumeApprovedPlan(g)
  BY <1>2 DEF ResumeApprovedPlan
<1>3. CASE CompletePlan(g)
  BY <1>3 DEF CompletePlan
<1>4. CASE FailPlan(g)
  BY <1>4 DEF FailPlan
<1>5. CASE CancelPendingGrant(g)
  BY <1>5 DEF CancelPendingGrant
<1> QED
  BY <1>1, <1>2, <1>3, <1>4, <1>5

\* The steps of the specification, sorted by what they do.
LEMMA StepKinds ==
    ASSUME GrantsTypeOK, GrantsNext
    PROVE  \/ Tick
           \/ UNCHANGED grantVars
           \/ \E g \in Grants :
                \/ \E size \in 0 .. MaxSteps, expires \in 0 .. (MaxTime + 1) :
                        RequestPlanGrant(g, size, expires)
                \/ \E from, to : /\ TransitionPlan(g, from, to)
                                 /\ to = "consumed" => Completable(g)
                \/ \E i \in StepIndex : IssueNextStepGrant(g, i)
                \/ \E i \in StepIndex : ConsumeStep(g, i)
BY BrokerEffect DEF GrantsNext

------------------------------------------------------------------------------
(* Type invariant                                                          *)

LEMMA TypeInit == GrantsInit => GrantsTypeOK
BY BoundsAssumption DEF GrantsInit, GrantsTypeOK, PlanRow, StepStatus, StepIndex

LEMMA TypeStep == GrantsTypeOK /\ [GrantsNext]_grantVars => GrantsTypeOK'
<1> SUFFICES ASSUME GrantsTypeOK, [GrantsNext]_grantVars
             PROVE  GrantsTypeOK'
  OBVIOUS
<1>1. CASE UNCHANGED grantVars
  BY <1>1 DEF grantVars, GrantsTypeOK
<1>2. CASE Tick
  BY <1>2, BoundsAssumption DEF Tick, GrantsTypeOK
<1>3. ASSUME NEW g \in Grants, NEW size \in 0 .. MaxSteps, NEW expires \in 0 .. (MaxTime + 1),
             RequestPlanGrant(g, size, expires)
      PROVE  GrantsTypeOK'
  BY <1>3 DEF RequestPlanGrant, GrantsTypeOK, PlanRow, StatusCheck
<1>4. ASSUME NEW g \in Grants, NEW from, NEW to, TransitionPlan(g, from, to)
      PROVE  GrantsTypeOK'
  BY <1>4, TransitionEffect
<1>5. ASSUME NEW g \in Grants, NEW i \in StepIndex, IssueNextStepGrant(g, i)
      PROVE  GrantsTypeOK'
  BY <1>5 DEF IssueNextStepGrant, GrantsTypeOK, StepStatus
<1>6. ASSUME NEW g \in Grants, NEW i \in StepIndex, ConsumeStep(g, i)
      PROVE  GrantsTypeOK'
  BY <1>6 DEF ConsumeStep, GrantsTypeOK, StepStatus
<1> QED
  BY <1>1, <1>2, <1>3, <1>4, <1>5, <1>6, StepKinds

\* The rows keep their types and the CHECK constraint of the status columns
\* whatever the callers do (transition_plan writes only listed statuses).
THEOREM GrantsTypeCorrect == GrantsSpec => []GrantsTypeOK
<1>1. GrantsInit => GrantsTypeOK
  BY TypeInit
<1>2. GrantsTypeOK /\ [GrantsNext]_grantVars => GrantsTypeOK'
  BY TypeStep
<1> QED
  BY <1>1, <1>2, PTL DEF GrantsSpec

------------------------------------------------------------------------------
(* Order of the step grants                                                *)

LEMMA OrderStep == GrantsTypeOK /\ OneStepAhead /\ [GrantsNext]_grantVars => OneStepAhead'
<1> SUFFICES ASSUME GrantsTypeOK, OneStepAhead, [GrantsNext]_grantVars
             PROVE  OneStepAhead'
  OBVIOUS
<1>1. CASE UNCHANGED step
  BY <1>1 DEF OneStepAhead
<1>2. ASSUME NEW g \in Grants, NEW from, NEW to, TransitionPlan(g, from, to)
      PROVE  OneStepAhead'
  BY <1>1, <1>2, TransitionEffect
<1>3. ASSUME NEW g \in Grants, NEW i \in StepIndex, IssueNextStepGrant(g, i)
      PROVE  OneStepAhead'
  <2> SUFFICES ASSUME NEW h \in Grants, NEW k \in StepIndex, (step[h][k] # "none")',
                      NEW j \in 0 .. (k - 1)
               PROVE  (step[h][j] = "consumed")'
    BY DEF OneStepAhead
  <2>1. j \in StepIndex /\ step' = [step EXCEPT ![g][i] = "approved"] /\ step[g][i] # "consumed"
    BY <1>3, BoundsAssumption DEF IssueNextStepGrant, Issuable, StepIndex
  <2>2. CASE h = g /\ k = i
    BY <1>3, <2>1, <2>2 DEF IssueNextStepGrant, Issuable, GrantsTypeOK, StepIndex
  <2>3. CASE ~(h = g /\ k = i)
    <3>1. step[h][k] # "none"
      BY <2>1, <2>3 DEF GrantsTypeOK
    <3>2. step[h][j] = "consumed"
      BY <3>1 DEF OneStepAhead
    <3> QED
      BY <2>1, <3>2 DEF GrantsTypeOK
  <2> QED
    BY <2>2, <2>3
<1>4. ASSUME NEW g \in Grants, NEW i \in StepIndex, ConsumeStep(g, i)
      PROVE  OneStepAhead'
  <2> SUFFICES ASSUME NEW h \in Grants, NEW k \in StepIndex, (step[h][k] # "none")',
                      NEW j \in 0 .. (k - 1)
               PROVE  (step[h][j] = "consumed")'
    BY DEF OneStepAhead
  <2>1. j \in StepIndex /\ step' = [step EXCEPT ![g][i] = "consumed"] /\ step[g][i] = "approved"
    BY <1>4, BoundsAssumption DEF ConsumeStep, Consumable, StepIndex
  <2>2. step[h][k] # "none"
    BY <2>1 DEF GrantsTypeOK
  <2>3. step[h][j] = "consumed"
    BY <2>2 DEF OneStepAhead
  <2> QED
    BY <2>1, <2>3 DEF GrantsTypeOK
<1> QED
  BY <1>1, <1>2, <1>3, <1>4, StepKinds DEF Tick, RequestPlanGrant, grantVars

\* For every number of grants, steps and callers, authority is derived one
\* step at a time and in order (issue_next_step_grant).
THEOREM StepOrder == GrantsSpec => []OneStepAhead
<1>1. GrantsInit => GrantsTypeOK /\ OneStepAhead
  BY TypeInit DEF GrantsInit, OneStepAhead
<1>2. GrantsTypeOK /\ OneStepAhead /\ [GrantsNext]_grantVars => GrantsTypeOK' /\ OneStepAhead'
  BY TypeStep, OrderStep
<1> QED
  BY <1>1, <1>2, PTL DEF GrantsSpec

------------------------------------------------------------------------------
(* Completion                                                              *)

\* n elements of a set of naturals that has no holes are the first n.
LEMMA PrefixCount ==
    ASSUME NEW S \in SUBSET StepIndex, NEW n \in Nat, Cardinality(S) = n,
           \A k \in S : \A j \in 0 .. (k - 1) : j \in S
    PROVE  0 .. (n - 1) \subseteq S
<1> SUFFICES ASSUME NEW k \in 0 .. (n - 1), k \notin S
             PROVE  FALSE
  OBVIOUS
<1>1. S \subseteq 0 .. (k - 1)
  BY BoundsAssumption DEF StepIndex
<1>2. k \in Nat /\ 0 \in Int /\ k - 1 \in Int
  OBVIOUS
<1>3. IsFiniteSet(0 .. (k - 1)) /\ Cardinality(0 .. (k - 1)) = k
  <2>1. /\ IsFiniteSet(0 .. (k - 1))
        /\ Cardinality(0 .. (k - 1)) = IF 0 > k - 1 THEN 0 ELSE (k - 1) - 0 + 1
    BY <1>2, FS_Interval, Zenon
  <2>2. (IF 0 > k - 1 THEN 0 ELSE (k - 1) - 0 + 1) = k
    BY <1>2
  <2> QED
    BY <2>1, <2>2
<1>4. Cardinality(S) <= Cardinality(0 .. (k - 1))
  BY <1>1, <1>3, FS_Subset, Zenon
<1> QED
  BY <1>3, <1>4

LEMMA CompletableMeansSpent ==
    ASSUME GrantsTypeOK, OneStepAhead, NEW g \in Grants, Completable(g)
    PROVE  plan[g].size > 0 /\ 0 .. (plan[g].size - 1) \subseteq ConsumedSteps(g)
<1>1. plan[g].size \in Nat /\ plan[g].size # 0
  BY BoundsAssumption DEF Completable, GrantsTypeOK, PlanRow
<1>2. \A k \in ConsumedSteps(g) : \A j \in 0 .. (k - 1) : j \in ConsumedSteps(g)
  BY BoundsAssumption DEF ConsumedSteps, OneStepAhead, StepIndex
<1>3. ConsumedSteps(g) \in SUBSET StepIndex /\ Cardinality(ConsumedSteps(g)) = plan[g].size
  BY DEF ConsumedSteps, Completable
<1> QED
  BY <1>1, <1>2, <1>3, PrefixCount

\* Authority that was spent stays spent.
LEMMA SpentStaysSpent ==
    ASSUME GrantsTypeOK, [GrantsNext]_grantVars
    PROVE  \A g \in Grants : ConsumedSteps(g) \subseteq ConsumedSteps(g)'
<1>1. CASE UNCHANGED step
  BY <1>1 DEF ConsumedSteps
<1>2. ASSUME NEW h \in Grants, NEW from, NEW to, TransitionPlan(h, from, to)
      PROVE  UNCHANGED step
  BY <1>2, TransitionEffect
<1>3. ASSUME NEW h \in Grants, NEW i \in StepIndex, IssueNextStepGrant(h, i) \/ ConsumeStep(h, i)
      PROVE  \A g \in Grants : ConsumedSteps(g) \subseteq ConsumedSteps(g)'
  BY <1>3 DEF IssueNextStepGrant, Issuable, ConsumeStep, ConsumedSteps, GrantsTypeOK
<1> QED
  BY <1>1, <1>2, <1>3, StepKinds DEF Tick, RequestPlanGrant, grantVars

LEMMA CompletionStep ==
    GrantsInv /\ [GrantsNext]_grantVars => CompletedPlanIsSpent'
<1> SUFFICES ASSUME GrantsTypeOK, OneStepAhead, CompletedPlanIsSpent, [GrantsNext]_grantVars,
                    NEW g \in Grants, plan'[g].status = "consumed"
             PROVE  plan'[g].size > 0 /\ 0 .. (plan'[g].size - 1) \subseteq ConsumedSteps(g)'
  BY DEF GrantsInv, CompletedPlanIsSpent
<1>1. ConsumedSteps(g) \subseteq ConsumedSteps(g)'
  BY SpentStaysSpent
<1>2. CASE plan'[g] = plan[g]
  BY <1>1, <1>2 DEF CompletedPlanIsSpent
<1>3. ASSUME NEW h \in Grants, NEW size, NEW expires, RequestPlanGrant(h, size, expires)
      PROVE  plan'[g] = plan[g]
  BY <1>3 DEF RequestPlanGrant, GrantsTypeOK
<1>4. ASSUME NEW h \in Grants, NEW from, NEW to, TransitionPlan(h, from, to),
             to = "consumed" => Completable(h), plan'[g] # plan[g]
      PROVE  plan'[g].size > 0 /\ 0 .. (plan'[g].size - 1) \subseteq ConsumedSteps(g)
  <2>1. h = g
    BY <1>4, TransitionEffect
  <2>2. plan[g].status # "consumed" /\ plan'[g].size = plan[g].size
    BY <1>4, <2>1, TransitionEffect DEF Live
  <2>3. Completable(g)
    BY <1>4, <2>1, <2>2, TransitionEffect
  <2> QED
    BY <2>2, <2>3, CompletableMeansSpent
<1> QED
  BY <1>1, <1>2, <1>3, <1>4, StepKinds
     DEF Tick, IssueNextStepGrant, ConsumeStep, grantVars

LEMMA InvStep == GrantsInv /\ [GrantsNext]_grantVars => GrantsInv'
BY TypeStep, OrderStep, CompletionStep DEF GrantsInv

LEMMA InvInit == GrantsInit => GrantsInv
BY TypeInit DEF GrantsInit, GrantsInv, OneStepAhead, CompletedPlanIsSpent

LEMMA GrantsInvariant == GrantsSpec => []GrantsInv
BY InvInit, InvStep, PTL DEF GrantsSpec

\* complete_plan compares two counts; for every plan size this is enough to
\* know that each step of the payload had its authority spent.
THEOREM CompletionIsSpent == GrantsSpec => []CompletedPlanIsSpent
<1>1. GrantsInv => CompletedPlanIsSpent
  BY DEF GrantsInv
<1> QED
  BY <1>1, GrantsInvariant, PTL

------------------------------------------------------------------------------
(* What no step may do                                                     *)

\* A closed plan is not reopened, extended or completed by any call, and the
\* only thing left to happen under it is the spending of a step grant that
\* was outstanding (transition_plan, issue_next_step_grant, consume_step).
THEOREM ClosedPlanDrains == GrantsSpec => ClosedPlanOnlyDrains
<1>1. ASSUME GrantsTypeOK, [GrantsNext]_grantVars, NEW g \in Grants, plan[g].status \in Closed
      PROVE  plan'[g] = plan[g]
  <2>1. plan[g].status \notin Live /\ plan[g].status # "none"
    BY <1>1 DEF Closed, Live, StatusCheck
  <2>2. ASSUME NEW h \in Grants, NEW from, NEW to, TransitionPlan(h, from, to)
        PROVE  plan'[g] = plan[g]
    BY <1>1, <2>1, <2>2, TransitionEffect
  <2>3. ASSUME NEW h \in Grants, NEW size, NEW expires, RequestPlanGrant(h, size, expires)
        PROVE  plan'[g] = plan[g]
    BY <1>1, <2>1, <2>3 DEF RequestPlanGrant, GrantsTypeOK
  <2> QED
    BY <1>1, <2>2, <2>3, StepKinds DEF Tick, IssueNextStepGrant, ConsumeStep, grantVars
<1>2. ASSUME GrantsTypeOK, [GrantsNext]_grantVars, NEW g \in Grants, plan[g].status \in Closed,
             NEW i \in StepIndex, step'[g][i] # step[g][i]
      PROVE  step[g][i] = "approved" /\ step'[g][i] = "consumed"
  <2>1. ASSUME NEW h \in Grants, NEW from, NEW to, TransitionPlan(h, from, to)
        PROVE  UNCHANGED step
    BY <1>2, <2>1, TransitionEffect
  <2>2. ASSUME NEW h \in Grants, NEW k \in StepIndex, IssueNextStepGrant(h, k)
        PROVE  FALSE
    <3>1. h # g
      BY <1>2, <2>2 DEF IssueNextStepGrant, Issuable, Closed, Live
    <3> QED
      BY <1>2, <2>2, <3>1 DEF IssueNextStepGrant, GrantsTypeOK
  <2>3. ASSUME NEW h \in Grants, NEW k \in StepIndex, ConsumeStep(h, k)
        PROVE  step[g][i] = "approved" /\ step'[g][i] = "consumed"
    BY <1>2, <2>3 DEF ConsumeStep, Consumable, GrantsTypeOK
  <2> QED
    BY <1>2, <2>1, <2>2, <2>3, StepKinds DEF Tick, RequestPlanGrant, grantVars
<1>3. GrantsTypeOK /\ [GrantsNext]_grantVars =>
        [\A g \in Grants : plan[g].status \in Closed =>
            /\ plan'[g] = plan[g]
            /\ \A i \in StepIndex :
                step'[g][i] # step[g][i] =>
                    /\ step[g][i] = "approved"
                    /\ step'[g][i] = "consumed"]_grantVars
  BY <1>1, <1>2
<1> QED
  BY <1>3, GrantsTypeCorrect, PTL DEF GrantsSpec, ClosedPlanOnlyDrains

\* Expiry is enforced where authority is spent, not only where it is issued:
\* no step of any plan is spent at or after the expiry its user approved.
THEOREM ExpiryBindsSpending == GrantsSpec => NothingSpentAfterExpiry
<1>1. ASSUME GrantsTypeOK, [GrantsNext]_grantVars, NEW g \in Grants, ~Unexpired(g)
      PROVE  ConsumedSteps(g)' = ConsumedSteps(g)
  <2>1. CASE UNCHANGED step
    BY <2>1 DEF ConsumedSteps
  <2>2. ASSUME NEW h \in Grants, NEW from, NEW to, TransitionPlan(h, from, to)
        PROVE  UNCHANGED step
    BY <1>1, <2>2, TransitionEffect
  <2>3. ASSUME NEW h \in Grants, NEW i \in StepIndex, IssueNextStepGrant(h, i)
        PROVE  ConsumedSteps(g)' = ConsumedSteps(g)
    BY <1>1, <2>3 DEF IssueNextStepGrant, Issuable, ConsumedSteps, GrantsTypeOK
  <2>4. ASSUME NEW h \in Grants, NEW i \in StepIndex, ConsumeStep(h, i)
        PROVE  ConsumedSteps(g)' = ConsumedSteps(g)
    <3>1. h # g
      BY <1>1, <2>4 DEF ConsumeStep, Consumable
    <3> QED
      BY <2>4, <3>1 DEF ConsumeStep, ConsumedSteps, GrantsTypeOK
  <2> QED
    BY <1>1, <2>1, <2>2, <2>3, <2>4, StepKinds DEF Tick, RequestPlanGrant, grantVars
<1>2. GrantsTypeOK /\ [GrantsNext]_grantVars =>
        [\A g \in Grants : ~Unexpired(g) => ConsumedSteps(g)' = ConsumedSteps(g)]_grantVars
  BY <1>1
<1> QED
  BY <1>2, GrantsTypeCorrect, PTL DEF GrantsSpec, NothingSpentAfterExpiry

==============================================================================
