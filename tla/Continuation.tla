---------------------------- MODULE Continuation ----------------------------
(***************************************************************************)
(* ContinuationExecutor: a continuation is replanned (start), shown to the *)
(* user, and executed under a plan grant of its own (confirm), or cancelled. *)
(* Each handler works on a private copy of the record, read when it starts *)
(* and put back when it ends, and awaits the orchestrator in between; the  *)
(* HTTP requests of a session are handlers of one event loop, so others    *)
(* read and put the record meanwhile.  The record in the store is all that *)
(* a restart keeps.                                                        *)
(*                                                                         *)
(* The orchestrator's run of the steps is PlanExecution's subject; here it *)
(* claims the grant, performs the plan, and closes the grant or not.       *)
(***************************************************************************)
EXTENDS ExecutionGrants

CONSTANTS
    Conts,          \* continuation ids
    Handlers,       \* HTTP requests, each served once
    Plans,          \* what a planning pass may come back with
    Lifetime,       \* _now_plus(10)
    NoCont, NoGrant, NoPlan, NoSteps

ASSUME LifetimeAssumption == Lifetime \in Nat \ {0}
ASSUME NoGrantAssumption == NoGrant \notin Grants

VARIABLES
    record,     \* record[k]: the continuation in the store
    handler,    \* handler[h]: where the request is, with its copy of the record
    shown,      \* shown[g]: the plan the grant was requested for (history)
    performed,  \* performed[g]: who performed which plan under g (history)
    accepted    \* grants the user confirmed (history)

vars == <<grantVars, record, handler, shown, performed, accepted>>
history == <<shown, performed, accepted>>

\* A material change, the only way to "replanning" in the store, cannot be
\* seen (Digest); "authorized" and "executing" are never put.
RecordState == {"absent", "created", "replanning", "awaiting", "authorized", "executing",
                "verified", "denied", "failed", "cancelled"}
Final == {"verified", "denied", "failed", "cancelled"}

Record == [state: RecordState, grant: Grants \cup {NoGrant}, digest: {NoSteps, NoPlan}]

\* replanning: start awaits the planning pass; checking: confirm awaits the
\* second one; executing, performing: confirm awaits the execution.
HandlerAt == {"idle", "replanning", "checking", "executing", "performing", "done"}

TypeOK ==
    /\ GrantsTypeOK
    /\ record \in [Conts -> Record]
    /\ handler \in [Handlers -> [pc: HandlerAt, cont: Conts \cup {NoCont}, copy: Record]]
    /\ shown \in [Grants -> Plans \cup {NoPlan}]
    /\ performed \in [Grants -> SUBSET (Handlers \X Plans)]
    /\ accepted \subseteq Grants

NewRecord == [state |-> "absent", grant |-> NoGrant, digest |-> NoPlan]

Init ==
    /\ GrantsInit
    /\ record = [k \in Conts |-> NewRecord]
    /\ handler = [h \in Handlers |-> [pc |-> "idle", cont |-> NoCont, copy |-> NewRecord]]
    /\ shown = [g \in Grants |-> NoPlan]
    /\ performed = [g \in Grants |-> {}]
    /\ accepted = {}

\* ClarifiedRequestContext.transition, for the states this class uses.
Allowed ==
    [absent |-> {}, created |-> {"replanning", "cancelled"},
     replanning |-> {"awaiting", "denied", "failed", "cancelled"},
     awaiting |-> {"replanning", "authorized", "denied", "cancelled"},
     authorized |-> {"executing", "cancelled"},
     executing |-> {"verified", "failed", "cancelled"},
     verified |-> {}, denied |-> {}, failed |-> {}, cancelled |-> {}]

\* A transition that is not allowed leaves the state; callers go on either way.
Moved(copy, state) == IF state \in Allowed[copy.state] THEN [copy EXCEPT !.state = state] ELSE copy

\* _safe_plan_dict reads "steps" from the orchestrator's ExecutionPlan, which
\* has no such attribute: the payload and the digest are those of a plan
\* without steps, whatever the plan.
Digest(p) == NoSteps
PayloadSize(p) == 0

\* When a grant asked for now lapses; past the bounded clock, never.
Expiry == IF now + Lifetime > MaxTime THEN MaxTime + 1 ELSE now + Lifetime

At(h, pc) == handler[h].pc = pc
Copy(h) == handler[h].copy

\* h awaits at pc with the given copy.
Await(h, pc, k, copy) == handler' = [handler EXCEPT ![h] = [pc |-> pc, cont |-> k, copy |-> copy]]

\* h puts its copy and answers.
Answer(h, copy) ==
    /\ record' = [record EXCEPT ![handler[h].cont] = copy]
    /\ handler' = [handler EXCEPT ![h].pc = "done", ![h].copy = copy]

------------------------------------------------------------------------------
\* ContinuationService.create_continuation.  Its invalidation of the prior
\* grants changes nothing: the status it writes is not one StatusCheck admits,
\* and the error is swallowed.
Create(k) ==
    /\ record[k].state = "absent"
    /\ record' = [record EXCEPT ![k].state = "created"]
    /\ UNCHANGED <<grantVars, handler, history>>

------------------------------------------------------------------------------
(* start                                                                   *)

Start(h, k) ==
    /\ At(h, "idle")
    /\ record[k].state = "created"
    /\ Await(h, "replanning", k, Moved(record[k], "replanning"))
    /\ UNCHANGED <<grantVars, record, history>>

\* The planning pass came back with a plan: a grant is requested for it.
Replanned(h, g, p) ==
    /\ At(h, "replanning")
    /\ RequestPlanGrant(g, PayloadSize(p), Expiry)
    /\ shown' = [shown EXCEPT ![g] = p]
    /\ Answer(h, Moved([Copy(h) EXCEPT !.grant = g, !.digest = Digest(p)], "awaiting"))
    /\ UNCHANGED <<performed, accepted>>

\* It came back with an error, or raised (its timeout included).
ReplanFails(h) ==
    /\ At(h, "replanning")
    /\ Answer(h, Moved(Copy(h), "failed"))
    /\ UNCHANGED <<grantVars, history>>

------------------------------------------------------------------------------
(* confirm                                                                 *)

\* Mutant: the refusal goes through like a confirmation.
DenyAsConfirm(h, k) ==
    /\ At(h, "idle")
    /\ record[k].state = "awaiting"
    /\ Await(h, "checking", k, record[k])
    /\ UNCHANGED <<grantVars, record, history>>

Deny(h, k) ==
    /\ At(h, "idle")
    /\ record[k].state = "awaiting"
    /\ record' = [record EXCEPT ![k] = Moved(@, "denied")]
    /\ handler' = [handler EXCEPT ![h].pc = "done"]
    /\ UNCHANGED <<grantVars, history>>

Confirm(h, k) ==
    /\ At(h, "idle")
    /\ record[k].state = "awaiting"
    /\ accepted' = accepted \cup {record[k].grant}
    /\ Await(h, "checking", k, record[k])
    /\ UNCHANGED <<grantVars, record, shown, performed>>

\* Mutant: the result of approve_continuation_grant ignored.
ApprovableAlways(g) == TRUE

Approvable(g) == Transits(g, "pending", "approved")

\* The second planning pass came back: compare, approve the grant, execute.
Checked(h, p) ==
    LET g == Copy(h).grant IN
    /\ At(h, "checking")
    /\ IF Digest(p) # Copy(h).digest
       THEN Answer(h, Moved(Copy(h), "replanning")) /\ UNCHANGED grantVars
       ELSE /\ ApprovePlanGrant(g)
            /\ IF Approvable(g)
               THEN /\ Await(h, "executing", handler[h].cont,
                             Moved(Moved(Copy(h), "authorized"), "executing"))
                    /\ UNCHANGED record
               ELSE Answer(h, Moved(Copy(h), "denied"))
    /\ UNCHANGED history

\* It raised: "failed" is not allowed from awaiting_confirmation.
CheckRaises(h) ==
    /\ At(h, "checking")
    /\ Answer(h, Moved(Copy(h), "failed"))
    /\ UNCHANGED <<grantVars, history>>

\* The execution claims the grant (its identity matching) and performs p.
Perform(h, p) ==
    LET g == Copy(h).grant IN
    /\ At(h, "executing")
    /\ Resumable(g)
    /\ ResumeApprovedPlan(g)
    /\ performed' = [performed EXCEPT ![g] = @ \cup {<<h, p>>}]
    /\ handler' = [handler EXCEPT ![h].pc = "performing"]
    /\ UNCHANGED <<record, shown, accepted>>

\* The execution succeeded: complete_plan, whose refusal is an error.
Performed(h) ==
    LET g == Copy(h).grant IN
    /\ At(h, "performing")
    /\ CompletePlan(g)
    /\ Answer(h, Moved(Copy(h), IF Completable(g) /\ Transits(g, "in_progress", "consumed")
                                THEN "verified" ELSE "failed"))
    /\ UNCHANGED history

\* It failed after claiming the grant, and fail_plan was or was not reached.
PerformFails(h) ==
    /\ At(h, "performing")
    /\ FailPlan(Copy(h).grant) \/ UNCHANGED grantVars
    /\ Answer(h, Moved(Copy(h), "failed"))
    /\ UNCHANGED history

\* It failed, raised or timed out before any step claimed the grant.
ExecuteFails(h) ==
    /\ At(h, "executing")
    /\ Answer(h, Moved(Copy(h), "failed"))
    /\ UNCHANGED <<grantVars, history>>

------------------------------------------------------------------------------
(* cancel: no await; the grant is cancelled if it is still pending.        *)

Cancel(h, k) ==
    /\ At(h, "idle")
    /\ record[k].state \notin Final \cup {"absent"}
    /\ IF record[k].grant # NoGrant
       THEN CancelPendingGrant(record[k].grant) ELSE UNCHANGED grantVars
    /\ record' = [record EXCEPT ![k] = Moved(@, "cancelled")]
    /\ handler' = [handler EXCEPT ![h].pc = "done"]
    /\ UNCHANGED history

Pass == Tick /\ UNCHANGED <<record, handler, history>>

\* The sidecar dies: handlers end where they are, the store and rows remain.
Crash ==
    /\ \E h \in Handlers : handler[h].pc \notin {"idle", "done"}
    /\ handler' = [h \in Handlers |->
                    IF handler[h].pc = "idle" THEN handler[h] ELSE [handler[h] EXCEPT !.pc = "done"]]
    /\ UNCHANGED <<grantVars, record, history>>

------------------------------------------------------------------------------
Next ==
    \/ \E k \in Conts :
        \/ Create(k)
        \/ \E h \in Handlers : Start(h, k) \/ Deny(h, k) \/ Confirm(h, k) \/ Cancel(h, k)
    \/ \E h \in Handlers :
        \/ ReplanFails(h) \/ CheckRaises(h)
        \/ Performed(h) \/ PerformFails(h) \/ ExecuteFails(h)
        \/ \E p \in Plans : Checked(h, p) \/ Perform(h, p) \/ \E g \in Grants : Replanned(h, g, p)
    \/ Pass
    \/ Crash

Spec == Init /\ [][Next]_vars

------------------------------------------------------------------------------
(* Properties                                                              *)

\* However many confirmations race, fail or are retried after a restart, one
\* grant is good for one execution: approving the pending grant is the only
\* gate (confirm, approve_continuation_grant), since resuming is not one.
OneExecutionPerGrant == \A g \in Grants : Cardinality(performed[g]) <= 1

\* Cancelling a grant that nobody has approved yet wins over every confirmation
\* in progress: nothing was and nothing will be performed under it (cancel
\* does not wait for the handlers it races with).
CancelledGrantNeverPerformed ==
    \A g \in Grants : plan[g].status = "cancelled" => performed[g] = {}

\* Nothing is performed under a grant the user has not confirmed, and a grant
\* is performed before its ten minutes are over or not at all.
PerformedOnConfirmation ==
    [][\A g \in Grants : performed'[g] # performed[g] => g \in accepted /\ Unexpired(g)]_vars

\* What confirm's docstring says: the plan is checked again before it is
\* executed, so what is performed is what was shown.
PerformedAsShown == \A g \in Grants : \A e \in performed[g] : e[2] = shown[g]

------------------------------------------------------------------------------
(* Refinement of the promise about authorities                             *)

Phase(g) ==
    IF performed[g] # {} THEN "used"
    ELSE CASE plan[g].status = "none" -> "none"
           [] plan[g].status = "pending" -> "asked"
           [] plan[g].status \in {"approved", "in_progress"} -> "given"
           [] OTHER -> "void"

Authority == INSTANCE OneTimeAuthority WITH
    Authorities <- Grants,
    phase <- [g \in Grants |-> Phase(g)],
    uses <- [g \in Grants |-> Cardinality(performed[g])]

\* The grant of a continuation is an authority of one execution: whatever handlers
\* race for it, and through expiry, cancellation and crashes, the continuations
\* implement OneTimeAuthority.
GrantsOneTime == Authority!Spec

==============================================================================
