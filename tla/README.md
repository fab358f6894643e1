# AIVO in TLA+

Models, model-checking runs and machine-checked proofs for the parts of AIVO
(the Sentinel core and its sidecar) where several requests, retries, restarts
and failing providers meet shared state. Paths below are those of the
repository, with `src/` as its root.

## 1. The system

AIVO is a desktop assistant. A Tauri shell (`src/src`, `src/src-tauri`) starts a
Python sidecar (`src/sidecar`), a FastAPI process with one asyncio event loop,
which drives the core library (`src/sentinel`). A request passes identity,
context, intent, plan, validation, policies, authorisation, execution, quality
and audit, and the authority to act is always a durable row that one conditional
update spends.

```
 UI ──HTTP──> routers ──> Orchestrator.process ──> ToolExecutionGuard ──> ToolGateway ──> tool
                │               │      │                   │                  │
                │               │      └─ ConfirmationBroker ─ SQLite         └─ CircuitBreaker (tools)
                │               └─ ModelRouter ─ FallbackManager ─ CircuitBreaker (providers)
                ├─ ClarificationService ─ clarifications.json
                └─ ContinuationExecutor ─ continuations.json       OfflineQueue (memory)
```

### Inventory

| Component | State it keeps | Operations | Hard behaviour | What makes it correct |
|---|---|---|---|---|
| **Execution grants** (`sidecar/repositories/execution_grant_repository.py`, `sentinel/core/confirmation.py`) | tables `plan_approval_grants`, `step_execution_grants` | request, approve, resume, issue, consume, complete, fail, cancel | expiry noticed only when touched; a step's update does not look at its plan | one step of authority at a time; complete means spent; nothing after expiry or closing beyond the outstanding step |
| **Execution of plans** (`sentinel/core/orchestrator.py`, `sentinel/security/tool_guard.py`, `sentinel/core/recovery.py`) | the coroutine's position; the rows above | the step loop, retry, rollback, close | concurrent resumes of one plan, timeout and crash at any await | a tool of the plan is called once, in order, by one run; completion is recorded for plans performed whole; nothing runs over a rollback |
| **Clarifications** (`sidecar/services/clarification_service.py`, `sidecar/repositories/clarification_store.py`) | a JSON file and several whole copies of it in memory | ask, pending, resolve, cancel | stale copies write the whole file; two files written one after the other | a question is answered once; an acknowledged answer is final |
| **Continuations** (`sidecar/services/continuation_executor.py`, `sidecar/repositories/continuation_store.py`) | a record per continuation, copied by each request | create, start, confirm, cancel | handlers await between reading and putting back | one execution per grant; a cancelled grant performs nothing; what is performed is what was shown |
| **Circuit breaker** (`sentinel/core/circuit_breaker.py`) | five dictionaries per key, one lock | allow, success, failure, reset | late answers of calls admitted before an opening | one probe per opening |
| **Tool circuit** (`sentinel/core/tool_gateway.py`) | a breaker per tool | execute | uncounted failures, cancelled tasks | a circuit is closed exactly below its threshold |
| **Provider fallback** (`sentinel/routing/fallback_manager.py`, `sentinel/core/model_router.py`) | a breaker per provider; the candidates of each request | chat, stream | asking the breaker takes its probe; streams break off or are abandoned | requests end; answers of two providers are not mixed |
| **Offline queue** (`sentinel/core/offline_queue.py`) | a dictionary of items | enqueue, process, clear | concurrent passes, cancelled passes, late answers | an item is replayed by one pass, a bounded number of times, and never comes back |
| **Confirmations of single tools, emergency stop** (`sentinel/core/confirmation.py`, `sentinel/security/tool_guard.py`, `sidecar/services/permissions_service.py`) | tables `pending_actions`, `emergency_stop` | request, confirm, refuse, stop, resume | the row is deleted before it is judged; the stop overtakes calls between guard and gateway | one call per confirmation, for the session that asked; under a stop nothing of a tool it denies waits or starts |
| **Rate limit of tools** (`sentinel/security/tool_rate_limiter.py`) | a sliding window per tool, in memory | check | charged before anything else is decided; lost by a restart | no window lets through more than the limit |
| Network monitor, supervision, triggers, caches | small in-memory state each | | one actor each, or not wired in production | not modelled (section 6) |
| Everything else | see `PROJECT.json`, `components` | | sequential computations, stores of single rows, wrappers of the operating system | not modelled, each with its reason |

`PROJECT.json` lists every component with its status, and under `hazards` what in
this code is hard to test, at the line where it bites, with the properties that
cover it.

## 2. Modules

| Module | Models | Extends / instantiates |
|---|---|---|
| `ExecutionGrants` | the two grant tables, the repository's conditional updates, the broker's operations | |
| `ApprovedPlan` | abstract: what approving a plan promises | |
| `PlanExecution` | concurrent runs of `resume_approved_plan` and the step loop | extends `ExecutionGrants`; refines `ApprovedPlan` |
| `Clarification` | questions, answers and the copies of the two files | |
| `OneTimeAuthority` | abstract: what an authority the user was asked for promises | |
| `Continuation` | the handlers of `ContinuationExecutor` | extends `ExecutionGrants`; refines `OneTimeAuthority` |
| `CircuitBreaker` | one breaker entry and what each method makes of it (operators only) | |
| `ToolCircuit` | concurrent `ToolGateway.execute` calls | extends `CircuitBreaker` |
| `ProviderFallback` | concurrent chats and streams over chains of providers | extends `CircuitBreaker` |
| `OfflineQueue` | the queue and passes of `process_queue` | |
| `ToolConfirmation` | calls of one tool through rate limit, guard and gateway, their confirmations, the emergency stop | refines `OneTimeAuthority` |
| `MC…` | the instances TLC checks: symmetry sets, the chains, the users of sessions | |
| `…Proofs` | theorems and proofs about the module of that name, one for each of the eight state machines above, the abstract `ApprovedPlan` and `OneTimeAuthority` not counted | extends the module |

Definitions whose comment begins with "Mutant", or which describe a mistake
("FailedHalfOpen", "MarkedAbsent"), are not part of any specification: they are
plausible bugs, listed in `PROJECT.json`, each of which breaks the property it is
listed with when it takes the place of the definition it mutates.

### How state and actions correspond to the code

*Atomicity.* A coroutine gives way only at an `await`, so an action is the code
between two awaits. A repository method is one `BEGIN IMMEDIATE` transaction and
is one action, or part of one. `CircuitBreaker`'s methods are atomic under their
lock; in `ProviderFallback`, where requests run in threads, the lock is taken per
provider, so `filter_open_providers` takes one action for each.

*ExecutionGrants.* `plan[g]` is the row of grant `g` (status, number of steps,
expiry), `step[g][i]` the status of step `i`'s row. `TransitionPlan(g, from, to)` is
`transition_plan` with its silent expiry: a live row past its expiry becomes
`expired`, and the call is refused. `Transits` is its answer. Actor, session, plan
and parameter hashes are not modelled: a call with other bindings changes no row.

*PlanExecution.* `run[r].pc` is the await the run is at. `Spend` is the guard's
`consume_step`, which comes before the rate limit, the policy and the circuit can
still deny (`DenyTool`). `Retry` goes back to the guard with the same, now spent,
grant. `FailStep` starts the rollback (`UndoStep`, backwards), after which
`CloseFailed` calls `fail_plan`. `RaiseInStep` and `StopEarly` are the ways out that
never close the plan. `Finish` calls `complete_plan`, which commits *consumed*; the result
is an error if it refuses, and may still become one afterwards, if the grounding
requirements are not satisfied (`orchestrator.py:1318`). The run is then `succeeding`
or `failing`, and reports (`Report`) only after awaiting its last events, where the timeout
and the crash still reach it: a plan that is consumed may be reported as failed or not
at all. `calls`, `holder` and `undone` are history.

*Clarification.* `disk` and `contDisk` are the two files; `seen`, `contSeen` and
`contExec` the whole copies that the clarifications router and the executor read
when they are built and write back with every put. The copy of a streaming turn
is dropped with the turn, so `Ask` reads and writes the file in one action.
`ResolveTorn`, `ResolveUnsaved` and `CancelUnsaved` are the crash or the failing
write between two writes.

*Continuation.* `handler[h].copy` is the private copy a handler works on while the
orchestrator plans or executes; `record[k]` is what is in the store. `Digest` and
`PayloadSize` are constant because `_safe_plan_dict` reads an attribute the plan
does not have; for the same reason the branch of `Checked` for a material change
cannot be reached, and is kept because the code has it. `Expiry` is the end of a
grant's ten minutes on the bounded clock: a lifetime that ends past `MaxTime` never
ends. With a payload of size 0 `complete_plan` always refuses, so a continuation
that ran never gets to `verified` (theorem `NothingIsVerified`). Of `OneTimeAuthority`
a grant is *used* once its plan was performed, otherwise *none*, *asked*, or *given*
with its row absent, pending, or approved or in progress, and *void* with any other.

*ToolCircuit, ProviderFallback.* `circuit[k]` is a `CircuitBreaker` entry. Time is
reduced to what `allow_request` can tell: whether the last failure is a cooldown
old. `as` and `probing` are history: who was let through as the probe that the
circuit still waits for.

*ToolConfirmation.* `action[a]` is a row of `pending_actions`, `call[c]` a call of
`ExecutionPipeline.execute` at one of its awaits. `Guard` is one step because
`ToolExecutionGuard.execute` gives way nowhere between the rate limit and its decision;
it returns only on a denial, so a call for which it has stored a row still goes on to
`Gateway`, which decides anew and may store a second row (the one the user sees).
`Confirm` deletes the row and sends the call through the pipeline again, where it is
charged to the rate limit a second time. `Stop` sets the flag and clears the rows in one
step (`PermissionsService.emergency` does not await); `exempt` remembers, while the stop
is set, the calls that were past their last policy by then, which it cannot reach any
more. `Restart` keeps rows and flag, which are in SQLite, and loses calls and windows.
What a policy decides is chosen freely, except that under the stop the tool is denied,
unless it is one of the two that `EmergencyStopPolicy` spares by design
(`policies/security_policies.py:250-263`): `permissions.status`, and
`permissions.emergency` to resume. The variable `spared`, which is chosen once for all
and never changes, says whether the tool is one of them. Such a call runs under the
stop, and where a granular rule (lines 218-229) or the list of dangerous tools wants it
confirmed, guard and gateway store its rows under the stop too; its answer comes by
`POST /confirm` of `routers/v1/execute.py`, which calls `ToolGateway.confirm` and asks
no policy about the answer itself. Parameters are not modelled, and neither is the cleanup of expired rows, which
nothing in production calls. Of `OneTimeAuthority` a confirmation is *none* or *asked*
with its row unused or pending; once the row is gone it is *used* if the call that spent
it ran, *given* while that call is on its way, and *void* otherwise.

*OfflineQueue.* `pass[w]` is a coroutine of `process_queue` at its await. `Take` is the
loop from one await to the next, with `dequeue`'s choice of the oldest eligible
item.

## 3. Runs

| Run | Instance | Distinct states | Shows |
|---|---|---|---|
| `grants` | 2 grants, up to 2 steps, clock 0..1 | 10 257 | the rows are safe under every order of broker calls |
| `execution` | 1 grant, 3 runs, up to 2 steps, clock 0..1, 2 attempts | 223 610 | execution properties, refinement of `ApprovedPlan`, closing of the plan |
| `claim` | 1 grant, 2 runs | violated | finding 1 |
| `clarification` | 2 sessions, 2 requests, 2 questions, 3 continuations, retention 1, 2 faults | 370 920 | replay protection through copies, faults and restarts |
| `clarification_durable` | as above, no faults | violated | finding 2 |
| `continuation` | 1 continuation, 4 handlers, 2 grants, 2 plans, clock 0..2 | 19 111 | confirmations, cancellations and crashes race safely; refinement of `OneTimeAuthority` |
| `continuation_shown` | the same | violated | finding 3 |
| `tool_circuit` | threshold 2, 2 tools, 3 calls | 8 622 | the circuit under late answers, resets, cancellations |
| `fallback` | threshold 2, 2 providers, 2 requests, all chains, chats and streams | 130 936 | probes, streams, termination |
| `fallback_skipped` | the same, chats only | violated | finding 4 |
| `offline_queue` | 3 items, 2 passes, 2 retries, 3 items a pass | 5 157 | exclusive and bounded replay |
| `tool_confirmation` | 3 calls, 2 confirmations, 3 sessions of 2 users, clock 0..2, lifetime 1, 2 calls in a window of 2, a tool the stop denies or spares | 1 882 909 | single use of confirmations, the emergency stop, the rate limit; refinement of `OneTimeAuthority` |

### Why the bounds are enough for the cases to happen

- **Grants.** Grants do not interact, so two show that an operation on one leaves
  the other alone. Two steps are the least with an order and a missing middle
  state; an expiry that is already past, the clock's last instant and one beyond
  it give grants that are born expired, expire and never expire. The theorems of
  section 5 cover every other size.
- **Execution.** Three runs on one grant are a winner, a loser of the race for the
  first step, and a third that comes after either has ended, which two cannot
  show. Two attempts reach the retry of a step that is spent.
- **Clarifications.** Two questions of one session, or of two, reach superseding,
  compaction (retention 1) and the overwriting of one copy by another; three
  continuations are one more than the questions, so that a second continuation of
  one question is possible; two faults give a fault during the recovery from a
  fault.
- **Continuations.** Four handlers are a start, two racing confirmations and a
  cancellation. Two plans let the second planning pass differ from the first. Clock
  and lifetime let a grant expire while a handler waits.
- **Circuits.** A threshold of 2 separates the first failure from the tripping one;
  three calls are one that trips, one that probes and one that answers late. Two
  providers and every chain over them include the fallback that is asked and never
  called. Failures are counted to one past the threshold, beyond which nothing
  depends on the count.
- **Queue.** Two passes over three items, each with two tries, take every item from
  either pass, use up its retries over both, and exhaust a pass's share.

- **Confirmations.** Two confirmations and three calls let the call that asked be followed by
  two that answer, to one row or to the two rows of one request. Two sessions of one
  user and one of another tell apart what is refused with the row kept, refused with
  the row spent, and granted. A lifetime of 1 on a clock of 2 has answers in time, at
  the last instant and late; the window of 2 is left while the clock still runs, and
  a limit of 2 is reached by three calls. All stops and restarts are free, for a tool that
  the stop denies and for one it spares. Calls, rows, and the two sessions of one user are
  interchangeable; the run has the permutations of each as its symmetry.

Deadlock is checked except in the two `Clarification*` and the two `Continuation*`
configurations, where the bounded questions and handlers run out and the system
rightly stops.

### Properties that hold

- `OneStepAhead`, `CompletedPlanIsSpent`, `ClosedPlanOnlyDrains`,
  `NothingSpentAfterExpiry`: the rows of a plan are a consumed prefix followed by at most one
  outstanding step; *consumed* means every step was spent; a closed plan can only
  spend the step already outstanding; nothing is spent after expiry although
  expiry is lazy.
- `CalledOnceInOrder`, `SingleExecutor`, `CompletedMeansPerformed`, `NoCallAfterUndo`,
  `KeepsPromise`, `LoopClosesPlan`: however resumes race, retries repeat and crashes cut
  off, the tool of a step is called once at most and in order, all effects of a plan
  come from one run, a plan is recorded as consumed only if one run performed it whole
  with nothing rolled back, and only that run reports success (it may be cut off
  before it does, or report an error after the fact), and a rolled-back plan is
  not continued. The price is visible in the same
  model: a plan interrupted after its first step can never be resumed with success.
- `ResolvedOnce`, `AcknowledgedIsFinal`: a question leads to one continuation, and to
  one more only for an answer that was cut off between its two writes; an
  acknowledged answer is never undone.
- `OneExecutionPerGrant`, `CancelledGrantNeverPerformed`, `PerformedOnConfirmation`: approving
  the pending grant is the only gate, and it is enough.
- `GrantsOneTime`, `ConfirmsOneTime`: the grant of a continuation and the confirmation of a
  tool, two mechanisms with two tables, keep the same promise (`OneTimeAuthority`): given
  only when asked for, used once at most and only when given, and never given or used
  again. That what was given is used is not promised, and does not hold.
- `OneProbePerOpening`, `ClosedBelowThreshold`, `ProbedAfterCooldown`,
  `HalfOpenAdmitsNobody`: a breaker has one probe per opening, and a probe that ends
  without an answer (an uncounted failure, a cancelled task) blocks its tool for good:
  time does not help, only a late answer or a reset does. `StreamsNeverMix`,
  `RequestsEnd`.
- `OnePassPerItem`, `ReplaysBounded`, `SettledStaysSettled`: passes that interleave, answers
  that come late, cancelled passes and restarts neither replay an item twice at a time
  nor bring a settled one back.
- `OneCallPerConfirmation`, `ConfirmedByItsSession`: a confirmation is worth one call, given
  by the session that asked, in time. It may be worth none: a confirmed call that the
  rate limit or a policy denies has already lost its row.
- `StopLeavesNothingPending`, `StopHalts`: for every tool but the two that the stop spares by
  design, what was asked before an emergency stop cannot be confirmed after it, and a
  call the guard has let through is still stopped by the gateway; only calls past the
  gateway's own policies run on.
- `CallsPerWindow`: the sliding window holds for every window, at its very boundaries too.

### Findings

1. **`ClaimIsExclusive`** (`sentinel/core/confirmation.py:147`). Resuming accepts a plan
   already in progress: two requests run one plan at the same time. The step
   grants still keep the effects to one of them (`SingleExecutor`), but the loser
   fails the plan, and the winner's completion is then refused. What does hold:
   `RacingRunsStandStill`.
2. **`ContinuationsAreDurable`** (`sidecar/repositories/continuation_store.py:94`). Two stores
   hold copies of one file and each put writes all of it: the executor erases the
   continuations that were created after it read the file. That this is the only way
   to lose one: `LossesAreLocated`.
3. **`PerformedAsShown`** (`sidecar/services/continuation_executor.py:36`). The digest that
   confirmation compares is the same for all plans, so the plan that is executed
   can differ from the one the user was shown. The same empty payload keeps every
   continuation from being verified: `NothingIsVerified`.
4. **`SkippedOnlyWhileProbed`** (`sentinel/routing/fallback_manager.py:83`). Asking the breaker
   about a fallback takes its probe. If the provider before it answers, nobody
   reports back and the fallback is skipped from then on. That this and an abandoned
   stream are the only ways: `LostProbesAreLocated`.

Further departures met while modelling are under `hazards`: the CHECK constraint that
makes `invalidate_by_plan_id` fail on every live grant, the offline queue that is
called persistent and lives in memory, the rows that the guard stores and nobody is
shown, and two racing starts of one continuation, each of which requests a grant, so
that the user can confirm it twice and have it performed twice.

## 4. Fairness

Liveness is checked in two runs.

- `PlanExecution!FairSpec` has weak fairness of `RunStep(r)`: the event loop keeps
  resuming a coroutine that can go on, and tools answer or fail. Not fair:
  requests, approvals, cancellations, time, the timeout and the crash.
  `LoopClosesPlan` therefore allows a run that was cut off (`gone`).
- `ProviderFallback!FairSpec` has weak fairness of `Proceed(r)`: calls of providers have
  timeouts, and the server reads a stream to its end or closes it. New requests,
  further content of a stream, resets and cooldowns are not fair.

Nothing else is assumed, and all other specifications are safety only.

## 5. Proofs

The theorems hold for every value of the constants under the named assumptions of
the modules: at least one step, attempt, failure, retry, item of a pass and call of a
window (`BoundsAssumption`, `AttemptsAssumption`, `FailureThresholdAssumption`,
`LimitsAssumption`), a positive lifetime and retention, chains of providers without
repetition, a user for every session, and "no run", "no grant", "no item" and "no action"
being none of them. `MaxSteps`, `MaxTime` and the bounds of `Clarification` are arbitrary natural numbers
there, and the sets of grants, runs, handlers, tools, calls, requests, items and sessions
are arbitrary sets, infinite ones included.

**`ExecutionGrantsProofs`.** `GrantsInv` is the type invariant with `OneStepAhead` and
`CompletedPlanIsSpent`. The key lemma, `PrefixCount`, is that a set of indices closed
downwards is determined by its size: `complete_plan` only *counts* consumed rows, and
its count means the right rows because they form a prefix, so `CompletedPlanIsSpent`
is not inductive without `OneStepAhead`. Lemma `StepKinds` reduces the operations to
the few things they do to the rows. Theorems: `GrantsTypeCorrect`, `StepOrder`,
`CompletionIsSpent`, and the action properties `ClosedPlanDrains` and
`ExpiryBindsSpending`.

**`PlanExecutionProofs`.** Every step of the execution is a step of the rows or leaves
them alone (`RowsStep`), hence `ExecutionUsesGrants`: the theorems about the rows hold of
the execution. The inductive invariant `Inv` adds where a run stands in its plan
(`Position`), that the rows and the history agree (`Ledger`: a step has a holder exactly
when it is consumed, and is called only then), and what a run owns (`Possession`: a run
at step *n* spent and called every step before *n* itself). `Possession` is what makes
`SingleExecutor` inductive: a run can be issued step *n* only after it spent
0..*n*-1, so a second run, which starts over at 0, is stopped there. `UndoneIsOver` (a
reversed step belongs to a run that is rolling back or has ended) gives `NoCallOverRollback`,
and with it a consumed plan keeps the run that performed it (`ConsumedIsPerformed`), cut off
or not; `SuccessIsRecorded` and `ReporterIsPerformer` say that a run on its way to report
success is that run. Together they are `CompletionIsPerformance`. Theorems:
`ExecutionTypeCorrect`, `ExecutionUsesGrants`, `AtMostOneCall`, `OneRunExecutes`,
`NoCallOverRollback`, `CompletionIsPerformance`.

`PromiseIsKept` is the refinement of `ApprovedPlan`. It needs `Promising` besides: a row
that is not there has no size, only steps of the plan are called, and a run that is
under way began after the approval. `RowRefines` takes the steps that change a row (they
draw, grant, complete or close; a completed plan has performed every step, by
`PerformedCount`), `CallRefines` the call of a tool, which performs exactly one more step
and only of a plan that is granted or closed; all other steps are stutters.

Four theorems say what the loop does keep where a claim on it fails or is liveness.
`OutcomesClosePlan`: a run that reports success or failure has closed its plan before it
starts to report. Its
invariant is `Closing` (the plan of a run is claimed, and rows exist for steps of the plan
only), and its point `FinishedIsCompletable`: a run that did every step is turned down by
`complete_plan` only if the plan expired. `AuthorityIsEarned`: a row for step *n* exists
only once the tools before *n* were called, although the repository knows of rows alone.
`RacingRunsStandStill`, from `Possession`: while one run has a tool of a plan authorised or
running no other has, nor is another past the first step; this holds in place of
`ClaimIsExclusive`. `RunsRunOut`: every step of a run lowers the variant `Rank`, made of the
steps ahead, the attempts left and the rollback left, and what others do in between does
not raise it. With `OutcomesClosePlan` it is the safety half of `LoopClosesPlan`.

**`ToolCircuitProofs`.** `Sound` says what every method of the breaker keeps true of one
entry (`FailedSound` is the interesting one: the count never falls below the threshold
while the circuit is not closed, and a failure never half-opens). `Awaited` says that a
probe's circuit is half-open with its flag set, without which "one probe" is not
inductive: it is why a circuit that admits a probe has none. `SilentProbesBlock` locates
the tool that is blocked for good: it comes about only when the probe itself ends and
nothing was counted for it, and ends only with a reset or the late answer of a call
admitted before the opening, never by the passing of time. Theorems:
`CircuitTypeCorrect`, `OneProbe`, `ClosedMeansBelow`, `ProbesWait`, `ProbeBlocks`,
`SilentProbesBlock`.

**`ProviderFallbackProofs`.** The same argument over a chain: a request waits for probes at
half-open circuits only (`Awaited`), and no two requests for the same one (`Distinct`).
`DecidedStep` is that an answer, whoever's, ends every wait at its provider. A stream that
has content is out of reach of the fallback because it is no longer calling.

`RequestsAreBounded` is the safety half of `RequestsEnd`: every step of a request lowers its
`Work` (two for each provider still to be asked, one for each still to be called), and
other requests and resets do not raise it. `FallbackGoesDown` needs `NoRepetition` (what is
still to be asked and what is to be called have no provider in common or twice), and says
that a provider whose call failed is not called again by the request.
`LostProbesAreLocated` is finding 4 seen from the inside. By `ProbesAhead` a request holds
probes only at providers it has yet to call, so a provider is left waiting for nobody only
by a request that is answered by, or breaks off at, another provider, or by an abandoned
stream; and only a reset or a late answer of that provider ends it. Theorems:
`FallbackTypeCorrect`, `OneProbe`, `StreamsKeepTheirProvider`, `RequestsAreBounded`,
`FallbackGoesDown`, `LostProbesAreLocated`.

**`OfflineQueueProofs`.** `Paid` is an account: the replays of an item are those counted
against it, and one more while it is being replayed or once that one settled it. With
`Awaited` (the item a pass waits for is still syncing, unless cleared) and `Distinct`,
`TakeStep` is proved once for all the ways a pass goes on. `ItemCourse` lists what a step can
make of one item; from it follow `GivenUpAfterRetries` (an operation is given up after
exactly `max_retries` replays, all failed, and no cancellation or late answer uses one up)
and `StrandedByCancellation` (an item is left syncing without a pass only by a cancelled
replay, and then no pass takes it up again). Theorems: `QueueTypeCorrect`,
`OneReplayAtATime`, `BoundedReplays`, `SettledIsFinal`, `GivenUpAfterRetries`,
`StrandedByCancellation`.

**`ContinuationProofs`.** Handlers work on copies, so nothing follows from the record in
the store; what holds is about grants. `Alone` says that no two handlers are past the
approval of one grant, because approving turns the row from pending once and for all
(`ApprovalIsExclusive`), and `Ledger` that a row in progress has been performed, so a
handler that is about to perform finds it untouched.

`ContinuationsUseGrants` is that the handlers do to the rows only what `ExecutionGrants`
allows, so that its theorems hold under them. `GrantsAreOneTime` refines
`OneTimeAuthority`: `Ledger` makes the number of uses 0 or 1 and ties it to the row, and
each step of a row is an asking, a giving, a use or an end of it. `NothingIsVerified`
follows from `Unverified`, that every payload is empty, and from `CompletedPlanIsSpent`.
`GrantsStayWithTheirContinuation` is about whose grant it is: no two continuations go by
one grant, in the store or in any copy. It needs `ReferencesAreRows`, that a grant somebody
goes by has been requested, because only then is a new grant nobody's; `RefersStep` is
that a continuation comes by a grant in no other way than its own start's request. One
continuation may go by several grants in turn, which is the hazard of racing starts.
Theorems: `ContinuationTypeCorrect`, `GrantIsSpentOnce`, `CancellationWins`,
`ConfirmedAndInTime`, `GrantsAreOneTime`, `ContinuationsUseGrants`, `NothingIsVerified`,
`GrantsStayWithTheirContinuation`.

**`ClarificationProofs`.** A question is `Open` if the file or the router's copy would still
take an answer. `Balanced` relates it to the continuations it has: an open question has
at most as many as answers were cut off, a closed one at most one more. It does not
matter which copies are stale: an answer closes the question in the copy it was read
from and in the file together, and no write opens what is closed in both.
`NoAnswerWithoutContinuation` rests on the order of the two writes of `resolve`: a question
recorded as consumed, in the file or in a copy, has led to a continuation, whatever fails.
`LossesAreLocated` is finding 2 seen from the inside: by `CopiesInOrder` the router's copy
covers the file and the file covers the executor's copy, so that only a save of the
executor can drop a record, and only one its copy is too old for. Theorems:
`ClarificationTypeCorrect`, `ReplayProtection`, `AnswersAreFinal`,
`NoAnswerWithoutContinuation`, `LossesAreLocated`.

**`ToolConfirmationProofs`.** `Spent` ties a call to the row it has spent, which stays
deleted, and `Exclusive` makes it the only one; an overtaken call that asks for a
confirmation under the stop would break `StopLeavesNothingPending`, and is excluded
because `Gateway` denies the tool first, if the stop does not spare it. `WindowSound` is
what the rate limit needs: the calls let through whose time has not left the window are
among the entries the limiter keeps, and no more than the limit.
`ConfirmationsAreOneTime` refines `OneTimeAuthority`: by `Standing` the phase of a
confirmation is that of its row, or, once spent, of the one call that holds it, and its
uses are counted by the phase; `OneTurn` and `SomeEnd` take the steps that move one
confirmation, or end several. `LossesHaveACause` says what that promise leaves open: a
confirmation comes to nothing only by its own answer (a refusal, or one that is late or
of another session), by the stop before it is answered, or with the call it was given
for, denied by the guard, ended or cut off by a restart. Theorems:
`ConfirmationTypeCorrect`, `SingleUse`, `BoundToItsSession`, `StopSweeps`,
`StopReachesCalls`, `RateLimitHolds`, `ConfirmationsAreOneTime`, `LossesHaveACause`.

**Only model-checked.** The liveness properties `LoopClosesPlan` and `RequestsEnd`. Their safety
halves are proved (above); that fairness brings a run or a request to its next step
needs ENABLED, which is out of the prover's reach. Every other property of a passing run is
a theorem. The four violated properties are refuted by TLC's counterexamples.

**Only proved.** The theorems that no run's property states (`OutcomesClosePlan` to
`LossesHaveACause` above) are about the same specifications, for every value of the
constants; each formula was checked by TLC on the instance of section 3, or a smaller
one, before its proof.

## 6. What the models leave out

- Identity, session, plan and parameter bindings of a plan's grant: assumed to match; a
  mismatch is refused before any row changes.
- The parameters of a confirmed call. They are stored redacted (`confirmation.py:268`), so
  a tool with a secret parameter is called with the placeholder after its
  confirmation; a model of it would say no more than that line.
- `invalidate_by_plan_id`, which changes no row (hazard at `database.py:677`).
- Wirings without a confirmation broker or a hardening manager, which production
  does not use.
- Statistics, audit entries, events, logging and the text of messages; calls a
  circuit blocks, which answer at once and change nothing.
- What a tool, a model or a rollback tool does: an outcome chosen freely.
- The ranking of providers: a chain is any sequence without repetition.
- SQLite and file writes as such: a transaction and an `os.replace` are atomic.
- The format of times. Expiries are compared as strings, which orders them as times only
  because all are written in one format; the models compare numbers.
- Threads that outlive their coroutine. A tool that blocks in a thread may go on working
  after its timeout has cancelled the coroutine that awaited it, so its effect may
  come later than the step's failure, even during the rollback of earlier steps: what
  the properties bound is when tools are called, not when their effects end.
- `PermissionsService.create_pending_action` and `confirm_action`, the `sim_` rows that only
  announce a plan, and the cleanup of expired rows: no production code calls the first
  two and the last, and a `sim_` row grants nothing.

### Not modelled

Most of the repository's lines are tools, front ends, stores of single rows, text and
scores. They have no state that two actors share, or share it through one atomic
update, and a model of them would repeat the code:

- *Intent, planning, simulation, risk, decision.* A sequential computation over model
  answers; `PlanExecution` takes any plan it could produce.
- *Network monitor and triggers.* Nothing in production starts the monitor's loop, and the
  trigger engine is built without a function to execute, so neither has a second party
  to race with. The passes of the offline queue a reconnection would start are the `Sync` action.
- *Supervision.* One loop over processes of the operating system; what matters there
  (reuse of process ids, killing of orphans) would be an assumption of the model. A
  restart of the sidecar is an action of every model where something survives or is
  lost by it.
- *Hierarchical and HTTP rate limits.* The same window as `ToolRateLimiter`, once per tier
  or address.
- *Caches, events, memory, agents, plugins, consent, ranking, authentication, files,
  fleet, tools, user interface.* `PROJECT.json` gives the reason for each.
