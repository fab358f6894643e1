----------------------------- MODULE ToolCircuit -----------------------------
(***************************************************************************)
(* ToolGateway.execute from its circuit check on: concurrent calls of      *)
(* tools, each let through by the tool's circuit, awaiting the tool, and   *)
(* reporting to the circuit what came of it, or nothing.                   *)
(***************************************************************************)
EXTENDS CircuitBreaker, FiniteSets

CONSTANTS
    Tools,
    Calls,      \* calls of execute that may be under way at once
    NoTool

VARIABLES
    circuit,    \* circuit[t]: the hardening manager's breaker, for tool t
    call        \* call[i]: where the call is; as is history, see Role

vars == <<circuit, call>>

\* Why the circuit let the call through: it was closed, or it was the probe of
\* an opening; "late" once the circuit has left the half-open state it probed.
Role == {"plain", "probe", "late"}

TypeOK ==
    /\ circuit \in [Tools -> Circuit]
    /\ call \in [Calls -> [at: {"idle", "running", "reporting"},
                           tool: Tools \cup {NoTool}, as: Role]]

Idle == [at |-> "idle", tool |-> NoTool, as |-> "plain"]

Init ==
    /\ circuit = [t \in Tools |-> Fresh]
    /\ call = [i \in Calls |-> Idle]

Running(i, t) == call[i].at = "running" /\ call[i].tool = t

\* The circuit of t becomes c, and the calls those of after; a probe is late
\* when its circuit has been decided without it or by it.
Becomes(t, c, after) ==
    /\ circuit' = [circuit EXCEPT ![t] = c]
    /\ call' = IF c.state = "half_open" THEN after
               ELSE [i \in Calls |->
                        IF after[i].tool = t /\ after[i].as = "probe"
                        THEN [after[i] EXCEPT !.as = "late"] ELSE after[i]]

------------------------------------------------------------------------------
\* The circuit lets the call through; a call it blocks answers at once and
\* changes nothing here.
Begin(i, t) ==
    /\ call[i].at = "idle"
    /\ Allows(circuit[t])
    /\ Becomes(t, Admitted(circuit[t]),
               [call EXCEPT ![i] = [at |-> "running", tool |-> t,
                                    as |-> IF circuit[t].state = "closed" THEN "plain" ELSE "probe"]])

\* The tool answered: a success is recorded, a failure only when
\* should_trip_circuit (transient or fatal).
Succeed(i, t) ==
    /\ Running(i, t)
    /\ Becomes(t, Succeeded(circuit[t]), [call EXCEPT ![i].at = "reporting"])

FailsCounted(i, t) ==
    /\ Running(i, t)
    /\ Becomes(t, Failed(circuit[t]), [call EXCEPT ![i].at = "reporting"])

FailsUncounted(i, t) ==
    /\ Running(i, t)
    /\ call' = [call EXCEPT ![i].at = "reporting"]
    /\ UNCHANGED circuit

\* wait_for gave up: always a failure.
TimesOut(i, t) ==
    /\ Running(i, t)
    /\ Becomes(t, Failed(circuit[t]), [call EXCEPT ![i] = Idle])

\* The tool raised, or what follows its answer did (the quality gate, the
\* observability span, the event): counted when the category says so, on top of what
\* was recorded for the answer.
RaisesCounted(i, t) ==
    /\ call[i].at # "idle" /\ call[i].tool = t
    /\ Becomes(t, Failed(circuit[t]), [call EXCEPT ![i] = Idle])

\* The call ends with nothing more recorded: it returned, raised something
\* that is not counted, or its task was cancelled (CancelledError is no
\* Exception).
Ends(i) ==
    /\ call[i].at # "idle"
    /\ call' = [call EXCEPT ![i] = Idle]
    /\ UNCHANGED circuit

\* circuit_breaker.reset_tool, for one tool or, without an id, for all.
Reset(S) ==
    /\ circuit' = [t \in Tools |-> IF t \in S THEN Fresh ELSE circuit[t]]
    /\ call' = [i \in Calls |->
                   IF call[i].tool \in S /\ call[i].as = "probe"
                   THEN [call[i] EXCEPT !.as = "late"] ELSE call[i]]

CoolDown(t) ==
    /\ circuit[t].state # "closed" \/ circuit[t].failures > 0
    /\ circuit' = [circuit EXCEPT ![t] = Cooled(circuit[t])]
    /\ UNCHANGED call

Next ==
    \/ \E i \in Calls, t \in Tools :
        \/ Begin(i, t) \/ Succeed(i, t) \/ FailsCounted(i, t) \/ FailsUncounted(i, t)
        \/ TimesOut(i, t) \/ RaisesCounted(i, t)
    \/ \E i \in Calls : Ends(i)
    \/ \E S \in {{t} : t \in Tools} \cup {Tools} : Reset(S)
    \/ \E t \in Tools : CoolDown(t)

Spec == Init /\ [][Next]_vars

------------------------------------------------------------------------------
(* Properties                                                              *)

Probes(t) == {i \in Calls : call[i].tool = t /\ call[i].as = "probe"}

\* An opening has one probe: however answers of earlier calls, resets and
\* cancellations interleave, two calls are never both the probe that the
\* half-open circuit waits for (allow_request, circuit_breaker.py:46-58).
OneProbePerOpening == \A t \in Tools : Cardinality(Probes(t)) <= 1

\* A circuit is closed exactly while the failures since the last success are
\* fewer than the threshold, whatever order the answers of concurrent calls
\* come in (record_success and record_failure, circuit_breaker.py:24-38).
ClosedBelowThreshold ==
    \A t \in Tools : circuit[t].state = "closed" <=> circuit[t].failures < FailureThreshold

\* While a circuit is half-open no failure is newer than a cooldown: a failure
\* that comes in from an older call reopens it, and the tool is left alone for a
\* cooldown again (circuit_breaker.py:36-38, 45-49).
ProbedAfterCooldown ==
    \A t \in Tools : circuit[t].state = "half_open" => circuit[t].cooled

\* A half-open circuit lets nobody else through, however much time passes and
\* even when its probe is gone without an answer: only an answer or a reset makes
\* the tool available again (circuit_breaker.py:48-51, tool_gateway.py:499-501).
HalfOpenAdmitsNobody ==
    [][\A t \in Tools : circuit[t].state = "half_open" =>
           \A i \in Calls : call[i].at = "idle" /\ call'[i].at # "idle" => call'[i].tool # t]_vars

=============================================================================
