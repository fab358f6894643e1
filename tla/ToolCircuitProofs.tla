-------------------------- MODULE ToolCircuitProofs --------------------------
(***************************************************************************)
(* What the circuits of ToolGateway keep to, for any number of tools and   *)
(* of calls under way and any threshold.                                   *)
(***************************************************************************)
EXTENDS ToolCircuit, FiniteSetTheorems, TLAPS

\* What a breaker entry is at all times: closed exactly below the threshold,
\* half-open only a cooldown after the last failure and with its probe taken.
Sound(c) ==
    /\ c \in Circuit
    /\ c.state = "closed" <=> c.failures < FailureThreshold
    /\ c.state = "half_open" => c.cooled /\ c.probe

\* A probe is one its circuit waits for.
Awaited(i) ==
    call[i].as = "probe" =>
        /\ call[i].tool \in Tools
        /\ circuit[call[i].tool].state = "half_open"
        /\ circuit[call[i].tool].probe

\* Two calls are not the probe of one circuit.
Distinct(i, j) ==
    call[i].as = "probe" /\ call[j].as = "probe" /\ call[i].tool = call[j].tool => i = j

Inv ==
    /\ TypeOK
    /\ \A t \in Tools : Sound(circuit[t])
    /\ \A i \in Calls : Awaited(i)
    /\ \A i, j \in Calls : Distinct(i, j)

------------------------------------------------------------------------------
(* The methods of CircuitBreaker on one entry                              *)

LEMMA FreshSound == Sound(Fresh) /\ Fresh.state # "half_open"
BY FailureThresholdAssumption DEF Sound, Fresh, Circuit, MaxFailures

LEMMA SucceededSound ==
    ASSUME NEW c, Sound(c)
    PROVE  Sound(Succeeded(c)) /\ Succeeded(c).state # "half_open"
<1>1. c \in Circuit
  BY DEF Sound
<1>2. /\ Succeeded(c).state = "closed"
      /\ Succeeded(c).failures = 0
  BY <1>1 DEF Succeeded, Circuit
<1>3. Succeeded(c) \in Circuit
  <2>1. 0 \in 0 .. MaxFailures
    BY FailureThresholdAssumption DEF MaxFailures
  <2> QED BY <1>1, <2>1 DEF Succeeded, Circuit
<1>4. 0 < FailureThreshold
  BY FailureThresholdAssumption
<1> HIDE DEF Succeeded
<1> QED BY <1>2, <1>3, <1>4 DEF Sound

\* A failure of a half-open circuit reopens it, and no failure half-opens one.
LEMMA FailedSound ==
    ASSUME NEW c, Sound(c)
    PROVE  Sound(Failed(c)) /\ Failed(c).state # "half_open"
<1> DEFINE n == CountFailure(c.failures)
<1>1. c \in Circuit /\ c.failures \in 0 .. MaxFailures
  BY DEF Sound, Circuit
<1>2. /\ n \in 0 .. MaxFailures
      /\ c.failures >= FailureThreshold => n >= FailureThreshold
  BY <1>1, FailureThresholdAssumption DEF CountFailure, MaxFailures
<1> HIDE DEF n
<1>3. Failed(c) = IF c.state = "half_open" \/ n >= FailureThreshold
                  THEN [c EXCEPT !.state = "open", !.failures = n, !.probe = FALSE, !.cooled = FALSE]
                  ELSE [c EXCEPT !.failures = n, !.cooled = FALSE]
  BY <1>1 DEF Failed, Trips, Counted, Circuit, n
<1>4. Failed(c) \in Circuit /\ Failed(c).failures = n
  BY <1>1, <1>2, <1>3 DEF Circuit
<1>5. CASE c.state = "half_open" \/ n >= FailureThreshold
  <2>1. Failed(c).state = "open"
    BY <1>1, <1>3, <1>5 DEF Circuit
  <2>2. n >= FailureThreshold
    BY <1>1, <1>2, <1>5, FailureThresholdAssumption DEF Sound, MaxFailures
  <2> QED BY <1>2, <1>4, <2>1, <2>2, FailureThresholdAssumption DEF Sound, MaxFailures
<1>6. CASE ~(c.state = "half_open" \/ n >= FailureThreshold)
  <2>1. Failed(c).state = c.state
    BY <1>1, <1>3, <1>6 DEF Circuit
  <2>2. c.state = "closed"
    BY <1>1, <1>2, <1>6, FailureThresholdAssumption DEF Sound, Circuit, MaxFailures
  <2> QED BY <1>2, <1>4, <1>6, <2>1, <2>2, FailureThresholdAssumption DEF Sound, MaxFailures
<1> QED BY <1>5, <1>6

LEMMA AdmittedSound ==
    ASSUME NEW c, Sound(c), Allows(c)
    PROVE  /\ Sound(Admitted(c))
           /\ c.state = "closed" => Admitted(c).state = "closed"
           /\ c.state # "closed" => Admitted(c).state = "half_open" /\ Admitted(c).probe
BY FailureThresholdAssumption DEF Sound, Admitted, Allows, Circuit, MaxFailures

LEMMA CooledSound ==
    ASSUME NEW c, Sound(c)
    PROVE  /\ Sound(Cooled(c))
           /\ Cooled(c).state = c.state
           /\ Cooled(c).probe = c.probe
BY DEF Sound, Cooled, Circuit

------------------------------------------------------------------------------
(* The steps                                                               *)

CallRecord == [at: {"idle", "running", "reporting"}, tool: Tools \cup {NoTool}, as: Role]

\* after makes no call a probe that was none.
NoNewProbe(after) ==
    /\ after \in [Calls -> CallRecord]
    /\ \A i \in Calls : after[i].as = "probe" => call[i].as = "probe" /\ after[i].tool = call[i].tool

\* An answer decides the circuit of t: it is not half-open afterwards, and has no probe.
LEMMA DecidedStep ==
    ASSUME Inv, NEW t \in Tools, NEW c, Sound(c), c.state # "half_open",
           NEW after, NoNewProbe(after), Becomes(t, c, after)
    PROVE  Inv'
<1>1. circuit' = [circuit EXCEPT ![t] = c]
  BY DEF Becomes
<1>2. call' = [i \in Calls |-> IF after[i].tool = t /\ after[i].as = "probe"
                               THEN [after[i] EXCEPT !.as = "late"] ELSE after[i]]
  BY DEF Becomes
<1>3. TypeOK'
  BY <1>1, <1>2 DEF Inv, TypeOK, Sound, NoNewProbe, CallRecord, Role
<1>4. \A u \in Tools : Sound(circuit'[u])
  BY <1>1 DEF Inv, TypeOK
<1>5. \A i \in Calls : call'[i].as = "probe" =>
          call[i].as = "probe" /\ call'[i].tool = call[i].tool /\ call[i].tool # t
  BY <1>2 DEF NoNewProbe, CallRecord
<1>6. \A i \in Calls : Awaited(i)'
  BY <1>1, <1>5 DEF Inv, TypeOK, Awaited
<1>7. \A i, j \in Calls : Distinct(i, j)'
  BY <1>5 DEF Inv, Distinct
<1> QED BY <1>3, <1>4, <1>6, <1>7 DEF Inv, Sound

\* The circuits stay as they are.
LEMMA SameCircuits ==
    ASSUME Inv, NoNewProbe(call'), UNCHANGED circuit
    PROVE  Inv'
<1>1. TypeOK'
  BY DEF Inv, TypeOK, NoNewProbe, CallRecord
<1>2. \A i \in Calls : Awaited(i)'
  BY DEF Inv, Awaited, NoNewProbe
<1>3. \A i, j \in Calls : Distinct(i, j)'
  BY DEF Inv, Distinct, NoNewProbe
<1> QED BY <1>1, <1>2, <1>3 DEF Inv, Sound

LEMMA BeginStep ==
    ASSUME Inv, NEW i \in Calls, NEW t \in Tools, Begin(i, t)
    PROVE  Inv'
<1> DEFINE as == IF circuit[t].state = "closed" THEN "plain" ELSE "probe"
           begun == [at |-> "running", tool |-> t, as |-> as]
           after == [call EXCEPT ![i] = begun]
<1>1. Becomes(t, Admitted(circuit[t]), after) /\ Allows(circuit[t]) /\ call[i].at = "idle"
  BY DEF Begin
<1>2. Sound(circuit[t])
  BY DEF Inv
<1>3. /\ Sound(Admitted(circuit[t]))
      /\ circuit[t].state = "closed" => Admitted(circuit[t]).state = "closed"
      /\ circuit[t].state # "closed" =>
             Admitted(circuit[t]).state = "half_open" /\ Admitted(circuit[t]).probe
  BY <1>1, <1>2, AdmittedSound
<1>4. CASE circuit[t].state = "closed"
  <2>1. NoNewProbe(after)
    BY <1>4 DEF Inv, TypeOK, NoNewProbe, CallRecord, Role
  <2> QED BY <1>1, <1>3, <1>4, <2>1, DecidedStep
<1>5. CASE circuit[t].state # "closed"
  <2>1. circuit' = [circuit EXCEPT ![t] = Admitted(circuit[t])] /\ call' = after
    BY <1>1, <1>3, <1>5 DEF Becomes
  <2>2. TypeOK'
    BY <1>3, <1>5, <2>1 DEF Inv, TypeOK, Sound, Role
  <2>3. \A u \in Tools : Sound(circuit'[u])
    BY <1>3, <2>1 DEF Inv, TypeOK
  <2>4. call'[i] = begun /\ \A j \in Calls \ {i} : call'[j] = call[j]
    BY <2>1 DEF Inv, TypeOK
  \* The circuit was open, or half-open and waiting for nobody.
  <2>5. \A j \in Calls : call[j].as = "probe" => call[j].tool # t
    BY <1>1, <1>5 DEF Inv, Awaited, Allows
  <2>6. \A j \in Calls : Awaited(j)'
    <3>1. circuit'[t] = Admitted(circuit[t]) /\ \A u \in Tools \ {t} : circuit'[u] = circuit[u]
      BY <2>1 DEF Inv, TypeOK
    <3>2. Awaited(i)'
      BY <1>3, <1>5, <2>4, <3>1 DEF Awaited
    <3>3. ASSUME NEW j \in Calls \ {i} PROVE Awaited(j)'
      BY <2>4, <2>5, <3>1 DEF Inv, Awaited
    <3> QED BY <3>2, <3>3
  <2>7. \A j, k \in Calls : Distinct(j, k)'
    BY <2>4, <2>5 DEF Inv, Distinct
  <2> QED BY <2>2, <2>3, <2>6, <2>7 DEF Inv, Sound
<1> QED BY <1>4, <1>5

LEMMA ResetStep ==
    ASSUME Inv, NEW S \in SUBSET Tools, Reset(S)
    PROVE  Inv'
<1>1. \A t \in Tools : circuit'[t] = IF t \in S THEN Fresh ELSE circuit[t]
  BY DEF Reset
<1>2. TypeOK'
  BY FreshSound DEF Reset, Inv, TypeOK, Sound, Role
<1>3. \A t \in Tools : Sound(circuit'[t])
  BY <1>1, FreshSound DEF Inv
<1>4. \A i \in Calls : call'[i].as = "probe" =>
          call[i].as = "probe" /\ call'[i].tool = call[i].tool /\ call[i].tool \notin S
  BY DEF Reset, Inv, TypeOK
<1>5. \A i \in Calls : Awaited(i)'
  BY <1>1, <1>4 DEF Inv, Awaited
<1>6. \A i, j \in Calls : Distinct(i, j)'
  BY <1>4 DEF Inv, Distinct
<1> QED BY <1>2, <1>3, <1>5, <1>6 DEF Inv, Sound

LEMMA CoolDownStep ==
    ASSUME Inv, NEW t \in Tools, CoolDown(t)
    PROVE  Inv'
<1>1. Sound(Cooled(circuit[t])) /\ Cooled(circuit[t]).state = circuit[t].state
      /\ Cooled(circuit[t]).probe = circuit[t].probe
  BY CooledSound DEF Inv
<1>2. circuit' = [circuit EXCEPT ![t] = Cooled(circuit[t])] /\ call' = call
  BY DEF CoolDown
<1>3. TypeOK'
  BY <1>1, <1>2 DEF Inv, TypeOK, Sound
<1>4. \A u \in Tools : /\ Sound(circuit'[u])
                       /\ circuit'[u].state = circuit[u].state
                       /\ circuit'[u].probe = circuit[u].probe
  BY <1>1, <1>2 DEF Inv, TypeOK
<1>5. \A i \in Calls : Awaited(i)'
  BY <1>2, <1>4 DEF Inv, Awaited
<1>6. \A i, j \in Calls : Distinct(i, j)'
  BY <1>2 DEF Inv, Distinct
<1> QED BY <1>3, <1>4, <1>5, <1>6 DEF Inv, Sound

------------------------------------------------------------------------------
LEMMA InvInit == Init => Inv
<1> SUFFICES ASSUME Init PROVE Inv
  OBVIOUS
<1>1. TypeOK
  BY FreshSound DEF Init, TypeOK, Idle, Role, Sound
<1> QED BY <1>1, FreshSound DEF Init, Inv, Idle, Awaited, Distinct

LEMMA InvNext == Inv /\ [Next]_vars => Inv'
<1> SUFFICES ASSUME Inv, [Next]_vars PROVE Inv'
  OBVIOUS
<1>1. ASSUME NEW i \in Calls, NEW t \in Tools,
             Succeed(i, t) \/ FailsCounted(i, t) \/ TimesOut(i, t) \/ RaisesCounted(i, t)
      PROVE  Inv'
  <2> DEFINE reporting == [call EXCEPT ![i].at = "reporting"]
             ended == [call EXCEPT ![i] = Idle]
  <2>1. NoNewProbe(reporting) /\ NoNewProbe(ended)
    BY DEF Inv, TypeOK, NoNewProbe, CallRecord, Idle, Role
  <2>2. /\ Sound(Succeeded(circuit[t])) /\ Succeeded(circuit[t]).state # "half_open"
        /\ Sound(Failed(circuit[t])) /\ Failed(circuit[t]).state # "half_open"
    BY SucceededSound, FailedSound DEF Inv
  <2>3. CASE Succeed(i, t)
    BY <2>1, <2>2, <2>3, DecidedStep DEF Succeed
  <2>4. CASE FailsCounted(i, t)
    BY <2>1, <2>2, <2>4, DecidedStep DEF FailsCounted
  <2>5. CASE TimesOut(i, t)
    BY <2>1, <2>2, <2>5, DecidedStep DEF TimesOut
  <2>6. CASE RaisesCounted(i, t)
    BY <2>1, <2>2, <2>6, DecidedStep DEF RaisesCounted
  <2> QED BY <1>1, <2>3, <2>4, <2>5, <2>6
<1>2. ASSUME NEW i \in Calls, NEW t \in Tools, FailsUncounted(i, t) PROVE Inv'
  <2>1. NoNewProbe(call')
    BY <1>2 DEF FailsUncounted, Inv, TypeOK, NoNewProbe, CallRecord
  <2> QED BY <1>2, <2>1, SameCircuits DEF FailsUncounted
<1>3. ASSUME NEW i \in Calls, Ends(i) PROVE Inv'
  <2>1. NoNewProbe(call')
    BY <1>3 DEF Ends, Inv, TypeOK, NoNewProbe, CallRecord, Idle, Role
  <2> QED BY <1>3, <2>1, SameCircuits DEF Ends
<1>4. ASSUME UNCHANGED vars PROVE Inv'
  BY <1>4 DEF vars, Inv, TypeOK, Sound, Awaited, Distinct
<1> QED BY <1>1, <1>2, <1>3, <1>4, BeginStep, ResetStep, CoolDownStep DEF Next

LEMMA Invariance == Spec => []Inv
BY InvInit, InvNext, PTL DEF Spec

------------------------------------------------------------------------------
\* The circuits and the calls are of the types the model declares.
THEOREM CircuitTypeCorrect == Spec => []TypeOK
<1>1. Inv => TypeOK
  BY DEF Inv
<1> QED BY <1>1, Invariance, PTL

\* However many calls of however many tools are under way, and whatever order
\* their answers, resets and cancellations come in, a half-open circuit waits for
\* one call at most (CircuitBreaker.allow_request).
THEOREM OneProbe == Spec => []OneProbePerOpening
<1>1. ASSUME Inv, NEW t \in Tools PROVE Cardinality(Probes(t)) <= 1
  <2>1. CASE Probes(t) = {}
    BY <2>1, FS_EmptySet
  <2>2. CASE Probes(t) # {}
    <3>1. PICK i \in Calls : i \in Probes(t)
      BY <2>2 DEF Probes
    <3>2. Probes(t) = {i}
      BY <1>1, <3>1 DEF Inv, Distinct, Probes
    <3>3. Cardinality({i}) = 1
      BY FS_Singleton
    <3> QED BY <3>2, <3>3
  <2> QED BY <2>1, <2>2
<1>2. Inv => OneProbePerOpening
  BY <1>1 DEF OneProbePerOpening
<1> QED BY <1>2, Invariance, PTL

\* A circuit is closed exactly while fewer failures than the threshold have been
\* counted since the last success (record_success, record_failure).
THEOREM ClosedMeansBelow == Spec => []ClosedBelowThreshold
<1>1. Inv => ClosedBelowThreshold
  BY DEF Inv, Sound, ClosedBelowThreshold
<1> QED BY <1>1, Invariance, PTL

\* A circuit is half-open only a whole cooldown after its last failure, that of an
\* older call included.
THEOREM ProbesWait == Spec => []ProbedAfterCooldown
<1>1. Inv => ProbedAfterCooldown
  BY DEF Inv, Sound, ProbedAfterCooldown
<1> QED BY <1>1, Invariance, PTL

\* A half-open circuit lets nobody through but the one call that made it so, until
\* it is decided: a probe that ends without an answer blocks the tool.
THEOREM ProbeBlocks == Spec => HalfOpenAdmitsNobody
<1> DEFINE Blocked == \A t \in Tools : circuit[t].state = "half_open" =>
               \A i \in Calls : call[i].at = "idle" /\ call'[i].at # "idle" => call'[i].tool # t
<1>1. Inv /\ [Next]_vars => [Blocked]_vars
  <2> SUFFICES ASSUME Inv, Next, NEW t \in Tools, circuit[t].state = "half_open",
                      NEW i \in Calls, call[i].at = "idle", call'[i].at # "idle"
               PROVE  call'[i].tool # t
    BY DEF Blocked
  <2>1. ~Allows(circuit[t])
    BY DEF Inv, Sound, Allows
  <2>2. ASSUME NEW j \in Calls, NEW u \in Tools, Begin(j, u) PROVE call'[i].tool # t
    <3>1. u # t /\ call[j].at = "idle"
      BY <2>1, <2>2 DEF Begin
    <3>2. j = i => call'[i].tool = u
      BY <2>2 DEF Begin, Becomes, Inv, TypeOK
    <3>3. j # i => call'[i].at = call[i].at
      BY <2>2 DEF Begin, Becomes, Inv, TypeOK
    <3> QED BY <3>1, <3>2, <3>3
  <2>3. ASSUME NEW j \in Calls, NEW u \in Tools, NEW c, NEW after, after \in [Calls -> CallRecord],
               after[i].at = "idle", Becomes(u, c, after)
        PROVE  FALSE
    BY <2>3 DEF Becomes, CallRecord
  <2>4. ASSUME NEW j \in Calls, NEW u \in Tools,
               Succeed(j, u) \/ FailsCounted(j, u) \/ TimesOut(j, u) \/ RaisesCounted(j, u)
        PROVE  FALSE
    <3> DEFINE reporting == [call EXCEPT ![j].at = "reporting"]
               ended == [call EXCEPT ![j] = Idle]
    <3>1. reporting \in [Calls -> CallRecord] /\ ended \in [Calls -> CallRecord]
      BY DEF Inv, TypeOK, CallRecord, Idle, Role
    <3>2. ended[i].at = "idle" /\ (call[j].at # "idle" => reporting[i].at = "idle")
      BY DEF Inv, TypeOK, Idle
    <3> HIDE DEF reporting, ended
    <3>3. CASE Succeed(j, u)
      BY <2>3, <3>1, <3>2, <3>3 DEF Succeed, Running, reporting
    <3>4. CASE FailsCounted(j, u)
      BY <2>3, <3>1, <3>2, <3>4 DEF FailsCounted, Running, reporting
    <3>5. CASE TimesOut(j, u)
      BY <2>3, <3>1, <3>2, <3>5 DEF TimesOut, ended
    <3>6. CASE RaisesCounted(j, u)
      BY <2>3, <3>1, <3>2, <3>6 DEF RaisesCounted, ended
    <3> QED BY <2>4, <3>3, <3>4, <3>5, <3>6
  <2>5. ASSUME NEW j \in Calls, NEW u \in Tools, FailsUncounted(j, u) \/ Ends(j) PROVE FALSE
    BY <2>5 DEF FailsUncounted, Running, Ends, Inv, TypeOK, Idle
  <2>6. ASSUME NEW S, Reset(S) PROVE FALSE
    BY <2>6 DEF Reset, Inv, TypeOK
  <2>7. ASSUME NEW u \in Tools, CoolDown(u) PROVE FALSE
    BY <2>7 DEF CoolDown
  <2> QED BY <2>2, <2>4, <2>5, <2>6, <2>7 DEF Next
<1> QED BY <1>1, Invariance, PTL DEF Spec, HalfOpenAdmitsNobody

------------------------------------------------------------------------------
(* The probe that says nothing                                             *)

\* The circuit of t waits for an answer, and no call of t is the probe it waits
\* for: the tool is blocked for good.
Forsaken(t) == circuit[t].state = "half_open" /\ Probes(t) = {}

\* An answer or an exception of call i that the circuit of t counts.
Answers(i, t) == Succeed(i, t) \/ FailsCounted(i, t) \/ TimesOut(i, t) \/ RaisesCounted(i, t)

\* A tool is blocked for good only by its own probe, when that ends and neither
\* its success nor a counted failure was recorded (tool_gateway.py:499-501 and a
\* cancelled task); and only a reset or the answer of a call admitted before the
\* opening unblocks it.
BlockedBySilentProbe ==
    [][\A t \in Tools :
        /\ ~Forsaken(t) /\ Forsaken(t)' => \E i \in Probes(t) : Ends(i)
        /\ Forsaken(t) /\ ~Forsaken(t)' =>
               \/ \E i \in Calls \ Probes(t) : Answers(i, t)
               \/ \E S \in SUBSET Tools : t \in S /\ Reset(S)]_vars

\* A call that is not under way is no probe.
IdleProbesNothing == \A i \in Calls : call[i].at = "idle" => call[i].as # "probe"

LEMMA IdleProbesNothingInvariance == Spec => []IdleProbesNothing
<1>1. Init => IdleProbesNothing
  BY DEF Init, IdleProbesNothing, Idle
<1>2. Inv /\ IdleProbesNothing /\ [Next]_vars => IdleProbesNothing'
  <2> SUFFICES ASSUME Inv, IdleProbesNothing, Next PROVE IdleProbesNothing'
    BY DEF IdleProbesNothing, vars
  <2>1. ASSUME NEW t \in Tools, NEW c, NEW after, after \in [Calls -> CallRecord], Becomes(t, c, after),
               \A i \in Calls : after[i].at = "idle" => after[i].as # "probe"
        PROVE  IdleProbesNothing'
    BY <2>1 DEF IdleProbesNothing, Becomes, CallRecord
  <2>2. ASSUME NEW i \in Calls, NEW t \in Tools, Begin(i, t) PROVE IdleProbesNothing'
    <3> DEFINE after == [call EXCEPT ![i] = [at |-> "running", tool |-> t,
                             as |-> IF circuit[t].state = "closed" THEN "plain" ELSE "probe"]]
    <3>1. after \in [Calls -> CallRecord] /\ \A j \in Calls : after[j].at = "idle" => after[j].as # "probe"
      BY DEF Inv, TypeOK, CallRecord, Role, IdleProbesNothing
    <3> QED
      BY <2>1, <2>2, <3>1 DEF Begin
  <2>3. ASSUME NEW i \in Calls, NEW t \in Tools, Answers(i, t) PROVE IdleProbesNothing'
    <3> DEFINE reporting == [call EXCEPT ![i].at = "reporting"]
               ended == [call EXCEPT ![i] = Idle]
    <3>1. reporting \in [Calls -> CallRecord] /\ ended \in [Calls -> CallRecord]
      BY DEF Inv, TypeOK, CallRecord, Idle, Role
    <3>2. /\ \A j \in Calls : ended[j].at = "idle" => ended[j].as # "probe"
          /\ \A j \in Calls : reporting[j].at = "idle" => reporting[j].as # "probe"
      BY DEF Inv, TypeOK, Idle, IdleProbesNothing
    <3> HIDE DEF reporting, ended
    <3>3. \E c : Becomes(t, c, reporting) \/ Becomes(t, c, ended)
      BY <2>3 DEF Answers, Succeed, FailsCounted, TimesOut, RaisesCounted, reporting, ended
    <3> QED
      BY <2>1, <3>1, <3>2, <3>3
  <2>4. ASSUME NEW i \in Calls, Ends(i) \/ \E t \in Tools : FailsUncounted(i, t)
        PROVE  IdleProbesNothing'
    BY <2>4 DEF FailsUncounted, Ends, Inv, TypeOK, Idle, IdleProbesNothing
  <2>5. ASSUME NEW S, Reset(S) PROVE IdleProbesNothing'
    BY <2>5 DEF Reset, Inv, TypeOK, IdleProbesNothing
  <2>6. ASSUME NEW t \in Tools, CoolDown(t) PROVE IdleProbesNothing'
    BY <2>6 DEF IdleProbesNothing, CoolDown
  <2> QED
    BY <2>2, <2>3, <2>4, <2>5, <2>6 DEF Next, Answers
<1> QED
  BY <1>1, <1>2, Invariance, PTL DEF Spec

\* Nothing is decided about t, nor do its probes change.
Unaffected(t) ==
    /\ circuit'[t].state = circuit[t].state
    /\ \A i \in Calls : call'[i].tool = t /\ call'[i].as = "probe" <=> call[i].tool = t /\ call[i].as = "probe"

LEMMA UnaffectedWaits ==
    ASSUME NEW t \in Tools, Unaffected(t)
    PROVE  Forsaken(t)' <=> Forsaken(t)
BY DEF Unaffected, Forsaken, Probes

\* What an answer about u makes of another tool's circuit: nothing.
LEMMA OthersUnaffected ==
    ASSUME Inv, NEW t \in Tools, NEW u \in Tools, t # u, NEW c, NEW after,
           after \in [Calls -> CallRecord], Becomes(u, c, after),
           \A i \in Calls : after[i].tool = t /\ after[i].as = "probe" <=> call[i].tool = t /\ call[i].as = "probe"
    PROVE  Unaffected(t)
<1>1. circuit'[t].state = circuit[t].state
  BY DEF Becomes, Inv, TypeOK
<1>2. \A i \in Calls : call'[i].tool = after[i].tool /\ (after[i].tool # u => call'[i].as = after[i].as)
  BY DEF Becomes, CallRecord
<1> QED
  BY <1>1, <1>2 DEF Unaffected

LEMMA BeginWaits ==
    ASSUME Inv, IdleProbesNothing, NEW i \in Calls, NEW u \in Tools, Begin(i, u), NEW t \in Tools
    PROVE  Forsaken(t)' <=> Forsaken(t)
<1> DEFINE begun == [at |-> "running", tool |-> u,
                     as |-> IF circuit[u].state = "closed" THEN "plain" ELSE "probe"]
           after == [call EXCEPT ![i] = begun]
<1>1. /\ Becomes(u, Admitted(circuit[u]), after) /\ Allows(circuit[u])
      /\ call[i].as # "probe"
  BY DEF Begin, IdleProbesNothing
<1>2. after \in [Calls -> CallRecord]
  BY DEF Inv, TypeOK, CallRecord, Role
<1>3. CASE t # u
  <2>1. \A j \in Calls : after[j].tool = t /\ after[j].as = "probe" <=> call[j].tool = t /\ call[j].as = "probe"
    BY <1>1, <1>3 DEF Inv, TypeOK
  <2> HIDE DEF after
  <2> QED
    BY <1>1, <1>2, <1>3, <2>1, OthersUnaffected, UnaffectedWaits
<1>4. CASE t = u
  <2>1. ~Forsaken(t)
    BY <1>1, <1>4 DEF Inv, Sound, Allows, Forsaken
  <2>2. circuit'[t] = Admitted(circuit[t])
    BY <1>1, <1>4 DEF Becomes, Inv, TypeOK
  <2>3. CASE circuit[t].state = "closed"
    <3>1. circuit'[t].state = "closed"
      BY <1>1, <1>4, <2>2, <2>3, AdmittedSound DEF Inv
    <3> QED
      BY <2>1, <3>1 DEF Forsaken
  <2>4. CASE circuit[t].state # "closed"
    <3>1. Admitted(circuit[t]).state = "half_open"
      BY <1>1, <1>4, <2>4, AdmittedSound DEF Inv
    <3>2. call' = after
      BY <1>1, <1>4, <3>1 DEF Becomes
    <3>3. call'[i].tool = t /\ call'[i].as = "probe"
      BY <1>4, <2>4, <3>2 DEF Inv, TypeOK
    <3> QED
      BY <2>1, <3>3 DEF Forsaken, Probes
  <2> QED
    BY <2>3, <2>4
<1> QED
  BY <1>3, <1>4

LEMMA AnswerWaits ==
    ASSUME Inv, NEW i \in Calls, NEW u \in Tools, Answers(i, u), NEW t \in Tools
    PROVE  IF t = u THEN ~Forsaken(t)' ELSE Forsaken(t)' <=> Forsaken(t)
<1> DEFINE reporting == [call EXCEPT ![i].at = "reporting"]
           ended == [call EXCEPT ![i] = Idle]
<1>1. /\ reporting \in [Calls -> CallRecord] /\ ended \in [Calls -> CallRecord]
      /\ call[i].tool = u
  BY DEF Inv, TypeOK, CallRecord, Idle, Role, Answers, Succeed, FailsCounted, TimesOut, RaisesCounted, Running
<1>2. ASSUME t # u
      PROVE  /\ \A j \in Calls : reporting[j].tool = t /\ reporting[j].as = "probe" <=> call[j].tool = t /\ call[j].as = "probe"
             /\ \A j \in Calls : ended[j].tool = t /\ ended[j].as = "probe" <=> call[j].tool = t /\ call[j].as = "probe"
  BY <1>1, <1>2 DEF Inv, TypeOK, Idle
<1> HIDE DEF reporting, ended
<1>3. PICK c : Sound(c) /\ c.state # "half_open" /\ (Becomes(u, c, reporting) \/ Becomes(u, c, ended))
  BY SucceededSound, FailedSound
     DEF Inv, Answers, Succeed, FailsCounted, TimesOut, RaisesCounted, reporting, ended
<1>4. CASE t = u
  <2>1. circuit'[t] = c
    BY <1>3, <1>4 DEF Becomes, Inv, TypeOK
  <2> QED
    BY <1>3, <1>4, <2>1 DEF Forsaken
<1>5. CASE t # u
  BY <1>1, <1>2, <1>3, <1>5, OthersUnaffected, UnaffectedWaits
<1> QED
  BY <1>4, <1>5

\* A blocked tool had a probe that ended without a word; the passing of time does
\* not help it, but a reset does, or the answer of a call admitted before the
\* opening (allow_request, ToolGateway.execute).
THEOREM SilentProbesBlock == Spec => BlockedBySilentProbe
<1> DEFINE Located(t) ==
        /\ ~Forsaken(t) /\ Forsaken(t)' => \E i \in Probes(t) : Ends(i)
        /\ Forsaken(t) /\ ~Forsaken(t)' =>
               \/ \E i \in Calls \ Probes(t) : Answers(i, t)
               \/ \E S \in SUBSET Tools : t \in S /\ Reset(S)
<1>1. Inv /\ IdleProbesNothing /\ [Next]_vars => [\A t \in Tools : Located(t)]_vars
  <2> SUFFICES ASSUME Inv, IdleProbesNothing, Next, NEW t \in Tools PROVE Located(t)
    BY DEF vars
  <2>1. ASSUME NEW i \in Calls, NEW u \in Tools, Begin(i, u) PROVE Located(t)
    BY <2>1, BeginWaits
  <2>2. ASSUME NEW i \in Calls, NEW u \in Tools, Answers(i, u) PROVE Located(t)
    <3>1. Forsaken(t) => i \notin Probes(t)
      BY DEF Forsaken
    <3> QED
      BY <2>2, <3>1, AnswerWaits
  <2>3. ASSUME Unaffected(t) PROVE Located(t)
    BY <2>3, UnaffectedWaits
  <2>4. ASSUME NEW i \in Calls, NEW u \in Tools, FailsUncounted(i, u) PROVE Located(t)
    <3>1. Unaffected(t)
      BY <2>4 DEF FailsUncounted, Unaffected, Inv, TypeOK
    <3> QED
      BY <2>3, <3>1
  <2>5. ASSUME NEW i \in Calls, Ends(i) PROVE Located(t)
    <3>1. CASE i \in Probes(t)
      BY <2>5, <3>1 DEF Forsaken
    <3>2. CASE i \notin Probes(t)
      <4>1. Unaffected(t)
        BY <2>5, <3>2 DEF Ends, Unaffected, Inv, TypeOK, Idle, Probes
      <4> QED
        BY <2>3, <4>1
    <3> QED
      BY <3>1, <3>2
  <2>6. ASSUME NEW S \in SUBSET Tools, Reset(S) PROVE Located(t)
    <3>1. CASE t \in S
      <4>1. circuit'[t] = Fresh
        BY <2>6, <3>1 DEF Reset
      <4> QED
        BY <2>6, <3>1, <4>1, FreshSound DEF Forsaken
    <3>2. CASE t \notin S
      <4>1. Unaffected(t)
        BY <2>6, <3>2 DEF Reset, Unaffected, Inv, TypeOK
      <4> QED
        BY <2>3, <4>1
    <3> QED
      BY <3>1, <3>2
  <2>7. ASSUME NEW u \in Tools, CoolDown(u) PROVE Located(t)
    <3>1. \A v \in Tools : circuit'[v].state = circuit[v].state
      BY <2>7, CooledSound DEF CoolDown, Inv, TypeOK
    <3>2. Unaffected(t)
      BY <2>7, <3>1 DEF CoolDown, Unaffected
    <3> QED
      BY <2>3, <3>2
  <2> HIDE DEF Located
  <2> QED
    BY <2>1, <2>2, <2>4, <2>5, <2>6, <2>7 DEF Next, Answers
<1> QED
  BY <1>1, Invariance, IdleProbesNothingInvariance, PTL DEF Spec, BlockedBySilentProbe

=============================================================================
