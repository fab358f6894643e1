----------------------- MODULE ProviderFallbackProofs -----------------------
(***************************************************************************)
(* What chats and streams keep to over one circuit breaker, for any number *)
(* of concurrent requests, any chains without repetition and any threshold.*)
(***************************************************************************)
EXTENDS ProviderFallback, SequenceTheorems, FiniteSetTheorems, TLAPS

Request == [at: Stage, kind: {"chat", "stream"}, chain: Seq(Providers),
            candidates: Seq(Providers), probing: SUBSET Providers]

\* A request that calls a provider has one to call.
HasCandidate(req) == req.at \in {"calling", "streaming"} => req.candidates # <<>>

\* What a request probes waits for its probe.
Awaited(r) ==
    \A p \in request[r].probing : circuit[p].state = "half_open" /\ circuit[p].probe

Distinct(r, s) == request[r].probing \cap request[s].probing # {} => r = s

Inv ==
    /\ circuit \in [Providers -> Circuit]
    /\ request \in [Requests -> Request]
    /\ \A r \in Requests : HasCandidate(request[r])
    /\ \A r \in Requests : Awaited(r)
    /\ \A r, s \in Requests : Distinct(r, s)

------------------------------------------------------------------------------
(* The methods of CircuitBreaker on one entry                              *)

LEMMA FreshCircuit == Fresh \in Circuit
BY FailureThresholdAssumption DEF Fresh, Circuit, MaxFailures

LEMMA SucceededCircuit ==
    ASSUME NEW c \in Circuit
    PROVE  Succeeded(c) \in Circuit /\ Succeeded(c).state # "half_open"
<1>1. 0 \in 0 .. MaxFailures
  BY FailureThresholdAssumption DEF MaxFailures
<1> QED BY <1>1 DEF Succeeded, Circuit

LEMMA FailedCircuit ==
    ASSUME NEW c \in Circuit
    PROVE  Failed(c) \in Circuit /\ Failed(c).state # "half_open"
<1> DEFINE n == CountFailure(c.failures)
<1>1. n \in 0 .. MaxFailures
  BY FailureThresholdAssumption DEF CountFailure, MaxFailures, Circuit
<1> HIDE DEF n
<1>2. Failed(c) = IF c.state = "half_open" \/ n >= FailureThreshold
                  THEN [c EXCEPT !.state = "open", !.failures = n, !.probe = FALSE, !.cooled = FALSE]
                  ELSE [c EXCEPT !.failures = n, !.cooled = FALSE]
  BY DEF Failed, Trips, Counted, Circuit, n
<1> QED BY <1>1, <1>2 DEF Circuit

LEMMA AdmittedCircuit ==
    ASSUME NEW c \in Circuit
    PROVE  /\ Admitted(c) \in Circuit
           /\ c.state = "closed" => Admitted(c).state = "closed"
           /\ c.state # "closed" => Admitted(c).state = "half_open" /\ Admitted(c).probe
BY DEF Admitted, Circuit

------------------------------------------------------------------------------
(* The steps                                                               *)

\* after makes no request a probe it was not.
NoNewProbe(after) ==
    /\ after \in [Requests -> Request]
    /\ \A r \in Requests : HasCandidate(after[r]) /\ after[r].probing \subseteq request[r].probing

\* A call was answered, or failed: the circuit of p is not half-open afterwards.
LEMMA DecidedStep ==
    ASSUME Inv, NEW p \in Providers, NEW c \in Circuit, c.state # "half_open",
           NEW after, NoNewProbe(after), Becomes(p, c, after)
    PROVE  Inv'
<1>1. circuit' = [circuit EXCEPT ![p] = c]
  BY DEF Becomes
<1>2. request' = [r \in Requests |-> [after[r] EXCEPT !.probing = @ \ {p}]]
  BY DEF Becomes
<1>3. circuit' \in [Providers -> Circuit] /\ \A q \in Providers \ {p} : circuit'[q] = circuit[q]
  BY <1>1 DEF Inv
<1>4. /\ request' \in [Requests -> Request]
      /\ \A r \in Requests : /\ request'[r].probing = after[r].probing \ {p}
                             /\ request'[r].at = after[r].at
                             /\ request'[r].candidates = after[r].candidates
  BY <1>2 DEF NoNewProbe, Request
<1>5. \A r \in Requests : HasCandidate(request'[r])
  BY <1>4 DEF NoNewProbe, HasCandidate
<1>6. \A r \in Requests : request'[r].probing \subseteq request[r].probing \ {p}
                          /\ request[r].probing \subseteq Providers
  BY <1>4 DEF NoNewProbe, Inv, Request
<1>7. \A r \in Requests : Awaited(r)'
  BY <1>3, <1>6 DEF Inv, Awaited
<1>8. \A r, s \in Requests : Distinct(r, s)'
  BY <1>6 DEF Inv, Distinct
<1> QED BY <1>3, <1>4, <1>5, <1>7, <1>8 DEF Inv

\* The circuits wait for whom they waited for.
LEMMA SameProbes ==
    ASSUME Inv, NoNewProbe(request'), circuit' \in [Providers -> Circuit],
           \A p \in Providers : circuit'[p].state = circuit[p].state /\ circuit'[p].probe = circuit[p].probe
    PROVE  Inv'
<1>1. \A r \in Requests : request'[r].probing \subseteq request[r].probing
                          /\ request[r].probing \subseteq Providers
  BY DEF NoNewProbe, Inv, Request
<1>2. \A r \in Requests : Awaited(r)'
  BY <1>1 DEF Inv, Awaited
<1>3. \A r, s \in Requests : Distinct(r, s)'
  BY <1>1 DEF Inv, Distinct
<1> QED BY <1>2, <1>3 DEF Inv, NoNewProbe

LEMMA IdleRequest == Idle \in Request /\ HasCandidate(Idle) /\ Idle.probing = {}
<1>1. <<>> \in Seq(Providers)
  BY EmptySeq
<1> QED BY <1>1 DEF Idle, Request, HasCandidate, Stage

LEMMA LongTail ==
    ASSUME NEW S, NEW s \in Seq(S), s # <<>>, Len(s) > 1
    PROVE  Tail(s) \in Seq(S) /\ Tail(s) # <<>>
<1> DEFINE t == Tail(s)
           n == Len(s)
<1>1. n \in Nat
  BY LenProperties
<1>2. t \in Seq(S) /\ Len(t) = n - 1
  BY HeadTailProperties
<1>3. n > 1
  OBVIOUS
<1> HIDE DEF t, n
<1>4. Len(t) # 0
  BY <1>1, <1>2, <1>3
<1>5. t # <<>>
  BY <1>4, EmptySeq, Zenon
<1> QED BY <1>2, <1>5 DEF t

\* What follows a failure is of the right type and probes no more than before.
LEMMA NextRequest ==
    ASSUME NEW req \in Request, HasCandidate(req), req.at = "calling"
    PROVE  /\ AfterFailure(req) \in Request
           /\ HasCandidate(AfterFailure(req))
           /\ AfterFailure(req).probing \subseteq req.probing
<1>1. CASE Len(req.candidates) > 1
  <2>1. req.candidates \in Seq(Providers) /\ req.candidates # <<>>
    BY DEF Request, HasCandidate
  <2>2. Tail(req.candidates) \in Seq(Providers) /\ Tail(req.candidates) # <<>>
    BY <1>1, <2>1, LongTail
  <2> DEFINE rest == Tail(req.candidates)
  <2>4. AfterFailure(req) = [req EXCEPT !.candidates = rest] /\ rest \in Seq(Providers)
    BY <1>1, <2>2 DEF AfterFailure, NextCandidate
  <2> HIDE DEF rest
  <2>5. /\ AfterFailure(req) \in Request
        /\ AfterFailure(req).candidates = rest
        /\ AfterFailure(req).probing = req.probing
    BY <2>4 DEF Request
  <2> QED BY <2>2, <2>5 DEF HasCandidate, rest
<1>2. CASE ~(Len(req.candidates) > 1)
  BY <1>2, IdleRequest DEF AfterFailure, NextCandidate
<1> QED BY <1>1, <1>2

LEMMA CurrentProvider ==
    ASSUME Inv, NEW r \in Requests, At(r, "calling") \/ At(r, "streaming")
    PROVE  Current(r) \in Providers
<1>1. request[r].candidates \in Seq(Providers) /\ request[r].candidates # <<>>
  BY DEF Inv, Request, HasCandidate, At
<1> QED BY <1>1, HeadTailProperties DEF Current

\* A round of the loop of filter_open_providers.
LEMMA FilterStep ==
    ASSUME Inv, NEW r \in Requests, Filter(r)
    PROVE  Inv'
<1> DEFINE p == Head(request[r].chain)
           rest == [request[r] EXCEPT !.chain = Tail(@)]
           asked == [rest EXCEPT !.candidates = Append(@, p),
                                 !.probing = IF circuit[p].state = "closed" THEN @ ELSE @ \cup {p}]
<1>1. /\ request[r] \in Request /\ request[r].at = "filtering"
      /\ request[r].chain \in Seq(Providers) /\ request[r].chain # <<>>
  BY DEF Filter, Inv, Request, At
<1>2. p \in Providers /\ Tail(request[r].chain) \in Seq(Providers)
  BY <1>1, HeadTailProperties
<1>3. Append(request[r].candidates, p) \in Seq(Providers)
  BY <1>1, <1>2, AppendProperties DEF Request
<1> HIDE DEF p
<1>4. rest \in Request /\ rest.at = "filtering" /\ rest.probing = request[r].probing
      /\ rest.candidates = request[r].candidates
  BY <1>1, <1>2 DEF Request
<1>5. asked \in Request /\ asked.at = "filtering"
      /\ asked.probing = IF circuit[p].state = "closed" THEN request[r].probing
                         ELSE request[r].probing \cup {p}
  <2>1. rest.probing \cup {p} \in SUBSET Providers /\ Append(rest.candidates, p) \in Seq(Providers)
    BY <1>2, <1>3, <1>4 DEF Request
  <2> HIDE DEF rest
  <2> QED BY <1>4, <2>1 DEF Request
<1>6. circuit[p] \in Circuit
  BY <1>2 DEF Inv
<1>7. CASE ~Allows(circuit[p])
  <2>1. request' = [request EXCEPT ![r] = rest] /\ circuit' = circuit
    BY <1>7 DEF Filter, p
  <2> HIDE DEF rest
  <2>2. NoNewProbe(request')
    BY <1>4, <2>1 DEF NoNewProbe, Inv, HasCandidate
  <2> QED BY <2>1, <2>2, SameProbes DEF Inv
<1>8. CASE Allows(circuit[p])
  <2> DEFINE after == [request EXCEPT ![r] = asked]
  <2>1. Becomes(p, Admitted(circuit[p]), after)
    <3>1. [[request EXCEPT ![r].chain = Tail(@)]
              EXCEPT ![r].candidates = Append(@, p),
                     ![r].probing = IF circuit[p].state = "closed" THEN @ ELSE @ \cup {p}] = after
      BY DEF Inv
    <3> QED BY <1>8, <3>1 DEF Filter, p
  <2>2. /\ Admitted(circuit[p]) \in Circuit
        /\ circuit[p].state = "closed" => Admitted(circuit[p]).state = "closed"
        /\ circuit[p].state # "closed" =>
               Admitted(circuit[p]).state = "half_open" /\ Admitted(circuit[p]).probe
    BY <1>6, AdmittedCircuit
  <2> HIDE DEF asked
  <2>3. after \in [Requests -> Request] /\ \A s \in Requests : HasCandidate(after[s])
    BY <1>5 DEF Inv, HasCandidate
  <2>4. after[r] = asked /\ \A s \in Requests \ {r} : after[s] = request[s]
    BY DEF Inv
  <2> HIDE DEF after
  <2>5. CASE circuit[p].state = "closed"
    <3>1. NoNewProbe(after)
      BY <1>5, <2>3, <2>4, <2>5 DEF NoNewProbe
    <3> QED BY <1>2, <2>1, <2>2, <2>5, <3>1, DecidedStep
  <2>6. CASE circuit[p].state # "closed"
    <3>1. circuit' = [circuit EXCEPT ![p] = Admitted(circuit[p])] /\ request' = after
      BY <2>1, <2>2, <2>6 DEF Becomes
    <3>2. /\ circuit' \in [Providers -> Circuit] /\ circuit'[p] = Admitted(circuit[p])
          /\ \A q \in Providers \ {p} : circuit'[q] = circuit[q]
      BY <1>2, <2>2, <3>1 DEF Inv
    \* It was open, or half-open and waiting for nobody.
    <3>3. \A s \in Requests : p \notin request[s].probing /\ request[s].probing \subseteq Providers
      BY <1>8, <2>6 DEF Inv, Awaited, Allows, Request
    <3>4. ASSUME NEW s \in Requests PROVE Awaited(s)'
      BY <1>5, <2>2, <2>4, <2>6, <3>1, <3>2, <3>3 DEF Inv, Awaited
    <3>5. ASSUME NEW s \in Requests, NEW u \in Requests PROVE Distinct(s, u)'
      <4>1. Distinct(s, u)
        BY DEF Inv
      <4> QED BY <1>5, <2>4, <2>6, <3>1, <3>3, <4>1 DEF Distinct
    <3> QED BY <2>3, <3>1, <3>2, <3>4, <3>5 DEF Inv
  <2> QED BY <2>5, <2>6
<1> QED BY <1>7, <1>8

------------------------------------------------------------------------------
LEMMA InvInit == Init => Inv
BY FreshCircuit, IdleRequest DEF Init, Inv, Awaited, Distinct

LEMMA InvNext == Inv /\ [Next]_vars => Inv'
<1> SUFFICES ASSUME Inv, [Next]_vars PROVE Inv'
  OBVIOUS
\* One request becomes req, whose probes it had.
<1> DEFINE Changes(r, req) == [request EXCEPT ![r] = req]
<1>1. ASSUME NEW r \in Requests, NEW req \in Request, HasCandidate(req), req.probing \subseteq request[r].probing
      PROVE  NoNewProbe(Changes(r, req))
  BY <1>1 DEF NoNewProbe, Inv
<1>2. ASSUME NEW r \in Requests PROVE NoNewProbe(Changes(r, Idle))
  BY <1>1, IdleRequest
<1>3. ASSUME NEW r \in Requests, NEW chain \in Chains, NEW kind \in Kinds, Ask(r, chain, kind) PROVE Inv'
  <2> DEFINE req == [Idle EXCEPT !.at = "filtering", !.kind = kind, !.chain = chain]
  <2>1. chain \in Seq(Providers) /\ kind \in {"chat", "stream"}
    BY ChainsAssumption, KindsAssumption
  <2>2. req \in Request /\ HasCandidate(req) /\ req.probing = {}
    BY <2>1, IdleRequest DEF Request, HasCandidate, Stage
  <2>3. request' = Changes(r, req) /\ circuit' = circuit
    BY <1>3 DEF Ask
  <2> HIDE DEF req, Changes
  <2>4. NoNewProbe(request')
    BY <1>1, <2>2, <2>3
  <2> QED BY <2>3, <2>4, SameProbes DEF Inv
<1>4. ASSUME NEW r \in Requests, Filtered(r) PROVE Inv'
  <2> DEFINE req == IF request[r].candidates = <<>> THEN Idle ELSE [request[r] EXCEPT !.at = "calling"]
  <2>1. req \in Request /\ HasCandidate(req) /\ req.probing \subseteq request[r].probing
    <3>1. request[r] \in Request
      BY DEF Inv
    <3>2. CASE request[r].candidates = <<>>
      BY <3>2, IdleRequest
    <3>3. CASE request[r].candidates # <<>>
      BY <3>1, <3>3 DEF Request, HasCandidate, Stage
    <3> QED BY <3>2, <3>3
  <2>2. request' = Changes(r, req) /\ circuit' = circuit
    BY <1>4 DEF Filtered
  <2> HIDE DEF req, Changes
  <2>3. NoNewProbe(request')
    BY <1>1, <2>1, <2>2
  <2> QED BY <2>2, <2>3, SameProbes DEF Inv
<1>5. ASSUME NEW r \in Requests, Emit(r) PROVE Inv'
  <2> DEFINE req == [request[r] EXCEPT !.at = "streaming"]
  <2>1. req \in Request /\ HasCandidate(req) /\ req.probing = request[r].probing
    BY <1>5 DEF Emit, At, Inv, Request, HasCandidate, Stage
  <2>2. request' = Changes(r, req) /\ circuit' = circuit
    BY <1>5 DEF Emit, Inv
  <2> HIDE DEF req, Changes
  <2>3. NoNewProbe(request')
    BY <1>1, <2>1, <2>2
  <2> QED BY <2>2, <2>3, SameProbes DEF Inv
<1>6. ASSUME NEW r \in Requests, Serve(r) \/ StreamBreaks(r) PROVE Inv'
  <2> DEFINE p == Current(r)
  <2>1. p \in Providers
    BY <1>6, CurrentProvider DEF Serve, StreamBreaks
  <2>2. circuit[p] \in Circuit
    BY <2>1 DEF Inv
  <2>3. \E c \in Circuit : c.state # "half_open" /\ Becomes(p, c, Changes(r, Idle))
    BY <1>6, <2>2, SucceededCircuit, FailedCircuit DEF Serve, StreamBreaks
  <2> HIDE DEF Changes
  <2> QED BY <1>2, <2>1, <2>3, DecidedStep
<1>7. ASSUME NEW r \in Requests, CallFails(r) PROVE Inv'
  <2> DEFINE p == Current(r)
             req == AfterFailure(request[r])
  <2>1. p \in Providers
    BY <1>7, CurrentProvider DEF CallFails
  <2>2. Failed(circuit[p]) \in Circuit /\ Failed(circuit[p]).state # "half_open"
    BY <2>1, FailedCircuit DEF Inv
  <2>3. req \in Request /\ HasCandidate(req) /\ req.probing \subseteq request[r].probing
    BY <1>7, NextRequest DEF CallFails, At, Inv
  <2>4. Becomes(p, Failed(circuit[p]), Changes(r, req))
    BY <1>7 DEF CallFails
  <2> HIDE DEF req, Changes
  <2>5. NoNewProbe(Changes(r, req))
    BY <1>1, <2>3
  <2> QED BY <2>1, <2>2, <2>4, <2>5, DecidedStep
<1>8. ASSUME NEW r \in Requests, Abandon(r) PROVE Inv'
  <2>1. request' = Changes(r, Idle) /\ circuit' = circuit
    BY <1>8 DEF Abandon
  <2> HIDE DEF Changes
  <2> QED BY <1>2, <2>1, SameProbes DEF Inv
<1>9. ASSUME NEW S \in SUBSET Providers, Reset(S) PROVE Inv'
  <2>1. circuit' \in [Providers -> Circuit] /\ \A p \in Providers \ S : circuit'[p] = circuit[p]
    BY <1>9, FreshCircuit DEF Reset, Inv
  <2>2. /\ request' \in [Requests -> Request]
        /\ \A r \in Requests : /\ request'[r].probing = request[r].probing \ S
                               /\ request'[r].at = request[r].at
                               /\ request'[r].candidates = request[r].candidates
                               /\ request[r].probing \subseteq Providers
    BY <1>9 DEF Reset, Inv, Request
  <2>3. \A r \in Requests : HasCandidate(request'[r])
    BY <2>2 DEF Inv, HasCandidate
  <2>4. \A r \in Requests : Awaited(r)'
    BY <2>1, <2>2 DEF Inv, Awaited
  <2>5. \A r, s \in Requests : Distinct(r, s)'
    BY <2>2 DEF Inv, Distinct
  <2> QED BY <2>1, <2>2, <2>3, <2>4, <2>5 DEF Inv
<1>10. ASSUME NEW p \in Providers, CoolDown(p) PROVE Inv'
  <2>1. Cooled(circuit[p]) \in Circuit /\ Cooled(circuit[p]).state = circuit[p].state
        /\ Cooled(circuit[p]).probe = circuit[p].probe
    BY DEF Cooled, Circuit, Inv
  <2>2. circuit' = [circuit EXCEPT ![p] = Cooled(circuit[p])] /\ request' = request
    BY <1>10 DEF CoolDown
  <2>3. circuit' \in [Providers -> Circuit]
        /\ \A q \in Providers : circuit'[q].state = circuit[q].state /\ circuit'[q].probe = circuit[q].probe
    BY <2>1, <2>2 DEF Inv
  <2>4. NoNewProbe(request')
    BY <2>2 DEF NoNewProbe, Inv
  <2> QED BY <2>3, <2>4, SameProbes
<1>11. CASE UNCHANGED vars
  BY <1>11 DEF vars, Inv, Awaited, Distinct
<1> QED BY <1>3, <1>4, <1>5, <1>6, <1>7, <1>8, <1>9, <1>10, <1>11, FilterStep DEF Next

LEMMA Invariance == Spec => []Inv
BY InvInit, InvNext, PTL DEF Spec

------------------------------------------------------------------------------
\* The circuits and the requests are of the types the model declares.
THEOREM FallbackTypeCorrect == Spec => []TypeOK
<1>1. Inv => TypeOK
  BY DEF Inv, TypeOK, Request
<1> QED BY <1>1, Invariance, PTL

\* However many requests pass over however many chains, a half-open circuit waits
\* for one of them at most (FallbackManager.filter_open_providers).
THEOREM OneProbe == Spec => []OneProbePerOpening
<1>1. ASSUME Inv, NEW p \in Providers PROVE Cardinality(Probing(p)) <= 1
  <2>1. CASE Probing(p) = {}
    BY <2>1, FS_EmptySet
  <2>2. CASE Probing(p) # {}
    <3>1. PICK r \in Requests : r \in Probing(p)
      BY <2>2 DEF Probing
    <3>2. Probing(p) = {r}
      BY <1>1, <3>1 DEF Inv, Distinct, Probing
    <3>3. Cardinality({r}) = 1
      BY FS_Singleton
    <3> QED BY <3>2, <3>3
  <2> QED BY <2>1, <2>2
<1>2. Inv => OneProbePerOpening
  BY <1>1 DEF OneProbePerOpening
<1> QED BY <1>2, Invariance, PTL

\* A stream that has shown content of one provider goes on with no other, for any
\* chain and any number of requests (ModelRouter.chat_stream).
THEOREM StreamsKeepTheirProvider == Spec => StreamsNeverMix
<1> DEFINE Keeps == \A r \in Requests :
               At(r, "streaming") => \/ request[r]'.at = "idle"
                                     \/ request[r]'.candidates = request[r].candidates
<1>1. Inv /\ [Next]_vars => [Keeps]_vars
  <2> SUFFICES ASSUME Inv, Next, NEW r \in Requests, At(r, "streaming")
               PROVE  request'[r].at = "idle" \/ request'[r].candidates = request[r].candidates
    OBVIOUS
  <2>1. request[r] \in Request /\ request[r].at = "streaming"
    BY DEF Inv, At
  \* What becomes of r when the circuit of a provider changes.
  <2>2. ASSUME NEW p, NEW c, NEW after, after[r] \in Request, Becomes(p, c, after)
        PROVE  request'[r].at = after[r].at /\ request'[r].candidates = after[r].candidates
    BY <2>2 DEF Becomes, Request
  <2>3. ASSUME NEW s \in Requests, Serve(s) \/ StreamBreaks(s)
        PROVE  request'[r].at = "idle" \/ request'[r].candidates = request[r].candidates
    <3> DEFINE after == [request EXCEPT ![s] = Idle]
    <3>1. (after[r] = Idle \/ after[r] = request[r]) /\ Idle.at = "idle"
      BY DEF Inv, Idle
    <3>2. \E c : Becomes(Current(s), c, after)
      BY <2>3 DEF Serve, StreamBreaks
    <3> HIDE DEF after
    <3> QED BY <2>1, <2>2, <3>1, <3>2, IdleRequest
  <2>4. ASSUME NEW s \in Requests, CallFails(s) PROVE request'[r].candidates = request[r].candidates
    <3> DEFINE after == [request EXCEPT ![s] = AfterFailure(@)]
    <3>1. s # r
      BY <2>1, <2>4 DEF CallFails, At
    <3>2. after[r] = request[r]
      BY <3>1 DEF Inv
    <3>3. Becomes(Current(s), Failed(circuit[Current(s)]), after)
      BY <2>4 DEF CallFails
    <3> HIDE DEF after
    <3> QED BY <2>1, <2>2, <3>2, <3>3
  <2>5. ASSUME NEW s \in Requests, Filter(s) PROVE request'[r].candidates = request[r].candidates
    <3> DEFINE p == Head(request[s].chain)
               next == [request EXCEPT ![s].chain = Tail(@)]
               after == [next EXCEPT ![s].candidates = Append(@, p),
                            ![s].probing = IF circuit[p].state = "closed" THEN @ ELSE @ \cup {p}]
    <3>1. s # r
      BY <2>1, <2>5 DEF Filter, At
    <3>2. next[r] = request[r] /\ after[r] = request[r]
      BY <3>1 DEF Inv
    <3>3. request' = next \/ Becomes(p, Admitted(circuit[p]), after)
      BY <2>5 DEF Filter
    <3> HIDE DEF p, next, after
    <3> QED BY <2>1, <2>2, <3>2, <3>3
  <2>6. ASSUME NEW s \in Requests, NEW chain, NEW kind, Ask(s, chain, kind)
        PROVE  request'[r] = request[r]
    BY <2>1, <2>6 DEF Ask, At, Inv
  <2>7. ASSUME NEW s \in Requests, Filtered(s) \/ Emit(s) PROVE request'[r] = request[r]
    BY <2>1, <2>7 DEF Filtered, Emit, At, Inv
  <2>8. ASSUME NEW s \in Requests, Abandon(s)
        PROVE  request'[r].at = "idle" \/ request'[r].candidates = request[r].candidates
    BY <2>8 DEF Abandon, Idle, Inv
  <2>9. ASSUME NEW S, Reset(S) PROVE request'[r].candidates = request[r].candidates
    BY <2>1, <2>9 DEF Reset, Request
  <2>10. ASSUME NEW p, CoolDown(p) PROVE request' = request
    BY <2>10 DEF CoolDown
  <2> QED BY <2>3, <2>4, <2>5, <2>6, <2>7, <2>8, <2>9, <2>10 DEF Next
<1> QED BY <1>1, Invariance, PTL DEF Spec, StreamsNeverMix

------------------------------------------------------------------------------
(* The course of a request                                                 *)

\* The request r stands at a, with chain ch to ask and candidates ca to call.
Stands(req, a, ch, ca) == req.at = a /\ req.chain = ch /\ req.candidates = ca

LEMMA BecomesKeeps ==
    ASSUME NEW p, NEW c, NEW after, NEW r \in Requests, after[r] \in Request, Becomes(p, c, after)
    PROVE  Stands(request'[r], after[r].at, after[r].chain, after[r].candidates)
BY DEF Becomes, Request, Stands

\* A step of r takes it on in its course.
LEMMA OwnCourse ==
    ASSUME Inv, NEW r \in Requests, Proceed(r) \/ Emit(r)
    PROVE  LET req == request[r] IN
           \/ /\ At(r, "filtering") /\ req.chain # <<>>
              /\ \/ Stands(request'[r], "filtering", Tail(req.chain), req.candidates)
                 \/ Stands(request'[r], "filtering", Tail(req.chain), Append(req.candidates, Head(req.chain)))
           \/ /\ At(r, "filtering") /\ req.chain = <<>> /\ req.candidates # <<>>
              /\ Stands(request'[r], "calling", <<>>, req.candidates)
           \/ At(r, "calling") /\ Stands(request'[r], "streaming", req.chain, req.candidates)
           \/ /\ At(r, "calling") /\ Len(req.candidates) > 1
              /\ Stands(request'[r], "calling", req.chain, Tail(req.candidates))
           \/ ~At(r, "idle") /\ Stands(request'[r], "idle", <<>>, <<>>)
<1> DEFINE req == request[r]
<1>1. req \in Request /\ HasCandidate(req) /\ Idle \in Request
  BY IdleRequest DEF Inv
<1>2. Stands(Idle, "idle", <<>>, <<>>)
  BY DEF Stands, Idle
<1>3. CASE Filter(r)
  <2> DEFINE p == Head(req.chain)
             next == [request EXCEPT ![r].chain = Tail(@)]
             after == [next EXCEPT ![r].candidates = Append(@, p),
                          ![r].probing = IF circuit[p].state = "closed" THEN @ ELSE @ \cup {p}]
  <2>1. /\ req.at = "filtering" /\ req.chain # <<>> /\ req.chain \in Seq(Providers)
        /\ req.candidates \in Seq(Providers) /\ req.probing \subseteq Providers
    BY <1>1, <1>3 DEF Filter, At, Request
  <2>2. p \in Providers /\ Tail(req.chain) \in Seq(Providers)
    BY <2>1, HeadTailProperties
  <2>3. Append(req.candidates, p) \in Seq(Providers)
    BY <2>1, <2>2, AppendProperties
  <2>4. next[r] = [req EXCEPT !.chain = Tail(@)]
    BY DEF Inv
  <2>5. after[r] = [next[r] EXCEPT !.candidates = Append(@, p),
                          !.probing = IF circuit[p].state = "closed" THEN @ ELSE @ \cup {p}]
    BY DEF Inv
  <2>6. request' = next \/ Becomes(p, Admitted(circuit[p]), after)
    BY <1>3 DEF Filter
  <2> HIDE DEF p
  <2>7. Stands(next[r], "filtering", Tail(req.chain), req.candidates)
    BY <1>1, <2>1, <2>4 DEF Stands, Request
  <2>8. after[r] \in Request /\ Stands(after[r], "filtering", Tail(req.chain), Append(req.candidates, p))
    <3>1. next[r] \in Request /\ next[r].candidates = req.candidates /\ next[r].probing = req.probing
      BY <1>1, <2>2, <2>4 DEF Request
    <3>2. PICK list \in Seq(Providers) : list = Append(next[r].candidates, p)
      BY <2>3, <3>1
    <3>3. PICK probes \in SUBSET Providers :
            probes = IF circuit[p].state = "closed" THEN next[r].probing ELSE next[r].probing \cup {p}
      BY <2>1, <2>2, <3>1
    <3> HIDE DEF next
    <3>4. after[r] = [next[r] EXCEPT !.candidates = list, !.probing = probes]
      BY <2>5, <3>2, <3>3
    <3> HIDE DEF after
    <3>5. after[r] \in Request /\ Stands(after[r], next[r].at, next[r].chain, list)
      BY <3>1, <3>2, <3>3, <3>4 DEF Stands, Request
    <3> QED
      BY <2>7, <3>1, <3>2, <3>5 DEF Stands
  <2> HIDE DEF next, after
  <2>9. CASE request' = next
    BY <2>1, <2>7, <2>9 DEF At
  <2>10. CASE Becomes(p, Admitted(circuit[p]), after)
    <3>1. Stands(request'[r], after[r].at, after[r].chain, after[r].candidates)
      BY <2>8, <2>10, BecomesKeeps
    <3>2. Stands(request'[r], "filtering", Tail(req.chain), Append(req.candidates, Head(req.chain)))
      BY <2>8, <3>1 DEF Stands, p
    <3> QED
      BY <2>1, <3>2 DEF At
  <2> QED
    BY <2>6, <2>9, <2>10
<1>4. CASE Filtered(r)
  BY <1>1, <1>2, <1>4 DEF Filtered, At, Stands, Request, Inv
<1>5. CASE Emit(r)
  BY <1>1, <1>5 DEF Emit, At, Stands, Request, Inv
<1>6. CASE Serve(r) \/ StreamBreaks(r)
  <2> DEFINE after == [request EXCEPT ![r] = Idle]
  <2>1. \E p, c : Becomes(p, c, after)
    BY <1>6 DEF Serve, StreamBreaks
  <2>2. after[r] = Idle
    BY DEF Inv
  <2> HIDE DEF after
  <2>3. Stands(request'[r], "idle", <<>>, <<>>)
    BY <1>1, <1>2, <2>1, <2>2, BecomesKeeps DEF Stands
  <2> QED
    BY <1>6, <2>3 DEF Serve, StreamBreaks, At
<1>7. CASE CallFails(r)
  <2> DEFINE after == [request EXCEPT ![r] = AfterFailure(@)]
  <2>1. \E p, c : Becomes(p, c, after)
    BY <1>7 DEF CallFails
  <2>2. after[r] = AfterFailure(req) /\ AfterFailure(req) \in Request /\ req.at = "calling"
    BY <1>1, <1>7, NextRequest DEF Inv, CallFails, At
  <2> HIDE DEF after
  <2>3. Stands(request'[r], after[r].at, after[r].chain, after[r].candidates)
    BY <2>1, <2>2, BecomesKeeps
  <2>4. CASE Len(req.candidates) > 1
    <3> DEFINE rest == Tail(req.candidates)
    <3>1. AfterFailure(req) = [req EXCEPT !.candidates = rest]
      BY <2>4 DEF AfterFailure, NextCandidate
    <3> HIDE DEF rest
    <3>2. Stands(AfterFailure(req), "calling", req.chain, rest)
      BY <1>1, <2>2, <3>1 DEF Stands, Request
    <3> QED
      BY <2>2, <2>3, <2>4, <3>2 DEF Stands, At, rest
  <2>5. CASE ~(Len(req.candidates) > 1)
    BY <1>2, <2>2, <2>3, <2>5 DEF AfterFailure, NextCandidate, Stands, At
  <2> QED
    BY <2>4, <2>5
<1>8. CASE Abandon(r)
  BY <1>1, <1>2, <1>8 DEF Abandon, At, Inv
<1> QED
  BY <1>3, <1>4, <1>5, <1>6, <1>7, <1>8 DEF Proceed

\* Nothing but its own steps moves a request under way: not another request,
\* not a reset of the circuits it counts on.
LEMMA OtherCourse ==
    ASSUME Inv, [Next]_vars, NEW r \in Requests, ~(Proceed(r) \/ Emit(r))
    PROVE  \/ Stands(request'[r], request[r].at, request[r].chain, request[r].candidates)
           \/ At(r, "idle") /\ \E chain \in Chains : Stands(request'[r], "filtering", chain, <<>>)
<1> DEFINE req == request[r]
<1>1. req \in Request /\ Idle \in Request
  BY IdleRequest DEF Inv
<1>2. ASSUME NEW p, NEW c, NEW after, after[r] = req, Becomes(p, c, after)
      PROVE  Stands(request'[r], req.at, req.chain, req.candidates)
  BY <1>1, <1>2, BecomesKeeps
<1>3. ASSUME NEW s \in Requests, s # r, Serve(s) \/ StreamBreaks(s) \/ CallFails(s)
      PROVE  \E p, c, after : after[r] = req /\ Becomes(p, c, after)
  <2>1. [request EXCEPT ![s] = Idle][r] = req /\ [request EXCEPT ![s] = AfterFailure(@)][r] = req
    BY <1>3 DEF Inv
  <2> QED
    BY <1>3, <2>1 DEF Serve, StreamBreaks, CallFails
<1>4. ASSUME NEW s \in Requests, s # r, Filter(s)
      PROVE  request'[r] = req \/ \E p, c, after : after[r] = req /\ Becomes(p, c, after)
  <2> DEFINE p == Head(request[s].chain)
             next == [request EXCEPT ![s].chain = Tail(@)]
             after == [next EXCEPT ![s].candidates = Append(@, p),
                          ![s].probing = IF circuit[p].state = "closed" THEN @ ELSE @ \cup {p}]
  <2>1. next[r] = req /\ after[r] = req
    BY <1>4 DEF Inv
  <2>2. request' = next \/ Becomes(p, Admitted(circuit[p]), after)
    BY <1>4 DEF Filter
  <2> HIDE DEF p, next, after
  <2> QED
    BY <2>1, <2>2
<1>5. ASSUME NEW s \in Requests, s # r, Filtered(s) \/ Emit(s) \/ Abandon(s)
      PROVE  request'[r] = req
  BY <1>5 DEF Filtered, Emit, Abandon, Inv
<1>6. ASSUME NEW s \in Requests, NEW chain \in Chains, NEW kind \in Kinds, Ask(s, chain, kind)
      PROVE  \/ request'[r] = req
             \/ At(r, "idle") /\ Stands(request'[r], "filtering", chain, <<>>)
  BY <1>6 DEF Ask, Idle, Stands, Inv
<1>7. ASSUME NEW S, Reset(S)
      PROVE  Stands(request'[r], req.at, req.chain, req.candidates)
  BY <1>1, <1>7 DEF Reset, Stands, Request
<1>8. (\E p \in Providers : CoolDown(p)) \/ UNCHANGED vars => request'[r] = req
  BY DEF CoolDown, vars
<1> QED
  BY <1>2, <1>3, <1>4, <1>5, <1>6, <1>7, <1>8 DEF Next, Proceed, Stands

\* A variant: a provider of the chain costs its question and its call.
Work(r) ==
    LET ask == Len(request[r].chain)  call == Len(request[r].candidates) IN
    CASE At(r, "filtering") -> 2 + 2 * ask + call
      [] At(r, "calling") -> 1 + call
      [] At(r, "streaming") -> 1
      [] OTHER -> 0

\* The safety half of RequestsEnd: a request works its chain off, and neither
\* the other requests nor a reset gives it more to do.
RequestsRunDown ==
    [][\A r \in Requests :
         /\ Proceed(r) \/ Emit(r) => Work(r)' \in 0 .. (Work(r) - 1)
         /\ Work(r)' > Work(r) => At(r, "idle")]_vars

LEMMA WorkFalls ==
    ASSUME Inv, NEW r \in Requests, Proceed(r) \/ Emit(r)
    PROVE  Work(r)' \in 0 .. (Work(r) - 1)
<1>1. PICK chain \in Seq(Providers), candidates \in Seq(Providers) :
        /\ Stands(request[r], request[r].at, chain, candidates)
        /\ request[r].at \in {"calling", "streaming"} => candidates # <<>>
  BY DEF Inv, Request, HasCandidate, Stands
<1>2. Len(chain) \in Nat /\ Len(candidates) \in Nat
  BY LenProperties
<1>3. ASSUME NEW a, NEW ch, NEW ca, Stands(request'[r], a, ch, ca)
      PROVE  Work(r)' = CASE a = "filtering" -> 2 + 2 * Len(ch) + Len(ca)
                          [] a = "calling" -> 1 + Len(ca)
                          [] a = "streaming" -> 1
                          [] OTHER -> 0
  BY <1>3 DEF Stands, Work, At
<1>4. /\ At(r, "filtering") => Work(r) = 2 + 2 * Len(chain) + Len(candidates)
      /\ At(r, "calling") => Work(r) = 1 + Len(candidates)
      /\ At(r, "streaming") => Work(r) = 1
  BY <1>1 DEF Stands, Work, At
<1>5. chain # <<>> => /\ Len(Tail(chain)) = Len(chain) - 1 /\ Len(chain) > 0
                      /\ Len(Append(candidates, Head(chain))) = Len(candidates) + 1
  <2>1. ASSUME chain # <<>>
        PROVE  Head(chain) \in Providers /\ Len(Tail(chain)) = Len(chain) - 1 /\ Len(chain) > 0
    BY <2>1, HeadTailProperties, EmptySeq, LenProperties
  <2> QED
    BY <2>1, AppendProperties
<1>6. candidates # <<>> => Len(Tail(candidates)) = Len(candidates) - 1 /\ Len(candidates) > 0
  BY HeadTailProperties, EmptySeq, LenProperties
<1>7. Len(<<>>) = 0
  OBVIOUS
<1>8. request[r].chain = chain /\ request[r].candidates = candidates
  BY <1>1 DEF Stands
<1>9. CASE At(r, "filtering") /\ chain # <<>>
           /\ \/ Stands(request'[r], "filtering", Tail(chain), candidates)
              \/ Stands(request'[r], "filtering", Tail(chain), Append(candidates, Head(chain)))
  <2>1. \/ Work(r)' = 2 + 2 * Len(Tail(chain)) + Len(candidates)
        \/ Work(r)' = 2 + 2 * Len(Tail(chain)) + Len(Append(candidates, Head(chain)))
    BY <1>3, <1>9
  <2> QED
    BY <1>2, <1>4, <1>5, <1>9, <2>1
<1>10. CASE At(r, "filtering") /\ chain = <<>> /\ candidates # <<>> /\ Stands(request'[r], "calling", <<>>, candidates)
  <2>1. Work(r)' = 1 + Len(candidates)
    BY <1>3, <1>10
  <2> QED
    BY <1>2, <1>4, <1>7, <1>10, <2>1
<1>11. CASE At(r, "calling") /\ Stands(request'[r], "streaming", chain, candidates)
  <2>1. Work(r)' = 1 /\ candidates # <<>>
    BY <1>1, <1>3, <1>11 DEF At
  <2> QED
    BY <1>2, <1>4, <1>6, <1>11, <2>1
<1>12. CASE At(r, "calling") /\ Len(candidates) > 1 /\ Stands(request'[r], "calling", chain, Tail(candidates))
  <2>1. Work(r)' = 1 + Len(Tail(candidates)) /\ candidates # <<>>
    BY <1>1, <1>3, <1>12 DEF At
  <2> QED
    BY <1>2, <1>4, <1>6, <1>12, <2>1
<1>13. CASE ~At(r, "idle") /\ Stands(request'[r], "idle", <<>>, <<>>)
  <2>1. Work(r)' = 0
    BY <1>3, <1>13
  <2>2. At(r, "filtering") \/ At(r, "calling") \/ At(r, "streaming")
    BY <1>13 DEF Inv, Request, Stage, At
  <2> QED
    BY <1>2, <1>4, <2>1, <2>2
<1> QED
  BY <1>8, <1>9, <1>10, <1>11, <1>12, <1>13, OwnCourse

\* The work of a request is bounded by its chain, whoever else uses the breaker
\* and however often it is reset (execute_with_fallback, chat_stream): with the
\* timeouts of its calls, it ends.
THEOREM RequestsAreBounded == Spec => RequestsRunDown
<1>1. ASSUME Inv, [Next]_vars, NEW r \in Requests
      PROVE  /\ Proceed(r) \/ Emit(r) => Work(r)' \in 0 .. (Work(r) - 1)
             /\ Work(r)' > Work(r) => At(r, "idle")
  <2>1. Work(r) \in Int
    <3>1. Len(request[r].chain) \in Nat /\ Len(request[r].candidates) \in Nat
      BY <1>1, LenProperties DEF Inv, Request
    <3> QED
      BY <3>1 DEF Work
  <2>2. CASE Proceed(r) \/ Emit(r)
    BY <1>1, <2>1, <2>2, WorkFalls
  <2>3. CASE ~(Proceed(r) \/ Emit(r)) /\ Stands(request'[r], request[r].at, request[r].chain, request[r].candidates)
    <3>1. Work(r)' = Work(r)
      BY <2>3 DEF Stands, Work, At
    <3> QED
      BY <2>1, <2>3, <3>1
  <2> QED
    BY <1>1, <2>2, <2>3, OtherCourse
<1>2. Inv /\ [Next]_vars =>
        [\A r \in Requests :
            /\ Proceed(r) \/ Emit(r) => Work(r)' \in 0 .. (Work(r) - 1)
            /\ Work(r)' > Work(r) => At(r, "idle")]_vars
  BY <1>1
<1> QED
  BY <1>2, Invariance, PTL DEF Spec, RequestsRunDown


------------------------------------------------------------------------------
(* No provider twice                                                       *)

\* Neither the chain left nor the candidates repeat a provider, and they have
\* none in common.
Apart(chain, candidates) ==
    /\ \A i, j \in DOMAIN chain : chain[i] = chain[j] => i = j
    /\ \A i, j \in DOMAIN candidates : candidates[i] = candidates[j] => i = j
    /\ \A i \in DOMAIN chain, j \in DOMAIN candidates : chain[i] # candidates[j]

NoRepetition == \A r \in Requests : Apart(request[r].chain, request[r].candidates)

\* A provider whose call failed is not called again by the request, and one
\* that was passed over is not taken up: fallback goes down the chain only.
FallbackNeverReturns ==
    [][\A r \in Requests :
         At(r, "calling") /\ request[r]'.candidates # request[r].candidates =>
            \A j \in DOMAIN request[r]'.candidates : request[r]'.candidates[j] # Current(r)]_vars

LEMMA TailIs ==
    ASSUME NEW S, NEW s \in Seq(S), s # <<>>
    PROVE  /\ Len(s) \in Nat \ {0} /\ DOMAIN s = 1 .. Len(s) /\ Head(s) = s[1]
           /\ DOMAIN Tail(s) = 1 .. (Len(s) - 1)
           /\ \A i \in 1 .. (Len(s) - 1) : Tail(s)[i] = s[i + 1]
<1>1. Len(s) \in Nat /\ Len(s) # 0 /\ DOMAIN s = 1 .. Len(s)
  BY LenProperties, EmptySeq
<1>2. /\ Head(s) = s[1] /\ Tail(s) \in Seq(S) /\ Len(Tail(s)) = Len(s) - 1
      /\ \A i \in 1 .. (Len(s) - 1) : Tail(s)[i] = s[i + 1]
  BY <1>1, HeadTailProperties
<1>3. DOMAIN Tail(s) = 1 .. Len(Tail(s))
  BY <1>2, LenProperties
<1> QED
  BY <1>1, <1>2, <1>3


LEMMA AppendIs ==
    ASSUME NEW S, NEW s \in Seq(S), NEW e \in S
    PROVE  /\ DOMAIN Append(s, e) = 1 .. (Len(s) + 1)
           /\ \A i \in 1 .. Len(s) : Append(s, e)[i] = s[i]
           /\ Append(s, e)[Len(s) + 1] = e
<1>1. /\ Append(s, e) \in Seq(S) /\ Len(Append(s, e)) = Len(s) + 1
      /\ \A i \in 1 .. Len(s) : Append(s, e)[i] = s[i]
      /\ Append(s, e)[Len(s) + 1] = e
  BY AppendProperties
<1>2. DOMAIN Append(s, e) = 1 .. Len(Append(s, e))
  BY <1>1, LenProperties
<1> QED
  BY <1>1, <1>2

\* Asking the next provider of the chain keeps them apart.
LEMMA AskedApart ==
    ASSUME NEW chain \in Seq(Providers), NEW candidates \in Seq(Providers), chain # <<>>,
           Apart(chain, candidates)
    PROVE  Apart(Tail(chain), candidates) /\ Apart(Tail(chain), Append(candidates, Head(chain)))
<1> DEFINE rest == Tail(chain)
           more == Append(candidates, Head(chain))
           n == Len(chain)
           m == Len(candidates)
<1>1. /\ n \in Nat \ {0} /\ DOMAIN chain = 1 .. n /\ Head(chain) = chain[1]
      /\ DOMAIN rest = 1 .. (n - 1) /\ \A i \in 1 .. (n - 1) : rest[i] = chain[i + 1]
  BY TailIs
<1>2. m \in Nat /\ DOMAIN candidates = 1 .. m
  BY LenProperties
<1>3. Head(chain) \in Providers
  BY HeadTailProperties
<1>4. /\ DOMAIN more = 1 .. (m + 1) /\ more[m + 1] = chain[1]
      /\ \A i \in 1 .. m : more[i] = candidates[i]
  BY <1>1, <1>3, AppendIs
<1> HIDE DEF rest, more, n, m
<1>5. \A i \in 1 .. (n - 1) : i \in 1 .. n /\ i + 1 \in 1 .. n /\ i + 1 # 1
  BY <1>1
<1>6. \A i, j \in DOMAIN rest : rest[i] = rest[j] => i = j
  BY <1>1, <1>5 DEF Apart
<1>7. \A i \in DOMAIN rest, j \in DOMAIN candidates : rest[i] # candidates[j]
  BY <1>1, <1>5 DEF Apart
<1>8. Apart(rest, candidates)
  BY <1>6, <1>7 DEF Apart
<1>9. \A j \in DOMAIN more : j = m + 1 \/ j \in DOMAIN candidates
  BY <1>2, <1>4
<1>10. 1 \in DOMAIN chain
  BY <1>1
<1>11. \A i, j \in DOMAIN more : more[i] = more[j] => i = j
  BY <1>2, <1>4, <1>9, <1>10 DEF Apart
<1>12. \A i \in DOMAIN rest, j \in DOMAIN more : rest[i] # more[j]
  BY <1>1, <1>2, <1>4, <1>5, <1>7, <1>9, <1>10 DEF Apart
<1> QED
  BY <1>6, <1>8, <1>11, <1>12 DEF Apart, rest, more

\* Going on to the next candidate keeps them apart and leaves the last behind.
LEMMA CalledApart ==
    ASSUME NEW chain \in Seq(Providers), NEW candidates \in Seq(Providers), candidates # <<>>,
           Apart(chain, candidates)
    PROVE  /\ Apart(chain, Tail(candidates))
           /\ \A j \in DOMAIN Tail(candidates) : Tail(candidates)[j] # Head(candidates)
<1> DEFINE rest == Tail(candidates)
           n == Len(candidates)
<1>1. /\ n \in Nat \ {0} /\ DOMAIN candidates = 1 .. n /\ Head(candidates) = candidates[1]
      /\ DOMAIN rest = 1 .. (n - 1) /\ \A i \in 1 .. (n - 1) : rest[i] = candidates[i + 1]
  BY TailIs
<1> HIDE DEF rest, n
<1>2. \A i \in 1 .. (n - 1) : i + 1 \in 1 .. n /\ i + 1 # 1 /\ 1 \in 1 .. n
  BY <1>1
<1>3. ASSUME NEW i \in DOMAIN rest, NEW j \in DOMAIN rest, rest[i] = rest[j]
      PROVE  i = j
  <2>1. PICK a \in DOMAIN candidates, b \in DOMAIN candidates : a = i + 1 /\ b = j + 1
    BY <1>1, <1>2
  <2>2. candidates[a] = candidates[b]
    BY <1>1, <1>3, <2>1
  <2>3. a = b
    BY <2>2 DEF Apart
  <2> QED
    BY <1>1, <2>1, <2>3
<1>4. \A i \in DOMAIN chain, j \in DOMAIN rest : chain[i] # rest[j]
  BY <1>1, <1>2 DEF Apart
<1>5. \A j \in DOMAIN rest : rest[j] # candidates[1]
  BY <1>1, <1>2 DEF Apart
<1> QED
  BY <1>1, <1>3, <1>4, <1>5 DEF Apart, rest

LEMMA ApartStep ==
    ASSUME Inv, NoRepetition, [Next]_vars, NEW r \in Requests
    PROVE  /\ Apart(request[r].chain, request[r].candidates)'
           /\ At(r, "calling") /\ request'[r].candidates # request[r].candidates =>
                \A j \in DOMAIN request'[r].candidates : request'[r].candidates[j] # Current(r)
<1>1. PICK chain \in Seq(Providers), candidates \in Seq(Providers) :
        /\ request[r].chain = chain /\ request[r].candidates = candidates
        /\ request[r].at \in {"calling", "streaming"} => candidates # <<>>
  BY DEF Inv, Request, HasCandidate
<1>2. Apart(chain, candidates)
  BY <1>1 DEF NoRepetition
<1>3. Apart(<<>>, <<>>) /\ Apart(<<>>, candidates) /\ DOMAIN <<>> = {}
  BY <1>2 DEF Apart
<1>4. ASSUME NEW given \in Chains
      PROVE  Apart(given, <<>>)
  BY <1>3, ChainsAssumption DEF Apart
<1>5. CASE Proceed(r) \/ Emit(r)
  <2>1. CASE At(r, "filtering") /\ chain # <<>>
             /\ \/ Stands(request'[r], "filtering", Tail(chain), candidates)
                \/ Stands(request'[r], "filtering", Tail(chain), Append(candidates, Head(chain)))
    BY <1>2, <2>1, AskedApart DEF Stands, At
  <2>2. CASE At(r, "filtering") /\ Stands(request'[r], "calling", <<>>, candidates)
    BY <1>3, <2>2 DEF Stands, At
  <2>3. CASE Stands(request'[r], "streaming", chain, candidates)
    BY <1>1, <1>2, <2>3 DEF Stands
  <2>4. CASE At(r, "calling") /\ Stands(request'[r], "calling", chain, Tail(candidates))
    BY <1>1, <1>2, <2>4, CalledApart DEF Stands, At, Current
  <2>5. CASE Stands(request'[r], "idle", <<>>, <<>>)
    BY <1>3, <2>5 DEF Stands
  <2> QED
    BY <1>1, <1>5, <2>1, <2>2, <2>3, <2>4, <2>5, OwnCourse
<1>6. CASE ~(Proceed(r) \/ Emit(r))
  BY <1>1, <1>2, <1>4, <1>6, OtherCourse DEF Stands, At
<1> QED
  BY <1>5, <1>6

\* No request calls a provider twice, whatever chain it was given and whoever
\* trips or resets the circuits meanwhile (filter_open_providers,
\* execute_with_fallback, chat_stream).
THEOREM FallbackGoesDown == Spec => FallbackNeverReturns
<1>1. Init => NoRepetition
  BY DEF Init, Idle, NoRepetition, Apart
<1>2. Inv /\ NoRepetition /\ [Next]_vars => NoRepetition'
  BY ApartStep DEF NoRepetition
<1>3. Inv /\ NoRepetition /\ [Next]_vars =>
        [\A r \in Requests :
            At(r, "calling") /\ request[r]'.candidates # request[r].candidates =>
                \A j \in DOMAIN request[r]'.candidates : request[r]'.candidates[j] # Current(r)]_vars
  BY ApartStep
<1> QED
  BY <1>1, <1>2, <1>3, InvInit, InvNext, PTL DEF Spec, FallbackNeverReturns

------------------------------------------------------------------------------
(* Where probes are lost                                                   *)

Asked(r) == {request[r].candidates[k] : k \in DOMAIN request[r].candidates}

\* A request only probes providers it has not called yet, or is calling.
Ahead(r) == request[r].probing \subseteq Asked(r) /\ (At(r, "idle") => request[r].probing = {})

ProbesAhead == \A r \in Requests : Ahead(r)

\* A circuit that waits for a probe nobody is going to make.
Forsaken(p) == circuit[p].state = "half_open" /\ circuit[p].probe /\ Probing(p) = {}

\* SkippedOnlyWhileProbed does not hold; this says how it fails, and how it is
\* made good.  A probe is lost when the request that holds it ends without a
\* call of that provider, or its stream is abandoned, and never by a fallback
\* that goes through all its candidates.  Only a reset brings the provider back,
\* or the answer of a call that was let through before.
ProbeCourse(p) ==
    /\ ~Forsaken(p) /\ Forsaken(p)' =>
           \E r \in Requests :
               /\ p \in request[r].probing
               /\ Abandon(r) \/ ((Serve(r) \/ StreamBreaks(r)) /\ Current(r) # p)
    /\ Forsaken(p) /\ ~Forsaken(p)' =>
           \/ \E S \in SUBSET Providers : p \in S /\ Reset(S)
           \/ \E r \in Requests :
               (Serve(r) \/ CallFails(r) \/ StreamBreaks(r)) /\ Current(r) = p

ProbesLostBehindTheAnswer == [][\A p \in Providers : ProbeCourse(p)]_vars

\* Request s is as req but for its probes, which are those of S.
Probes(s, req, S) ==
    request'[s].at = req.at /\ request'[s].candidates = req.candidates /\ request'[s].probing = S

\* The circuit of q is decided: nobody probes it any more.
LEMMA DecidedOutcome ==
    ASSUME Inv, NEW q \in Providers, NEW c \in Circuit, c.state # "half_open",
           NEW after \in [Requests -> Request], Becomes(q, c, after)
    PROVE  /\ circuit'[q] = c
           /\ \A p \in Providers \ {q} : circuit'[p] = circuit[p]
           /\ \A s \in Requests : Probes(s, after[s], after[s].probing \ {q})
<1>1. /\ circuit' = [circuit EXCEPT ![q] = c]
      /\ request' = [s \in Requests |-> [after[s] EXCEPT !.probing = @ \ {q}]]
  BY DEF Becomes
<1> QED
  BY <1>1 DEF Inv, Probes, Request

LEMMA EndOutcome ==
    ASSUME Inv, NEW r \in Requests, Serve(r) \/ StreamBreaks(r)
    PROVE  /\ Current(r) \in Providers /\ circuit'[Current(r)].state # "half_open"
           /\ \A p \in Providers \ {Current(r)} : circuit'[p] = circuit[p]
           /\ Probes(r, Idle, {})
           /\ \A s \in Requests \ {r} : Probes(s, request[s], request[s].probing \ {Current(r)})
<1> DEFINE q == Current(r)
           after == [request EXCEPT ![r] = Idle]
<1>1. q \in Providers /\ circuit[q] \in Circuit
  BY CurrentProvider DEF Serve, StreamBreaks, Inv
<1>2. PICK c \in Circuit : c.state # "half_open" /\ Becomes(q, c, after)
  BY <1>1, SucceededCircuit, FailedCircuit DEF Serve, StreamBreaks
<1>3. /\ after \in [Requests -> Request] /\ after[r] = Idle
      /\ \A s \in Requests \ {r} : after[s] = request[s]
  BY IdleRequest DEF Inv
<1> HIDE DEF q, after
<1>4. /\ circuit'[q] = c
      /\ \A p \in Providers \ {q} : circuit'[p] = circuit[p]
      /\ \A s \in Requests : Probes(s, after[s], after[s].probing \ {q})
  BY <1>1, <1>2, <1>3, DecidedOutcome
<1>5. Idle.probing \ {q} = {}
  BY DEF Idle
<1>6. Probes(r, Idle, {}) /\ \A s \in Requests \ {r} : Probes(s, request[s], request[s].probing \ {q})
  BY <1>3, <1>4, <1>5
<1> QED
  BY <1>1, <1>2, <1>4, <1>6 DEF q

LEMMA FailureOutcome ==
    ASSUME Inv, NEW r \in Requests, CallFails(r)
    PROVE  /\ Current(r) \in Providers /\ circuit'[Current(r)].state # "half_open"
           /\ \A p \in Providers \ {Current(r)} : circuit'[p] = circuit[p]
           /\ Probes(r, AfterFailure(request[r]), AfterFailure(request[r]).probing \ {Current(r)})
           /\ \A s \in Requests \ {r} : Probes(s, request[s], request[s].probing \ {Current(r)})
<1> DEFINE q == Current(r)
           after == [request EXCEPT ![r] = AfterFailure(@)]
<1>1. q \in Providers /\ circuit[q] \in Circuit
  BY CurrentProvider DEF CallFails, Inv
<1>2. PICK c \in Circuit : c.state # "half_open" /\ Becomes(q, c, after)
  BY <1>1, FailedCircuit DEF CallFails
<1>3. AfterFailure(request[r]) \in Request
  BY NextRequest DEF Inv, CallFails, At
<1>4. /\ after \in [Requests -> Request] /\ after[r] = AfterFailure(request[r])
      /\ \A s \in Requests \ {r} : after[s] = request[s]
  BY <1>3 DEF Inv
<1> HIDE DEF q, after
<1>5. /\ circuit'[q] = c
      /\ \A p \in Providers \ {q} : circuit'[p] = circuit[p]
      /\ \A s \in Requests : Probes(s, after[s], after[s].probing \ {q})
  BY <1>1, <1>2, <1>4, DecidedOutcome
<1> QED
  BY <1>1, <1>2, <1>4, <1>5 DEF q

\* What is left after a failure: the candidates behind the one that failed, if
\* there are any, and the probes.
LEMMA AfterFailureIs ==
    ASSUME NEW req \in Request
    PROVE  \/ /\ Len(req.candidates) > 1
              /\ AfterFailure(req).at = req.at
              /\ AfterFailure(req).candidates = Tail(req.candidates)
              /\ AfterFailure(req).probing = req.probing
           \/ ~(Len(req.candidates) > 1) /\ AfterFailure(req) = Idle
<1>1. CASE Len(req.candidates) > 1
  <2>1. PICK rest : rest = Tail(req.candidates)
    OBVIOUS
  <2>2. AfterFailure(req) = [req EXCEPT !.candidates = rest]
    BY <1>1, <2>1 DEF AfterFailure, NextCandidate
  <2> QED
    BY <1>1, <2>1, <2>2 DEF Request
<1>2. CASE ~(Len(req.candidates) > 1)
  BY <1>2 DEF AfterFailure, NextCandidate
<1> QED
  BY <1>1, <1>2

LEMMA FilterOutcome ==
    ASSUME Inv, NEW r \in Requests, Filter(r)
    PROVE  LET req == request[r]
               q == Head(request[r].chain)
           IN /\ q \in Providers
              /\ \A p \in Providers \ {q} : circuit'[p] = circuit[p]
              /\ \A s \in Requests \ {r} : Probes(s, request[s], request[s].probing)
              /\ request'[r].at = "filtering"
              /\ \/ /\ circuit'[q] = circuit[q]
                    /\ request'[r].probing = req.probing
                    /\ request'[r].candidates \in {req.candidates, Append(req.candidates, q)}
                 \/ /\ ~(circuit[q].state = "half_open" /\ circuit[q].probe)
                    /\ request'[r].probing = req.probing \cup {q}
                    /\ request'[r].candidates = Append(req.candidates, q)
<1> DEFINE req == request[r]
           q == Head(req.chain)
           next == [request EXCEPT ![r].chain = Tail(@)]
           after == [next EXCEPT ![r].candidates = Append(@, q),
                        ![r].probing = IF circuit[q].state = "closed" THEN @ ELSE @ \cup {q}]
<1>1. /\ req \in Request /\ req.at = "filtering" /\ req.chain # <<>> /\ req.chain \in Seq(Providers)
      /\ req.candidates \in Seq(Providers) /\ req.probing \subseteq Providers
  BY DEF Filter, At, Request, Inv
<1>2. q \in Providers /\ Tail(req.chain) \in Seq(Providers)
  BY <1>1, HeadTailProperties
<1>3. Append(req.candidates, q) \in Seq(Providers)
  BY <1>1, <1>2, AppendProperties
<1>4. circuit[q] \in Circuit
  BY <1>2 DEF Inv
<1>5. IF Allows(circuit[q]) THEN Becomes(q, Admitted(circuit[q]), after)
                            ELSE request' = next /\ circuit' = circuit
  BY DEF Filter
<1>6. \A s \in Requests \ {r} : next[s] = request[s] /\ after[s] = request[s]
  BY DEF Inv
<1>7. next[r] = [req EXCEPT !.chain = Tail(@)]
  BY DEF Inv
<1>8. after[r] = [next[r] EXCEPT !.candidates = Append(@, q),
                        !.probing = IF circuit[q].state = "closed" THEN @ ELSE @ \cup {q}]
  BY DEF Inv
<1>9. DOMAIN after = Requests
  BY DEF Inv
<1> HIDE DEF q
<1>10. /\ next[r] \in Request /\ next[r].at = "filtering"
       /\ next[r].candidates = req.candidates /\ next[r].probing = req.probing
  BY <1>1, <1>2, <1>7 DEF Request
<1>11. PICK list \in Seq(Providers) : list = Append(req.candidates, q)
  BY <1>3
<1>12. PICK probes \in SUBSET Providers :
         probes = IF circuit[q].state = "closed" THEN req.probing ELSE req.probing \cup {q}
  BY <1>1, <1>2
<1>13. after = [s \in Requests |-> after[s]]
  BY <1>9 DEF Inv
<1> HIDE DEF next
<1>14. after[r] = [next[r] EXCEPT !.candidates = list, !.probing = probes]
  BY <1>8, <1>10, <1>11, <1>12
<1> HIDE DEF after
<1>15. /\ after[r] \in Request /\ after[r].at = "filtering"
       /\ after[r].candidates = list /\ after[r].probing = probes
  BY <1>10, <1>14 DEF Request
<1>16. after \in [Requests -> Request]
  <2>1. \A s \in Requests : after[s] \in Request
    BY <1>6, <1>15 DEF Inv
  <2> QED
    BY <1>13, <2>1
<1>17. CASE ~Allows(circuit[q])
  BY <1>5, <1>6, <1>10, <1>17, <1>2 DEF Probes, q
<1>18. CASE Allows(circuit[q]) /\ circuit[q].state = "closed"
  <2>1. Admitted(circuit[q]) = circuit[q] /\ circuit[q].state # "half_open"
    BY <1>18 DEF Admitted
  <2>2. /\ circuit'[q] = circuit[q]
        /\ \A p \in Providers \ {q} : circuit'[p] = circuit[p]
        /\ \A s \in Requests : Probes(s, after[s], after[s].probing \ {q})
    BY <1>2, <1>4, <1>5, <1>16, <1>18, <2>1, DecidedOutcome
  <2>3. \A s \in Requests : q \notin request[s].probing
    BY <2>1 DEF Inv, Awaited
  <2>4. after[r].probing \ {q} = req.probing
    BY <1>12, <1>15, <1>18, <2>3
  <2>5. \A s \in Requests \ {r} : after[s].probing \ {q} = request[s].probing
    BY <1>6, <2>3
  <2>6. \A s \in Requests \ {r} : Probes(s, request[s], request[s].probing)
    BY <1>6, <2>2, <2>5
  <2>7. request'[r].at = "filtering" /\ request'[r].candidates = list /\ request'[r].probing = req.probing
    BY <1>15, <2>2, <2>4 DEF Probes
  <2> QED
    BY <1>2, <1>11, <2>2, <2>6, <2>7 DEF q
<1>19. CASE Allows(circuit[q]) /\ circuit[q].state # "closed"
  <2>1. Admitted(circuit[q]).state = "half_open"
    BY <1>4, <1>19, AdmittedCircuit
  <2>2. circuit' = [circuit EXCEPT ![q] = Admitted(circuit[q])] /\ request' = after
    BY <1>5, <1>19, <2>1 DEF Becomes
  <2>3. ~(circuit[q].state = "half_open" /\ circuit[q].probe)
    BY <1>19 DEF Allows
  <2>4. \A p \in Providers \ {q} : circuit'[p] = circuit[p]
    BY <2>2 DEF Inv
  <2>5. probes = req.probing \cup {q}
    BY <1>12, <1>19
  <2> QED
    BY <1>2, <1>6, <1>11, <1>15, <2>2, <2>3, <2>4, <2>5 DEF Probes, q
<1> QED
  BY <1>17, <1>18, <1>19

\* The steps that leave the circuits waiting for whom they waited for, but for
\* the stream that is abandoned.
LEMMA QuietOutcome ==
    ASSUME Inv, ProbesAhead, NEW r \in Requests,
           \/ \E chain \in Chains, kind \in Kinds : Ask(r, chain, kind)
           \/ Filtered(r) \/ Emit(r) \/ Abandon(r)
    PROVE  /\ circuit' = circuit
           /\ \A s \in Requests \ {r} : request'[s] = request[s]
           /\ \/ request'[r].probing = {} /\ (Abandon(r) \/ request[r].probing = {})
              \/ Probes(r, request[r], request[r].probing) /\ request[r].at # "idle"
              \/ /\ request'[r].at # "idle" /\ request'[r].candidates = request[r].candidates
                 /\ request'[r].probing = request[r].probing
<1>1. request[r] \in Request
  BY DEF Inv
<1>2. ASSUME NEW chain, NEW kind, Ask(r, chain, kind)
      PROVE  /\ circuit' = circuit /\ \A s \in Requests \ {r} : request'[s] = request[s]
             /\ request'[r].probing = {} /\ request[r].probing = {}
  BY <1>2 DEF Ask, Idle, Inv, ProbesAhead, Ahead
<1>3. CASE Filtered(r)
  <2>1. CASE request[r].candidates = <<>>
    <3>1. request[r].probing = {}
      BY <2>1 DEF ProbesAhead, Ahead, Asked
    <3>2. request' = [request EXCEPT ![r] = Idle] /\ circuit' = circuit
      BY <1>3, <2>1 DEF Filtered
    <3> QED
      BY <3>1, <3>2 DEF Idle, Inv
  <2>2. CASE request[r].candidates # <<>>
    BY <1>1, <1>3, <2>2 DEF Filtered, Inv, Request
  <2> QED
    BY <2>1, <2>2
<1>4. CASE Emit(r)
  BY <1>1, <1>4 DEF Emit, Inv, Request
<1>5. CASE Abandon(r)
  BY <1>5 DEF Abandon, Idle, Inv
<1> QED
  BY <1>2, <1>3, <1>4, <1>5

LEMMA ResetOutcome ==
    ASSUME Inv, NEW S, Reset(S)
    PROVE  /\ \A p \in Providers : circuit'[p] = IF p \in S THEN Fresh ELSE circuit[p]
           /\ \A s \in Requests : Probes(s, request[s], request[s].probing \ S)
BY DEF Reset, Inv, Probes, Request

LEMMA AskedGrows ==
    ASSUME NEW list \in Seq(Providers), NEW q \in Providers
    PROVE  {Append(list, q)[k] : k \in DOMAIN Append(list, q)} = {list[k] : k \in DOMAIN list} \cup {q}
<1>1. DOMAIN list = 1 .. Len(list) /\ Len(list) \in Nat
  BY LenProperties
<1>2. /\ DOMAIN Append(list, q) = 1 .. (Len(list) + 1)
      /\ \A i \in 1 .. Len(list) : Append(list, q)[i] = list[i]
      /\ Append(list, q)[Len(list) + 1] = q
  BY AppendIs
<1>3. \A k \in 1 .. (Len(list) + 1) : k \in 1 .. Len(list) \/ k = Len(list) + 1
  BY <1>1
<1>4. \A k \in 1 .. Len(list) : k \in 1 .. (Len(list) + 1)
  BY <1>1
<1>5. Len(list) + 1 \in 1 .. (Len(list) + 1)
  BY <1>1
<1> DEFINE more == Append(list, q)
<1> HIDE DEF more
<1> QED
  BY <1>1, <1>2, <1>3, <1>4, <1>5 DEF more

LEMMA AskedShrinks ==
    ASSUME NEW list \in Seq(Providers), list # <<>>
    PROVE  {list[k] : k \in DOMAIN list} \ {Head(list)} \subseteq {Tail(list)[k] : k \in DOMAIN Tail(list)}
<1>1. /\ Len(list) \in Nat \ {0} /\ DOMAIN list = 1 .. Len(list) /\ Head(list) = list[1]
      /\ DOMAIN Tail(list) = 1 .. (Len(list) - 1)
      /\ \A i \in 1 .. (Len(list) - 1) : Tail(list)[i] = list[i + 1]
  BY TailIs
<1>2. ASSUME NEW k \in DOMAIN list, list[k] # Head(list)
      PROVE  \E i \in DOMAIN Tail(list) : list[k] = Tail(list)[i]
  <2>1. k # 1 /\ k \in 1 .. Len(list)
    BY <1>1, <1>2
  <2>2. PICK i \in 1 .. (Len(list) - 1) : i + 1 = k
    <3>1. k - 1 \in 1 .. (Len(list) - 1) /\ (k - 1) + 1 = k
      BY <1>1, <2>1
    <3> QED
      BY <3>1
  <2> QED
    BY <1>1, <2>2
<1> DEFINE rest == Tail(list)
<1> HIDE DEF rest
<1> QED
  BY <1>2 DEF rest

\* A call that fails keeps the probes of the candidates behind it.
LEMMA FailureKeepsProbes ==
    ASSUME Inv, ProbesAhead, NEW r \in Requests, CallFails(r)
    PROVE  /\ request'[r].probing = request[r].probing \ {Current(r)}
           /\ Ahead(r)'
<1>1. /\ request[r] \in Request /\ request[r].candidates \in Seq(Providers)
      /\ request[r].candidates # <<>> /\ request[r].at = "calling"
      /\ request[r].probing \subseteq Asked(r)
  BY DEF Inv, Request, HasCandidate, CallFails, At, ProbesAhead, Ahead
<1>2. Probes(r, AfterFailure(request[r]), AfterFailure(request[r]).probing \ {Current(r)})
  BY FailureOutcome
<1>3. Asked(r) \ {Current(r)} \subseteq
        {Tail(request[r].candidates)[k] : k \in DOMAIN Tail(request[r].candidates)}
  BY <1>1, AskedShrinks DEF Asked, Current
<1>4. CASE /\ Len(request[r].candidates) > 1
           /\ AfterFailure(request[r]).at = request[r].at
           /\ AfterFailure(request[r]).candidates = Tail(request[r].candidates)
           /\ AfterFailure(request[r]).probing = request[r].probing
  BY <1>1, <1>2, <1>3, <1>4 DEF Probes, Ahead, Asked, At
<1>5. CASE ~(Len(request[r].candidates) > 1) /\ AfterFailure(request[r]) = Idle
  <2>1. DOMAIN Tail(request[r].candidates) = {}
    <3>1. /\ Len(request[r].candidates) \in Nat \ {0}
          /\ DOMAIN Tail(request[r].candidates) = 1 .. (Len(request[r].candidates) - 1)
      BY <1>1, TailIs
    <3> QED
      BY <1>5, <3>1
  <2>2. request[r].probing \ {Current(r)} = {}
    BY <1>1, <1>3, <2>1
  <2> QED
    BY <1>2, <1>5, <2>2 DEF Probes, Ahead, Idle
<1> QED
  BY <1>1, <1>4, <1>5, AfterFailureIs

LEMMA AheadStep ==
    ASSUME Inv, ProbesAhead, [Next]_vars, NEW s \in Requests
    PROVE  Ahead(s)'
<1>1. ASSUME NEW S, S \subseteq request[s].probing, Probes(s, request[s], S)
      PROVE  Ahead(s)'
  BY <1>1 DEF ProbesAhead, Ahead, Asked, Probes, At
<1>2. request'[s] = request[s] => Probes(s, request[s], request[s].probing)
  BY DEF Probes
<1>3. request'[s].probing = {} => Ahead(s)'
  BY DEF Ahead
<1>4. ASSUME NEW r \in Requests, Serve(r) \/ StreamBreaks(r) PROVE Ahead(s)'
  BY <1>1, <1>3, <1>4, EndOutcome DEF Probes
<1>5. ASSUME NEW r \in Requests, CallFails(r) PROVE Ahead(s)'
  BY <1>1, <1>5, FailureOutcome, FailureKeepsProbes
<1>6. ASSUME NEW r \in Requests, Filter(r) PROVE Ahead(s)'
  <2>1. CASE s # r
    BY <1>1, <1>6, <2>1, FilterOutcome
  <2>2. CASE s = r
    <3> DEFINE q == Head(request[s].chain)
    <3>1. /\ q \in Providers /\ request'[s].at = "filtering"
          /\ request'[s].probing \subseteq request[s].probing \cup {q}
          /\ \/ request'[s].probing = request[s].probing /\ request'[s].candidates = request[s].candidates
             \/ request'[s].candidates = Append(request[s].candidates, q)
      BY <1>6, <2>2, FilterOutcome
    <3>2. request[s].candidates \in Seq(Providers) /\ request[s].probing \subseteq Asked(s)
      BY DEF Inv, Request, ProbesAhead, Ahead
    <3> HIDE DEF q
    <3>3. CASE request'[s].candidates = Append(request[s].candidates, q)
      <4> DEFINE list == request[s].candidates
      <4>1. Asked(s)' = {Append(list, q)[k] : k \in DOMAIN Append(list, q)}
        BY <3>3 DEF Asked
      <4>2. {Append(list, q)[k] : k \in DOMAIN Append(list, q)} = {list[k] : k \in DOMAIN list} \cup {q}
        BY <3>1, <3>2, AskedGrows
      <4>3. Asked(s)' = Asked(s) \cup {q}
        BY <4>1, <4>2 DEF Asked
      <4> QED
        BY <3>1, <3>2, <4>3 DEF Ahead, At
    <3>4. CASE request'[s].probing = request[s].probing /\ request'[s].candidates = request[s].candidates
      BY <3>1, <3>2, <3>4 DEF Ahead, Asked, At
    <3> QED
      BY <3>1, <3>3, <3>4
  <2> QED
    BY <2>1, <2>2
<1>7. ASSUME NEW r \in Requests,
             \/ \E chain \in Chains, kind \in Kinds : Ask(r, chain, kind)
             \/ Filtered(r) \/ Emit(r) \/ Abandon(r)
      PROVE  Ahead(s)'
  <2>1. CASE s # r
    BY <1>1, <1>2, <1>7, <2>1, QuietOutcome
  <2>2. CASE s = r /\ request'[s].at # "idle" /\ request'[s].candidates = request[s].candidates
             /\ request'[s].probing = request[s].probing
    BY <2>2 DEF ProbesAhead, Ahead, Asked, At
  <2> QED
    BY <1>1, <1>3, <1>7, <2>1, <2>2, QuietOutcome
<1>8. ASSUME NEW S, Reset(S) PROVE Ahead(s)'
  BY <1>1, <1>8, ResetOutcome
<1>9. (\E p \in Providers : CoolDown(p)) \/ UNCHANGED vars => Ahead(s)'
  BY <1>1, <1>2 DEF CoolDown, vars
<1> QED
  BY <1>4, <1>5, <1>6, <1>7, <1>8, <1>9 DEF Next

LEMMA ProbeStep ==
    ASSUME Inv, ProbesAhead, [Next]_vars, NEW p \in Providers
    PROVE  ProbeCourse(p)
<1> DEFINE Waits == circuit[p].state = "half_open" /\ circuit[p].probe
<1>1. /\ Forsaken(p) <=> Waits /\ \A s \in Requests : p \notin request[s].probing
      /\ Forsaken(p)' <=> /\ circuit'[p].state = "half_open" /\ circuit'[p].probe
                          /\ \A s \in Requests : p \notin request'[s].probing
  BY DEF Forsaken, Probing
\* Nothing is decided about p, and nobody gives up its probe.
<1>2. ASSUME circuit'[p].state = circuit[p].state, circuit'[p].probe = circuit[p].probe,
             \A s \in Requests : p \in request'[s].probing <=> p \in request[s].probing
      PROVE  ProbeCourse(p)
  BY <1>1, <1>2 DEF ProbeCourse
<1>3. ASSUME NEW r \in Requests, Serve(r) \/ StreamBreaks(r) PROVE ProbeCourse(p)
  <2>1. CASE p = Current(r)
    BY <1>1, <1>3, <2>1, EndOutcome DEF ProbeCourse
  <2>2. CASE p # Current(r)
    <3>1. circuit'[p] = circuit[p] /\ request'[r].probing = {}
          /\ \A s \in Requests \ {r} : p \in request'[s].probing <=> p \in request[s].probing
      BY <1>3, <2>2, EndOutcome DEF Probes
    <3> QED
      BY <1>1, <1>3, <2>2, <3>1 DEF ProbeCourse
  <2> QED
    BY <2>1, <2>2
<1>4. ASSUME NEW r \in Requests, CallFails(r) PROVE ProbeCourse(p)
  <2>1. CASE p = Current(r)
    BY <1>1, <1>4, <2>1, FailureOutcome DEF ProbeCourse
  <2>2. CASE p # Current(r)
    BY <1>2, <1>4, <2>2, FailureOutcome, FailureKeepsProbes DEF Probes
  <2> QED
    BY <2>1, <2>2
<1>5. ASSUME NEW r \in Requests, Filter(r) PROVE ProbeCourse(p)
  <2> DEFINE q == Head(request[r].chain)
  <2>1. /\ q \in Providers
        /\ \A o \in Providers \ {q} : circuit'[o] = circuit[o]
        /\ \A s \in Requests \ {r} : request'[s].probing = request[s].probing
        /\ \/ circuit'[q] = circuit[q] /\ request'[r].probing = request[r].probing
           \/ /\ ~(circuit[q].state = "half_open" /\ circuit[q].probe)
              /\ request'[r].probing = request[r].probing \cup {q}
    BY <1>5, FilterOutcome DEF Probes
  <2> HIDE DEF q
  <2>2. CASE circuit'[q] = circuit[q] /\ request'[r].probing = request[r].probing
    BY <1>2, <2>1, <2>2
  <2>3. CASE /\ ~(circuit[q].state = "half_open" /\ circuit[q].probe)
             /\ request'[r].probing = request[r].probing \cup {q}
    <3>1. CASE p = q
      BY <1>1, <2>3, <3>1 DEF ProbeCourse
    <3>2. CASE p # q
      BY <1>2, <2>1, <2>3, <3>2
    <3> QED
      BY <3>1, <3>2
  <2> QED
    BY <2>1, <2>2, <2>3
<1>6. ASSUME NEW r \in Requests,
             \/ \E chain \in Chains, kind \in Kinds : Ask(r, chain, kind)
             \/ Filtered(r) \/ Emit(r) \/ Abandon(r)
      PROVE  ProbeCourse(p)
  <2>1. circuit' = circuit /\ \A s \in Requests \ {r} : request'[s] = request[s]
    BY <1>6, QuietOutcome
  <2>2. CASE request'[r].probing = request[r].probing
    BY <1>2, <2>1, <2>2
  <2>3. CASE Abandon(r) /\ request'[r].probing = {}
    BY <1>1, <2>1, <2>3 DEF ProbeCourse
  <2> QED
    BY <1>6, <2>2, <2>3, QuietOutcome DEF Probes
<1>7. ASSUME NEW S \in SUBSET Providers, Reset(S) PROVE ProbeCourse(p)
  <2>1. CASE p \in S
    BY <1>1, <1>7, <2>1, ResetOutcome DEF ProbeCourse, Fresh
  <2>2. CASE p \notin S
    BY <1>2, <1>7, <2>2, ResetOutcome DEF Probes
  <2> QED
    BY <2>1, <2>2
<1>8. ASSUME NEW o \in Providers, CoolDown(o) PROVE ProbeCourse(p)
  BY <1>2, <1>8 DEF CoolDown, Cooled, Inv, Circuit
<1>9. CASE UNCHANGED vars
  BY <1>2, <1>9 DEF vars
<1>10. \A S \in {{o} : o \in Providers} \cup {Providers} : S \in SUBSET Providers
  OBVIOUS
<1> QED
  BY <1>3, <1>4, <1>5, <1>6, <1>7, <1>8, <1>9, <1>10 DEF Next

\* A provider is skipped although nobody probes it only after a request asked it
\* and ended before its turn came, or its stream was abandoned; only a reset or a
\* late answer ends that (filter_open_providers and allow_request).
THEOREM LostProbesAreLocated == Spec => ProbesLostBehindTheAnswer
<1>1. Init => ProbesAhead
  BY DEF Init, Idle, ProbesAhead, Ahead
<1>2. Inv /\ ProbesAhead /\ [Next]_vars => ProbesAhead'
  BY AheadStep DEF ProbesAhead
<1>3. Inv /\ ProbesAhead /\ [Next]_vars => [\A p \in Providers : ProbeCourse(p)]_vars
  BY ProbeStep
<1> QED
  BY <1>1, <1>2, <1>3, InvInit, InvNext, PTL DEF Spec, ProbesLostBehindTheAnswer

=============================================================================
