--------------------------- MODULE ProviderFallback --------------------------
(***************************************************************************)
(* Model calls over a chain of providers: FallbackManager.                 *)
(* execute_with_fallback (chat) and ModelRouter.chat_stream (streams),     *)
(* which differ in what ends a call.  Requests run in threads of their own *)
(* and share one circuit breaker.  First every provider of the chain is    *)
(* asked of the breaker; then those let through are tried in order.        *)
(***************************************************************************)
EXTENDS CircuitBreaker, Sequences, FiniteSets

CONSTANTS
    Providers,
    Requests,   \* requests that may be under way at once
    Chains,     \* what build_fallback_chain may come back with
    Kinds       \* the kinds of request made

ASSUME KindsAssumption == Kinds \subseteq {"chat", "stream"}

ASSUME ChainsAssumption ==
    Chains \subseteq {chain \in Seq(Providers) :
                        /\ chain # <<>>
                        /\ \A i, j \in DOMAIN chain : chain[i] = chain[j] => i = j}

VARIABLES
    circuit,    \* circuit[p]
    request     \* request[r]; probing, the providers whose circuit holds r to be
                \* the probe it waits for, is history

vars == <<circuit, request>>

Stage == {"idle", "filtering", "calling", "streaming"}

TypeOK ==
    /\ circuit \in [Providers -> Circuit]
    /\ \A r \in Requests :
        /\ request[r].at \in Stage
        /\ request[r].chain \in Seq(Providers)
        /\ request[r].candidates \in Seq(Providers)
        /\ request[r].kind \in {"chat", "stream"}
        /\ request[r].probing \subseteq Providers

Idle == [at |-> "idle", kind |-> "chat", chain |-> <<>>, candidates |-> <<>>, probing |-> {}]

Init ==
    /\ circuit = [p \in Providers |-> Fresh]
    /\ request = [r \in Requests |-> Idle]

At(r, stage) == request[r].at = stage
Current(r) == Head(request[r].candidates)

\* The circuit of p becomes c and the requests those of after, none of which
\* is the probe of a circuit that is not half-open.
Becomes(p, c, after) ==
    /\ circuit' = [circuit EXCEPT ![p] = c]
    /\ request' = IF c.state = "half_open" THEN after
                  ELSE [r \in Requests |-> [after[r] EXCEPT !.probing = @ \ {p}]]

------------------------------------------------------------------------------
\* A provider is selected and a chain built behind it.
Ask(r, chain, kind) ==
    /\ At(r, "idle")
    /\ request' = [request EXCEPT ![r] = [Idle EXCEPT !.at = "filtering", !.kind = kind,
                                                      !.chain = chain]]
    /\ UNCHANGED circuit

\* filter_open_providers, one round of its loop: the lock is not held between.
\* allow_request takes the probe of a circuit that is not closed.
Filter(r) ==
    /\ At(r, "filtering") /\ request[r].chain # <<>>
    /\ LET p == Head(request[r].chain)
           next == [request EXCEPT ![r].chain = Tail(@)]
       IN  IF Allows(circuit[p])
           THEN Becomes(p, Admitted(circuit[p]),
                   [next EXCEPT ![r].candidates = Append(@, p),
                                ![r].probing = IF circuit[p].state = "closed" THEN @ ELSE @ \cup {p}])
           ELSE request' = next /\ UNCHANGED circuit

\* No provider let through is an error at once.
Filtered(r) ==
    /\ At(r, "filtering") /\ request[r].chain = <<>>
    /\ request' = [request EXCEPT ![r] = IF @.candidates = <<>> THEN Idle
                                         ELSE [@ EXCEPT !.at = "calling"]]
    /\ UNCHANGED circuit

\* The first content of a stream.
Emit(r) ==
    /\ At(r, "calling") /\ request[r].kind = "stream"
    /\ request' = [request EXCEPT ![r].at = "streaming"]
    /\ UNCHANGED circuit

\* The provider answered: the request is over.
Serve(r) ==
    /\ At(r, "calling") \/ At(r, "streaming")
    /\ Becomes(Current(r), Succeeded(circuit[Current(r)]), [request EXCEPT ![r] = Idle])

\* The request goes on with the next candidate, if there is one.
NextCandidate(req) ==
    IF Len(req.candidates) > 1 THEN [req EXCEPT !.candidates = Tail(@)] ELSE Idle

\* The same provider again.
SameCandidate(req) == req

AfterFailure(req) == NextCandidate(req)

\* Every failure counts, whatever its category.
CallFails(r) ==
    /\ At(r, "calling")
    /\ Becomes(Current(r), Failed(circuit[Current(r)]),
               [request EXCEPT ![r] = AfterFailure(@)])

\* A stream that breaks off after its first content falls back, mixing two answers.
StreamFallsBack(r) ==
    /\ At(r, "streaming")
    /\ Becomes(Current(r), Failed(circuit[Current(r)]),
               [request EXCEPT ![r] = NextCandidate(@)])

\* A stream that breaks off after its first content ends with an error.
StreamBreaks(r) ==
    /\ At(r, "streaming")
    /\ Becomes(Current(r), Failed(circuit[Current(r)]), [request EXCEPT ![r] = Idle])

\* The consumer of a stream is gone: GeneratorExit, raised at a yield, is no
\* Exception, and nothing is recorded.
Abandon(r) ==
    /\ At(r, "calling") \/ At(r, "streaming")
    /\ request[r].kind = "stream"
    /\ request' = [request EXCEPT ![r] = Idle]
    /\ UNCHANGED circuit

\* circuit_breaker.reset_model, for one provider or, without an id, for all.
Reset(S) ==
    /\ circuit' = [p \in Providers |-> IF p \in S THEN Fresh ELSE circuit[p]]
    /\ request' = [r \in Requests |-> [request[r] EXCEPT !.probing = @ \ S]]

CoolDown(p) ==
    /\ circuit[p].failures > 0
    /\ circuit' = [circuit EXCEPT ![p] = Cooled(circuit[p])]
    /\ UNCHANGED request

\* What a request does of itself: its calls have timeouts, and the server
\* reads a stream to its end or closes it.
Proceed(r) == Filter(r) \/ Filtered(r) \/ Serve(r) \/ CallFails(r) \/ StreamBreaks(r) \/ Abandon(r)

Next ==
    \/ \E r \in Requests, chain \in Chains, kind \in Kinds : Ask(r, chain, kind)
    \/ \E r \in Requests :
        \/ Filter(r) \/ Filtered(r) \/ Emit(r) \/ Serve(r)
        \/ CallFails(r) \/ StreamBreaks(r) \/ Abandon(r)
    \/ \E S \in {{p} : p \in Providers} \cup {Providers} : Reset(S)
    \/ \E p \in Providers : CoolDown(p)

Spec == Init /\ [][Next]_vars

FairSpec == Spec /\ \A r \in Requests : WF_vars(Proceed(r))

------------------------------------------------------------------------------
(* Properties                                                              *)

Probing(p) == {r \in Requests : p \in request[r].probing}

\* However the threads' passes over their chains, late failures and resets
\* interleave, a half-open circuit waits for one request at most (the lock is
\* taken per provider, fallback_manager.py:80-87).
OneProbePerOpening == \A p \in Providers : Cardinality(Probing(p)) <= 1

\* A stream that has shown the user content of one provider never goes on with
\* another's: its candidate stays until the request is over (model_router.py:611-613).
StreamsNeverMix ==
    [][\A r \in Requests :
         At(r, "streaming") => \/ request[r]'.at = "idle"
                               \/ request[r]'.candidates = request[r].candidates]_vars

\* A request ends, however its providers fail: with an answer, or with an error
\* when its candidates are used up (fallback_manager.py:131-172).
RequestsEnd == \A r \in Requests : ~At(r, "idle") ~> At(r, "idle")

\* Not so: the pass over the chain half-opens the circuits of fallbacks that the
\* request, served by a provider before them, never calls.  From then on, until
\* a reset, those providers are skipped, though nobody is probing them.
SkippedOnlyWhileProbed ==
    \A p \in Providers :
        circuit[p].state = "half_open" /\ circuit[p].probe => Probing(p) # {}

=============================================================================
