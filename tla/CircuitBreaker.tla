--------------------------- MODULE CircuitBreaker ---------------------------
(***************************************************************************)
(* CircuitBreaker: what one provider's (or tool's) entries of the five     *)
(* dictionaries hold, and what each method, atomic under the lock, makes   *)
(* of them.  Time is what allow_request can tell: whether the last failure *)
(* is a cooldown old.                                                      *)
(***************************************************************************)
EXTENDS Naturals

CONSTANT FailureThreshold   \* failure_threshold

ASSUME FailureThresholdAssumption == FailureThreshold \in Nat \ {0}

\* Failures are counted up to one past the threshold, where nothing changes.
MaxFailures == FailureThreshold + 1

Circuit ==
    [state: {"closed", "open", "half_open"},
     failures: 0..MaxFailures,
     probe: BOOLEAN,        \* _half_open_probe_active
     cooled: BOOLEAN]       \* a cooldown has passed since the last failure

\* A key no method was called with, and what reset leaves.
Fresh == [state |-> "closed", failures |-> 0, probe |-> FALSE, cooled |-> FALSE]

\* record_success keeps the time of the last failure.
Succeeded(c) == [c EXCEPT !.state = "closed", !.failures = 0, !.probe = FALSE]

\* Counted where it happens and again where it is handled.
CountFailureTwice(n) == IF n < MaxFailures THEN n + 2 ELSE n

CountFailure(n) == IF n < MaxFailures THEN n + 1 ELSE n

\* An off-by-one in the threshold.
TripsPastThreshold(c) == c.state = "half_open" \/ CountFailure(c.failures) > FailureThreshold

Trips(c) == c.state = "half_open" \/ CountFailure(c.failures) >= FailureThreshold

Counted(c) == [c EXCEPT !.failures = CountFailure(@), !.cooled = FALSE]

\* A failure reopens no half-open circuit.
FailedHalfOpen(c) ==
    IF Trips(c) /\ c.state # "half_open"
    THEN [Counted(c) EXCEPT !.state = "open", !.probe = FALSE] ELSE Counted(c)

Failed(c) ==
    IF Trips(c) THEN [Counted(c) EXCEPT !.state = "open", !.probe = FALSE] ELSE Counted(c)

\* allow_request answers True.
Allows(c) ==
    \/ c.state = "closed"
    \/ c.state = "open" /\ c.cooled
    \/ c.state = "half_open" /\ ~c.probe

\* The flag is not set when an open circuit half-opens.
AdmittedUnmarked(c) ==
    IF c.state = "closed" THEN c
    ELSE [c EXCEPT !.state = "half_open", !.probe = (c.state = "half_open")]

\* What it leaves: unless the circuit is closed, the caller is its probe.
Admitted(c) ==
    IF c.state = "closed" THEN c ELSE [c EXCEPT !.state = "half_open", !.probe = TRUE]

\* Time passes: the last failure is now a cooldown old.
Cooled(c) == [c EXCEPT !.cooled = TRUE]

=============================================================================
