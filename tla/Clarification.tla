---------------------------- MODULE Clarification ----------------------------
(***************************************************************************)
(* Clarifications and the continuations they lead to, across the objects   *)
(* that keep copies of them.  A ClarificationStore or ContinuationStore    *)
(* reads its JSON file once, when it is constructed, and every put writes  *)
(* its whole copy over the file.  Three objects hold such copies:          *)
(*   - every streaming turn that asks a question builds a ClarificationService *)
(*     of its own (fresh copy, dropped with the turn);                     *)
(*   - the clarifications router keeps one, built on its first request;    *)
(*   - the continuations router keeps a ContinuationExecutor, likewise.    *)
(* No operation awaits between its read and its last write, so each is one *)
(* action; what can come between is a failing write or the sidecar's end.  *)
(* A user and a session are one "session"; the bindings a caller presents  *)
(* (correlation id, version, candidate) are assumed to match.              *)
(***************************************************************************)
EXTENDS Integers, FiniteSets, Sequences

CONSTANTS
    Sessions,
    Requests,       \* values of the client's correlation id
    MaxClars,       \* bound on the questions asked
    MaxConts,       \* bound on the continuations created
    MaxRetained,    \* _MAX_RETAINED_RECORDS
    MaxFaults       \* bound on failing writes and sidecar restarts

ASSUME RetentionAssumption == MaxRetained \in Nat \ {0}
ASSUME BoundsAssumption == MaxClars \in Nat /\ MaxConts \in Nat /\ MaxFaults \in Nat

VARIABLES
    asked,      \* asked[c]: session and request of the c-th question
    late,       \* questions past their expires_at
    disk,       \* clarifications.json: state of each question
    seen,       \* the clarifications router's copy of it
    up,         \* the clarifications router has been built
    source,     \* source[k]: question the k-th continuation came from
    contDisk,   \* continuations.json
    contSeen,   \* the copy under the clarifications router
    contExec,   \* the copy under ContinuationExecutor
    execUp,     \* the executor has been built
    acked,      \* questions whose answer was acknowledged (history)
    torn,       \* torn[c]: answers to c cut off half way (history)
    faults

questions == <<asked, late, disk, seen, up>>
continuations == <<source, contDisk, contSeen, contExec, execUp>>
vars == <<questions, continuations, acked, torn, faults>>

Clar == 1 .. MaxClars
Cont == 1 .. MaxConts

ClarState == {"absent", "pending", "consumed", "cancelled", "superseded", "expired"}
ContState == {"absent", "created", "started"}

TypeOK ==
    /\ asked \in Seq([session: Sessions, request: Requests]) /\ Len(asked) <= MaxClars
    /\ late \subseteq Clar
    /\ {disk, seen} \subseteq [Clar -> ClarState]
    /\ source \in Seq(Clar) /\ Len(source) <= MaxConts
    /\ {contDisk, contSeen, contExec} \subseteq [Cont -> ContState]
    /\ acked \subseteq Clar
    /\ torn \in [Clar -> 0 .. MaxFaults]
    /\ faults \in 0 .. MaxFaults
    /\ {up, execUp} \subseteq BOOLEAN

NoQuestions == [c \in Clar |-> "absent"]
NoConts == [k \in Cont |-> "absent"]

Init ==
    /\ asked = <<>> /\ late = {} /\ disk = NoQuestions /\ seen = NoQuestions /\ up = FALSE
    /\ source = <<>> /\ contDisk = NoConts /\ contSeen = NoConts /\ contExec = NoConts
    /\ execUp = FALSE
    /\ acked = {} /\ torn = [c \in Clar |-> 0] /\ faults = 0

Fault == faults < MaxFaults /\ faults' = faults + 1

------------------------------------------------------------------------------
(* ClarificationStore                                                      *)

\* _compact: every pending question stays, and the newest of the others up to
\* the retention limit.
Compact(copy) ==
    LET live == {c \in Clar : copy[c] = "pending" /\ c \notin late}
        rest == {c \in Clar : copy[c] # "absent"} \ live
        room == MaxRetained - Cardinality(live)
        kept == {c \in rest : Cardinality({d \in rest : d > c}) < room}
    IN [c \in Clar |-> IF c \in live \cup kept THEN copy[c] ELSE "absent"]

Put(copy, c, state) == Compact([copy EXCEPT ![c] = state])

\* supersede_pending: the session's pending questions of other requests.
Supersede(copy, session, request) ==
    [c \in Clar |->
        IF copy[c] = "pending" /\ asked[c].session = session /\ asked[c].request # request
        THEN "superseded" ELSE copy[c]]

------------------------------------------------------------------------------
(* A streaming turn asks a question: ClarificationService.create.          *)

Ask(session, request) ==
    LET c == Len(asked) + 1 IN
    /\ c \in Clar
    /\ asked' = Append(asked, [session |-> session, request |-> request])
    /\ disk' = Put(Supersede(disk, session, request), c, "pending")
    /\ UNCHANGED <<late, seen, up, continuations, acked, torn, faults>>

\* The first of create's two writes is made and the second is not.
AskTorn(session, request) ==
    /\ Fault
    /\ disk' = Supersede(disk, session, request)
    /\ UNCHANGED <<asked, late, seen, up, continuations, acked, torn>>

Expire(c) ==
    /\ c \in DOMAIN asked
    /\ late' = late \cup {c}
    /\ UNCHANGED <<asked, disk, seen, up, continuations, acked, torn, faults>>

------------------------------------------------------------------------------
(* The clarifications router                                               *)

\* get_clarification_service, on the first request.
BuildRouter ==
    /\ ~up
    /\ up' = TRUE
    /\ seen' = disk
    /\ contSeen' = contDisk
    /\ UNCHANGED <<asked, late, disk, source, contDisk, contExec, execUp, acked, torn, faults>>

\* GET /pending marks the session's late questions and saves the whole copy.
GetPending(session) ==
    LET stale == {c \in late : seen[c] = "pending" /\ asked[c].session = session} IN
    /\ up
    /\ stale # {}
    /\ seen' = [c \in Clar |-> IF c \in stale THEN "expired" ELSE seen[c]]
    /\ disk' = seen'
    /\ UNCHANGED <<asked, late, up, continuations, acked, torn, faults>>

\* Mutants: the replay check of resolve dropped; the consumed record kept in
\* memory only.
AnswerableAgain(c) == up /\ seen[c] \in {"pending", "consumed"}
SaveAnswerInMemory(c) == UNCHANGED disk

Answerable(c) == up /\ seen[c] = "pending"

\* create_continuation under the router's copy.
NewContinuation(c) ==
    /\ Len(source) + 1 \in Cont
    /\ source' = Append(source, c)
    /\ contSeen' = [contSeen EXCEPT ![Len(source) + 1] = "created"]

SaveAnswer(c) == disk' = seen'

\* Mutant: the record stays "answered", the state resolve passes through.
ConsumedAsAnswered(c) == Put(seen, c, "answered")

Consumed(c) == Put(seen, c, "consumed")

\* resolve, in time: the continuation is put first, the question after it.
Resolve(c) ==
    /\ Answerable(c)
    /\ c \notin late
    /\ NewContinuation(c)
    /\ contDisk' = contSeen'
    /\ seen' = Consumed(c)
    /\ SaveAnswer(c)
    /\ acked' = acked \cup {c}
    /\ UNCHANGED <<asked, late, up, contExec, execUp, torn, faults>>

ResolveLate(c) ==
    /\ Answerable(c)
    /\ c \in late
    /\ seen' = Put(seen, c, "expired")
    /\ disk' = seen'
    /\ UNCHANGED <<asked, late, up, continuations, acked, torn, faults>>

\* A write of resolve raises: the continuation's, the audit entry's after it,
\* or the question's, when the router's copy has changed already.
ResolveUnsaved(c) ==
    /\ Answerable(c)
    /\ c \notin late
    /\ Fault
    /\ NewContinuation(c)
    /\ \/ UNCHANGED <<contDisk, seen>>
       \/ contDisk' = contSeen' /\ UNCHANGED seen
       \/ contDisk' = contSeen' /\ seen' = Consumed(c)
    /\ torn' = [torn EXCEPT ![c] = @ + 1]
    /\ UNCHANGED <<asked, late, up, disk, contExec, execUp, acked>>

Forget ==
    /\ up' = FALSE /\ execUp' = FALSE
    /\ seen' = NoQuestions
    /\ contExec' = NoConts

\* The sidecar dies between the two writes of resolve.
ResolveTorn(c) ==
    /\ Answerable(c)
    /\ c \notin late
    /\ Fault
    /\ Len(source) + 1 \in Cont
    /\ source' = Append(source, c)
    /\ contDisk' = [contSeen EXCEPT ![Len(source) + 1] = "created"]
    /\ contSeen' = NoConts
    /\ Forget
    /\ torn' = [torn EXCEPT ![c] = @ + 1]
    /\ UNCHANGED <<asked, late, disk, acked>>

\* cancel, or resolve with the answer "none"; cancel does not look at expiry.
Cancel(c) ==
    /\ Answerable(c)
    /\ seen' = Put(seen, c, "cancelled")
    /\ SaveAnswer(c)
    /\ acked' = acked \cup {c}
    /\ UNCHANGED <<asked, late, up, continuations, torn, faults>>

CancelUnsaved(c) ==
    /\ Answerable(c)
    /\ Fault
    /\ seen' = Put(seen, c, "cancelled")
    /\ UNCHANGED <<asked, late, up, disk, continuations, acked, torn>>

------------------------------------------------------------------------------
(* The continuations router                                                *)

\* get_continuation_executor, on the first request.
BuildExecutor ==
    /\ ~execUp
    /\ execUp' = TRUE
    /\ contExec' = contDisk
    /\ UNCHANGED <<questions, source, contDisk, contSeen, acked, torn, faults>>

\* ContinuationExecutor.start, from its read of the record to its put; module
\* Continuation has what happens in between.
Start(k) ==
    /\ execUp
    /\ contExec[k] = "created"
    /\ contExec' = [contExec EXCEPT ![k] = "started"]
    /\ contDisk' = contExec'
    /\ UNCHANGED <<questions, source, contSeen, execUp, acked, torn, faults>>

Restart ==
    /\ Fault
    /\ contSeen' = NoConts
    /\ Forget
    /\ UNCHANGED <<asked, late, disk, source, contDisk, acked, torn>>

------------------------------------------------------------------------------
Next ==
    \/ \E s \in Sessions, q \in Requests : Ask(s, q) \/ AskTorn(s, q)
    \/ \E s \in Sessions : GetPending(s)
    \/ \E c \in Clar :
        \/ Expire(c) \/ Resolve(c) \/ ResolveLate(c) \/ ResolveUnsaved(c)
        \/ ResolveTorn(c) \/ Cancel(c) \/ CancelUnsaved(c)
    \/ \E k \in Cont : Start(k)
    \/ BuildRouter \/ BuildExecutor \/ Restart

Spec == Init /\ [][Next]_vars

------------------------------------------------------------------------------
(* Properties                                                              *)

ContinuationsOf(c) == {k \in DOMAIN source : source[k] = c}

\* Replay protection: whatever the copies and the restarts, a question leads
\* to one continuation, and to one more for each time an answer to it was cut
\* off between resolve's two writes (ClarificationService.resolve).
ResolvedOnce == \A c \in Clar : Cardinality(ContinuationsOf(c)) <= 1 + torn[c]

\* Once the user was told a question is answered or cancelled, no continuation
\* of it is created any more: not after a restart, and not when another object
\* writes its own copy of the file.
AcknowledgedIsFinal ==
    [][\A c \in acked : ContinuationsOf(c)' = ContinuationsOf(c)]_vars

\* What ContinuationStore calls durable: the continuation of an acknowledged
\* answer stays in the file.  The executor's copy may never have had it.
ContinuationsAreDurable ==
    [][\A k \in Cont : contDisk[k] # "absent" => contDisk'[k] # "absent"]_vars

==============================================================================
