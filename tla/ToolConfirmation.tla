-------------------------- MODULE ToolConfirmation --------------------------
(***************************************************************************)
(* Calls of one dangerous tool through ExecutionPipeline.execute: the rate *)
(* limit, the guard's policies, the gateway's policies and the tool, with  *)
(* the confirmations that ConfirmationBroker keeps in pending_actions, the *)
(* emergency stop that overtakes both, and restarts of the sidecar.        *)
(*                                                                         *)
(* The guard's policies are evaluated without giving way, so everything    *)
(* from the arrival of a call, or of the answer that confirms one, to the  *)
(* guard's decision is one step of the event loop.  The gateway collects   *)
(* context before it evaluates the policies again, and grounds and emits   *)
(* before it starts the tool: both are awaits at which others overtake.    *)
(***************************************************************************)
EXTENDS Naturals, FiniteSets

CONSTANTS
    Calls,          \* calls of ExecutionPipeline.execute, each made once
    Actions,        \* action ids, each drawn once
    Sessions,
    Users,
    UserOf,         \* the user of a session
    MaxTime,
    Lifetime,       \* ttl_seconds
    Window,         \* window_seconds
    MaxCalls,       \* max_calls of the tool in a window
    NoAction, NoSession

ASSUME UsersAssumption == UserOf \in [Sessions -> Users]
ASSUME LimitsAssumption ==
    /\ MaxTime \in Nat /\ Lifetime \in Nat
    /\ Window \in Nat \ {0} /\ MaxCalls \in Nat \ {0}
ASSUME NoActionAssumption == NoAction \notin Actions

VARIABLES
    now,
    stopped,    \* the row of emergency_stop
    spared,     \* the tool is permissions.status, or permissions.emergency to resume
    action,     \* action[a]: its row in pending_actions, "gone" once deleted
    call,       \* call[c]: where it is, for whom, with which confirmation, since when
    window,     \* the calls whose times are in the tool's window
    admitted,   \* calls this process let past the rate limit (history)
    exempt      \* while it is set, the calls past their last policy at that time (history)

vars == <<now, stopped, spared, action, call, window, admitted, exempt>>

\* checked: past the guard's policies; cleared: past the gateway's.
Stage == {"new", "checked", "cleared", "ran", "over"}

Row == [status: {"unused", "pending", "gone"}, session: Sessions \cup {NoSession}, at: 0..MaxTime]
Call == [at: Stage, session: Sessions \cup {NoSession}, grant: Actions \cup {NoAction},
         time: 0..MaxTime]

TypeOK ==
    /\ now \in 0..MaxTime
    /\ stopped \in BOOLEAN /\ spared \in BOOLEAN
    /\ action \in [Actions -> Row]
    /\ call \in [Calls -> Call]
    /\ window \subseteq Calls
    /\ admitted \subseteq Calls
    /\ exempt \subseteq Calls

Init ==
    /\ now = 0
    /\ stopped = FALSE /\ spared \in BOOLEAN
    /\ action = [a \in Actions |-> [status |-> "unused", session |-> NoSession, at |-> 0]]
    /\ call = [c \in Calls |-> [at |-> "new", session |-> NoSession, grant |-> NoAction, time |-> 0]]
    /\ window = {}
    /\ admitted = {}
    /\ exempt = {}

\* Mutant: a row is found again after it was deleted.
Known(a) == action[a].status # "unused"

Pending(a) == action[a].status = "pending"

\* ConfirmationBroker.request: a new row bound to the session.
Requested(rows, a, s) ==
    [rows EXCEPT ![a] = [status |-> "pending", session |-> s, at |-> now]]

\* Mutant: the row is read and not deleted.
ReadOnly(rows, a) == rows

\* Mutant: the row is marked instead.
ConsumedMarked(rows, a) == [rows EXCEPT ![a].status = "confirmed"]

\* consume_pending_action: the row is deleted before anything else is checked.
Consumed(rows, a) == [rows EXCEPT ![a].status = "gone"]

\* Another user's answer is refused before the deletion.
SameUser(s, a) == UserOf[s] = UserOf[action[a].session]

\* Mutant: the user is enough.
ConfirmsAsUser(s, a) == now <= action[a].at + Lifetime

\* An approval is worth a grant from the session that asked, within the lifetime.
Confirms(s, a) == s = action[a].session /\ now <= action[a].at + Lifetime

\* Mutant: an entry is dropped one second early.
InWindowShort == {d \in window : call[d].time + Window > now + 1}

\* ToolRateLimiter.check: the entries that have not left the window.
InWindow == {d \in window : call[d].time + Window > now}

\* EmergencyStopPolicy: under the stop everything is denied but to look at it and
\* to lift it.  Other policies may still want these two confirmed.
Denied == stopped /\ ~spared

------------------------------------------------------------------------------
\* ToolExecutionGuard.execute for call c of s, holding grant g, when the rows
\* are those given: the rate limit is charged first, then the policies decide.
\* What they want confirmed is confirmed by a grant; without one a confirmation
\* is asked for, and the call still goes on to the gateway, which decides anew.
Guard(c, s, g, rows) ==
    LET become(at) == call' = [call EXCEPT ![c] = [at |-> at, session |-> s, grant |-> g, time |-> now]]
    IN  \/ /\ Cardinality(InWindow) >= MaxCalls
           /\ become("over")
           /\ action' = rows /\ window' = InWindow
           /\ UNCHANGED admitted
        \/ /\ Cardinality(InWindow) < MaxCalls
           /\ window' = InWindow \cup {c}
           /\ admitted' = admitted \cup {c}
           /\ \/ become("over") /\ action' = rows
              \/ ~Denied /\ become("checked") /\ action' = rows
              \/ /\ ~Denied /\ g = NoAction
                 /\ \E a \in Actions : rows[a].status = "unused" /\ action' = Requested(rows, a, s)
                 /\ become("checked")

\* A call of its own.
Execute(c, s) ==
    /\ call[c].at = "new"
    /\ Guard(c, s, NoAction, action)
    /\ UNCHANGED <<now, stopped, spared, exempt>>

\* ToolGateway.confirm with an approval that is worth a grant: the call goes
\* through the pipeline again, with the grant.
Confirm(c, s, a) ==
    /\ call[c].at = "new"
    /\ Pending(a) /\ SameUser(s, a) /\ Confirms(s, a)
    /\ Guard(c, s, a, Consumed(action, a))
    /\ UNCHANGED <<now, stopped, spared, exempt>>

\* A refusal, or an approval that comes late or from another session of the
\* user: the row is gone, and nothing is granted.
Reject(s, a, approved) ==
    /\ Pending(a) /\ SameUser(s, a)
    /\ ~approved \/ ~Confirms(s, a)
    /\ action' = Consumed(action, a)
    /\ UNCHANGED <<now, stopped, spared, call, window, admitted, exempt>>

\* Mutant: what the guard's policies decided is not asked again.
GatewayTrusts(c) ==
    /\ call[c].at = "checked"
    /\ call' = [call EXCEPT ![c].at = "cleared"]
    /\ UNCHANGED <<now, stopped, spared, action, window, admitted, exempt>>

\* ToolGateway.execute evaluates the policies again; they may have changed, and
\* now want a confirmation.
Gateway(c) ==
    /\ call[c].at = "checked" /\ ~Denied
    /\ \/ call' = [call EXCEPT ![c].at = "cleared"] /\ UNCHANGED action
       \/ /\ call[c].grant = NoAction
          /\ \E a \in Actions : action[a].status = "unused"
                                /\ action' = Requested(action, a, call[c].session)
          /\ call' = [call EXCEPT ![c].at = "over"]
    /\ UNCHANGED <<now, stopped, spared, window, admitted, exempt>>

\* The tool is started.
Run(c) ==
    /\ call[c].at = "cleared"
    /\ call' = [call EXCEPT ![c].at = "ran"]
    /\ UNCHANGED <<now, stopped, spared, action, window, admitted, exempt>>

\* The call ends without its tool: denied, its circuit open, or its task
\* cancelled (permissions.confirm gives the call it confirms ten seconds).
Ends(c) ==
    /\ call[c].at \in {"checked", "cleared"}
    /\ call' = [call EXCEPT ![c].at = "over"]
    /\ UNCHANGED <<now, stopped, spared, action, window, admitted, exempt>>

------------------------------------------------------------------------------
(* PermissionsService.emergency, itself called by a tool                   *)

\* Mutant: the flag without the rows.
Kept(rows) == rows

\* PendingActionsDict.clear.
Cleared(rows) ==
    [a \in Actions |-> IF rows[a].status = "pending" THEN [rows[a] EXCEPT !.status = "gone"] ELSE rows[a]]

Stop ==
    /\ stopped' = TRUE
    /\ action' = Cleared(action)
    /\ exempt' = {c \in Calls : call[c].at = "cleared"}
    /\ UNCHANGED <<now, spared, call, window, admitted>>

Resume ==
    /\ stopped
    /\ stopped' = FALSE
    /\ exempt' = {}
    /\ UNCHANGED <<now, spared, action, call, window, admitted>>

Tick ==
    /\ now < MaxTime
    /\ now' = now + 1
    /\ UNCHANGED <<stopped, spared, action, call, window, admitted, exempt>>

\* The sidecar restarts: the rows stay, calls under way and the windows do not.
Restart ==
    /\ call' = [c \in Calls |-> IF call[c].at \in {"checked", "cleared"}
                                THEN [call[c] EXCEPT !.at = "over"] ELSE call[c]]
    /\ window' = {}
    /\ admitted' = {}
    /\ UNCHANGED <<now, stopped, spared, action, exempt>>

Next ==
    \/ \E c \in Calls, s \in Sessions : Execute(c, s) \/ \E a \in Actions : Confirm(c, s, a)
    \/ \E s \in Sessions, a \in Actions, approved \in BOOLEAN : Reject(s, a, approved)
    \/ \E c \in Calls : Gateway(c) \/ Run(c) \/ Ends(c)
    \/ Stop \/ Resume \/ Tick \/ Restart

Spec == Init /\ [][Next]_vars

------------------------------------------------------------------------------
(* Properties                                                              *)

\* However many requests answer a confirmation at once, and across restarts, it
\* is good for one call of the tool: the row is deleted before it is judged
\* (ConfirmationBroker.consume, confirmation.py:308-359).
OneCallPerConfirmation ==
    \A c, d \in Calls : call[c].grant # NoAction /\ call[c].grant = call[d].grant => c = d

\* A call that holds a confirmation was confirmed by the very session that asked
\* for it, within the lifetime counted from the asking (confirmation.py:329-347).
ConfirmedByItsSession ==
    \A c \in Calls : call[c].grant # NoAction =>
        LET row == action[call[c].grant]
        IN  call[c].session = row.session /\ row.at <= call[c].time /\ call[c].time <= row.at + Lifetime

\* While the emergency stop is set no call of a tool that it denies waits for a
\* confirmation, so what was asked before it cannot be confirmed after it is
\* lifted: calls overtaken by the stop between the guard and the gateway leave no
\* row behind either.  The two tools that the stop spares by design may be asked
\* about under it, if a rule wants them confirmed (permissions_service.py:109-111,
\* tool_gateway.py:351-389, policies/security_policies.py:250-263).
StopLeavesNothingPending == Denied => \A a \in Actions : ~Pending(a)

\* The stop reaches every call that is not yet past the gateway's own policies,
\* those the guard has let through included, except the calls that look at the
\* stop (permissions.status) or lift it (permissions.emergency with resume), which
\* run under it by design (policies/security_policies.py:248-268).
StopHalts ==
    [][\A c \in Calls : call[c].at # "ran" /\ call'[c].at = "ran" => ~Denied \/ c \in exempt]_vars

\* In no window are more calls of the tool let through than max_calls, whatever
\* becomes of them: asked to confirm, confirmed, denied or cut short
\* (ToolRateLimiter.check, tool_rate_limiter.py:115-145).
CallsPerWindow ==
    Cardinality({c \in admitted : call[c].time + Window > now}) <= MaxCalls

------------------------------------------------------------------------------
(* Refinement of the promise about authorities                             *)

\* A call that has spent row a and is at one of the given stages.
HeldAt(a, stages) == \E c \in Calls : call[c].grant = a /\ call[c].at \in stages

Phase(a) ==
    IF action[a].status = "unused" THEN "none"
    ELSE IF Pending(a) THEN "asked"
    ELSE IF HeldAt(a, {"ran"}) THEN "used"
    ELSE IF HeldAt(a, {"checked", "cleared"}) THEN "given"
    ELSE "void"

Authority == INSTANCE OneTimeAuthority WITH
    Authorities <- Actions,
    phase <- [a \in Actions |-> Phase(a)],
    uses <- [a \in Actions |-> Cardinality({c \in Calls : call[c].grant = a /\ call[c].at = "ran"})]

\* A confirmation is an authority of one call: the calls of a dangerous tool, with
\* the answers, stops, restarts and denials they meet, implement OneTimeAuthority.
ConfirmsOneTime == Authority!Spec

==============================================================================
