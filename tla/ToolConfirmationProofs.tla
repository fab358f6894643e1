----------------------- MODULE ToolConfirmationProofs -----------------------
(***************************************************************************)
(* What confirmations, the emergency stop and the rate limit keep to, for  *)
(* any number of calls, requests, sessions and users, any lifetime, window *)
(* and limit, and any number of stops and restarts.                        *)
(***************************************************************************)
EXTENDS ToolConfirmation, FiniteSetTheorems, TLAPS

\* A call that holds a confirmation spent its row, and nobody else did.
Spent(c) ==
    call[c].grant # NoAction =>
        /\ call[c].at # "new"
        /\ call[c].grant \in Actions
        /\ action[call[c].grant].status = "gone"
        /\ call[c].session = action[call[c].grant].session
        /\ action[call[c].grant].at <= call[c].time
        /\ call[c].time <= action[call[c].grant].at + Lifetime

Exclusive(c, d) ==
    call[c].grant # NoAction /\ call[c].grant = call[d].grant => c = d

\* The calls let through whose times have not left the window.
Recent == {c \in admitted : call[c].time + Window > now}

\* The window holds them all, within the limit.
WindowSound ==
    /\ IsFiniteSet(window)
    /\ Recent \subseteq window
    /\ \A c \in admitted \cup window : call[c].at # "new"
    /\ Cardinality(Recent) <= MaxCalls

Inv ==
    /\ TypeOK
    /\ \A a \in Actions : action[a].at <= now
    /\ \A c \in Calls : Spent(c)
    /\ \A c, d \in Calls : Exclusive(c, d)
    /\ StopLeavesNothingPending
    /\ Denied => \A c \in Calls : call[c].at = "cleared" => c \in exempt
    /\ WindowSound

------------------------------------------------------------------------------
(* Steps that leave the clock, the stop and the history of stops alone     *)

\* Rows are only asked for or spent, and asked for by nobody under a stop that denies.
RowsOf(rows, used) ==
    /\ rows \in [Actions -> Row]
    /\ \A a \in Actions : rows[a].at <= now
    /\ \A a \in Actions : a \in used => rows[a].status = "gone"
    /\ \A a \in Actions : action[a].status = "gone" => rows[a] = action[a]
    /\ Denied => \A a \in Actions : rows[a].status # "pending"

LEMMA ConsumedRows ==
    ASSUME Inv, NEW a \in Actions
    PROVE  /\ RowsOf(Consumed(action, a), {a})
           /\ Consumed(action, a)[a].session = action[a].session
           /\ Consumed(action, a)[a].at = action[a].at
BY DEF Inv, TypeOK, Row, RowsOf, Consumed, StopLeavesNothingPending, Pending

LEMMA RequestedRows ==
    ASSUME Inv, ~Denied, NEW used \in SUBSET Actions, NEW rows, RowsOf(rows, used),
           NEW a \in Actions, rows[a].status = "unused", NEW s \in Sessions
    PROVE  RowsOf(Requested(rows, a, s), used)
<1>1. now \in 0..MaxTime /\ now <= now
  BY LimitsAssumption DEF Inv, TypeOK
<1>2. [status |-> "pending", session |-> s, at |-> now] \in Row
  BY <1>1 DEF Row
<1>3. Requested(rows, a, s) \in [Actions -> Row]
  BY <1>2 DEF RowsOf, Requested
<1>4. action[a].status # "gone"
  BY DEF RowsOf, Inv, TypeOK, Row
<1> QED BY <1>1, <1>3, <1>4 DEF RowsOf, Requested

\* The window after a look at it: nothing recent is missing.
LEMMA InWindowSound ==
    ASSUME Inv
    PROVE  /\ InWindow \subseteq window
           /\ IsFiniteSet(InWindow)
           /\ Cardinality(InWindow) \in Nat
           /\ Recent \subseteq InWindow
<1>1. InWindow \subseteq window /\ IsFiniteSet(window)
  BY DEF InWindow, Inv, WindowSound
<1>2. IsFiniteSet(InWindow)
  BY <1>1, FS_Subset
<1>3. Cardinality(InWindow) \in Nat
  BY <1>2, FS_CardinalityType
<1>4. Recent \subseteq InWindow
  BY DEF Recent, InWindow, Inv, WindowSound
<1> QED BY <1>1, <1>2, <1>3, <1>4

\* The part of the invariant that is about calls and rows, when call c, so far
\* new, moves on holding g.
LEMMA ArrivedCalls ==
    ASSUME Inv, NEW c \in Calls, call[c].at = "new", NEW s \in Sessions,
           NEW g \in Actions \cup {NoAction},
           NEW at \in Stage, at \notin {"new", "cleared"},
           RowsOf(action', {g}), UNCHANGED <<now, stopped, spared, exempt>>,
           g # NoAction => /\ action[g].status = "pending"
                           /\ s = action[g].session /\ now <= action[g].at + Lifetime
                           /\ action'[g].session = action[g].session
                           /\ action'[g].at = action[g].at,
           call' = [call EXCEPT ![c] = [at |-> at, session |-> s, grant |-> g, time |-> now]]
    PROVE  /\ call' \in [Calls -> Call]
           /\ \A a \in Actions : action'[a].at <= now'
           /\ \A d \in Calls : Spent(d)'
           /\ \A d, e \in Calls : Exclusive(d, e)'
           /\ StopLeavesNothingPending'
           /\ (Denied => \A d \in Calls : call[d].at = "cleared" => d \in exempt)'
           /\ call'[c].at # "new" /\ call'[c].time = now
           /\ \A d \in Calls \ {c} : call'[d] = call[d]
<1>1. /\ call'[c] = [at |-> at, session |-> s, grant |-> g, time |-> now]
      /\ \A d \in Calls \ {c} : call'[d] = call[d]
  BY DEF Inv, TypeOK
<1>2. call' \in [Calls -> Call]
  BY DEF Inv, TypeOK, Call
<1>3. \A a \in Actions : action'[a].at <= now'
  BY DEF RowsOf
<1>4. Spent(c)'
  <2>1. CASE g = NoAction
    BY <1>1, <2>1 DEF Spent
  <2>2. CASE g # NoAction
    BY <1>1, <2>2 DEF Spent, RowsOf, Inv
  <2> QED BY <2>1, <2>2
<1>5. ASSUME NEW d \in Calls \ {c} PROVE Spent(d)'
  BY <1>1, <1>5 DEF Inv, Spent, RowsOf
<1>6. ASSUME NEW d \in Calls \ {c}, g # NoAction PROVE call[d].grant # g
  BY <1>6 DEF Inv, Spent
<1>7. \A d, e \in Calls : Exclusive(d, e)'
  BY <1>1, <1>6 DEF Inv, Exclusive
<1>8. StopLeavesNothingPending'
  BY DEF RowsOf, StopLeavesNothingPending, Pending, Denied
<1>9. (Denied => \A d \in Calls : call[d].at = "cleared" => d \in exempt)'
  BY <1>1 DEF Inv, Denied
<1> QED BY <1>1, <1>2, <1>3, <1>4, <1>5, <1>7, <1>8, <1>9

\* guard.execute, for a call with or without a confirmation.
LEMMA GuardStep ==
    ASSUME Inv, NEW c \in Calls, call[c].at = "new", NEW s \in Sessions,
           NEW g \in Actions \cup {NoAction},
           NEW rows, RowsOf(rows, {g} \cap Actions),
           g # NoAction => /\ action[g].status = "pending"
                           /\ s = action[g].session /\ now <= action[g].at + Lifetime
                           /\ rows[g].session = action[g].session
                           /\ rows[g].at = action[g].at,
           Guard(c, s, g, rows), UNCHANGED <<now, stopped, spared, exempt>>
    PROVE  Inv'
<1> DEFINE become(at) == call' = [call EXCEPT ![c] = [at |-> at, session |-> s, grant |-> g, time |-> now]]
<1>1. \E at \in Stage \ {"new", "cleared"} : become(at)
  BY DEF Guard, Stage
<1>2. RowsOf(action', {g} \cap Actions) /\ (g # NoAction => action' = rows)
  <2>1. CASE action' = rows
    BY <2>1
  <2>2. CASE ~Denied /\ g = NoAction
             /\ \E a \in Actions : rows[a].status = "unused" /\ action' = Requested(rows, a, s)
    BY <2>2, RequestedRows
  <2> QED BY <2>1, <2>2 DEF Guard
<1>3. RowsOf(action', {g})
  BY <1>2, NoActionAssumption DEF RowsOf
<1>4. /\ call' \in [Calls -> Call]
      /\ \A a \in Actions : action'[a].at <= now'
      /\ \A d \in Calls : Spent(d)'
      /\ \A d, e \in Calls : Exclusive(d, e)'
      /\ StopLeavesNothingPending'
      /\ (Denied => \A d \in Calls : call[d].at = "cleared" => d \in exempt)'
      /\ call'[c].at # "new" /\ call'[c].time = now
      /\ \A d \in Calls \ {c} : call'[d] = call[d]
  <2>1. PICK at \in Stage \ {"new", "cleared"} : become(at)
    BY <1>1
  <2> HIDE DEF Guard
  <2> QED BY <1>2, <1>3, <2>1, ArrivedCalls
<1>5. window' \subseteq Calls /\ admitted' \subseteq Calls
  BY InWindowSound DEF Guard, Inv, TypeOK
<1>6. TypeOK'
  BY <1>2, <1>4, <1>5 DEF Inv, TypeOK, RowsOf
<1>7. c \notin admitted \cup window /\ admitted \cup window \subseteq Calls
  BY DEF Inv, WindowSound, TypeOK
<1>8. WindowSound'
  <2>1. CASE Cardinality(InWindow) >= MaxCalls
    <3>1. window' = InWindow /\ admitted' = admitted
      BY <2>1, InWindowSound, LimitsAssumption DEF Guard
    <3>2. Recent' = Recent
      BY <1>4, <1>7, <3>1 DEF Recent
    <3> QED BY <1>4, <1>7, <3>1, <3>2, InWindowSound DEF Inv, WindowSound
  <2>2. CASE Cardinality(InWindow) < MaxCalls
    <3>1. window' = InWindow \cup {c} /\ admitted' = admitted \cup {c}
      BY <2>2, InWindowSound, LimitsAssumption DEF Guard
    <3>2. IsFiniteSet(window') /\ Cardinality(window') = Cardinality(InWindow) + 1
      BY <1>7, <3>1, InWindowSound, FS_AddElement
    <3>3. Recent' \subseteq window'
      BY <1>4, <1>7, <3>1, InWindowSound DEF Recent
    <3>4. Cardinality(Recent') <= Cardinality(window') /\ Cardinality(Recent') \in Nat
      BY <3>2, <3>3, FS_Subset, FS_CardinalityType
    <3>5. Cardinality(Recent') <= MaxCalls
      BY <2>2, <3>2, <3>4, InWindowSound, LimitsAssumption
    <3>6. \A d \in admitted' \cup window' : call'[d].at # "new"
      BY <1>4, <1>7, <3>1, InWindowSound DEF Inv, WindowSound
    <3> QED BY <3>2, <3>3, <3>5, <3>6 DEF WindowSound
  <2> QED BY <2>1, <2>2, InWindowSound, LimitsAssumption
<1> QED BY <1>4, <1>6, <1>8 DEF Inv

\* Calls only move on, past "new" already, and the rate limit is not asked.
LEMMA MovedCalls ==
    ASSUME Inv, UNCHANGED <<now, stopped, spared, exempt>>,
           RowsOf(action', {}),
           (window' = window /\ admitted' = admitted) \/ (window' = {} /\ admitted' = {}),
           call' \in [Calls -> Call],
           \A c \in Calls : /\ call'[c].session = call[c].session
                            /\ call'[c].grant = call[c].grant
                            /\ call'[c].time = call[c].time
                            /\ call[c].at # "new" => call'[c].at # "new",
           Denied => \A c \in Calls : call'[c].at = "cleared" => call[c].at = "cleared"
    PROVE  Inv'
<1>1. TypeOK'
  BY DEF Inv, TypeOK, RowsOf
<1>2. \A c \in Calls : Spent(c)'
  BY DEF Inv, Spent, RowsOf
<1>3. \A c, d \in Calls : Exclusive(c, d)'
  BY DEF Inv, Exclusive
<1>4. StopLeavesNothingPending' /\ \A a \in Actions : action'[a].at <= now'
  BY DEF RowsOf, StopLeavesNothingPending, Pending, Denied
<1>5. WindowSound'
  <2>1. CASE window' = window /\ admitted' = admitted
    <3>1. Recent' = Recent
      BY <2>1 DEF Recent, Inv, TypeOK
    <3> QED BY <2>1, <3>1 DEF Inv, WindowSound, TypeOK
  <2>2. CASE window' = {} /\ admitted' = {}
    <3>1. Recent' = {}
      BY <2>2 DEF Recent
    <3> QED BY <2>2, <3>1, FS_EmptySet, LimitsAssumption DEF WindowSound
  <2> QED BY <2>1, <2>2
<1>6. (Denied => \A c \in Calls : call[c].at = "cleared" => c \in exempt)'
  BY DEF Inv, Denied
<1> QED BY <1>1, <1>2, <1>3, <1>4, <1>5, <1>6 DEF Inv

\* Calls and the rate limit stay as they are.
LEMMA SameRows ==
    ASSUME Inv
    PROVE  RowsOf(action, {})
BY DEF Inv, TypeOK, RowsOf, StopLeavesNothingPending, Pending

------------------------------------------------------------------------------
LEMMA InvInit == Init => Inv
<1> SUFFICES ASSUME Init PROVE Inv
  OBVIOUS
<1>1. 0 \in 0..MaxTime /\ 0 <= 0
  BY LimitsAssumption
<1>2. TypeOK
  BY <1>1 DEF Init, TypeOK, Row, Call, Stage
<1>3. WindowSound
  <2>1. Recent = {}
    BY DEF Init, Recent
  <2> QED BY <2>1, FS_EmptySet, LimitsAssumption DEF Init, WindowSound
<1> QED BY <1>1, <1>2, <1>3
    DEF Inv, Init, Denied, Spent, Exclusive, StopLeavesNothingPending, Pending

LEMMA GatewayStep ==
    ASSUME Inv, NEW c \in Calls, Gateway(c)
    PROVE  Inv'
<1>1. call[c] \in Call /\ call[c].at = "checked" /\ ~Denied
  BY DEF Gateway, Inv, TypeOK
<1>2. \E at \in Stage \ {"new"} : call' = [call EXCEPT ![c].at = at]
  BY DEF Gateway, Stage
<1>3. /\ call' \in [Calls -> Call]
      /\ \A d \in Calls : /\ call'[d].session = call[d].session
                          /\ call'[d].grant = call[d].grant
                          /\ call'[d].time = call[d].time
                          /\ call[d].at # "new" => call'[d].at # "new"
  BY <1>1, <1>2 DEF Inv, TypeOK, Call
<1>4. RowsOf(action', {})
  <2>1. CASE UNCHANGED action
    BY <2>1, SameRows
  <2>2. CASE \E a \in Actions : action[a].status = "unused"
                                /\ action' = Requested(action, a, call[c].session)
    <3>1. PICK a \in Actions : action[a].status = "unused"
                               /\ action' = Requested(action, a, call[c].session)
      BY <2>2
    <3>2. [status |-> "pending", session |-> call[c].session, at |-> now] \in Row
      BY <1>1 DEF Row, Call, Inv, TypeOK
    <3>3. now <= now
      BY LimitsAssumption DEF Inv, TypeOK
    <3> QED BY <1>1, <3>1, <3>2, <3>3, SameRows DEF RowsOf, Requested
  <2> QED BY <2>1, <2>2 DEF Gateway
<1>5. UNCHANGED <<now, stopped, spared, exempt>> /\ window' = window /\ admitted' = admitted
  BY DEF Gateway
<1>6. Denied => \A d \in Calls : call'[d].at = "cleared" => call[d].at = "cleared"
  BY <1>1
<1> QED BY <1>3, <1>4, <1>5, <1>6, MovedCalls

LEMMA TickStep ==
    ASSUME Inv, Tick
    PROVE  Inv'
<1>1. now \in 0..MaxTime /\ now' = now + 1 /\ now' \in 0..MaxTime
  BY LimitsAssumption DEF Tick, Inv, TypeOK
<1>2. TypeOK'
  BY <1>1 DEF Tick, Inv, TypeOK
<1>3. \A a \in Actions : action'[a].at <= now'
  BY <1>1 DEF Tick, Inv, TypeOK, Row
<1>4. Recent' \subseteq Recent
  BY <1>1, LimitsAssumption DEF Recent, Tick, Inv, TypeOK, Call
<1>5. IsFiniteSet(Recent)
  BY FS_Subset DEF Inv, WindowSound
<1>6. Cardinality(Recent') <= MaxCalls
  <2>1. /\ IsFiniteSet(Recent') /\ Cardinality(Recent') <= Cardinality(Recent)
    BY <1>4, <1>5, FS_Subset
  <2>2. Cardinality(Recent') \in Nat /\ Cardinality(Recent) \in Nat
    BY <1>5, <2>1, FS_CardinalityType
  <2> QED BY <2>1, <2>2, LimitsAssumption DEF Inv, WindowSound
<1>7. WindowSound'
  BY <1>4, <1>6 DEF Tick, Inv, WindowSound
<1> QED BY <1>2, <1>3, <1>7
    DEF Tick, Inv, Spent, Exclusive, StopLeavesNothingPending, Pending, Denied

LEMMA StopStep ==
    ASSUME Inv, Stop
    PROVE  Inv'
<1>1. /\ action' \in [Actions -> Row]
      /\ \A a \in Actions : /\ action'[a].status # "pending"
                            /\ action'[a].at = action[a].at
                            /\ action[a].status = "gone" => action'[a] = action[a]
  BY DEF Stop, Cleared, Inv, TypeOK, Row
<1>2. TypeOK'
  BY <1>1 DEF Stop, Inv, TypeOK
<1>3. \A c \in Calls : Spent(c)'
  BY <1>1 DEF Stop, Inv, Spent
<1>4. StopLeavesNothingPending' /\ \A a \in Actions : action'[a].at <= now'
  BY <1>1 DEF Stop, Inv, StopLeavesNothingPending, Pending
<1>5. WindowSound' /\ \A c, d \in Calls : Exclusive(c, d)'
  <2>1. UNCHANGED <<now, call, window, admitted>>
    BY DEF Stop
  <2>2. Recent' = Recent
    BY <2>1 DEF Recent
  <2> QED BY <2>1, <2>2 DEF Inv, WindowSound, Exclusive
<1> QED BY <1>2, <1>3, <1>4, <1>5 DEF Stop, Inv

LEMMA InvNext == Inv /\ [Next]_vars => Inv'
<1> SUFFICES ASSUME Inv, [Next]_vars PROVE Inv'
  OBVIOUS
<1>1. ASSUME NEW c \in Calls, NEW s \in Sessions, Execute(c, s) PROVE Inv'
  <2>1. {NoAction} \cap Actions = {}
    BY NoActionAssumption
  <2>2. call[c].at = "new" /\ Guard(c, s, NoAction, action) /\ UNCHANGED <<now, stopped, spared, exempt>>
    BY <1>1 DEF Execute
  <2> QED BY <2>1, <2>2, SameRows, GuardStep
<1>2. ASSUME NEW c \in Calls, NEW s \in Sessions, NEW a \in Actions, Confirm(c, s, a) PROVE Inv'
  <2>1. {a} \cap Actions = {a}
    OBVIOUS
  <2>2. /\ call[c].at = "new" /\ action[a].status = "pending"
        /\ s = action[a].session /\ now <= action[a].at + Lifetime
        /\ Guard(c, s, a, Consumed(action, a)) /\ UNCHANGED <<now, stopped, spared, exempt>>
    BY <1>2 DEF Confirm, Confirms, Pending
  <2> HIDE DEF Consumed
  <2> QED BY <2>1, <2>2, ConsumedRows, GuardStep
<1>3. ASSUME NEW s \in Sessions, NEW a \in Actions, NEW approved \in BOOLEAN, Reject(s, a, approved)
      PROVE  Inv'
  <2>1. RowsOf(action', {})
    BY <1>3, ConsumedRows DEF Reject, RowsOf
  <2> QED BY <1>3, <2>1, MovedCalls DEF Reject, Inv, TypeOK
<1>4. ASSUME NEW c \in Calls, Run(c) \/ Ends(c) PROVE Inv'
  <2>1. \E at \in {"ran", "over"} : call[c].at # "new" /\ call' = [call EXCEPT ![c].at = at]
    BY <1>4 DEF Run, Ends
  <2>2. /\ call' \in [Calls -> Call]
        /\ \A d \in Calls : /\ call'[d].session = call[d].session
                            /\ call'[d].grant = call[d].grant
                            /\ call'[d].time = call[d].time
                            /\ call[d].at # "new" => call'[d].at # "new"
                            /\ call'[d].at = "cleared" => call[d].at = "cleared"
    BY <2>1 DEF Inv, TypeOK, Call, Stage
  <2>3. UNCHANGED <<now, stopped, spared, exempt>> /\ window' = window /\ admitted' = admitted /\ action' = action
    BY <1>4 DEF Run, Ends
  <2>4. RowsOf(action', {})
    BY <2>3, SameRows
  <2> QED BY <2>2, <2>3, <2>4, MovedCalls
<1>5. CASE Resume
  BY <1>5 DEF Resume, Denied, Inv, TypeOK, Spent, Exclusive, StopLeavesNothingPending, WindowSound, Recent
<1>6. CASE Restart
  <2>1. /\ call' \in [Calls -> Call]
        /\ \A d \in Calls : /\ call'[d].session = call[d].session
                            /\ call'[d].grant = call[d].grant
                            /\ call'[d].time = call[d].time
                            /\ call[d].at # "new" => call'[d].at # "new"
                            /\ call'[d].at = "cleared" => call[d].at = "cleared"
    BY <1>6 DEF Restart, Inv, TypeOK, Call, Stage
  <2>2. UNCHANGED <<now, stopped, spared, exempt>> /\ window' = {} /\ admitted' = {} /\ action' = action
    BY <1>6 DEF Restart
  <2>3. RowsOf(action', {})
    BY <2>2, SameRows
  <2> QED BY <2>1, <2>2, <2>3, MovedCalls
<1>7. CASE UNCHANGED vars
  BY <1>7 DEF vars, Denied, Inv, TypeOK, Spent, Exclusive, StopLeavesNothingPending, Pending, WindowSound, Recent
<1> QED BY <1>1, <1>2, <1>3, <1>4, <1>5, <1>6, <1>7, GatewayStep, TickStep, StopStep DEF Next

LEMMA Invariance == Spec => []Inv
BY InvInit, InvNext, PTL DEF Spec

------------------------------------------------------------------------------
\* Rows, calls, the window and the histories are of the types the model declares.
THEOREM ConfirmationTypeCorrect == Spec => []TypeOK
<1>1. Inv => TypeOK
  BY DEF Inv
<1> QED BY <1>1, Invariance, PTL

\* A confirmation is good for one call of the tool, however many answers race for
\* it and however often the sidecar restarts (ConfirmationBroker.consume).
THEOREM SingleUse == Spec => []OneCallPerConfirmation
<1>1. Inv => OneCallPerConfirmation
  BY DEF Inv, Exclusive, OneCallPerConfirmation
<1> QED BY <1>1, Invariance, PTL

\* Only the session that asked confirms, and in time.
THEOREM BoundToItsSession == Spec => []ConfirmedByItsSession
<1>1. Inv => ConfirmedByItsSession
  BY DEF Inv, Spent, ConfirmedByItsSession
<1> QED BY <1>1, Invariance, PTL

\* The stop takes every request for a confirmation with it, and no call it
\* overtakes leaves one behind; under it only the two tools it spares are asked
\* about (PendingActionsDict.clear, EmergencyStopPolicy).
THEOREM StopSweeps == Spec => []StopLeavesNothingPending
<1>1. Inv => StopLeavesNothingPending
  BY DEF Inv
<1> QED BY <1>1, Invariance, PTL

\* No tool but the two the stop spares is started under it, except by a call that
\* was past its last policy when the stop was set (EmergencyStopPolicy, asked by
\* the guard and again by the gateway).
THEOREM StopReachesCalls == Spec => StopHalts
<1> DEFINE Halts == \A c \in Calls : call[c].at # "ran" /\ call'[c].at = "ran" => ~Denied \/ c \in exempt
<1>1. Inv /\ [Next]_vars => [Halts]_vars
  <2> SUFFICES ASSUME Inv, Next PROVE Halts
    OBVIOUS
  <2> SUFFICES ASSUME NEW c \in Calls, call[c].at # "ran", call'[c].at = "ran"
               PROVE  call[c].at = "cleared"
    BY DEF Inv
  <2>1. ASSUME NEW d \in Calls, NEW s \in Sessions, NEW g, NEW rows, Guard(d, s, g, rows)
        PROVE  FALSE
    <3>1. \E at \in {"over", "checked"} :
              call' = [call EXCEPT ![d] = [at |-> at, session |-> s, grant |-> g, time |-> now]]
      BY <2>1 DEF Guard
    <3> QED BY <3>1 DEF Inv, TypeOK
  <2>2. ASSUME NEW d \in Calls, Gateway(d) \/ Ends(d) \/ Run(d) PROVE call[c].at = "cleared"
    BY <2>2 DEF Gateway, Ends, Run, Inv, TypeOK, Call
  <2>3. CASE Restart
    BY <2>3 DEF Restart, Inv, TypeOK, Call
  <2>4. CASE UNCHANGED call
    BY <2>4
  <2> QED BY <2>1, <2>2, <2>3, <2>4 DEF Next, Execute, Confirm, Reject, Stop, Resume, Tick
<1> QED BY <1>1, Invariance, PTL DEF Spec, StopHalts

\* Within a window no more calls of the tool are let through than its limit.
THEOREM RateLimitHolds == Spec => []CallsPerWindow
<1>1. Inv => CallsPerWindow
  BY DEF Inv, WindowSound, Recent, CallsPerWindow
<1> QED BY <1>1, Invariance, PTL

------------------------------------------------------------------------------
(* Refinement of OneTimeAuthority                                          *)

Uses(a) == Cardinality({c \in Calls : call[c].grant = a /\ call[c].at = "ran"})

\* A confirmation nobody holds stands where its row is.
RowPhase(row) ==
    IF row.status = "unused" THEN "none" ELSE IF row.status = "pending" THEN "asked" ELSE "void"

\* A confirmation that was spent stands where the call that spent it is.
CallPhase(at) ==
    IF at = "ran" THEN "used" ELSE IF at \in {"checked", "cleared"} THEN "given" ELSE "void"

Standing ==
    \A a \in Actions :
        /\ (\A c \in Calls : call[c].grant # a) => Phase(a) = RowPhase(action[a])
        /\ \A c \in Calls : call[c].grant = a => Phase(a) = CallPhase(call[c].at)
        /\ Uses(a) = IF Phase(a) = "used" THEN 1 ELSE 0

LEMMA ItStands == Inv => Standing
<1> SUFFICES ASSUME Inv, NEW a \in Actions
             PROVE  /\ (\A c \in Calls : call[c].grant # a) => Phase(a) = RowPhase(action[a])
                    /\ \A c \in Calls : call[c].grant = a => Phase(a) = CallPhase(call[c].at)
                    /\ Uses(a) = IF Phase(a) = "used" THEN 1 ELSE 0
  BY DEF Standing
<1> DEFINE ran == {c \in Calls : call[c].grant = a /\ call[c].at = "ran"}
<1>1. CASE \A c \in Calls : call[c].grant # a
  <2>1. ran = {} /\ Cardinality(ran) = 0
    BY <1>1, FS_EmptySet
  <2>2. Phase(a) = RowPhase(action[a]) /\ Phase(a) # "used"
    BY <1>1 DEF Phase, HeldAt, Pending, RowPhase
  <2> QED
    BY <1>1, <2>1, <2>2 DEF Uses
<1>2. ASSUME NEW c \in Calls, call[c].grant = a
      PROVE  /\ Phase(a) = CallPhase(call[c].at)
             /\ Uses(a) = IF Phase(a) = "used" THEN 1 ELSE 0
  <2>1. \A d \in Calls : call[d].grant = a <=> d = c
    BY <1>2, NoActionAssumption DEF Inv, Exclusive
  <2>2. action[a].status = "gone" /\ call[c].at # "new" /\ call[c].at \in Stage
    BY <1>2, NoActionAssumption DEF Inv, Spent, TypeOK, Call
  <2>3. \A stages : HeldAt(a, stages) <=> call[c].at \in stages
    BY <2>1 DEF HeldAt
  <2>4. Phase(a) = CallPhase(call[c].at)
    BY <2>2, <2>3 DEF Phase, Pending, CallPhase
  <2>5. CASE call[c].at = "ran"
    <3>1. ran = {c} /\ Cardinality({c}) = 1
      BY <2>1, <2>5, FS_Singleton, Zenon
    <3> QED
      BY <2>4, <2>5, <3>1 DEF Uses, CallPhase
  <2>6. CASE call[c].at # "ran"
    <3>1. ran = {} /\ Cardinality(ran) = 0
      BY <2>1, <2>6, FS_EmptySet
    <3> QED
      BY <2>4, <2>6, <3>1 DEF Uses, CallPhase
  <2> QED
    BY <2>4, <2>5, <2>6
<1> QED
  BY <1>1, <1>2

\* One confirmation at most moves: a step of the promise, or none.
LEMMA OneTurn ==
    ASSUME Standing, Standing', NEW a \in Actions,
           \A b \in Actions \ {a} : Phase(b)' = Phase(b),
           \/ Phase(a)' = Phase(a)
           \/ <<Phase(a), Phase(a)'>> \in {<<"none", "asked">>, <<"asked", "given">>, <<"given", "used">>}
    PROVE  [Authority!Next]_(Authority!vars)
<1> DEFINE phase == [b \in Actions |-> Phase(b)]
           uses == [b \in Actions |-> Uses(b)]
<1>1. \A b \in Actions \ {a} : Uses(b)' = Uses(b)
  BY DEF Standing
<1>2. CASE Phase(a)' = Phase(a)
  <2>1. \A b \in Actions : Phase(b)' = Phase(b) /\ Uses(b)' = Uses(b)
    BY <1>1, <1>2 DEF Standing
  <2>2. phase' = phase /\ uses' = uses
    BY <2>1
  <2> QED
    BY <2>2 DEF Authority!vars, Uses
<1>3. CASE Phase(a) = "none" /\ Phase(a)' = "asked"
  <2>1. phase[a] = "none" /\ phase' = [phase EXCEPT ![a] = "asked"]
    BY <1>3
  <2>2. Uses(a)' = Uses(a)
    BY <1>3 DEF Standing
  <2>3. uses' = uses
    BY <1>1, <2>2
  <2>4. Authority!Ask(a)
    BY <2>1, <2>3 DEF Authority!Ask, Uses
  <2> QED
    BY <2>4 DEF Authority!Next
<1>4. CASE Phase(a) = "asked" /\ Phase(a)' = "given"
  <2>1. phase[a] = "asked" /\ phase' = [phase EXCEPT ![a] = "given"]
    BY <1>4
  <2>2. Uses(a)' = Uses(a)
    BY <1>4 DEF Standing
  <2>3. uses' = uses
    BY <1>1, <2>2
  <2>4. Authority!Give(a)
    BY <2>1, <2>3 DEF Authority!Give, Uses
  <2> QED
    BY <2>4 DEF Authority!Next
<1>5. CASE Phase(a) = "given" /\ Phase(a)' = "used"
  <2>1. phase[a] = "given" /\ phase' = [phase EXCEPT ![a] = "used"]
    BY <1>5
  <2>2. Uses(a) = 0 /\ Uses(a)' = 1
    BY <1>5 DEF Standing
  <2>3. uses' = [b \in Actions |-> IF b = a THEN 1 ELSE uses[b]]
    BY <1>1, <2>2
  <2>4. [uses EXCEPT ![a] = @ + 1] = [b \in Actions |-> IF b = a THEN uses[a] + 1 ELSE uses[b]]
    OBVIOUS
  <2>5. uses[a] = 0
    BY <2>2
  <2>6. uses' = [uses EXCEPT ![a] = @ + 1]
    BY <2>3, <2>4, <2>5
  <2>7. Authority!Use(a)
    BY <2>1, <2>6 DEF Authority!Use, Uses
  <2> QED
    BY <2>7 DEF Authority!Next
<1> QED
  BY <1>2, <1>3, <1>4, <1>5

\* Any number of them end unused.
LEMMA SomeEnd ==
    ASSUME Standing, Standing',
           \A a \in Actions : \/ Phase(a)' = Phase(a)
                              \/ Phase(a) \in {"asked", "given"} /\ Phase(a)' = "void"
    PROVE  [Authority!Next]_(Authority!vars)
<1> DEFINE phase == [b \in Actions |-> Phase(b)]
           uses == [b \in Actions |-> Uses(b)]
           ended == {a \in Actions : Phase(a) \in {"asked", "given"} /\ Phase(a)' = "void"}
<1>1. \A a \in Actions : Uses(a)' = Uses(a)
  BY DEF Standing
<1>2. uses' = uses
  BY <1>1
<1>3. /\ \A a \in ended : phase[a] \in {"asked", "given"}
      /\ phase' = [a \in Actions |-> IF a \in ended THEN "void" ELSE phase[a]]
  OBVIOUS
<1>4. Authority!Void(ended)
  BY <1>2, <1>3 DEF Authority!Void, Uses
<1> QED
  BY <1>4 DEF Authority!Next

\* A confirmation whose row and whose holders' stages are the same stands still.
LEMMA StandsStill ==
    ASSUME NEW a \in Actions, action'[a] = action[a],
           \A c \in Calls : call'[c] # call[c] => call[c].grant # a /\ call'[c].grant # a
    PROVE  Phase(a)' = Phase(a)
<1>1. ASSUME NEW stages PROVE HeldAt(a, stages)' <=> HeldAt(a, stages)
  BY DEF HeldAt
<1> QED
  BY <1>1 DEF Phase, Pending

\* A row is asked for while nobody holds it: its confirmation is asked for.
LEMMA AskingTurn ==
    ASSUME Inv, Inv', NEW s, NEW a \in Actions, action[a].status = "unused",
           action' = Requested(action, a, s),
           \A c \in Calls : call'[c] # call[c] => call[c].grant = NoAction /\ call'[c].grant = NoAction,
           \A c \in Calls : call'[c].grant = call[c].grant
    PROVE  [Authority!Next]_(Authority!vars)
<1>1. Standing /\ Standing'
  BY ItStands, PTL
<1>2. \A c \in Calls : call[c].grant # a /\ call'[c].grant # a
  BY NoActionAssumption DEF Inv, Spent
<1>3. action'[a].status = "pending" /\ \A b \in Actions \ {a} : action'[b] = action[b]
  BY DEF Requested, Inv, TypeOK
<1>4. \A b \in Actions \ {a} : Phase(b)' = Phase(b)
  BY <1>3, StandsStill, NoActionAssumption
<1>5. Phase(a) = RowPhase(action[a]) /\ Phase(a)' = RowPhase(action'[a])
  BY <1>1, <1>2 DEF Standing
<1>6. Phase(a) = "none" /\ Phase(a)' = "asked"
  BY <1>3, <1>5 DEF RowPhase
<1> QED
  BY <1>1, <1>4, <1>6, OneTurn

\* Steps of calls without a confirmation, which leave the rows alone.
LEMMA IdleTurn ==
    ASSUME Inv, Inv', action' = action,
           \A c \in Calls : call'[c] # call[c] => call[c].grant = NoAction /\ call'[c].grant = NoAction
    PROVE  [Authority!Next]_(Authority!vars)
<1>1. Standing /\ Standing'
  BY ItStands, PTL
<1>2. \A a \in Actions : Phase(a)' = Phase(a)
  BY StandsStill, NoActionAssumption
<1> QED
  BY <1>1, <1>2, SomeEnd

\* A call that is on its way or answers a confirmation.
LEMMA ExecuteTurn ==
    ASSUME Inv, Inv', NEW c \in Calls, NEW s \in Sessions, Execute(c, s)
    PROVE  [Authority!Next]_(Authority!vars)
<1>1. call[c].at = "new" /\ call[c].grant = NoAction
  BY DEF Execute, Inv, Spent
<1>2. \E at \in {"over", "checked"} :
          call' = [call EXCEPT ![c] = [at |-> at, session |-> s, grant |-> NoAction, time |-> now]]
  BY DEF Execute, Guard
<1>3. call'[c].grant = NoAction /\ \A d \in Calls \ {c} : call'[d] = call[d]
  BY <1>2 DEF Inv, TypeOK
<1>4. CASE action' = action
  BY <1>1, <1>3, <1>4, IdleTurn
<1>5. CASE \E a \in Actions : action[a].status = "unused" /\ action' = Requested(action, a, s)
  BY <1>1, <1>3, <1>5, AskingTurn
<1> QED
  BY <1>4, <1>5 DEF Execute, Guard

LEMMA ConfirmTurn ==
    ASSUME Inv, Inv', NEW c \in Calls, NEW s \in Sessions, NEW a \in Actions, Confirm(c, s, a)
    PROVE  [Authority!Next]_(Authority!vars)
<1>1. Standing /\ Standing'
  BY ItStands, PTL
<1>2. call[c].at = "new" /\ call[c].grant = NoAction /\ action[a].status = "pending"
  BY DEF Confirm, Pending, Inv, Spent
<1>3. PICK at \in {"over", "checked"} :
          call' = [call EXCEPT ![c] = [at |-> at, session |-> s, grant |-> a, time |-> now]]
  BY DEF Confirm, Guard
<1>4. action' = Consumed(action, a)
  BY NoActionAssumption DEF Confirm, Guard
<1>5. /\ call'[c].grant = a /\ call'[c].at = at
      /\ \A d \in Calls \ {c} : call'[d] = call[d]
      /\ \A b \in Actions \ {a} : action'[b] = action[b]
  BY <1>3, <1>4 DEF Consumed, Inv, TypeOK
<1>6. \A b \in Actions \ {a} : Phase(b)' = Phase(b)
  BY <1>2, <1>5, StandsStill, NoActionAssumption
<1>7. \A d \in Calls : call[d].grant # a
  BY <1>2, NoActionAssumption DEF Inv, Spent
<1>8. Phase(a) = RowPhase(action[a]) /\ Phase(a)' = CallPhase(call'[c].at)
  BY <1>1, <1>5, <1>7 DEF Standing
<1>9. Phase(a) = "asked" /\ Phase(a)' \in {"given", "void"}
  BY <1>2, <1>5, <1>8 DEF RowPhase, CallPhase
<1>10. CASE Phase(a)' = "given"
  BY <1>1, <1>6, <1>9, <1>10, OneTurn
<1>11. CASE Phase(a)' = "void"
  BY <1>1, <1>6, <1>9, <1>11, SomeEnd
<1> QED
  BY <1>9, <1>10, <1>11

\* Rows that are spent or swept without a call.
LEMMA SweepTurn ==
    ASSUME Inv, Inv', call' = call,
           \A a \in Actions : \/ action'[a] = action[a]
                              \/ action[a].status = "pending" /\ action'[a].status = "gone"
    PROVE  [Authority!Next]_(Authority!vars)
<1>1. Standing /\ Standing'
  BY ItStands, PTL
<1>2. ASSUME NEW a \in Actions, action'[a] # action[a]
      PROVE  Phase(a) = "asked" /\ Phase(a)' = "void"
  <2>1. action[a].status = "pending" /\ action'[a].status = "gone"
    BY <1>2
  <2>2. \A c \in Calls : call[c].grant # a /\ call'[c].grant # a
    BY <2>1, NoActionAssumption DEF Inv, Spent
  <2>3. Phase(a) = RowPhase(action[a]) /\ Phase(a)' = RowPhase(action'[a])
    BY <1>1, <2>2 DEF Standing
  <2> QED
    BY <2>1, <2>3 DEF RowPhase
<1>3. ASSUME NEW a \in Actions, action'[a] = action[a]
      PROVE  Phase(a)' = Phase(a)
  BY <1>3, StandsStill
<1> QED
  BY <1>1, <1>2, <1>3, SomeEnd

\* A call that only moves on.
LEMMA MovingTurn ==
    ASSUME Inv, Inv', NEW c \in Calls, NEW at, action' = action,
           call' = [call EXCEPT ![c].at = at],
           \/ call[c].at \in {"checked", "cleared"} /\ at \in {"cleared", "over"}
           \/ call[c].at = "cleared" /\ at = "ran"
    PROVE  [Authority!Next]_(Authority!vars)
<1>1. Standing /\ Standing'
  BY ItStands, PTL
<1>2. /\ call'[c].at = at /\ call'[c].grant = call[c].grant
      /\ \A d \in Calls \ {c} : call'[d] = call[d]
      /\ call[c].grant \in Actions \cup {NoAction}
  BY DEF Inv, TypeOK, Call
<1>3. CASE call[c].grant = NoAction
  BY <1>2, <1>3, IdleTurn
<1>4. ASSUME NEW a \in Actions, call[c].grant = a
      PROVE  [Authority!Next]_(Authority!vars)
  <2>1. \A b \in Actions \ {a} : Phase(b)' = Phase(b)
    BY <1>2, <1>4, StandsStill
  <2>2. Phase(a) = CallPhase(call[c].at) /\ Phase(a)' = CallPhase(at)
    BY <1>1, <1>2, <1>4 DEF Standing
  <2>3. Phase(a) = "given" /\ Phase(a)' \in {"given", "used", "void"}
    BY <2>2 DEF CallPhase
  <2>4. CASE Phase(a)' \in {"given", "used"}
    BY <1>1, <2>1, <2>3, <2>4, OneTurn
  <2>5. CASE Phase(a)' = "void"
    BY <1>1, <2>1, <2>3, <2>5, SomeEnd
  <2> QED
    BY <2>3, <2>4, <2>5
<1> QED
  BY <1>2, <1>3, <1>4

\* A restart ends the calls under way, and with them what they held.
LEMMA RestartTurn ==
    ASSUME Inv, Inv', Restart
    PROVE  [Authority!Next]_(Authority!vars)
<1>1. Standing /\ Standing'
  BY ItStands, PTL
<1>2. ASSUME NEW a \in Actions
      PROVE  Phase(a)' = Phase(a) \/ (Phase(a) \in {"asked", "given"} /\ Phase(a)' = "void")
  <2>1. CASE \A c \in Calls : call[c].grant # a
    <3>1. \A c \in Calls : call'[c].grant # a
      BY <2>1 DEF Restart, Inv, TypeOK, Call
    <3>2. Phase(a) = RowPhase(action[a]) /\ Phase(a)' = RowPhase(action'[a])
      BY <1>1, <2>1, <3>1 DEF Standing
    <3> QED
      BY <3>2 DEF Restart
  <2>2. ASSUME NEW c \in Calls, call[c].grant = a
        PROVE  Phase(a)' = Phase(a) \/ (Phase(a) \in {"asked", "given"} /\ Phase(a)' = "void")
    <3>1. /\ call'[c].grant = a
          /\ \/ call'[c] = call[c]
             \/ call[c].at \in {"checked", "cleared"} /\ call'[c].at = "over"
      BY <2>2 DEF Restart, Inv, TypeOK, Call
    <3>2. Phase(a) = CallPhase(call[c].at) /\ Phase(a)' = CallPhase(call'[c].at)
      BY <1>1, <2>2, <3>1 DEF Standing
    <3> QED
      BY <3>1, <3>2 DEF CallPhase
  <2> QED
    BY <2>1, <2>2
<1> QED
  BY <1>1, <1>2, SomeEnd

LEMMA AuthorityInit == Init => Authority!Init
<1> SUFFICES ASSUME Init PROVE Authority!Init
  OBVIOUS
<1>1. Standing
  BY InvInit, ItStands
<1>2. \A a \in Actions : Phase(a) = "none" /\ Uses(a) = 0
  BY <1>1 DEF Init, Standing, Phase
<1> QED
  BY <1>2 DEF Authority!Init, Uses

LEMMA AuthorityStep == Inv /\ Inv' /\ [Next]_vars => [Authority!Next]_(Authority!vars)
<1> SUFFICES ASSUME Inv, Inv', [Next]_vars PROVE [Authority!Next]_(Authority!vars)
  OBVIOUS
<1>1. ASSUME NEW s \in Sessions, NEW a \in Actions, NEW approved \in BOOLEAN, Reject(s, a, approved)
      PROVE  [Authority!Next]_(Authority!vars)
  BY <1>1, SweepTurn DEF Reject, Pending, Consumed, Inv, TypeOK, Row
<1>2. ASSUME NEW c \in Calls, Run(c) \/ Ends(c)
      PROVE  [Authority!Next]_(Authority!vars)
  BY <1>2, MovingTurn DEF Run, Ends
<1>3. ASSUME NEW c \in Calls, Gateway(c)
      PROVE  [Authority!Next]_(Authority!vars)
  <2>1. CASE call' = [call EXCEPT ![c].at = "cleared"] /\ UNCHANGED action
    BY <1>3, <2>1, MovingTurn DEF Gateway
  <2>2. CASE /\ call[c].grant = NoAction
             /\ \E a \in Actions : action[a].status = "unused"
                                   /\ action' = Requested(action, a, call[c].session)
             /\ call' = [call EXCEPT ![c].at = "over"]
    <3>1. /\ \A d \in Calls : call'[d].grant = call[d].grant
          /\ \A d \in Calls \ {c} : call'[d] = call[d]
      BY <2>2 DEF Inv, TypeOK, Call
    <3> QED
      BY <2>2, <3>1, AskingTurn
  <2> QED
    BY <1>3, <2>1, <2>2 DEF Gateway
<1>4. CASE Stop
  BY <1>4, SweepTurn DEF Stop, Cleared, Inv, TypeOK, Row
<1>5. CASE UNCHANGED <<action, call>>
  BY <1>5, IdleTurn
<1> QED
  BY <1>1, <1>2, <1>3, <1>4, <1>5, ExecuteTurn, ConfirmTurn, RestartTurn DEF Next, Resume, Tick, vars

\* A confirmation is an authority of one call: asked for, given, used once, or void,
\* whichever calls, answers, stops, restarts and denials race.
THEOREM ConfirmationsAreOneTime == Spec => ConfirmsOneTime
BY AuthorityInit, AuthorityStep, InvInit, InvNext, PTL DEF Spec, ConfirmsOneTime, Authority!Spec

------------------------------------------------------------------------------
(* Confirmations that come to nothing                                      *)

\* A confirmation ends unused in five ways only: the user refuses it, or answers it
\* late or in another session; the stop sweeps it before it is answered; the guard
\* denies the call it was given for (the rate limit is asked after the row is
\* deleted); that call ends, or is cut off by a restart, before its tool.  Nobody
\* else's answer, no other call and no restart before the answer touches it
\* (ConfirmationBroker.consume, ToolExecutionGuard.execute, PendingActionsDict).
LostOnItsWay ==
    [][\A a \in Actions : Phase(a) \in {"asked", "given"} /\ Phase(a)' = "void" =>
           \/ \E s \in Sessions, approved \in BOOLEAN : Reject(s, a, approved)
           \/ Phase(a) = "asked" /\ Stop
           \/ \E c \in Calls, s \in Sessions : Confirm(c, s, a) /\ call'[c].at = "over"
           \/ \E c \in Calls : call[c].grant = a /\ (Ends(c) \/ Restart)]_vars

\* A call that moves on without a confirmation, or with another one, and leaves
\* the row alone, does nothing to this one.
LEMMA MovedOnWithout ==
    ASSUME Inv, NEW c \in Calls, NEW r, call' = [call EXCEPT ![c] = r],
           NEW a \in Actions, call[c].grant # a, r.grant # a, action'[a] = action[a]
    PROVE  Phase(a)' = Phase(a)
<1>1. \A d \in Calls : call'[d] # call[d] => call[d].grant # a /\ call'[d].grant # a
  BY DEF Inv, TypeOK
<1> QED
  BY <1>1, StandsStill

\* Whoever answers, calls or stops, a confirmation the user gave is lost only with
\* the call that holds it, and one that was asked for only by its own answer or by
\* the stop.
THEOREM LossesHaveACause == Spec => LostOnItsWay
<1> DEFINE Cause(a) ==
        \/ \E s \in Sessions, approved \in BOOLEAN : Reject(s, a, approved)
        \/ Phase(a) = "asked" /\ Stop
        \/ \E c \in Calls, s \in Sessions : Confirm(c, s, a) /\ call'[c].at = "over"
        \/ \E c \in Calls : call[c].grant = a /\ (Ends(c) \/ Restart)
<1>1. ASSUME Inv, Inv', Next, NEW a \in Actions, Phase(a) \in {"asked", "given"}, Phase(a)' = "void"
      PROVE  Cause(a)
  <2>1. /\ Standing /\ Standing'
        /\ Phase(a)' # Phase(a)
        /\ action[a].status # "unused"
        /\ a # NoAction
    <3>1. Standing /\ Standing'
      BY <1>1, ItStands, PTL
    <3>2. Phase(a)' # Phase(a)
      BY <1>1
    <3>3. action[a].status # "unused"
      BY <1>1 DEF Phase
    <3> QED
      BY <3>1, <3>2, <3>3, NoActionAssumption
  <2>2. ASSUME NEW b \in Actions, NEW s, action[b].status = "unused", action' = Requested(action, b, s)
        PROVE  action'[a] = action[a]
    BY <1>1, <2>1, <2>2 DEF Requested, Inv, TypeOK
  <2>3. ASSUME NEW c \in Calls, NEW s \in Sessions, Execute(c, s) PROVE FALSE
    <3>1. /\ call[c].grant # a
          /\ \E at : call' = [call EXCEPT ![c] = [at |-> at, session |-> s, grant |-> NoAction, time |-> now]]
      BY <1>1, <2>1, <2>3 DEF Execute, Guard, Inv, Spent
    <3>2. action'[a] = action[a]
      BY <2>2, <2>3 DEF Execute, Guard
    <3> QED
      BY <1>1, <2>1, <3>1, <3>2, MovedOnWithout
  <2>4. ASSUME NEW c \in Calls, NEW s \in Sessions, NEW b \in Actions, Confirm(c, s, b) PROVE Cause(a)
    <3>1. PICK at \in {"over", "checked"} :
              call' = [call EXCEPT ![c] = [at |-> at, session |-> s, grant |-> b, time |-> now]]
      BY <2>4 DEF Confirm, Guard
    <3>2. action' = Consumed(action, b) /\ call[c].grant # a
      BY <1>1, <2>1, <2>4, NoActionAssumption DEF Confirm, Guard, Inv, Spent
    <3>3. CASE b # a
      <4>1. action'[a] = action[a]
        BY <1>1, <3>2, <3>3 DEF Consumed, Inv, TypeOK
      <4>2. PICK r : r = [at |-> at, session |-> s, grant |-> b, time |-> now]
        OBVIOUS
      <4>3. call' = [call EXCEPT ![c] = r] /\ r.grant # a
        BY <3>1, <3>3, <4>2
      <4>4. Phase(a)' = Phase(a)
        BY <1>1, <3>2, <4>1, <4>3, MovedOnWithout
      <4> QED
        BY <2>1, <4>4
    <3>4. CASE b = a
      <4>1. call'[c].grant = a /\ call'[c].at = at
        BY <1>1, <3>1, <3>4 DEF Inv, TypeOK
      <4>2. call'[c].at = "over"
        BY <1>1, <2>1, <3>1, <4>1 DEF Standing, CallPhase
      <4> QED
        BY <2>4, <3>4, <4>2
    <3> QED
      BY <3>3, <3>4
  <2>5. ASSUME NEW s \in Sessions, NEW b \in Actions, NEW approved \in BOOLEAN, Reject(s, b, approved)
        PROVE  Cause(a)
    <3>1. CASE b # a
      <4>1. action'[a] = action[a] /\ call' = call
        BY <1>1, <2>5, <3>1 DEF Reject, Consumed, Inv, TypeOK
      <4> QED
        BY <2>1, <4>1, StandsStill
    <3> QED
      BY <2>5, <3>1
  <2>6. ASSUME NEW c \in Calls, Gateway(c) \/ Run(c) PROVE FALSE
    <3>1. CASE call[c].grant # a
      <4>1. \E r : call' = [call EXCEPT ![c] = r] /\ r.grant # a
        <5>1. \A at : [call EXCEPT ![c].at = at] = [call EXCEPT ![c] = [call[c] EXCEPT !.at = at]]
          BY <1>1 DEF Inv, TypeOK
        <5>2. \A at : [call[c] EXCEPT !.at = at].grant # a
          BY <1>1, <3>1 DEF Inv, TypeOK, Call
        <5> QED
          BY <2>6, <5>1, <5>2 DEF Gateway, Run
      <4>2. action'[a] = action[a]
        BY <2>2, <2>6 DEF Gateway, Run
      <4> QED
        BY <1>1, <2>1, <3>1, <4>1, <4>2, MovedOnWithout
    <3>2. CASE call[c].grant = a
      <4>1. \E at \in {"cleared", "ran"} : call' = [call EXCEPT ![c].at = at]
        BY <2>1, <2>6, <3>2 DEF Gateway, Run
      <4>2. call'[c].grant = a /\ call'[c].at \in {"cleared", "ran"}
        BY <1>1, <3>2, <4>1 DEF Inv, TypeOK, Call
      <4> QED
        BY <1>1, <2>1, <4>2 DEF Standing, CallPhase
    <3> QED
      BY <3>1, <3>2
  <2>7. ASSUME NEW c \in Calls, Ends(c) PROVE Cause(a)
    <3>1. CASE call[c].grant # a
      <4>1. call' = [call EXCEPT ![c] = [call[c] EXCEPT !.at = "over"]] /\ action' = action
        BY <1>1, <2>7 DEF Ends, Inv, TypeOK
      <4>2. [call[c] EXCEPT !.at = "over"].grant # a
        BY <1>1, <3>1 DEF Inv, TypeOK, Call
      <4> QED
        BY <1>1, <2>1, <3>1, <4>1, <4>2, MovedOnWithout
    <3> QED
      BY <2>7, <3>1
  <2>8. CASE Stop
    <3>1. CASE Phase(a) = "given"
      <4>1. action[a].status # "pending"
        BY <3>1 DEF Phase, Pending
      <4>2. action'[a] = action[a] /\ call' = call
        BY <2>8, <4>1 DEF Stop, Cleared
      <4> QED
        BY <2>1, <4>2, StandsStill
    <3> QED
      BY <1>1, <2>8, <3>1
  <2>9. CASE Resume \/ Tick
    BY <2>1, <2>9, StandsStill DEF Resume, Tick
  <2>10. CASE Restart
    <3>1. CASE \A c \in Calls : call[c].grant # a
      <4>1. \A c \in Calls : call'[c].grant # a
        BY <1>1, <2>10, <3>1 DEF Restart, Inv, TypeOK, Call
      <4> QED
        BY <2>1, <2>10, <3>1, <4>1, StandsStill DEF Restart
    <3> QED
      BY <2>10, <3>1
  <2> HIDE DEF Cause
  <2> QED
    BY <1>1, <2>3, <2>4, <2>5, <2>6, <2>7, <2>8, <2>9, <2>10 DEF Next
<1>2. Inv /\ Inv' /\ [Next]_vars =>
          [\A a \in Actions : Phase(a) \in {"asked", "given"} /\ Phase(a)' = "void" => Cause(a)]_vars
  BY <1>1
<1> QED
  BY <1>2, Invariance, PTL DEF Spec, LostOnItsWay

=============================================================================
