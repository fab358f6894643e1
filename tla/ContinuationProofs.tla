-------------------------- MODULE ContinuationProofs --------------------------
(***************************************************************************)
(* What racing handlers of continuations keep to, for any sets of          *)
(* continuations, handlers, grants and plans, and any lifetime.  The rows  *)
(* of the grants are the lock: everything follows from the fact that the   *)
(* approval of a grant leaves "pending" once and for all.                  *)
(***************************************************************************)
EXTENDS Continuation, ExecutionGrantsProofs

\* A grant somebody approved, or that lapsed while it was.
Decided(g) == plan[g].status \notin {"none", "pending", "cancelled"}

\* A copy that can be confirmed has a grant.
Granted(copy) == copy.state = "awaiting" => copy.grant \in Grants

\* A handler between its approval and its answer.
Past(h) == handler[h].pc \in {"executing", "performing"}

Follows(h) ==
    /\ Granted(Copy(h))
    /\ handler[h].pc \in {"checking", "executing", "performing"} => Copy(h).grant \in accepted
    /\ Past(h) => Decided(Copy(h).grant)
    /\ handler[h].pc = "executing" => performed[Copy(h).grant] = {}

\* Two handlers are not past the approval of one grant.
Alone(h, k) == Past(h) /\ Past(k) /\ Copy(h).grant = Copy(k).grant => h = k

Ledger(g) ==
    /\ performed[g] # {} => Decided(g) /\ \E e \in Handlers \X Plans : performed[g] = {e}
    /\ plan[g].status = "in_progress" => performed[g] # {}

Inv ==
    /\ TypeOK
    /\ \A k \in Conts : Granted(record[k])
    /\ \A h \in Handlers : Follows(h)
    /\ \A h, k \in Handlers : Alone(h, k)
    /\ \A g \in Grants : Ledger(g)

------------------------------------------------------------------------------
LEMMA NewRecordTyped == NewRecord \in Record /\ Granted(NewRecord)
BY DEF NewRecord, Record, RecordState, Granted

\* A transition of a copy keeps its type and its grant, and leads to no state
\* but the one asked for.
LEMMA MovedCopy ==
    ASSUME NEW c \in Record, NEW s \in RecordState
    PROVE  /\ Moved(c, s) \in Record
           /\ Moved(c, s).grant = c.grant
           /\ Moved(c, s).state \in {c.state, s}
BY DEF Moved, Record

LEMMA MovedGranted ==
    ASSUME NEW c \in Record, Granted(c), NEW s \in RecordState \ {"awaiting"}
    PROVE  Moved(c, s) \in Record /\ Granted(Moved(c, s))
BY MovedCopy DEF Granted

\* The transitions the handlers make: an approved grant is never cancelled.
LEMMA TransitionKeeps ==
    ASSUME GrantsTypeOK, NEW g \in Grants, NEW d \in Grants, NEW from, NEW to,
           TransitionPlan(g, from, to),
           <<from, to>> \in {<<"pending", "approved">>, <<"approved", "in_progress">>,
                            <<"in_progress", "consumed">>, <<"pending", "cancelled">>,
                            <<"in_progress", "failed">>}
    PROVE  /\ Decided(d) => Decided(d)'
           /\ to # "in_progress" => (plan'[d].status = "in_progress" => plan[d].status = "in_progress")
<1>1. plan[g] \in PlanRow
  BY DEF GrantsTypeOK
<1>2. d # g => plan'[d] = plan[d]
  BY DEF TransitionPlan, GrantsTypeOK
<1>3. \/ plan'[g].status = plan[g].status
      \/ plan[g].status \in Live /\ plan'[g].status = "expired"
      \/ plan[g].status = from /\ plan'[g].status = to
  BY <1>1 DEF TransitionPlan, GrantsTypeOK, PlanRow, Transits, LapsesOnTouch
<1>4. (to = "cancelled" => from = "pending") /\ to \notin {"none", "pending"}
  OBVIOUS
<1>5. CASE d = g
  BY <1>3, <1>4, <1>5 DEF Decided
<1>6. CASE d # g
  BY <1>2, <1>6 DEF Decided
<1> QED
  BY <1>5, <1>6

\* A decided grant stays decided, and only resuming claims one.
Kept ==
    /\ GrantsTypeOK'
    /\ \A d \in Grants : Decided(d) => Decided(d)'

Unclaimed == \A d \in Grants : plan'[d].status = "in_progress" => plan[d].status = "in_progress"

LEMMA RestingRows == ASSUME GrantsTypeOK, UNCHANGED grantVars PROVE Kept /\ Unclaimed
BY DEF grantVars, GrantsTypeOK, Decided, Kept, Unclaimed

LEMMA RowEffect ==
    ASSUME GrantsTypeOK, NEW g \in Grants,
           ApprovePlanGrant(g) \/ CompletePlan(g) \/ FailPlan(g) \/ CancelPendingGrant(g)
    PROVE  Kept /\ Unclaimed
<1>1. GrantsTypeOK'
  BY TypeStep DEF GrantsNext
<1>2. CASE UNCHANGED grantVars
  BY <1>2, RestingRows
<1>3. CASE TransitionPlan(g, "pending", "approved")
  BY <1>1, <1>3, TransitionKeeps DEF Kept, Unclaimed
<1>4. CASE TransitionPlan(g, "in_progress", "consumed")
  BY <1>1, <1>4, TransitionKeeps DEF Kept, Unclaimed
<1>5. CASE TransitionPlan(g, "in_progress", "failed")
  BY <1>1, <1>5, TransitionKeeps DEF Kept, Unclaimed
<1>6. CASE TransitionPlan(g, "pending", "cancelled")
  BY <1>1, <1>6, TransitionKeeps DEF Kept, Unclaimed
<1> QED
  BY <1>2, <1>3, <1>4, <1>5, <1>6 DEF ApprovePlanGrant, CompletePlan, FailPlan, CancelPendingGrant

LEMMA RequestEffect ==
    ASSUME GrantsTypeOK, NEW g \in Grants, NEW size \in 0 .. MaxSteps, NEW expires \in 0 .. (MaxTime + 1),
           RequestPlanGrant(g, size, expires)
    PROVE  Kept /\ Unclaimed
<1>1. GrantsTypeOK'
  BY TypeStep DEF GrantsNext
<1>2. \A d \in Grants : plan'[d] = plan[d] \/ (plan[d].status = "none" /\ plan'[d].status = "pending")
  BY DEF RequestPlanGrant, GrantsTypeOK
<1> QED
  BY <1>1, <1>2 DEF Kept, Unclaimed, Decided

------------------------------------------------------------------------------
(* The steps                                                               *)

HandlerRow == [pc: HandlerAt, cont: Conts \cup {NoCont}, copy: Record]

\* One handler goes on to x, and nothing is performed.
LEMMA HandlerMoves ==
    ASSUME Inv, NEW h \in Handlers, NEW x \in HandlerRow,
           handler' = [handler EXCEPT ![h] = x],
           Kept, Unclaimed,
           record' \in [Conts -> Record], \A k \in Conts : Granted(record[k])',
           shown' \in [Grants -> Plans \cup {NoPlan}],
           accepted \subseteq accepted', accepted' \subseteq Grants,
           performed' = performed,
           Granted(x.copy),
           x.pc = "checking" => x.copy.grant \in accepted',
           x.pc = "executing" =>
               /\ x.copy.grant \in accepted'
               /\ Decided(x.copy.grant)'
               /\ performed[x.copy.grant] = {}
               /\ \A k \in Handlers : Past(k) => Copy(k).grant # x.copy.grant,
           x.pc # "performing"
    PROVE  Inv'
<1>0. handler \in [Handlers -> HandlerRow] /\ accepted \subseteq Grants
  BY DEF Inv, TypeOK, HandlerRow
<1>1. handler'[h] = x /\ \A k \in Handlers : k # h => handler'[k] = handler[k]
  BY <1>0
<1>2. TypeOK'
  <2>1. handler' \in [Handlers -> HandlerRow]
    BY <1>0
  <2> QED
    BY <2>1 DEF Inv, TypeOK, HandlerRow, Kept
<1>3. ASSUME NEW k \in Handlers
      PROVE  Follows(k)'
  <2>1. CASE k = h
    BY <1>1, <2>1 DEF Follows, Granted, Copy, Past
  <2>2. CASE k # h
    <3>1. handler'[k] = handler[k] /\ Follows(k)
      BY <1>1, <2>2 DEF Inv
    <3>2. handler[k].pc \in {"checking", "executing", "performing"} => handler[k].copy.grant \in Grants
      BY <1>0, <3>1 DEF Follows, Copy
    <3> QED
      BY <3>1, <3>2 DEF Follows, Granted, Copy, Past, Kept
  <2> QED
    BY <2>1, <2>2
<1>4. ASSUME NEW j \in Handlers, NEW k \in Handlers
      PROVE  Alone(j, k)'
  <2>1. Alone(j, k)
    BY DEF Inv
  <2> QED
    BY <1>1, <2>1 DEF Alone, Past, Copy
<1>5. ASSUME NEW g \in Grants
      PROVE  Ledger(g)'
  BY DEF Inv, Ledger, Kept, Unclaimed
<1> QED
  BY <1>2, <1>3, <1>4, <1>5 DEF Inv

\* What Answer and Await make of the handlers, and Answer of the records.
LEMMA AnswerMoves ==
    ASSUME TypeOK, \A k \in Conts : Granted(record[k]),
           NEW h \in Handlers, NEW c \in Record, Granted(c), Answer(h, c)
    PROVE  \E x \in HandlerRow :
              /\ handler' = [handler EXCEPT ![h] = x]
              /\ x.pc = "done" /\ x.copy = c
              /\ record' \in [Conts -> Record]
              /\ \A k \in Conts : Granted(record[k])'
<1> DEFINE x == [handler[h] EXCEPT !.pc = "done", !.copy = c]
<1>1. handler \in [Handlers -> HandlerRow] /\ record \in [Conts -> Record]
  BY DEF TypeOK, HandlerRow
<1>2. x \in HandlerRow /\ x.pc = "done" /\ x.copy = c
  BY <1>1 DEF HandlerRow, HandlerAt
<1>3. handler' = [handler EXCEPT ![h] = x]
  BY <1>1 DEF Answer
<1>4. record' \in [Conts -> Record] /\ \A k \in Conts : record'[k] = record[k] \/ record'[k] = c
  BY <1>1 DEF Answer
<1>5. \A k \in Conts : Granted(record[k])'
  BY <1>4 DEF Granted
<1> QED
  BY <1>2, <1>3, <1>4, <1>5

\* An answer with a copy of the handler's, whatever the rows have come to.
LEMMA AnswerKeeps ==
    ASSUME Inv, NEW h \in Handlers, NEW c \in Record, Granted(c), Answer(h, c),
           Kept, Unclaimed,
           shown' \in [Grants -> Plans \cup {NoPlan}],
           UNCHANGED <<performed, accepted>>
    PROVE  Inv'
<1>1. TypeOK /\ (\A k \in Conts : Granted(record[k])) /\ accepted \subseteq Grants
  BY DEF Inv, TypeOK
<1>2. PICK x \in HandlerRow :
              /\ handler' = [handler EXCEPT ![h] = x]
              /\ x.pc = "done" /\ x.copy = c
              /\ record' \in [Conts -> Record]
              /\ \A k \in Conts : Granted(record[k])'
  BY <1>1, AnswerMoves
<1>3. /\ accepted \subseteq accepted' /\ accepted' \subseteq Grants /\ performed' = performed
      /\ x.pc # "checking" /\ x.pc # "executing" /\ x.pc # "performing" /\ Granted(x.copy)
  BY <1>1, <1>2
<1> QED
  BY <1>2, <1>3, HandlerMoves

\* A handler that answers with its own copy moved on.
LEMMA MovedAnswerKeeps ==
    ASSUME Inv, NEW h \in Handlers, NEW s \in RecordState \ {"awaiting"},
           Answer(h, Moved(Copy(h), s)), Kept, Unclaimed, UNCHANGED history
    PROVE  Inv'
<1>1. Copy(h) \in Record /\ Granted(Copy(h))
  BY DEF Inv, TypeOK, Follows, Copy
<1>2. Moved(Copy(h), s) \in Record /\ Granted(Moved(Copy(h), s))
  BY <1>1, MovedGranted
<1>3. shown' \in [Grants -> Plans \cup {NoPlan}] /\ UNCHANGED <<performed, accepted>>
  BY DEF history, Inv, TypeOK
<1> QED
  BY <1>2, <1>3, AnswerKeeps

LEMMA CreateKeeps == ASSUME Inv, NEW k \in Conts, Create(k) PROVE Inv'
<1>1. Kept /\ Unclaimed
  BY RestingRows DEF Create, Inv, TypeOK
<1>2. record \in [Conts -> Record] /\ \A j \in Conts : Granted(record[j])
  BY DEF Inv, TypeOK
<1>3. record' \in [Conts -> Record]
  BY <1>2 DEF Create, Record, RecordState
<1>4. \A j \in Conts : record'[j] = record[j] \/ record'[j].state = "created"
  BY <1>2 DEF Create, Record
<1>5. \A j \in Conts : Granted(record[j])'
  BY <1>2, <1>4 DEF Granted
<1>6. TypeOK'
  BY <1>1, <1>3 DEF Create, Inv, TypeOK, history, Kept
<1>7. /\ \A h \in Handlers : Follows(h)'
      /\ \A h, j \in Handlers : Alone(h, j)'
      /\ \A g \in Grants : Ledger(g)'
  BY DEF Create, Inv, Follows, Alone, Ledger, Past, Copy, Decided, grantVars, history
<1> QED
  BY <1>5, <1>6, <1>7 DEF Inv

LEMMA StartKeeps == ASSUME Inv, NEW h \in Handlers, NEW k \in Conts, Start(h, k) PROVE Inv'
<1> DEFINE x == [pc |-> "replanning", cont |-> k, copy |-> Moved(record[k], "replanning")]
<1>1. Kept /\ Unclaimed
  BY RestingRows DEF Start, Inv, TypeOK
<1>2. Moved(record[k], "replanning") \in Record /\ Granted(Moved(record[k], "replanning"))
  BY MovedGranted DEF Inv, TypeOK, RecordState
<1>3. /\ x \in HandlerRow /\ Granted(x.copy)
      /\ x.pc # "checking" /\ x.pc # "executing" /\ x.pc # "performing"
  BY <1>2 DEF HandlerRow, HandlerAt
<1>4. handler' = [handler EXCEPT ![h] = x]
  BY DEF Start, Await
<1>5. /\ record' \in [Conts -> Record] /\ \A j \in Conts : Granted(record[j])'
      /\ shown' \in [Grants -> Plans \cup {NoPlan}]
      /\ accepted \subseteq accepted' /\ accepted' \subseteq Grants /\ performed' = performed
  BY DEF Start, history, Inv, TypeOK, Granted
<1> HIDE DEF x
<1> QED
  BY <1>1, <1>3, <1>4, <1>5, HandlerMoves

LEMMA ReplannedKeeps ==
    ASSUME Inv, NEW h \in Handlers, NEW g \in Grants, NEW p \in Plans, Replanned(h, g, p)
    PROVE  Inv'
<1> DEFINE a == [Copy(h) EXCEPT !.grant = g, !.digest = Digest(p)]
           c == Moved(a, "awaiting")
<1>1. Expiry \in 0 .. (MaxTime + 1) /\ PayloadSize(p) \in 0 .. MaxSteps
  BY BoundsAssumption, LifetimeAssumption DEF Expiry, PayloadSize, Inv, TypeOK, GrantsTypeOK
<1>2. Kept /\ Unclaimed
  BY <1>1, RequestEffect DEF Replanned, Inv, TypeOK
<1>3. a \in Record /\ a.grant = g
  BY DEF Inv, TypeOK, Copy, Record, Digest
<1>4. c \in Record /\ c.grant = g
  BY <1>3, MovedCopy DEF RecordState
<1>5. Granted(c) /\ Answer(h, c)
  BY <1>4 DEF Granted, Replanned
<1>6. shown' \in [Grants -> Plans \cup {NoPlan}] /\ UNCHANGED <<performed, accepted>>
  BY DEF Replanned, Inv, TypeOK
<1> HIDE DEF c
<1> QED
  BY <1>2, <1>4, <1>5, <1>6, AnswerKeeps

\* The answers that leave the rows alone.
LEMMA FailureKeeps ==
    ASSUME Inv, NEW h \in Handlers, ReplanFails(h) \/ CheckRaises(h) \/ ExecuteFails(h)
    PROVE  Inv'
<1>1. Answer(h, Moved(Copy(h), "failed")) /\ UNCHANGED grantVars /\ UNCHANGED history
  BY DEF ReplanFails, CheckRaises, ExecuteFails
<1>2. Kept /\ Unclaimed
  BY <1>1, RestingRows DEF Inv, TypeOK
<1>3. "failed" \in RecordState \ {"awaiting"}
  BY DEF RecordState
<1> QED
  BY <1>1, <1>2, <1>3, MovedAnswerKeeps

\* The grant of a handler that confirms.
LEMMA ItsGrant ==
    ASSUME Inv, NEW h \in Handlers, handler[h].pc \in {"checking", "executing", "performing"}
    PROVE  Copy(h).grant \in accepted /\ Copy(h).grant \in Grants
BY DEF Inv, Follows, TypeOK

LEMMA PerformedKeeps ==
    ASSUME Inv, NEW h \in Handlers, Performed(h) \/ PerformFails(h)
    PROVE  Inv'
<1>1. Copy(h).grant \in Grants
  BY ItsGrant DEF Performed, PerformFails, At
<1>2. PICK s \in {"verified", "failed"} : Answer(h, Moved(Copy(h), s))
  BY DEF Performed, PerformFails
<1>3. CompletePlan(Copy(h).grant) \/ FailPlan(Copy(h).grant) \/ UNCHANGED grantVars
  BY DEF Performed, PerformFails
<1>4. Kept /\ Unclaimed
  BY <1>1, <1>3, RowEffect, RestingRows DEF Inv, TypeOK
<1>5. s \in RecordState \ {"awaiting"} /\ UNCHANGED history
  BY DEF RecordState, Performed, PerformFails
<1> QED
  BY <1>2, <1>4, <1>5, MovedAnswerKeeps

\* A request that is served at once: it ends, and its record moved on.
LEMMA ServedKeeps ==
    ASSUME Inv, NEW h \in Handlers, NEW k \in Conts, NEW s \in RecordState \ {"awaiting"},
           record' = [record EXCEPT ![k] = Moved(@, s)],
           handler' = [handler EXCEPT ![h].pc = "done"],
           Kept, Unclaimed, UNCHANGED history
    PROVE  Inv'
<1> DEFINE x == [handler[h] EXCEPT !.pc = "done"]
<1>1. handler[h] \in HandlerRow /\ Granted(Copy(h)) /\ record \in [Conts -> Record] /\ Granted(record[k])
  BY DEF Inv, TypeOK, HandlerRow, Follows
<1>2. x \in HandlerRow /\ x.pc = "done" /\ x.copy = Copy(h)
  BY <1>1 DEF HandlerRow, HandlerAt, Copy
<1>3. Moved(record[k], s) \in Record /\ Granted(Moved(record[k], s))
  BY <1>1, MovedGranted
<1>4. /\ record' \in [Conts -> Record]
      /\ \A j \in Conts : record'[j] = record[j] \/ record'[j] = Moved(record[k], s)
  BY <1>1, <1>3
<1>5. \A j \in Conts : Granted(record[j])'
  BY <1>3, <1>4 DEF Inv, Granted
<1>6. /\ shown' \in [Grants -> Plans \cup {NoPlan}]
      /\ accepted \subseteq accepted' /\ accepted' \subseteq Grants /\ performed' = performed
      /\ handler' = [handler EXCEPT ![h] = x]
      /\ x.pc # "checking" /\ x.pc # "executing" /\ x.pc # "performing" /\ Granted(x.copy)
  BY <1>1, <1>2 DEF history, Inv, TypeOK
<1> HIDE DEF x
<1> QED
  BY <1>2, <1>4, <1>5, <1>6, HandlerMoves

LEMMA DenyKeeps == ASSUME Inv, NEW h \in Handlers, NEW k \in Conts, Deny(h, k) PROVE Inv'
<1>1. Kept /\ Unclaimed
  BY RestingRows DEF Deny, Inv, TypeOK
<1>2. "denied" \in RecordState \ {"awaiting"}
  BY DEF RecordState
<1> QED
  BY <1>1, <1>2, ServedKeeps DEF Deny

LEMMA CancelKeeps == ASSUME Inv, NEW h \in Handlers, NEW k \in Conts, Cancel(h, k) PROVE Inv'
<1>1. record[k].grant = NoGrant \/ record[k].grant \in Grants
  BY DEF Inv, TypeOK, Record
<1>2. Kept /\ Unclaimed
  BY <1>1, RowEffect, RestingRows DEF Cancel, Inv, TypeOK
<1>3. "cancelled" \in RecordState \ {"awaiting"}
  BY DEF RecordState
<1> QED
  BY <1>2, <1>3, ServedKeeps DEF Cancel

LEMMA ConfirmKeeps == ASSUME Inv, NEW h \in Handlers, NEW k \in Conts, Confirm(h, k) PROVE Inv'
<1> DEFINE x == [pc |-> "checking", cont |-> k, copy |-> record[k]]
<1>1. Kept /\ Unclaimed
  BY RestingRows DEF Confirm, Inv, TypeOK
<1>2. record[k] \in Record /\ Granted(record[k]) /\ record[k].grant \in Grants
  BY DEF Confirm, Inv, TypeOK, Granted
<1>3. x \in HandlerRow /\ x.pc = "checking" /\ x.copy = record[k]
  BY <1>2 DEF HandlerRow, HandlerAt
<1>4. handler' = [handler EXCEPT ![h] = x]
  BY DEF Confirm, Await
<1>5. /\ record' \in [Conts -> Record] /\ \A j \in Conts : Granted(record[j])'
      /\ shown' \in [Grants -> Plans \cup {NoPlan}]
      /\ accepted \subseteq accepted' /\ accepted' \subseteq Grants /\ performed' = performed
      /\ record[k].grant \in accepted'
  BY <1>2 DEF Confirm, Inv, TypeOK, Granted
<1>6. Granted(x.copy) /\ x.copy.grant \in accepted' /\ x.pc # "executing" /\ x.pc # "performing"
  BY <1>2, <1>3, <1>5
<1> HIDE DEF x
<1> QED
  BY <1>1, <1>3, <1>4, <1>5, <1>6, HandlerMoves

\* The heart of the matter: a grant is approved out of "pending", where nobody
\* is past its approval and nothing was performed under it.
LEMMA ApprovalIsExclusive ==
    ASSUME Inv, NEW g \in Grants, Approvable(g), ApprovePlanGrant(g)
    PROVE  /\ Decided(g)'
           /\ performed[g] = {}
           /\ \A k \in Handlers : Past(k) => Copy(k).grant # g
<1>1. plan[g] \in PlanRow /\ plan[g].status = "pending"
  BY DEF Inv, TypeOK, GrantsTypeOK, Approvable, Transits
<1>2. plan'[g].status = "approved"
  BY <1>1 DEF Approvable, ApprovePlanGrant, TransitionPlan, Inv, TypeOK, GrantsTypeOK, PlanRow
<1>3. ~Decided(g) /\ Ledger(g) /\ \A k \in Handlers : Follows(k)
  BY <1>1 DEF Decided, Inv
<1> QED
  BY <1>2, <1>3 DEF Decided, Ledger, Follows

LEMMA CheckedKeeps ==
    ASSUME Inv, NEW h \in Handlers, NEW p \in Plans, Checked(h, p)
    PROVE  Inv'
<1>1. PICK g \in Grants : g = Copy(h).grant /\ g \in accepted
  BY ItsGrant DEF Checked, At
<1>2. CASE Digest(p) # Copy(h).digest
  <2>1. Answer(h, Moved(Copy(h), "replanning")) /\ UNCHANGED grantVars /\ UNCHANGED history
    BY <1>2 DEF Checked
  <2>2. Kept /\ Unclaimed
    BY <2>1, RestingRows DEF Inv, TypeOK
  <2>3. "replanning" \in RecordState \ {"awaiting"}
    BY DEF RecordState
  <2> QED
    BY <2>1, <2>2, <2>3, MovedAnswerKeeps
<1>3. CASE Digest(p) = Copy(h).digest
  <2>1. ApprovePlanGrant(g) /\ UNCHANGED history
    BY <1>1, <1>3 DEF Checked
  <2>2. Kept /\ Unclaimed
    BY <1>1, <2>1, RowEffect DEF Inv, TypeOK
  <2>3. CASE ~Approvable(g)
    <3>1. Answer(h, Moved(Copy(h), "denied"))
      BY <1>1, <1>3, <2>3 DEF Checked
    <3>2. "denied" \in RecordState \ {"awaiting"}
      BY DEF RecordState
    <3> QED
      BY <2>1, <2>2, <3>1, <3>2, MovedAnswerKeeps
  <2>4. CASE Approvable(g)
    <3> DEFINE c == Moved(Moved(Copy(h), "authorized"), "executing")
    <3>1. Copy(h) \in Record /\ Granted(Copy(h)) /\ handler[h] \in HandlerRow
      BY DEF Inv, TypeOK, Follows, Copy, HandlerRow
    <3>2. /\ Moved(Copy(h), "authorized") \in Record
          /\ Moved(Copy(h), "authorized").grant = g
          /\ Granted(Moved(Copy(h), "authorized"))
      BY <1>1, <3>1, MovedCopy, MovedGranted DEF RecordState
    <3>3. c \in Record /\ c.grant = g /\ Granted(c)
      BY <3>2, MovedCopy, MovedGranted DEF RecordState
    <3>4. UNCHANGED record /\ Await(h, "executing", handler[h].cont, c)
      BY <1>1, <1>3, <2>4 DEF Checked
    <3>5. PICK x \in HandlerRow : /\ handler' = [handler EXCEPT ![h] = x]
                                 /\ x.pc = "executing" /\ x.copy = c
      <4> HIDE DEF c
      <4>1. [pc |-> "executing", cont |-> handler[h].cont, copy |-> c] \in HandlerRow
        BY <3>1, <3>3 DEF HandlerRow, HandlerAt
      <4> QED
        BY <3>4, <4>1 DEF Await
    <3>6. /\ Decided(g)'
          /\ performed[g] = {}
          /\ \A k \in Handlers : Past(k) => Copy(k).grant # g
      BY <1>1, <2>1, <2>4, ApprovalIsExclusive
    <3>7. /\ record' \in [Conts -> Record] /\ \A j \in Conts : Granted(record[j])'
          /\ shown' \in [Grants -> Plans \cup {NoPlan}]
          /\ accepted \subseteq accepted' /\ accepted' \subseteq Grants /\ performed' = performed
          /\ g \in accepted'
      BY <1>1, <2>1, <3>4 DEF history, Inv, TypeOK, Granted
    <3>8. x.copy.grant = g /\ Granted(x.copy) /\ x.pc # "checking" /\ x.pc # "performing"
      BY <3>3, <3>5
    <3> HIDE DEF c
    <3> QED
      BY <2>2, <3>5, <3>6, <3>7, <3>8, HandlerMoves
  <2> QED
    BY <2>3, <2>4
<1> QED
  BY <1>2, <1>3

\* Under an approval that nobody has used, the grant is not claimed yet: it is
\* claimed now, within its lifetime.
LEMMA ClaimInTime ==
    ASSUME Inv, NEW h \in Handlers, NEW p \in Plans, Perform(h, p)
    PROVE  \E g \in Grants :
              /\ g = Copy(h).grant /\ g \in accepted /\ Unexpired(g)
              /\ Decided(g) /\ performed[g] = {}
              /\ TransitionPlan(g, "approved", "in_progress")
              /\ performed' = [performed EXCEPT ![g] = {<<h, p>>}]
<1>1. PICK g \in Grants : g = Copy(h).grant /\ g \in accepted
  BY ItsGrant DEF Perform, At
<1>2. Decided(g) /\ performed[g] = {} /\ Ledger(g)
  BY <1>1 DEF Perform, At, Inv, Follows, Past
<1>3. Transits(g, "approved", "in_progress")
  BY <1>1, <1>2 DEF Perform, Resumable, Ledger
<1>4. Unexpired(g) /\ TransitionPlan(g, "approved", "in_progress")
  BY <1>1, <1>3 DEF Perform, ResumeApprovedPlan, Transits
<1>5. performed' = [performed EXCEPT ![g] = performed[g] \cup {<<h, p>>}]
  BY <1>1 DEF Perform, Inv, TypeOK
<1>6. performed' = [performed EXCEPT ![g] = {<<h, p>>}]
  BY <1>2, <1>5
<1> QED
  BY <1>1, <1>2, <1>4, <1>6

LEMMA PerformKeeps ==
    ASSUME Inv, NEW h \in Handlers, NEW p \in Plans, Perform(h, p)
    PROVE  Inv'
<1>1. PICK g \in Grants :
              /\ g = Copy(h).grant /\ g \in accepted
              /\ Decided(g) /\ performed[g] = {}
              /\ TransitionPlan(g, "approved", "in_progress")
              /\ performed' = [performed EXCEPT ![g] = {<<h, p>>}]
  BY ClaimInTime
<1>2. /\ GrantsTypeOK' /\ \A d \in Grants \ {g} : plan'[d] = plan[d]
      /\ \A d \in Grants : Decided(d) => Decided(d)'
  <2>1. GrantsTypeOK
    BY DEF Inv, TypeOK
  <2> QED
    BY <1>1, <2>1, TransitionEffect, TransitionKeeps
<1>3. /\ handler \in [Handlers -> HandlerRow]
      /\ performed \in [Grants -> SUBSET (Handlers \X Plans)]
      /\ handler[h].pc = "executing"
      /\ handler' = [handler EXCEPT ![h].pc = "performing"]
      /\ UNCHANGED <<record, shown, accepted>>
  BY DEF Inv, TypeOK, HandlerRow, Perform, At
<1>4. /\ \A k \in Handlers : Copy(k)' = Copy(k) /\ (k # h => handler'[k] = handler[k])
      /\ handler'[h].pc = "performing"
      /\ handler' \in [Handlers -> HandlerRow]
  BY <1>3 DEF Copy, HandlerRow, HandlerAt
<1>5. performed' \in [Grants -> SUBSET (Handlers \X Plans)]
      /\ performed'[g] = {<<h, p>>} /\ \A d \in Grants \ {g} : performed'[d] = performed[d]
  BY <1>1, <1>3
<1>6. TypeOK'
  BY <1>2, <1>3, <1>4, <1>5 DEF Inv, TypeOK, HandlerRow
<1>7. \A k \in Conts : Granted(record[k])'
  BY <1>3 DEF Inv, Granted
<1>8. ASSUME NEW k \in Handlers
      PROVE  Follows(k)'
  <2>1. Follows(k) /\ Alone(h, k) /\ Follows(h)
    BY DEF Inv
  <2>2. CASE k = h
    <3>1. Past(h) /\ handler'[h].copy = handler[h].copy
      BY <1>3, <1>4 DEF Past, Copy
    <3> QED
      BY <1>1, <1>2, <1>3, <1>4, <2>1, <2>2, <3>1 DEF Follows, Granted, Copy, Past
  <2>3. CASE k # h
    <3>1. handler'[k] = handler[k] /\ (Past(k) => Copy(k).grant # g)
      BY <1>1, <1>3, <1>4, <2>1, <2>3 DEF Alone, Past
    <3>2. handler[k].pc \in {"checking", "executing", "performing"} => Copy(k).grant \in Grants
      BY ItsGrant
    <3>3. (Granted(Copy(k)))'
      BY <1>4, <2>1, <3>1 DEF Follows, Granted, Copy
    <3> QED
      BY <1>2, <1>3, <1>5, <2>1, <3>1, <3>2, <3>3 DEF Follows, Copy, Past
  <2> QED
    BY <2>2, <2>3
<1>9. ASSUME NEW j \in Handlers, NEW k \in Handlers
      PROVE  Alone(j, k)'
  <2>1. Alone(j, k)
    BY DEF Inv
  <2>2. (Past(j)' <=> Past(j)) /\ (Past(k)' <=> Past(k))
    BY <1>3, <1>4 DEF Past
  <2> QED
    BY <1>4, <2>1, <2>2 DEF Alone
<1>10. ASSUME NEW d \in Grants
       PROVE  Ledger(d)'
  <2>1. CASE d = g
    <3>1. <<h, p>> \in Handlers \X Plans
      OBVIOUS
    <3> QED
      BY <1>1, <1>2, <1>5, <2>1, <3>1 DEF Ledger
  <2>2. CASE d # g
    <3>1. Ledger(d)
      BY DEF Inv
    <3> QED
      BY <1>2, <1>5, <2>2, <3>1 DEF Ledger
  <2> QED
    BY <2>1, <2>2
<1> QED
  BY <1>6, <1>7, <1>8, <1>9, <1>10 DEF Inv

\* Neither time nor the end of the process changes what Inv relates.
LEMMA PassKeeps == ASSUME Inv, Pass PROVE Inv'
<1>1. TypeOK'
  BY BoundsAssumption DEF Pass, Tick, Inv, TypeOK, GrantsTypeOK, history
<1>2. /\ \A k \in Conts : Granted(record[k])'
      /\ \A h \in Handlers : Follows(h)'
      /\ \A h, k \in Handlers : Alone(h, k)'
      /\ \A g \in Grants : Ledger(g)'
  BY DEF Pass, Tick, Inv, Follows, Alone, Ledger, Past, Copy, Decided, Granted, history
<1> QED
  BY <1>1, <1>2 DEF Inv

LEMMA CrashKeeps == ASSUME Inv, Crash PROVE Inv'
<1>1. handler \in [Handlers -> HandlerRow]
  BY DEF Inv, TypeOK, HandlerRow
<1>2. \A h \in Handlers : /\ handler'[h] \in HandlerRow /\ handler'[h].pc \in {"idle", "done"}
                          /\ handler'[h].copy = handler[h].copy
  BY <1>1 DEF Crash, HandlerRow, HandlerAt
<1>3. TypeOK'
  <2>1. handler' \in [Handlers -> HandlerRow]
    BY <1>2 DEF Crash
  <2> QED
    BY <2>1 DEF Crash, Inv, TypeOK, GrantsTypeOK, HandlerRow, grantVars, history
<1>4. /\ \A k \in Conts : Granted(record[k])'
      /\ \A g \in Grants : Ledger(g)'
  BY DEF Crash, Inv, Granted, Ledger, Decided, grantVars, history
<1>5. /\ \A h \in Handlers : Follows(h)'
      /\ \A h, k \in Handlers : Alone(h, k)'
  BY <1>2 DEF Inv, Follows, Alone, Past, Copy, Granted
<1> QED
  BY <1>3, <1>4, <1>5 DEF Inv

LEMMA ContinuationInit == Init => Inv
<1> SUFFICES ASSUME Init PROVE Inv
  OBVIOUS
<1>1. TypeOK
  <2>1. handler \in [Handlers -> HandlerRow]
    BY NewRecordTyped DEF Init, HandlerRow, HandlerAt
  <2>2. GrantsTypeOK
    BY TypeInit DEF Init
  <2> QED
    BY <2>1, <2>2, NewRecordTyped DEF Init, TypeOK, HandlerRow
<1>2. \A k \in Conts : Granted(record[k])
  BY NewRecordTyped DEF Init
<1>3. \A h \in Handlers : Follows(h)
  BY NewRecordTyped DEF Init, Follows, Copy, Past
<1>4. \A h, k \in Handlers : Alone(h, k)
  BY DEF Init, Alone, Past
<1>5. \A g \in Grants : Ledger(g)
  BY DEF Init, GrantsInit, Ledger
<1> QED
  BY <1>1, <1>2, <1>3, <1>4, <1>5 DEF Inv

LEMMA ContinuationStep == Inv /\ [Next]_vars => Inv'
<1> SUFFICES ASSUME Inv, [Next]_vars PROVE Inv'
  OBVIOUS
<1>1. CASE UNCHANGED vars
  BY <1>1 DEF vars, grantVars, history, Inv, TypeOK, GrantsTypeOK, Granted, Follows, Alone, Ledger,
              Past, Copy, Decided
<1>2. CASE Next
  BY <1>2, CreateKeeps, StartKeeps, DenyKeeps, ConfirmKeeps, CancelKeeps, FailureKeeps,
     PerformedKeeps, CheckedKeeps, PerformKeeps, ReplannedKeeps, PassKeeps, CrashKeeps DEF Next
<1> QED
  BY <1>1, <1>2

LEMMA ContinuationInvariance == Spec => []Inv
BY ContinuationInit, ContinuationStep, PTL DEF Spec

------------------------------------------------------------------------------
(* Theorems                                                                *)

\* The store, the copies of the handlers and the rows keep their types.
THEOREM ContinuationTypeCorrect == Spec => []TypeOK
<1>1. Inv => TypeOK
  BY DEF Inv
<1> QED
  BY <1>1, ContinuationInvariance, PTL

\* However confirmations race and restarts cut them off, a grant is good for one
\* execution (ContinuationExecutor.confirm, approve_continuation_grant).
THEOREM GrantIsSpentOnce == Spec => []OneExecutionPerGrant
<1>1. ASSUME Inv, NEW g \in Grants
      PROVE  Cardinality(performed[g]) <= 1
  <2>1. Ledger(g)
    BY <1>1 DEF Inv
  <2>2. CASE performed[g] = {}
    BY <2>2, FS_EmptySet
  <2>3. CASE performed[g] # {}
    <3>1. PICK e : performed[g] = {e}
      BY <2>1, <2>3 DEF Ledger
    <3>2. Cardinality({e}) = 1
      BY FS_Singleton, Zenon
    <3> QED
      BY <3>1, <3>2
  <2> QED
    BY <2>2, <2>3
<1>2. Inv => OneExecutionPerGrant
  BY <1>1 DEF OneExecutionPerGrant
<1> QED
  BY <1>2, ContinuationInvariance, PTL

\* A cancellation that comes before the approval wins over every confirmation
\* under way (ContinuationExecutor.cancel).
THEOREM CancellationWins == Spec => []CancelledGrantNeverPerformed
<1>1. Inv => CancelledGrantNeverPerformed
  BY DEF Inv, Ledger, Decided, CancelledGrantNeverPerformed
<1> QED
  BY <1>1, ContinuationInvariance, PTL

\* Nothing is performed but under a grant the user confirmed, within its
\* lifetime (ContinuationExecutor.confirm, resume_approved_plan).
THEOREM ConfirmedAndInTime == Spec => PerformedOnConfirmation
<1> DEFINE Step == \A g \in Grants : performed'[g] # performed[g] => g \in accepted /\ Unexpired(g)
<1>1. ASSUME Inv, Next
      PROVE  Step
  <2>1. ASSUME NEW h \in Handlers, NEW p \in Plans, Perform(h, p)
        PROVE  Step
    BY <1>1, <2>1, ClaimInTime DEF Inv, TypeOK
  <2>2. CASE UNCHANGED performed
    BY <2>2
  <2> QED
    BY <1>1, <2>1, <2>2 DEF Next, Create, Start, Deny, Confirm, Cancel, ReplanFails, CheckRaises,
       Performed, PerformFails, ExecuteFails, Checked, Replanned, Pass, Crash, history
<1>2. Inv /\ [Next]_vars => [Step]_vars
  BY <1>1
<1> QED
  BY <1>2, ContinuationInvariance, PTL DEF Spec, PerformedOnConfirmation

------------------------------------------------------------------------------
(* Refinement of OneTimeAuthority                                          *)

\* Where a grant may go in a step that performs nothing.
Turns == {<<"none", "asked">>, <<"asked", "given">>, <<"asked", "void">>, <<"given", "void">>}

\* One grant at most changes its phase, and nothing is performed: a step of the
\* promise, or none.
LEMMA OneTurn ==
    ASSUME NEW g \in Grants, performed' = performed,
           \A d \in Grants \ {g} : Phase(d)' = Phase(d),
           Phase(g)' = Phase(g) \/ <<Phase(g), Phase(g)'>> \in Turns
    PROVE  [Authority!Next]_(Authority!vars)
<1> DEFINE phase == [d \in Grants |-> Phase(d)]
           uses == [d \in Grants |-> Cardinality(performed[d])]
<1>1. uses' = uses
  OBVIOUS
<1>2. CASE Phase(g)' = Phase(g)
  <2>1. \A d \in Grants : Phase(d)' = Phase(d)
    BY <1>2
  <2>2. phase' = phase
    BY <2>1
  <2> QED
    BY <1>1, <2>2 DEF Authority!vars
<1>3. CASE <<Phase(g), Phase(g)'>> \in Turns
  <2>1. /\ phase[g] = Phase(g)
        /\ phase' = [phase EXCEPT ![g] = Phase(g)']
        /\ phase' = [d \in Grants |-> IF d \in {g} THEN Phase(g)' ELSE phase[d]]
    OBVIOUS
  <2>2. CASE Phase(g) = "none" /\ Phase(g)' = "asked"
    <3>1. Authority!Ask(g)
      BY <1>1, <2>1, <2>2 DEF Authority!Ask
    <3> QED
      BY <3>1 DEF Authority!Next
  <2>3. CASE Phase(g) = "asked" /\ Phase(g)' = "given"
    <3>1. Authority!Give(g)
      BY <1>1, <2>1, <2>3 DEF Authority!Give
    <3> QED
      BY <3>1 DEF Authority!Next
  <2>4. CASE Phase(g) \in {"asked", "given"} /\ Phase(g)' = "void"
    <3>1. Authority!Void({g}) /\ {g} \in SUBSET Grants
      BY <1>1, <2>1, <2>4 DEF Authority!Void
    <3> QED
      BY <3>1 DEF Authority!Next
  <2> QED
    BY <1>3, <2>2, <2>3, <2>4 DEF Turns
<1> QED
  BY <1>2, <1>3

\* A transition of a row between handlers' executions turns its grant so.
LEMMA TransitionTurns ==
    ASSUME GrantsTypeOK, performed' = performed, NEW g \in Grants, NEW from, NEW to,
           TransitionPlan(g, from, to),
           <<from, to>> \in {<<"pending", "approved">>, <<"in_progress", "consumed">>,
                            <<"pending", "cancelled">>, <<"in_progress", "failed">>}
    PROVE  [Authority!Next]_(Authority!vars)
<1>1. plan[g] \in PlanRow
  BY DEF GrantsTypeOK
<1>2. \A d \in Grants \ {g} : plan'[d] = plan[d]
  BY DEF TransitionPlan, GrantsTypeOK
<1>3. \/ plan'[g].status = plan[g].status
      \/ plan[g].status \in Live /\ plan'[g].status = "expired"
      \/ plan[g].status = from /\ plan'[g].status = to
  BY <1>1 DEF TransitionPlan, GrantsTypeOK, PlanRow, Transits, LapsesOnTouch
<1>4. \A d \in Grants \ {g} : Phase(d)' = Phase(d)
  BY <1>2 DEF Phase
<1>5. Phase(g)' = Phase(g) \/ <<Phase(g), Phase(g)'>> \in Turns
  <2>1. CASE plan'[g].status = plan[g].status
    BY <2>1 DEF Phase
  <2>2. CASE plan[g].status \in Live /\ plan'[g].status = "expired"
    BY <2>2 DEF Phase, Live, Turns
  <2>3. CASE plan[g].status = from /\ plan'[g].status = to
    BY <2>3 DEF Phase, Turns
  <2> QED
    BY <1>3, <2>1, <2>2, <2>3
<1> QED
  BY <1>4, <1>5, OneTurn

LEMMA RequestTurns ==
    ASSUME GrantsTypeOK, performed' = performed, NEW g \in Grants, NEW size, NEW expires,
           RequestPlanGrant(g, size, expires)
    PROVE  [Authority!Next]_(Authority!vars)
<1>1. /\ \A d \in Grants \ {g} : plan'[d] = plan[d]
      /\ plan[g].status = "none" /\ plan'[g].status = "pending"
  BY DEF RequestPlanGrant, GrantsTypeOK
<1>2. \A d \in Grants \ {g} : Phase(d)' = Phase(d)
  BY <1>1 DEF Phase
<1>3. Phase(g)' = Phase(g) \/ <<Phase(g), Phase(g)'>> \in Turns
  BY <1>1 DEF Phase, Turns
<1> QED
  BY <1>2, <1>3, OneTurn

LEMMA NothingTurns ==
    ASSUME UNCHANGED <<plan, performed>>
    PROVE  [Authority!Next]_(Authority!vars)
<1>1. \A d \in Grants : Phase(d)' = Phase(d)
  BY DEF Phase
<1> QED
  BY <1>1 DEF Authority!vars

\* The execution is the use of an authority that was given and not used.
LEMMA PerformUses ==
    ASSUME Inv, NEW h \in Handlers, NEW p \in Plans, Perform(h, p)
    PROVE  Authority!Next
<1> DEFINE phase == [d \in Grants |-> Phase(d)]
           uses == [d \in Grants |-> Cardinality(performed[d])]
<1>1. PICK g \in Grants :
              /\ Decided(g) /\ performed[g] = {}
              /\ TransitionPlan(g, "approved", "in_progress")
              /\ performed' = [performed EXCEPT ![g] = {<<h, p>>}]
              /\ Transits(g, "approved", "in_progress")
  <2>1. PICK g \in Grants :
              /\ g = Copy(h).grant
              /\ Decided(g) /\ performed[g] = {}
              /\ TransitionPlan(g, "approved", "in_progress")
              /\ performed' = [performed EXCEPT ![g] = {<<h, p>>}]
    BY ClaimInTime
  <2>2. Ledger(g)
    BY DEF Inv
  <2>3. Transits(g, "approved", "in_progress")
    BY <2>1, <2>2 DEF Perform, Resumable, Ledger
  <2> QED
    BY <2>1, <2>3
<1>2. /\ plan[g].status = "approved"
      /\ \A d \in Grants \ {g} : plan'[d] = plan[d]
  BY <1>1 DEF Transits, TransitionPlan, Inv, TypeOK, GrantsTypeOK
<1>3. /\ performed'[g] = {<<h, p>>}
      /\ \A d \in Grants \ {g} : performed'[d] = performed[d]
  BY <1>1 DEF Inv, TypeOK
<1>4. Phase(g) = "given" /\ Phase(g)' = "used" /\ \A d \in Grants \ {g} : Phase(d)' = Phase(d)
  <2>1. Phase(g) = "given"
    BY <1>1, <1>2 DEF Phase
  <2>2. performed'[g] # {}
    BY <1>3
  <2>3. Phase(g)' = "used"
    BY <2>2 DEF Phase
  <2>4. \A d \in Grants \ {g} : Phase(d)' = Phase(d)
    BY <1>2, <1>3 DEF Phase
  <2> QED
    BY <2>1, <2>3, <2>4
<1>5. Cardinality(performed[g]) = 0 /\ Cardinality(performed[g])' = 1
  <2>1. Cardinality({<<h, p>>}) = 1
    BY FS_Singleton, Zenon
  <2> QED
    BY <1>1, <1>3, <2>1, FS_EmptySet
<1>6. phase[g] = "given" /\ phase' = [phase EXCEPT ![g] = "used"]
  BY <1>4
<1>7. uses' = [uses EXCEPT ![g] = @ + 1]
  <2>1. uses[g] = 0 /\ uses'[g] = 1
    BY <1>5
  <2>2. \A d \in Grants \ {g} : Cardinality(performed[d])' = Cardinality(performed[d])
    BY <1>3
  <2>3. uses' = [d \in Grants |-> IF d = g THEN 1 ELSE uses[d]]
    BY <1>5, <2>2
  <2>4. [uses EXCEPT ![g] = @ + 1] = [d \in Grants |-> IF d = g THEN uses[g] + 1 ELSE uses[d]]
    OBVIOUS
  <2> QED
    BY <2>1, <2>3, <2>4
<1>8. Authority!Use(g)
  BY <1>6, <1>7 DEF Authority!Use
<1> QED
  BY <1>8 DEF Authority!Next

LEMMA AuthorityInit == Init => Authority!Init
<1> SUFFICES ASSUME Init PROVE Authority!Init
  OBVIOUS
<1>1. \A g \in Grants : Phase(g) = "none" /\ Cardinality(performed[g]) = 0
  BY FS_EmptySet DEF Init, GrantsInit, Phase
<1> QED
  BY <1>1 DEF Authority!Init

LEMMA AuthorityStep == Inv /\ [Next]_vars => [Authority!Next]_(Authority!vars)
<1> SUFFICES ASSUME Inv, [Next]_vars PROVE [Authority!Next]_(Authority!vars)
  OBVIOUS
<1> USE DEF history, grantVars
<1>0. GrantsTypeOK
  BY DEF Inv, TypeOK
<1>1. ASSUME NEW h \in Handlers, NEW g \in Grants, NEW p \in Plans, Replanned(h, g, p)
      PROVE  [Authority!Next]_(Authority!vars)
  BY <1>0, <1>1, RequestTurns DEF Replanned
<1>2. ASSUME NEW h \in Handlers, NEW p \in Plans, Checked(h, p)
      PROVE  [Authority!Next]_(Authority!vars)
  <2>1. PICK g \in Grants : g = Copy(h).grant
    BY <1>2, ItsGrant DEF Checked, At
  <2>2. performed' = performed /\ (UNCHANGED plan \/ ApprovePlanGrant(g))
    BY <1>2, <2>1 DEF Checked
  <2> QED
    BY <1>0, <2>2, NothingTurns, TransitionTurns DEF ApprovePlanGrant
<1>3. ASSUME NEW h \in Handlers, Performed(h) \/ PerformFails(h)
      PROVE  [Authority!Next]_(Authority!vars)
  <2>1. PICK g \in Grants : g = Copy(h).grant
    BY <1>3, ItsGrant DEF Performed, PerformFails, At
  <2>2. performed' = performed /\ (UNCHANGED plan \/ CompletePlan(g) \/ FailPlan(g))
    BY <1>3, <2>1 DEF Performed, PerformFails
  <2>3. CASE CompletePlan(g)
    BY <1>0, <2>2, <2>3, NothingTurns, TransitionTurns DEF CompletePlan
  <2>4. CASE FailPlan(g)
    BY <1>0, <2>2, <2>4, NothingTurns, TransitionTurns DEF FailPlan
  <2> QED
    BY <2>2, <2>3, <2>4, NothingTurns
<1>4. ASSUME NEW h \in Handlers, NEW k \in Conts, Cancel(h, k)
      PROVE  [Authority!Next]_(Authority!vars)
  <2>1. record[k].grant = NoGrant \/ record[k].grant \in Grants
    BY DEF Inv, TypeOK, Record
  <2>2. performed' = performed /\ (UNCHANGED plan \/ \E g \in Grants : CancelPendingGrant(g))
    BY <1>4, <2>1 DEF Cancel
  <2>3. ASSUME NEW g \in Grants, CancelPendingGrant(g)
        PROVE  [Authority!Next]_(Authority!vars)
    BY <1>0, <2>2, <2>3, NothingTurns, TransitionTurns DEF CancelPendingGrant
  <2> QED
    BY <2>2, <2>3, NothingTurns
<1>5. ASSUME NEW h \in Handlers, NEW p \in Plans, Perform(h, p)
      PROVE  [Authority!Next]_(Authority!vars)
  BY <1>5, PerformUses
<1>6. CASE UNCHANGED <<plan, performed>>
  BY <1>6, NothingTurns
<1> QED
  BY <1>1, <1>2, <1>3, <1>4, <1>5, <1>6 DEF Next, vars, Create, Start, Deny, Confirm, ReplanFails,
     CheckRaises, ExecuteFails, Pass, Tick, Crash

\* The grant of a continuation is an authority of one execution: asked for, given,
\* used once, or void, whichever handlers race for it and whatever cuts them off.
THEOREM GrantsAreOneTime == Spec => GrantsOneTime
BY AuthorityInit, AuthorityStep, ContinuationInvariance, PTL DEF Spec, GrantsOneTime, Authority!Spec

------------------------------------------------------------------------------
(* The rows under the handlers                                             *)

\* The handlers do nothing to the rows that their callers may not do.
LEMMA RowsStep == Inv /\ [Next]_vars => [GrantsNext]_grantVars
<1> SUFFICES ASSUME Inv, [Next]_vars PROVE [GrantsNext]_grantVars
  OBVIOUS
<1>1. ASSUME NEW h \in Handlers, NEW g \in Grants, NEW p \in Plans, Replanned(h, g, p)
      PROVE  GrantsNext
  <2>1. Expiry \in 0 .. (MaxTime + 1) /\ PayloadSize(p) \in 0 .. MaxSteps
    BY BoundsAssumption, LifetimeAssumption DEF Expiry, PayloadSize, Inv, TypeOK, GrantsTypeOK
  <2> QED
    BY <1>1, <2>1 DEF Replanned, GrantsNext
<1>2. ASSUME NEW h \in Handlers, NEW p \in Plans, Checked(h, p) \/ Perform(h, p)
      PROVE  [GrantsNext]_grantVars
  <2>1. PICK g \in Grants : g = Copy(h).grant
    BY <1>2, ItsGrant DEF Checked, Perform, At
  <2>2. ApprovePlanGrant(g) \/ ResumeApprovedPlan(g) \/ UNCHANGED grantVars
    BY <1>2, <2>1 DEF Checked, Perform
  <2> QED
    BY <2>2 DEF GrantsNext
<1>3. ASSUME NEW h \in Handlers, Performed(h) \/ PerformFails(h)
      PROVE  [GrantsNext]_grantVars
  <2>1. PICK g \in Grants : g = Copy(h).grant
    BY <1>3, ItsGrant DEF Performed, PerformFails, At
  <2>2. CompletePlan(g) \/ FailPlan(g) \/ UNCHANGED grantVars
    BY <1>3, <2>1 DEF Performed, PerformFails
  <2> QED
    BY <2>2 DEF GrantsNext
<1>4. ASSUME NEW h \in Handlers, NEW k \in Conts, Cancel(h, k)
      PROVE  [GrantsNext]_grantVars
  <2>1. record[k].grant = NoGrant \/ record[k].grant \in Grants
    BY DEF Inv, TypeOK, Record
  <2>2. (\E g \in Grants : CancelPendingGrant(g)) \/ UNCHANGED grantVars
    BY <1>4, <2>1 DEF Cancel
  <2> QED
    BY <2>2 DEF GrantsNext
<1>5. CASE Pass
  BY <1>5 DEF Pass, GrantsNext
<1>6. CASE UNCHANGED grantVars
  BY <1>6
<1> QED
  BY <1>1, <1>2, <1>3, <1>4, <1>5, <1>6 DEF Next, vars, Create, Start, Deny, Confirm, ReplanFails,
     CheckRaises, ExecuteFails, Crash

\* Continuations use the grants as their specification allows, so all its theorems
\* hold of the rows of continuations.
THEOREM ContinuationsUseGrants == Spec => GrantsSpec
<1>1. Init => GrantsInit
  BY DEF Init
<1> QED
  BY <1>1, RowsStep, ContinuationInvariance, PTL DEF Spec, GrantsSpec

\* Among them: a grant that was spent, cancelled, failed or expired is never
\* reopened (transition_plan).
THEOREM ClosedGrantsStayClosed == Spec => ClosedPlanOnlyDrains
BY ContinuationsUseGrants, ClosedPlanDrains, PTL

\* Every payload is empty, and no copy is verified.
Unverified ==
    /\ \A g \in Grants : plan[g].size = 0
    /\ \A k \in Conts : record[k].state # "verified"
    /\ \A h \in Handlers : Copy(h).state # "verified"

\* A copy that is not verified moves on to another state than that.
LEMMA MovedUnverified ==
    ASSUME NEW c \in Record, c.state # "verified", NEW s \in RecordState \ {"verified"}
    PROVE  Moved(c, s) \in Record /\ Moved(c, s).state # "verified"
BY MovedCopy

\* One handler goes on with copy c, which it puts or does not put.
LEMMA UnverifiedMove ==
    ASSUME Inv, Unverified, NEW h \in Handlers, NEW c \in Record, c.state # "verified",
           \A d \in Handlers \ {h} : handler'[d] = handler[d],
           handler'[h].copy = c,
           \A k \in Conts : record'[k] = record[k] \/ record'[k] = c,
           \A g \in Grants : plan'[g].size = plan[g].size \/ plan'[g].size = 0
    PROVE  Unverified'
BY DEF Unverified, Copy

LEMMA SizesStay ==
    ASSUME Inv, NEW g \in Grants,
           ApprovePlanGrant(g) \/ ResumeApprovedPlan(g) \/ CompletePlan(g) \/ FailPlan(g) \/ CancelPendingGrant(g)
    PROVE  \A d \in Grants : plan'[d].size = plan[d].size
<1>1. GrantsTypeOK
  BY DEF Inv, TypeOK
<1>2. CASE UNCHANGED grantVars
  BY <1>2 DEF grantVars
<1>3. ASSUME NEW from, NEW to, TransitionPlan(g, from, to)
      PROVE  \A d \in Grants : plan'[d].size = plan[d].size
  BY <1>1, <1>3, TransitionEffect
<1> QED
  BY <1>1, <1>2, <1>3, BrokerEffect

\* What Answer and Await do to the handlers and the records.
LEMMA Put ==
    ASSUME TypeOK, NEW h \in Handlers, NEW c \in Record
    PROVE  /\ Answer(h, c) =>
                /\ handler'[h].copy = c
                /\ \A d \in Handlers \ {h} : handler'[d] = handler[d]
                /\ \A k \in Conts : record'[k] = record[k] \/ record'[k] = c
           /\ \A pc, k : Await(h, pc, k, c) =>
                /\ handler'[h].copy = c
                /\ \A d \in Handlers \ {h} : handler'[d] = handler[d]
BY DEF TypeOK, Answer, Await

LEMMA UnverifiedStep == Inv /\ Unverified /\ [Next]_vars => Unverified'
<1> SUFFICES ASSUME Inv, Unverified, [Next]_vars PROVE Unverified'
  OBVIOUS
<1> USE DEF grantVars, history
<1>0. /\ TypeOK
      /\ \A h \in Handlers : Copy(h) \in Record /\ Copy(h).state # "verified"
      /\ \A k \in Conts : record[k] \in Record /\ record[k].state # "verified"
  BY DEF Inv, TypeOK, Copy, Unverified
<1>1. ASSUME NEW k \in Conts, Create(k) PROVE Unverified'
  BY <1>0, <1>1 DEF Create, Unverified, Copy, TypeOK, Record
<1>2. ASSUME NEW h \in Handlers, NEW k \in Conts, Start(h, k) \/ Confirm(h, k) PROVE Unverified'
  <2>1. PICK c \in Record : /\ c.state # "verified"
                            /\ \E pc : Await(h, pc, k, c)
    BY <1>0, <1>2, MovedUnverified DEF Start, Confirm, RecordState
  <2> QED
    BY <1>0, <1>2, <2>1, Put, UnverifiedMove DEF Start, Confirm
<1>3. ASSUME NEW h \in Handlers, NEW k \in Conts, Deny(h, k) \/ Cancel(h, k) PROVE Unverified'
  <2>1. PICK c \in Record : /\ c.state # "verified"
                            /\ record' = [record EXCEPT ![k] = c]
    BY <1>0, <1>3, MovedUnverified DEF Deny, Cancel, RecordState
  <2>2. /\ \A d \in Handlers : handler'[d].copy = handler[d].copy
        /\ \A j \in Conts : record'[j] = record[j] \/ record'[j] = c
    BY <1>0, <1>3, <2>1 DEF Deny, Cancel, TypeOK
  <2>3. \A g \in Grants : plan'[g].size = plan[g].size
    <3>1. record[k].grant = NoGrant \/ record[k].grant \in Grants
      BY <1>0 DEF Record
    <3> QED
      BY <1>3, <3>1, SizesStay DEF Deny, Cancel
  <2> QED
    BY <2>1, <2>2, <2>3 DEF Unverified, Copy
<1>4. ASSUME NEW h \in Handlers, ReplanFails(h) \/ CheckRaises(h) \/ ExecuteFails(h) PROVE Unverified'
  <2>1. PICK c \in Record : c.state # "verified" /\ Answer(h, c)
    BY <1>0, <1>4, MovedUnverified DEF ReplanFails, CheckRaises, ExecuteFails, RecordState
  <2> QED
    BY <1>0, <1>4, <2>1, Put, UnverifiedMove DEF ReplanFails, CheckRaises, ExecuteFails
<1>5. ASSUME NEW h \in Handlers, Performed(h) \/ PerformFails(h) PROVE Unverified'
  <2>1. PICK g \in Grants : g = Copy(h).grant
    BY <1>5, ItsGrant DEF Performed, PerformFails, At
  <2>2. ~Completable(g)
    BY DEF Unverified, Completable
  <2>3. Answer(h, Moved(Copy(h), "failed"))
    BY <1>5, <2>1, <2>2 DEF Performed, PerformFails
  <2>4. PICK c \in Record : c.state # "verified" /\ Answer(h, c)
    BY <1>0, <2>3, MovedUnverified DEF RecordState
  <2>5. \A d \in Grants : plan'[d].size = plan[d].size
    BY <1>5, <2>1, SizesStay DEF Performed, PerformFails
  <2> QED
    BY <1>0, <2>4, <2>5, Put, UnverifiedMove
<1>6. ASSUME NEW h \in Handlers, NEW p \in Plans, NEW g \in Grants, Replanned(h, g, p) PROVE Unverified'
  <2> DEFINE a == [Copy(h) EXCEPT !.grant = g, !.digest = Digest(p)]
  <2>1. a \in Record /\ a.state # "verified"
    BY <1>0 DEF Record, Digest
  <2>2. PICK c \in Record : c.state # "verified" /\ Answer(h, c)
    BY <1>6, <2>1, MovedUnverified DEF Replanned, RecordState
  <2>3. \A d \in Grants : plan'[d].size = plan[d].size \/ plan'[d].size = 0
    BY <1>0, <1>6 DEF Replanned, RequestPlanGrant, PayloadSize, TypeOK, GrantsTypeOK
  <2> QED
    BY <1>0, <2>2, <2>3, Put, UnverifiedMove
<1>7. ASSUME NEW h \in Handlers, NEW p \in Plans, Checked(h, p) PROVE Unverified'
  <2>1. PICK g \in Grants : g = Copy(h).grant
    BY <1>7, ItsGrant DEF Checked, At
  <2>2. \A d \in Grants : plan'[d].size = plan[d].size
    BY <1>7, <2>1, SizesStay DEF Checked
  <2>3. Moved(Copy(h), "authorized") \in Record /\ Moved(Copy(h), "authorized").state # "verified"
    BY <1>0, MovedUnverified DEF RecordState
  <2>4. PICK c \in Record : /\ c.state # "verified"
                            /\ \/ Answer(h, c)
                               \/ UNCHANGED record /\ \E pc, k : Await(h, pc, k, c)
    BY <1>0, <1>7, <2>3, MovedUnverified DEF Checked, RecordState
  <2> QED
    BY <1>0, <2>2, <2>4, Put, UnverifiedMove
<1>8. ASSUME NEW h \in Handlers, NEW p \in Plans, Perform(h, p) PROVE Unverified'
  <2>1. PICK g \in Grants : g = Copy(h).grant
    BY <1>8, ItsGrant DEF Perform, At
  <2>2. \A d \in Grants : plan'[d].size = plan[d].size
    BY <1>8, <2>1, SizesStay DEF Perform
  <2>3. \A d \in Handlers : handler'[d].copy = handler[d].copy
    BY <1>0, <1>8 DEF Perform, TypeOK
  <2> QED
    BY <1>8, <2>2, <2>3 DEF Perform, Unverified, Copy
<1>9. CASE Pass
  BY <1>9 DEF Pass, Tick, Unverified, Copy
<1>10. CASE Crash
  <2>1. \A d \in Handlers : handler'[d].copy = handler[d].copy
    BY <1>0, <1>10 DEF Crash, TypeOK
  <2> QED
    BY <1>10, <2>1 DEF Crash, Unverified, Copy
<1>11. CASE UNCHANGED vars
  BY <1>11 DEF vars, Unverified, Copy
<1> QED
  BY <1>1, <1>2, <1>3, <1>4, <1>5, <1>6, <1>7, <1>8, <1>9, <1>10, <1>11 DEF Next

\* What the empty payload of _safe_plan_dict comes to: complete_plan refuses every
\* grant of a continuation, so none is ever recorded as consumed, and no
\* continuation as verified, however well it was executed.
THEOREM NothingIsVerified ==
    Spec => [](/\ \A g \in Grants : plan[g].status # "consumed"
               /\ \A k \in Conts : record[k].state # "verified")
<1> DEFINE Never == /\ \A g \in Grants : plan[g].status # "consumed"
                    /\ \A k \in Conts : record[k].state # "verified"
<1>1. Init => Unverified
  BY DEF Init, GrantsInit, Unverified, NewRecord, Copy
<1>2. Spec => []Unverified
  BY <1>1, UnverifiedStep, ContinuationInvariance, PTL DEF Spec
<1>3. Unverified /\ CompletedPlanIsSpent => Never
  BY DEF Unverified, CompletedPlanIsSpent
<1>4. Spec => []CompletedPlanIsSpent
  BY ContinuationsUseGrants, CompletionIsSpent, PTL
<1> QED
  BY <1>2, <1>3, <1>4, PTL

------------------------------------------------------------------------------
(* Whose grant it is                                                       *)

\* Continuation k goes by grant g, in the store or in the copy of a handler.
Refers(k, g) == record[k].grant = g \/ \E h \in Handlers : handler[h].cont = k /\ Copy(h).grant = g

\* No two continuations ever go by one grant, however stale the copies their
\* handlers put back: confirming, denying or cancelling one of them does nothing
\* to the authority of another.
GrantsAreNotShared ==
    \A g \in Grants : \A j, k \in Conts : Refers(j, g) /\ Refers(k, g) => j = k

\* A grant somebody goes by has been requested.
ReferencesAreRows ==
    \A g \in Grants, k \in Conts : Refers(k, g) => plan[g].status # "none"

\* A row, once inserted, stays.
LEMMA RowsStay ==
    ASSUME GrantsTypeOK, [GrantsNext]_grantVars, NEW g \in Grants, plan[g].status # "none"
    PROVE  plan'[g].status # "none"
<1>1. CASE UNCHANGED plan
  BY <1>1
<1>2. ASSUME NEW d \in Grants, NEW size, NEW expires, RequestPlanGrant(d, size, expires)
      PROVE  plan'[g].status # "none"
  BY <1>2 DEF RequestPlanGrant, GrantsTypeOK
<1>3. ASSUME NEW d \in Grants, NEW from, NEW to, TransitionPlan(d, from, to)
      PROVE  plan'[g].status # "none"
  <2>1. CASE g # d
    BY <1>3, <2>1, TransitionEffect
  <2>2. CASE g = d
    <3>1. <<from, to>> \in Transitions => to # "none"
      BY DEF Transitions
    <3> QED
      BY <1>3, <2>2, <3>1 DEF TransitionPlan, Transits, GrantsTypeOK, PlanRow
  <2> QED
    BY <2>1, <2>2
<1> QED
  BY <1>1, <1>2, <1>3, StepKinds DEF grantVars, Tick, IssueNextStepGrant, ConsumeStep

\* Handler h goes on, or is done, with copy c of the continuation k it serves,
\* which it puts or does not put.
Serves(h, k, c) ==
    /\ handler'[h].cont = k /\ handler'[h].copy = c
    /\ \A d \in Handlers \ {h} : handler'[d] = handler[d]
    /\ \A j \in Conts : record'[j] = record[j] \/ (j = k /\ record'[j] = c)

LEMMA AnswerServes ==
    ASSUME TypeOK, NEW h \in Handlers, NEW c \in Record, Answer(h, c)
    PROVE  Serves(h, handler[h].cont, c)
BY DEF TypeOK, Answer, Serves

LEMMA AwaitServes ==
    ASSUME TypeOK, NEW h \in Handlers, NEW c \in Record, NEW pc, NEW k, Await(h, pc, k, c),
           UNCHANGED record
    PROVE  Serves(h, k, c)
BY DEF TypeOK, Await, Serves

LEMMA ServesRefers ==
    ASSUME NEW h \in Handlers, NEW k, NEW c, Serves(h, k, c),
           NEW j \in Conts, NEW g \in Grants, Refers(j, g)'
    PROVE  Refers(j, g) \/ (j = k /\ c.grant = g)
BY DEF Serves, Refers, Copy

\* A continuation comes to go by a grant only when its start requests it.
LEMMA RefersStep ==
    ASSUME Inv, [Next]_vars, NEW k \in Conts, NEW g \in Grants, Refers(k, g)', ~Refers(k, g)
    PROVE  /\ plan[g].status = "none" /\ plan'[g].status # "none"
           /\ \A j \in Conts \ {k} : Refers(j, g)' => Refers(j, g)
<1>0. /\ TypeOK
      /\ \A h \in Handlers : Copy(h) \in Record
      /\ \A j \in Conts : record[j] \in Record
  BY DEF Inv, TypeOK, Copy
<1>1. ASSUME \A d \in Handlers : handler'[d].cont = handler[d].cont /\ handler'[d].copy.grant = handler[d].copy.grant,
             \A j \in Conts : record'[j].grant = record[j].grant
      PROVE  FALSE
  BY <1>1 DEF Refers, Copy
<1>2. ASSUME NEW h \in Handlers, NEW c \in Record, c.grant = Copy(h).grant, Serves(h, handler[h].cont, c)
      PROVE  FALSE
  BY <1>2, ServesRefers DEF Refers
<1>3. ASSUME NEW j \in Conts, Create(j) PROVE FALSE
  BY <1>0, <1>1, <1>3 DEF Create, TypeOK, Record
<1>4. ASSUME NEW h \in Handlers, NEW j \in Conts, Start(h, j) \/ Confirm(h, j) PROVE FALSE
  <2>1. PICK c \in Record : c.grant = record[j].grant /\ \E pc : Await(h, pc, j, c)
    BY <1>0, <1>4, MovedCopy DEF Start, Confirm, RecordState
  <2>2. Serves(h, j, c)
    BY <1>0, <1>4, <2>1, AwaitServes DEF Start, Confirm
  <2> QED
    BY <2>1, <2>2, ServesRefers DEF Refers
<1>5. ASSUME NEW h \in Handlers, NEW j \in Conts, Deny(h, j) \/ Cancel(h, j) PROVE FALSE
  <2>1. PICK c \in Record : c.grant = record[j].grant /\ record' = [record EXCEPT ![j] = c]
    BY <1>0, <1>5, MovedCopy DEF Deny, Cancel, RecordState
  <2>2. /\ \A d \in Handlers : handler'[d].cont = handler[d].cont /\ handler'[d].copy = handler[d].copy
        /\ \A i \in Conts : record'[i].grant = record[i].grant
    BY <1>0, <1>5, <2>1 DEF Deny, Cancel, TypeOK
  <2> QED
    BY <1>1, <2>2
<1>6. ASSUME NEW h \in Handlers, ReplanFails(h) \/ CheckRaises(h) \/ ExecuteFails(h) \/ Performed(h) \/ PerformFails(h)
      PROVE  FALSE
  <2>1. PICK c \in Record : c.grant = Copy(h).grant /\ Answer(h, c)
    BY <1>0, <1>6, MovedCopy DEF ReplanFails, CheckRaises, ExecuteFails, Performed, PerformFails, RecordState
  <2> QED
    BY <1>0, <1>2, <2>1, AnswerServes
<1>7. ASSUME NEW h \in Handlers, NEW p \in Plans, Checked(h, p) PROVE FALSE
  <2>1. PICK a \in Record : a = Moved(Copy(h), "authorized") /\ a.grant = Copy(h).grant
    BY <1>0, MovedCopy DEF RecordState
  <2>2. PICK c \in Record : /\ c.grant = Copy(h).grant
                            /\ \/ Answer(h, c)
                               \/ UNCHANGED record /\ \E pc : Await(h, pc, handler[h].cont, c)
    <3>1. Moved(a, "executing") \in Record /\ Moved(a, "executing").grant = Copy(h).grant
      BY <2>1, MovedCopy DEF RecordState
    <3>2. ASSUME NEW s \in {"replanning", "denied"}
          PROVE  Moved(Copy(h), s) \in Record /\ Moved(Copy(h), s).grant = Copy(h).grant
      BY <1>0, MovedCopy DEF RecordState
    <3> QED
      BY <1>7, <2>1, <3>1, <3>2 DEF Checked
  <2> QED
    BY <1>0, <1>2, <2>2, AnswerServes, AwaitServes
<1>8. ASSUME NEW h \in Handlers, NEW p \in Plans, Perform(h, p) PROVE FALSE
  BY <1>0, <1>1, <1>8 DEF Perform, TypeOK
<1>9. CASE Pass \/ UNCHANGED vars
  BY <1>1, <1>9 DEF Pass, vars
<1>10. CASE Crash
  BY <1>0, <1>1, <1>10 DEF Crash, TypeOK
<1>11. ASSUME NEW h \in Handlers, NEW p \in Plans, NEW d \in Grants, Replanned(h, d, p)
       PROVE  /\ plan[g].status = "none" /\ plan'[g].status # "none"
              /\ \A j \in Conts \ {k} : Refers(j, g)' => Refers(j, g)
  <2> DEFINE a == [Copy(h) EXCEPT !.grant = d, !.digest = Digest(p)]
  <2>1. a \in Record /\ a.grant = d
    BY <1>0 DEF Record, Digest
  <2>2. Answer(h, Moved(a, "awaiting"))
    BY <1>11 DEF Replanned
  <2> HIDE DEF a
  <2>3. Moved(a, "awaiting") \in Record /\ Moved(a, "awaiting").grant = d
    BY <2>1, MovedCopy DEF RecordState
  <2>4. PICK c \in Record : c.grant = d /\ Answer(h, c)
    BY <2>2, <2>3
  <2>5. Serves(h, handler[h].cont, c)
    BY <1>0, <2>4, AnswerServes
  <2>6. k = handler[h].cont /\ d = g
    BY <2>4, <2>5, ServesRefers
  <2>7. \A j \in Conts \ {k} : Refers(j, g)' => Refers(j, g)
    BY <2>5, <2>6, ServesRefers
  <2>8. plan[g].status = "none" /\ plan'[g].status = "pending"
    BY <1>0, <1>11, <2>6 DEF Replanned, RequestPlanGrant, TypeOK, GrantsTypeOK
  <2> QED
    BY <2>7, <2>8
<1> QED
  BY <1>3, <1>4, <1>5, <1>6, <1>7, <1>8, <1>9, <1>10, <1>11 DEF Next

\* The grant start requests is its continuation's own, however starts race and
\* late copies are put back (request_continuation_grant, ContinuationStore.put).
THEOREM GrantsStayWithTheirContinuation == Spec => []GrantsAreNotShared
<1>1. Init => GrantsAreNotShared /\ ReferencesAreRows
  <2> SUFFICES ASSUME Init PROVE \A g \in Grants, k \in Conts : ~Refers(k, g)
    BY DEF GrantsAreNotShared, ReferencesAreRows
  <2> QED
    BY NoGrantAssumption DEF Init, Refers, Copy, NewRecord
<1>2. Inv /\ GrantsAreNotShared /\ ReferencesAreRows /\ [Next]_vars =>
          GrantsAreNotShared' /\ ReferencesAreRows'
  <2> SUFFICES ASSUME Inv, GrantsAreNotShared, ReferencesAreRows, [Next]_vars
               PROVE  GrantsAreNotShared' /\ ReferencesAreRows'
    OBVIOUS
  <2>1. \A g \in Grants : plan[g].status # "none" => plan'[g].status # "none"
    BY RowsStep, RowsStay DEF Inv, TypeOK
  <2>2. ReferencesAreRows'
    <3> SUFFICES ASSUME NEW g \in Grants, NEW k \in Conts, Refers(k, g)'
                 PROVE  plan'[g].status # "none"
      BY DEF ReferencesAreRows
    <3> QED
      BY <2>1, RefersStep DEF ReferencesAreRows
  <2>3. GrantsAreNotShared'
    <3> SUFFICES ASSUME NEW g \in Grants, NEW j \in Conts, NEW k \in Conts,
                        Refers(j, g)', Refers(k, g)', j # k
                 PROVE  FALSE
      BY DEF GrantsAreNotShared
    <3>1. CASE Refers(j, g) /\ Refers(k, g)
      BY <3>1 DEF GrantsAreNotShared
    <3>2. CASE ~Refers(k, g)
      <4>1. plan[g].status = "none" /\ Refers(j, g)
        BY <3>2, RefersStep
      <4> QED
        BY <4>1 DEF ReferencesAreRows
    <3>3. CASE ~Refers(j, g)
      <4>1. plan[g].status = "none" /\ Refers(k, g)
        BY <3>3, RefersStep
      <4> QED
        BY <4>1 DEF ReferencesAreRows
    <3> QED
      BY <3>1, <3>2, <3>3
  <2> QED
    BY <2>2, <2>3
<1> QED
  BY <1>1, <1>2, ContinuationInvariance, PTL DEF Spec

===============================================================================
