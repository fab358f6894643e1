---------------------------- MODULE ApprovedPlan ----------------------------
(***************************************************************************)
(* What the approval of a plan promises its user, whatever runs, retries,  *)
(* crashes and expiries lie behind it: the steps of the plan are performed *)
(* one at a time, each at most once and in the order that was approved;    *)
(* the plan is reported complete only when all of them have been           *)
(* performed; and a plan that is complete or closed stays so.              *)
(*                                                                         *)
(* It does not promise that a plan that was started is finished, nor that  *)
(* nothing at all is performed once the plan is closed: a step that was    *)
(* already authorised may still go ahead.                                  *)
(***************************************************************************)
EXTENDS Integers

CONSTANTS Grants, MaxSteps

VARIABLES
    phase,      \* phase[g]: where the approval stands
    size,       \* size[g]: the number of steps approved
    performed   \* performed[g]: how many of them have been performed

vars == <<phase, size, performed>>

Init ==
    /\ phase = [g \in Grants |-> "draft"]
    /\ size = [g \in Grants |-> 0]
    /\ performed = [g \in Grants |-> 0]

Draw(g) ==
    /\ phase[g] = "draft" /\ size[g] = 0
    /\ \E n \in 1 .. MaxSteps : size' = [size EXCEPT ![g] = n]
    /\ UNCHANGED <<phase, performed>>

Grant(g) ==
    /\ phase[g] = "draft" /\ size[g] > 0
    /\ phase' = [phase EXCEPT ![g] = "granted"]
    /\ UNCHANGED <<size, performed>>

Perform(g) ==
    /\ phase[g] \in {"granted", "closed"}
    /\ performed[g] < size[g]
    /\ performed' = [performed EXCEPT ![g] = @ + 1]
    /\ UNCHANGED <<phase, size>>

Complete(g) ==
    /\ phase[g] = "granted" /\ performed[g] = size[g]
    /\ phase' = [phase EXCEPT ![g] = "completed"]
    /\ UNCHANGED <<size, performed>>

Close(g) ==
    /\ phase[g] \in {"draft", "granted"} /\ size[g] > 0
    /\ phase' = [phase EXCEPT ![g] = "closed"]
    /\ UNCHANGED <<size, performed>>

Next == \E g \in Grants : Draw(g) \/ Grant(g) \/ Perform(g) \/ Complete(g) \/ Close(g)

Spec == Init /\ [][Next]_vars

=============================================================================
