-------------------------- MODULE OneTimeAuthority --------------------------
(***************************************************************************)
(* What is promised of every authority to act that is asked of the user,   *)
(* whatever requests race for it and whatever restarts and stops come in   *)
(* between: it is given only when it was asked for, used once at most and  *)
(* only when it was given, and never given or used again once it was used, *)
(* refused, withdrawn or lost.                                             *)
(*                                                                         *)
(* It is not promised that an authority that was given is used.            *)
(***************************************************************************)
EXTENDS Naturals

CONSTANT Authorities

VARIABLES
    phase,      \* phase[a]: where the authority stands
    uses        \* uses[a]: how often something was done under it

vars == <<phase, uses>>

Init ==
    /\ phase = [a \in Authorities |-> "none"]
    /\ uses = [a \in Authorities |-> 0]

Ask(a) ==
    /\ phase[a] = "none"
    /\ phase' = [phase EXCEPT ![a] = "asked"]
    /\ UNCHANGED uses

Give(a) ==
    /\ phase[a] = "asked"
    /\ phase' = [phase EXCEPT ![a] = "given"]
    /\ UNCHANGED uses

Use(a) ==
    /\ phase[a] = "given"
    /\ phase' = [phase EXCEPT ![a] = "used"]
    /\ uses' = [uses EXCEPT ![a] = @ + 1]

\* An emergency stop or a restart ends several at once.
Void(S) ==
    /\ \A a \in S : phase[a] \in {"asked", "given"}
    /\ phase' = [a \in Authorities |-> IF a \in S THEN "void" ELSE phase[a]]
    /\ UNCHANGED uses

Next ==
    \/ \E a \in Authorities : Ask(a) \/ Give(a) \/ Use(a)
    \/ \E S \in SUBSET Authorities : Void(S)

Spec == Init /\ [][Next]_vars

=============================================================================
