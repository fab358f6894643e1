------------------------- MODULE MCExecutionGrants -------------------------
(* Instance of ExecutionGrants for TLC: the two grants are interchangeable. *)
EXTENDS ExecutionGrants, TLC

GrantSymmetry == Permutations(Grants)

=============================================================================
