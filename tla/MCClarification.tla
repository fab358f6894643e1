-------------------------- MODULE MCClarification --------------------------
(* Instance of Clarification for TLC.                                      *)
EXTENDS Clarification

=============================================================================
