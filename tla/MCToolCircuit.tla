---------------------------- MODULE MCToolCircuit ----------------------------
(* Instance of ToolCircuit for TLC.                                         *)
EXTENDS ToolCircuit, TLC

Interchangeable == Permutations(Calls) \cup Permutations(Tools)

=============================================================================
