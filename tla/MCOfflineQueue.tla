--------------------------- MODULE MCOfflineQueue ---------------------------
(* Instance of OfflineQueue for TLC.                                        *)
EXTENDS OfflineQueue, TLC

Interchangeable == Permutations(Items) \cup Permutations(Passes)

=============================================================================
