--------------------------- MODULE MCContinuation ---------------------------
(* Instance of Continuation for TLC.                                        *)
EXTENDS Continuation, TLC

\* Requests, grants and plans are interchangeable.
Interchangeable == Permutations(Handlers) \cup Permutations(Grants) \cup Permutations(Plans)

=============================================================================
