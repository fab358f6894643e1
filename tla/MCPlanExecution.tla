--------------------------- MODULE MCPlanExecution ---------------------------
(* Instance of PlanExecution for TLC.  Runs are interchangeable; the run with *)
(* a liveness property does without the reduction.                            *)
EXTENDS PlanExecution, TLC

RunSymmetry == Permutations(Runs)

==============================================================================
