---------------------------- MODULE MCPlanCache ----------------------------
(* Four slots as in the code and six parameters: evictions and re-entries. *)
EXTENDS PlanCache, TLC
Symmetry == Permutations(Params)
=============================================================================
