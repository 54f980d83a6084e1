------------------------------ MODULE MCCostSync ------------------------------
(***************************************************************************)
(* Instances of CostSync for TLC.                                          *)
(***************************************************************************)
EXTENDS CostSync, TLC

CONSTANTS j1, a1, v1, i1, i2, s1, s2

\* Sessions are alike, and so are projects and resources; every property is one of safety.
Alike == Permutations(Syncer) \cup Permutations(Project) \cup Permutations(Part)
=============================================================================
