-------------------- MODULE MCOptimizationRecommendations --------------------
(***************************************************************************)
(* Instances of OptimizationRecommendations for TLC.                       *)
(***************************************************************************)
EXTENDS OptimizationRecommendations, TLC

CONSTANTS job, req, op1

Measured(cpu, memory) ==
  [cpu |-> cpu, memory |-> memory,
   cpuForecast |-> 0, memoryForecast |-> 0, confident |-> FALSE]

\* Memory tight, and idle but for a confident forecast that puts it in the band;
\* above the band, with a forecast of overload that nobody trusts.
Loads ==
  {[Measured(5, 90) EXCEPT !.cpuForecast = 60, !.confident = TRUE],
   [Measured(78, 50) EXCEPT !.cpuForecast = 95]}
=============================================================================
