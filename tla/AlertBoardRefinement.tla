------------------------ MODULE AlertBoardRefinement ------------------------
(***************************************************************************)
(* The alert engine implements the AlertBoard when each service is run by  *)
(* one session (the scheduled jobs; nobody calls POST /alerts/evaluate).   *)
(***************************************************************************)
EXTENDS AlertEvaluation

\* The session that raises the alerts of a signal.
Raiser(sig) ==
  CHOOSE e \in Session : (e \in Optimizer) = (sig[2] = "resource_optimization")

Blank == <<"blank">>

AlertFace(sig, level) ==
  IF level \in Firing THEN <<AlertType(sig[2], level), Severity(level)>> ELSE Blank

\* What that session has last sampled, and what the table shows.
Looked == [sig \in Signal |-> sample[Raiser(sig)][sig]]
Placed ==
  [sig \in Signal |->
     IF Shown(sig) = {} THEN Blank ELSE CHOOSE x \in Shown(sig) : TRUE]

Board ==
  INSTANCE AlertBoard WITH Face <- AlertFace, look <- Looked, board <- Placed

\* Every step of the tables is a step of the board or leaves it alone: an alert
\* that appears carries the level its session read last, however operators,
\* failures and the commit inside dispatch cut the runs.
ImplementsBoard == Board!Spec
=============================================================================
