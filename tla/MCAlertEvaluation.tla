------------------------- MODULE MCAlertEvaluation -------------------------
(***************************************************************************)
(* Instances of AlertEvaluation for TLC.                                   *)
(***************************************************************************)
EXTENDS AlertBoardRefinement, TLC

CONSTANTS d1, p1, u1, u2, platform, job, ondemand, opt, op1

\* One deployment with a tiered and an untiered category, a project's budget,
\* and the error rate that Prometheus may not answer for.
OwnedSignals ==
  {<<d1, "cpu">>, <<d1, "failure_risk">>, <<p1, "cost">>, <<platform, "error_rate">>}
CpuSignal == {<<d1, "cpu">>}
ClusterSignal == {<<platform, "node_failure">>}
\* A unit of each other kind: the cluster, the logins of the users, and a
\* deployment that the optimization job also alerts about.
SharedSignals ==
  {<<platform, "node_failure">>, <<u1, "security">>, <<d1, "resource_optimization">>}

\* u1 owns the deployment and the project; u1 and u2 are the superusers.
Owners ==
  [s \in Scope |-> CASE s = Platform -> User
                     [] s \in User   -> {s}
                     [] OTHER        -> {u1} \cap User]
=============================================================================
