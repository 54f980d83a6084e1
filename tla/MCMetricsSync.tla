---------------------------- MODULE MCMetricsSync ----------------------------
(***************************************************************************)
(* Instances of MetricsSync for TLC.                                       *)
(***************************************************************************)
EXTENDS MetricsSync, TLC

CONSTANTS d1, d2, a1, a2, z1, x1, job, req, e1, u1, u2

\* Each account has an owner of its own; the entry belongs to the first.
Owners == [a \in Account |-> IF a = a1 THEN u1 ELSE u2]
Providers == [a \in Account |-> IF a = a1 THEN "gcp" ELSE "aws"]
Entries == [z \in Zone |-> a1]
Users == [e \in Editor |-> u1]
=============================================================================
