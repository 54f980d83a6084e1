------------------------ MODULE MCResourceDiscovery ------------------------
(***************************************************************************)
(* Instance of ResourceDiscovery for TLC.                                  *)
(***************************************************************************)
EXTENDS ResourceDiscovery, TLC

CONSTANTS a1, a2, r1, r2, ec2, x1, x2, job, req

\* Everything is in the first account.
FirstHome == [x \in Resource |-> <<a1, r1, ec2>>]
\* r2 has not been found by the region syncs, but may be selected.
Synced == [a \in Account |-> {r1}]
=============================================================================
