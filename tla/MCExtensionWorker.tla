-------------------------- MODULE MCExtensionWorker --------------------------
(***************************************************************************)
(* Instances of ExtensionWorker for TLC.                                   *)
(***************************************************************************)
EXTENDS ExtensionWorker, TLC

CONSTANTS p1, p2
=============================================================================
