--------------------------- MODULE MCClientSession ---------------------------
(***************************************************************************)
(* Instances of ClientSession for TLC.                                     *)
(***************************************************************************)
EXTENDS ClientSession, TLC

CONSTANTS t1, t2

\* A tab with two requests, and one with one.
Calls21 == {<<t1, 1>>, <<t1, 2>>, <<t2, 1>>}
=============================================================================
