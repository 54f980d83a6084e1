--------------------------- MODULE MCProviderCalls ---------------------------
(***************************************************************************)
(* Instances of ProviderCalls for TLC.                                     *)
(***************************************************************************)
EXTENDS ProviderCalls, TLC

CONSTANTS s1, r1, r2, i1, i2, i3

Seven == DOMAIN Registry

\* Regions and resources are alike; every property is one of safety.
Alike == Permutations(Region) \cup Permutations(Resource)
=============================================================================
