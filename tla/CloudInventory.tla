---------------------------- MODULE CloudInventory ----------------------------
(***************************************************************************)
(* What the listings of a cloud provider are about.  ProviderCalls says    *)
(* how a listing comes about, ResourceDiscovery what is done with it.      *)
(***************************************************************************)
CONSTANTS
  Region,     \* regions of the provider
  Category,   \* resource types its client supports
  Resource    \* what exists, existed or will exist there, by identifier

All == "all"  \* ALL_REGIONS_SENTINEL: every region

ASSUME RegionAssumption == All \notin Region
=============================================================================
