------------------------ MODULE MC_MemoryArbitrator ------------------------
(* Three channels and two distinguishable requests.                        *)
EXTENDS MemoryArbitrator
=============================================================================
