-------------------------- MODULE MC_ReadWriteCache --------------------------
(* Two addresses that map to the same line.                                *)
EXTENDS ReadWriteCache
=============================================================================
