----------------------------- MODULE MC_ConsProd -----------------------------
(* A ring of N cells used by calls of at most MaxLen bytes.                 *)
EXTENDS ConsProd
=============================================================================
