------------------------------ MODULE MC_InstructionFetch ------------------------------
(* Two lines, two tags each.                                               *)
EXTENDS InstructionFetch
=============================================================================
