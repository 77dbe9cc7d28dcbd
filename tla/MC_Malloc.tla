------------------------------- MODULE MC_Malloc -------------------------------
(* Two buffers that touch, one of them of an odd size, and one apart.      *)
EXTENDS Malloc
MCArenas == {<<64, 96>>, <<160, 72>>, <<256, 48>>, <<320, 20>>}
=============================================================================
