---------------------------- MODULE MC_BootProtocol ----------------------------
(* Images of no block, a part of one, one, and two with the last cut short; *)
(* their bytes include commands.                                            *)
EXTENDS BootProtocol
MCImages == {<<>>, <<5, 7, 6>>, <<4, 3, 0, 15>>, <<7, 6, 12, 7, 5>>, <<8, 7, 7, 2, 9, 3, 4>>}
=============================================================================
