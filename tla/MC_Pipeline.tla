------------------------------ MODULE MC_Pipeline ------------------------------
(***************************************************************************)
(* A program of four instructions in line 0 and the interrupt handler of   *)
(* entry.S, without the registers it saves for handle_interrupt, from      *)
(* line 1 on.  The cache has two lines, the handler's end evicts the       *)
(* program.                                                                *)
(***************************************************************************)
EXTENDS Pipeline

FENCEI == I("FENCEI", 0, 0, 0, 0)
Load(p) == [a \in 0 .. NAddr - 1 |->
              IF a < 4 THEN p[a + 1]
              ELSE IF a < 9 THEN Handler[a - 3] ELSE I("JAL", 0, 0, 0, 0)]

\* Every instruction of First before every one of Second, which uses its result
\* or follows it in fetch, and a FENCE.I on the path not taken.
First == {I("ALUI", 1, 1, 0, 1), I("LOAD", 1, 0, 0, 1), FENCEI}
Second == {I("DIV", 2, 1, 2, 0), I("LOAD", 1, 2, 0, 1), I("STORE", 0, 2, 1, 1),
           I("BRANCH", 0, 1, 2, 0), I("JALR", 1, 1, 0, 0), FENCEI}
MCPrograms ==
  { Load(<<x, y, I("ALU", 2, 1, 2, 0), I("JAL", 2, 0, 0, 0)>>) : x \in First, y \in Second }
  \cup { Load(<<I("ALUI", 1, 1, 0, 1), y, FENCEI, I("JAL", 2, 0, 0, 1)>>) :
           y \in {I("BRANCH", 0, 1, 2, 0), I("JALR", 1, 1, 0, 0)} }
MCFill == NONE
=============================================================================
