---------------------------------- MODULE Isa ----------------------------------
(***************************************************************************)
(* What the processor promises a program: instructions take effect one at  *)
(* a time in program order, and an interrupt comes between two of them and *)
(* not inside a handler.  FENCE.I takes no step of its own: pc is always   *)
(* at an instruction that is executed.                                     *)
(***************************************************************************)
EXTENDS InstructionSet

VARIABLES imem, pc, regs, dmem, pcsave, pcswitch, handling
vars == <<imem, pc, regs, dmem, pcsave, pcswitch, handling>>

i == imem[pc]
a == regs[i.rs1]
b == regs[i.rs2]

Value == CASE i.op = "ALU" -> Sum(a, b)
           [] i.op = "ALUI" -> Sum(a, i.imm)
           [] i.op = "DIV" -> Quot(a, b)
           [] i.op = "LOAD" -> dmem[Sum(a, i.imm)]
           [] i.op = "JAL" -> Sum(0, Succ(pc))
           [] i.op = "JALR" -> Succ(pc)
           [] i.op = "PCSAVE" -> pcsave

Target == CASE i.op = "JAL" -> i.imm
            [] i.op = "JALR" -> Sum(a, i.imm)
            [] i.op = "BRANCH" /\ a = b -> i.imm
            [] i.op = "SWITCH" -> pcswitch
            [] OTHER -> Succ(pc)

Effect == /\ regs' = IF i.op \in {"STORE", "BRANCH", "PCSWITCH", "SWITCH"} \/ i.rd = 0 THEN regs
                     ELSE [regs EXCEPT ![i.rd] = Value]
          /\ dmem' = IF i.op = "STORE" THEN [dmem EXCEPT ![Sum(a, i.imm)] = b] ELSE dmem
          /\ pcswitch' = IF i.op = "PCSWITCH" THEN a ELSE pcswitch
          /\ UNCHANGED imem

Execute == /\ Effect
           /\ pc' = Skip(imem, Target)
           /\ handling' = (handling /\ i.op # "SWITCH")
           /\ UNCHANGED pcsave

Interrupted == /\ ~handling /\ i.op \notin Uninterruptible
               /\ Effect
               /\ pc' = Skip(imem, VECTOR) /\ handling' = TRUE
               /\ pcsave' = IF i.op = "JAL" THEN pc ELSE Succ(pc)

Init == /\ pc = Skip(imem, 0) /\ ~handling
        /\ regs \in [Reg -> {0}] /\ dmem \in [0 .. Modulus - 1 -> {0}]
        /\ pcsave = 0 /\ pcswitch = 0

Spec == Init /\ [][Execute \/ Interrupted]_vars
=============================================================================
