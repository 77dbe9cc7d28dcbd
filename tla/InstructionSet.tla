----------------------------- MODULE InstructionSet -----------------------------
(***************************************************************************)
(* Instructions, decoded to what the pipeline tells apart.  ALU stands for *)
(* the register forms of ALU, shift and multiply, ALUI for the immediate   *)
(* forms, LUI and AUIPC; imm is the immediate, or the target of a branch   *)
(* or JAL.  One address is one instruction.                                *)
(***************************************************************************)
EXTENDS Integers

CONSTANTS NAddr,      \* instruction addresses
          Modulus,    \* values the ALU computes: 2^32 in the source
          NReg,       \* registers, register 0 is zero
          VECTOR      \* where an interrupt goes

Reg == 0 .. NReg - 1
Sum(a, b) == (a + b) % Modulus
Quot(a, b) == (a + 2 * b + 1) % Modulus       \* some function that is not Sum
Succ(p) == (p + 1) % NAddr

I(op, rd, rs1, rs2, imm) == [op |-> op, rd |-> rd, rs1 |-> rs1, rs2 |-> rs2, imm |-> imm]
NONE == I("NONE", 0, 0, 0, 0)

\* CSR instructions, by the register they address.
Csr == {"PCSAVE", "PCSWITCH", "SWITCH"}

\* What iexec_in.cmd, cmd_use_reg, rs2 and imm are decoded to.
cmd(i) == IF i.op \in {"ALU", "ALUI", "JAL"} THEN "ALU"
          ELSE IF i.op \in Csr THEN "CSR" ELSE i.op
cmd_use_reg(i) == i.op \in {"ALU", "DIV", "BRANCH"} \cup Csr
rs1(i) == IF i.op = "JAL" THEN 0 ELSE i.rs1
rs2(i) == IF i.op \in Csr THEN i.rs1 ELSE i.rs2
imm(i, p) == IF i.op = "JAL" THEN Succ(p) ELSE i.imm

\* The first instruction from p on that is executed: FENCE.I is done by ifetch.
Skip(mem, p) == LET k == CHOOSE k \in 0 .. NAddr - 1 :
                           /\ mem[(p + k) % NAddr].op # "FENCEI"
                           /\ \A j \in 0 .. k - 1 : mem[(p + j) % NAddr].op = "FENCEI"
                IN (p + k) % NAddr

\* An interrupted JAL is executed again.
IntrNextPc(i, p) == IF i.op = "JAL" THEN p ELSE Succ(p)

\* Instructions during which no interrupt is taken.
Uninterruptible == {"JALR", "BRANCH"} \cup Csr

\* The entry and the return of the interrupt handler of entry.S, without the
\* registers it saves for handle_interrupt.  Register 1 is a0; the load between
\* the last two CSR instructions gives the write of PCSWITCH its time.
Handler == << I("STORE", 0, 0, 1, 0), I("PCSAVE", 1, 0, 0, 0), I("PCSWITCH", 0, 1, 0, 0),
              I("LOAD", 1, 0, 0, 0), I("SWITCH", 0, 0, 0, 0) >>
=============================================================================
