-------------------------------- MODULE Pipeline --------------------------------
(***************************************************************************)
(* The three stages of the processor, ifetch, idecode and iexec, with the  *)
(* instruction cache, the interrupt controller's side of the interrupt     *)
(* lines and a data cache that answers after any number of clocks.  One    *)
(* step is one rising edge of clk: every stage computes from the same      *)
(* state.  Spec runs a program from Programs.                              *)
(***************************************************************************)
EXTENDS ReadCache, InstructionSet

CONSTANTS Programs    \* memories of instructions

ASSUME PipelineAssumption == NAddr = 4 * NLines * NTags /\ Modulus <= NAddr

VARIABLES
  cxfer_pending, idecode_in,                     \* ifetch; pc and flush are ReadCache's
  iexec_in,                                      \* idecode
  state, op_a, op_b, cmd_result_mux,             \* iexec
  regfile, regfile_wraddr, regfile_wren, intr_nextpc, store_data,
  cxfer_mux, cxfer_pc, trigger_cxfer, br_inst,
  div_ctr, div_age,
  csr_wait_ctr, csr_sel_reg, csr_do_write, csr_op,
  ctx_pc_save, ctx_pc_switch, intr_trigger_save, intr_reset,
  dcache_addr, dcache_wren, dcache_done, dmem,   \* the data cache
  intr_frozen, intr_trigger, intr_toggle, intr_toggle_ack

fetch_vars == <<pc, flush, cxfer_pending, idecode_in>>
write_vars == <<regfile_wraddr, intr_nextpc, op_a, op_b, cmd_result_mux>>
cxfer_vars == <<cxfer_mux, cxfer_pc, ctx_pc_save, intr_trigger_save>>
csr_vars == <<csr_wait_ctr, csr_sel_reg>>
op_vars == <<csr_op, ctx_pc_switch>>
dcache_vars == <<dcache_addr, dcache_wren, dcache_done, dmem>>
intr_vars == <<intr_frozen, intr_trigger, intr_toggle, intr_toggle_ack>>
vars == <<fetch_vars, ic_vars, imem_vars, imem, iexec_in, state, write_vars, regfile,
          regfile_wren, store_data, cxfer_vars, trigger_cxfer, br_inst, div_ctr, div_age,
          csr_vars, csr_do_write, op_vars, intr_reset, dcache_vars, intr_vars>>

\* Definitions named X_<fault> are faults injected into X to validate the
\* properties; no specification uses them.

DivStages == 8                        \* lpm_pipeline of cpu_div
DivCount == 9                         \* div_ctr <= "1001"
Garbage == Modulus                    \* what no instruction computes

busy == state # "RUNNING"             \* busy_r
regfile_wren_nz == regfile_wren = 1 /\ regfile_wraddr # 0
alu_result == Sum(op_a, op_b)
cxfer == (br_inst = 1 /\ op_a = op_b) \/ trigger_cxfer = 1
out_cxfer_pc == IF cxfer_mux = 0 THEN alu_result ELSE cxfer_pc
div_result == IF div_age >= DivStages THEN Quot(op_a, op_b) ELSE Garbage
csr_sel_result == IF csr_sel_reg = "PCSAVE" THEN ctx_pc_save ELSE Garbage

rd_write_data == CASE cmd_result_mux = "ALU" -> alu_result
                   [] cmd_result_mux = "CSR" -> csr_sel_result
                   [] cmd_result_mux = "LOAD" -> dmem[dcache_addr]
                   [] cmd_result_mux = "JALR" -> intr_nextpc
                   [] OTHER -> div_result

\* A register as an instruction entering iexec reads it.
Bypass(r) == IF r = regfile_wraddr /\ regfile_wren_nz THEN rd_write_data ELSE regfile[r]

-----------------------------------------------------------------------------
(* ifetch                                                                  *)

Invalid == [idecode_in EXCEPT !.valid = 0]

Pending_lost == cxfer_pending
Pending == IF cxfer THEN 1 ELSE cxfer_pending

FetchFlushing == /\ flush_ack # flush
                 /\ idecode_in' = Invalid
                 /\ cxfer_pending' = Pending
                 /\ UNCHANGED <<pc, flush>>

Transfers == flush_ack = flush /\ hit /\ (cxfer \/ cxfer_pending = 1)
FetchTransfer == /\ Transfers
                 /\ cxfer_pending' = 0
                 /\ pc' = out_cxfer_pc
                 /\ idecode_in' = Invalid
                 /\ UNCHANGED flush

Fetches == flush_ack = flush /\ hit /\ ~Transfers /\ ~busy
FetchInst == /\ Fetches
             /\ pc' = IF inst.op = "JAL" THEN inst.imm ELSE Succ(pc)
             /\ IF inst.op = "FENCEI"
                THEN flush' = Flip(flush) /\ idecode_in' = [valid |-> 0, inst |-> inst, pc |-> pc]
                ELSE flush' = flush /\ idecode_in' = [valid |-> 1, inst |-> inst, pc |-> pc]
             /\ UNCHANGED cxfer_pending

FetchStall == /\ flush_ack = flush /\ ~Transfers /\ ~Fetches
              /\ idecode_in' = IF ~busy \/ cxfer THEN Invalid ELSE idecode_in
              /\ cxfer_pending' = Pending
              /\ UNCHANGED <<pc, flush>>

Ifetch == FetchFlushing \/ FetchTransfer \/ FetchInst \/ FetchStall

(* idecode                                                                 *)

Idecode == iexec_in' =
  IF cxfer THEN [iexec_in EXCEPT !.valid = 0]
  ELSE IF busy THEN iexec_in
  ELSE IF idecode_in.valid = 1
       THEN [idecode_in EXCEPT !.valid = 1]
       ELSE [iexec_in EXCEPT !.valid = 0]

-----------------------------------------------------------------------------
(* iexec: one action per state; RUNNING accepts an instruction or idles.   *)

e == iexec_in.inst
Accepts == state = "RUNNING" /\ iexec_in.valid = 1 /\ ~cxfer
TakesInterrupt_load == e.op = "LOAD" /\ intr_trigger # intr_trigger_save
TakesInterrupt == e.op \notin Uninterruptible /\ intr_trigger # intr_trigger_save

\* trigger_cxfer, cxfer_pc, ctx_pc_save and intr_trigger_save.
AcceptTransfer ==
  /\ cxfer_mux' = IF e.op = "JALR" THEN 0 ELSE 1
  /\ trigger_cxfer' = IF e.op \in {"JALR", "SWITCH"} \/ TakesInterrupt THEN 1 ELSE 0
  /\ intr_reset' = IF e.op = "SWITCH" THEN 1 ELSE 0
  /\ cxfer_pc' = IF e.op = "SWITCH" THEN ctx_pc_switch
                 ELSE IF e.op = "BRANCH" THEN e.imm
                 ELSE IF TakesInterrupt THEN VECTOR ELSE cxfer_pc
  /\ ctx_pc_save' = IF TakesInterrupt THEN IntrNextPc(e, iexec_in.pc) ELSE ctx_pc_save
  /\ intr_trigger_save' = IF TakesInterrupt THEN intr_trigger ELSE intr_trigger_save

\* The operands, and the state the instruction goes to.
Accept ==
  /\ Accepts
  /\ AcceptTransfer
  /\ intr_nextpc' = IntrNextPc(e, iexec_in.pc)
  /\ op_a' = Bypass(rs1(e))
  /\ op_b' = IF cmd_use_reg(e) THEN Bypass(rs2(e)) ELSE imm(e, iexec_in.pc)
  /\ cmd_result_mux' = cmd(e)
  /\ regfile_wraddr' = e.rd
  /\ regfile_wren' = IF cmd(e) \in {"ALU", "JALR", "DIV"} THEN 1 ELSE 0
  /\ br_inst' = IF e.op = "BRANCH" THEN 1 ELSE 0
  /\ state' = CASE e.op \in {"LOAD", "STORE"} -> "LS_1"
                [] e.op = "DIV" -> "DIV_WAIT"
                [] e.op \in Csr \ {"SWITCH"} -> "CSR_READ_WAIT"
                [] OTHER -> "RUNNING"
  /\ div_ctr' = IF e.op = "DIV" THEN DivCount ELSE div_ctr
  /\ div_age' = 0
  /\ IF e.op \in Csr \ {"SWITCH"}
     THEN csr_wait_ctr' = 1 /\ csr_sel_reg' = e.op
     ELSE UNCHANGED csr_vars
  /\ csr_do_write' = 0
  /\ UNCHANGED <<dcache_addr, dcache_wren>>

\* What a step that accepts no instruction leaves alone, and its defaults.
Pulses == br_inst' = 0 /\ trigger_cxfer' = 0 /\ intr_reset' = 0
Age == div_age' = IF div_age = DivStages THEN DivStages ELSE div_age + 1
Continue == Pulses /\ Age /\ UNCHANGED <<write_vars, cxfer_vars>>

Idle == /\ state = "RUNNING" /\ ~Accepts
        /\ Continue /\ regfile_wren' = 0 /\ csr_do_write' = 0
        /\ UNCHANGED <<state, div_ctr, csr_vars, dcache_addr, dcache_wren>>

DivWait == /\ state = "DIV_WAIT"
           /\ Continue /\ csr_do_write' = 0
           /\ \/ div_ctr = 0 /\ state' = "RUNNING" /\ regfile_wren' = 0 /\ UNCHANGED div_ctr
              \/ div_ctr # 0 /\ div_ctr' = div_ctr - 1 /\ regfile_wren' = 1 /\ UNCHANGED state
           /\ UNCHANGED <<csr_vars, dcache_addr, dcache_wren>>

LsStart == /\ state = "LS_1" /\ state' = "LS_WAIT"
           /\ Continue /\ regfile_wren' = 0 /\ csr_do_write' = 0
           /\ dcache_addr' = alu_result
           /\ dcache_wren' = IF cmd_result_mux = "STORE" THEN 1 ELSE 0
           /\ UNCHANGED <<div_ctr, csr_vars>>

\* dcache_done is dcache_hit for a load, the toggled write strobe for a store.
LsWait == /\ state = "LS_WAIT"
          /\ Continue /\ csr_do_write' = 0
          /\ state' = IF dcache_done THEN "RUNNING" ELSE "LS_WAIT"
          /\ regfile_wren' = IF dcache_done /\ cmd_result_mux = "LOAD" THEN 1 ELSE 0
          /\ UNCHANGED <<div_ctr, csr_vars, dcache_addr, dcache_wren>>

CsrReadWait == /\ state = "CSR_READ_WAIT"
               /\ Continue
               /\ csr_wait_ctr' = 0
               /\ IF csr_wait_ctr = 1
                  THEN state' = state /\ regfile_wren' = 0 /\ csr_do_write' = 0
                  ELSE state' = "RUNNING" /\ regfile_wren' = 1 /\ csr_do_write' = 1
               /\ UNCHANGED <<div_ctr, csr_sel_reg, dcache_addr, dcache_wren>>

\* The processes beside the state machine.
WriteRegister == regfile' = IF regfile_wren_nz
                            THEN [regfile EXCEPT ![regfile_wraddr] = rd_write_data] ELSE regfile
CaptureStore == store_data' = IF ~busy /\ iexec_in.valid = 1 THEN Bypass(rs2(e)) ELSE store_data
CsrWrite == /\ csr_op' = IF csr_do_write = 1 THEN [valid |-> 1, reg |-> csr_sel_reg, data |-> op_b]
                         ELSE [csr_op EXCEPT !.valid = 0]
            /\ ctx_pc_switch' = IF csr_op.valid = 1 /\ csr_op.reg = "PCSWITCH"
                                THEN csr_op.data ELSE ctx_pc_switch

Iexec == /\ Accept \/ Idle \/ DivWait \/ LsStart \/ LsWait \/ CsrReadWait
         /\ WriteRegister /\ CaptureStore /\ CsrWrite

-----------------------------------------------------------------------------
(* The data cache, by what ReadWriteCache shows of it: an access is done   *)
(* some time after it was started, a store has then been written.          *)
\* The line of a load may hit in the cycle after the access is started, in which
\* iexec is in LS_WAIT for the first time, or in a later one.
DcacheHit == /\ cmd_result_mux = "LOAD"
             /\ state = "LS_1" \/ (state = "LS_WAIT" /\ ~dcache_done)
             /\ dcache_done' \in BOOLEAN
             /\ UNCHANGED dmem
\* write_strobe is a register: it answers a store one edge after the cache has
\* seen the access, at the earliest.
DcacheWrite == /\ dcache_wren = 1 /\ state = "LS_WAIT" /\ ~dcache_done
               /\ \/ dcache_done' = TRUE /\ dmem' = [dmem EXCEPT ![dcache_addr] = store_data]
                  \/ UNCHANGED <<dcache_done, dmem>>
DcacheQuiet == /\ \/ state \notin {"LS_1", "LS_WAIT"} \/ (state = "LS_WAIT" /\ dcache_done)
                  \/ state = "LS_1" /\ cmd_result_mux = "STORE"
               /\ dcache_done' = FALSE
               /\ UNCHANGED dmem
DcacheClk == DcacheHit \/ DcacheWrite \/ DcacheQuiet

(* The interrupt controller with one of its sources, which interrupts at   *)
(* any time after its last interrupt was taken over.                       *)
IntrUnfreeze == /\ intr_frozen = 1
                /\ intr_frozen' = IF intr_reset = 1 THEN 0 ELSE 1
                /\ UNCHANGED <<intr_trigger, intr_toggle_ack>>
IntrTrigger == /\ intr_frozen = 0
               /\ IF intr_toggle_ack # intr_toggle
                  THEN /\ intr_toggle_ack' = intr_toggle
                       /\ intr_frozen' = 1 /\ intr_trigger' = Flip(intr_trigger)
                  ELSE UNCHANGED <<intr_frozen, intr_trigger, intr_toggle_ack>>
IntrRequest == intr_toggle = intr_toggle_ack /\ intr_toggle' = Flip(intr_toggle)
IntrClk == /\ IntrUnfreeze \/ IntrTrigger
           /\ IntrRequest \/ UNCHANGED intr_toggle

Init == /\ IcInit /\ pc = 0 /\ flush = 0 /\ cxfer_pending = 0
        /\ imem \in Programs
        /\ idecode_in = [valid |-> 0, inst |-> NONE, pc |-> 0] /\ iexec_in = idecode_in
        /\ state = "RUNNING" /\ op_a = 0 /\ op_b = 0 /\ cmd_result_mux = "ALU"
        /\ regfile = [r \in Reg |-> 0] /\ regfile_wraddr = 0 /\ regfile_wren = 0
        /\ intr_nextpc = 0 /\ store_data = 0
        /\ cxfer_mux = 0 /\ cxfer_pc = 0 /\ trigger_cxfer = 0 /\ br_inst = 0
        /\ div_ctr = 0 /\ div_age = 0
        /\ csr_wait_ctr = 0 /\ csr_sel_reg = "PCSAVE" /\ csr_do_write = 0
        /\ csr_op = [valid |-> 0, reg |-> "PCSAVE", data |-> 0]
        /\ ctx_pc_save = 0 /\ ctx_pc_switch = 0 /\ intr_trigger_save = 0 /\ intr_reset = 0
        /\ dcache_addr = 0 /\ dcache_wren = 0 /\ dcache_done = FALSE
        /\ dmem = [d \in 0 .. Modulus - 1 |-> 0]
        /\ intr_frozen = 0 /\ intr_trigger = 0 /\ intr_toggle = 0 /\ intr_toggle_ack = 0

Next == /\ Ifetch /\ Idecode /\ Iexec /\ IcClk /\ ImemClk /\ DcacheClk /\ IntrClk
        /\ UNCHANGED imem

\* The clock runs: WF_vars(Next), where every change of vars is a Next step.
\* No burst and no access of the data cache is pending for ever: the answer of a
\* pending one is always enabled.
Fairness == /\ []<>(~ENABLED <<Next>>_vars) \/ []<><<TRUE>>_vars
            /\ []<>(ic_strobe = ic_op_start)
            /\ []<>(state # "LS_WAIT" \/ dcache_done)
Spec == Init /\ [][Next]_vars /\ Fairness

-----------------------------------------------------------------------------
(* The program's view: an instruction has taken effect once iexec accepted *)
(* it, whatever is still on its way to the registers and the memory.       *)
NextInstruction ==
  IF cxfer \/ cxfer_pending = 1 THEN Skip(imem, out_cxfer_pc)
  ELSE IF iexec_in.valid = 1 THEN iexec_in.pc
  ELSE IF idecode_in.valid = 1 THEN idecode_in.pc
  ELSE Skip(imem, pc)
Underway == CASE state = "DIV_WAIT" -> Quot(op_a, op_b)
              [] state \in {"LS_1", "LS_WAIT"} -> dmem[alu_result]
              [] OTHER -> rd_write_data
Registers == IF /\ regfile_wraddr # 0
                /\ \/ regfile_wren = 1 \/ state \in {"DIV_WAIT", "CSR_READ_WAIT"}
                   \/ state # "RUNNING" /\ cmd_result_mux = "LOAD"
             THEN [regfile EXCEPT ![regfile_wraddr] = Underway] ELSE regfile
Memory == IF state \in {"LS_1", "LS_WAIT"} /\ cmd_result_mux = "STORE"
          THEN [dmem EXCEPT ![alu_result] = store_data] ELSE dmem
SwitchTo == IF csr_sel_reg = "PCSWITCH" /\ (state = "CSR_READ_WAIT" \/ csr_do_write = 1) THEN op_b
            ELSE IF csr_op.valid = 1 /\ csr_op.reg = "PCSWITCH" THEN csr_op.data ELSE ctx_pc_switch
InHandler == intr_frozen = 1 /\ intr_trigger = intr_trigger_save /\ intr_reset = 0

Program == INSTANCE Isa WITH
  pc <- NextInstruction, regs <- Registers, dmem <- Memory,
  pcsave <- ctx_pc_save, pcswitch <- SwitchTo, handling <- InHandler

\* Whatever the caches' latencies, the stalls, the squashed instructions and
\* the moment of an interrupt, the processor executes the program in order:
\* every instruction once, on the operands the one before it left, and every
\* interrupt returns to the instruction after the last one executed.
ProgramSpec == Program!Spec

\* The processor never stops executing instructions.
PipelineAdvances == []<>Accepts

\* A program that goes on executing instructions during which an interrupt
\* may be taken takes the pending one.
InterruptTaken ==
  []<>(Accepts /\ e.op \notin Uninterruptible)
    => (intr_trigger # intr_trigger_save ~> intr_trigger = intr_trigger_save)
=============================================================================
