-------------------------------- MODULE Sdram --------------------------------
(***************************************************************************)
(* The SDRAM chip as simulation/sim_sdram_mt48lc16m16a2.vhd models it: the *)
(* banks, the burst in progress and the times its assertions measure.  The *)
(* chip is clocked by clk_n: in the cycle of a state it samples the        *)
(* command, the data bus and dqm of that state, and the step to the next   *)
(* state carries their effect, provided that cke was high in the cycle     *)
(* before (CkeZ).                                                          *)
(*                                                                         *)
(* A stored or transferred halfword is abstracted to where it belongs:     *)
(* bank, row and the beat of its 8-beat burst.                             *)
(***************************************************************************)
EXTENDS Integers, FiniteSetsExt

CONSTANTS Bank, Row

VARIABLES
  command, dqm_on,   \* from the controller
  cke,               \*   clock enable
  ckez,              \* CkeZ: cke of the previous edge
  open,              \* open[b]: the open row of bank b, or Closed
  since,             \* cycles since the last command of each kind, saturating
  read_cmd,          \* what the previous edge latched for a read (CAS latency 2)
  dqm_reg1,          \* dqm of the previous edge
  burst,             \* the burst in progress, or NoBurst
  dq                 \* the halfword the chip drives, or HighZ

vars == <<ckez, open, since, read_cmd, dqm_reg1, burst, dq>>

Closed == "closed"
NoBurst == [dir |-> "none"]
HighZ == NoBurst

\* The period is 40/3 ns: pll.vhd multiplies 50 MHz by 3/2.
Cycles(ns) == (ns * 3 + 39) \div 40
tRAS == Cycles(44)
tRC == Cycles(66)
tRCD == Cycles(20)
tRFC == Cycles(66)
tRP == Cycles(20)
tRRD == Cycles(15)
tWRm == Cycles(15)
tMRD == 2

\* Ages are compared with times of at most tRC cycles.
MaxAge == Max({tRAS, tRC, tRCD, tRFC, tRP, tRRD, tWRm, tMRD})
Older(n) == IF n < MaxAge THEN n + 1 ELSE n

\* The chip powers up with every bank active (Act_b, Pc_b) at row 0, with the
\* times of its checks at 0 ns and MRD_chk at 0: the first edge counts it to 1.
PowerUpRow == CHOOSE r \in Row : TRUE
Never == [b \in Bank |-> 0]
ChipInit == /\ ckez = 0
            /\ open = [b \in Bank |-> PowerUpRow]
            /\ since = [active |-> Never, precharge |-> Never, write |-> Never,
                        refresh |-> 0, lmr |-> 1]
            /\ read_cmd = NoBurst
            /\ dqm_reg1 = FALSE
            /\ burst = NoBurst
            /\ dq = HighZ

\* The bank a READ or WRITE addresses.
TheBank == CHOOSE b \in Bank : b \in command.banks

Start(dir) == [dir |-> dir, bank |-> TheBank, row |-> open[TheBank], beat |-> 0]
After(b) == IF b.dir = "none" \/ b.beat = 7 THEN NoBurst
            ELSE [b EXCEPT !.beat = @ + 1]

\* The write beat the chip takes from the bus in this cycle (before dqm).
WriteBeat == CASE command.cmd = "WRITE" -> Start("write")
               [] command.cmd \in {"READ", "BURST_TERMINATE"} -> NoBurst
               [] command.cmd = "PRECHARGE" /\ burst.dir = "write"
                    /\ burst.bank \in command.banks -> NoBurst
               [] OTHER -> IF burst.dir = "write" THEN burst ELSE NoBurst

\* The read beat it puts on the bus.  PRECHARGE and BURST_TERMINATE pass
\* through the same pipeline as READ and so stop a read one edge later.
ReadBeat == CASE command.cmd = "WRITE" -> NoBurst
              [] read_cmd.dir = "read" -> read_cmd
              [] read_cmd.dir = "stop" /\ burst.dir = "read"
                   /\ burst.bank \in read_cmd.banks -> NoBurst
              [] OTHER -> IF burst.dir = "read" THEN burst ELSE NoBurst

Reset(f, S) == [b \in Bank |-> IF b \in S THEN 1 ELSE Older(f[b])]

\* An edge of Sys_clk.
ChipEdge ==
  LET c == command.cmd
      wb == WriteBeat
      rb == ReadBeat
      data == IF wb.dir = "write" /\ dqm_on THEN {wb.bank} ELSE {}
  IN
  /\ open' = [b \in Bank |-> IF b \notin command.banks THEN open[b]
                             ELSE CASE c = "ACTIVE" -> command.row
                                    [] c = "PRECHARGE" -> Closed
                                    [] OTHER -> open[b]]
  /\ since' = [active |-> Reset(since.active, IF c = "ACTIVE" THEN command.banks ELSE {}),
               precharge |-> Reset(since.precharge,
                                   IF c = "PRECHARGE"
                                   THEN {b \in command.banks : open[b] # Closed} ELSE {}),
               write |-> Reset(since.write, data),
               refresh |-> IF c = "REFRESH" THEN 1 ELSE Older(since.refresh),
               lmr |-> IF c = "LMR" THEN 1 ELSE Older(since.lmr)]
  /\ read_cmd' = CASE c = "READ" -> Start("read")
                   [] c = "BURST_TERMINATE" -> [dir |-> "stop", banks |-> Bank]
                   [] c = "PRECHARGE" -> [dir |-> "stop", banks |-> command.banks]
                   [] OTHER -> NoBurst
  /\ dqm_reg1' = dqm_on
  /\ burst' = IF wb.dir = "write" THEN After(wb) ELSE After(rb)
  /\ dq' = IF rb.dir = "read" /\ dqm_reg1 THEN rb ELSE HighZ

\* No edge of Sys_clk: time passes, but MRD_chk counts edges.
ChipSuspended ==
  /\ since' = [active |-> Reset(since.active, {}), precharge |-> Reset(since.precharge, {}),
               write |-> Reset(since.write, {}), refresh |-> Older(since.refresh),
               lmr |-> since.lmr]
  /\ UNCHANGED <<open, read_cmd, dqm_reg1, burst, dq>>

ChipClk == /\ ckez' = cke
           /\ (ckez = 1 /\ ChipEdge) \/ (ckez = 0 /\ ChipSuspended)

-----------------------------------------------------------------------------
(* The assertions of the simulation model, on the command of this cycle.   *)
(* Where it asks tRP of one of the banks only, all of them must keep it.   *)

AllClosed == \A b \in Bank : open[b] = Closed

ActiveOk == command.cmd = "ACTIVE" => \A b \in command.banks :
  /\ open[b] = Closed
  /\ since.active[b] >= tRC /\ since.precharge[b] >= tRP
  /\ \A d \in Bank : since.active[d] >= tRRD
  /\ since.refresh >= tRFC /\ since.lmr >= tMRD

ReadWriteOk == command.cmd \in {"READ", "WRITE"} => \A b \in command.banks :
  open[b] # Closed /\ since.active[b] >= tRCD

PrechargeOk == command.cmd = "PRECHARGE" =>
  \A b \in command.banks : open[b] # Closed => since.active[b] >= tRAS

\* tMRD is asked of a PRECHARGE too.
PrechargeMrdOk == command.cmd = "PRECHARGE" => since.lmr >= tMRD

RefreshOk == command.cmd = "REFRESH" =>
  /\ AllClosed
  /\ since.refresh >= tRFC /\ since.lmr >= tMRD
  /\ \A b \in Bank : since.precharge[b] >= tRP

LmrOk == command.cmd = "LMR" =>
  /\ AllClosed
  /\ since.refresh >= tRFC /\ since.lmr >= tMRD
  /\ \A b \in Bank : since.precharge[b] >= tRP

\* tWR: a row is closed only tWRm after the last halfword written to it.
WriteRecoveryOk == command.cmd = "PRECHARGE" =>
  \A b \in command.banks : open[b] # Closed => since.write[b] >= tWRm
=============================================================================
