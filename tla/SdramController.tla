--------------------------- MODULE SdramController ---------------------------
(***************************************************************************)
(* The SDRAM controller (sdram_controller.vhd), one step per rising edge   *)
(* of clk.  Addresses are abstracted to their bank and row: the column     *)
(* never influences control.  command stands for the command register and  *)
(* the addr and bank registers it is issued with; banks is the set of      *)
(* banks a PRECHARGE closes (addr(10) selects all of them).                *)
(***************************************************************************)
EXTENDS Bits

CONSTANTS Bank, Row,            \* 4 banks and 8192 rows in the source
          REFRESH_CYCLES,       \* 578
          TRFC_CYCLES,          \* 6
          TRP_CYCLES,           \* 1
          TRCD_CYCLES,          \* 1
          STARTUP_CYCLE_BITNR   \* 14

VARIABLES
  op_start, op,                  \* mc_in
  state, command, cke,
  busy_wait_counter, dqm_on_counter, cycle_counter, refresh_lock,
  strobe, strobe_r1, strobe_r2,
  bank_states                    \* bank_states[b].active, .row

vars == <<state, command, cke, busy_wait_counter, dqm_on_counter, cycle_counter,
          refresh_lock, strobe, strobe_r1, strobe_r2, bank_states>>

\* The requests of a memory channel.
SdcOp == [bank : Bank, row : Row, wren : Bit, burst : Bit]

\* cycle_counter has STARTUP_CYCLE_BITNR + 1 bits.
CounterSize == 2 ^ (STARTUP_CYCLE_BITNR + 1)
Started == cycle_counter >= 2 ^ STARTUP_CYCLE_BITNR

AnyRow == CHOOSE r \in Row : TRUE
Cmd(name, banks, row) == [cmd |-> name, banks |-> banks, row |-> row]
Plain(name) == Cmd(name, {}, AnyRow)

busy == IF busy_wait_counter > 0 THEN 1 ELSE 0
dqm_on == dqm_on_counter > 0
cur_bank == bank_states[op.bank]

\* Definitions named X_<fault> are faults injected into X to validate the
\* properties; no specification uses them.

\* busy_wait_period, selected by op_wren & op_burst.
busy_wait_period_noRead == IF op.wren = 1 /\ op.burst = 1 THEN 7 ELSE 0
busy_wait_period_shortBurst == IF op.wren = 0 THEN 2 ELSE 0
busy_wait_period == CASE op.wren = 0 /\ op.burst = 0 -> 2
                      [] op.wren = 0 /\ op.burst = 1 -> 9
                      [] op.wren = 1 /\ op.burst = 1 -> 7
                      [] OTHER -> 0

\* Halfwords during which dqm lets the bus through.
DqmBeats_seven == IF op.burst = 1 THEN 7 ELSE 1
DqmBeats == IF op.burst = 1 THEN 8 ELSE 1

SdcInit == /\ state = "STARTUP"
           /\ command = Plain("INHIBIT")
           /\ cke = 0
           /\ busy_wait_counter = 0
           /\ dqm_on_counter = 0
           /\ cycle_counter = 0
           /\ refresh_lock = 0
           /\ strobe = 0 /\ strobe_r1 = 0 /\ strobe_r2 = 0
           /\ bank_states = [b \in Bank |-> [active |-> 0, row |-> AnyRow]]

-----------------------------------------------------------------------------
(* Assignments the process makes before its case statement; an arm that    *)
(* assigns the same register again does not use them.                      *)

CountCycle == cycle_counter' = (cycle_counter + 1) % CounterSize
ShiftStrobe_oneStage == /\ strobe' = strobe_r2
                        /\ strobe_r1' = strobe_r2
                        /\ strobe_r2' = strobe_r2
ShiftStrobe == /\ strobe' = strobe_r1
               /\ strobe_r1' = strobe_r2
               /\ strobe_r2' = strobe_r2
CountDqm == dqm_on_counter' = IF dqm_on THEN dqm_on_counter - 1 ELSE 0

-----------------------------------------------------------------------------
(* STARTUP                                                                 *)

StartupStep(count, cmd, next) ==
  /\ state = "STARTUP"
  /\ Started /\ cycle_counter % 8 = count
  /\ command' = cmd
  /\ cke' = 1
  /\ state' = next
  /\ CountCycle /\ ShiftStrobe /\ CountDqm
  /\ UNCHANGED <<busy_wait_counter, refresh_lock, bank_states>>

StartupPrecharge == StartupStep(1, Cmd("PRECHARGE", Bank, AnyRow), "STARTUP")
StartupLmr == StartupStep(5, Plain("LMR"), "STARTUP")
StartupDone == StartupStep(7, Plain("NOP"), "IDLE")

StartupWait ==
  /\ state = "STARTUP"
  /\ ~Started \/ cycle_counter % 8 \notin {1, 5, 7}
  /\ command' = Plain("NOP")
  /\ cke' = IF Started THEN 1 ELSE cke
  /\ CountCycle /\ ShiftStrobe /\ CountDqm
  /\ UNCHANGED <<state, busy_wait_counter, refresh_lock, bank_states>>

-----------------------------------------------------------------------------
(* IDLE                                                                    *)

Ready == state = "IDLE" /\ busy = 0
RefreshDue == cycle_counter > REFRESH_CYCLES
TakesOp_noLock == op_start # strobe
TakesOp_refreshFirst == op_start # strobe /\ refresh_lock = 0 /\ ~RefreshDue
TakesOp == op_start # strobe /\ refresh_lock = 0
RowHit_anyRow == TRUE
RowHit == cur_bank.row = op.row

\* The bank is closed: open the row of the request.
Activate ==
  /\ Ready /\ TakesOp
  /\ cur_bank.active = 0
  /\ command' = Cmd("ACTIVE", {op.bank}, op.row)
  /\ bank_states' = [bank_states EXCEPT ![op.bank] = [active |-> 1, row |-> op.row]]
  /\ busy_wait_counter' = TRCD_CYCLES
  /\ CountCycle /\ ShiftStrobe /\ CountDqm
  /\ UNCHANGED <<cke, state, refresh_lock>>

\* Another row of the bank is open: close it.
PrechargeRow ==
  /\ Ready /\ TakesOp
  /\ cur_bank.active = 1 /\ ~RowHit
  /\ command' = Cmd("PRECHARGE", {op.bank}, AnyRow)
  /\ bank_states' = [bank_states EXCEPT ![op.bank].active = 0]
  /\ busy_wait_counter' = TRP_CYCLES
  /\ CountCycle /\ ShiftStrobe /\ CountDqm
  /\ UNCHANGED <<cke, state, refresh_lock>>

\* The row is open: issue the request.  A write is answered at once, a read
\* through the two registers that cover the CAS latency.
ReadWrite ==
  /\ Ready /\ TakesOp
  /\ cur_bank.active = 1 /\ RowHit
  /\ command' = Cmd(IF op.wren = 1 THEN "WRITE" ELSE "READ", {op.bank}, AnyRow)
  /\ dqm_on_counter' = DqmBeats
  /\ state' = IF op.burst = 1 THEN "IDLE" ELSE "TERMINATE_BURST"
  /\ busy_wait_counter' = busy_wait_period
  /\ strobe_r2' = Flip(strobe_r2)
  /\ strobe_r1' = IF op.wren = 1 THEN Flip(strobe_r2) ELSE strobe_r2
  /\ strobe' = IF op.wren = 1 THEN Flip(strobe_r2) ELSE strobe_r1
  /\ CountCycle
  /\ UNCHANGED <<cke, refresh_lock, bank_states>>

\* A refresh is due and a row is open: close all rows and keep requests out.
AllInactive_kept == bank_states
AllInactive == [b \in Bank |-> [bank_states[b] EXCEPT !.active = 0]]
RefreshPrecharge ==
  /\ Ready /\ ~TakesOp /\ RefreshDue
  /\ \E b \in Bank : bank_states[b].active = 1
  /\ command' = Cmd("PRECHARGE", Bank, AnyRow)
  /\ bank_states' = AllInactive
  /\ busy_wait_counter' = TRP_CYCLES
  /\ refresh_lock' = 1
  /\ CountCycle /\ ShiftStrobe /\ CountDqm
  /\ UNCHANGED <<cke, state>>

RefreshUnlock_missing == 1
RefreshUnlock == 0
Refresh ==
  /\ Ready /\ ~TakesOp /\ RefreshDue
  /\ \A b \in Bank : bank_states[b].active = 0
  /\ command' = Plain("REFRESH")
  /\ busy_wait_counter' = TRFC_CYCLES
  /\ cycle_counter' = cycle_counter - REFRESH_CYCLES
  /\ refresh_lock' = RefreshUnlock
  /\ ShiftStrobe /\ CountDqm
  /\ UNCHANGED <<cke, state, bank_states>>

IdleNop ==
  /\ Ready /\ ~TakesOp /\ ~RefreshDue
  /\ command' = Plain("NOP")
  /\ CountCycle /\ ShiftStrobe /\ CountDqm
  /\ UNCHANGED <<cke, state, busy_wait_counter, refresh_lock, bank_states>>

BusyCount ==
  /\ state = "IDLE" /\ busy = 1
  /\ command' = Plain("NOP")
  /\ busy_wait_counter' = busy_wait_counter - 1
  /\ CountCycle /\ ShiftStrobe /\ CountDqm
  /\ UNCHANGED <<cke, state, refresh_lock, bank_states>>

TerminateBurst ==
  /\ state = "TERMINATE_BURST"
  /\ command' = Plain("BURST_TERMINATE")
  /\ state' = "IDLE"
  /\ CountCycle /\ ShiftStrobe /\ CountDqm
  /\ UNCHANGED <<cke, busy_wait_counter, refresh_lock, bank_states>>

Clk == \/ StartupPrecharge \/ StartupLmr \/ StartupDone \/ StartupWait
       \/ Activate \/ PrechargeRow \/ ReadWrite
       \/ RefreshPrecharge \/ Refresh \/ IdleNop \/ BusyCount
       \/ TerminateBurst
=============================================================================
