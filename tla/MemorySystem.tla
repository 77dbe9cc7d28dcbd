----------------------------- MODULE MemorySystem -----------------------------
(***************************************************************************)
(* The memory system of cpu.vhd: the masters of the memory channels, the   *)
(* arbitrator, the SDRAM controller and the chip, all driven by one clock. *)
(* Channel 0 is the instruction cache (burst reads), channel 1 the data    *)
(* cache (burst reads and writes), channel 2 the peripheral DMA (single    *)
(* accesses).                                                              *)
(*                                                                         *)
(* What crosses the data bus is abstracted to where it belongs: a master   *)
(* that expects or offers the k-th halfword of a burst is in beat k.       *)
(***************************************************************************)
EXTENDS Bits

CONSTANTS Bank, Row, REFRESH_CYCLES, TRFC_CYCLES, TRP_CYCLES, TRCD_CYCLES,
          STARTUP_CYCLE_BITNR,
          MasterOp,   \* MasterOp[c]: the requests the master of channel c makes
          NoOp

VARIABLES
  arb_state, arb_chan, arb_op_start, sdc_op, arb_strobe, strobe_mux, strobe_reg,
  mc_op_start, mc_op, mc_phase, mc_beat,
  sdc_state, command, cke, busy_wait_counter, dqm_on_counter, cycle_counter,
  refresh_lock, strobe, strobe_r1, strobe_r2, bank_states,
  ckez, open, since, read_cmd, dqm_reg1, burst, dq,
  rw,          \* history: the last READ or WRITE, as the chip understood it
  rw_count,    \* history: how many were issued since the last grant
  overdue,     \* history: how many were issued since a refresh became due
  performed    \* history: rw when the controller last toggled its strobe

NChan == 3
Chan == 0 .. NChan - 1

Sdc == INSTANCE SdramController WITH op_start <- arb_op_start, op <- sdc_op,
                                     state <- sdc_state
Arb == INSTANCE MemoryArbitrator WITH
         Op <- Sdc!SdcOp, state <- arb_state, chan <- arb_chan,
         op_start <- arb_op_start, strobe <- arb_strobe,
         sdc_strobe <- strobe, sdc_busy <- Sdc!busy
Chip == INSTANCE Sdram WITH dqm_on <- Sdc!dqm_on

arb_vars == <<arb_state, arb_chan, arb_op_start, sdc_op, arb_strobe, strobe_mux,
              strobe_reg>>
mc_vars == <<mc_op_start, mc_op, mc_phase, mc_beat>>
history == <<rw, rw_count, overdue, performed>>
vars == <<arb_vars, mc_vars, Sdc!vars, Chip!vars, history>>

ASSUME SdcAssumption ==
  /\ {REFRESH_CYCLES, TRFC_CYCLES, TRP_CYCLES, TRCD_CYCLES, STARTUP_CYCLE_BITNR}
       \subseteq Nat
  /\ STARTUP_CYCLE_BITNR >= 3
  /\ REFRESH_CYCLES < 2 ^ STARTUP_CYCLE_BITNR
\* True of every STARTUP_CYCLE_BITNR >= 3; stated for the provers, which do not
\* compute powers.
ASSUME PowerAssumption ==
  /\ 2 ^ STARTUP_CYCLE_BITNR \in Nat /\ (2 ^ STARTUP_CYCLE_BITNR) % 8 = 0
  /\ 2 ^ (STARTUP_CYCLE_BITNR + 1) = 2 * 2 ^ STARTUP_CYCLE_BITNR
ASSUME ChipAssumption == /\ Bank # {} /\ Row # {} /\ Chip!Closed \notin Row
                         /\ NoOp \notin Sdc!SdcOp
ASSUME MasterAssumption == \A c \in Chan : MasterOp[c] \subseteq Sdc!SdcOp

-----------------------------------------------------------------------------
(* The masters: IDLE, WAIT for the strobe of a request, BEATS 1 to 7 of a  *)
(* burst.                                                                  *)

\* The strobe of channel c equals its op_start again.
Served(c) == Arb!op_strobe(c) = mc_op_start[c]

\* A master is in the cycle whose end takes halfword mc_beat of its read.
Samples(c) == /\ mc_op[c].wren = 0
              /\ mc_phase[c] = "BEATS" \/ (mc_phase[c] = "WAIT" /\ Served(c))

\* What the master of c does at this edge.
Step(op_start, op, phase, beat) ==
  [op_start |-> op_start, op |-> op, phase |-> phase, beat |-> beat]

Keep(c) == Step(mc_op_start[c], mc_op[c], mc_phase[c], mc_beat[c])

Ask(c) == {Step(Flip(mc_op_start[c]), o, "WAIT", 0) : o \in MasterOp[c]}

\* A read takes its last halfword in beat 7; a write offers it and is IDLE.
LastBeat(c) == IF mc_op[c].wren = 1 THEN 6 ELSE 7
Beat(c) == IF mc_op[c].wren = 1 \/ mc_beat[c] < 7 THEN mc_beat[c] + 1 ELSE 0
Advance(c) == Step(mc_op_start[c], mc_op[c],
                   IF mc_beat[c] = LastBeat(c) THEN "IDLE" ELSE "BEATS", Beat(c))

MasterSteps(c) ==
  CASE mc_phase[c] = "IDLE" -> {Keep(c)} \cup Ask(c)
    [] mc_phase[c] = "WAIT" /\ ~Served(c) -> {Keep(c)}
    [] mc_phase[c] = "WAIT" /\ Served(c) /\ mc_op[c].burst = 0 ->
         {Step(mc_op_start[c], mc_op[c], "IDLE", mc_beat[c])}
    [] OTHER -> {Advance(c)}

Masters ==
  \E s0 \in MasterSteps(0), s1 \in MasterSteps(1), s2 \in MasterSteps(2) :
    LET s(c) == CASE c = 0 -> s0 [] c = 1 -> s1 [] OTHER -> s2 IN
    /\ mc_op_start' = [c \in Chan |-> s(c).op_start]
    /\ mc_op' = [c \in Chan |-> s(c).op]
    /\ mc_phase' = [c \in Chan |-> s(c).phase]
    /\ mc_beat' = [c \in Chan |-> s(c).beat]

-----------------------------------------------------------------------------
(* History.                                                                *)

Issued == command'.cmd \in {"READ", "WRITE"}

\* The request the chip serves: the bank of the command, the row open there.
ChipOp == LET b == CHOOSE b \in Bank : b \in command'.banks IN
          [bank |-> b, row |-> open'[b],
           wren |-> IF command'.cmd = "WRITE" THEN 1 ELSE 0,
           burst |-> IF sdc_state' = "IDLE" THEN 1 ELSE 0]

Record ==
  /\ rw' = IF Issued THEN ChipOp ELSE rw
  /\ rw_count' = IF Issued THEN rw_count + 1
                 ELSE IF arb_op_start' # arb_op_start THEN 0 ELSE rw_count
  /\ overdue' = CASE command'.cmd = "REFRESH" -> 0
                  [] Issued /\ Sdc!RefreshDue -> overdue + 1
                  [] OTHER -> overdue
  /\ performed' = IF strobe' # strobe THEN rw' ELSE performed

AnyOp == CHOOSE o \in Sdc!SdcOp : TRUE

\* The requests on the channels and the registers of the arbitrator that have
\* no initial value are not read before they are set.
Init == /\ Arb!ArbInit
        /\ sdc_op = AnyOp
        /\ strobe_reg = [c \in Chan |-> 0]
        /\ mc_op_start = [c \in Chan |-> 0]
        /\ mc_op = [c \in Chan |-> AnyOp]
        /\ mc_phase = [c \in Chan |-> "IDLE"]
        /\ mc_beat = [c \in Chan |-> 0]
        /\ Sdc!SdcInit
        /\ Chip!ChipInit
        /\ rw = NoOp /\ rw_count = 0 /\ overdue = 0 /\ performed = NoOp

Next == Arb!Clk /\ Sdc!Clk /\ Chip!ChipClk /\ Masters /\ Record

Spec == Init /\ [][Next]_vars
FairSpec == Spec /\ WF_vars(Next)
-----------------------------------------------------------------------------
(* Properties.                                                             *)

Where(b) == <<b.bank, b.row>>

\* The chip's protocol, as the assertions of its simulation model state it, from
\* power-up on (tWR is WriteRecovery, below): rows are opened in closed banks only, read and written when open, refreshed when all banks are closed,
\* and every command keeps its distance from the earlier ones (the busy periods
\* of sdram_controller.vhd and its order of the tests in IDLE).  The PRECHARGE of
\* STARTUP, which finds all banks active, is the one that tMRD is not asked of:
\* it is on the first edge of the chip's clock, where MRD_chk is 1.
ChipProtocol == /\ Chip!ActiveOk /\ Chip!ReadWriteOk /\ Chip!PrechargeOk
                /\ Chip!RefreshOk /\ Chip!LmrOk
                /\ sdc_state # "STARTUP" => Chip!PrechargeMrdOk

\* The chip's write recovery time: no row is closed before tWRm has passed since
\* the last halfword written to it (sim_sdram_mt48lc16m16a2.vhd, "tWR violation
\* during Precharge").
WriteRecovery == Chip!WriteRecoveryOk

\* When a master takes halfword k of its read, the bus carries halfword k of the
\* row it asked for: the strobe, delayed by strobe_r1 and strobe_r2, announces the
\* first halfword of the burst to the cycle, on whichever channel.
ReadAligned == \A c \in Chan : Samples(c) =>
  /\ dq # Chip!HighZ
  /\ Where(dq) = Where(mc_op[c]) /\ dq.beat = mc_beat[c]

\* When the chip takes halfword k of a write, the channel still multiplexed by
\* the arbitrator is the one that asked for this write and offers halfword k.
WriteAligned == LET w == Chip!WriteBeat IN
  w.dir = "write" /\ Sdc!dqm_on =>
    /\ sdc_op.wren = 1
    /\ Where(w) = Where(mc_op[arb_chan]) /\ mc_op[arb_chan].wren = 1
    /\ w.beat = mc_beat[arb_chan]

\* The controller and the chip never drive the data bus in the same cycle.
NoContention == ~(Sdc!dqm_on /\ sdc_op.wren = 1 /\ dq # Chip!HighZ)

\* A grant leads to one READ or WRITE and no more, even when a refresh closes
\* the row between the ACTIVE and the access; a served one was issued.
OneCommandPerGrant == /\ rw_count <= 1
                      /\ arb_op_start = strobe /\ rw # NoOp => rw_count = 1

\* A due refresh is put off by at most one access ("We don't expect any
\* refresh-starvation problems", sdram_controller.vhd:196).
RefreshNotStarved == overdue <= 1

\* A burst the chip has begun to write is written to its last halfword: neither
\* a command nor dqm cuts it short (single accesses are cut by TERMINATE_BURST).
BurstWritten ==
  [][LET w == Chip!WriteBeat IN
     w.dir = "write" /\ w.beat < 7 /\ rw.burst = 1 =>
       /\ Sdc!dqm_on'
       /\ Chip!WriteBeat' = [w EXCEPT !.beat = @ + 1]]_vars

\* The masters and the controller are an environment as MemoryArbitrator assumes
\* it: requests stay on their channel until served, and the strobe is toggled
\* when, and only when, the chip was given the latched request.
ArbitratorSpec == Arb!Spec

\* Every miss of the instruction cache and of the data cache is served (no cache
\* waits for ever): fixed priority does not let channel 0 shut out 1, however
\* often it misses.  The DMA, which has a lower priority, makes no requests here.
CachesServed == \A c \in {0, 1} : []<>(mc_phase[c] # "WAIT")

\* A refresh that is due is eventually done.
RefreshDone == sdc_state # "STARTUP" /\ Sdc!RefreshDue ~> command.cmd = "REFRESH"
=============================================================================
