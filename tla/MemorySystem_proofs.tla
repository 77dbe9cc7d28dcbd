------------------------- MODULE MemorySystem_proofs -------------------------
(***************************************************************************)
(* Proofs about MemorySystem, for every number of banks and rows, every    *)
(* set of requests of the masters and every length of the controller's     *)
(* waiting periods: the masters and the controller are the environment     *)
(* that MemoryArbitrator assumes, a grant leads to one access, and a due   *)
(* refresh is put off by at most one access.                               *)
(***************************************************************************)
EXTENDS MemorySystem, TLAPS

\* The arbitrator with its theorems.
ArbP == INSTANCE MemoryArbitrator_proofs WITH
          Op <- Sdc!SdcOp, state <- arb_state, chan <- arb_chan,
          op_start <- arb_op_start, strobe <- arb_strobe,
          sdc_strobe <- strobe, sdc_busy <- Sdc!busy

-----------------------------------------------------------------------------
(* The inductive invariant of the control.                                 *)

SdcType == /\ sdc_state \in {"STARTUP", "IDLE", "TERMINATE_BURST"}
           /\ busy_wait_counter \in Nat
           /\ strobe \in Bit /\ strobe_r1 \in Bit /\ strobe_r2 \in Bit
           /\ refresh_lock \in Bit
           /\ bank_states \in [Bank -> [active : Bit, row : Row]]
           /\ rw_count \in Nat

\* Edges until the controller is ready again.
Left == busy_wait_counter + (IF sdc_state = "TERMINATE_BURST" THEN 1 ELSE 0)

\* The request the controller was given has been issued to the chip.
Taken == strobe_r2 = arb_op_start

\* The strobe of a read is on its way through strobe_r1 and strobe_r2; the
\* controller stays busy until after it has arrived.
StrobePipe ==
  /\ strobe_r2 # strobe_r1 => strobe_r1 = strobe /\ Taken /\ Left >= 3
  /\ strobe_r1 # strobe => strobe_r2 = strobe_r1 /\ Taken /\ Left >= 2
  /\ arb_state = "WAIT_STROBE" /\ Taken => Left >= 1
  /\ sdc_state = "TERMINATE_BURST" => arb_state = "WAIT_STROBE" /\ Taken
  /\ sdc_state = "STARTUP" => /\ Left = 0 /\ strobe_r2 = strobe
                              /\ arb_state # "IDLE" => ~Taken

\* What was issued since the grant, and that it is what the arbitrator latched.
Issue == /\ Taken /\ arb_op_start # strobe => rw = sdc_op
         /\ ~Taken => rw_count = 0
         /\ Taken => rw_count = 1 \/ (rw = NoOp /\ rw_count = 0)

\* The row of bank b that the chip will have open after the command it is given.
Opened(b) == IF b \notin command.banks THEN open[b]
             ELSE CASE command.cmd = "ACTIVE" -> command.row
                    [] command.cmd = "PRECHARGE" -> "closed"
                    [] OTHER -> open[b]

\* The chip's clock is enabled by cycle 2^STARTUP_CYCLE_BITNR of the start-up,
\* which lasts for 8 more cycles: it runs from the PRECHARGE on.
PowerUp ==
  /\ cycle_counter \in Nat
  /\ sdc_state = "STARTUP" => cycle_counter <= 2 ^ STARTUP_CYCLE_BITNR + 7
  /\ cke = IF sdc_state = "STARTUP" /\ cycle_counter <= 2 ^ STARTUP_CYCLE_BITNR THEN 0 ELSE 1
  /\ ckez = IF sdc_state = "STARTUP" /\ cycle_counter <= 2 ^ STARTUP_CYCLE_BITNR + 1 THEN 0 ELSE 1

\* Once the chip runs, bank_states says what it has open: the PRECHARGE of the
\* start-up closes the banks, which are all active at power-up.
Rows == /\ ckez = 1 => \A b \in Bank : Opened(b) = IF bank_states[b].active = 1
                                                   THEN bank_states[b].row ELSE "closed"
        /\ sdc_state = "STARTUP" \/ refresh_lock = 1 =>
             \A b \in Bank : bank_states[b].active = 0

\* A master that does not wait has no request pending.
MasterInv == /\ mc_phase \in [Chan -> {"IDLE", "WAIT", "BEATS"}]
             /\ \A c \in Chan : mc_phase[c] # "WAIT" => ~ArbP!Pending(c)

ControlInv == ArbP!IInv /\ SdcType /\ StrobePipe /\ Issue /\ PowerUp /\ Rows /\ MasterInv

-----------------------------------------------------------------------------
(* The inductive invariant of the refresh.                                 *)

\* The access has been issued and the arbitrator has not seen its end.
PostAccess == Taken /\ arb_state # "IDLE"

LongestDelay == 3 * TRP_CYCLES + 2 * TRCD_CYCLES + TRFC_CYCLES + 13

\* The waiting periods are short beside the refresh period and the start-up: in
\* sdram_controller.vhd 24 <= 578 and 24 < 16384.
RefreshFits == /\ LongestDelay <= REFRESH_CYCLES
               /\ 2 * TRP_CYCLES + TRCD_CYCLES + 21 < 2 ^ STARTUP_CYCLE_BITNR

Asked == arb_op_start # strobe
BankOf == bank_states[sdc_op.bank]

\* A bound on the edges before the next REFRESH, once it is due.
Delay ==
  Left + (IF refresh_lock = 1 THEN 0
          ELSE IF PostAccess THEN 1 + TRP_CYCLES
          ELSE 11 + TRP_CYCLES
               + (IF ~Asked THEN 2 + TRP_CYCLES + TRCD_CYCLES
                  ELSE IF BankOf.active = 0 THEN 1 + TRCD_CYCLES
                  ELSE IF BankOf.row = sdc_op.row THEN 0
                  ELSE 2 + TRP_CYCLES + TRCD_CYCLES))

LeftInv == Left <= IF PostAccess THEN 9 ELSE TRP_CYCLES + TRCD_CYCLES + TRFC_CYCLES

\* A due refresh comes before cycle_counter overflows; once an access was made
\* while it was due, it is the next thing the controller does.
RefreshInv ==
  /\ cycle_counter \in Nat /\ overdue \in Bit
  /\ sdc_state = "STARTUP" => /\ cycle_counter <= 2 ^ STARTUP_CYCLE_BITNR + 7
                              /\ refresh_lock = 0 /\ overdue = 0
  /\ sdc_state # "STARTUP" /\ Sdc!RefreshDue => cycle_counter + Delay < Sdc!CounterSize
  /\ LeftInv
  /\ refresh_lock = 1 => Sdc!RefreshDue
  /\ overdue = 1 => Sdc!RefreshDue /\ (refresh_lock = 1 \/ PostAccess)

-----------------------------------------------------------------------------
(* The initial state.                                                      *)

\* What the instances call by their own names.
LEMMA Same == /\ Sdc!Bit = Bit /\ ArbP!Bit = Bit /\ ArbP!Chan = Chan /\ Arb!Chan = Chan
              /\ \A b : Sdc!Flip(b) = Flip(b) /\ ArbP!Flip(b) = Flip(b)
              /\ \A c : Arb!op_strobe(c) = ArbP!op_strobe(c)
  BY DEF Sdc!Bit, ArbP!Bit, Bit, ArbP!Chan, Arb!Chan, Chan, Sdc!Flip, ArbP!Flip, Flip,
         Arb!op_strobe, ArbP!op_strobe, Arb!Xor, ArbP!Xor

\* There is a request, and a row.
LEMMA SomeOp == AnyOp \in Sdc!SdcOp /\ Sdc!AnyRow \in Row /\ Sdc!SdcOp # {}
<1>1. PICK b \in Bank, r \in Row : TRUE
  BY ChipAssumption
<1>2. [bank |-> b, row |-> r, wren |-> 0, burst |-> 0] \in Sdc!SdcOp
  BY DEF Sdc!SdcOp, Sdc!Bit
<1> QED
  BY <1>1, <1>2 DEF AnyOp, Sdc!AnyRow

\* The length of the start-up and the size of cycle_counter.
LEMMA StartupLength == \E p \in Nat : /\ p = 2 ^ STARTUP_CYCLE_BITNR /\ p % 8 = 0
                                      /\ REFRESH_CYCLES < p /\ Sdc!CounterSize = 2 * p
  BY SdcAssumption, PowerAssumption DEF Sdc!CounterSize

\* The state of the registers at power-up.
LEMMA ControlInit == Init => ControlInv
<1> SUFFICES ASSUME Init PROVE ControlInv
  OBVIOUS
<1>1. ArbP!Init
  BY SomeOp, Same DEF Init, Arb!ArbInit, ArbP!Init, ArbP!ArbInit, Sdc!SdcInit, Sdc!busy, Chan, Bit
<1>2. ArbP!IInv
  BY <1>1, ArbP!InitInv, ChipAssumption, SomeOp DEF NChan
<1>3. SdcType
  BY SomeOp DEF Init, Sdc!SdcInit, SdcType, Bit
<1>4. StrobePipe
  BY DEF Init, Sdc!SdcInit, Arb!ArbInit, StrobePipe, Left, Taken
<1>5. Issue
  BY DEF Init, Sdc!SdcInit, Arb!ArbInit, Issue, Taken
<1>6. Rows
  BY DEF Init, Sdc!SdcInit, Chip!ChipInit, Rows
<1>7. PowerUp
  <2>1. PICK p \in Nat : p = 2 ^ STARTUP_CYCLE_BITNR
    BY StartupLength
  <2> QED
    BY <2>1 DEF Init, Sdc!SdcInit, Chip!ChipInit, PowerUp
<1>8. MasterInv
  <2>1. \A c \in Chan : ~ArbP!Pending(c)
    BY Same DEF Init, Arb!ArbInit, ArbP!Pending, ArbP!op_strobe
  <2> QED
    BY <2>1 DEF Init, MasterInv
<1> QED
  BY <1>2, <1>3, <1>4, <1>5, <1>6, <1>7, <1>8 DEF ControlInv

-----------------------------------------------------------------------------
(* One edge of the controller and the chip.                                *)

\* A ready controller has sent its strobe; one that is asked has not issued the
\* request, and the arbitrator waits.
LEMMA ReadyFacts ==
  ASSUME ControlInv, Sdc!Ready
  PROVE  /\ sdc_state = "IDLE" /\ busy_wait_counter = 0 /\ Left = 0
         /\ strobe_r2 = strobe /\ strobe_r1 = strobe
         /\ arb_op_start # strobe => ~Taken /\ arb_state = "WAIT_STROBE"
<1>1. sdc_state = "IDLE" /\ busy_wait_counter = 0 /\ Left = 0
  BY DEF ControlInv, SdcType, Sdc!Ready, Sdc!busy, Left
<1>2. strobe_r2 = strobe /\ strobe_r1 = strobe
  BY <1>1 DEF ControlInv, StrobePipe
<1> QED
  BY <1>1, <1>2 DEF ControlInv, ArbP!IInv, ArbP!RequestIntact, ArbP!SdcAsked, Taken

\* An edge at which the controller issues nothing.
LEMMA NotIssued ==
  ASSUME Sdc!Clk, ~Sdc!ReadWrite
  PROVE  ~Issued /\ strobe' = strobe_r1 /\ strobe_r1' = strobe_r2 /\ strobe_r2' = strobe_r2
  BY DEF Sdc!Clk, Issued, Sdc!StartupPrecharge, Sdc!StartupLmr, Sdc!StartupDone, Sdc!StartupStep,
         Sdc!StartupWait, Sdc!Activate, Sdc!PrechargeRow, Sdc!RefreshPrecharge, Sdc!Refresh,
         Sdc!IdleNop, Sdc!BusyCount, Sdc!TerminateBurst, Sdc!ShiftStrobe, Sdc!Cmd, Sdc!Plain

\* After the start-up the chip runs.
LEMMA ChipRuns == ControlInv /\ sdc_state # "STARTUP" => cke = 1 /\ ckez = 1
  BY Zenon DEF ControlInv, PowerUp

\* An edge of clk is one of the chip's clock when that runs.
LEMMA ChipEdges == Chip!ChipClk /\ ckez = 1 => Chip!ChipEdge
  BY DEF Chip!ChipClk

\* The chip's rows follow the commands.
LEMMA ChipOpens ==
  ASSUME Chip!ChipEdge PROVE \A b \in Bank : open'[b] = Opened(b)
  BY DEF Chip!ChipEdge, Opened, Chip!Closed

\* A READ or WRITE is understood by the chip as the latched request.
LEMMA IssuedOp ==
  ASSUME ControlInv, Sdc!ReadWrite, Chip!ChipClk
  PROVE  Issued /\ ChipOp = sdc_op
<1>1. sdc_op \in Sdc!SdcOp
  BY DEF ControlInv, ArbP!IInv, ArbP!TypeOK
<1>2. /\ sdc_op.bank \in Bank /\ sdc_op.wren \in {0, 1} /\ sdc_op.burst \in {0, 1}
      /\ sdc_op = [bank |-> sdc_op.bank, row |-> sdc_op.row, wren |-> sdc_op.wren,
                   burst |-> sdc_op.burst]
  BY <1>1 DEF Sdc!SdcOp, Sdc!Bit
<1>3. /\ command'.cmd = IF sdc_op.wren = 1 THEN "WRITE" ELSE "READ"
      /\ command'.banks = {sdc_op.bank}
      /\ sdc_state' = IF sdc_op.burst = 1 THEN "IDLE" ELSE "TERMINATE_BURST"
      /\ bank_states[sdc_op.bank].active = 1 /\ bank_states[sdc_op.bank].row = sdc_op.row
  BY DEF Sdc!ReadWrite, Sdc!Cmd, Sdc!RowHit, Sdc!cur_bank
<1>4. open'[sdc_op.bank] = sdc_op.row
  <2>1. ckez = 1
    BY ChipRuns DEF Sdc!ReadWrite, Sdc!Ready
  <2> QED
    BY <1>2, <1>3, <2>1, ChipEdges, ChipOpens DEF ControlInv, Rows
<1>5. (CHOOSE b \in Bank : b \in command'.banks) = sdc_op.bank
  BY <1>2, <1>3
<1> QED
  BY <1>2, <1>3, <1>4, <1>5 DEF Issued, ChipOp

-----------------------------------------------------------------------------
(* The masters and the controller as the arbitrator's environment.         *)

\* The controller toggles its strobe for the latched request, or not at all.
LEMMA ControllerStep ==
  ASSUME ControlInv, Sdc!Clk, Chip!ChipClk, Record
  PROVE  ArbP!SdcPerform \/ ArbP!SdcOther
<1> USE DEF ArbP!SdcPerform, ArbP!SdcOther
<1>0. (Sdc!busy)' \in ArbP!Bit
  BY DEF Sdc!busy, ArbP!Bit
<1>1. CASE Sdc!ReadWrite
  <2>1. arb_op_start # strobe /\ Sdc!Ready
    BY <1>1 DEF Sdc!ReadWrite, Sdc!TakesOp
  <2>2. strobe_r2 = strobe /\ strobe_r1 = strobe /\ ~Taken
    BY <2>1, ReadyFacts
  <2>3. Flip(strobe_r2) = arb_op_start
    BY <2>1, <2>2, Same DEF ControlInv, ArbP!IInv, ArbP!TypeOK, Bit, Flip
  <2>4. rw' = sdc_op
    BY <1>1, IssuedOp DEF Record
  <2>5. strobe' = arb_op_start \/ strobe' = strobe
    BY <1>1, <2>2, <2>3, Same DEF Sdc!ReadWrite
  <2>6. CASE strobe' = arb_op_start
    BY <1>0, <2>1, <2>4, <2>6 DEF Record
  <2>7. CASE strobe' = strobe
    BY <1>0, <2>7 DEF Record
  <2> QED
    BY <2>5, <2>6, <2>7
<1>2. CASE ~Sdc!ReadWrite
  <2>1. rw' = rw /\ strobe' = strobe_r1
    BY <1>2, NotIssued DEF Record
  <2>2. CASE strobe_r1 = strobe
    BY <1>0, <2>1, <2>2 DEF Record
  <2>3. CASE strobe_r1 # strobe
    <3>1. Taken /\ strobe_r1 = arb_op_start
      BY <2>3 DEF ControlInv, StrobePipe, Taken
    <3>2. rw = sdc_op
      BY <2>3, <3>1 DEF ControlInv, Issue
    <3> QED
      BY <1>0, <2>1, <2>3, <3>1, <3>2 DEF Record
  <2> QED
    BY <2>2, <2>3
<1> QED
  BY <1>1, <1>2

\* Each master takes one of its steps.
LEMMA MasterStep ==
  ASSUME Masters
  PROVE  /\ mc_op_start' = [c \in Chan |-> mc_op_start'[c]]
         /\ mc_op' = [c \in Chan |-> mc_op'[c]]
         /\ mc_phase' = [c \in Chan |-> mc_phase'[c]]
         /\ \A c \in Chan : \E s \in MasterSteps(c) :
              /\ mc_op_start'[c] = s.op_start /\ mc_op'[c] = s.op
              /\ mc_phase'[c] = s.phase
<1>1. PICK s0 \in MasterSteps(0), s1 \in MasterSteps(1), s2 \in MasterSteps(2) :
        LET s(c) == CASE c = 0 -> s0 [] c = 1 -> s1 [] OTHER -> s2 IN
        /\ mc_op_start' = [c \in Chan |-> s(c).op_start]
        /\ mc_op' = [c \in Chan |-> s(c).op]
        /\ mc_phase' = [c \in Chan |-> s(c).phase]
        /\ mc_beat' = [c \in Chan |-> s(c).beat]
  BY DEF Masters
<1>2. \A c \in Chan : c = 0 \/ c = 1 \/ c = 2
  BY DEF Chan, NChan
<1> QED
  BY <1>1, <1>2

\* A step of a master: it keeps its request, or it has none and asks.
LEMMA MasterCases ==
  ASSUME NEW c \in Chan, NEW s \in MasterSteps(c),
         mc_phase[c] \in {"IDLE", "WAIT", "BEATS"}
  PROVE  /\ s.phase \in {"IDLE", "WAIT", "BEATS"}
         /\ \/ s.op_start = mc_op_start[c] /\ s.op = mc_op[c]
            \/ /\ mc_phase[c] = "IDLE" /\ s.phase = "WAIT"
               /\ s.op_start = Flip(mc_op_start[c]) /\ s.op \in Sdc!SdcOp
         /\ s.phase # "WAIT" => /\ s.op_start = mc_op_start[c]
                                /\ mc_phase[c] # "WAIT" \/ Served(c)
<1> USE DEF Step
<1>1. CASE mc_phase[c] = "IDLE"
  <2>1. s \in {Keep(c)} \cup Ask(c)
    BY <1>1 DEF MasterSteps
  <2> QED
    BY <1>1, <2>1, MasterAssumption DEF Keep, Ask
<1>2. CASE mc_phase[c] = "WAIT" /\ ~Served(c)
  <2>1. s = Keep(c)
    BY <1>2 DEF MasterSteps
  <2> QED
    BY <1>2, <2>1 DEF Keep
<1>3. CASE mc_phase[c] = "WAIT" /\ Served(c) /\ mc_op[c].burst = 0
  <2>1. s = Step(mc_op_start[c], mc_op[c], "IDLE", mc_beat[c])
    BY <1>3 DEF MasterSteps
  <2> QED
    BY <1>3, <2>1
<1>4. CASE mc_phase[c] = "BEATS" \/ (mc_phase[c] = "WAIT" /\ Served(c) /\ mc_op[c].burst # 0)
  <2>1. s = Advance(c)
    BY <1>4 DEF MasterSteps
  <2> QED
    BY <1>4, <2>1 DEF Advance
<1> QED
  BY <1>1, <1>2, <1>3, <1>4

\* The masters ask only when their last request was served.
LEMMA MastersStep ==
  ASSUME ControlInv, Masters
  PROVE  /\ ArbP!Masters
         /\ mc_phase' \in [Chan -> {"IDLE", "WAIT", "BEATS"}]
         /\ \A c \in Chan : mc_phase'[c] # "WAIT" => /\ mc_op_start'[c] = mc_op_start[c]
                                                     /\ ~ArbP!Pending(c)
<1> DEFINE R == {c \in Chan : mc_op_start'[c] # mc_op_start[c]}
<1>1. ASSUME NEW c \in Chan
      PROVE  /\ mc_phase'[c] \in {"IDLE", "WAIT", "BEATS"}
             /\ \/ mc_op_start'[c] = mc_op_start[c] /\ mc_op'[c] = mc_op[c]
                \/ /\ mc_phase[c] = "IDLE"
                   /\ mc_op_start'[c] = Flip(mc_op_start[c]) /\ mc_op'[c] \in Sdc!SdcOp
             /\ mc_phase'[c] # "WAIT" => /\ mc_op_start'[c] = mc_op_start[c]
                                         /\ mc_phase[c] # "WAIT" \/ Served(c)
  <2>1. PICK s \in MasterSteps(c) : /\ mc_op_start'[c] = s.op_start /\ mc_op'[c] = s.op
                                    /\ mc_phase'[c] = s.phase
    BY MasterStep
  <2>2. mc_phase[c] \in {"IDLE", "WAIT", "BEATS"}
    BY DEF ControlInv, MasterInv
  <2> QED
    BY <2>1, <2>2, MasterCases
<1>2. \A c \in Chan : mc_op_start[c] \in {0, 1} /\ (Served(c) <=> ~ArbP!Pending(c))
  BY Same DEF ControlInv, ArbP!IInv, ArbP!TypeOK, Served, ArbP!Pending, Bit
<1>3. \A c \in Chan : mc_phase'[c] # "WAIT" => /\ mc_op_start'[c] = mc_op_start[c]
                                               /\ ~ArbP!Pending(c)
  BY <1>1, <1>2 DEF ControlInv, MasterInv
<1>4. R \in SUBSET {c \in ArbP!Chan : ArbP!op_strobe(c) = mc_op_start[c]}
  BY <1>1, Same DEF ControlInv, MasterInv, ArbP!Pending
<1>5. mc_op_start' = [c \in ArbP!Chan |-> IF c \in R THEN ArbP!Flip(mc_op_start[c])
                                          ELSE mc_op_start[c]]
  BY <1>1, MasterStep, Same
<1>6. [c \in R |-> mc_op'[c]] \in [R -> Sdc!SdcOp]
  BY <1>1, <1>2 DEF Flip
<1>7. mc_op' = [c \in ArbP!Chan |-> IF c \in R THEN [d \in R |-> mc_op'[d]][c] ELSE mc_op[c]]
  <2>1. \A c \in Chan : c \notin R => mc_op'[c] = mc_op[c]
    BY <1>1, <1>2 DEF Flip
  <2> QED
    BY <2>1, MasterStep, Same
<1>8. ArbP!Masters
  BY <1>4, <1>5, <1>6, <1>7, Zenon DEF ArbP!Masters
<1>9. mc_phase' \in [Chan -> {"IDLE", "WAIT", "BEATS"}]
  BY <1>1, MasterStep
<1> QED
  BY <1>3, <1>8, <1>9

\* One edge of the system is a step of the arbitrator in its environment.
LEMMA ArbitratorStep ==
  ASSUME ControlInv, Next
  PROVE  ArbP!Next /\ ArbP!IInv'
<1>1. ArbP!Clk
  BY Same DEF Next, Arb!Clk, ArbP!Clk, Arb!Grant, ArbP!Grant, Arb!Wins, ArbP!Wins, Arb!Requests,
         ArbP!Requests, Arb!StrobeSeen, ArbP!StrobeSeen, Arb!BusyDone, ArbP!BusyDone, Arb!Hold,
         ArbP!Hold, Arb!arb_vars, ArbP!arb_vars, Arb!ParityShift, ArbP!ParityShift, Arb!Xor,
         ArbP!Xor, Arb!Flip, ArbP!Flip
<1>2. ArbP!Next
  BY <1>1, MastersStep, ControllerStep DEF Next, ArbP!Next, ArbP!Perform, ArbP!Other
<1>3. ArbP!IInv'
  BY <1>2, ArbP!StepInv, ChipAssumption, SomeOp DEF ControlInv, NChan
<1> QED
  BY <1>2, <1>3

-----------------------------------------------------------------------------
(* One edge keeps the invariant.                                           *)

\* The arbitrator's registers: a grant takes a new request; it happens only when
\* the controller has answered the last one.
LEMMA GrantFacts ==
  ASSUME ControlInv, ArbP!Next
  PROVE  /\ arb_op_start # strobe => /\ arb_state = "WAIT_STROBE"
                                     /\ UNCHANGED <<arb_state, arb_op_start, sdc_op>>
         /\ arb_op_start' # arb_op_start =>
              arb_state = "IDLE" /\ arb_state' = "WAIT_STROBE" /\ arb_op_start' # strobe
         /\ arb_op_start' = arb_op_start => sdc_op' = sdc_op
         /\ arb_op_start' \in Bit /\ arb_op_start \in Bit
         /\ arb_state' = "WAIT_STROBE" /\ arb_op_start' = arb_op_start =>
              arb_state = "WAIT_STROBE" /\ arb_op_start # strobe
         /\ arb_state' = "WAIT_BUSY" => \/ arb_state = "WAIT_STROBE" /\ arb_op_start = strobe
                                        \/ arb_state = "WAIT_BUSY" /\ busy_wait_counter > 0
         /\ arb_state' # "IDLE" /\ arb_op_start' = arb_op_start => arb_state # "IDLE"
<1>1. ArbP!Clk /\ arb_op_start \in Bit /\ strobe \in Bit
  BY Same DEF ArbP!Next, ArbP!Perform, ArbP!Other, ControlInv, ArbP!IInv, ArbP!TypeOK
<1>2. arb_op_start # strobe => arb_state = "WAIT_STROBE"
  BY DEF ControlInv, ArbP!IInv, ArbP!RequestIntact, ArbP!SdcAsked
<1>3. ASSUME NEW c \in ArbP!Chan, ArbP!Grant(c)
      PROVE  /\ arb_state = "IDLE" /\ arb_state' = "WAIT_STROBE"
             /\ arb_op_start' # strobe /\ arb_op_start' # arb_op_start /\ arb_op_start' \in Bit
  BY <1>1, <1>2, <1>3, Same DEF ArbP!Grant, Bit, Flip
<1>4. CASE ArbP!StrobeSeen
  BY <1>1, <1>2, <1>4 DEF ArbP!StrobeSeen
<1>5. CASE ArbP!BusyDone
  BY <1>1, <1>2, <1>5 DEF ArbP!BusyDone
<1>6. CASE ArbP!Hold
  BY <1>1, <1>2, <1>6 DEF ArbP!Hold, ArbP!arb_vars, Sdc!busy, ControlInv, SdcType
<1> QED
  BY <1>1, <1>2, <1>3, <1>4, <1>5, <1>6 DEF ArbP!Clk

\* What an edge of the controller does to the busy count, the state and the lock.
LEMMA SdcCases ==
  ASSUME ControlInv, Sdc!Clk
  PROVE  /\ sdc_state' \in {"STARTUP", "IDLE", "TERMINATE_BURST"}
         /\ busy_wait_counter' \in Nat /\ refresh_lock' \in Bit
         /\ sdc_state = "STARTUP" => /\ sdc_state' # "TERMINATE_BURST"
                                     /\ UNCHANGED <<busy_wait_counter, refresh_lock>>
                                     /\ ~Sdc!ReadWrite
         /\ sdc_state # "STARTUP" => sdc_state' # "STARTUP"
         /\ Left > 0 => /\ sdc_state # "STARTUP" => Left' = Left - 1 /\ sdc_state' = "IDLE"
                        /\ UNCHANGED refresh_lock /\ ~Sdc!ReadWrite
         /\ ~Sdc!ReadWrite => sdc_state' # "TERMINATE_BURST"
         /\ Sdc!ReadWrite => /\ Left' \in 1 .. 9
                             /\ sdc_op.wren = 0 => Left' >= 3
<1> USE DEF Sdc!Cmd, Sdc!Plain
<1>0. busy_wait_counter \in Nat /\ Left \in Nat /\ sdc_op \in Sdc!SdcOp /\ refresh_lock \in {0, 1}
  BY DEF ControlInv, SdcType, Left, Bit, ArbP!IInv, ArbP!TypeOK
<1>1. CASE sdc_state = "STARTUP"
  BY <1>0, <1>1, Zenon DEF Sdc!Clk, Sdc!StartupPrecharge, Sdc!StartupLmr, Sdc!StartupDone,
       Sdc!StartupStep, Sdc!StartupWait, Sdc!Activate, Sdc!PrechargeRow, Sdc!ReadWrite,
       Sdc!RefreshPrecharge, Sdc!Refresh, Sdc!IdleNop, Sdc!BusyCount, Sdc!TerminateBurst,
       Sdc!Ready, ControlInv, StrobePipe, Bit
<1>2. CASE sdc_state = "TERMINATE_BURST"
  <2>1. Sdc!TerminateBurst /\ ~Sdc!ReadWrite
    BY <1>2 DEF Sdc!Clk, Sdc!StartupPrecharge, Sdc!StartupLmr, Sdc!StartupDone,
       Sdc!StartupStep, Sdc!StartupWait, Sdc!Activate, Sdc!PrechargeRow, Sdc!ReadWrite,
       Sdc!RefreshPrecharge, Sdc!Refresh, Sdc!IdleNop, Sdc!BusyCount, Sdc!Ready
  <2> QED
    BY <1>0, <1>2, <2>1 DEF Sdc!TerminateBurst, Left, Bit
<1>3. CASE sdc_state = "IDLE" /\ busy_wait_counter > 0
  <2>1. Sdc!BusyCount /\ ~Sdc!ReadWrite
    BY <1>3 DEF Sdc!Clk, Sdc!StartupPrecharge, Sdc!StartupLmr, Sdc!StartupDone,
       Sdc!StartupStep, Sdc!StartupWait, Sdc!Activate, Sdc!PrechargeRow, Sdc!ReadWrite,
       Sdc!RefreshPrecharge, Sdc!Refresh, Sdc!IdleNop, Sdc!TerminateBurst, Sdc!Ready, Sdc!busy
  <2> QED
    BY <1>0, <1>3, <2>1 DEF Sdc!BusyCount, Left, Bit
<1>4. CASE sdc_state = "IDLE" /\ busy_wait_counter = 0
  <2>0. Left = 0
    BY <1>4 DEF Left
  <2>1. CASE Sdc!ReadWrite
    <3>1. sdc_op.wren \in {0, 1} /\ sdc_op.burst \in {0, 1}
      BY <1>0 DEF Sdc!SdcOp, Sdc!Bit
    <3>2. /\ busy_wait_counter' = Sdc!busy_wait_period
          /\ sdc_state' = IF sdc_op.burst = 1 THEN "IDLE" ELSE "TERMINATE_BURST"
          /\ refresh_lock' = refresh_lock
      BY <2>1 DEF Sdc!ReadWrite
    <3> QED
      BY <1>0, <1>4, <2>0, <2>1, <3>1, <3>2 DEF Sdc!busy_wait_period, Left, Bit
  <2>2. CASE ~Sdc!ReadWrite
    BY <1>0, <1>4, <2>0, <2>2, SdcAssumption DEF Sdc!Clk, Sdc!StartupPrecharge, Sdc!StartupLmr,
       Sdc!StartupDone, Sdc!StartupStep, Sdc!StartupWait, Sdc!Activate, Sdc!PrechargeRow,
       Sdc!RefreshPrecharge, Sdc!Refresh, Sdc!IdleNop, Sdc!BusyCount, Sdc!TerminateBurst,
       Sdc!busy, Sdc!RefreshUnlock, Bit
  <2> QED
    BY <2>1, <2>2
<1> QED
  BY <1>0, <1>1, <1>2, <1>3, <1>4 DEF ControlInv, SdcType

\* At a READ or WRITE the request becomes taken; the strobe follows a write at
\* once and a read through the two registers.
LEMMA TakesRequest ==
  ASSUME ControlInv, ArbP!Next, Sdc!ReadWrite
  PROVE  /\ arb_op_start # strobe /\ ~Taken /\ Taken'
         /\ arb_state = "WAIT_STROBE" /\ UNCHANGED <<arb_state, arb_op_start, sdc_op>>
         /\ sdc_state = "IDLE" /\ Left = 0 /\ refresh_lock = 0
         /\ IF sdc_op.wren = 1 THEN strobe_r1' = strobe_r2' /\ strobe' = strobe_r2'
            ELSE strobe_r1' = strobe /\ strobe' = strobe
         /\ strobe_r2' \in Bit
<1>1. Sdc!Ready /\ arb_op_start # strobe /\ refresh_lock = 0
  BY DEF Sdc!ReadWrite, Sdc!TakesOp
<1>2. /\ strobe_r2 = strobe /\ strobe_r1 = strobe /\ ~Taken
      /\ sdc_state = "IDLE" /\ Left = 0
  BY <1>1, ReadyFacts
<1>3. arb_state = "WAIT_STROBE" /\ UNCHANGED <<arb_state, arb_op_start, sdc_op>>
      /\ arb_op_start \in Bit
  BY <1>1, GrantFacts
<1>4. strobe_r2' = Flip(strobe_r2)
  BY Same DEF Sdc!ReadWrite
<1>5. strobe_r2' = arb_op_start /\ strobe_r2' \in Bit
  BY <1>1, <1>2, <1>3, <1>4 DEF ControlInv, SdcType, Bit, Flip
<1>6. IF sdc_op.wren = 1 THEN strobe_r1' = strobe_r2' /\ strobe' = strobe_r2'
      ELSE strobe_r1' = strobe /\ strobe' = strobe
  BY <1>2, Same DEF Sdc!ReadWrite
<1> QED
  BY <1>1, <1>2, <1>3, <1>5, <1>6 DEF Taken

\* The strobe pipeline.
LEMMA StrobePipeStep ==
  ASSUME ControlInv, ArbP!Next, Sdc!Clk
  PROVE  StrobePipe' /\ strobe' \in Bit /\ strobe_r1' \in Bit /\ strobe_r2' \in Bit
<1>0. Left \in Nat /\ strobe \in Bit /\ strobe_r1 \in Bit /\ strobe_r2 \in Bit
  BY DEF ControlInv, SdcType, Left
<1>1. CASE Sdc!ReadWrite
  <2>1. Left' \in 1 .. 9 /\ (sdc_op.wren = 0 => Left' >= 3)
        /\ sdc_state' # "STARTUP"
    BY <1>1, SdcCases, TakesRequest
  <2>2. sdc_op.wren \in {0, 1}
    BY DEF ControlInv, ArbP!IInv, ArbP!TypeOK, Sdc!SdcOp, Sdc!Bit
  <2>3. PICK m \in 1 .. 9 : m = Left'
    BY <2>1
  <2> QED
    BY <1>0, <1>1, <2>1, <2>2, <2>3, TakesRequest DEF StrobePipe
<1>2. CASE ~Sdc!ReadWrite
  <2>1. strobe' = strobe_r1 /\ strobe_r1' = strobe_r2 /\ strobe_r2' = strobe_r2
    BY <1>2, NotIssued
  <2>2. sdc_state' # "TERMINATE_BURST"
    BY <1>2, SdcCases
  <2>3. CASE strobe_r2 # strobe_r1 \/ strobe_r1 # strobe
    <3>1. arb_op_start # strobe /\ Taken /\ Left >= 2 /\ sdc_state # "STARTUP"
      BY <1>0, <2>3 DEF ControlInv, StrobePipe, Taken, Bit
    <3>2. Left' = Left - 1 /\ sdc_state' = "IDLE"
      BY <1>0, <3>1, SdcCases
    <3>3. arb_state = "WAIT_STROBE" /\ UNCHANGED <<arb_state, arb_op_start>>
      BY <3>1, GrantFacts
    <3>4. CASE strobe_r2 # strobe_r1
      <4>1. Left >= 3 /\ strobe_r1 = strobe
        BY <3>4 DEF ControlInv, StrobePipe
      <4> QED
        BY <1>0, <2>1, <3>1, <3>2, <3>3, <4>1 DEF StrobePipe, Taken
    <3>5. CASE strobe_r2 = strobe_r1
      BY <1>0, <2>1, <3>1, <3>2, <3>3, <3>5 DEF StrobePipe, Taken
    <3> QED
      BY <3>4, <3>5
  <2>4. CASE strobe_r2 = strobe_r1 /\ strobe_r1 = strobe
    <3>1. strobe_r2' = strobe' /\ strobe_r1' = strobe' /\ strobe' = strobe
      BY <2>1, <2>4
    <3>2. ASSUME arb_state' = "WAIT_STROBE", Taken' PROVE FALSE
      <4>1. arb_op_start' = strobe
        BY <3>1, <3>2 DEF Taken
      <4>2. arb_op_start' = arb_op_start
        BY <4>1, GrantFacts
      <4> QED
        BY <3>2, <4>1, <4>2, GrantFacts
    <3>3. ASSUME sdc_state' = "STARTUP"
          PROVE  Left' = 0 /\ (arb_state' # "IDLE" => ~Taken')
      <4>1. sdc_state = "STARTUP" /\ Left = 0 /\ busy_wait_counter' = busy_wait_counter
        BY <3>3, SdcCases DEF ControlInv, StrobePipe
      <4>2. Left' = 0
        BY <3>3, <4>1 DEF Left
      <4>3. ASSUME arb_state' # "IDLE", Taken' PROVE FALSE
        <5>1. arb_op_start' = strobe /\ arb_op_start' = arb_op_start
          BY <3>1, <4>3, GrantFacts DEF Taken
        <5>2. Taken /\ arb_state # "IDLE"
          BY <2>4, <4>3, <5>1, GrantFacts DEF Taken
        <5> QED
          BY <4>1, <5>2 DEF ControlInv, StrobePipe
      <4> QED
        BY <4>2, <4>3
    <3> QED
      BY <1>0, <2>2, <3>1, <3>2, <3>3 DEF StrobePipe
  <2> QED
    BY <2>3, <2>4
<1> QED
  BY <1>1, <1>2

\* What has been issued since the grant.
LEMMA IssueStep ==
  ASSUME ControlInv, ArbP!Next, Sdc!Clk, Chip!ChipClk, Record
  PROVE  Issue' /\ rw_count' \in Nat
<1>0. rw_count \in Nat
  BY DEF ControlInv, SdcType
<1>1. CASE Sdc!ReadWrite
  <2>1. Issued /\ rw' = sdc_op /\ rw_count' = rw_count + 1
    BY <1>1, IssuedOp DEF Record
  <2>2. Taken' /\ sdc_op' = sdc_op /\ rw_count = 0
    BY <1>1, TakesRequest DEF ControlInv, Issue
  <2> QED
    BY <2>1, <2>2 DEF Issue
<1>2. CASE ~Sdc!ReadWrite /\ arb_op_start' = arb_op_start
  <2>1. rw' = rw /\ rw_count' = rw_count /\ Taken' = Taken /\ sdc_op' = sdc_op
        /\ strobe' = strobe_r1
    BY <1>2, NotIssued, GrantFacts DEF Record, Taken
  <2>2. strobe' = strobe \/ strobe' = arb_op_start
    BY <2>1 DEF ControlInv, StrobePipe, Taken
  <2> QED
    BY <1>0, <1>2, <2>1, <2>2 DEF Issue, ControlInv
<1>3. CASE ~Sdc!ReadWrite /\ arb_op_start' # arb_op_start
  <2>1. arb_op_start = strobe /\ arb_op_start' # strobe
    BY <1>3, GrantFacts
  <2>2. strobe_r2 = strobe
    BY <2>1 DEF ControlInv, StrobePipe, Taken
  <2>3. ~Taken' /\ rw_count' = 0
    BY <1>3, <2>1, <2>2, NotIssued DEF Record, Taken
  <2> QED
    BY <2>3 DEF Issue
<1> QED
  BY <1>1, <1>2, <1>3

\* The row bank b has open, as bank_states says.
Kept(b) == IF bank_states[b].active = 1 THEN bank_states[b].row ELSE "closed"

\* In STARTUP the controller takes one of its four steps.
LEMMA StartupActions ==
  ASSUME Sdc!Clk, sdc_state = "STARTUP"
  PROVE  Sdc!StartupPrecharge \/ Sdc!StartupLmr \/ Sdc!StartupDone \/ Sdc!StartupWait
  BY Zenon DEF Sdc!Clk, Sdc!Activate, Sdc!PrechargeRow, Sdc!ReadWrite, Sdc!RefreshPrecharge,
       Sdc!Refresh, Sdc!IdleNop, Sdc!BusyCount, Sdc!TerminateBurst, Sdc!Ready

\* What they do to the counter and the clock enable.
LEMMA StartupClock ==
  ASSUME Sdc!Clk, sdc_state = "STARTUP"
  PROVE  /\ cycle_counter' = (cycle_counter + 1) % Sdc!CounterSize
         /\ cke' = IF Sdc!Started THEN 1 ELSE cke
         /\ Sdc!Started /\ cycle_counter % 8 = 7 => sdc_state' # "STARTUP"
         /\ Sdc!Started /\ cycle_counter % 8 = 1 => Sdc!StartupPrecharge
         /\ sdc_state' # "STARTUP" => Sdc!Started /\ cycle_counter % 8 = 7
  BY StartupActions DEF Sdc!StartupPrecharge, Sdc!StartupLmr, Sdc!StartupDone,
       Sdc!StartupStep, Sdc!StartupWait, Sdc!CountCycle

\* cycle_counter does not overflow in STARTUP.
LEMMA StartupCounts ==
  ASSUME ControlInv, Sdc!Clk, sdc_state = "STARTUP"
  PROVE  \E p \in Nat : /\ p = 2 ^ STARTUP_CYCLE_BITNR /\ p % 8 = 0 /\ p >= 8
                        /\ cycle_counter \in Nat /\ cycle_counter <= p + 7
                        /\ (Sdc!Started <=> cycle_counter >= p)
                        /\ cycle_counter = p + 7 => sdc_state' # "STARTUP"
                        /\ cycle_counter # p + 7 => cycle_counter' = cycle_counter + 1
<1>1. PICK p \in Nat : /\ p = 2 ^ STARTUP_CYCLE_BITNR /\ p % 8 = 0
                       /\ REFRESH_CYCLES < p /\ Sdc!CounterSize = 2 * p
  BY StartupLength
<1>2. p >= 8 /\ (p + 7) % 8 = 7
  BY <1>1, SdcAssumption
<1>3. cycle_counter \in Nat /\ cycle_counter <= p + 7
  BY <1>1 DEF ControlInv, PowerUp
<1>4. Sdc!Started <=> cycle_counter >= p
  BY <1>1 DEF Sdc!Started
<1>5. cycle_counter = p + 7 => sdc_state' # "STARTUP"
  <2>1. ASSUME cycle_counter = p + 7 PROVE Sdc!Started /\ cycle_counter % 8 = 7
    BY <1>2, <1>3, <1>4, <2>1
  <2> QED
    BY <2>1, StartupClock
<1>6. cycle_counter # p + 7 => (cycle_counter + 1) % (2 * p) = cycle_counter + 1
  BY <1>2, <1>3
<1>7. cycle_counter' = (cycle_counter + 1) % (2 * p)
  BY <1>1, StartupClock
<1> QED
  BY <1>1, <1>2, <1>3, <1>4, <1>5, <1>6, <1>7, Zenon

\* The clock enable and the chip's copy of it.
LEMMA PowerUpStep ==
  ASSUME ControlInv, Sdc!Clk, Chip!ChipClk
  PROVE  PowerUp'
<1>0. ckez' = cke
  BY DEF Chip!ChipClk
<1>1. CASE sdc_state = "STARTUP"
  <2>1. PICK p \in Nat : /\ p = 2 ^ STARTUP_CYCLE_BITNR /\ p % 8 = 0 /\ p >= 8
                         /\ cycle_counter \in Nat /\ cycle_counter <= p + 7
                         /\ (Sdc!Started <=> cycle_counter >= p)
                         /\ cycle_counter = p + 7 => sdc_state' # "STARTUP"
                         /\ cycle_counter # p + 7 => cycle_counter' = cycle_counter + 1
    BY <1>1, StartupCounts
  <2>2. cke = IF cycle_counter <= p THEN 0 ELSE 1
    BY <1>1, <2>1 DEF ControlInv, PowerUp
  <2>3. /\ cke' = IF Sdc!Started THEN 1 ELSE cke
        /\ sdc_state' # "STARTUP" => Sdc!Started /\ cycle_counter % 8 = 7
        /\ cycle_counter' = (cycle_counter + 1) % Sdc!CounterSize
    BY <1>1, StartupClock
  <2>4. cycle_counter' \in Nat
    <3>1. Sdc!CounterSize = 2 * p
      BY <2>1, StartupLength, Zenon
    <3>2. (cycle_counter + 1) % (2 * p) \in Nat
      BY <2>1
    <3> QED
      BY <2>3, <3>1, <3>2
  <2>5. sdc_state' = "STARTUP" => cycle_counter' = cycle_counter + 1 /\ cycle_counter' <= p + 7
    BY <2>1
  <2>6. cke' = IF sdc_state' = "STARTUP" /\ cycle_counter' <= p THEN 0 ELSE 1
    BY <2>1, <2>2, <2>3, <2>5
  <2>7. cke = IF sdc_state' = "STARTUP" /\ cycle_counter' <= p + 1 THEN 0 ELSE 1
    <3>1. sdc_state' # "STARTUP" => cycle_counter > p
      BY <2>1, <2>3
    <3> QED
      BY <2>1, <2>2, <2>5, <3>1
  <2> QED
    BY <1>0, <2>1, <2>4, <2>5, <2>6, <2>7, Zenon DEF PowerUp
<1>2. CASE sdc_state # "STARTUP"
  <2>1. sdc_state' # "STARTUP"
    BY <1>2, SdcCases
  <2>2. cke = 1 /\ cycle_counter \in Nat
    BY <1>2 DEF ControlInv, PowerUp
  <2>3. cke' = cke
    BY <1>2, Zenon DEF Sdc!Clk, Sdc!StartupPrecharge, Sdc!StartupLmr, Sdc!StartupDone,
         Sdc!StartupStep, Sdc!StartupWait, Sdc!Activate, Sdc!PrechargeRow, Sdc!ReadWrite,
         Sdc!RefreshPrecharge, Sdc!Refresh, Sdc!IdleNop, Sdc!BusyCount, Sdc!TerminateBurst
  <2>4. \/ cycle_counter' = (cycle_counter + 1) % Sdc!CounterSize
        \/ cycle_counter > REFRESH_CYCLES /\ cycle_counter' = cycle_counter - REFRESH_CYCLES
    BY Zenon DEF Sdc!Clk, Sdc!StartupPrecharge, Sdc!StartupLmr, Sdc!StartupDone,
         Sdc!StartupStep, Sdc!StartupWait, Sdc!Activate, Sdc!PrechargeRow, Sdc!ReadWrite,
         Sdc!RefreshPrecharge, Sdc!Refresh, Sdc!IdleNop, Sdc!BusyCount, Sdc!TerminateBurst,
         Sdc!CountCycle, Sdc!RefreshDue
  <2>5. cycle_counter' \in Nat
    <3>1. PICK p \in Nat : REFRESH_CYCLES < p /\ Sdc!CounterSize = 2 * p
      BY StartupLength
    <3> QED
      BY <2>2, <2>4, <3>1, SdcAssumption
  <2> QED
    BY <1>0, <2>1, <2>2, <2>3, <2>5, Zenon DEF PowerUp
<1> QED
  BY <1>1, <1>2

\* The rows once the chip runs: what the controller writes down is what it tells
\* the chip.
LEMMA RowsKept ==
  ASSUME ControlInv, Sdc!Clk, Chip!ChipEdge, ckez = 1
  PROVE  Rows' /\ bank_states' \in [Bank -> [active : Bit, row : Row]]
<1> USE DEF Sdc!Cmd, Sdc!Plain
<1>0. /\ bank_states \in [Bank -> [active : Bit, row : Row]]
      /\ \A b \in Bank : open'[b] = Kept(b)
      /\ sdc_op.bank \in Bank /\ sdc_op.row \in Row
  BY ChipOpens DEF ControlInv, SdcType, Rows, Kept, ArbP!IInv, ArbP!TypeOK, Sdc!SdcOp
<1>1. sdc_state = "STARTUP" \/ refresh_lock = 1 => \A b \in Bank : bank_states[b].active = 0
  BY DEF ControlInv, Rows
<1>2. ASSUME NEW name, command' = Sdc!Plain(name), bank_states' = bank_states,
             sdc_state' = "STARTUP" => sdc_state = "STARTUP",
             refresh_lock' = 1 => refresh_lock = 1
      PROVE  Rows'
  BY <1>0, <1>1, <1>2 DEF Rows, Opened, Kept
<1>3. CASE Sdc!StartupPrecharge
  BY <1>0, <1>1, <1>3 DEF Sdc!StartupPrecharge, Sdc!StartupStep, Rows, Opened
<1>4. CASE Sdc!StartupLmr
  BY <1>0, <1>2, <1>4 DEF Sdc!StartupLmr, Sdc!StartupStep
<1>5. CASE Sdc!StartupDone
  BY <1>0, <1>2, <1>5 DEF Sdc!StartupDone, Sdc!StartupStep
<1>6. CASE Sdc!StartupWait
  BY <1>0, <1>2, <1>6 DEF Sdc!StartupWait
<1>7. CASE Sdc!Activate
  <2>1. /\ command'.cmd = "ACTIVE" /\ command'.banks = {sdc_op.bank} /\ command'.row = sdc_op.row
        /\ bank_states' = [bank_states EXCEPT ![sdc_op.bank] = [active |-> 1, row |-> sdc_op.row]]
        /\ sdc_state' = "IDLE" /\ refresh_lock' = 0
    BY <1>7 DEF Sdc!Activate, Sdc!Ready, Sdc!TakesOp
  <2>2. bank_states' \in [Bank -> [active : Bit, row : Row]]
    BY <1>0, <2>1 DEF Bit
  <2>3. \A b \in Bank : Opened(b)' = Kept(b)'
    BY <1>0, <2>1 DEF Opened, Kept
  <2> QED
    BY <2>1, <2>2, <2>3 DEF Rows, Kept
<1>8. CASE Sdc!PrechargeRow
  <2>1. /\ command'.cmd = "PRECHARGE" /\ command'.banks = {sdc_op.bank}
        /\ bank_states' = [bank_states EXCEPT ![sdc_op.bank].active = 0]
        /\ sdc_state' = "IDLE" /\ refresh_lock' = 0
    BY <1>8 DEF Sdc!PrechargeRow, Sdc!Ready, Sdc!TakesOp
  <2>2. bank_states' \in [Bank -> [active : Bit, row : Row]]
    BY <1>0, <2>1 DEF Bit
  <2>3. \A b \in Bank : Opened(b)' = Kept(b)'
    BY <1>0, <2>1 DEF Opened, Kept
  <2> QED
    BY <2>1, <2>2, <2>3 DEF Rows, Kept
<1>9. CASE Sdc!ReadWrite
  <2>1. /\ command'.cmd \in {"READ", "WRITE"} /\ bank_states' = bank_states
        /\ sdc_state' # "STARTUP" /\ refresh_lock' = 0
    BY <1>9 DEF Sdc!ReadWrite, Sdc!TakesOp
  <2>2. \A b \in Bank : Opened(b)' = Kept(b)'
    BY <1>0, <2>1 DEF Opened, Kept
  <2> QED
    BY <1>0, <2>1, <2>2 DEF Rows, Kept
<1>10. CASE Sdc!RefreshPrecharge
  <2>1. /\ command'.cmd = "PRECHARGE" /\ command'.banks = Bank
        /\ bank_states' = [b \in Bank |-> [bank_states[b] EXCEPT !.active = 0]]
    BY <1>10 DEF Sdc!RefreshPrecharge, Sdc!AllInactive
  <2>2. bank_states' \in [Bank -> [active : Bit, row : Row]]
    BY <1>0, <2>1 DEF Bit
  <2>3. \A b \in Bank : bank_states'[b].active = 0
    BY <1>0, <2>1
  <2> QED
    BY <1>0, <2>1, <2>2, <2>3 DEF Rows, Opened
<1>11. CASE Sdc!Refresh
  BY <1>0, <1>2, <1>11 DEF Sdc!Refresh, Sdc!RefreshUnlock
<1>12. CASE Sdc!IdleNop
  BY <1>0, <1>2, <1>12 DEF Sdc!IdleNop
<1>13. CASE Sdc!BusyCount
  BY <1>0, <1>2, <1>13 DEF Sdc!BusyCount
<1>14. CASE Sdc!TerminateBurst
  BY <1>0, <1>2, <1>14 DEF Sdc!TerminateBurst
<1> QED
  BY <1>3, <1>4, <1>5, <1>6, <1>7, <1>8, <1>9, <1>10, <1>11, <1>12, <1>13, <1>14, Zenon DEF Sdc!Clk

\* The rows: the edge at which the chip starts brings it the PRECHARGE.
LEMMA RowsStep ==
  ASSUME ControlInv, Sdc!Clk, Chip!ChipClk
  PROVE  Rows' /\ bank_states' \in [Bank -> [active : Bit, row : Row]]
<1>1. CASE ckez = 1
  BY <1>1, RowsKept, ChipEdges
<1>2. CASE ckez # 1
  <2>1. sdc_state = "STARTUP"
    BY <1>2, ChipRuns
  <2>2. UNCHANGED bank_states /\ UNCHANGED refresh_lock
    BY <2>1, StartupActions DEF Sdc!StartupPrecharge, Sdc!StartupLmr, Sdc!StartupDone,
         Sdc!StartupStep, Sdc!StartupWait
  <2>3. \A b \in Bank : bank_states[b].active = 0
    BY <2>1 DEF ControlInv, Rows
  <2>4. ASSUME ckez' = 1
        PROVE  command'.cmd = "PRECHARGE" /\ command'.banks = Bank
    <3>1. PICK p \in Nat : /\ p = 2 ^ STARTUP_CYCLE_BITNR /\ p % 8 = 0 /\ p >= 8
                           /\ cycle_counter \in Nat /\ (Sdc!Started <=> cycle_counter >= p)
      BY <2>1, StartupCounts
    <3>2. cke = 1
      BY <2>4 DEF Chip!ChipClk
    <3>3. cycle_counter = p + 1
      BY <1>2, <2>1, <3>1, <3>2 DEF ControlInv, PowerUp
    <3>4. Sdc!Started /\ cycle_counter % 8 = 1
      BY <3>1, <3>3
    <3> QED
      BY <2>1, <3>4, StartupClock DEF Sdc!StartupPrecharge, Sdc!StartupStep, Sdc!Cmd
  <2>5. bank_states \in [Bank -> [active : Bit, row : Row]]
    BY DEF ControlInv, SdcType
  <2> QED
    BY <2>2, <2>3, <2>4, <2>5 DEF Rows, Opened
<1> QED
  BY <1>1, <1>2

\* One edge of the system keeps the invariant of the control.
LEMMA ControlStep == ASSUME ControlInv, [Next]_vars PROVE ControlInv'
<1>1. CASE Next
  <2>1. ArbP!Next /\ ArbP!IInv'
    BY <1>1, ArbitratorStep
  <2>2. Sdc!Clk /\ Chip!ChipClk /\ Masters /\ Record
    BY <1>1 DEF Next
  <2>3. StrobePipe' /\ Issue' /\ PowerUp' /\ Rows'
    BY <2>1, <2>2, StrobePipeStep, IssueStep, PowerUpStep, RowsStep
  <2>4. SdcType'
    BY <2>1, <2>2, StrobePipeStep, IssueStep, RowsStep, SdcCases DEF SdcType
  <2>5. MasterInv'
    <3>1. ASSUME NEW c \in Chan, mc_phase'[c] # "WAIT" PROVE ~ArbP!Pending(c)'
      <4>1. mc_op_start'[c] = mc_op_start[c] /\ ~ArbP!Pending(c)
        BY <2>2, <3>1, MastersStep
      <4> QED
        BY <2>1, <4>1, ArbP!IdleStep, ChipAssumption, SomeOp, Same DEF ControlInv, NChan
    <3> QED
      BY <2>2, <3>1, MastersStep DEF MasterInv
  <2> QED
    BY <2>1, <2>3, <2>4, <2>5 DEF ControlInv
<1>2. CASE UNCHANGED vars
  <2>1. /\ UNCHANGED <<arb_state, arb_chan, arb_op_start, sdc_op, arb_strobe, strobe_mux,
                       strobe_reg, mc_op_start, mc_op, mc_phase, strobe, strobe_r1, strobe_r2,
                       sdc_state, busy_wait_counter, refresh_lock, bank_states, command, open>>
        /\ UNCHANGED <<cke, ckez, cycle_counter>>
        /\ UNCHANGED <<rw, rw_count, performed>>
    BY <1>2 DEF vars, arb_vars, mc_vars, Sdc!vars, Chip!vars, history
  <2>2. UNCHANGED ArbP!vars
    BY <2>1 DEF ArbP!vars, ArbP!arb_vars, ArbP!mc_vars, ArbP!sdc_vars, Sdc!busy
  <2>3. ArbP!IInv'
    BY <2>2, ArbP!StepInv, ChipAssumption, SomeOp DEF ControlInv, NChan
  <2>4. \A c \in Chan : ArbP!Pending(c)' <=> ArbP!Pending(c)
    BY <2>1, Zenon DEF ArbP!Pending, ArbP!op_strobe, ArbP!Xor
  <2>5. SdcType' /\ StrobePipe' /\ Issue' /\ PowerUp' /\ Rows' /\ MasterInv'
    BY <2>1, <2>4 DEF ControlInv, SdcType, StrobePipe, Issue, PowerUp, Rows, MasterInv, Left, Taken, Opened
  <2> QED
    BY <2>3, <2>5 DEF ControlInv
<1> QED
  BY <1>1, <1>2

\* Every reachable state of the memory system satisfies the invariant.
THEOREM Invariance == Spec => []ControlInv
  BY ControlInit, ControlStep, PTL DEF Spec

\* A grant leads to one READ or WRITE command, whatever refreshes, row changes and
\* requests of other channels come in between.
THEOREM OneAccess == Spec => []OneCommandPerGrant
<1>1. ControlInv => OneCommandPerGrant
  <2> SUFFICES ASSUME ControlInv PROVE OneCommandPerGrant
    OBVIOUS
  <2>1. rw_count <= 1
    BY DEF ControlInv, Issue, Taken
  <2>2. arb_op_start = strobe => Taken
    BY DEF ControlInv, StrobePipe, Taken
  <2> QED
    BY <2>1, <2>2 DEF ControlInv, Issue, OneCommandPerGrant
<1> QED
  BY <1>1, Invariance, PTL

\* The masters and the controller implement the environment that
\* MemoryArbitrator leaves free: what is proved there holds in the system.
THEOREM ImplementsEnvironment == Spec => ArbitratorSpec
<1>1. Init => Arb!Init
  BY SomeOp, Same DEF Init, Arb!Init, Sdc!SdcInit, Sdc!busy, Chan
<1>2. ControlInv /\ [Next]_vars => [Arb!Next]_(Arb!vars)
  <2> SUFFICES ASSUME ControlInv, [Next]_vars PROVE [Arb!Next]_(Arb!vars)
    OBVIOUS
  <2>1. CASE Next
    <3>1. ArbP!Next
      BY <2>1, ArbitratorStep
    <3>2. ArbP!Masters <=> Arb!Masters
      BY Same DEF ArbP!Masters, Arb!Masters, Arb!Flip, ArbP!Flip
    <3>3. (ArbP!SdcPerform <=> Arb!SdcPerform) /\ (ArbP!SdcOther <=> Arb!SdcOther)
      BY DEF ArbP!SdcPerform, Arb!SdcPerform, ArbP!SdcOther, Arb!SdcOther, ArbP!Bit, Arb!Bit
    <3>4. Arb!Clk
      BY <2>1 DEF Next
    <3> QED
      BY <3>1, <3>2, <3>3, <3>4 DEF ArbP!Next, ArbP!Perform, ArbP!Other,
                                    Arb!Next, Arb!Perform, Arb!Other
  <2>2. CASE UNCHANGED vars
    BY <2>2 DEF vars, arb_vars, mc_vars, Sdc!vars, history, Sdc!busy,
                Arb!vars, Arb!arb_vars, Arb!mc_vars, Arb!sdc_vars
  <2> QED
    BY <2>1, <2>2
<1> QED
  BY <1>1, <1>2, Invariance, PTL DEF Spec, ArbitratorSpec, Arb!Spec

\* The memory system implements MemoryService: the chip performs each request of
\* each cache and of the DMA exactly once, as asked, and its master is told so in
\* the very step in which the controller toggles its strobe.
THEOREM ImplementsService == Spec => ArbP!ServiceSpec
<1>1. Init => ArbP!Init
  BY SomeOp, Same DEF Init, Arb!ArbInit, ArbP!Init, ArbP!ArbInit, Sdc!SdcInit, Sdc!busy, Chan, Bit
<1>2. ControlInv /\ [Next]_vars => [ArbP!Next]_(ArbP!vars)
  <2>1. ASSUME UNCHANGED vars PROVE UNCHANGED ArbP!vars
    BY <2>1 DEF vars, arb_vars, mc_vars, Sdc!vars, history, Sdc!busy,
                ArbP!vars, ArbP!arb_vars, ArbP!mc_vars, ArbP!sdc_vars
  <2> QED
    BY <2>1, ArbitratorStep
<1>3. ArbP!Spec => ArbP!ServiceSpec
  BY ArbP!ImplementsService, ChipAssumption, SomeOp DEF NChan
<1> QED
  BY <1>1, <1>2, <1>3, Invariance, PTL DEF Spec, ArbP!Spec

-----------------------------------------------------------------------------
(* The refresh.                                                            *)

\* The controller's waiting periods.
LEMMA Constants == /\ TRP_CYCLES \in Nat /\ TRCD_CYCLES \in Nat /\ TRFC_CYCLES \in Nat
                   /\ REFRESH_CYCLES \in Nat
  BY SdcAssumption

DelayBounded == /\ Left \in Nat /\ Delay \in Nat /\ Delay <= LongestDelay /\ Left <= Delay
                /\ Left = 0 /\ ~PostAccess => Delay <= 2 * TRP_CYCLES + TRCD_CYCLES + 13

\* The delay is bounded.
LEMMA DelayBound == ControlInv /\ LeftInv => DelayBounded
<1> SUFFICES ASSUME ControlInv, LeftInv PROVE DelayBounded
  OBVIOUS
<1>1. Left \in Nat
  BY DEF ControlInv, SdcType, Left
<1> QED
  BY <1>1, Constants DEF LeftInv, Delay, LongestDelay, DelayBounded

\* The same after an edge.
LEMMA DelayBoundNext == ControlInv' /\ LeftInv' => DelayBounded'
  BY DelayBound, PTL

\* Power-up.
LEMMA RefreshInit == Init => RefreshInv
  BY Constants, StartupLength DEF Init, Sdc!SdcInit, Arb!ArbInit, RefreshInv, LeftInv, Left, PostAccess, Bit

\* After an access the controller is ready once before the arbitrator is IDLE.
LEMMA PostAccessStep ==
  ASSUME ControlInv, ArbP!Next, Sdc!Clk
  PROVE  /\ Sdc!ReadWrite => ~PostAccess /\ PostAccess'
         /\ ~Sdc!ReadWrite => (PostAccess' <=> PostAccess /\ Left > 0)
<1>0. Left \in Nat
  BY DEF ControlInv, SdcType, Left
<1>1. CASE Sdc!ReadWrite
  BY <1>1, TakesRequest DEF PostAccess
<1>2. CASE ~Sdc!ReadWrite
  <2>1. strobe_r2' = strobe_r2
    BY <1>2, NotIssued
  <2>2. ASSUME PostAccess' PROVE PostAccess /\ Left > 0
    <3>1. arb_op_start' = arb_op_start
      <4>1. ASSUME arb_op_start' # arb_op_start PROVE FALSE
        <5>1. arb_op_start = strobe /\ arb_op_start' # strobe
          BY <4>1, GrantFacts
        <5>2. strobe_r2 = strobe
          BY <5>1 DEF ControlInv, StrobePipe, Taken
        <5> QED
          BY <2>1, <2>2, <5>1, <5>2, Zenon DEF PostAccess, Taken
      <4> QED
        BY <4>1
    <3>2. PostAccess
      BY <2>1, <2>2, <3>1, GrantFacts DEF PostAccess, Taken
    <3>3. arb_state' = "WAIT_STROBE" \/ arb_state' = "WAIT_BUSY"
      BY <1>0, <2>2, ArbP!StepInv, ChipAssumption, SomeOp
         DEF PostAccess, ControlInv, NChan, ArbP!IInv, ArbP!TypeOK
    <3>4. CASE arb_state = "WAIT_STROBE"
      BY <1>0, <3>2, <3>4 DEF PostAccess, ControlInv, StrobePipe
    <3>5. CASE arb_state # "WAIT_STROBE"
      <4>1. busy_wait_counter > 0
        BY <3>1, <3>3, <3>5, GrantFacts
      <4> QED
        BY <1>0, <3>2, <4>1 DEF Left, ControlInv, SdcType
    <3> QED
      BY <3>4, <3>5
  <2>3. ASSUME PostAccess, Left > 0 PROVE PostAccess'
    <3>1. arb_state # "IDLE" /\ Taken
      BY <2>3 DEF PostAccess
    <3>2. arb_op_start' = arb_op_start
      BY <3>1, GrantFacts
    <3>3. ASSUME arb_state' = "IDLE" PROVE FALSE
      <4>1. ArbP!BusyDone
        BY <3>1, <3>3, Zenon DEF ArbP!Next, ArbP!Perform, ArbP!Other, ArbP!Clk, ArbP!Grant,
                          ArbP!StrobeSeen, ArbP!Hold, ArbP!arb_vars
      <4>2. arb_state = "WAIT_BUSY" /\ busy_wait_counter = 0
        BY <4>1 DEF ArbP!BusyDone, Sdc!busy, ControlInv, SdcType
      <4> QED
        BY <2>3, <4>2 DEF Left, ControlInv, StrobePipe
    <3> QED
      BY <2>1, <3>1, <3>2, <3>3 DEF PostAccess, Taken
  <2> QED
    BY <1>2, <2>2, <2>3
<1> QED
  BY <1>1, <1>2

\* What the controller does at an edge, as the refresh sees it.
LEMMA SdcAction ==
  ASSUME ControlInv, Sdc!Clk
  PROVE  /\ sdc_state = "STARTUP" \/ Left > 0 \/ Sdc!Ready
         /\ Left > 0 /\ sdc_state # "STARTUP" => UNCHANGED bank_states
         /\ Sdc!Ready => \/ Sdc!Activate \/ Sdc!PrechargeRow \/ Sdc!ReadWrite
                         \/ Sdc!RefreshPrecharge \/ Sdc!Refresh \/ Sdc!IdleNop
         /\ Sdc!Refresh => sdc_state = "IDLE" /\ Left = 0
         /\ ~Sdc!Refresh => Sdc!CountCycle /\ command'.cmd # "REFRESH"
                            /\ (refresh_lock = 1 => refresh_lock' = 1)
         /\ refresh_lock' = 1 => refresh_lock = 1 \/ Sdc!RefreshPrecharge
<1> USE DEF Sdc!Cmd, Sdc!Plain
<1>0. busy_wait_counter \in Nat /\ sdc_state \in {"STARTUP", "IDLE", "TERMINATE_BURST"}
  BY DEF ControlInv, SdcType
<1>1. sdc_state = "STARTUP" \/ Left > 0 \/ Sdc!Ready
  BY <1>0 DEF Left, Sdc!Ready, Sdc!busy
<1>2. Left > 0 /\ sdc_state # "STARTUP" => UNCHANGED bank_states
  <2>1. Left > 0 /\ sdc_state # "STARTUP" => ~Sdc!Ready
    BY <1>0 DEF Left, Sdc!Ready, Sdc!busy
  <2> QED
    BY <2>1, Zenon DEF Sdc!Clk, Sdc!StartupPrecharge, Sdc!StartupLmr, Sdc!StartupDone,
         Sdc!StartupStep, Sdc!StartupWait, Sdc!Activate, Sdc!PrechargeRow, Sdc!ReadWrite,
         Sdc!RefreshPrecharge, Sdc!Refresh, Sdc!IdleNop, Sdc!BusyCount, Sdc!TerminateBurst
<1>3. Sdc!Ready => \/ Sdc!Activate \/ Sdc!PrechargeRow \/ Sdc!ReadWrite
                   \/ Sdc!RefreshPrecharge \/ Sdc!Refresh \/ Sdc!IdleNop
  BY DEF Sdc!Clk, Sdc!StartupPrecharge, Sdc!StartupLmr, Sdc!StartupDone, Sdc!StartupStep,
       Sdc!StartupWait, Sdc!BusyCount, Sdc!TerminateBurst, Sdc!Ready
<1>4. Sdc!Refresh => sdc_state = "IDLE" /\ Left = 0
  BY <1>0 DEF Sdc!Refresh, Sdc!Ready, Sdc!busy, Left
<1>5. ~Sdc!Refresh => Sdc!CountCycle /\ command'.cmd # "REFRESH"
                      /\ (refresh_lock = 1 => refresh_lock' = 1)
  BY DEF Sdc!Clk, Sdc!StartupPrecharge, Sdc!StartupLmr, Sdc!StartupDone,
       Sdc!StartupStep, Sdc!StartupWait, Sdc!Activate, Sdc!PrechargeRow, Sdc!ReadWrite,
       Sdc!RefreshPrecharge, Sdc!IdleNop, Sdc!BusyCount, Sdc!TerminateBurst
<1>6. refresh_lock' = 1 => refresh_lock = 1 \/ Sdc!RefreshPrecharge
  BY DEF Sdc!Clk, Sdc!StartupPrecharge, Sdc!StartupLmr, Sdc!StartupDone,
       Sdc!StartupStep, Sdc!StartupWait, Sdc!Activate, Sdc!PrechargeRow, Sdc!ReadWrite,
       Sdc!Refresh, Sdc!RefreshUnlock, Sdc!IdleNop, Sdc!BusyCount, Sdc!TerminateBurst
<1> QED
  BY <1>1, <1>2, <1>3, <1>4, <1>5, <1>6

\* The bound on the busy period.
LEMMA LeftStep ==
  ASSUME ControlInv, LeftInv, ArbP!Next, Sdc!Clk
  PROVE  LeftInv' /\ (sdc_state = "STARTUP" => Left' = 0)
<1>0. Left \in Nat /\ busy_wait_counter \in Nat
  BY DEF ControlInv, SdcType, Left
<1>1. CASE Sdc!ReadWrite
  <2>1. PostAccess' /\ Left' \in 1 .. 9 /\ sdc_state # "STARTUP"
    BY <1>1, PostAccessStep, SdcCases
  <2> QED
    BY <2>1 DEF LeftInv
<1>2. CASE ~Sdc!ReadWrite /\ sdc_state = "STARTUP"
  <2>1. Left' = 0
    BY <1>2, SdcCases DEF ControlInv, StrobePipe, Left
  <2> QED
    BY <2>1, Constants DEF LeftInv
<1>3. CASE ~Sdc!ReadWrite /\ sdc_state # "STARTUP" /\ Left > 0
  <2>1. Left' = Left - 1 /\ (PostAccess' <=> PostAccess)
    BY <1>3, SdcCases, PostAccessStep
  <2> QED
    BY <1>0, <1>3, <2>1, Constants DEF LeftInv
<1>4. CASE ~Sdc!ReadWrite /\ sdc_state # "STARTUP" /\ ~(Left > 0)
  <2>1. Sdc!Ready /\ ~PostAccess'
    BY <1>4, SdcAction, PostAccessStep
  <2>2. /\ sdc_state' = "IDLE"
        /\ busy_wait_counter' \in {TRCD_CYCLES, TRP_CYCLES, TRFC_CYCLES, 0}
    BY <1>4, <2>1, SdcAction, ReadyFacts DEF Sdc!Activate, Sdc!PrechargeRow, Sdc!RefreshPrecharge,
         Sdc!Refresh, Sdc!IdleNop
  <2>3. Left' = busy_wait_counter'
    <3>1. PICK n \in Nat : n = busy_wait_counter'
      BY SdcCases
    <3>2. sdc_state' # "TERMINATE_BURST"
      BY <2>2
    <3>3. Left' = n + 0
      BY <3>1, <3>2 DEF Left
    <3>4. n + 0 = n
      OBVIOUS
    <3> QED
      BY <3>1, <3>3, <3>4, Zenon
  <2> QED
    BY <1>4, <2>1, <2>2, <2>3, Constants DEF LeftInv
<1> QED
  BY <1>1, <1>2, <1>3, <1>4

\* A request stays with the controller until it is taken.
LEMMA AskedStep ==
  ASSUME ControlInv, ArbP!Next, Sdc!Clk, Asked, ~PostAccess, ~Sdc!ReadWrite
  PROVE  Asked' /\ sdc_op' = sdc_op
<1>1. ~Taken /\ UNCHANGED <<arb_op_start, sdc_op>>
  BY GrantFacts DEF Asked, PostAccess
<1>2. strobe_r1 = strobe
  BY <1>1 DEF ControlInv, StrobePipe
<1> QED
  BY <1>1, <1>2, NotIssued DEF Asked

\* While a refresh is due, every edge brings it closer.
LEMMA DelayStep ==
  ASSUME ControlInv, LeftInv, ArbP!Next, Sdc!Clk, sdc_state # "STARTUP",
         Sdc!RefreshDue, ~Sdc!Refresh
  PROVE  Delay' <= Delay - 1
<1>0. /\ Left \in Nat /\ Delay \in Nat /\ refresh_lock \in {0, 1} /\ refresh_lock' \in {0, 1}
      /\ sdc_op.bank \in Bank
      /\ bank_states \in [Bank -> [active : {0, 1}, row : Row]]
  BY DelayBound, SdcCases, Zenon DEF DelayBounded, ControlInv, SdcType, Bit, ArbP!IInv, ArbP!TypeOK,
                              Sdc!SdcOp
<1>1. CASE Sdc!ReadWrite
  <2>1. Left' \in 1 .. 9 /\ PostAccess' /\ ~PostAccess /\ Left = 0 /\ refresh_lock = 0
        /\ Asked /\ refresh_lock' = 0
    BY <1>1, SdcCases, PostAccessStep, TakesRequest, Zenon DEF Sdc!ReadWrite, Asked
  <2>2. BankOf.active = 1 /\ BankOf.row = sdc_op.row
    BY <1>1, Zenon DEF Sdc!ReadWrite, Sdc!RowHit, Sdc!cur_bank, BankOf
  <2>3. Delay = 11 + TRP_CYCLES
    BY <2>1, <2>2, Constants DEF Delay
  <2>4. PICK m \in Nat : m = Left' /\ m <= 9
    BY <2>1
  <2>5. Delay' = m + (1 + TRP_CYCLES)
    BY <2>1, <2>4 DEF Delay
  <2>6. m <= 9
    BY <2>4
  <2>7. m + (1 + TRP_CYCLES) <= Delay - 1
    BY <2>3, <2>6, Constants
  <2> QED
    BY <2>5, <2>7
<1>2. CASE Left > 0
  <2>1. /\ Left' = Left - 1 /\ refresh_lock' = refresh_lock /\ ~Sdc!ReadWrite
        /\ bank_states' = bank_states
    BY <1>2, SdcCases, SdcAction
  <2>2. PostAccess' <=> PostAccess
    BY <1>2, <2>1, PostAccessStep
  <2>3. Asked /\ ~PostAccess => Asked' /\ BankOf' = BankOf /\ sdc_op' = sdc_op
    BY <2>1, AskedStep DEF BankOf
  <2> QED
    BY <1>0, <2>1, <2>2, <2>3, Constants DEF Delay
<1>3. CASE ~Sdc!ReadWrite /\ ~(Left > 0)
  <2>1. Sdc!Ready /\ Left = 0 /\ ~PostAccess'
    BY <1>0, <1>3, SdcAction, PostAccessStep
  <2>2. Sdc!Activate \/ Sdc!PrechargeRow \/ Sdc!RefreshPrecharge
    BY <1>3, <2>1, SdcAction DEF Sdc!IdleNop
  <2>3. CASE Sdc!Activate
    <3>1. Asked /\ ~PostAccess /\ refresh_lock = 0 /\ refresh_lock' = 0 /\ BankOf.active = 0
      BY <2>1, <2>3, ReadyFacts DEF Sdc!Activate, Sdc!TakesOp, Sdc!cur_bank, BankOf, Asked, PostAccess
    <3>2. Asked' /\ sdc_op' = sdc_op
      BY <1>3, <3>1, AskedStep
    <3>3. BankOf'.active = 1 /\ BankOf'.row = sdc_op'.row
      BY <1>0, <2>3, <3>2 DEF Sdc!Activate, BankOf
    <3>4. Left' = TRCD_CYCLES
      BY <2>1, <2>3, ReadyFacts, Constants DEF Sdc!Activate, Left
    <3>5. Delay = 12 + TRP_CYCLES + TRCD_CYCLES
      BY <2>1, <3>1, Constants DEF Delay
    <3>6. Delay' = TRCD_CYCLES + 11 + TRP_CYCLES
      BY <2>1, <3>1, <3>2, <3>3, <3>4, Constants DEF Delay
    <3> QED
      BY <3>5, <3>6, Constants
  <2>4. CASE Sdc!PrechargeRow
    <3>1. Asked /\ ~PostAccess /\ refresh_lock = 0 /\ refresh_lock' = 0
          /\ BankOf.active = 1 /\ BankOf.row # sdc_op.row
      BY <2>1, <2>4, ReadyFacts DEF Sdc!PrechargeRow, Sdc!TakesOp, Sdc!RowHit, Sdc!cur_bank, BankOf,
                                    Asked, PostAccess
    <3>2. Asked' /\ sdc_op' = sdc_op
      BY <1>3, <3>1, AskedStep
    <3>3. BankOf'.active = 0
      BY <1>0, <2>4, <3>2 DEF Sdc!PrechargeRow, BankOf
    <3>4. Left' = TRP_CYCLES
      BY <2>1, <2>4, ReadyFacts, Constants DEF Sdc!PrechargeRow, Left
    <3>5. Delay = 13 + 2 * TRP_CYCLES + TRCD_CYCLES
      BY <2>1, <3>1, Constants DEF Delay
    <3>6. Delay' = TRP_CYCLES + 12 + TRP_CYCLES + TRCD_CYCLES
      BY <2>1, <3>1, <3>2, <3>3, <3>4, Constants DEF Delay
    <3> QED
      BY <3>5, <3>6, Constants
  <2>5. CASE Sdc!RefreshPrecharge
    <3>1. refresh_lock = 0
      BY <1>0, <2>5 DEF Sdc!RefreshPrecharge, ControlInv, Rows
    <3>2. refresh_lock' = 1 /\ Left' = TRP_CYCLES
      BY <2>1, <2>5, ReadyFacts, Constants DEF Sdc!RefreshPrecharge, Left
    <3>3. Delay' = TRP_CYCLES
      BY <3>2, Constants DEF Delay
    <3>4. Delay >= 1 + TRP_CYCLES
      BY <1>0, <3>1, Constants DEF Delay
    <3> QED
      BY <1>0, <3>3, <3>4, Constants
  <2> QED
    BY <2>2, <2>3, <2>4, <2>5
<1> QED
  BY <1>1, <1>2, <1>3

\* The refresh timer does not overflow.
LEMMA CounterStep ==
  ASSUME RefreshFits, ControlInv, ControlInv', RefreshInv, ArbP!Next, Sdc!Clk
  PROVE  /\ Sdc!Refresh => /\ cycle_counter' = cycle_counter - REFRESH_CYCLES
                           /\ cycle_counter > REFRESH_CYCLES
                           /\ cycle_counter < Sdc!CounterSize
         /\ ~Sdc!Refresh => cycle_counter' = cycle_counter + 1
<1>1. PICK p \in Nat : /\ p = 2 ^ STARTUP_CYCLE_BITNR /\ p % 8 = 0
                       /\ REFRESH_CYCLES < p /\ Sdc!CounterSize = 2 * p
  BY StartupLength
<1>2. cycle_counter \in Nat /\ Delay \in Nat /\ REFRESH_CYCLES \in Nat
  BY DelayBound, Constants DEF RefreshInv, DelayBounded
<1>3. CASE Sdc!Refresh
  <2>1. cycle_counter > REFRESH_CYCLES /\ cycle_counter' = cycle_counter - REFRESH_CYCLES
        /\ sdc_state # "STARTUP" /\ Sdc!RefreshDue
    BY <1>3 DEF Sdc!Refresh, Sdc!Ready, Sdc!RefreshDue
  <2>2. cycle_counter + Delay < 2 * p
    BY <1>1, <2>1 DEF RefreshInv
  <2>3. cycle_counter < 2 * p
    BY <1>2, <2>2
  <2> QED
    BY <1>1, <1>3, <2>1, <2>3
<1>4. CASE ~Sdc!Refresh
  <2>1. cycle_counter + 1 < 2 * p
    <3>1. CASE sdc_state = "STARTUP"
      <4>1. cycle_counter <= p + 7 /\ 2 * TRP_CYCLES + TRCD_CYCLES + 21 < p
        BY <1>1, <3>1 DEF RefreshInv, RefreshFits
      <4> QED
        BY <1>2, <4>1, Constants
    <3>2. CASE sdc_state # "STARTUP" /\ Sdc!RefreshDue
      <4>1. cycle_counter + Delay < 2 * p
        BY <1>1, <3>2 DEF RefreshInv
      <4>2. Delay' <= Delay - 1
        BY <1>4, <3>2, DelayStep DEF RefreshInv
      <4>3. PICK d \in Nat : d = Delay'
        BY LeftStep, DelayBoundNext DEF RefreshInv, DelayBounded
      <4>4. d <= Delay - 1
        BY <4>2, <4>3
      <4> QED
        BY <1>2, <4>1, <4>4
    <3>3. CASE sdc_state # "STARTUP" /\ ~Sdc!RefreshDue
      <4>1. ~(cycle_counter > REFRESH_CYCLES) /\ REFRESH_CYCLES < p
        BY <1>1, <3>3 DEF Sdc!RefreshDue
      <4> QED
        BY <1>2, <4>1
    <3> QED
      BY <3>1, <3>2, <3>3
  <2>2. cycle_counter' = (cycle_counter + 1) % (2 * p)
    BY <1>1, <1>4, SdcAction DEF Sdc!CountCycle
  <2>3. (cycle_counter + 1) % (2 * p) = cycle_counter + 1
    BY <1>2, <2>1
  <2> QED
    BY <1>4, <2>2, <2>3
<1> QED
  BY <1>3, <1>4

\* The start-up ends before cycle_counter overflows.
LEMMA StartupStep ==
  ASSUME ControlInv, ControlInv', RefreshInv, Sdc!Clk, sdc_state' = "STARTUP"
  PROVE  /\ sdc_state = "STARTUP" /\ refresh_lock' = 0
         /\ cycle_counter' <= 2 ^ STARTUP_CYCLE_BITNR + 7
<1>1. sdc_state = "STARTUP" /\ refresh_lock' = 0
  BY SdcCases DEF RefreshInv
<1> QED
  BY <1>1, Zenon DEF ControlInv, PowerUp

\* A due refresh stays ahead of the overflow of its timer.
LEMMA DueStep ==
  ASSUME RefreshFits, ControlInv, ControlInv', RefreshInv, ArbP!Next, Sdc!Clk,
         sdc_state' # "STARTUP", Sdc!RefreshDue'
  PROVE  cycle_counter' + Delay' < Sdc!CounterSize
<1>1. PICK p \in Nat : /\ p = 2 ^ STARTUP_CYCLE_BITNR
                       /\ REFRESH_CYCLES < p /\ Sdc!CounterSize = 2 * p
  BY StartupLength
<1>2. /\ cycle_counter \in Nat /\ Delay \in Nat /\ REFRESH_CYCLES \in Nat
      /\ LongestDelay \in Nat /\ LongestDelay <= REFRESH_CYCLES
  BY DelayBound, Constants DEF RefreshInv, DelayBounded, RefreshFits, LongestDelay
<1>3. PICK d \in Nat : d = Delay' /\ d <= LongestDelay
                       /\ (Left' = 0 /\ ~PostAccess' => d <= 2 * TRP_CYCLES + TRCD_CYCLES + 13)
  BY LeftStep, DelayBoundNext DEF RefreshInv, DelayBounded
<1>4. CASE Sdc!Refresh
  <2>1. cycle_counter' = cycle_counter - REFRESH_CYCLES /\ cycle_counter < 2 * p
    BY <1>1, <1>4, CounterStep
  <2>2. d <= LongestDelay
    BY <1>3
  <2>3. cycle_counter - REFRESH_CYCLES + d < 2 * p
    BY <1>2, <2>1, <2>2
  <2> QED
    BY <1>1, <1>3, <2>1, <2>3
<1>5. CASE ~Sdc!Refresh
  <2>1. cycle_counter' = cycle_counter + 1
    BY <1>5, CounterStep
  <2>2. cycle_counter + 1 + d < 2 * p
    <3>1. CASE sdc_state = "STARTUP"
      <4>1. Left' = 0 /\ ~PostAccess'
        BY <3>1, LeftStep, PostAccessStep, SdcCases, Zenon DEF RefreshInv, ControlInv, StrobePipe, PostAccess
      <4>2. d <= 2 * TRP_CYCLES + TRCD_CYCLES + 13
        BY <1>3, <4>1
      <4>3. cycle_counter <= p + 7 /\ 2 * TRP_CYCLES + TRCD_CYCLES + 21 < p
        BY <1>1, <3>1 DEF RefreshInv, RefreshFits
      <4> QED
        BY <1>2, <4>2, <4>3, Constants
    <3>2. CASE sdc_state # "STARTUP" /\ Sdc!RefreshDue
      <4>1. cycle_counter + Delay < 2 * p
        BY <1>1, <3>2 DEF RefreshInv
      <4>2. d <= Delay - 1
        BY <1>3, <1>5, <3>2, DelayStep DEF RefreshInv
      <4> QED
        BY <1>2, <4>1, <4>2
    <3>3. CASE sdc_state # "STARTUP" /\ ~Sdc!RefreshDue
      <4>1. ~(cycle_counter > REFRESH_CYCLES) /\ REFRESH_CYCLES < p /\ d <= LongestDelay
        BY <1>1, <1>3, <3>3 DEF Sdc!RefreshDue
      <4> QED
        BY <1>2, <4>1
    <3> QED
      BY <3>1, <3>2, <3>3
  <2> QED
    BY <1>1, <1>3, <2>1, <2>2
<1> QED
  BY <1>4, <1>5

\* One access is made while a refresh is due; then the lock is taken at the next
\* ready edge, before the arbitrator can grant another request.
LEMMA OverdueStep ==
  ASSUME RefreshFits, ControlInv, ControlInv', RefreshInv, Next, ArbP!Next
  PROVE  /\ overdue' \in Bit /\ (sdc_state' = "STARTUP" => overdue' = 0)
         /\ refresh_lock' = 1 => Sdc!RefreshDue'
         /\ overdue' = 1 => Sdc!RefreshDue' /\ (refresh_lock' = 1 \/ PostAccess')
<1>0. Sdc!Clk /\ Record /\ overdue \in {0, 1} /\ cycle_counter \in Nat /\ REFRESH_CYCLES \in Nat
  BY Constants DEF Next, RefreshInv, Bit
<1>1. CASE Sdc!Refresh
  <2>1. command'.cmd = "REFRESH" /\ refresh_lock' = 0
    BY <1>1, Zenon DEF Sdc!Refresh, Sdc!Plain, Sdc!Cmd, Sdc!RefreshUnlock
  <2>2. overdue' = 0
    BY <1>0, <2>1 DEF Record, Issued
  <2> QED
    BY <2>1, <2>2 DEF Bit
<1>2. CASE ~Sdc!Refresh
  <2>1. Sdc!RefreshDue => Sdc!RefreshDue'
    <3>1. cycle_counter' = cycle_counter + 1
      BY <1>0, <1>2, CounterStep
    <3> QED
      BY <1>0, <3>1 DEF Sdc!RefreshDue
  <2>2. command'.cmd # "REFRESH" /\ (refresh_lock = 1 => refresh_lock' = 1)
    BY <1>0, <1>2, SdcAction
  <2>3. refresh_lock' = 1 => Sdc!RefreshDue'
    <3>1. Sdc!RefreshPrecharge => Sdc!RefreshDue
      BY Zenon DEF Sdc!RefreshPrecharge
    <3> QED
      BY <1>0, <2>1, <3>1, SdcAction DEF RefreshInv
  <2>4. CASE Sdc!ReadWrite
    <3>1. refresh_lock = 0 /\ ~PostAccess /\ PostAccess' /\ sdc_state' # "STARTUP"
      BY <1>0, <2>4, TakesRequest, PostAccessStep, SdcCases
    <3>2. overdue = 0
      BY <1>0, <3>1 DEF RefreshInv
    <3>3. overdue' = IF Sdc!RefreshDue THEN 1 ELSE 0
      BY <1>0, <2>2, <2>4, <3>2, IssuedOp DEF Record, Next
    <3> QED
      BY <2>1, <2>3, <3>1, <3>3 DEF Bit
  <2>5. CASE ~Sdc!ReadWrite
    <3>1. overdue' = overdue
      BY <1>0, <2>2, <2>5, NotIssued DEF Record
    <3>2. sdc_state' = "STARTUP" => overdue' = 0
      BY <1>0, <3>1, SdcCases DEF RefreshInv
    <3>3. ASSUME overdue = 1 PROVE Sdc!RefreshDue' /\ (refresh_lock' = 1 \/ PostAccess')
      <4>1. Sdc!RefreshDue /\ (refresh_lock = 1 \/ PostAccess) /\ sdc_state # "STARTUP"
        BY <3>3 DEF RefreshInv
      <4>2. CASE refresh_lock = 1 \/ Left > 0
        BY <1>0, <2>1, <2>2, <2>5, <4>1, <4>2, PostAccessStep
      <4>3. CASE PostAccess /\ ~(Left > 0)
        <5>1. Sdc!Ready
          BY <1>0, <4>1, <4>3, SdcAction
        <5>2. ~Sdc!TakesOp
          BY <4>3, <5>1, ReadyFacts DEF PostAccess, Sdc!TakesOp
        <5>3. Sdc!RefreshPrecharge
          BY <1>0, <1>2, <2>5, <4>1, <5>1, <5>2, SdcAction
             DEF Sdc!Activate, Sdc!PrechargeRow, Sdc!IdleNop
        <5> QED
          BY <2>1, <4>1, <5>3, Zenon DEF Sdc!RefreshPrecharge
      <4> QED
        BY <4>1, <4>2, <4>3
    <3> QED
      BY <1>0, <2>3, <3>1, <3>2, <3>3 DEF Bit
  <2> QED
    BY <2>4, <2>5
<1> QED
  BY <1>1, <1>2

\* One edge keeps the invariant of the refresh.
LEMMA RefreshStep ==
  ASSUME RefreshFits, ControlInv, ControlInv', RefreshInv, [Next]_vars
  PROVE  RefreshInv'
<1>1. CASE Next
  <2>1. Sdc!Clk /\ ArbP!Next
    BY <1>1, ArbitratorStep DEF Next
  <2>2. cycle_counter' \in Nat
    BY <2>1, CounterStep, Constants DEF RefreshInv
  <2>3. LeftInv'
    BY <2>1, LeftStep DEF RefreshInv
  <2> QED
    BY <1>1, <2>1, <2>2, <2>3, StartupStep, DueStep, OverdueStep, Zenon DEF RefreshInv
<1>2. CASE UNCHANGED vars
  <2>1. UNCHANGED <<arb_state, arb_op_start, sdc_op, strobe, strobe_r2, sdc_state, cycle_counter,
                    busy_wait_counter, refresh_lock, bank_states, overdue>>
    BY <1>2, Zenon DEF vars, arb_vars, Sdc!vars, history
  <2>2. UNCHANGED <<Left, Delay, PostAccess, Sdc!RefreshDue>>
    BY <2>1, Zenon DEF Left, Delay, PostAccess, Taken, Asked, BankOf, Sdc!RefreshDue
  <2> QED
    BY <2>1, <2>2, Zenon DEF RefreshInv, LeftInv
<1> QED
  BY <1>1, <1>2

\* A due refresh is put off by at most one access, if the waiting periods fit into
\* the refresh period: requests cannot starve it, however dense they are, and its
\* timer does not overflow.
THEOREM RefreshPutOffOnce == ASSUME RefreshFits PROVE Spec => []RefreshNotStarved
<1>1. ControlInv /\ ControlInv' /\ RefreshInv /\ [Next]_vars => RefreshInv'
  BY RefreshStep
<1>2. RefreshInv => RefreshNotStarved
  BY DEF RefreshInv, RefreshNotStarved, Bit
<1> QED
  BY <1>1, <1>2, RefreshInit, Invariance, PTL DEF Spec
=============================================================================
