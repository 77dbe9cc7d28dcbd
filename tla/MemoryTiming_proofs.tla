------------------------- MODULE MemoryTiming_proofs -------------------------
(***************************************************************************)
(* Proofs about the commands that MemorySystem gives to the chip and about *)
(* when it gives them, for every number of banks and rows, every set of    *)
(* requests and every length of the controller's waiting periods that is   *)
(* at least what the chip asks for.                                        *)
(***************************************************************************)
EXTENDS MemorySystem_proofs

\* The waiting periods of the controller are long enough for the chip (1, 1 and 6
\* in sdram_controller.vhd).
LongEnough == TRCD_CYCLES >= 1 /\ TRP_CYCLES >= 1 /\ TRFC_CYCLES >= 4

\* The ages that the chip will compare with its times when the next command is
\* given: since, one edge later.
ActiveAge(b) == IF command.cmd = "ACTIVE" /\ b \in command.banks THEN 1
                ELSE Chip!Older(since.active[b])
PrechargeAge(b) == IF command.cmd = "PRECHARGE" /\ b \in command.banks /\ open[b] # "closed"
                   THEN 1 ELSE Chip!Older(since.precharge[b])
RefreshAge == IF command.cmd = "REFRESH" THEN 1 ELSE Chip!Older(since.refresh)
LmrAge == IF command.cmd = "LMR" THEN 1 ELSE Chip!Older(since.lmr)

AgeType == /\ since.active \in [Bank -> 0 .. 5] /\ since.precharge \in [Bank -> 0 .. 5]
           /\ since.refresh \in 0 .. 5 /\ since.lmr \in 1 .. 5

\* The row of bank b was opened for the request the controller is about to issue.
OpenedFor(b) == Asked /\ ~Taken /\ refresh_lock = 0 /\ sdc_op.bank = b
                /\ bank_states[b].row = sdc_op.row

\* A busy period ends when the chip is ready for what may come next.
Ages ==
  /\ \A b \in Bank : /\ PrechargeAge(b) + Left >= 2
                     /\ IF bank_states[b].active = 1
                        THEN \/ ActiveAge(b) + Left >= 4
                             \/ ActiveAge(b) + Left >= 2 /\ OpenedFor(b)
                        ELSE ActiveAge(b) + Left >= 5
  /\ RefreshAge + Left >= 5
  /\ LmrAge + Left >= 2

\* The start-up, of which p cycles pass before the chip's clock is enabled: the
\* banks, active at power-up, are closed by the command of cycle p + 2, and the
\* mode register is loaded by that of cycle p + 6.
Upto5(n) == IF n < 5 THEN n ELSE 5
StartupAt(p) ==
  /\ command.cmd \in {"INHIBIT", "NOP", "PRECHARGE", "LMR"}
  /\ command.cmd = "PRECHARGE" => cycle_counter = p + 2 /\ command.banks = Bank
  /\ command.cmd = "LMR" => cycle_counter = p + 6 /\ command.banks = {}
  /\ \A b \in Bank : /\ since.active[b] = Upto5(cycle_counter)
                     /\ cycle_counter >= p + 3 => since.precharge[b] >= 1
                     /\ cycle_counter >= p + 4 => since.precharge[b] >= 2
  /\ since.refresh = Upto5(cycle_counter)
  /\ cycle_counter >= p + 3 /\ cycle_counter <= p + 6 => since.lmr >= 2

TimingInv == /\ AgeType /\ ChipProtocol
             /\ sdc_state # "STARTUP" => Ages
             /\ sdc_state = "STARTUP" => StartupAt(2 ^ STARTUP_CYCLE_BITNR)

-----------------------------------------------------------------------------
\* The chip's times in cycles of 40/3 ns.
LEMMA Times == /\ Chip!tRAS = 4 /\ Chip!tRC = 5 /\ Chip!tRCD = 2 /\ Chip!tRFC = 5
               /\ Chip!tRP = 2 /\ Chip!tRRD = 2 /\ Chip!tWRm = 2 /\ Chip!tMRD = 2
               /\ Chip!MaxAge = 5
<1>1. /\ Chip!tRAS = 4 /\ Chip!tRC = 5 /\ Chip!tRCD = 2 /\ Chip!tRFC = 5
      /\ Chip!tRP = 2 /\ Chip!tRRD = 2 /\ Chip!tWRm = 2 /\ Chip!tMRD = 2
  BY DEF Chip!tRAS, Chip!tRC, Chip!tRCD, Chip!tRFC, Chip!tRP, Chip!tRRD, Chip!tWRm, Chip!tMRD,
         Chip!Cycles
<1>2. Chip!MaxAge = Chip!Max({4, 5, 2, 5, 2, 2, 2, 2})
  BY <1>1 DEF Chip!MaxAge
<1>3. Chip!Max({4, 5, 2, 5, 2, 2, 2, 2}) = 5
  BY DEF Chip!Max
<1> QED
  BY <1>1, <1>2, <1>3

\* An age after one more edge.
Grown(n) == IF n < 5 THEN n + 1 ELSE n

\* Ages are counted to 5.
LEMMA OlderGrown == \A n : Chip!Older(n) = Grown(n)
  BY Times DEF Chip!Older, Grown

\* An age grows up to 5.
LEMMA OlderRange == ASSUME NEW n \in 0 .. 5 PROVE Chip!Older(n) \in 1 .. 5
  BY Times DEF Chip!Older

AgesBounded == /\ \A b \in Bank : ActiveAge(b) \in 1 .. 5 /\ PrechargeAge(b) \in 1 .. 5
               /\ RefreshAge \in 1 .. 5 /\ LmrAge \in 1 .. 5

\* The ages are numbers up to 5.
LEMMA AgesBound == AgeType => AgesBounded
<1> SUFFICES ASSUME AgeType PROVE AgesBounded
  OBVIOUS
<1>1. ASSUME NEW b \in Bank
      PROVE  /\ Chip!Older(since.active[b]) \in 1 .. 5
             /\ Chip!Older(since.precharge[b]) \in 1 .. 5
  <2>1. since.active[b] \in 0 .. 5 /\ since.precharge[b] \in 0 .. 5
    BY DEF AgeType
  <2> QED
    BY <2>1, OlderRange
<1>2. Chip!Older(since.refresh) \in 1 .. 5 /\ Chip!Older(since.lmr) \in 1 .. 5
  BY OlderRange DEF AgeType
<1> QED
  BY <1>1, <1>2 DEF AgesBounded, ActiveAge, PrechargeAge, RefreshAge, LmrAge

\* One edge of the chip: since takes the ages.
LEMMA SinceStep ==
  ASSUME AgeType, Chip!ChipEdge
  PROVE  /\ AgeType'
         /\ \A b \in Bank : /\ since'.active[b] = ActiveAge(b)
                            /\ since'.precharge[b] = PrechargeAge(b)
         /\ since'.refresh = RefreshAge /\ since'.lmr = LmrAge
<1>1. /\ since'.active = Chip!Reset(since.active, IF command.cmd = "ACTIVE" THEN command.banks ELSE {})
      /\ since'.precharge = Chip!Reset(since.precharge,
                              IF command.cmd = "PRECHARGE"
                              THEN {b \in command.banks : open[b] # "closed"} ELSE {})
      /\ since'.refresh = RefreshAge /\ since'.lmr = LmrAge
  BY DEF Chip!ChipEdge, Chip!Closed, RefreshAge, LmrAge
<1>2. /\ since'.active = [b \in Bank |-> ActiveAge(b)]
      /\ since'.precharge = [b \in Bank |-> PrechargeAge(b)]
  BY <1>1 DEF Chip!Reset, ActiveAge, PrechargeAge
<1>3. \A n \in 1 .. 5 : n \in 0 .. 5
  OBVIOUS
<1>4. /\ [b \in Bank |-> ActiveAge(b)] \in [Bank -> 0 .. 5]
      /\ [b \in Bank |-> PrechargeAge(b)] \in [Bank -> 0 .. 5]
      /\ RefreshAge \in 0 .. 5 /\ LmrAge \in 1 .. 5
  BY <1>3, AgesBound DEF AgesBounded
<1>5. AgeType'
  BY <1>1, <1>2, <1>4, Zenon DEF AgeType
<1> QED
  BY <1>1, <1>2, <1>5, Zenon

\* The ages one edge later.
LEMMA AgesNext ==
  ASSUME AgeType, Chip!ChipEdge
  PROVE  /\ \A b \in Bank :
              /\ ActiveAge(b)' = IF command'.cmd = "ACTIVE" /\ b \in command'.banks THEN 1
                                 ELSE Grown(ActiveAge(b))
              /\ PrechargeAge(b)' = IF /\ command'.cmd = "PRECHARGE" /\ b \in command'.banks
                                       /\ open'[b] # "closed"
                                    THEN 1 ELSE Grown(PrechargeAge(b))
         /\ RefreshAge' = IF command'.cmd = "REFRESH" THEN 1 ELSE Grown(RefreshAge)
         /\ LmrAge' = IF command'.cmd = "LMR" THEN 1 ELSE Grown(LmrAge)
  BY SinceStep, OlderGrown DEF ActiveAge, PrechargeAge, RefreshAge, LmrAge

\* How ages grow.
LEMMA GrownFacts ==
  ASSUME NEW n \in 1 .. 5
  PROVE  /\ Grown(n) \in 1 .. 5 /\ (n >= 2 => Grown(n) >= 3) /\ (n >= 4 => Grown(n) = 5)
         /\ \A l, k \in Nat : k <= 5 /\ n + (l + 1) >= k => Grown(n) + l >= k
  BY DEF Grown

-----------------------------------------------------------------------------
(* A ready controller.                                                     *)

\* What the chip is ready for when the controller is.
LEMMA ReadyAges ==
  ASSUME ControlInv, TimingInv, Sdc!Ready
  PROVE  /\ \A b \in Bank : /\ PrechargeAge(b) \in 2 .. 5 /\ ActiveAge(b) \in 2 .. 5
                            /\ bank_states[b].active = 1 /\ ~OpenedFor(b) => ActiveAge(b) >= 4
                            /\ bank_states[b].active # 1 => ActiveAge(b) = 5
         /\ RefreshAge = 5 /\ LmrAge \in 2 .. 5
         /\ ~Sdc!TakesOp => \A b \in Bank : ~OpenedFor(b)
<1>1. Left = 0 /\ sdc_state = "IDLE"
  BY ReadyFacts
<1>2. AgesBounded
  BY AgesBound DEF TimingInv
<1>3. ASSUME NEW b \in Bank
      PROVE  /\ PrechargeAge(b) \in 2 .. 5 /\ ActiveAge(b) \in 2 .. 5
             /\ bank_states[b].active = 1 /\ ~OpenedFor(b) => ActiveAge(b) >= 4
             /\ bank_states[b].active # 1 => ActiveAge(b) = 5
  <2>1. PICK a \in 1 .. 5, p \in 1 .. 5 : a = ActiveAge(b) /\ p = PrechargeAge(b)
    BY <1>2 DEF AgesBounded
  <2>2. /\ p + 0 >= 2
        /\ IF bank_states[b].active = 1 THEN a + 0 >= 4 \/ (a + 0 >= 2 /\ OpenedFor(b))
           ELSE a + 0 >= 5
    BY <1>1, <2>1 DEF TimingInv, Ages
  <2> QED
    BY <2>1, <2>2
<1>4. RefreshAge = 5 /\ LmrAge \in 2 .. 5
  <2>1. PICK r \in 1 .. 5, m \in 1 .. 5 : r = RefreshAge /\ m = LmrAge
    BY <1>2 DEF AgesBounded
  <2>2. r + 0 >= 5 /\ m + 0 >= 2
    BY <1>1, <2>1 DEF TimingInv, Ages
  <2> QED
    BY <2>1, <2>2
<1> QED
  BY <1>3, <1>4 DEF OpenedFor, Asked, Sdc!TakesOp

\* The banks the chip will find open and closed.
LEMMA OpenNext ==
  ASSUME ControlInv, Chip!ChipEdge, ckez = 1
  PROVE  \A b \in Bank : /\ bank_states[b].active = 1 => open'[b] = bank_states[b].row
                         /\ bank_states[b].active = 1 <=> open'[b] # "closed"
  BY ChipOpens, ChipAssumption DEF ControlInv, Rows, SdcType, Chip!Closed

\* The chip accepts what the controller issues when it is ready.
LEMMA ReadyProtocol ==
  ASSUME ControlInv, TimingInv, Sdc!Clk, Chip!ChipEdge, Sdc!Ready
  PROVE  ChipProtocol'
<1> USE DEF Sdc!Cmd, Sdc!Plain, ChipProtocol, Chip!ActiveOk, Chip!ReadWriteOk, Chip!PrechargeOk,
        Chip!PrechargeMrdOk, Chip!RefreshOk, Chip!LmrOk
<1>0. ckez = 1
  BY ChipRuns DEF Sdc!Ready
<1>1. /\ \A b \in Bank : /\ since'.active[b] = ActiveAge(b)
                         /\ since'.precharge[b] = PrechargeAge(b)
      /\ since'.refresh = RefreshAge /\ since'.lmr = LmrAge
  BY SinceStep DEF TimingInv
<1>2. sdc_op.bank \in Bank
  BY DEF ControlInv, ArbP!IInv, ArbP!TypeOK, Sdc!SdcOp
<1>3. CASE Sdc!Activate
  <2>1. command'.cmd = "ACTIVE" /\ command'.banks = {sdc_op.bank}
        /\ bank_states[sdc_op.bank].active = 0
    BY <1>3 DEF Sdc!Activate, Sdc!cur_bank
  <2>2. open'[sdc_op.bank] = "closed" /\ since'.active[sdc_op.bank] = 5
        /\ since'.precharge[sdc_op.bank] \in 2 .. 5
        /\ (\A d \in Bank : since'.active[d] \in 2 .. 5)
        /\ since'.refresh = 5 /\ since'.lmr \in 2 .. 5
    BY <1>0, <1>1, <1>2, <2>1, ReadyAges, OpenNext
  <2> QED
    BY <2>1, <2>2, Times DEF Chip!Closed
<1>4. CASE Sdc!PrechargeRow
  <2>1. command'.cmd = "PRECHARGE" /\ command'.banks = {sdc_op.bank}
        /\ bank_states[sdc_op.bank].active = 1 /\ ~OpenedFor(sdc_op.bank)
    BY <1>4 DEF Sdc!PrechargeRow, Sdc!RowHit, Sdc!cur_bank, OpenedFor
  <2>2. since'.active[sdc_op.bank] \in 4 .. 5 /\ since'.lmr \in 2 .. 5
    BY <1>1, <1>2, <2>1, ReadyAges
  <2> QED
    BY <2>1, <2>2, Times
<1>5. CASE Sdc!ReadWrite
  <2>1. command'.cmd \in {"READ", "WRITE"} /\ command'.banks = {sdc_op.bank}
        /\ bank_states[sdc_op.bank].active = 1
    BY <1>5 DEF Sdc!ReadWrite, Sdc!cur_bank
  <2>2. open'[sdc_op.bank] # "closed" /\ since'.active[sdc_op.bank] \in 2 .. 5
    BY <1>0, <1>1, <1>2, <2>1, ReadyAges, OpenNext
  <2> QED
    BY <2>1, <2>2, Times DEF Chip!Closed
<1>6. CASE Sdc!RefreshPrecharge
  <2>1. command'.cmd = "PRECHARGE" /\ command'.banks = Bank /\ ~Sdc!TakesOp
    BY <1>6 DEF Sdc!RefreshPrecharge
  <2>2. /\ \A b \in Bank : open'[b] # "closed" => since'.active[b] \in 4 .. 5
        /\ since'.lmr \in 2 .. 5
    <3>1. \A b \in Bank : bank_states[b].active = 1 => ActiveAge(b) \in 4 .. 5
      BY <2>1, ReadyAges
    <3> QED
      BY <1>0, <1>1, <3>1, ReadyAges, OpenNext
  <2> QED
    BY <2>1, <2>2, Times DEF Chip!Closed
<1>7. CASE Sdc!Refresh
  <2>1. command'.cmd = "REFRESH" /\ \A b \in Bank : bank_states[b].active = 0
    BY <1>7 DEF Sdc!Refresh
  <2>2. /\ \A b \in Bank : open'[b] = "closed" /\ since'.precharge[b] \in 2 .. 5
        /\ since'.refresh = 5 /\ since'.lmr \in 2 .. 5
    BY <1>0, <1>1, <2>1, ReadyAges, OpenNext
  <2> QED
    BY <2>1, <2>2, Times DEF Chip!AllClosed, Chip!Closed
<1>8. CASE Sdc!IdleNop
  BY <1>8 DEF Sdc!IdleNop
<1> QED
  BY <1>3, <1>4, <1>5, <1>6, <1>7, <1>8, SdcAction, Zenon

-----------------------------------------------------------------------------
(* The ages after an edge.                                                 *)

\* The ages of bank b are as the invariant wants them, a edges after ACTIVE, p
\* after PRECHARGE, and l before the controller is ready.
BankAges(b, a, p, l) == /\ p + l >= 2
                        /\ IF bank_states[b].active = 1
                           THEN a + l >= 4 \/ (a + l >= 2 /\ OpenedFor(b))
                           ELSE a + l >= 5

\* The invariant from the ages of the banks.
LEMMA AgesFrom ==
  ASSUME NEW l \in Nat, l = Left',
         \A b \in Bank : (BankAges(b, ActiveAge(b), PrechargeAge(b), Left))',
         NEW r \in Nat, r = RefreshAge', r + l >= 5,
         NEW m \in Nat, m = LmrAge', m + l >= 2
  PROVE  Ages'
  BY Zenon DEF Ages, BankAges

\* While the controller is busy it issues nothing the chip times.
LEMMA BusyAges ==
  ASSUME ControlInv, TimingInv, ArbP!Next, Sdc!Clk, Chip!ChipEdge,
         Left > 0, sdc_state # "STARTUP"
  PROVE  Ages' /\ ChipProtocol'
<1>0. Left \in Nat /\ AgesBounded
  BY AgesBound DEF ControlInv, SdcType, Left, TimingInv
<1>1. command'.cmd \in {"NOP", "BURST_TERMINATE"}
  <2>1. ~Sdc!Ready
    BY <1>0, ReadyFacts
  <2>2. Sdc!BusyCount \/ Sdc!TerminateBurst
    BY <2>1, Zenon DEF Sdc!Clk, Sdc!StartupPrecharge, Sdc!StartupLmr, Sdc!StartupDone,
       Sdc!StartupStep, Sdc!StartupWait, Sdc!Activate, Sdc!PrechargeRow, Sdc!ReadWrite,
       Sdc!RefreshPrecharge, Sdc!Refresh, Sdc!IdleNop
  <2> QED
    BY <2>2 DEF Sdc!BusyCount, Sdc!TerminateBurst, Sdc!Plain, Sdc!Cmd
<1>2. ChipProtocol'
  BY <1>1 DEF ChipProtocol, Chip!ActiveOk, Chip!ReadWriteOk, Chip!PrechargeOk,
              Chip!PrechargeMrdOk, Chip!RefreshOk, Chip!LmrOk
<1>3. /\ sdc_state' = "IDLE" /\ Left' = Left - 1 /\ ~Sdc!ReadWrite
      /\ UNCHANGED <<refresh_lock, bank_states>>
  BY SdcCases, SdcAction
<1>4. PICK l \in Nat : l = Left' /\ Left = l + 1
  BY <1>0, <1>3
<1>5. \A b \in Bank : OpenedFor(b) => OpenedFor(b)'
  <2>1. ASSUME Asked, ~Taken PROVE Asked' /\ ~Taken' /\ sdc_op' = sdc_op
    <3>1. UNCHANGED <<arb_op_start, sdc_op>>
      BY <2>1, GrantFacts DEF Asked
    <3>2. strobe_r1 = strobe
      BY <2>1 DEF ControlInv, StrobePipe
    <3> QED
      BY <1>3, <2>1, <3>1, <3>2, NotIssued DEF Asked, Taken
  <2> QED
    BY <1>3, <2>1 DEF OpenedFor
<1>6. ASSUME NEW b \in Bank PROVE BankAges(b, ActiveAge(b), PrechargeAge(b), Left)'
  <2>1. PICK a \in 1 .. 5, p \in 1 .. 5 : a = ActiveAge(b) /\ p = PrechargeAge(b)
    BY <1>0 DEF AgesBounded
  <2>2. ActiveAge(b)' = Grown(a) /\ PrechargeAge(b)' = Grown(p)
    BY <1>1, <2>1, AgesNext DEF TimingInv
  <2>3. /\ p + (l + 1) >= 2
        /\ IF bank_states[b].active = 1 THEN a + (l + 1) >= 4 \/ (a + (l + 1) >= 2 /\ OpenedFor(b))
           ELSE a + (l + 1) >= 5
    BY <1>4, <2>1 DEF TimingInv, Ages
  <2>4. \A k \in Nat : /\ k <= 5 /\ a + (l + 1) >= k => Grown(a) + l >= k
                       /\ k <= 5 /\ p + (l + 1) >= k => Grown(p) + l >= k
    BY GrownFacts
  <2>5. Grown(p) + l >= 2
    BY <2>3, <2>4
  <2>6. IF bank_states[b].active = 1 THEN Grown(a) + l >= 4 \/ (Grown(a) + l >= 2 /\ OpenedFor(b))
        ELSE Grown(a) + l >= 5
    BY <2>3, <2>4
  <2> QED
    BY <1>3, <1>4, <1>5, <2>2, <2>5, <2>6 DEF BankAges
<1>7. PICK r \in 1 .. 5, m \in 1 .. 5 : r = RefreshAge /\ m = LmrAge
  BY <1>0 DEF AgesBounded
<1>8. RefreshAge' = Grown(r) /\ LmrAge' = Grown(m)
  BY <1>1, <1>7, AgesNext DEF TimingInv
<1>9. r + (l + 1) >= 5 /\ m + (l + 1) >= 2
  BY <1>4, <1>7, Zenon DEF TimingInv, Ages
<1>10. Grown(r) + l >= 5 /\ Grown(m) + l >= 2 /\ Grown(r) \in Nat /\ Grown(m) \in Nat
  BY <1>9, GrownFacts
<1>11. Ages'
  BY <1>3, <1>4, <1>6, <1>8, <1>10, AgesFrom
<1> QED
  BY <1>2, <1>11

\* A ready controller starts a busy period that covers what the chip needs.
LEMMA ReadyAgesStep ==
  ASSUME LongEnough, ControlInv, TimingInv, ArbP!Next, Sdc!Clk, Chip!ChipEdge, Sdc!Ready
  PROVE  Ages'
<1> USE DEF Sdc!Cmd, Sdc!Plain
<1>0. /\ sdc_state = "IDLE" /\ sdc_op.bank \in Bank
      /\ bank_states \in [Bank -> [active : Bit, row : Row]]
  BY ReadyFacts, Zenon DEF ControlInv, SdcType, ArbP!IInv, ArbP!TypeOK, Sdc!SdcOp
<1>1. PICK l \in Nat : /\ l = Left'
                       /\ Sdc!Activate \/ Sdc!PrechargeRow \/ Sdc!RefreshPrecharge
                          \/ Sdc!ReadWrite => l >= 1
                       /\ Sdc!Refresh => l >= 4
  <2>1. PICK n \in Nat : n = busy_wait_counter'
    BY SdcCases
  <2>2. CASE Sdc!ReadWrite
    <3>1. Left' \in 1 .. 9 /\ ~Sdc!Refresh
      BY <2>2, SdcCases, TakesRequest, Zenon DEF Sdc!ReadWrite, Sdc!Refresh
    <3> QED
      BY <3>1
  <2>3. CASE ~Sdc!ReadWrite
    <3>1. sdc_state' # "TERMINATE_BURST"
      BY <2>3, SdcCases
    <3>2. Left' = n + 0
      BY <2>1, <3>1 DEF Left
    <3>3. n + 0 = n
      OBVIOUS
    <3>4. /\ Sdc!Activate \/ Sdc!PrechargeRow \/ Sdc!RefreshPrecharge => n >= 1
          /\ Sdc!Refresh => n >= 4
      BY <2>1 DEF LongEnough, Sdc!Activate, Sdc!PrechargeRow, Sdc!RefreshPrecharge, Sdc!Refresh
    <3> QED
      BY <2>3, <3>2, <3>3, <3>4
  <2> QED
    BY <2>2, <2>3
<1>2. PICK r \in 1 .. 5, m \in 1 .. 5 : r = RefreshAge /\ m = LmrAge /\ r = 5 /\ m >= 2
  BY ReadyAges
<1>3. sdc_state' # "STARTUP" /\ command'.cmd # "LMR" /\ (command'.cmd = "REFRESH" => Sdc!Refresh)
  <2>1. Sdc!Activate \/ Sdc!PrechargeRow \/ Sdc!RefreshPrecharge => command'.cmd # "LMR"
    BY DEF Sdc!Activate, Sdc!PrechargeRow, Sdc!RefreshPrecharge
  <2>2. Sdc!ReadWrite \/ Sdc!Refresh \/ Sdc!IdleNop => command'.cmd # "LMR"
    BY DEF Sdc!ReadWrite, Sdc!Refresh, Sdc!IdleNop
  <2>3. command'.cmd = "REFRESH" => Sdc!Refresh
    BY SdcAction, Zenon
  <2>4. sdc_state' # "STARTUP"
    BY <1>0, SdcCases, Zenon
  <2> QED
    BY <1>0, <2>1, <2>2, <2>3, <2>4, SdcAction, Zenon
<1>4. LmrAge' = Grown(m) /\ Grown(m) \in Nat /\ Grown(m) + l >= 2
  <2>1. Grown(m) \in 1 .. 5 /\ Grown(m) >= 3
    BY <1>2, GrownFacts
  <2> QED
    BY <1>2, <1>3, <2>1, AgesNext DEF TimingInv
<1>5. PICK r1 \in Nat : r1 = RefreshAge' /\ r1 + l >= 5
  <2>1. Grown(r) = 5
    BY <1>2, GrownFacts
  <2>2. CASE command'.cmd = "REFRESH"
    <3>1. RefreshAge' = 1
      BY <2>2, AgesNext DEF TimingInv
    <3>2. l >= 4
      BY <1>1, <1>3, <2>2
    <3>3. 1 + l >= 5
      BY <3>2
    <3> QED
      BY <3>1, <3>3
  <2>3. CASE command'.cmd # "REFRESH"
    <3>1. RefreshAge' = 5
      BY <1>2, <2>1, <2>3, AgesNext DEF TimingInv
    <3>2. 5 + l >= 5
      OBVIOUS
    <3> QED
      BY <3>1, <3>2
  <2> QED
    BY <2>2, <2>3
<1>6. ASSUME NEW b \in Bank PROVE BankAges(b, ActiveAge(b), PrechargeAge(b), Left)'
  <2>1. PICK a \in 2 .. 5, p \in 2 .. 5 :
          /\ a = ActiveAge(b) /\ p = PrechargeAge(b)
          /\ bank_states[b].active = 1 /\ ~OpenedFor(b) => a >= 4
          /\ bank_states[b].active # 1 => a = 5
    BY ReadyAges, Zenon
  <2>2. Grown(a) \in 3 .. 5 /\ Grown(p) \in 3 .. 5 /\ (a >= 4 => Grown(a) = 5)
    <3>1. a \in 1 .. 5 /\ p \in 1 .. 5
      OBVIOUS
    <3> QED
      BY <3>1, GrownFacts
  <2>3. /\ ActiveAge(b)' = IF command'.cmd = "ACTIVE" /\ b \in command'.banks THEN 1 ELSE Grown(a)
        /\ PrechargeAge(b)' = IF command'.cmd = "PRECHARGE" /\ b \in command'.banks
                                 /\ open'[b] # "closed" THEN 1 ELSE Grown(p)
    BY <2>1, AgesNext DEF TimingInv
  <2>4. CASE Sdc!Activate
    <3>1. /\ command'.cmd = "ACTIVE" /\ command'.banks = {sdc_op.bank} /\ refresh_lock' = 0
          /\ bank_states' = [bank_states EXCEPT ![sdc_op.bank] = [active |-> 1, row |-> sdc_op.row]]
          /\ Asked /\ ~Sdc!ReadWrite
      BY <2>4, Zenon DEF Sdc!Activate, Sdc!TakesOp, Asked, Sdc!ReadWrite
    <3>2. PrechargeAge(b)' = Grown(p) /\ Grown(p) + l >= 2
      BY <2>2, <2>3, <3>1
    <3>3. CASE b = sdc_op.bank
      <4>1. ActiveAge(b)' = 1 /\ bank_states'[b].active = 1 /\ bank_states'[b].row = sdc_op.row
        BY <1>0, <2>3, <3>1, <3>3
      <4>2. ~Taken /\ ~PostAccess
        BY <3>1, ReadyFacts, Zenon DEF Asked, PostAccess
      <4>3. Asked' /\ sdc_op' = sdc_op
        BY <3>1, <4>2, AskedStep
      <4>4. ~Taken'
        BY <3>1, <4>2, GrantFacts, NotIssued, Zenon DEF Asked, Taken
      <4>5. OpenedFor(b)'
        BY <3>1, <3>3, <4>1, <4>3, <4>4, Zenon DEF OpenedFor
      <4>6. l >= 1
        BY <1>1, <2>4
      <4>7. 1 + l >= 2
        BY <4>6
      <4> QED
        BY <1>1, <3>2, <4>1, <4>5, <4>7 DEF BankAges
    <3>4. CASE b # sdc_op.bank
      <4>1. ActiveAge(b)' = Grown(a) /\ bank_states'[b] = bank_states[b] /\ ~OpenedFor(b)
        BY <1>0, <2>3, <3>1, <3>4, Zenon DEF OpenedFor
      <4>2. Grown(a) = 5 /\ 5 + l >= 4 /\ 5 + l >= 5
        BY <2>1, <2>2, <4>1
      <4> QED
        BY <1>1, <3>2, <4>1, <4>2, Zenon DEF BankAges
    <3> QED
      BY <3>3, <3>4
  <2>5. CASE Sdc!PrechargeRow \/ Sdc!RefreshPrecharge
    <3>1. /\ command'.cmd = "PRECHARGE" /\ ActiveAge(b)' = Grown(a)
          /\ PrechargeAge(b)' = 1 \/ PrechargeAge(b)' = Grown(p)
      BY <2>3, <2>5 DEF Sdc!PrechargeRow, Sdc!RefreshPrecharge
    <3>2. 1 + l >= 2 /\ Grown(p) + l >= 2 /\ 5 + l >= 4 /\ 5 + l >= 5
      <4>1. l >= 1
        BY <1>1, <2>5
      <4> QED
        BY <2>2, <4>1
    <3>3. bank_states[b].active = 1 => ~OpenedFor(b)
      BY <2>5, ReadyAges DEF Sdc!PrechargeRow, Sdc!RowHit, Sdc!cur_bank, OpenedFor,
                             Sdc!RefreshPrecharge
    <3>4. Grown(a) = 5
      BY <2>1, <2>2, <3>3
    <3> QED
      BY <1>1, <3>1, <3>2, <3>4, Zenon DEF BankAges
  <2>6. CASE Sdc!ReadWrite
    <3>1. /\ command'.cmd \in {"READ", "WRITE"} /\ bank_states' = bank_states
          /\ ActiveAge(b)' = Grown(a) /\ PrechargeAge(b)' = Grown(p)
      BY <2>3, <2>6, Zenon DEF Sdc!ReadWrite
    <3>2. /\ Grown(a) + l >= 4 /\ Grown(p) + l >= 2
          /\ bank_states[b].active # 1 => Grown(a) + l >= 5
      BY <1>1, <2>1, <2>2, <2>6
    <3> QED
      BY <1>1, <3>1, <3>2, Zenon DEF BankAges
  <2>7. CASE Sdc!Refresh \/ Sdc!IdleNop
    <3>1. /\ command'.cmd \in {"REFRESH", "NOP"} /\ bank_states' = bank_states /\ ~Sdc!TakesOp
          /\ ActiveAge(b)' = Grown(a) /\ PrechargeAge(b)' = Grown(p)
      BY <2>3, <2>7 DEF Sdc!Refresh, Sdc!IdleNop
    <3>2. Grown(a) = 5
      BY <2>1, <2>2, <3>1, ReadyAges
    <3>3. 5 + l >= 4 /\ Grown(p) + l >= 2 /\ 5 + l >= 5
      BY <2>2
    <3> QED
      BY <1>1, <3>1, <3>2, <3>3, Zenon DEF BankAges
  <2> QED
    BY <2>4, <2>5, <2>6, <2>7, SdcAction
<1> QED
  BY <1>1, <1>3, <1>4, <1>5, <1>6, AgesFrom, Zenon

-----------------------------------------------------------------------------
(* The start-up.                                                           *)

\* An edge at which the chip's clock does not run: time passes.
LEMMA SuspendedStep ==
  ASSUME AgeType, Chip!ChipSuspended
  PROVE  /\ AgeType'
         /\ \A b \in Bank : /\ since'.active[b] = Grown(since.active[b])
                            /\ since'.precharge[b] = Grown(since.precharge[b])
         /\ since'.refresh = Grown(since.refresh) /\ since'.lmr = since.lmr
<1>1. /\ since'.active = [b \in Bank |-> Chip!Older(since.active[b])]
      /\ since'.precharge = [b \in Bank |-> Chip!Older(since.precharge[b])]
      /\ since'.refresh = Chip!Older(since.refresh) /\ since'.lmr = since.lmr
  BY DEF Chip!ChipSuspended, Chip!Reset
<1>2. \A b \in Bank : since.active[b] \in 0 .. 5 /\ since.precharge[b] \in 0 .. 5
  BY DEF AgeType
<1>3. /\ \A b \in Bank : /\ Chip!Older(since.active[b]) \in 0 .. 5
                         /\ Chip!Older(since.precharge[b]) \in 0 .. 5
      /\ Chip!Older(since.refresh) \in 0 .. 5
  <2>1. \A n \in 0 .. 5 : Chip!Older(n) \in 0 .. 5
    BY OlderGrown DEF Grown
  <2> QED
    BY <1>2, <2>1, Zenon DEF AgeType
<1>4. AgeType'
  BY <1>1, <1>3 DEF AgeType
<1> QED
  BY <1>1, <1>4, OlderGrown, Zenon

\* The ages after an edge of the start-up.
LEMMA StartupSince ==
  ASSUME AgeType, Chip!ChipClk, NEW p, StartupAt(p), ckez = 1 \/ command.cmd # "PRECHARGE"
  PROVE  /\ AgeType'
         /\ \A b \in Bank : /\ since'.active[b] = Grown(since.active[b])
                            /\ since'.precharge[b] \in 1 .. 5
                            /\ command.cmd # "PRECHARGE" =>
                                 since'.precharge[b] = Grown(since.precharge[b])
         /\ since'.refresh = Grown(since.refresh)
         /\ ckez = 1 /\ command.cmd # "LMR" => since'.lmr = Grown(since.lmr)
<1>0. \A n \in 0 .. 5 : Grown(n) \in 1 .. 5
  BY DEF Grown
<1>1. CASE ckez = 1
  <2>1. Chip!ChipEdge
    BY <1>1, ChipEdges
  <2>2. /\ AgeType'
        /\ \A b \in Bank : /\ since'.active[b] = ActiveAge(b)
                           /\ since'.precharge[b] = PrechargeAge(b)
        /\ since'.refresh = RefreshAge /\ since'.lmr = LmrAge
    BY <2>1, SinceStep
  <2>3. command.cmd # "ACTIVE" /\ command.cmd # "REFRESH"
    BY DEF StartupAt
  <2>4. /\ \A b \in Bank : /\ ActiveAge(b) = Grown(since.active[b])
                           /\ command.cmd # "PRECHARGE" =>
                                PrechargeAge(b) = Grown(since.precharge[b])
        /\ RefreshAge = Grown(since.refresh)
        /\ command.cmd # "LMR" => LmrAge = Grown(since.lmr)
    BY <2>3, OlderGrown, Zenon DEF ActiveAge, PrechargeAge, RefreshAge, LmrAge
  <2>5. \A b \in Bank : PrechargeAge(b) \in 1 .. 5
    BY AgesBound DEF AgesBounded
  <2> QED
    BY <2>2, <2>4, <2>5, Zenon
<1>2. CASE ckez # 1
  <2>1. Chip!ChipSuspended
    BY <1>2 DEF Chip!ChipClk
  <2>2. \A b \in Bank : since.precharge[b] \in 0 .. 5
    BY DEF AgeType
  <2> QED
    BY <1>0, <1>2, <2>1, <2>2, SuspendedStep, Zenon
<1> QED
  BY <1>1, <1>2

\* The commands of the start-up, by the cycle.
LEMMA StartupCommands ==
  ASSUME ControlInv, Sdc!Clk, sdc_state = "STARTUP",
         NEW p \in Nat, p = 2 ^ STARTUP_CYCLE_BITNR, p % 8 = 0
  PROVE  /\ command'.cmd \in {"NOP", "PRECHARGE", "LMR"}
         /\ command'.cmd = "PRECHARGE" => cycle_counter = p + 1 /\ command'.banks = Bank
         /\ command'.cmd = "LMR" => cycle_counter = p + 5 /\ command'.banks = {}
         /\ sdc_state' # "STARTUP" => cycle_counter = p + 7 /\ command'.cmd = "NOP"
<1>1. /\ command'.cmd \in {"NOP", "PRECHARGE", "LMR"}
      /\ command'.cmd = "PRECHARGE" => /\ Sdc!Started /\ cycle_counter % 8 = 1
                                       /\ command'.banks = Bank
      /\ command'.cmd = "LMR" => /\ Sdc!Started /\ cycle_counter % 8 = 5
                                 /\ command'.banks = {}
      /\ sdc_state' # "STARTUP" => /\ Sdc!Started /\ cycle_counter % 8 = 7
                                   /\ command'.cmd = "NOP"
  BY StartupActions DEF Sdc!StartupPrecharge, Sdc!StartupLmr, Sdc!StartupDone,
       Sdc!StartupStep, Sdc!StartupWait, Sdc!Cmd, Sdc!Plain
<1>2. cycle_counter \in Nat /\ cycle_counter <= p + 7 /\ (Sdc!Started <=> cycle_counter >= p)
  BY DEF ControlInv, PowerUp, Sdc!Started
<1>3. Sdc!Started => /\ cycle_counter % 8 = 1 => cycle_counter = p + 1
                     /\ cycle_counter % 8 = 5 => cycle_counter = p + 5
                     /\ cycle_counter % 8 = 7 => cycle_counter = p + 7
  BY <1>2
<1> QED
  BY <1>1, <1>3, Zenon

\* The start-up sequence goes on.
LEMMA StartupGoesOn ==
  ASSUME ControlInv, TimingInv, Sdc!Clk, Chip!ChipClk, sdc_state = "STARTUP",
         NEW p \in Nat, p = 2 ^ STARTUP_CYCLE_BITNR, p % 8 = 0, p >= 8
  PROVE  /\ AgeType'
         /\ sdc_state' = "STARTUP" => /\ StartupAt(p)' /\ cycle_counter' = cycle_counter + 1
         /\ \A b \in Bank : since'.precharge[b] \in 1 .. 5
         /\ cycle_counter >= p => since'.refresh = 5 /\ \A b \in Bank : since'.active[b] = 5
<1>1. PICK n \in Nat : /\ n = cycle_counter /\ n <= p + 7
                       /\ ckez = IF n <= p + 1 THEN 0 ELSE 1
  BY DEF ControlInv, PowerUp
<1>2. StartupAt(p) /\ AgeType
  BY DEF TimingInv
<1>3. command.cmd = "PRECHARGE" => n = p + 2
  BY <1>1, <1>2 DEF StartupAt
<1>4. ckez = 1 \/ command.cmd # "PRECHARGE"
  BY <1>1, <1>3
<1>5. /\ AgeType'
      /\ \A b \in Bank : /\ since'.active[b] = Grown(since.active[b])
                         /\ since'.precharge[b] \in 1 .. 5
                         /\ command.cmd # "PRECHARGE" =>
                              since'.precharge[b] = Grown(since.precharge[b])
      /\ since'.refresh = Grown(since.refresh)
      /\ ckez = 1 /\ command.cmd # "LMR" => since'.lmr = Grown(since.lmr)
  BY <1>2, <1>4, StartupSince, Zenon
<1>6. Grown(Upto5(n)) = Upto5(n + 1) /\ (n >= p => Upto5(n + 1) = 5)
  BY DEF Grown, Upto5
<1>7. since'.refresh = Upto5(n + 1) /\ \A b \in Bank : since'.active[b] = Upto5(n + 1)
  BY <1>1, <1>2, <1>5, <1>6, Zenon DEF StartupAt
<1>8. ASSUME sdc_state' = "STARTUP"
      PROVE  StartupAt(p)' /\ cycle_counter' = cycle_counter + 1
  <2>1. cycle_counter' = n + 1
    BY <1>1, <1>8, StartupCounts
  <2>2. /\ command'.cmd \in {"NOP", "PRECHARGE", "LMR"}
        /\ command'.cmd = "PRECHARGE" => n = p + 1 /\ command'.banks = Bank
        /\ command'.cmd = "LMR" => n = p + 5 /\ command'.banks = {}
    BY <1>1, StartupCommands
  <2>3. /\ command'.cmd = "PRECHARGE" => n + 1 = p + 2
        /\ command'.cmd = "LMR" => n + 1 = p + 6
    BY <2>2
  <2>4. ASSUME NEW b \in Bank
        PROVE  /\ n + 1 >= p + 3 => since'.precharge[b] >= 1
               /\ n + 1 >= p + 4 => since'.precharge[b] >= 2
    <3>1. since'.precharge[b] \in 1 .. 5
      BY <1>5
    <3>2. ASSUME n >= p + 3 PROVE since'.precharge[b] >= 2
      <4>1. since'.precharge[b] = Grown(since.precharge[b])
        <5>1. command.cmd # "PRECHARGE"
          BY <1>3, <3>2
        <5> QED
          BY <1>5, <5>1, Zenon
      <4>2. since.precharge[b] \in 0 .. 5 /\ since.precharge[b] >= 1
        BY <1>1, <1>2, <3>2 DEF StartupAt, AgeType
      <4> QED
        BY <4>1, <4>2 DEF Grown
    <3> QED
      BY <3>1, <3>2
  <2>5. ASSUME n + 1 >= p + 3, n + 1 <= p + 6 PROVE since'.lmr >= 2
    <3>1. ckez = 1
      BY <1>1, <2>5
    <3>2. command.cmd # "LMR"
      <4>1. command.cmd = "LMR" => n = p + 6
        BY <1>1, <1>2, Zenon DEF StartupAt
      <4> QED
        BY <2>5, <4>1
    <3>3. since'.lmr = Grown(since.lmr) /\ since.lmr \in 1 .. 5
      BY <1>2, <1>5, <3>1, <3>2 DEF AgeType
    <3> QED
      BY <3>3 DEF Grown
  <2> QED
    BY <1>1, <1>7, <2>1, <2>2, <2>3, <2>4, <2>5, Zenon DEF StartupAt
<1> QED
  BY <1>1, <1>5, <1>6, <1>7, <1>8, Zenon

\* It keeps the chip's times, and leaves the controller ready.
LEMMA StartupAges ==
  ASSUME ControlInv, ControlInv', TimingInv, Sdc!Clk, Chip!ChipClk, sdc_state = "STARTUP"
  PROVE  TimingInv'
<1>1. PICK p \in Nat : /\ p = 2 ^ STARTUP_CYCLE_BITNR /\ p % 8 = 0 /\ p >= 8
                       /\ cycle_counter \in Nat
  BY StartupCounts
<1>2. /\ AgeType'
      /\ sdc_state' = "STARTUP" => StartupAt(p)' /\ cycle_counter' = cycle_counter + 1
      /\ \A b \in Bank : since'.precharge[b] \in 1 .. 5
      /\ cycle_counter >= p => since'.refresh = 5 /\ \A b \in Bank : since'.active[b] = 5
  BY <1>1, StartupGoesOn
<1>3. /\ command'.cmd \in {"NOP", "PRECHARGE", "LMR"}
      /\ command'.cmd = "PRECHARGE" => cycle_counter = p + 1 /\ command'.banks = Bank
      /\ command'.cmd = "LMR" => cycle_counter = p + 5 /\ command'.banks = {}
      /\ sdc_state' # "STARTUP" => cycle_counter = p + 7 /\ command'.cmd = "NOP"
  BY <1>1, StartupCommands
<1>4. since'.lmr \in 1 .. 5
  BY <1>2, Zenon DEF AgeType
<1>5. ASSUME sdc_state' # "STARTUP" PROVE Ages'
  <2>1. command'.cmd = "NOP" /\ cycle_counter >= p
    BY <1>1, <1>3, <1>5
  <2>2. /\ \A b \in Bank : ActiveAge(b)' = Grown(5) /\ PrechargeAge(b)' = Grown(since'.precharge[b])
        /\ RefreshAge' = Grown(5) /\ LmrAge' = Grown(since'.lmr)
    BY <1>2, <2>1, OlderGrown, Zenon DEF ActiveAge, PrechargeAge, RefreshAge, LmrAge
  <2>3. Left' \in Nat
    <3>1. PICK l \in Nat : l = busy_wait_counter'
      BY SdcCases, Zenon
    <3>2. sdc_state' # "TERMINATE_BURST"
      BY SdcCases, Zenon
    <3>3. Left' = l + 0
      BY <3>1, <3>2, Zenon DEF Left
    <3> QED
      BY <3>3
  <2>4. \A n \in 1 .. 5 : Grown(n) \in 2 .. 5
    BY DEF Grown
  <2>5. /\ RefreshAge' = 5 /\ LmrAge' \in 2 .. 5
        /\ \A b \in Bank : ActiveAge(b)' = 5 /\ PrechargeAge(b)' \in 2 .. 5
    <3>1. Grown(5) = 5
      BY DEF Grown
    <3> QED
      BY <1>2, <1>4, <2>2, <2>4, <3>1, Zenon
  <2>6. \A l \in Nat : /\ 5 + l >= 5 /\ 5 + l >= 4
                       /\ \A n \in 2 .. 5 : n + l >= 2
    OBVIOUS
  <2> QED
    BY <2>3, <2>5, <2>6, Zenon DEF Ages
<1>6. ASSUME command'.cmd = "PRECHARGE" PROVE Chip!PrechargeOk'
  <2>1. \A b \in Bank : since'.active[b] = 5
    BY <1>1, <1>2, <1>3, <1>6
  <2>2. command'.banks = Bank
    BY <1>3, <1>6
  <2> QED
    BY <2>1, <2>2, Times DEF Chip!PrechargeOk
<1>7. ASSUME command'.cmd = "LMR" PROVE Chip!LmrOk'
  <2>1. sdc_state' = "STARTUP" /\ cycle_counter' = p + 6
    BY <1>1, <1>2, <1>3, <1>7
  <2>2. ckez' = 1
    <3>1. ckez' = IF sdc_state' = "STARTUP" /\ cycle_counter' <= p + 1 THEN 0 ELSE 1
      BY <1>1, Zenon DEF ControlInv, PowerUp
    <3> QED
      BY <2>1, <3>1
  <2>3. \A b \in Bank : open'[b] = Chip!Closed
    <3>1. command'.banks = {} /\ 0 # 1
      BY <1>3, <1>7
    <3>2. \A b \in Bank : open'[b] = IF bank_states'[b].active = 1
                                     THEN bank_states'[b].row ELSE "closed"
      BY <2>2, <3>1, Zenon DEF ControlInv, Rows, Opened
    <3>3. \A b \in Bank : bank_states'[b].active = 0
      BY <2>1, Zenon DEF ControlInv, Rows
    <3> QED
      BY <3>1, <3>2, <3>3, Zenon DEF Chip!Closed
  <2>4. \A b \in Bank : since'.precharge[b] \in 1 .. 5 /\ since'.precharge[b] >= 2
    <3>1. p + 6 >= p + 4
      OBVIOUS
    <3> QED
      BY <1>2, <2>1, <3>1, Zenon DEF StartupAt
  <2>5. since'.lmr \in 1 .. 5 /\ since'.lmr >= 2 /\ since'.refresh = 5
    <3>1. p + 5 >= p /\ p + 6 >= p + 3 /\ p + 6 <= p + 6
      OBVIOUS
    <3> QED
      BY <1>2, <1>3, <1>4, <1>7, <2>1, <3>1, Zenon DEF StartupAt
  <2> QED
    BY <2>3, <2>4, <2>5, Times DEF Chip!LmrOk, Chip!AllClosed
<1>8. ChipProtocol'
  <2>1. sdc_state' # "STARTUP" => command'.cmd # "PRECHARGE"
    BY <1>3
  <2>2. command'.cmd \notin {"ACTIVE", "READ", "WRITE", "REFRESH"}
    BY <1>3
  <2> QED
    BY <1>6, <1>7, <2>1, <2>2, Zenon DEF ChipProtocol, Chip!ActiveOk, Chip!ReadWriteOk,
         Chip!PrechargeOk, Chip!PrechargeMrdOk, Chip!RefreshOk, Chip!LmrOk
<1> QED
  BY <1>1, <1>2, <1>5, <1>8, Zenon DEF TimingInv

-----------------------------------------------------------------------------
(* The theorem.                                                            *)

\* The chip is switched on with its banks active and its times at zero.
LEMMA TimingInit == Init => TimingInv
<1> SUFFICES ASSUME Init PROVE TimingInv
  OBVIOUS
<1>1. command.cmd = "INHIBIT" /\ sdc_state = "STARTUP" /\ cycle_counter = 0
  BY DEF Init, Sdc!SdcInit, Sdc!Plain, Sdc!Cmd
<1>2. /\ since.active = [b \in Bank |-> 0] /\ since.precharge = [b \in Bank |-> 0]
      /\ since.refresh = 0 /\ since.lmr = 1
  BY Zenon DEF Init, Chip!ChipInit, Chip!Never
<1>3. AgeType
  BY <1>2 DEF AgeType
<1>4. PICK p \in Nat : p = 2 ^ STARTUP_CYCLE_BITNR
  BY StartupLength
<1>5. StartupAt(p)
  BY <1>1, <1>2, <1>4 DEF StartupAt, Upto5
<1>6. ChipProtocol
  BY <1>1, Zenon DEF ChipProtocol, Chip!ActiveOk, Chip!ReadWriteOk, Chip!PrechargeOk,
              Chip!PrechargeMrdOk, Chip!RefreshOk, Chip!LmrOk
<1> QED
  BY <1>1, <1>3, <1>4, <1>5, <1>6, Zenon DEF TimingInv

\* Every edge preserves the invariant.
LEMMA TimingStep ==
  ASSUME LongEnough, ControlInv, ControlInv', TimingInv, [Next]_vars
  PROVE  TimingInv'
<1>1. CASE Next
  <2>1. ArbP!Next /\ Sdc!Clk /\ Chip!ChipClk
    BY <1>1, ArbitratorStep DEF Next
  <2>2. CASE sdc_state = "STARTUP"
    BY <2>1, <2>2, StartupAges
  <2>3. CASE sdc_state # "STARTUP"
    <3>1. Chip!ChipEdge
      BY <2>1, <2>3, ChipRuns, ChipEdges
    <3>2. AgeType'
      BY <3>1, SinceStep DEF TimingInv
    <3>3. sdc_state' # "STARTUP"
      BY <2>1, <2>3, SdcCases
    <3>4. CASE Sdc!Ready
      BY <2>1, <3>1, <3>2, <3>3, <3>4, ReadyAgesStep, ReadyProtocol, Zenon DEF TimingInv
    <3>5. CASE Left > 0
      BY <2>1, <2>3, <3>1, <3>2, <3>3, <3>5, BusyAges, Zenon DEF TimingInv
    <3> QED
      BY <2>1, <2>3, <3>4, <3>5, SdcAction
  <2> QED
    BY <2>2, <2>3
<1>2. CASE UNCHANGED vars
  <2>1. /\ UNCHANGED <<arb_op_start, sdc_op, strobe_r2, strobe>>
        /\ UNCHANGED <<sdc_state, busy_wait_counter, refresh_lock, bank_states, cycle_counter>>
        /\ UNCHANGED <<command, open, since>>
    BY <1>2, Zenon DEF vars, Sdc!vars, Chip!vars, arb_vars
  <2>2. AgeType'
    BY <2>1, Zenon DEF TimingInv, AgeType
  <2>3. /\ \A b : ActiveAge(b)' = ActiveAge(b) /\ PrechargeAge(b)' = PrechargeAge(b)
        /\ \A b : OpenedFor(b)' <=> OpenedFor(b)
        /\ RefreshAge' = RefreshAge /\ LmrAge' = LmrAge /\ Left' = Left
    BY <2>1, Zenon DEF ActiveAge, PrechargeAge, RefreshAge, LmrAge, OpenedFor, Asked, Taken, Left
  <2>4. /\ sdc_state' # "STARTUP" => Ages'
        /\ sdc_state' = "STARTUP" => StartupAt(2 ^ STARTUP_CYCLE_BITNR)'
    BY <2>1, <2>3, Zenon DEF TimingInv, Ages, StartupAt
  <2>5. ChipProtocol'
    BY <2>1, Zenon DEF TimingInv, ChipProtocol, Chip!ActiveOk, Chip!ReadWriteOk, Chip!PrechargeOk,
         Chip!PrechargeMrdOk, Chip!RefreshOk, Chip!LmrOk, Chip!AllClosed
  <2> QED
    BY <2>2, <2>4, <2>5, Zenon DEF TimingInv
<1> QED
  BY <1>1, <1>2

\* From power-up, with every bank of the chip active and its clock held, no
\* assertion of its simulation model about rows and times fires, whatever the
\* masters ask for and however refreshes and row changes come between; only tMRD
\* before the PRECHARGE of STARTUP is left out (ChipProtocol).
THEOREM ProtocolKept == ASSUME LongEnough PROVE Spec => []ChipProtocol
<1>1. ControlInv /\ ControlInv' /\ TimingInv /\ [Next]_vars => TimingInv'
  BY TimingStep
<1>2. TimingInv => ChipProtocol
  BY DEF TimingInv
<1> QED
  BY <1>1, <1>2, TimingInit, Invariance, PTL DEF Spec
=============================================================================
