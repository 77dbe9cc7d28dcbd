-------------------------- MODULE MemoryData_proofs --------------------------
(***************************************************************************)
(* Proofs about what crosses the data bus of MemorySystem, for every       *)
(* number of banks and rows, every set of requests and all waiting periods *)
(* of the controller.                                                      *)
(***************************************************************************)
EXTENDS MemorySystem_proofs

(* The data bus.  From the edge that issues an access until the arbitrator *)
(* is IDLE again, the number k of edges since then determines what the     *)
(* controller, the chip and the master of the granted channel are doing.   *)

\* Edges from the access o to a ready controller.
Length(o) == IF o.wren = 0 THEN (IF o.burst = 1 THEN 9 ELSE 3)
             ELSE (IF o.burst = 1 THEN 7 ELSE 1)

\* Halfword k of the access o.
Halfword(o, dir, k) == [dir |-> dir, bank |-> o.bank, row |-> o.row, beat |-> k]

\* The controller k edges after it has issued o.
CommandAt(o, k) ==
  /\ sdc_state = "TERMINATE_BURST" <=> k = 0 /\ o.burst = 0
  /\ k = 0 => /\ command.cmd = IF o.wren = 1 THEN "WRITE" ELSE "READ"
              /\ command.banks = {o.bank} /\ open[o.bank] = o.row
  /\ k > 0 => command.cmd = IF k = 1 /\ o.burst = 0 THEN "BURST_TERMINATE" ELSE "NOP"
  /\ dqm_on_counter = IF o.burst = 1 THEN (IF k < 8 THEN 8 - k ELSE 0)
                      ELSE (IF k = 0 THEN 1 ELSE 0)
  /\ strobe_r1 = arb_op_start <=> o.wren = 1 \/ k >= 1
  /\ strobe = arb_op_start <=> o.wren = 1 \/ k >= 2

\* The chip during a write: it takes halfword k in the k-th cycle after the WRITE.
WriteAt(o, k) == /\ dq = Chip!HighZ /\ read_cmd.dir # "read"
                 /\ burst = IF k = 0 THEN Chip!NoBurst ELSE Halfword(o, "write", k)

\* The chip during a read: halfword k is on the bus k + 2 cycles after the READ.
ReadAt(o, k) ==
  /\ dq = IF k < 2 \/ (o.burst = 0 /\ k = 3) THEN Chip!HighZ ELSE Halfword(o, "read", k - 2)
  /\ burst = IF k < 2 \/ k = Length(o) THEN Chip!NoBurst ELSE Halfword(o, "read", k - 1)
  /\ k >= 1 => (dqm_reg1 <=> IF o.burst = 1 THEN k <= 8 ELSE k = 1)
  /\ k = 0 => read_cmd.dir # "read"
  /\ k = 1 => read_cmd = Halfword(o, "read", 0)
  /\ k >= 2 => read_cmd = IF k = 2 /\ o.burst = 0 THEN [dir |-> "stop", banks |-> Bank]
                          ELSE Chip!NoBurst

\* The master of the granted channel.
MasterAt(c, o, k) ==
  /\ mc_op[c] = o
  /\ mc_phase[c] = IF k = 0 \/ (o.wren = 0 /\ k <= 2) THEN "WAIT"
                   ELSE IF o.burst = 0 \/ (o.wren = 1 /\ k = 7) THEN "IDLE" ELSE "BEATS"
  /\ mc_phase[c] = "WAIT" => mc_beat[c] = 0 /\ (ArbP!Pending(c) <=> strobe # arb_op_start)
  /\ o.burst = 1 => mc_beat[c] = IF o.wren = 1 THEN k ELSE IF k < 2 THEN 0 ELSE k - 2

ChipAt(o, k) == IF o.wren = 1 THEN WriteAt(o, k) ELSE ReadAt(o, k)

\* The latched request, k edges after it was issued.
AccessAt(k) == /\ Left + k = Length(sdc_op)
               /\ CommandAt(sdc_op, k) /\ ChipAt(sdc_op, k) /\ MasterAt(arb_chan, sdc_op, k)

\* No access is under way.
Quiet == /\ dqm_on_counter = 0 /\ burst = Chip!NoBurst /\ dq = Chip!HighZ
         /\ read_cmd.dir # "read" /\ command.cmd \notin {"READ", "WRITE"}

\* A master outside its access.
Rest(c) == \/ mc_phase[c] = "IDLE"
           \/ mc_phase[c] = "WAIT" /\ ArbP!Pending(c) /\ mc_beat[c] = 0

BusInv == /\ PostAccess => rw = sdc_op /\ \E k \in 0 .. 9 : AccessAt(k)
          /\ ~PostAccess => Quiet
          /\ \A c \in Chan : (PostAccess /\ c = arb_chan) \/ Rest(c)

-----------------------------------------------------------------------------
(* One edge of the controller and of the chip.                             *)

\* The fields of a request.
IsOp(o) == o.bank \in Bank /\ o.wren \in {0, 1} /\ o.burst \in {0, 1}

\* The latched request is one.
LEMMA LatchedOp == ControlInv => IsOp(sdc_op)
  BY DEF ControlInv, ArbP!IInv, ArbP!TypeOK, Sdc!SdcOp, Sdc!Bit, IsOp

\* The edges the controller still counts are a number.
LEMMA LeftNat == ControlInv => Left \in Nat
  BY DEF ControlInv, SdcType, Left

\* The halfword the chip takes, by the command it sees.
LEMMA WriteBeatCases ==
  /\ command.cmd = "WRITE" => Chip!WriteBeat = Chip!Start("write")
  /\ command.cmd = "BURST_TERMINATE" => Chip!WriteBeat = Chip!NoBurst
  /\ command.cmd = "NOP" /\ burst.dir = "write" => Chip!WriteBeat = burst
  BY DEF Chip!WriteBeat

\* The same after the edge.
LEMMA WriteBeatNext ==
  command'.cmd = "NOP" /\ burst'.dir = "write" => Chip!WriteBeat' = burst'
  BY DEF Chip!WriteBeat

\* A busy controller counts the edges of the access.
LEMMA CommandStep ==
  ASSUME NEW o, IsOp(o), NEW k \in 0 .. 8, CommandAt(o, k), Taken, UNCHANGED arb_op_start,
         Sdc!BusyCount \/ Sdc!TerminateBurst
  PROVE  CommandAt(o, k + 1)'
<1>1. /\ strobe' = strobe_r1 /\ strobe_r1' = strobe_r2 /\ sdc_state' = "IDLE"
      /\ command'.cmd = IF sdc_state = "TERMINATE_BURST" THEN "BURST_TERMINATE" ELSE "NOP"
      /\ dqm_on_counter' = IF dqm_on_counter > 0 THEN dqm_on_counter - 1 ELSE 0
  BY DEF Sdc!BusyCount, Sdc!TerminateBurst, Sdc!Plain, Sdc!Cmd, Sdc!ShiftStrobe, Sdc!CountDqm,
         Sdc!dqm_on
<1>2. PICK d \in 0 .. 8 : /\ d = dqm_on_counter
                          /\ d = IF o.burst = 1 THEN (IF k < 8 THEN 8 - k ELSE 0)
                                 ELSE (IF k = 0 THEN 1 ELSE 0)
  BY DEF CommandAt
<1>3. /\ k + 1 # 0 /\ k + 1 > 0 /\ k + 1 >= 1 /\ (k + 1 = 1 <=> k = 0) /\ (k + 1 >= 2 <=> k >= 1)
      /\ IF d > 0 THEN d - 1 = (IF o.burst = 1 THEN (IF k + 1 < 8 THEN 8 - (k + 1) ELSE 0)
                                ELSE (IF k + 1 = 0 THEN 1 ELSE 0))
         ELSE 0 = (IF o.burst = 1 THEN (IF k + 1 < 8 THEN 8 - (k + 1) ELSE 0)
                   ELSE (IF k + 1 = 0 THEN 1 ELSE 0))
  BY <1>2
<1>4. dqm_on_counter' = IF o.burst = 1 THEN (IF k + 1 < 8 THEN 8 - (k + 1) ELSE 0)
                        ELSE (IF k + 1 = 0 THEN 1 ELSE 0)
  BY <1>1, <1>2, <1>3
<1>5. command'.cmd = IF k + 1 = 1 /\ o.burst = 0 THEN "BURST_TERMINATE" ELSE "NOP"
  BY <1>1, <1>3, Zenon DEF CommandAt
<1>6. /\ strobe_r1' = arb_op_start'
      /\ strobe' = arb_op_start' <=> o.wren = 1 \/ k + 1 >= 2
  BY <1>1, <1>3, Zenon DEF CommandAt, Taken
<1> QED
  BY <1>1, <1>3, <1>4, <1>5, <1>6, Zenon DEF CommandAt

\* A chip that does not read or write and is given neither command.
LEMMA QuietEdge ==
  ASSUME Chip!ChipEdge, command.cmd \notin {"READ", "WRITE"}, burst = Chip!NoBurst,
         read_cmd.dir # "read"
  PROVE  burst' = Chip!NoBurst /\ dq' = Chip!HighZ /\ read_cmd'.dir # "read"
<1>1. Chip!WriteBeat = Chip!NoBurst /\ Chip!ReadBeat = Chip!NoBurst
  BY DEF Chip!WriteBeat, Chip!ReadBeat, Chip!NoBurst
<1>2. Chip!NoBurst.dir = "none" /\ Chip!After(Chip!NoBurst) = Chip!NoBurst
  BY DEF Chip!NoBurst, Chip!After
<1>3. burst' = Chip!NoBurst /\ dq' = Chip!HighZ
  BY <1>1, <1>2 DEF Chip!ChipEdge
<1>4. read_cmd'.dir # "read"
  BY DEF Chip!ChipEdge, Chip!NoBurst
<1> QED
  BY <1>3, <1>4

\* The same when its clock may not run.
LEMMA QuietChip ==
  ASSUME Chip!ChipClk, command.cmd \notin {"READ", "WRITE"}, burst = Chip!NoBurst,
         dq = Chip!HighZ, read_cmd.dir # "read"
  PROVE  burst' = Chip!NoBurst /\ dq' = Chip!HighZ /\ read_cmd'.dir # "read"
<1>1. CASE Chip!ChipEdge
  BY <1>1, QuietEdge, Zenon
<1>2. CASE Chip!ChipSuspended
  BY <1>2, Zenon DEF Chip!ChipSuspended
<1> QED
  BY <1>1, <1>2, Zenon DEF Chip!ChipClk

\* The halfword after halfword k.
LEMMA AfterHalfword ==
  ASSUME NEW o, NEW dir \in {"read", "write"}, NEW k \in 0 .. 7
  PROVE  Chip!After(Halfword(o, dir, k)) = IF k = 7 THEN Chip!NoBurst ELSE Halfword(o, dir, k + 1)
  BY DEF Chip!After, Halfword

\* The halfword a READ or WRITE starts with.
LEMMA StartHalfword ==
  ASSUME NEW o, IsOp(o), CommandAt(o, 0), NEW dir
  PROVE  Chip!Start(dir) = Halfword(o, dir, 0)
<1>1. command.banks = {o.bank} /\ open[o.bank] = o.row
  BY DEF CommandAt
<1>2. Chip!TheBank = o.bank
  BY <1>1 DEF Chip!TheBank, IsOp
<1> QED
  BY <1>1, <1>2 DEF Chip!Start, Halfword

\* The chip takes the next halfword of a write.
LEMMA WriteStep ==
  ASSUME NEW o, IsOp(o), o.wren = 1, NEW k \in 0 .. 9, k < Length(o),
         CommandAt(o, k), WriteAt(o, k), Chip!ChipEdge
  PROVE  WriteAt(o, k + 1)'
<1>1. k \in 0 .. 6 /\ k + 1 # 0 /\ (k > 0 => o.burst = 1)
  BY DEF Length, IsOp
<1>2. Chip!WriteBeat = Halfword(o, "write", k) /\ Chip!ReadBeat = Chip!NoBurst
  <2>1. CASE k = 0
    <3>1. command.cmd = "WRITE" /\ Chip!Start("write") = Halfword(o, "write", 0)
      BY <2>1, StartHalfword DEF CommandAt
    <3> QED
      BY <2>1, <3>1 DEF Chip!WriteBeat, Chip!ReadBeat, WriteAt
  <2>2. CASE k > 0
    <3>1. command.cmd = "NOP" /\ burst = Halfword(o, "write", k) /\ burst.dir = "write"
      BY <1>1, <2>2 DEF CommandAt, WriteAt, Halfword
    <3> QED
      BY <3>1 DEF Chip!WriteBeat, Chip!ReadBeat, WriteAt
  <2> QED
    BY <2>1, <2>2
<1>3. /\ burst' = Halfword(o, "write", k + 1) /\ dq' = Chip!HighZ
  <2>1. Chip!After(Halfword(o, "write", k)) = Halfword(o, "write", k + 1)
    BY <1>1, AfterHalfword
  <2>2. Halfword(o, "write", k).dir = "write" /\ Chip!NoBurst.dir = "none"
    BY DEF Halfword, Chip!NoBurst
  <2> QED
    BY <1>2, <2>1, <2>2 DEF Chip!ChipEdge
<1>4. read_cmd'.dir # "read"
  <2>1. command.cmd # "READ"
    BY DEF CommandAt
  <2> QED
    BY <2>1 DEF Chip!ChipEdge, Chip!NoBurst
<1> QED
  BY <1>1, <1>3, <1>4 DEF WriteAt

\* While o is read the chip takes nothing from the bus.
LEMMA NothingWritten ==
  ASSUME NEW o, IsOp(o), o.wren = 0, NEW k \in 0 .. 9, k <= Length(o), CommandAt(o, k), ReadAt(o, k)
  PROVE  Chip!WriteBeat = Chip!NoBurst
<1>1. command.cmd \in {"READ", "NOP", "BURST_TERMINATE"}
  BY DEF CommandAt
<1>2. burst.dir # "write"
  BY DEF ReadAt, Halfword, Chip!NoBurst
<1> QED
  BY <1>1, <1>2 DEF Chip!WriteBeat

\* What the chip puts on the bus next: nothing before the CAS latency is over, and
\* nothing after BURST_TERMINATE or halfword 7.
LEMMA ReadBeatAt ==
  ASSUME NEW o, IsOp(o), o.wren = 0, NEW k \in 0 .. 9, k <= Length(o), CommandAt(o, k), ReadAt(o, k)
  PROVE  Chip!ReadBeat = IF k = 0 \/ k = Length(o) \/ (o.burst = 0 /\ k = 2) THEN Chip!NoBurst
                         ELSE Halfword(o, "read", k - 1)
<1>0. Length(o) = (IF o.burst = 1 THEN 9 ELSE 3) /\ command.cmd # "WRITE" /\ o.burst \in {0, 1}
      /\ Chip!NoBurst.dir = "none"
  BY DEF Length, CommandAt, IsOp, Chip!NoBurst
<1>1. CASE k = 0
  <2>1. read_cmd.dir # "read" /\ burst = Chip!NoBurst
    BY <1>1 DEF ReadAt
  <2> QED
    BY <1>0, <1>1, <2>1 DEF Chip!ReadBeat
<1>2. CASE k = 1
  <2>1. read_cmd = Halfword(o, "read", 0) /\ read_cmd.dir = "read"
    BY <1>2 DEF ReadAt, Halfword
  <2> QED
    BY <1>0, <1>2, <2>1 DEF Chip!ReadBeat
<1>3. CASE o.burst = 0 /\ k = 2
  <2>1. /\ read_cmd = [dir |-> "stop", banks |-> Bank]
        /\ burst.dir = "read" /\ burst.bank \in Bank
    BY <1>0, <1>3 DEF ReadAt, Halfword, IsOp
  <2> QED
    BY <1>0, <1>3, <2>1 DEF Chip!ReadBeat
<1>4. CASE k = Length(o)
  <2>1. read_cmd = Chip!NoBurst /\ burst = Chip!NoBurst
    BY <1>0, <1>4 DEF ReadAt
  <2> QED
    BY <1>0, <1>4, <2>1 DEF Chip!ReadBeat
<1>5. CASE k >= 2 /\ k # Length(o) /\ o.burst = 1
  <2>1. read_cmd = Chip!NoBurst /\ burst = Halfword(o, "read", k - 1) /\ burst.dir = "read"
    BY <1>0, <1>5 DEF ReadAt, Halfword
  <2> QED
    BY <1>0, <1>5, <2>1 DEF Chip!ReadBeat
<1> QED
  BY <1>0, <1>1, <1>2, <1>3, <1>4, <1>5

\* The chip puts the next halfword of a read on the bus.
LEMMA ReadStep ==
  ASSUME NEW o, IsOp(o), o.wren = 0, NEW k \in 0 .. 9, k < Length(o),
         CommandAt(o, k), ReadAt(o, k), Chip!ChipEdge
  PROVE  ReadAt(o, k + 1)'
<1>0. /\ Length(o) = (IF o.burst = 1 THEN 9 ELSE 3) /\ o.burst \in {0, 1}
      /\ Chip!NoBurst.dir = "none" /\ Chip!After(Chip!NoBurst) = Chip!NoBurst
  BY DEF Length, IsOp, Chip!NoBurst, Chip!After
<1>1. k <= Length(o) /\ Chip!WriteBeat = Chip!NoBurst
  <2>1. k <= Length(o)
    BY <1>0
  <2> QED
    BY <2>1, NothingWritten
<1>2. /\ burst' = Chip!After(Chip!ReadBeat)
      /\ dq' = IF Chip!ReadBeat.dir = "read" /\ dqm_reg1 THEN Chip!ReadBeat ELSE Chip!HighZ
      /\ read_cmd' = CASE command.cmd = "READ" -> Chip!Start("read")
                       [] command.cmd = "BURST_TERMINATE" -> [dir |-> "stop", banks |-> Bank]
                       [] command.cmd = "PRECHARGE" -> [dir |-> "stop", banks |-> command.banks]
                       [] OTHER -> Chip!NoBurst
  BY <1>0, <1>1 DEF Chip!ChipEdge
<1>3. dqm_reg1' <=> IF o.burst = 1 THEN k + 1 <= 8 ELSE k + 1 = 1
  <2>1. dqm_reg1' <=> dqm_on_counter > 0
    BY Zenon DEF Chip!ChipEdge, Sdc!dqm_on
  <2>2. dqm_on_counter > 0 <=> IF o.burst = 1 THEN k + 1 <= 8 ELSE k + 1 = 1
    BY <1>0 DEF CommandAt
  <2> QED
    BY <2>1, <2>2, Zenon
<1>4. /\ k = 0 => read_cmd' = Halfword(o, "read", 0)
      /\ k >= 1 => read_cmd' = IF k = 1 /\ o.burst = 0 THEN [dir |-> "stop", banks |-> Bank]
                               ELSE Chip!NoBurst
  BY <1>2, StartHalfword DEF CommandAt
<1>5. CASE k = 0 \/ (o.burst = 0 /\ k = 2)
  <2>1. burst' = Chip!NoBurst /\ dq' = Chip!HighZ
    BY <1>0, <1>1, <1>2, <1>5, ReadBeatAt
  <2> QED
    BY <1>0, <1>3, <1>4, <1>5, <2>1 DEF ReadAt
<1>6. CASE ~(k = 0 \/ (o.burst = 0 /\ k = 2))
  <2>1. /\ Chip!ReadBeat = Halfword(o, "read", k - 1) /\ k - 1 \in 0 .. 7
        /\ o.burst = 0 => k = 1
    BY <1>0, <1>1, <1>6, ReadBeatAt
  <2>2. burst' = IF k - 1 = 7 THEN Chip!NoBurst ELSE Halfword(o, "read", (k - 1) + 1)
    BY <1>2, <2>1, AfterHalfword
  <2>3. dqm_reg1
    BY <1>0, <1>6, <2>1 DEF ReadAt
  <2>4. dq' = Halfword(o, "read", k - 1)
    BY <1>2, <2>1, <2>3 DEF Halfword
  <2>5. /\ (k - 1) + 1 = (k + 1) - 1 /\ k - 1 = (k + 1) - 2
        /\ k - 1 = 7 <=> k + 1 = Length(o)
        /\ ~(k + 1 < 2) /\ ~(o.burst = 0 /\ k + 1 = 3) /\ k + 1 # 0 /\ k + 1 # 1 /\ k + 1 >= 1
        /\ k + 1 = 2 <=> k = 1
    BY <1>0, <1>6, <2>1
  <2>6. read_cmd' = IF k + 1 = 2 /\ o.burst = 0 THEN [dir |-> "stop", banks |-> Bank]
                    ELSE Chip!NoBurst
    BY <1>4, <1>6, <2>5
  <2> QED
    BY <1>3, <2>2, <2>4, <2>5, <2>6, Zenon DEF ReadAt
<1> QED
  BY <1>5, <1>6

\* The chip after the last edge of an access.
LEMMA ChipEnd ==
  ASSUME NEW o, IsOp(o), NEW k \in 0 .. 9, k = Length(o), CommandAt(o, k), ChipAt(o, k), Chip!ChipEdge
  PROVE  burst' = Chip!NoBurst /\ dq' = Chip!HighZ /\ read_cmd'.dir # "read"
<1>1. k >= 1 /\ command.cmd \in {"NOP", "BURST_TERMINATE"}
  BY DEF Length, CommandAt
<1>2. CASE o.wren = 0
  <2>1. burst = Chip!NoBurst /\ read_cmd = Chip!NoBurst
    BY <1>2 DEF ChipAt, ReadAt, Length, IsOp
  <2> QED
    BY <1>1, <2>1, QuietEdge DEF Chip!NoBurst
<1>3. CASE o.wren = 1
  <2>1. /\ burst = Halfword(o, "write", k) /\ burst.dir = "write" /\ read_cmd.dir # "read"
        /\ IF o.burst = 1 THEN k = 7 /\ command.cmd = "NOP" ELSE command.cmd = "BURST_TERMINATE"
    BY <1>1, <1>3 DEF ChipAt, WriteAt, CommandAt, Halfword, Length, IsOp
  <2>2. /\ Chip!ReadBeat = Chip!NoBurst
        /\ Chip!WriteBeat = IF o.burst = 1 THEN Halfword(o, "write", 7) ELSE Chip!NoBurst
    BY <2>1 DEF Chip!ReadBeat, Chip!WriteBeat
  <2>3. /\ Chip!After(Halfword(o, "write", 7)) = Chip!NoBurst
        /\ Chip!After(Chip!NoBurst) = Chip!NoBurst /\ Chip!NoBurst.dir = "none"
    <3>1. \A n \in 0 .. 7 : n = 7 => Chip!After(Halfword(o, "write", n)) = Chip!NoBurst
      BY AfterHalfword
    <3> QED
      BY <3>1 DEF Chip!NoBurst, Chip!After
  <2>4. burst' = Chip!NoBurst /\ dq' = Chip!HighZ
    BY <2>2, <2>3 DEF Chip!ChipEdge
  <2>5. read_cmd'.dir # "read"
    BY <2>1 DEF Chip!ChipEdge, Chip!NoBurst
  <2> QED
    BY <2>4, <2>5
<1> QED
  BY <1>2, <1>3 DEF IsOp

-----------------------------------------------------------------------------
(* One edge of the masters.                                                *)

\* The arbitrator as an instance: its lemmas about requests.
LEMMA RequestStep ==
  ASSUME ControlInv, ControlInv', ArbP!Next, NEW c \in Chan
  PROVE  /\ ArbP!Pending(c) => (ArbP!Pending(c)' <=> ~(strobe' # strobe /\ c = arb_chan))
         /\ ~ArbP!Pending(c) /\ mc_op_start'[c] # mc_op_start[c] => ArbP!Pending(c)'
<1>1. /\ ArbP!IInv /\ ArbP!IInv' /\ c \in ArbP!Chan
      /\ NChan \in Nat \ {0} /\ NoOp \notin Sdc!SdcOp /\ Sdc!SdcOp # {}
  BY Same, ChipAssumption, SomeOp DEF ControlInv, NChan
<1>2. ArbP!Pending(c) => /\ ArbP!SdcPerform /\ c = arb_chan => ~ArbP!Pending(c)'
                         /\ ArbP!SdcPerform /\ c # arb_chan => ArbP!Pending(c)'
                         /\ ArbP!SdcOther => ArbP!Pending(c)'
  BY <1>1, ArbP!PendingStep
<1>3. ~ArbP!Pending(c) /\ mc_op_start'[c] # mc_op_start[c] => ArbP!Pending(c)'
  BY <1>1, ArbP!AskStep
<1>4. \/ ArbP!SdcPerform /\ strobe' # strobe
      \/ ArbP!SdcOther /\ strobe' = strobe
  BY Zenon DEF ArbP!Next, ArbP!Perform, ArbP!Other, ArbP!SdcPerform, ArbP!SdcOther
<1> QED
  BY <1>2, <1>3, <1>4, Zenon

\* The channel and the request of a grant stay until the arbitrator is IDLE.
LEMMA ChannelKept ==
  ASSUME ControlInv, ArbP!Next, arb_state # "IDLE"
  PROVE  UNCHANGED <<arb_chan, arb_op_start, sdc_op>>
<1>1. ArbP!Clk
  BY DEF ArbP!Next, ArbP!Perform, ArbP!Other
<1> QED
  BY <1>1, Zenon DEF ArbP!Clk, ArbP!Grant, ArbP!StrobeSeen, ArbP!BusyDone, ArbP!Hold, ArbP!arb_vars

\* The step of the master of channel c.
LEMMA MasterMove ==
  ASSUME ControlInv, Masters, NEW c \in Chan
  PROVE  /\ mc_phase[c] = "IDLE" =>
              \/ mc_phase'[c] = "IDLE"
              \/ mc_phase'[c] = "WAIT" /\ mc_beat'[c] = 0 /\ mc_op_start'[c] # mc_op_start[c]
         /\ mc_phase[c] = "WAIT" /\ ArbP!Pending(c) =>
              mc_phase'[c] = "WAIT" /\ mc_beat'[c] = mc_beat[c] /\ mc_op'[c] = mc_op[c]
         /\ mc_phase[c] = "WAIT" /\ ~ArbP!Pending(c) /\ mc_op[c].burst = 0 =>
              mc_phase'[c] = "IDLE" /\ mc_op'[c] = mc_op[c]
         /\ \/ mc_phase[c] = "BEATS"
            \/ mc_phase[c] = "WAIT" /\ ~ArbP!Pending(c) /\ mc_op[c].burst # 0
            => /\ mc_phase'[c] = IF mc_beat[c] = LastBeat(c) THEN "IDLE" ELSE "BEATS"
               /\ mc_beat'[c] = Beat(c) /\ mc_op'[c] = mc_op[c]
<1>1. PICK s \in MasterSteps(c) : /\ mc_op_start'[c] = s.op_start /\ mc_op'[c] = s.op
                                  /\ mc_phase'[c] = s.phase /\ mc_beat'[c] = s.beat
  <2>1. PICK s0 \in MasterSteps(0), s1 \in MasterSteps(1), s2 \in MasterSteps(2) :
          LET s(d) == CASE d = 0 -> s0 [] d = 1 -> s1 [] OTHER -> s2 IN
          /\ mc_op_start' = [d \in Chan |-> s(d).op_start]
          /\ mc_op' = [d \in Chan |-> s(d).op]
          /\ mc_phase' = [d \in Chan |-> s(d).phase]
          /\ mc_beat' = [d \in Chan |-> s(d).beat]
    BY DEF Masters
  <2>2. c = 0 \/ c = 1 \/ c = 2
    BY DEF Chan, NChan
  <2> QED
    BY <2>1, <2>2
<1>2. Served(c) <=> ~ArbP!Pending(c)
  BY Same, Zenon DEF Served, ArbP!Pending
<1>3. CASE mc_phase[c] = "IDLE"
  <2>1. s \in {Keep(c)} \cup Ask(c) /\ mc_op_start[c] \in {0, 1}
    BY <1>1, <1>3, Same DEF MasterSteps, ControlInv, ArbP!IInv, ArbP!TypeOK, Bit
  <2>2. Flip(mc_op_start[c]) # mc_op_start[c]
    BY <2>1 DEF Flip
  <2> QED
    BY <1>1, <1>3, <2>1, <2>2 DEF Keep, Ask, Step
<1>4. CASE mc_phase[c] = "WAIT" /\ ArbP!Pending(c)
  <2>1. s = Keep(c)
    BY <1>1, <1>2, <1>4 DEF MasterSteps
  <2> QED
    BY <1>1, <1>4, <2>1 DEF Keep, Step
<1>5. CASE mc_phase[c] = "WAIT" /\ ~ArbP!Pending(c) /\ mc_op[c].burst = 0
  <2>1. s = Step(mc_op_start[c], mc_op[c], "IDLE", mc_beat[c])
    BY <1>1, <1>2, <1>5 DEF MasterSteps
  <2> QED
    BY <1>1, <1>5, <2>1 DEF Step
<1>6. CASE \/ mc_phase[c] = "BEATS"
           \/ mc_phase[c] = "WAIT" /\ ~ArbP!Pending(c) /\ mc_op[c].burst # 0
  <2>1. s = Advance(c)
    BY <1>1, <1>2, <1>6 DEF MasterSteps
  <2> QED
    BY <1>1, <1>6, <2>1 DEF Advance, Step
<1>7. mc_phase[c] \in {"IDLE", "WAIT", "BEATS"}
  BY DEF ControlInv, MasterInv
<1> QED
  BY <1>3, <1>4, <1>5, <1>6, <1>7, Zenon

\* A master outside its access stays there until its request is issued.
LEMMA RestStep ==
  ASSUME ControlInv, ControlInv', ArbP!Next, Masters, NEW c \in Chan, Rest(c),
         ~(strobe' # strobe /\ c = arb_chan)
  PROVE  Rest(c)'
<1>1. CASE mc_phase[c] = "IDLE"
  <2>1. ~ArbP!Pending(c)
    BY <1>1, Zenon DEF ControlInv, MasterInv
  <2> QED
    BY <1>1, <2>1, MasterMove, RequestStep DEF Rest
<1>2. CASE mc_phase[c] = "WAIT" /\ ArbP!Pending(c) /\ mc_beat[c] = 0
  BY <1>2, MasterMove, RequestStep DEF Rest
<1> QED
  BY <1>1, <1>2, Zenon DEF Rest

\* The master keeps pace with the chip.
LEMMA MasterAtStep ==
  ASSUME ControlInv, ControlInv', ArbP!Next, Masters, NEW c \in Chan, c = arb_chan,
         NEW o, IsOp(o), NEW k \in 0 .. 9, k < Length(o), CommandAt(o, k), MasterAt(c, o, k),
         UNCHANGED arb_op_start, strobe' = strobe_r1
  PROVE  MasterAt(c, o, k + 1)'
<1>0. /\ o.wren \in {0, 1} /\ o.burst \in {0, 1} /\ mc_op[c] = o
      /\ strobe \in {0, 1} /\ strobe' \in {0, 1} /\ arb_op_start \in {0, 1}
  BY Same, Zenon DEF IsOp, MasterAt, ControlInv, SdcType, Bit, ArbP!IInv, ArbP!TypeOK
<1>1. CASE o.wren = 0 /\ k < 2
  <2>1. mc_phase[c] = "WAIT" /\ mc_beat[c] = 0 /\ ArbP!Pending(c) /\ strobe # arb_op_start
    <3>1. k <= 2 /\ ~(o.wren = 1 \/ k >= 2)
      BY <1>1
    <3>2. strobe # arb_op_start
      BY <3>1, Zenon DEF CommandAt
    <3> QED
      BY <1>1, <3>1, <3>2, Zenon DEF MasterAt
  <2>2. mc_phase'[c] = "WAIT" /\ mc_beat'[c] = 0 /\ mc_op'[c] = o
    BY <1>0, <2>1, MasterMove, Zenon
  <2>3. ArbP!Pending(c)' <=> strobe' # arb_op_start'
    BY <1>0, <2>1, RequestStep
  <2>4. k + 1 <= 2 /\ o.wren # 1 /\ (IF k + 1 < 2 THEN 0 ELSE (k + 1) - 2) = 0
    BY <1>1
  <2> QED
    BY <1>1, <2>2, <2>3, <2>4, Zenon DEF MasterAt
<1>2. CASE o.burst = 0 /\ (o.wren = 1 \/ k >= 2)
  <2>1. /\ mc_phase[c] = "WAIT" /\ ~ArbP!Pending(c)
        /\ IF o.wren = 1 THEN k = 0 ELSE k = 2
    <3>1. IF o.wren = 1 THEN k = 0 ELSE k = 2
      BY <1>0, <1>2 DEF Length
    <3>2. k = 0 \/ (o.wren = 0 /\ k <= 2)
      BY <1>0, <3>1
    <3>3. strobe = arb_op_start
      BY <1>2, Zenon DEF CommandAt
    <3> QED
      BY <3>1, <3>2, <3>3, Zenon DEF MasterAt
  <2>2. mc_phase'[c] = "IDLE" /\ mc_op'[c] = o
    BY <1>0, <1>2, <2>1, MasterMove, Zenon
  <2>3. k + 1 # 0 /\ ~(o.wren = 0 /\ k + 1 <= 2) /\ o.burst # 1
    BY <1>2, <2>1
  <2> QED
    BY <1>2, <2>2, <2>3, Zenon DEF MasterAt
<1>3. CASE o.burst = 1 /\ (o.wren = 1 \/ k >= 2)
  <2>1. /\ mc_phase[c] = "BEATS" \/ (mc_phase[c] = "WAIT" /\ ~ArbP!Pending(c))
        /\ mc_beat[c] = IF o.wren = 1 THEN k ELSE k - 2
        /\ IF o.wren = 1 THEN k <= 6 ELSE k <= 8
    <3>1. IF o.wren = 1 THEN k <= 6 ELSE k <= 8
      BY <1>0, <1>3 DEF Length
    <3>2. ~(o.burst = 0 \/ (o.wren = 1 /\ k = 7)) /\ (o.wren = 1 \/ ~(k < 2))
      BY <1>3, <3>1
    <3>3. strobe = arb_op_start
      BY <1>3, Zenon DEF CommandAt
    <3>4. mc_phase[c] = "BEATS" \/ (mc_phase[c] = "WAIT" /\ ~ArbP!Pending(c))
      BY <3>2, <3>3, Zenon DEF MasterAt
    <3>5. mc_beat[c] = IF o.wren = 1 THEN k ELSE k - 2
      BY <1>3, <3>2, Zenon DEF MasterAt
    <3> QED
      BY <3>1, <3>4, <3>5, Zenon
  <2>2. /\ mc_phase'[c] = IF mc_beat[c] = LastBeat(c) THEN "IDLE" ELSE "BEATS"
        /\ mc_beat'[c] = Beat(c) /\ mc_op'[c] = o
    <3>1. mc_op[c].burst # 0
      BY <1>0, <1>3
    <3> QED
      BY <1>0, <2>1, <3>1, MasterMove, Zenon
  <2>3. /\ Beat(c) = IF o.wren = 1 THEN k + 1 ELSE (k + 1) - 2
        /\ mc_beat[c] = LastBeat(c) <=> o.wren = 1 /\ k + 1 = 7
    BY <1>0, <1>3, <2>1 DEF Beat, LastBeat
  <2>4. k + 1 # 0 /\ ~(o.wren = 0 /\ k + 1 <= 2) /\ (o.wren = 1 \/ ~(k + 1 < 2)) /\ o.burst # 0
    BY <1>0, <1>3
  <2>5. mc_phase'[c] # "WAIT"
    BY <2>2, Zenon
  <2> QED
    BY <1>3, <2>2, <2>3, <2>4, <2>5, Zenon DEF MasterAt
<1> QED
  BY <1>0, <1>1, <1>2, <1>3

\* The master is outside its access when the arbitrator is IDLE again.
LEMMA MasterEnd ==
  ASSUME ControlInv, ControlInv', ArbP!Next, Masters, NEW c \in Chan,
         NEW o, IsOp(o), NEW k \in 0 .. 9, k = Length(o), MasterAt(c, o, k), strobe' = strobe
  PROVE  Rest(c)'
<1>1. CASE o.wren = 1 \/ o.burst = 0
  <2>1. mc_phase[c] = "IDLE"
    <3>1. /\ ~(k = 0 \/ (o.wren = 0 /\ k <= 2))
          /\ o.burst = 0 \/ (o.wren = 1 /\ k = 7)
      BY <1>1 DEF Length, IsOp
    <3> QED
      BY <3>1, Zenon DEF MasterAt
  <2> QED
    BY <2>1, RestStep DEF Rest
<1>2. CASE o.wren = 0 /\ o.burst = 1
  <2>1. mc_phase[c] = "BEATS" /\ mc_beat[c] = LastBeat(c)
    BY <1>2 DEF MasterAt, Length, LastBeat
  <2> QED
    BY <2>1, MasterMove DEF Rest
<1> QED
  BY <1>1, <1>2 DEF IsOp

-----------------------------------------------------------------------------
(* The invariant.                                                          *)

\* Power-up.
LEMMA BusInit == Init => BusInv
<1> SUFFICES ASSUME Init PROVE BusInv
  OBVIOUS
<1>1. ~PostAccess /\ \A c \in Chan : mc_phase[c] = "IDLE"
  BY DEF Init, Arb!ArbInit, PostAccess
<1>2. Quiet
  BY DEF Init, Sdc!SdcInit, Sdc!Plain, Sdc!Cmd, Chip!ChipInit, Chip!NoBurst, Quiet
<1> QED
  BY <1>1, <1>2, Zenon DEF BusInv, Rest

\* The access begins.
LEMMA AccessBegins ==
  ASSUME ControlInv, ControlInv', BusInv, ArbP!Next, Sdc!Clk, Chip!ChipClk, Masters, Record,
         Sdc!ReadWrite
  PROVE  BusInv'
<1>1. ~PostAccess /\ PostAccess' /\ Quiet
  BY PostAccessStep, Zenon DEF BusInv
<1>2. /\ arb_op_start # strobe /\ arb_state = "WAIT_STROBE" /\ strobe_r2' = arb_op_start
      /\ UNCHANGED <<arb_op_start, sdc_op>> /\ UNCHANGED arb_chan
      /\ IF sdc_op.wren = 1 THEN strobe_r1' = strobe_r2' /\ strobe' = strobe_r2'
         ELSE strobe_r1' = strobe /\ strobe' = strobe
  BY TakesRequest, ChannelKept, Zenon DEF Taken
<1>3. PICK o : o = sdc_op
  OBVIOUS
<1>4. IsOp(o) /\ o.wren \in {0, 1} /\ o.burst \in {0, 1} /\ sdc_op' = o
  BY <1>2, <1>3, LatchedOp DEF IsOp
<1>5. rw' = o
  BY <1>3, IssuedOp, Zenon DEF Record
<1>6. Left' + 0 = Length(o)
  <2>1. /\ busy_wait_counter' = IF o.wren = 0 THEN (IF o.burst = 0 THEN 2 ELSE 9)
                                ELSE (IF o.burst = 1 THEN 7 ELSE 0)
        /\ sdc_state' = IF o.burst = 1 THEN "IDLE" ELSE "TERMINATE_BURST"
    BY <1>3, <1>4 DEF Sdc!ReadWrite, Sdc!busy_wait_period
  <2> QED
    BY <1>4, <2>1 DEF Left, Length
<1>7. CommandAt(o, 0)'
  <2>1. /\ command'.cmd = IF o.wren = 1 THEN "WRITE" ELSE "READ"
        /\ command'.banks = {o.bank} /\ dqm_on_counter' = IF o.burst = 1 THEN 8 ELSE 1
        /\ sdc_state' = IF o.burst = 1 THEN "IDLE" ELSE "TERMINATE_BURST"
        /\ bank_states[o.bank].active = 1 /\ bank_states[o.bank].row = o.row
    BY <1>3 DEF Sdc!ReadWrite, Sdc!Cmd, Sdc!DqmBeats, Sdc!RowHit, Sdc!cur_bank
  <2>2. open'[o.bank] = o.row
    <3>1. sdc_state # "STARTUP"
      BY ReadyFacts DEF Sdc!ReadWrite
    <3>2. ckez = 1 /\ Chip!ChipEdge
      BY <3>1, ChipRuns, ChipEdges, Zenon
    <3>3. open'[o.bank] = Opened(o.bank)
      BY <1>4, <3>2, ChipOpens, Zenon DEF IsOp
    <3> QED
      BY <1>4, <2>1, <3>2, <3>3, Zenon DEF ControlInv, Rows, IsOp
  <2>3. /\ strobe_r1' = arb_op_start' <=> o.wren = 1
        /\ strobe' = arb_op_start' <=> o.wren = 1
    BY <1>2, <1>3, <1>4
  <2> QED
    BY <1>4, <2>1, <2>2, <2>3 DEF CommandAt
<1>8. ChipAt(o, 0)'
  <2>1. burst' = Chip!NoBurst /\ dq' = Chip!HighZ /\ read_cmd'.dir # "read"
    BY <1>1, QuietChip, Zenon DEF Quiet
  <2> QED
    BY <2>1 DEF ChipAt, WriteAt, ReadAt
<1>9. MasterAt(arb_chan, sdc_op, 0)'
  <2>1. PICK c \in Chan : c = arb_chan
    BY Same DEF ControlInv, ArbP!IInv, ArbP!TypeOK
  <2>2. ArbP!Pending(c) /\ mc_op[c] = o
    BY <1>2, <1>3, <2>1, Zenon DEF ControlInv, ArbP!IInv, ArbP!RequestIntact, ArbP!SdcAsked
  <2>3. mc_phase[c] = "WAIT" /\ mc_beat[c] = 0
    BY <1>1, <2>2, Zenon DEF BusInv, Rest, ControlInv, MasterInv
  <2>4. mc_phase'[c] = "WAIT" /\ mc_beat'[c] = 0 /\ mc_op'[c] = o
    BY <2>2, <2>3, MasterMove, Zenon
  <2>5. ArbP!Pending(c)' <=> strobe' # arb_op_start'
    <3>1. ArbP!Pending(c)' <=> ~(strobe' # strobe)
      BY <2>1, <2>2, RequestStep, Zenon
    <3> QED
      BY <1>2, <1>3, <1>4, <3>1
  <2>6. MasterAt(c, o, 0)'
    BY <2>4, <2>5 DEF MasterAt
  <2> QED
    BY <1>2, <1>4, <2>1, <2>6, Zenon DEF MasterAt
<1>10. \A c \in Chan : c # arb_chan => Rest(c)'
  BY <1>1, RestStep, Zenon DEF BusInv
<1>11. AccessAt(0)' /\ 0 \in 0 .. 9
  <2>1. CommandAt(sdc_op, 0)' /\ ChipAt(sdc_op, 0)' /\ Left' + 0 = Length(sdc_op')
    BY <1>4, <1>6, <1>7, <1>8, Zenon DEF CommandAt, ChipAt, WriteAt, ReadAt
  <2> QED
    BY <1>9, <2>1 DEF AccessAt, Length
<1> QED
  BY <1>1, <1>2, <1>4, <1>5, <1>10, <1>11, Zenon DEF BusInv

\* The chip's clock runs during an access.
LEMMA AccessClocked ==
  ASSUME ControlInv, PostAccess, Chip!ChipClk
  PROVE  Chip!ChipEdge
<1>1. sdc_state # "STARTUP"
  BY Zenon DEF ControlInv, StrobePipe, PostAccess
<1> QED
  BY <1>1, ChipRuns, ChipEdges, Zenon

\* The access goes on.
LEMMA AccessGoesOn ==
  ASSUME ControlInv, ControlInv', BusInv, ArbP!Next, Sdc!Clk, Chip!ChipClk, Masters, Record,
         PostAccess, Left > 0
  PROVE  BusInv'
<1>1. ~Sdc!ReadWrite /\ PostAccess' /\ Left \in Nat
  BY PostAccessStep DEF ControlInv, SdcType, Left
<1>2. /\ arb_state # "IDLE" /\ Taken /\ UNCHANGED <<arb_op_start, sdc_op>> /\ UNCHANGED arb_chan
      /\ strobe' = strobe_r1
  BY <1>1, ChannelKept, NotIssued, Zenon DEF PostAccess
<1>3. PICK o : o = sdc_op
  OBVIOUS
<1>4. IsOp(o) /\ sdc_op' = o
  BY <1>2, <1>3, LatchedOp
<1>5. PICK k \in 0 .. 9 : AccessAt(k)
  BY DEF BusInv
<1>6. PICK c \in Chan : c = arb_chan
  BY Same DEF ControlInv, ArbP!IInv, ArbP!TypeOK
<1>7. /\ Left + k = Length(o) /\ CommandAt(o, k) /\ ChipAt(o, k) /\ MasterAt(c, o, k)
  BY <1>3, <1>5, <1>6, Zenon DEF AccessAt
<1>8. k < Length(o) /\ k \in 0 .. 8 /\ sdc_state # "STARTUP"
  <2>1. Length(o) \in {1, 3, 7, 9}
    BY DEF Length
  <2> QED
    BY <1>1, <1>7, <2>1 DEF ControlInv, StrobePipe
<1>9. Left' + (k + 1) = Length(o)
  <2>1. PICK l \in Nat : l = Left
    BY <1>1
  <2>2. Left' = l - 1 /\ l + k = Length(o) /\ (l - 1) + (k + 1) = l + k
    BY <1>7, <1>8, <2>1, SdcCases
  <2> QED
    BY <2>2
<1>10. CommandAt(o, k + 1)'
  <2>1. ~Sdc!Ready
    BY <1>1, ReadyFacts
  <2>2. Sdc!BusyCount \/ Sdc!TerminateBurst
    BY <1>8, <2>1, Zenon DEF Sdc!Clk, Sdc!StartupPrecharge, Sdc!StartupLmr, Sdc!StartupDone,
       Sdc!StartupStep, Sdc!StartupWait, Sdc!Activate, Sdc!PrechargeRow, Sdc!ReadWrite,
       Sdc!RefreshPrecharge, Sdc!Refresh, Sdc!IdleNop
  <2> QED
    BY <1>2, <1>4, <1>7, <1>8, <2>2, CommandStep, Zenon
<1>11. ChipAt(o, k + 1)'
  <2>0. Chip!ChipEdge
    BY AccessClocked, Zenon
  <2>1. CASE o.wren = 1
    BY <1>4, <1>7, <1>8, <2>0, <2>1, WriteStep, Zenon DEF ChipAt
  <2>2. CASE o.wren = 0
    <3>1. o.wren # 1
      BY <2>2
    <3> QED
      BY <1>4, <1>7, <1>8, <2>0, <2>2, <3>1, ReadStep, Zenon DEF ChipAt
  <2> QED
    BY <1>4, <2>1, <2>2, Zenon DEF IsOp
<1>12. MasterAt(c, o, k + 1)'
  BY <1>2, <1>4, <1>6, <1>7, <1>8, MasterAtStep, Zenon
<1>13. \A d \in Chan : d # arb_chan => Rest(d)'
  BY RestStep, Zenon DEF BusInv
<1>14. AccessAt(k + 1)' /\ k + 1 \in 0 .. 9
  <2>1. /\ CommandAt(sdc_op, k + 1)' /\ ChipAt(sdc_op, k + 1)' /\ Left' + (k + 1) = Length(sdc_op')
        /\ MasterAt(arb_chan, sdc_op, k + 1)'
    BY <1>2, <1>4, <1>6, <1>9, <1>10, <1>11, <1>12, Zenon
       DEF CommandAt, ChipAt, WriteAt, ReadAt, MasterAt
  <2>2. k + 1 \in 0 .. 9
    BY <1>8
  <2> QED
    BY <2>1, <2>2, Zenon DEF AccessAt, Length
<1>15. rw' = sdc_op'
  BY <1>1, <1>2, NotIssued, Zenon DEF Record, BusInv
<1> QED
  BY <1>1, <1>2, <1>13, <1>14, <1>15, Zenon DEF BusInv

\* An edge that neither issues a request nor belongs to an access.
LEMMA NoDqm ==
  ASSUME Sdc!Clk, ~Sdc!ReadWrite
  PROVE  Sdc!CountDqm
  BY Zenon DEF Sdc!Clk, Sdc!StartupPrecharge, Sdc!StartupLmr, Sdc!StartupDone, Sdc!StartupStep,
         Sdc!StartupWait, Sdc!Activate, Sdc!PrechargeRow, Sdc!RefreshPrecharge, Sdc!Refresh,
         Sdc!IdleNop, Sdc!BusyCount, Sdc!TerminateBurst

\* The access ends.
LEMMA AccessEnds ==
  ASSUME ControlInv, ControlInv', BusInv, ArbP!Next, Sdc!Clk, Chip!ChipClk, Masters,
         PostAccess, ~(Left > 0)
  PROVE  BusInv'
<1>1. ~Sdc!ReadWrite /\ ~PostAccess' /\ Left = 0
  BY PostAccessStep DEF ControlInv, SdcType, Left
<1>2. PICK o : o = sdc_op
  OBVIOUS
<1>3. IsOp(o)
  BY <1>2, LatchedOp
<1>4. PICK k \in 0 .. 9 : AccessAt(k)
  BY DEF BusInv
<1>5. PICK c \in Chan : c = arb_chan
  BY Same DEF ControlInv, ArbP!IInv, ArbP!TypeOK
<1>6. CommandAt(o, k) /\ ChipAt(o, k) /\ MasterAt(c, o, k) /\ Left + k = Length(o)
  BY <1>2, <1>4, <1>5, Zenon DEF AccessAt
<1>7. k = Length(o)
  BY <1>1, <1>6
<1>8. strobe' = strobe
  BY <1>1, NotIssued DEF ControlInv, StrobePipe
<1>9. Quiet'
  <2>1. command'.cmd \notin {"READ", "WRITE"}
    BY <1>1, NotIssued, Zenon DEF Issued
  <2>2. burst' = Chip!NoBurst /\ dq' = Chip!HighZ /\ read_cmd'.dir # "read"
    <3>1. Chip!ChipEdge
      BY AccessClocked, Zenon
    <3> QED
      BY <1>3, <1>6, <1>7, <3>1, ChipEnd, Zenon
  <2>3. dqm_on_counter = 0 \/ dqm_on_counter = 1
    <3>1. (o.burst = 1 /\ k \in {7, 9}) \/ (o.burst # 1 /\ k # 0)
      BY <1>3, <1>7 DEF Length, IsOp
    <3>2. dqm_on_counter = IF o.burst = 1 THEN (IF k < 8 THEN 8 - k ELSE 0)
                           ELSE (IF k = 0 THEN 1 ELSE 0)
      BY <1>6, Zenon DEF CommandAt
    <3> QED
      BY <3>1, <3>2
  <2>4. dqm_on_counter' = 0
    BY <1>1, <2>3, NoDqm DEF Sdc!CountDqm, Sdc!dqm_on
  <2> QED
    BY <2>1, <2>2, <2>4, Zenon DEF Quiet
<1>10. Rest(c)'
  BY <1>3, <1>6, <1>7, <1>8, MasterEnd, Zenon
<1>11. \A d \in Chan : d # c => Rest(d)'
  BY <1>5, <1>8, RestStep, Zenon DEF BusInv
<1> QED
  BY <1>1, <1>9, <1>10, <1>11, Zenon DEF BusInv

\* Nothing is under way and nothing begins.
LEMMA StaysQuiet ==
  ASSUME ControlInv, ControlInv', BusInv, ArbP!Next, Sdc!Clk, Chip!ChipClk, Masters,
         ~PostAccess, ~Sdc!ReadWrite
  PROVE  BusInv'
<1>1. ~PostAccess' /\ Quiet
  BY PostAccessStep, Zenon DEF BusInv
<1>2. strobe' = strobe
  <2>1. strobe' = strobe_r1
    BY NotIssued
  <2>2. ASSUME strobe_r1 # strobe PROVE FALSE
    <3>1. Taken /\ strobe_r2 = strobe_r1 /\ arb_state = "IDLE"
      BY <2>2, Zenon DEF ControlInv, StrobePipe, PostAccess
    <3>2. arb_op_start = strobe
      BY <3>1 DEF ControlInv, ArbP!IInv, ArbP!RequestIntact, ArbP!SdcAsked
    <3> QED
      BY <2>2, <3>1, <3>2, Zenon DEF Taken
  <2> QED
    BY <2>1, <2>2, Zenon
<1>3. Quiet'
  <2>1. command'.cmd \notin {"READ", "WRITE"}
    BY NotIssued, Zenon DEF Issued
  <2>2. burst' = Chip!NoBurst /\ dq' = Chip!HighZ /\ read_cmd'.dir # "read"
    BY <1>1, QuietChip, Zenon DEF Quiet
  <2>3. dqm_on_counter' = 0
    BY <1>1, NoDqm DEF Quiet, Sdc!CountDqm, Sdc!dqm_on
  <2> QED
    BY <2>1, <2>2, <2>3, Zenon DEF Quiet
<1> QED
  BY <1>1, <1>2, <1>3, RestStep, Zenon DEF BusInv

\* Every edge preserves the invariant.
LEMMA BusStep == ASSUME ControlInv, ControlInv', BusInv, [Next]_vars PROVE BusInv'
<1>1. CASE Next
  <2>1. ArbP!Next /\ Sdc!Clk /\ Chip!ChipClk /\ Masters /\ Record
    BY <1>1, ArbitratorStep, Zenon DEF Next
  <2> QED
    BY <2>1, AccessBegins, AccessGoesOn, AccessEnds, StaysQuiet, Zenon
<1>2. CASE UNCHANGED vars
  <2>1. /\ UNCHANGED <<arb_state, arb_chan, arb_op_start, sdc_op, arb_strobe, strobe_mux, strobe_reg>>
        /\ UNCHANGED <<mc_op_start, mc_op, mc_phase, mc_beat>> /\ UNCHANGED rw
    BY <1>2, Zenon DEF vars, arb_vars, mc_vars, history
  <2>2. /\ UNCHANGED <<sdc_state, command, busy_wait_counter, dqm_on_counter>>
        /\ UNCHANGED <<strobe, strobe_r1, strobe_r2>>
        /\ UNCHANGED <<open, read_cmd, dqm_reg1, burst, dq>>
    BY <1>2, Zenon DEF vars, Sdc!vars, Chip!vars
  <2>3. /\ PostAccess' <=> PostAccess
        /\ Left' = Left /\ (Quiet' <=> Quiet)
        /\ \A c : ArbP!Pending(c)' <=> ArbP!Pending(c)
    <3>1. PostAccess' <=> PostAccess
      BY <2>1, <2>2, Zenon DEF PostAccess, Taken
    <3>2. Left' = Left
      BY <2>2, Zenon DEF Left
    <3>3. Quiet' <=> Quiet
      BY <2>2, Zenon DEF Quiet
    <3>4. \A c : ArbP!Pending(c)' <=> ArbP!Pending(c)
      BY <2>1, <2>2, Zenon DEF ArbP!Pending, ArbP!op_strobe, ArbP!Xor
    <3> QED
      BY <3>1, <3>2, <3>3, <3>4, Zenon
  <2>4. \A k : CommandAt(sdc_op, k) => CommandAt(sdc_op, k)'
    BY <2>1, <2>2, Zenon DEF CommandAt
  <2>5. \A k : ChipAt(sdc_op, k) => ChipAt(sdc_op, k)'
    <3>1. \A k : WriteAt(sdc_op, k) => WriteAt(sdc_op, k)'
      BY <2>1, <2>2, Zenon DEF WriteAt
    <3>2. \A k : ReadAt(sdc_op, k) => ReadAt(sdc_op, k)'
      BY <2>1, <2>2 DEF ReadAt, Length
    <3> QED
      BY <2>1, <3>1, <3>2, Zenon DEF ChipAt
  <2>6. \A k : MasterAt(arb_chan, sdc_op, k) => MasterAt(arb_chan, sdc_op, k)'
    BY <2>1, <2>2, <2>3, Zenon DEF MasterAt
  <2>7. \A k : AccessAt(k) => AccessAt(k)'
    BY <2>1, <2>3, <2>4, <2>5, <2>6, Zenon DEF AccessAt
  <2>8. \A c : Rest(c) => Rest(c)'
    BY <2>1, <2>3, Zenon DEF Rest
  <2> QED
    BY <2>1, <2>3, <2>7, <2>8, Zenon DEF BusInv
<1> QED
  BY <1>1, <1>2

\* Every reachable state satisfies the invariant of the data bus.
THEOREM BusInvariance == Spec => []BusInv
<1>1. ControlInv /\ ControlInv' /\ BusInv /\ [Next]_vars => BusInv'
  BY BusStep
<1> QED
  BY <1>1, BusInit, Invariance, PTL DEF Spec

-----------------------------------------------------------------------------
(* What crosses the data bus.                                              *)

\* The controller, which drives the bus while dqm lets a write through, and the chip
\* never drive the bus in the same cycle, also when a read follows a write at once.
THEOREM BusNotContended == Spec => []NoContention
<1>1. BusInv => NoContention
  <2> SUFFICES ASSUME BusInv, Sdc!dqm_on, sdc_op.wren = 1 PROVE dq = Chip!HighZ
    BY Zenon DEF NoContention
  <2>1. PostAccess
    BY DEF BusInv, Quiet, Sdc!dqm_on
  <2> QED
    BY <2>1, Zenon DEF BusInv, AccessAt, ChipAt, WriteAt
<1> QED
  BY <1>1, BusInvariance, PTL

\* A master that takes a halfword does so two edges or more after its READ was
\* issued, and in the second only when it asked for a single halfword.
LEMMA SampledBeat ==
  ASSUME NEW c \in Chan, NEW o, IsOp(o), o.wren = 0, NEW k \in 0 .. 9, k <= Length(o),
         CommandAt(o, k), MasterAt(c, o, k),
         mc_phase[c] # "IDLE", mc_phase[c] = "WAIT" => ~ArbP!Pending(c)
  PROVE  /\ k >= 2 /\ (o.burst = 0 => k = 2)
         /\ mc_beat[c] = k - 2
<1>0. o.burst = 0 \/ o.burst = 1
  BY DEF IsOp
<1>1. k >= 2
  <2>1. ASSUME k < 2 PROVE FALSE
    <3>1. k <= 2 /\ ~(o.wren = 1 \/ k >= 2)
      BY <2>1
    <3>2. strobe # arb_op_start
      BY <3>1, Zenon DEF CommandAt
    <3> QED
      BY <3>1, <3>2, Zenon DEF MasterAt
  <2> QED
    BY <2>1
<1>2. ASSUME o.burst = 0 PROVE k = 2
  <2>1. ASSUME k # 2 PROVE FALSE
    <3>1. ~(k = 0 \/ (o.wren = 0 /\ k <= 2))
      BY <1>1, <2>1
    <3> QED
      BY <1>2, <3>1, Zenon DEF MasterAt
  <2> QED
    BY <2>1
<1>3. mc_beat[c] = k - 2
  <2>1. o.wren # 1 /\ ~(k < 2)
    BY <1>1
  <2>2. CASE o.burst = 1
    BY <2>1, <2>2, Zenon DEF MasterAt
  <2>3. CASE o.burst = 0
    <3>1. k = 2 /\ k - 2 = 0 /\ k <= 2
      BY <1>2, <2>3
    <3> QED
      BY <3>1, Zenon DEF MasterAt
  <2> QED
    BY <1>0, <2>2, <2>3
<1> QED
  BY <1>1, <1>2, <1>3

\* Every halfword a master takes is the one it expects: the strobe reaches the
\* channel in the cycle in which the chip drives the first halfword of the row.
THEOREM ReadsAligned == Spec => []ReadAligned
<1>1. ControlInv /\ BusInv => ReadAligned
  <2> SUFFICES ASSUME ControlInv, BusInv, NEW c \in Chan, Samples(c)
               PROVE  /\ dq # Chip!HighZ
                      /\ Where(dq) = Where(mc_op[c]) /\ dq.beat = mc_beat[c]
    BY Zenon DEF ReadAligned
  <2>1. /\ mc_op[c].wren = 0 /\ mc_phase[c] # "IDLE"
        /\ mc_phase[c] = "WAIT" => ~ArbP!Pending(c)
    BY Same DEF Samples, Served, ArbP!Pending
  <2>2. PostAccess /\ c = arb_chan
    BY <2>1, Zenon DEF BusInv, Rest
  <2>3. PICK k \in 0 .. 9 : AccessAt(k)
    BY <2>2, Zenon DEF BusInv
  <2>4. PICK o : o = sdc_op
    OBVIOUS
  <2>5. IsOp(o) /\ CommandAt(o, k) /\ ChipAt(o, k) /\ MasterAt(c, o, k)
    BY <2>2, <2>3, <2>4, LatchedOp, Zenon DEF AccessAt
  <2>6. mc_op[c] = o /\ o.wren = 0 /\ k <= Length(o)
    <3>1. PICK l \in Nat : l = Left
      BY LeftNat, Zenon
    <3>2. l + k = Length(o) /\ Length(o) \in Nat
      <4>1. l + k = Length(o)
        BY <2>3, <2>4, <3>1, Zenon DEF AccessAt
      <4> QED
        BY <4>1 DEF Length
    <3>3. mc_op[c] = o
      BY <2>5, Zenon DEF MasterAt
    <3>4. k <= Length(o)
      BY <3>2
    <3> QED
      BY <2>1, <3>3, <3>4, Zenon
  <2>7. k >= 2 /\ (o.burst = 0 => k = 2) /\ mc_beat[c] = k - 2
    BY <2>1, <2>5, <2>6, SampledBeat, Zenon
  <2>8. dq = Halfword(o, "read", k - 2)
    <3>1. o.wren # 1 /\ ~(k < 2 \/ (o.burst = 0 /\ k = 3))
      BY <2>6, <2>7
    <3> QED
      BY <2>5, <3>1, Zenon DEF ChipAt, ReadAt
  <2>9. dq.dir = "read" /\ dq.bank = o.bank /\ dq.row = o.row /\ dq.beat = k - 2
    BY <2>8 DEF Halfword
  <2> QED
    BY <2>6, <2>7, <2>9 DEF Where, Chip!NoBurst, Chip!HighZ
<1> QED
  BY <1>1, BusInvariance, Invariance, PTL

\* The write halfword the chip is about to take belongs to the access under way.
LEMMA WriteBeatAt ==
  ASSUME ControlInv, BusInv, Chip!WriteBeat.dir = "write"
  PROVE  PostAccess /\ sdc_op.wren = 1
         /\ \E k \in 0 .. 7 : /\ AccessAt(k) /\ ~(k > 0 /\ sdc_op.burst = 0)
                              /\ Chip!WriteBeat = Halfword(sdc_op, "write", k)
<1>0. Chip!NoBurst.dir = "none"
  BY DEF Chip!NoBurst
<1>1. PostAccess
  <2>1. ASSUME Quiet PROVE FALSE
    BY <1>0, <2>1 DEF Quiet, Chip!WriteBeat
  <2> QED
    BY <2>1, Zenon DEF BusInv
<1>2. PICK k \in 0 .. 9 : AccessAt(k)
  BY <1>1, Zenon DEF BusInv
<1> DEFINE o == sdc_op
<1> HIDE DEF o
<1>3. /\ Left + k = Length(o) /\ CommandAt(o, k) /\ ChipAt(o, k) /\ IsOp(o) /\ Left \in Nat
  BY <1>2, LatchedOp, LeftNat, Zenon DEF AccessAt, o
<1>4. k <= Length(o)
  <2>1. Length(o) \in {1, 3, 7, 9}
    BY DEF Length
  <2> QED
    BY <1>3, <2>1
<1>5. o.wren = 1
  <2>1. ASSUME o.wren = 0 PROVE FALSE
    <3>1. o.wren # 1
      BY <2>1
    <3>2. ReadAt(o, k)
      BY <1>3, <3>1, Zenon DEF ChipAt
    <3> QED
      BY <1>0, <1>3, <1>4, <2>1, <3>2, NothingWritten
  <2> QED
    BY <1>3, <2>1 DEF IsOp
<1>6. k \in 0 .. 7 /\ (o.burst = 0 => k <= 1)
  BY <1>4, <1>5 DEF Length
<1>7. ~(k > 0 /\ o.burst = 0)
  <2>1. ASSUME k > 0, o.burst = 0 PROVE FALSE
    <3>1. k = 1
      BY <1>6, <2>1
    <3>2. command.cmd = "BURST_TERMINATE"
      BY <1>3, <2>1, <3>1, Zenon DEF CommandAt
    <3> QED
      BY <1>0, <3>2, WriteBeatCases
  <2> QED
    BY <2>1, Zenon
<1>8. Chip!WriteBeat = Halfword(o, "write", k)
  <2>1. CASE k = 0
    <3>1. command.cmd = "WRITE" /\ Chip!Start("write") = Halfword(o, "write", 0)
      BY <1>3, <1>5, <2>1, StartHalfword, Zenon DEF CommandAt
    <3> QED
      BY <2>1, <3>1, WriteBeatCases, Zenon
  <2>2. CASE k > 0
    <3>1. command.cmd = "NOP" /\ burst = Halfword(o, "write", k) /\ burst.dir = "write"
      <4>1. k # 0 /\ ~(k = 1 /\ o.burst = 0)
        BY <1>7, <2>2
      <4>2. command.cmd = "NOP"
        BY <1>3, <2>2, <4>1, Zenon DEF CommandAt
      <4>3. burst = Halfword(o, "write", k)
        BY <1>3, <1>5, <4>1, Zenon DEF ChipAt, WriteAt
      <4> QED
        BY <4>2, <4>3 DEF Halfword
    <3> QED
      BY <3>1, WriteBeatCases, Zenon
  <2> QED
    BY <2>1, <2>2
<1> QED
  BY <1>1, <1>2, <1>5, <1>6, <1>7, <1>8, Zenon DEF o

\* Every halfword the chip writes is the one the master that asked for the write
\* offers in that cycle, on the channel the arbitrator still multiplexes.
THEOREM WritesAligned == Spec => []WriteAligned
<1>1. ControlInv /\ BusInv => WriteAligned
  <2> SUFFICES ASSUME ControlInv, BusInv, Chip!WriteBeat.dir = "write"
               PROVE  /\ sdc_op.wren = 1
                      /\ Where(Chip!WriteBeat) = Where(mc_op[arb_chan]) /\ mc_op[arb_chan].wren = 1
                      /\ Chip!WriteBeat.beat = mc_beat[arb_chan]
    BY Zenon DEF WriteAligned
  <2>1. PICK k \in 0 .. 7 : /\ AccessAt(k) /\ ~(k > 0 /\ sdc_op.burst = 0)
                            /\ Chip!WriteBeat = Halfword(sdc_op, "write", k)
    BY WriteBeatAt, Zenon
  <2>2. MasterAt(arb_chan, sdc_op, k) /\ sdc_op.wren = 1 /\ sdc_op.burst \in {0, 1}
    BY <2>1, WriteBeatAt, LatchedOp, Zenon DEF AccessAt, IsOp
  <2>3. mc_beat[arb_chan] = k /\ mc_op[arb_chan] = sdc_op
    <3>1. CASE sdc_op.burst = 1
      BY <2>2, <3>1, Zenon DEF MasterAt
    <3>2. CASE sdc_op.burst = 0
      <4>1. k = 0
        BY <2>1, <3>2
      <4> QED
        BY <2>2, <4>1, Zenon DEF MasterAt
    <3> QED
      BY <2>2, <3>1, <3>2
  <2>4. /\ Chip!WriteBeat.bank = sdc_op.bank /\ Chip!WriteBeat.row = sdc_op.row
        /\ Chip!WriteBeat.beat = k
    BY <2>1 DEF Halfword
  <2> QED
    BY <2>2, <2>3, <2>4, Zenon DEF Where
<1> QED
  BY <1>1, BusInvariance, Invariance, PTL

\* A burst once begun is written to its last halfword: no command and no dqm cuts it
\* short, whatever is requested, due for refresh or granted in the meantime.
THEOREM BurstsWritten == Spec => BurstWritten
<1>1. ASSUME ControlInv, BusInv, BusInv', [Next]_vars,
             Chip!WriteBeat.dir = "write", Chip!WriteBeat.beat < 7, rw.burst = 1, Next
      PROVE  /\ Sdc!dqm_on'
             /\ Chip!WriteBeat' = [Chip!WriteBeat EXCEPT !.beat = @ + 1]
  <2>1. ArbP!Next /\ Sdc!Clk
    BY <1>1, ArbitratorStep DEF Next
  <2>2. PostAccess /\ sdc_op.wren = 1
    BY <1>1, WriteBeatAt, Zenon
  <2>3. PICK k \in 0 .. 7 : AccessAt(k) /\ Chip!WriteBeat = Halfword(sdc_op, "write", k)
    BY <1>1, WriteBeatAt, Zenon
  <2>4. PICK o : o = sdc_op /\ o.burst = 1 /\ o.wren = 1 /\ k < 7 /\ Length(o) = 7
    <3>1. rw = sdc_op /\ k < 7
      BY <1>1, <2>2, <2>3 DEF BusInv, Halfword
    <3> QED
      BY <1>1, <2>2, <3>1 DEF Length
  <2>5. PICK l \in Nat : l = Left /\ l + k = 7 /\ l > 0
    <3>1. Left \in Nat /\ Left + k = 7
      BY <1>1, <2>3, <2>4, LeftNat, Zenon DEF AccessAt
    <3> QED
      BY <2>4, <3>1
  <2>6. PostAccess' /\ Left' = l - 1 /\ sdc_op' = o
    <3>1. ~Sdc!ReadWrite /\ PostAccess' /\ sdc_op' = sdc_op
      <4>1. Left > 0
        BY <2>5, Zenon
      <4>2. arb_state # "IDLE"
        BY <2>2 DEF PostAccess
      <4> QED
        BY <1>1, <2>1, <2>2, <4>1, <4>2, PostAccessStep, ChannelKept, Zenon
    <3>2. sdc_state # "STARTUP"
      BY <1>1, <2>5 DEF ControlInv, StrobePipe
    <3> QED
      BY <1>1, <2>1, <2>4, <2>5, <3>1, <3>2, SdcCases, Zenon
  <2>7. PICK n \in 0 .. 9 : AccessAt(n)'
    BY <1>1, <2>6 DEF BusInv
  <2>8. /\ (l - 1) + n = 7 /\ CommandAt(o, n)' /\ WriteAt(o, n)'
    <3>1. /\ Left' + n = Length(sdc_op') /\ CommandAt(sdc_op, n)' /\ ChipAt(sdc_op, n)'
      BY <2>7, Zenon DEF AccessAt
    <3>2. CommandAt(o, n)' /\ ChipAt(o, n)'
      BY <2>6, <3>1, Zenon DEF CommandAt, ChipAt, WriteAt, ReadAt
    <3>3. Left' + n = 7
      BY <2>4, <2>6, <3>1, Zenon
    <3>4. WriteAt(o, n)'
      BY <2>4, <3>2, Zenon DEF ChipAt
    <3> QED
      BY <2>6, <3>2, <3>3, <3>4, Zenon
  <2>9. n = k + 1 /\ n \in 1 .. 7
    BY <2>4, <2>5, <2>8
  <2>10. /\ command'.cmd = "NOP" /\ dqm_on_counter' = 8 - n
         /\ burst' = Halfword(o, "write", n)
    <3>1. n # 0 /\ n > 0 /\ n < 8 /\ ~(n = 1 /\ o.burst = 0)
      BY <2>4, <2>9
    <3>2. command'.cmd = "NOP"
      BY <2>8, <3>1, Zenon DEF CommandAt
    <3>3. dqm_on_counter' = 8 - n
      BY <2>4, <2>8, <3>1, Zenon DEF CommandAt
    <3> QED
      BY <2>8, <3>1, <3>2, <3>3, Zenon DEF WriteAt
  <2>11. Sdc!dqm_on'
    <3>1. 8 - n > 0
      BY <2>9
    <3> QED
      BY <2>10, <3>1 DEF Sdc!dqm_on
  <2>12. Chip!WriteBeat' = Halfword(o, "write", n)
    <3>1. burst'.dir = "write"
      BY <2>10 DEF Halfword
    <3> QED
      BY <2>10, <3>1, WriteBeatNext, Zenon
  <2>13. Halfword(o, "write", n) = [Halfword(o, "write", k) EXCEPT !.beat = @ + 1]
    BY <2>9 DEF Halfword
  <2> QED
    BY <2>3, <2>4, <2>11, <2>12, <2>13, Zenon
<1>2. ControlInv /\ BusInv /\ BusInv' /\ [Next]_vars =>
        [LET w == Chip!WriteBeat IN
         w.dir = "write" /\ w.beat < 7 /\ rw.burst = 1 =>
           /\ Sdc!dqm_on'
           /\ Chip!WriteBeat' = [w EXCEPT !.beat = @ + 1]]_vars
  BY <1>1, Zenon
<1> QED
  BY <1>2, BusInvariance, Invariance, PTL DEF Spec, BurstWritten
=============================================================================
