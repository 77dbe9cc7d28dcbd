------------------------------- MODULE ReadCache -------------------------------
(***************************************************************************)
(* The instruction cache (readcache_256x4x32.vhd) and the memory behind    *)
(* its channel.  One step is one rising edge of clk.  The RAMs are clocked *)
(* half a period later and show what they write (NEW_DATA), so an edge     *)
(* sees what the write enables set by the previous edge did: MetaRam,      *)
(* DataRam.                                                                *)
(***************************************************************************)
EXTENDS Bits

CONSTANTS NLines,     \* lines of the cache: 256 in the source
          NTags,      \* addresses that share a line
          Fill        \* what the data RAM holds initially

ASSUME ReadCacheAssumption == NLines \in Nat \ {0} /\ NTags \in Nat \ {0}

Word == 0 .. 3
Line == 0 .. NLines - 1
Addr == 0 .. 4 * NLines * NTags - 1           \* of instructions: pc without "00"
LineOf(a) == (a \div 4) % NLines              \* addr(11 downto 4)
TagOf(a) == a \div (4 * NLines)               \* addr(24 downto 12)
LineBase(a) == 4 * (a \div 4)

VARIABLES
  pc, flush,                               \* of ifetch
  ic_state, ic_wait,                       \* state; WAIT with ic_wait = n is WAIT_Bn
  meta, data,                              \* the RAMs
  meta_wren, line_valid, data_wren,        \* data_wren: the words whose dataN_wren is set
  write_data,                              \* low and high half
  ic_op_start, flush_ack, flush_enable, flush_addr,
  imem, ic_strobe, ic_beat                 \* the memory behind mc_out

ic_vars == <<ic_state, ic_wait, meta, data, meta_wren, line_valid, data_wren,
             write_data, ic_op_start, flush_ack, flush_enable, flush_addr>>
imem_vars == <<ic_strobe, ic_beat>>

\* Definitions named X_<fault> are faults injected into X to validate the
\* properties; no specification uses them.

\* The memory's data bus: half h of word w of the line; nothing between bursts.
NoBeat == 8
NoHalf == [val |-> Fill, half |-> 2]
sdc_data_out == IF ic_beat = NoBeat THEN NoHalf
                ELSE [val |-> imem[LineBase(pc) + ic_beat \div 2], half |-> ic_beat % 2]

\* What two halves make: the word they came from, or garbage.
Joined(d) == IF d[1].val = d[2].val /\ d[1].half = 0 /\ d[2].half = 1
             THEN d[1].val ELSE Fill

\* The RAMs at an edge.
meta_addr == IF flush_enable = 0 THEN LineOf(pc) ELSE flush_addr
MetaRam == IF meta_wren = 1
           THEN [meta EXCEPT ![meta_addr] = [tag |-> TagOf(pc), valid |-> line_valid]]
           ELSE meta
DataRam == [l \in Line |-> IF l # LineOf(pc) THEN data[l]
             ELSE [w \in Word |-> IF w \in data_wren THEN Joined(write_data) ELSE data[l][w]]]

hit == MetaRam[meta_addr] = [tag |-> TagOf(pc), valid |-> 1]
inst == DataRam[LineOf(pc)][pc % 4]

IcInit == /\ ic_state = "IDLE" /\ ic_wait = 1
          /\ meta = [l \in Line |-> [tag |-> 0, valid |-> 0]]
          /\ data = [l \in Line |-> [w \in Word |-> Fill]]
          /\ meta_wren = 0 /\ line_valid = 1 /\ data_wren = {}
          /\ write_data = <<NoHalf, NoHalf>>
          /\ ic_op_start = 0 /\ flush_ack = 0 /\ flush_enable = 0 /\ flush_addr = 0
          /\ ic_strobe = 0 /\ ic_beat = NoBeat

-----------------------------------------------------------------------------
(* The process of the cache.                                               *)

\* RAMs and the halfword shifted in at every edge.
IcEdge == /\ meta' = MetaRam /\ data' = DataRam
          /\ write_data' = <<write_data[2], sdc_data_out>>

Invalidate == meta_wren' = 1 /\ line_valid' = 0
NoMeta == meta_wren' = 0 /\ line_valid' = 1

FlushStart == /\ ic_state = "IDLE" /\ flush # flush_ack
              /\ ic_state' = "FLUSH_CACHE"
              /\ flush_enable' = 1 /\ flush_addr' = NLines - 1
              /\ Invalidate /\ data_wren' = {}
              /\ UNCHANGED <<ic_wait, ic_op_start, flush_ack>>

Miss == /\ ic_state = "IDLE" /\ flush = flush_ack /\ ~hit
        /\ ic_state' = "WAIT" /\ ic_wait' = 1
        /\ ic_op_start' = Flip(ic_op_start)
        /\ Invalidate /\ data_wren' = {}
        /\ UNCHANGED <<flush_ack, flush_enable, flush_addr>>

IcIdle == /\ ic_state = "IDLE" /\ flush = flush_ack /\ hit
          /\ NoMeta /\ data_wren' = {}
          /\ UNCHANGED <<ic_state, ic_wait, ic_op_start, flush_ack, flush_enable, flush_addr>>

FlushAcked_kept == flush_ack
FlushAcked == Flip(flush_ack)
FlushLine == /\ ic_state = "FLUSH_CACHE"
             /\ Invalidate /\ data_wren' = {}
             /\ \/ /\ flush_addr = 0
                   /\ ic_state' = "IDLE"
                   /\ flush_enable' = 0 /\ flush_ack' = FlushAcked
                   /\ UNCHANGED flush_addr
                \/ /\ flush_addr # 0
                   /\ flush_addr' = flush_addr - 1
                   /\ UNCHANGED <<ic_state, flush_enable, flush_ack>>
             /\ UNCHANGED <<ic_wait, ic_op_start>>

WaitStrobe == /\ ic_state = "WAIT" /\ ic_wait = 1
              /\ ic_wait' = IF ic_strobe = ic_op_start THEN 2 ELSE 1
              /\ NoMeta /\ data_wren' = {}
              /\ UNCHANGED <<ic_state, ic_op_start, flush_ack, flush_enable, flush_addr>>

\* WAIT_B2, B4, B6 and B8 write a word; WAIT_B8 makes the line valid.
ValidAt_firstWord(n) == n = 2
ValidAt(n) == n = 8
WaitBeat == /\ ic_state = "WAIT" /\ ic_wait # 1
            /\ data_wren' = IF ic_wait % 2 = 0 THEN {ic_wait \div 2 - 1} ELSE {}
            /\ meta_wren' = (IF ValidAt(ic_wait) THEN 1 ELSE 0) /\ line_valid' = 1
            /\ ic_state' = IF ic_wait = 8 THEN "IDLE" ELSE "WAIT"
            /\ ic_wait' = IF ic_wait = 8 THEN 1 ELSE ic_wait + 1
            /\ UNCHANGED <<ic_op_start, flush_ack, flush_enable, flush_addr>>

IcClk == /\ IcEdge
         /\ FlushStart \/ Miss \/ IcIdle \/ FlushLine \/ WaitStrobe \/ WaitBeat

(* The memory: a burst starts some time after it was asked for, with the   *)
(* strobe, and delivers a halfword at every edge.                          *)
BurstStart == /\ ic_op_start # ic_strobe /\ ic_beat = NoBeat
              /\ ic_strobe' = ic_op_start /\ ic_beat' = 0
BurstWait == /\ ic_beat = NoBeat
             /\ UNCHANGED imem_vars
BurstBeat == /\ ic_beat # NoBeat
             /\ ic_beat' = ic_beat + 1
             /\ UNCHANGED ic_strobe
ImemClk == BurstStart \/ BurstWait \/ BurstBeat
=============================================================================
