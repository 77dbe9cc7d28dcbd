---------------------------- MODULE ReadWriteCache ----------------------------
(***************************************************************************)
(* The data cache (readwritecache_256x4x32.vhd) between the load and store *)
(* states of iexec and its memory channel.  One step is one rising edge of *)
(* clk.  The RAMs are clocked half a period later, so an edge sees what    *)
(* the write enables set by the previous edge have written: MetaQ, LineQ.  *)
(*                                                                         *)
(* The cache is direct mapped and indices do not interact: one index is    *)
(* modelled, the addresses that map to it differ in their tag.  A halfword *)
(* stands for its two bytes, which the code treats alike, and carries one  *)
(* byte-enable bit.  Data are 0, 1 and Undef, what a bus nobody drives and *)
(* a byte nobody wrote hold: only the halfword watch of WatchTag is ever   *)
(* written with both 0 and 1, so a read that returns anything but its last *)
(* value shows.                                                            *)
(***************************************************************************)
EXTENDS Bits, FiniteSets

CONSTANTS Tag, WatchTag,
          NWords,         \* words of a line: 4 in the source
          WatchBeats      \* the halfwords of a line that may be watched

Half == 0 .. 1
Word == 0 .. NWords - 1
Beats == 2 * NWords            \* halfwords of a line
Beat == 0 .. Beats - 1

ASSUME CacheAssumption == /\ WatchTag \in Tag /\ NWords \in Nat \ {0}
                          /\ WatchBeats \subseteq Beat

Undef == 2

VARIABLES
  cpu,                                  \* iexec: IDLE, WAIT (LS_WAIT), TAKE, DONE
  tag, word, wren, byteena, write_data, \* dcache_addr, dcache_wren, ...
  start, write_strobe_save,
  state, start_save, write_strobe, counter,
  meta, line,                           \* the RAMs
  meta_wren, meta_valid, meta_dirty,    \* meta_wren and meta_write
  data_wren,                            \* the words whose dataN_wren is set
  cwdata, cwbyteena, cache_byteena,     \* cache_write_data, its byteena bits
  mc_op_start, mc_tag, mc_wren, mc_dqm, mc_data,   \* mc_in
  op_strobe, mem, mem_beat, mem_op,                \* the memory behind mc_out
  watch, expected                       \* history: the watched halfword

cpu_vars == <<cpu, tag, word, wren, byteena, write_data, start, write_strobe_save>>
ram_vars == <<meta, line>>
wr_vars == <<meta_wren, meta_valid, meta_dirty, data_wren, cwdata, cwbyteena, cache_byteena>>
mc_vars == <<mc_op_start, mc_tag, mc_wren, mc_dqm, mc_data>>
mem_vars == <<op_strobe, mem, mem_beat, mem_op>>
vars == <<cpu_vars, state, start_save, write_strobe, counter, ram_vars, wr_vars,
          mc_vars, mem_vars, watch, expected>>

\* Definitions named X_<fault> are faults injected into X to validate the
\* properties; no specification uses them.

\* The RAM outputs at an edge.
MetaQ == IF meta_wren = 1 THEN [tag |-> tag, valid |-> meta_valid, dirty |-> meta_dirty]
         ELSE meta
LineQ == [w \in Word |-> [h \in Half |->
           IF w \in data_wren /\ h \in cache_byteena
           THEN [en |-> cwbyteena, val |-> cwdata[h]] ELSE line[w][h]]]

line_hit == MetaQ.valid = 1 /\ MetaQ.tag = tag
hit_noByteena == line_hit
hit == line_hit /\ \A h \in byteena : LineQ[word][h].en = 1

HalfAt(k) == LineQ[k \div 2][k % 2]

\* The memory's data bus.
NoBeat == Beats
sdc_data_out == IF mem_beat # NoBeat /\ mem_op.wren = 0
                THEN mem[mem_op.tag][mem_beat] ELSE Undef

-----------------------------------------------------------------------------
(* iexec: LS_1 starts an access, LS_WAIT waits for hit or write_strobe, a  *)
(* load's data are written to the register file at the edge after.         *)

CpuKeep == UNCHANGED <<tag, word, wren, byteena, write_data, start>>

\* Values a store may write to each half of word w of tag t.
StoreData(t, w) == {d \in [Half -> Bit] :
  \A h \in Half : (t = WatchTag /\ 2 * w + h = watch) \/ d[h] = 0}

CpuStart == /\ cpu = "IDLE"
            /\ cpu' = "WAIT"
            /\ tag' \in Tag /\ word' \in Word
            /\ \/ wren' = 0 /\ byteena' \in (SUBSET Half) \ {{}} /\ write_data' = [h \in Half |-> Undef]
               \/ wren' = 1 /\ byteena' \in SUBSET Half
                  /\ write_data' \in StoreData(tag', word')
            /\ start' = Flip(start)
            /\ UNCHANGED write_strobe_save

CpuLoadHit == /\ cpu = "WAIT" /\ wren = 0 /\ hit
              /\ cpu' = "TAKE"
              /\ CpuKeep /\ UNCHANGED write_strobe_save

CpuStoreDone == /\ cpu = "WAIT" /\ wren = 1 /\ write_strobe # write_strobe_save
                /\ cpu' = "DONE"
                /\ write_strobe_save' = Flip(write_strobe_save)
                /\ CpuKeep

CpuRun == /\ cpu \in {"TAKE", "DONE"}
          /\ cpu' = "IDLE"
          /\ CpuKeep /\ UNCHANGED write_strobe_save

CpuHold == /\ \/ cpu = "IDLE"
              \/ cpu = "WAIT" /\ wren = 0 /\ ~hit
              \/ cpu = "WAIT" /\ wren = 1 /\ write_strobe = write_strobe_save
           /\ UNCHANGED cpu_vars

CpuClk == CpuStart \/ CpuLoadHit \/ CpuStoreDone \/ CpuRun \/ CpuHold

-----------------------------------------------------------------------------
(* The cache.  RamClk is what the write enables of the previous edge did.  *)

RamClk == meta' = MetaQ /\ line' = LineQ

\* Defaults of the process.
NoData == data_wren' = {}
NoMeta == meta_wren' = 0 /\ meta_valid' = 1 /\ UNCHANGED meta_dirty
ShiftData == cwdata' = [h \in Half |-> IF h = 0 THEN cwdata[1] ELSE sdc_data_out]
KeepChannel == UNCHANGED mc_vars
KeepEnables == UNCHANGED <<cwbyteena, cache_byteena>>

SetMeta(valid, dirty) == meta_wren' = 1 /\ meta_valid' = valid /\ meta_dirty' = dirty

Pending == state = "IDLE" /\ start # start_save

\* The line takes the store.
DirtyAfterWrite_flushClears == IF byteena # {} THEN 1 ELSE 0
DirtyAfterWrite == IF byteena # {} THEN 1 ELSE MetaQ.dirty
CacheWrite ==
  /\ Pending /\ wren = 1 /\ line_hit
  /\ start_save' = Flip(start_save)
  /\ write_strobe' = Flip(write_strobe)
  /\ cwdata' = write_data /\ cwbyteena' = 1 /\ cache_byteena' = byteena
  /\ SetMeta(1, DirtyAfterWrite)
  /\ data_wren' = {word}
  /\ expected' = IF tag = WatchTag /\ watch \div 2 = word /\ watch % 2 \in byteena
                 THEN write_data[watch % 2] ELSE expected
  /\ KeepChannel /\ UNCHANGED <<state, counter>>

\* A dirty line of another tag, or one that lacks the bytes asked for, is stored.
Misses == Pending /\ ~hit /\ ~(wren = 1 /\ line_hit)
LineDirty_otherTag == MetaQ.dirty = 1 /\ ~line_hit
LineDirty == MetaQ.dirty = 1
StoreTag_requested == tag
StoreTag == MetaQ.tag
CacheStore ==
  /\ Misses /\ LineDirty
  /\ mc_op_start' = Flip(mc_op_start)
  /\ mc_tag' = StoreTag /\ mc_wren' = 1
  /\ mc_dqm' = 1 - HalfAt(0).en /\ mc_data' = HalfAt(0).val
  /\ meta_wren' = 0 /\ meta_valid' = 1 /\ meta_dirty' = 0
  /\ state' = "STORE_LINE" /\ counter' = 0
  /\ NoData /\ ShiftData /\ KeepEnables
  /\ UNCHANGED <<start_save, write_strobe, expected>>

\* A clean line is loaded; hit going high tells iexec.
LoadByteena_kept == cache_byteena
LoadByteena == Half
CacheLoad ==
  /\ Misses /\ ~LineDirty /\ wren = 0
  /\ start_save' = Flip(start_save)
  /\ mc_op_start' = Flip(mc_op_start)
  /\ mc_tag' = tag /\ mc_wren' = 0 /\ mc_dqm' = 0 /\ UNCHANGED mc_data
  /\ SetMeta(0, 0)
  /\ cwbyteena' = 1 /\ cache_byteena' = LoadByteena
  /\ state' = "LOAD_LINE" /\ counter' = 0
  /\ NoData /\ ShiftData
  /\ UNCHANGED <<write_strobe, expected>>

\* A store that misses gets an empty line; the next edge writes it.
InitStart_taken == Flip(start_save)
InitStart == start_save
CacheInitialize ==
  /\ Misses /\ ~LineDirty /\ wren = 1
  /\ SetMeta(1, 0)
  /\ cwbyteena' = 0 /\ cache_byteena' = Half
  /\ data_wren' = Word
  /\ start_save' = InitStart
  /\ ShiftData /\ KeepChannel
  /\ UNCHANGED <<state, write_strobe, counter, expected>>

\* A load that hits.
CacheReadHit ==
  /\ Pending /\ wren = 0 /\ hit
  /\ start_save' = Flip(start_save)
  /\ NoData /\ NoMeta /\ ShiftData /\ KeepEnables /\ KeepChannel
  /\ UNCHANGED <<state, write_strobe, counter, expected>>

\* LOAD_LINE: halfwords arrive on consecutive edges from the strobe on; every
\* second one completes a word, the last one validates the line.
LoadBeat ==
  /\ state = "LOAD_LINE" /\ op_strobe = mc_op_start
  /\ counter' = (counter + 1) % Beats
  /\ data_wren' = IF counter % 2 = 1 THEN {counter \div 2} ELSE {}
  /\ IF counter = Beats - 1 THEN state' = "IDLE" /\ meta_wren' = 1 ELSE state' = state /\ meta_wren' = 0
  /\ meta_valid' = 1 /\ UNCHANGED meta_dirty
  /\ ShiftData /\ KeepEnables /\ KeepChannel
  /\ UNCHANGED <<start_save, write_strobe, expected>>

\* STORE_LINE: each edge from the strobe on offers the next halfword, masked by
\* dqm unless its bytes are enabled; the last one invalidates the line.
StoreDqm(k) == 1 - HalfAt(k).en
StoreBeat ==
  /\ state = "STORE_LINE" /\ op_strobe = mc_op_start
  /\ counter' = (counter + 1) % Beats
  /\ mc_dqm' = StoreDqm(counter + 1) /\ mc_data' = HalfAt(counter + 1).val
  /\ IF counter = Beats - 2
     THEN state' = "IDLE" /\ meta_wren' = 1 /\ meta_valid' = 0
     ELSE state' = state /\ meta_wren' = 0 /\ meta_valid' = 1
  /\ NoData /\ ShiftData /\ KeepEnables
  /\ UNCHANGED <<mc_op_start, mc_tag, mc_wren, meta_dirty, start_save, write_strobe, expected>>

CacheHold ==
  /\ \/ state = "IDLE" /\ start = start_save
     \/ state # "IDLE" /\ op_strobe # mc_op_start
  /\ NoData /\ NoMeta /\ ShiftData /\ KeepEnables /\ KeepChannel
  /\ UNCHANGED <<state, start_save, write_strobe, counter, expected>>

CacheClk == /\ RamClk
            /\ \/ CacheWrite \/ CacheStore \/ CacheLoad \/ CacheInitialize
               \/ CacheReadHit \/ LoadBeat \/ StoreBeat \/ CacheHold

-----------------------------------------------------------------------------
(* The memory as MemorySystem provides it (ReadAligned, WriteAligned): a    *)
(* request is answered after any delay; with the strobe begins a run of     *)
(* consecutive beats.                                                       *)

MemStart == /\ mem_beat = NoBeat /\ op_strobe # mc_op_start
            /\ op_strobe' = mc_op_start
            /\ mem_beat' = 0
            /\ mem_op' = [tag |-> mc_tag, wren |-> mc_wren]
            /\ UNCHANGED mem

MemBeat == /\ mem_beat # NoBeat
           /\ mem_beat' = mem_beat + 1
           /\ mem' = IF mem_op.wren = 1 /\ mc_dqm = 0
                     THEN [mem EXCEPT ![mem_op.tag][mem_beat] = mc_data] ELSE mem
           /\ UNCHANGED <<op_strobe, mem_op>>

MemIdle == mem_beat = NoBeat /\ UNCHANGED <<op_strobe, mem, mem_beat, mem_op>>

MemClk == MemStart \/ MemBeat \/ MemIdle

Init == /\ cpu = "IDLE"
        /\ tag = WatchTag /\ word = 0 /\ wren = 0 /\ byteena = Half
        /\ write_data = [h \in Half |-> Undef] /\ start = 0 /\ write_strobe_save = 0
        /\ state = "IDLE" /\ start_save = 0 /\ write_strobe = 0 /\ counter = 0
        /\ meta = [tag |-> WatchTag, valid |-> 0, dirty |-> 0]
        /\ line = [w \in Word |-> [h \in Half |-> [en |-> 0, val |-> Undef]]]
        /\ meta_wren = 0 /\ meta_valid = 0 /\ meta_dirty = 0 /\ data_wren = {}
        /\ cwdata = [h \in Half |-> Undef] /\ cwbyteena = 0 /\ cache_byteena = {}
        /\ mc_op_start = 0 /\ mc_tag = WatchTag /\ mc_wren = 0 /\ mc_dqm = 0 /\ mc_data = Undef
        /\ op_strobe = 0 /\ mem_beat = NoBeat
        /\ mem_op = [tag |-> WatchTag, wren |-> 0]
        /\ mem = [t \in Tag |-> [k \in Beat |-> 0]]
        /\ watch \in WatchBeats /\ expected = 0

Next == CpuClk /\ CacheClk /\ MemClk /\ UNCHANGED watch

Spec == Init /\ [][Next]_vars

\* The clock runs: WF_vars(Next), where every change of vars is a Next step.  The
\* memory answers (MemorySystem: CachesServed), as it always may.
FairSpec == /\ Spec
            /\ []<>(~ENABLED <<Next>>_vars) \/ []<><<TRUE>>_vars
            /\ []<>(op_strobe = mc_op_start)
-----------------------------------------------------------------------------
(* Properties.                                                             *)

Watched(h) == tag = WatchTag /\ 2 * word + h = watch

\* A load returns the value stored last to its address, whatever was evicted,
\* partially written, flushed or reloaded in between.
ReadsLastWrite == cpu = "TAKE" =>
  \A h \in byteena : Watched(h) => LineQ[word][h].val = expected

\* Once a store with no byte enabled to an alias of a line has completed, memory
\* holds what was stored to the line (the flush of lines 200-204, on which
\* DMA from memory relies).
FlushWritesBack == cpu = "DONE" /\ byteena = {} /\ tag # WatchTag =>
  mem[WatchTag][watch] = expected

\* The last value stored is never lost: it is in the line, or in memory, or on
\* its way there in a store that has not reached its beat yet.
InLine == /\ MetaQ.valid = 1 /\ MetaQ.tag = WatchTag
          /\ HalfAt(watch).en = 1
InStore == /\ state = "STORE_LINE" \/ (mem_beat # NoBeat /\ mem_op.wren = 1)
           /\ mc_tag = WatchTag
NeverLost == \/ InLine /\ HalfAt(watch).val = expected
             \/ ~InLine /\ mem[WatchTag][watch] = expected
             \/ InStore

\* A line whose halfword differs from memory is dirty: an eviction never skips
\* the store of a line that needs it.
DirtyWhenNewer == InLine /\ state = "IDLE" /\ mem[WatchTag][watch] # HalfAt(watch).val
                  => MetaQ.dirty = 1

\* The bytes a RAM write leaves alone are undefined on its output in that cycle
\* (read-during-write mode of ram1p_256x36_byteena); nobody looks at them then.
UndefinedNotRead == data_wren # {} /\ cache_byteena # Half =>
  /\ state = "IDLE" /\ start = start_save
  /\ ~(cpu \in {"WAIT", "TAKE"} /\ wren = 0)

\* INITIALIZE LINE is followed by the write, with no step in between ("XXX
\* Invariant: Must be followed by write", line 257).
Initialized == data_wren = Word /\ cwbyteena = 0
InitThenWrite == [][Initialized => CacheWrite]_vars

\* Every load and store completes: iexec never stays in LS_WAIT.
AccessCompletes == []<>(cpu # "WAIT")
=============================================================================
