------------------------- MODULE ReadWriteCache_proofs -------------------------
(***************************************************************************)
(* Proofs about ReadWriteCache for every set of tags, every line length    *)
(* and every halfword watched: loads return the last store, and no store   *)
(* is lost between line and memory.                                        *)
(***************************************************************************)
EXTENDS ReadWriteCache, TLAPS

Value == 0 .. 2
HalfWord == [en : Bit, val : Value]
Meta == [tag : Tag, valid : Bit, dirty : Bit]

TypeInv ==
  /\ cpu \in {"IDLE", "WAIT", "TAKE", "DONE"}
  /\ tag \in Tag /\ word \in Word /\ wren \in Bit /\ byteena \in SUBSET Half
  /\ write_data \in [Half -> Value] /\ start \in Bit /\ write_strobe_save \in Bit
  /\ state \in {"IDLE", "STORE_LINE", "LOAD_LINE"}
  /\ start_save \in Bit /\ write_strobe \in Bit /\ counter \in Beat
  /\ meta \in Meta /\ line \in [Word -> [Half -> HalfWord]]
  /\ meta_wren \in Bit /\ meta_valid \in Bit /\ meta_dirty \in Bit
  /\ data_wren \in SUBSET Word
  /\ cwdata \in [Half -> Value] /\ cwbyteena \in Bit /\ cache_byteena \in SUBSET Half
  /\ mc_op_start \in Bit /\ mc_tag \in Tag /\ mc_wren \in Bit /\ mc_dqm \in Bit
  /\ mc_data \in Value
  /\ op_strobe \in Bit /\ mem \in [Tag -> [Beat -> Value]] /\ mem_beat \in 0 .. Beats
  /\ mem_op \in [tag : Tag, wren : Bit]
  /\ watch \in Beat /\ expected \in Value

\* iexec and the cache: the request is taken, and for a store performed, before
\* iexec goes on; a line being stored does not hit, one being loaded is invalid.
Handshake ==
  /\ cpu # "WAIT" => state = "IDLE" /\ start = start_save /\ write_strobe = write_strobe_save
  /\ write_strobe # write_strobe_save =>
       wren = 1 /\ line_hit /\ state = "IDLE" /\ start = start_save
  /\ cpu = "TAKE" => hit
  /\ cpu = "DONE" => line_hit
  /\ state = "STORE_LINE" => start # start_save /\ (wren = 0 => ~hit) /\ meta_dirty = 0
  /\ state = "LOAD_LINE" =>
       /\ start = start_save /\ wren = 0 /\ MetaQ.valid = 0 /\ meta_dirty = 0
       /\ cwbyteena = 1 /\ cache_byteena = Half
  /\ Initialized => Pending /\ wren = 1 /\ line_hit /\ cache_byteena = Half

\* The cache and the memory: a burst counts with the cache; the last halfword of
\* a store is taken when the cache is IDLE again, before the line is valid again.
Channel ==
  /\ state = "IDLE" => /\ op_strobe = mc_op_start
                       /\ mem_beat # NoBeat =>
                            /\ mem_beat = Beats - 1 /\ mem_op.wren = 1 /\ mem_op.tag = mc_tag
                            /\ MetaQ.valid = 0
  /\ state # "IDLE" =>
       /\ IF op_strobe = mc_op_start
          THEN mem_beat = counter /\ mem_op = [tag |-> mc_tag, wren |-> mc_wren]
          ELSE mem_beat = NoBeat /\ counter = 0
       /\ mc_wren = IF state = "STORE_LINE" THEN 1 ELSE 0
       /\ mc_tag = IF state = "STORE_LINE" THEN MetaQ.tag ELSE tag
  /\ state = "STORE_LINE" =>
       counter # Beats - 1 /\ mc_dqm = 1 - HalfAt(counter).en /\ mc_data = HalfAt(counter).val

\* The memory when the beat in progress is done.
MemQ == IF mem_beat # NoBeat /\ mem_op.wren = 1 /\ mc_dqm = 0
        THEN [mem EXCEPT ![mem_op.tag][mem_beat] = mc_data] ELSE mem

\* What a load has brought of the watched halfword: its half of the next word, then its word.
LoadedSoFar ==
  /\ counter = watch + 1 => cwdata[1] = expected
  /\ counter \div 2 > watch \div 2 => HalfAt(watch) = [en |-> 1, val |-> expected]

\* Where the last value stored is.
Coherent ==
  /\ MetaQ.dirty = 1 => MetaQ.valid = 1
  /\ InLine => HalfAt(watch).val = expected
  /\ ~InLine => MemQ[WatchTag][watch] = expected
  /\ state = "IDLE" /\ InLine /\ MetaQ.dirty = 0 => MemQ[WatchTag][watch] = expected
  /\ state = "STORE_LINE" =>
       /\ MetaQ.valid = 1
       /\ op_strobe = mc_op_start /\ counter >= watch => MemQ[WatchTag][watch] = expected
  /\ state = "LOAD_LINE" /\ tag = WatchTag => LoadedSoFar

IInv == TypeInv /\ Handshake /\ Channel /\ Coherent /\ UndefinedNotRead

-----------------------------------------------------------------------------
(* What RAMs and memory hold after an edge, from what they show at it.     *)

\* A halfword of the line: its word and its half.
LEMMA BeatParts ==
  ASSUME NEW k \in Beat
  PROVE  k \div 2 \in Word /\ k % 2 \in Half /\ k = 2 * (k \div 2) + (k % 2)
  BY CacheAssumption DEF Beat, Beats, Word, Half

\* What the RAMs show, and memory after the beat in progress, have their types.
LEMMA ShownTypes ==
  ASSUME TypeInv
  PROVE  MetaQ \in Meta /\ LineQ \in [Word -> [Half -> HalfWord]]
         /\ MemQ \in [Tag -> [Beat -> Value]]
<1>1. MetaQ \in Meta
  BY DEF TypeInv, MetaQ, Meta
<1>2. LineQ \in [Word -> [Half -> HalfWord]]
  BY DEF TypeInv, LineQ, HalfWord
<1>3. MemQ \in [Tag -> [Beat -> Value]]
  BY Zenon DEF TypeInv, MemQ, NoBeat
<1> QED BY <1>1, <1>2, <1>3

\* The meta RAM: the tag of the access is written with the new flags.
LEMMA MetaNext ==
  ASSUME NEW M, meta' = M
  PROVE  MetaQ' = IF meta_wren' = 1
                  THEN [tag |-> tag', valid |-> meta_valid', dirty |-> meta_dirty'] ELSE M
  BY DEF MetaQ

\* The data RAMs: the enabled halves of the enabled words are written.
LEMMA LineNext ==
  ASSUME NEW L, line' = L
  PROVE  LineQ' = [w \in Word |-> [h \in Half |->
           IF w \in data_wren' /\ h \in cache_byteena'
           THEN [en |-> cwbyteena', val |-> cwdata'[h]] ELSE L[w][h]]]
  BY DEF LineQ

\* The memory performs the beat in progress.
LEMMA MemNext == MemClk => mem' = MemQ
  BY DEF MemClk, MemStart, MemBeat, MemIdle, MemQ, NoBeat

\* The initial values of the registers satisfy the inductive invariant.
LEMMA InitInv == Init => IInv
<1> SUFFICES ASSUME Init PROVE IInv
  OBVIOUS
<1> USE CacheAssumption
<1>1. 0 \in Word /\ 0 \in Beat /\ Beats \in 0 .. Beats
  BY DEF Word, Beat, Beats
<1>2. watch \in Beat
  BY DEF Init
<1>3. TypeInv
  BY <1>1, <1>2 DEF Init, TypeInv, Bit, Half, Value, Undef, HalfWord, Meta, NoBeat
<1>4. MetaQ.valid = 0 /\ MetaQ.dirty = 0
  BY DEF Init, MetaQ
<1>5. MemQ = mem /\ mem[WatchTag][watch] = 0
  BY <1>2 DEF Init, MemQ
<1> QED
  BY <1>1, <1>3, <1>4, <1>5 DEF Init, IInv, Handshake, Channel, Coherent, UndefinedNotRead, Initialized,
       InLine

-----------------------------------------------------------------------------
(* One edge of iexec, of the memory and of the cache.                      *)

\* iexec: an access stays on its wires until it is over, and iexec waits while
\* the cache has not taken it, or loads or stores a line for it.
LEMMA CpuStep ==
  ASSUME IInv, CpuClk
  PROVE  /\ cpu' \in {"IDLE", "WAIT", "TAKE", "DONE"}
         /\ tag' \in Tag /\ word' \in Word /\ wren' \in Bit /\ byteena' \in SUBSET Half
         /\ write_data' \in [Half -> Value] /\ start' \in Bit /\ write_strobe_save' \in Bit
         /\ cpu # "IDLE" => CpuKeep /\ cpu' \in {"WAIT", "TAKE", "DONE", "IDLE"}
         /\ state # "IDLE" \/ (Pending /\ (wren = 1 \/ ~hit)) => cpu = "WAIT" /\ UNCHANGED cpu_vars
         /\ Pending /\ wren = 0 /\ hit => /\ cpu' = "TAKE" /\ CpuKeep /\ UNCHANGED write_strobe_save
<1> USE DEF IInv, TypeInv
<1>1. state # "IDLE" \/ Pending => cpu = "WAIT"
  BY DEF Handshake, Pending
<1>2. Pending \/ state # "IDLE" => write_strobe = write_strobe_save
  BY DEF Handshake, Pending
<1>3. state # "IDLE" /\ wren = 0 => ~hit
  BY DEF Handshake, hit, line_hit
<1>4. CASE CpuStart
  <2>1. start' \in Bit
    BY <1>4 DEF CpuStart, Bit, Flip
  <2>2. wren' \in Bit /\ byteena' \in SUBSET Half /\ write_data' \in [Half -> Value]
    BY <1>4 DEF CpuStart, StoreData, Bit, Value, Undef
  <2> QED
    BY <1>1, <1>4, <2>1, <2>2 DEF CpuStart, Pending
<1>5. CASE CpuLoadHit
  BY <1>1, <1>2, <1>3, <1>5 DEF CpuLoadHit, CpuKeep
<1>6. CASE CpuStoreDone
  BY <1>1, <1>2, <1>6 DEF CpuStoreDone, CpuKeep, Bit, Flip
<1>7. CASE CpuRun
  BY <1>1, <1>7 DEF CpuRun, CpuKeep
<1>8. CASE CpuHold
  BY <1>1, <1>2, <1>3, <1>8 DEF CpuHold, CpuKeep, cpu_vars
<1> QED
  BY <1>4, <1>5, <1>6, <1>7, <1>8 DEF CpuClk

\* The memory: a burst starts when it was asked for, and counts to its end.
LEMMA MemStep ==
  ASSUME IInv, MemClk
  PROVE  /\ op_strobe' \in Bit /\ mem' \in [Tag -> [Beat -> Value]]
         /\ mem_beat' \in 0 .. Beats /\ mem_op' \in [tag : Tag, wren : Bit]
         /\ op_strobe = mc_op_start => UNCHANGED <<op_strobe, mem_op>>
         /\ mem_beat # NoBeat => mem_beat' = mem_beat + 1
         /\ mem_beat = NoBeat /\ op_strobe = mc_op_start => mem_beat' = NoBeat
         /\ mem_beat = NoBeat /\ op_strobe # mc_op_start =>
              \/ mem_beat' = NoBeat /\ UNCHANGED <<op_strobe, mem_op>>
              \/ /\ mem_beat' = 0 /\ op_strobe' = mc_op_start
                 /\ mem_op' = [tag |-> mc_tag, wren |-> mc_wren]
<1> USE CacheAssumption DEF IInv, TypeInv
<1>1. mem' \in [Tag -> [Beat -> Value]]
  BY MemNext, ShownTypes
<1>2. Beats \in Nat
  BY DEF Beats
<1> QED
  BY <1>1, <1>2 DEF MemClk, MemStart, MemBeat, MemIdle, NoBeat

\* What the bus carries and the cache shifts in.
LEMMA BusType == TypeInv => sdc_data_out \in Value
<1> SUFFICES ASSUME TypeInv PROVE sdc_data_out \in Value
  OBVIOUS
<1>1. mem_beat # NoBeat => mem_beat \in Beat
  BY CacheAssumption DEF TypeInv, NoBeat, Beat, Beats
<1>2. mem_beat # NoBeat => mem[mem_op.tag][mem_beat] \in Value
  BY <1>1 DEF TypeInv
<1> QED
  BY <1>2 DEF sdc_data_out, Value, Undef

\* Every edge keeps the types of the cache's registers.
LEMMA CacheTypes ==
  ASSUME IInv, CacheClk, MemClk
  PROVE  /\ state' \in {"IDLE", "STORE_LINE", "LOAD_LINE"}
         /\ start_save' \in Bit /\ write_strobe' \in Bit /\ counter' \in Beat
         /\ meta' \in Meta /\ line' \in [Word -> [Half -> HalfWord]]
         /\ meta_wren' \in Bit /\ meta_valid' \in Bit /\ meta_dirty' \in Bit
         /\ data_wren' \in SUBSET Word
         /\ cwdata' \in [Half -> Value] /\ cwbyteena' \in Bit /\ cache_byteena' \in SUBSET Half
         /\ mc_op_start' \in Bit /\ mc_tag' \in Tag /\ mc_wren' \in Bit /\ mc_dqm' \in Bit
         /\ mc_data' \in Value
         /\ expected' \in Value
<1> USE CacheAssumption DEF IInv, TypeInv
<1>1. meta' \in Meta /\ line' \in [Word -> [Half -> HalfWord]] /\ MetaQ \in Meta
  BY ShownTypes DEF CacheClk, RamClk
<1>2. \A k \in Beat : HalfAt(k) \in HalfWord /\ 1 - HalfAt(k).en \in Bit
  BY ShownTypes, BeatParts DEF HalfAt, HalfWord, Bit
<1>3. Flip(start_save) \in Bit /\ Flip(write_strobe) \in Bit /\ Flip(mc_op_start) \in Bit
  BY DEF Flip, Bit
<1>4. ShiftData => cwdata' \in [Half -> Value]
  BY BusType DEF ShiftData, Half
<1>5. (counter + 1) % Beats \in Beat /\ 0 \in Beat
  BY DEF Beat, Beats
<1>6. CASE CacheWrite
  BY <1>1, <1>3, <1>6, BeatParts DEF CacheWrite, SetMeta, DirtyAfterWrite, KeepChannel, mc_vars, Bit, Meta
<1>7. CASE CacheStore
  BY <1>1, <1>2, <1>3, <1>4, <1>5, <1>7 DEF CacheStore, StoreTag, NoData, KeepEnables, Bit, Meta, HalfWord
<1>8. CASE CacheLoad
  BY <1>1, <1>3, <1>4, <1>5, <1>8 DEF CacheLoad, SetMeta, NoData, LoadByteena, Bit
<1>9. CASE CacheInitialize
  BY <1>1, <1>3, <1>4, <1>9 DEF CacheInitialize, SetMeta, InitStart, KeepChannel, mc_vars, Bit
<1>10. CASE CacheReadHit
  BY <1>1, <1>3, <1>4, <1>10 DEF CacheReadHit, NoData, NoMeta, KeepEnables, KeepChannel, mc_vars, Bit
<1>11. CASE LoadBeat
  <2>1. counter \div 2 \in Word
    BY BeatParts
  <2> QED
    BY <1>1, <1>4, <1>5, <1>11, <2>1 DEF LoadBeat, KeepEnables, KeepChannel, mc_vars, Bit
<1>12. CASE StoreBeat
  <2>1. counter + 1 \in Beat
    BY <1>12 DEF StoreBeat, Channel, Beat, Beats
  <2> QED
    BY <1>1, <1>2, <1>4, <1>5, <1>12, <2>1 DEF StoreBeat, StoreDqm, NoData, KeepEnables, Bit, HalfWord
<1>13. CASE CacheHold
  BY <1>1, <1>4, <1>13 DEF CacheHold, NoData, NoMeta, KeepEnables, KeepChannel, mc_vars, Bit
<1> QED
  BY <1>6, <1>7, <1>8, <1>9, <1>10, <1>11, <1>12, <1>13, Zenon DEF CacheClk

\* Every edge keeps the types.
LEMMA TypeStep == IInv /\ Next => TypeInv'
  BY CpuStep, MemStep, CacheTypes, Zenon DEF Next, IInv, TypeInv

\* RAMs and memory at the next edge, in terms of what they show at this one.
LEMMA EdgeFacts ==
  ASSUME IInv, Next
  PROVE  /\ MetaQ' = IF meta_wren' = 1
                     THEN [tag |-> tag', valid |-> meta_valid', dirty |-> meta_dirty'] ELSE MetaQ
         /\ \A w \in Word, h \in Half : LineQ'[w][h] =
              IF w \in data_wren' /\ h \in cache_byteena'
              THEN [en |-> cwbyteena', val |-> cwdata'[h]] ELSE LineQ[w][h]
         /\ data_wren' = {} => \A k \in Beat : LineQ'[k \div 2][k % 2] = HalfAt(k)
         /\ MemQ'[WatchTag][watch] =
              IF /\ mem_beat' # NoBeat /\ mem_op'.wren = 1 /\ mc_dqm' = 0
                 /\ mem_op'.tag = WatchTag /\ mem_beat' = watch
              THEN mc_data' ELSE MemQ[WatchTag][watch]
         /\ watch' = watch
<1>1. meta' = MetaQ /\ line' = LineQ /\ mem' = MemQ /\ watch' = watch
  BY MemNext DEF Next, CacheClk, RamClk
<1>2. \A w \in Word, h \in Half : LineQ'[w][h] =
              IF w \in data_wren' /\ h \in cache_byteena'
              THEN [en |-> cwbyteena', val |-> cwdata'[h]] ELSE LineQ[w][h]
  BY <1>1, LineNext
<1>3. data_wren' = {} => \A k \in Beat : LineQ'[k \div 2][k % 2] = HalfAt(k)
  BY <1>2, BeatParts DEF HalfAt
<1>4. MemQ' = IF mem_beat' # NoBeat /\ mem_op'.wren = 1 /\ mc_dqm' = 0
              THEN [mem' EXCEPT ![mem_op'.tag][mem_beat'] = mc_data'] ELSE mem'
  BY DEF MemQ, NoBeat, Beats
<1>5. watch \in Beat /\ mem' \in [Tag -> [Beat -> Value]]
  BY TypeStep DEF IInv, TypeInv
<1>6. MemQ'[WatchTag][watch] =
              IF /\ mem_beat' # NoBeat /\ mem_op'.wren = 1 /\ mc_dqm' = 0
                 /\ mem_op'.tag = WatchTag /\ mem_beat' = watch
              THEN mc_data' ELSE mem'[WatchTag][watch]
  BY <1>4, <1>5, CacheAssumption
<1>7. MetaQ' = IF meta_wren' = 1
               THEN [tag |-> tag', valid |-> meta_valid', dirty |-> meta_dirty'] ELSE MetaQ
  BY <1>1, MetaNext
<1> QED
  BY <1>1, <1>2, <1>3, <1>6, <1>7, Zenon

\* The meta RAM at the next edge.
LEMMA MetaEdge ==
  ASSUME IInv, Next
  PROVE  /\ meta_wren' = 0 => MetaQ' = MetaQ
         /\ meta_wren' = 1 => MetaQ' = [tag |-> tag', valid |-> meta_valid', dirty |-> meta_dirty']
  BY EdgeFacts

\* The watched halfword of the data RAMs at the next edge.
LEMMA WatchEdge ==
  ASSUME IInv, Next
  PROVE  /\ watch' = watch
         /\ HalfAt(watch)' = IF watch \div 2 \in data_wren' /\ watch % 2 \in cache_byteena'
                             THEN [en |-> cwbyteena', val |-> cwdata'[watch % 2]] ELSE HalfAt(watch)
<1>1. watch' = watch
  BY EdgeFacts
<1>2. watch \div 2 \in Word /\ watch % 2 \in Half
  BY BeatParts DEF IInv, TypeInv
<1>3. HalfAt(watch)' = LineQ'[watch \div 2][watch % 2]
  BY <1>1 DEF HalfAt
<1>4. HalfAt(watch) = LineQ[watch \div 2][watch % 2]
  BY DEF HalfAt
<1>5. LineQ'[watch \div 2][watch % 2] =
        IF watch \div 2 \in data_wren' /\ watch % 2 \in cache_byteena'
        THEN [en |-> cwbyteena', val |-> cwdata'[watch % 2]] ELSE LineQ[watch \div 2][watch % 2]
  BY <1>2, EdgeFacts
<1> QED BY <1>1, <1>3, <1>4, <1>5

\* An access that stays on the wires hits as before where the RAMs are not written.
LEMMA HitKept ==
  ASSUME TypeInv, MetaQ' = MetaQ, \A w \in Word, h \in Half : LineQ'[w][h] = LineQ[w][h],
         UNCHANGED <<tag, word, byteena>>
  PROVE  (line_hit' <=> line_hit) /\ (hit' <=> hit)
<1>1. line_hit' <=> line_hit
  BY DEF line_hit
<1>2. word \in Word /\ byteena \in SUBSET Half
  BY DEF TypeInv
<1>3. \A h \in byteena : LineQ'[word][h] = LineQ[word][h]
  BY <1>2
<1>4. hit' <=> line_hit' /\ \A h \in byteena : LineQ'[word][h].en = 1
  BY DEF hit
<1> QED BY <1>1, <1>3, <1>4 DEF hit

\* A burst in progress moves to its next halfword.
LEMMA BeatNext ==
  ASSUME IInv, Next, mem_beat # NoBeat, op_strobe = mc_op_start
  PROVE  mem_beat' = mem_beat + 1 /\ UNCHANGED <<op_strobe, mem_op>>
<1>1. MemClk
  BY DEF Next
<1> QED BY <1>1, MemStep

-----------------------------------------------------------------------------
(* The actions of the cache, one lemma each.                               *)

\* An edge in IDLE that writes no RAM and asks the memory for nothing.
LEMMA QuietEdge ==
  ASSUME IInv, Next, state = "IDLE", state' = "IDLE", meta_wren' = 0, data_wren' = {},
         UNCHANGED mc_vars, expected' = expected
  PROVE  Channel' /\ Coherent' /\ MetaQ' = MetaQ
         /\ \A w \in Word, h \in Half : LineQ'[w][h] = LineQ[w][h]
<1>1. MetaQ' = MetaQ /\ watch' = watch /\ \A w \in Word, h \in Half : LineQ'[w][h] = LineQ[w][h]
  BY EdgeFacts
<1>2. HalfAt(watch)' = HalfAt(watch)
  BY <1>1, EdgeFacts, Zenon DEF HalfAt, IInv, TypeInv
<1>3. mem_beat' = NoBeat /\ op_strobe' = mc_op_start'
  BY MemStep, CacheAssumption DEF Next, IInv, Channel, mc_vars, NoBeat, Beats
<1>4. Channel'
  BY <1>3 DEF Channel, NoBeat
<1>5. MemQ'[WatchTag][watch] = MemQ[WatchTag][watch]
  BY <1>3, EdgeFacts DEF NoBeat
<1>6. InLine' <=> InLine
  BY <1>1, <1>2 DEF InLine
<1>7. Coherent'
  BY <1>1, <1>2, <1>5, <1>6, Zenon DEF IInv, Coherent
<1> QED BY <1>1, <1>4, <1>7

\* CacheReadHit: iexec takes the halves it asked for.
LEMMA ReadHitInv == IInv /\ Next /\ CacheReadHit => IInv'
<1> SUFFICES ASSUME IInv, Next, CacheReadHit PROVE IInv'
  OBVIOUS
<1>1. /\ Channel' /\ Coherent' /\ MetaQ' = MetaQ
      /\ \A w \in Word, h \in Half : LineQ'[w][h] = LineQ[w][h]
  BY QuietEdge, Zenon DEF CacheReadHit, Pending, NoMeta, NoData, KeepChannel
<1>2. cpu' = "TAKE" /\ CpuKeep /\ UNCHANGED write_strobe_save
  BY CpuStep DEF Next, CacheReadHit
<1>3. hit'
  BY <1>1, <1>2 DEF CacheReadHit, hit, line_hit, CpuKeep, IInv, TypeInv
<1>4. start' = start_save'
  BY <1>2 DEF CacheReadHit, Pending, CpuKeep, IInv, TypeInv, Flip, Bit
<1>5. data_wren' = {} /\ state' = "IDLE" /\ UNCHANGED write_strobe
  BY DEF CacheReadHit, Pending, NoData
<1>6. Word # {}
  BY DEF IInv, TypeInv
<1>7. write_strobe = write_strobe_save
  BY DEF CacheReadHit, Pending, IInv, Handshake
<1>8. Handshake'
  BY <1>2, <1>3, <1>4, <1>5, <1>6, <1>7 DEF Handshake, Initialized
<1> QED
  BY <1>1, <1>5, <1>8, TypeStep, Zenon DEF IInv, UndefinedNotRead

\* CacheHold in IDLE: iexec starts an access, or goes on after one.
LEMMA IdleInv == IInv /\ Next /\ CacheHold /\ state = "IDLE" => IInv'
<1> SUFFICES ASSUME IInv, Next, CacheHold, state = "IDLE" PROVE IInv'
  OBVIOUS
<1>1. /\ Channel' /\ Coherent' /\ MetaQ' = MetaQ
      /\ \A w \in Word, h \in Half : LineQ'[w][h] = LineQ[w][h]
  BY QuietEdge DEF CacheHold, NoMeta, NoData, KeepChannel
<1>2. data_wren' = {} /\ state' = "IDLE" /\ UNCHANGED <<write_strobe, start_save>> /\ start = start_save
  BY DEF CacheHold, NoData
<1>3. Word # {}
  BY DEF IInv, TypeInv
<1>4. CpuKeep => (line_hit' <=> line_hit) /\ (hit' <=> hit)
  <2>1. CpuKeep => UNCHANGED <<tag, word, byteena>>
    BY DEF CpuKeep
  <2> QED BY <1>1, <2>1, HitKept DEF IInv
<1>5. Handshake'
  <2> USE DEF Next, IInv, TypeInv, Handshake, Initialized
  <2>1. CASE CpuStart
    BY <1>2, <1>3, <2>1 DEF CpuStart
  <2>2. CASE CpuLoadHit
    BY <1>2, <1>3, <1>4, <2>2 DEF CpuLoadHit, CpuKeep
  <2>3. CASE CpuStoreDone
    <3>1. write_strobe' = write_strobe_save' /\ line_hit /\ CpuKeep /\ cpu' = "DONE"
      BY <1>2, <2>3 DEF CpuStoreDone, Flip, Bit
    <3> QED
      BY <1>2, <1>3, <1>4, <3>1 DEF CpuKeep
  <2>4. CASE CpuRun
    BY <1>2, <1>3, <1>4, <2>4 DEF CpuRun, CpuKeep
  <2>5. CASE CpuHold
    BY <1>2, <1>3, <1>4, <2>5 DEF CpuHold, cpu_vars, CpuKeep
  <2> QED BY <2>1, <2>2, <2>3, <2>4, <2>5, Zenon DEF CpuClk
<1> QED
  BY <1>1, <1>2, <1>5, TypeStep DEF IInv, UndefinedNotRead

\* What a store of the line offers for halfword b is its last value, or is masked.
LEMMA OfferedValue ==
  ASSUME IInv, Next, MetaQ.valid = 1, mc_tag' = MetaQ.tag, NEW b \in Beat,
         mc_dqm' = 1 - HalfAt(b).en, mc_data' = HalfAt(b).val,
         mem_beat' = NoBeat \/ (mem_beat' = b /\ mem_op' = [tag |-> mc_tag', wren |-> 1])
  PROVE  /\ MemQ[WatchTag][watch] = expected => MemQ'[WatchTag][watch] = expected
         /\ mem_beat' = watch => MemQ'[WatchTag][watch] = expected
<1>1. HalfAt(b).en \in Bit /\ watch # NoBeat
  <2>1. TypeInv /\ watch \in Beat
    BY Zenon DEF IInv, TypeInv
  <2>2. HalfAt(b) \in HalfWord
    BY <2>1, ShownTypes, BeatParts DEF HalfAt
  <2> QED
    BY <2>1, <2>2 DEF HalfWord, Beat, NoBeat
<1>2. CASE mem_beat' = watch /\ mc_tag' = WatchTag /\ mc_dqm' = 0
  <2>1. InLine /\ b = watch
    BY <1>1, <1>2 DEF InLine, Bit
  <2>2. MemQ'[WatchTag][watch] = mc_data'
    BY <1>1, <1>2, <2>1, EdgeFacts
  <2> QED BY <2>1, <2>2 DEF IInv, Coherent
<1>3. CASE ~(mem_beat' = watch /\ mc_tag' = WatchTag /\ mc_dqm' = 0)
  <2>1. MemQ'[WatchTag][watch] = MemQ[WatchTag][watch]
    BY <1>3, EdgeFacts
  <2>2. mem_beat' = watch => ~InLine
    BY <1>1, <1>3 DEF InLine, Bit
  <2> QED BY <2>1, <2>2 DEF IInv, Coherent
<1> QED BY <1>2, <1>3, Zenon

\* CacheHold in STORE_LINE and LOAD_LINE: the memory has not answered yet.
LEMMA HoldInv == IInv /\ Next /\ CacheHold /\ state # "IDLE" => IInv'
<1> SUFFICES ASSUME IInv, Next, CacheHold, state # "IDLE" PROVE IInv'
  OBVIOUS
<1>1. /\ MetaQ' = MetaQ /\ watch' = watch /\ HalfAt(watch)' = HalfAt(watch)
      /\ \A w \in Word, h \in Half : LineQ'[w][h] = LineQ[w][h]
      /\ HalfAt(0)' = HalfAt(0) /\ 0 \in Beat
  <2>1. 0 \in Beat /\ watch \in Beat
    BY CacheAssumption DEF Beat, Beats, IInv, TypeInv
  <2>2. meta_wren' = 0 /\ data_wren' = {}
    BY DEF CacheHold, NoMeta, NoData
  <2>3. \A k \in Beat : LineQ'[k \div 2][k % 2] = HalfAt(k)
    BY <2>2, EdgeFacts, Zenon
  <2>4. HalfAt(watch)' = HalfAt(watch) /\ HalfAt(0)' = HalfAt(0)
    BY <2>1, <2>3, EdgeFacts DEF HalfAt
  <2> QED BY <2>1, <2>2, <2>4, EdgeFacts
<1>2. /\ cpu = "WAIT" /\ UNCHANGED cpu_vars
      /\ data_wren' = {} /\ UNCHANGED <<state, start_save, write_strobe, counter, expected, meta_dirty>>
      /\ UNCHANGED mc_vars /\ UNCHANGED <<cwbyteena, cache_byteena>>
  BY CpuStep DEF Next, CacheHold, NoData, NoMeta, KeepEnables, KeepChannel
<1>3. Word # {}
  BY DEF IInv, TypeInv
<1>4. (line_hit' <=> line_hit) /\ (hit' <=> hit)
  <2>1. UNCHANGED <<tag, word, byteena>>
    BY <1>2 DEF cpu_vars
  <2> QED BY <1>1, <2>1, HitKept, Zenon DEF IInv
<1>5. Handshake'
  BY <1>1, <1>2, <1>3, <1>4, Zenon DEF IInv, Handshake, Initialized, cpu_vars
<1>6. counter = 0 /\ mem_beat = NoBeat /\ op_strobe # mc_op_start
  BY DEF CacheHold, IInv, Channel
<1>7. \/ mem_beat' = NoBeat /\ UNCHANGED <<op_strobe, mem_op>>
      \/ /\ mem_beat' = 0 /\ op_strobe' = mc_op_start
         /\ mem_op' = [tag |-> mc_tag, wren |-> mc_wren]
  BY <1>6, MemStep DEF Next
<1>8. Channel'
  BY <1>1, <1>2, <1>6, <1>7, Zenon DEF IInv, Channel, cpu_vars, mc_vars, NoBeat
<1>9. InLine' <=> InLine
  BY <1>1 DEF InLine
<1>10. ASSUME state = "STORE_LINE" PROVE Coherent'
  <2>1. /\ MemQ[WatchTag][watch] = expected => MemQ'[WatchTag][watch] = expected
        /\ mem_beat' = watch => MemQ'[WatchTag][watch] = expected
    <3>1. /\ MetaQ.valid = 1 /\ mc_tag' = MetaQ.tag /\ mc_wren = 1
          /\ mc_dqm' = 1 - HalfAt(0).en /\ mc_data' = HalfAt(0).val
      BY <1>2, <1>6, <1>10, Zenon DEF IInv, Channel, Coherent, mc_vars
    <3>2. mem_beat' = NoBeat \/ (mem_beat' = 0 /\ mem_op' = [tag |-> mc_tag', wren |-> 1])
      BY <1>2, <1>7, <3>1 DEF mc_vars
    <3> QED BY <1>1, <3>1, <3>2, OfferedValue, Zenon
  <2>2. op_strobe' = mc_op_start' /\ counter' >= watch => mem_beat' = watch
    BY <1>2, <1>6, <1>7 DEF mc_vars, IInv, TypeInv, Beat
  <2> QED
    BY <1>1, <1>2, <1>9, <1>10, <2>1, <2>2, Zenon DEF IInv, Coherent
<1>11. ASSUME state = "LOAD_LINE" PROVE Coherent'
  <2>1. MemQ'[WatchTag][watch] = MemQ[WatchTag][watch]
    BY <1>2, <1>7, <1>11, EdgeFacts DEF IInv, Channel
  <2>2. ~(counter' = watch + 1) /\ ~(counter' \div 2 > watch \div 2)
    BY <1>2, <1>6 DEF IInv, TypeInv, Beat
  <2>3. LoadedSoFar'
    BY <1>1, <2>2, Zenon DEF LoadedSoFar
  <2> QED
    BY <1>1, <1>2, <1>9, <1>11, <2>1, <2>3, Zenon DEF IInv, Coherent
<1>12. Coherent'
  BY <1>10, <1>11 DEF IInv, TypeInv
<1> QED
  BY <1>2, <1>5, <1>8, <1>12, TypeStep DEF IInv, UndefinedNotRead

\* CacheWrite: the line takes the store, and holds its value from the next edge.
LEMMA WriteInv == IInv /\ Next /\ CacheWrite => IInv'
<1> SUFFICES ASSUME IInv, Next, CacheWrite PROVE IInv'
  OBVIOUS
<1>1. /\ cpu = "WAIT" /\ UNCHANGED cpu_vars /\ wren = 1 /\ line_hit
      /\ state = "IDLE" /\ state' = "IDLE" /\ start # start_save
      /\ write_strobe = write_strobe_save
  BY CpuStep DEF Next, CacheWrite, Pending, IInv, Handshake
<1>2. start' = start_save'
  BY <1>1 DEF CacheWrite, cpu_vars, IInv, TypeInv, Flip, Bit
<1>3. MetaQ' = [tag |-> tag, valid |-> 1, dirty |-> DirtyAfterWrite]
  <2>1. meta_wren' = 1 /\ meta_valid' = 1 /\ meta_dirty' = DirtyAfterWrite
    BY DEF CacheWrite, SetMeta
  <2>2. tag' = tag
    BY <1>1 DEF cpu_vars
  <2> QED BY <2>1, <2>2, MetaEdge
<1>4. line_hit'
  BY <1>1, <1>3 DEF line_hit, cpu_vars
<1>5. Handshake'
  BY <1>1, <1>2, <1>4 DEF CacheWrite, Handshake, Initialized, cpu_vars
<1>6. mem_beat = NoBeat /\ mem_beat' = NoBeat /\ op_strobe' = mc_op_start'
  <2>1. mem_beat = NoBeat /\ op_strobe = mc_op_start
    BY <1>1 DEF IInv, Channel, line_hit
  <2> QED
    BY <2>1, MemStep, Zenon DEF Next, CacheWrite, KeepChannel, mc_vars
<1>7. Channel'
  BY <1>1, <1>6 DEF Channel, NoBeat
<1>8. MemQ'[WatchTag][watch] = MemQ[WatchTag][watch] /\ watch' = watch
  BY <1>6, EdgeFacts DEF NoBeat
<1>9. watch \div 2 \in Word /\ watch % 2 \in Half /\ watch \in Beat
  BY BeatParts DEF IInv, TypeInv
<1>10. HalfAt(watch)' = IF watch \div 2 = word /\ watch % 2 \in byteena
                        THEN [en |-> 1, val |-> write_data[watch % 2]] ELSE HalfAt(watch)
  <2>1. data_wren' = {word} /\ cache_byteena' = byteena /\ cwbyteena' = 1 /\ cwdata' = write_data
    BY DEF CacheWrite
  <2> QED BY <2>1, WatchEdge
<1>11. Coherent'
  <2>1. CASE tag = WatchTag /\ watch \div 2 = word /\ watch % 2 \in byteena
    <3>1. InLine' /\ HalfAt(watch)'.val = expected' /\ MetaQ'.dirty = 1 /\ MetaQ'.valid = 1
      BY <1>3, <1>10, <2>1 DEF InLine, CacheWrite, DirtyAfterWrite
    <3> QED BY <1>1, <3>1 DEF Coherent
  <2>2. CASE tag = WatchTag /\ ~(watch \div 2 = word /\ watch % 2 \in byteena)
    <3>1. expected' = expected /\ HalfAt(watch)' = HalfAt(watch) /\ (InLine' <=> InLine)
      BY <1>1, <1>3, <1>10, <2>2 DEF CacheWrite, InLine, line_hit
    <3>2. MetaQ'.dirty = 0 => MetaQ.dirty = 0
      BY <1>3 DEF DirtyAfterWrite
    <3> QED
      BY <1>1, <1>3, <1>8, <3>1, <3>2, Zenon DEF IInv, Coherent
  <2>3. CASE tag # WatchTag
    <3>1. expected' = expected /\ ~InLine /\ ~InLine'
      BY <1>1, <1>3, <2>3 DEF CacheWrite, InLine, line_hit
    <3>2. MemQ'[WatchTag][watch'] = expected'
      BY <1>8, <3>1, Zenon DEF IInv, Coherent
    <3> QED
      BY <1>1, <1>3, <3>1, <3>2, Zenon DEF Coherent
  <2> QED BY <2>1, <2>2, <2>3
<1>12. UndefinedNotRead'
  <2>1. wren' # 0
    BY <1>1 DEF cpu_vars
  <2> QED
    BY <1>1, <1>2, <2>1, Zenon DEF UndefinedNotRead
<1> QED
  BY <1>5, <1>7, <1>11, <1>12, TypeStep DEF IInv

\* A miss in IDLE: iexec waits, and if the line is clean, memory is up to date.
LEMMA MissFacts ==
  ASSUME IInv, Next, Misses
  PROVE  /\ cpu = "WAIT" /\ UNCHANGED cpu_vars /\ state = "IDLE" /\ start # start_save
         /\ write_strobe = write_strobe_save
         /\ wren = 0 => ~hit
         /\ mem_beat' = NoBeat /\ op_strobe' = mc_op_start
         /\ MemQ'[WatchTag][watch] = MemQ[WatchTag][watch] /\ watch' = watch
         /\ MetaQ.dirty = 0 => MemQ[WatchTag][watch] = expected
<1>1. /\ cpu = "WAIT" /\ UNCHANGED cpu_vars /\ state = "IDLE" /\ start # start_save
      /\ write_strobe = write_strobe_save /\ (wren = 0 => ~hit)
  BY CpuStep DEF Next, Misses, Pending, IInv, Handshake
<1>2. mem_beat' = NoBeat /\ op_strobe' = mc_op_start
  <2>1. op_strobe = mc_op_start /\ (mem_beat # NoBeat => mem_beat = Beats - 1)
    BY <1>1, Zenon DEF IInv, Channel
  <2>2. op_strobe' = op_strobe /\ IF mem_beat # NoBeat THEN mem_beat' = mem_beat + 1 ELSE mem_beat' = NoBeat
    BY <2>1, MemStep, Zenon DEF Next
  <2>3. Beats \in Nat
    BY CacheAssumption DEF Beats
  <2> QED
    BY <2>1, <2>2, <2>3 DEF NoBeat
<1>3. MemQ'[WatchTag][watch] = MemQ[WatchTag][watch] /\ watch' = watch
  BY <1>2, EdgeFacts, Zenon
<1>4. MetaQ.dirty = 0 => MemQ[WatchTag][watch] = expected
  BY <1>1, Zenon DEF IInv, Coherent
<1> QED BY <1>1, <1>2, <1>3, <1>4

\* CacheStore: the store of a dirty line begins.
LEMMA StoreInv == IInv /\ Next /\ CacheStore => IInv'
<1> SUFFICES ASSUME IInv, Next, CacheStore PROVE IInv'
  OBVIOUS
<1>1. /\ cpu = "WAIT" /\ UNCHANGED cpu_vars /\ state = "IDLE" /\ start # start_save
      /\ write_strobe = write_strobe_save
      /\ wren = 0 => ~hit
      /\ mem_beat' = NoBeat /\ op_strobe' = mc_op_start
      /\ MemQ'[WatchTag][watch] = MemQ[WatchTag][watch] /\ watch' = watch
  <2>1. Misses
    BY DEF CacheStore
  <2> QED BY <2>1, MissFacts
<1>2. mc_op_start' # op_strobe'
  <2>1. mc_op_start' = Flip(mc_op_start)
    BY Zenon DEF CacheStore
  <2>2. mc_op_start \in Bit
    BY Zenon DEF IInv, TypeInv
  <2> QED BY <1>1, <2>1, <2>2 DEF Flip, Bit
<1>3. MetaQ' = MetaQ /\ \A w \in Word, h \in Half : LineQ'[w][h] = LineQ[w][h]
  <2>1. meta_wren' = 0 /\ data_wren' = {}
    BY Zenon DEF CacheStore, NoData
  <2>2. \A w \in Word, h \in Half : LineQ'[w][h] = LineQ[w][h]
    BY <2>1, EdgeFacts
  <2> QED BY <2>1, <2>2, MetaEdge, Zenon
<1>4. 0 \in Beat /\ 0 # Beats - 1 /\ watch \in Beat /\ Word # {}
  BY CacheAssumption DEF Beat, Beats, IInv, TypeInv
<1>5. HalfAt(watch)' = HalfAt(watch) /\ HalfAt(0)' = HalfAt(0)
  <2>1. data_wren' = {}
    BY DEF CacheStore, NoData
  <2>2. 0 \div 2 \in Word /\ 0 % 2 \in Half
    BY <1>4, BeatParts
  <2>3. HalfAt(0)' = HalfAt(0)
    BY <1>3, <2>2 DEF HalfAt
  <2> QED BY <2>1, <2>3, WatchEdge
<1>6. hit' <=> hit
  <2>1. UNCHANGED <<tag, word, byteena>>
    BY <1>1 DEF cpu_vars
  <2> QED BY <1>3, <2>1, HitKept DEF IInv
<1>7. state' = "STORE_LINE" /\ counter' = 0 /\ data_wren' = {} /\ UNCHANGED <<start_save, write_strobe, expected>>
  BY DEF CacheStore, NoData
<1>8. Handshake'
  BY <1>1, <1>4, <1>6, <1>7, Zenon DEF CacheStore, Handshake, Initialized, cpu_vars
<1>9. Channel'
  BY <1>1, <1>2, <1>3, <1>4, <1>5, <1>7, Zenon DEF CacheStore, StoreTag, Channel, NoBeat
<1>10. Coherent'
  BY <1>1, <1>2, <1>3, <1>5, <1>7, Zenon DEF CacheStore, LineDirty, IInv, Coherent, InLine
<1> QED
  BY <1>7, <1>8, <1>9, <1>10, TypeStep DEF IInv, UndefinedNotRead

\* CacheLoad: the load of a line begins; the line is invalid from the next edge.
LEMMA LoadInv == IInv /\ Next /\ CacheLoad => IInv'
<1> SUFFICES ASSUME IInv, Next, CacheLoad PROVE IInv'
  OBVIOUS
<1>1. /\ cpu = "WAIT" /\ UNCHANGED cpu_vars /\ state = "IDLE" /\ start # start_save
      /\ write_strobe = write_strobe_save
      /\ mem_beat' = NoBeat /\ op_strobe' = mc_op_start
      /\ MemQ'[WatchTag][watch] = MemQ[WatchTag][watch] /\ watch' = watch
      /\ MetaQ.dirty = 0 => MemQ[WatchTag][watch] = expected
  <2>1. Misses
    BY DEF CacheLoad
  <2> QED BY <2>1, MissFacts, Zenon
<1>2. mc_op_start' # op_strobe'
  <2>1. mc_op_start' = Flip(mc_op_start)
    BY Zenon DEF CacheLoad
  <2>2. mc_op_start \in Bit
    BY Zenon DEF IInv, TypeInv
  <2> QED BY <1>1, <2>1, <2>2 DEF Flip, Bit
<1>3. MetaQ' = [tag |-> tag, valid |-> 0, dirty |-> 0]
  <2>1. meta_wren' = 1 /\ meta_valid' = 0 /\ meta_dirty' = 0
    BY DEF CacheLoad, SetMeta
  <2>2. tag' = tag
    BY <1>1 DEF cpu_vars
  <2> QED BY <2>1, <2>2, MetaEdge
<1>4. MemQ[WatchTag][watch] = expected
  BY <1>1, ShownTypes DEF CacheLoad, LineDirty, IInv, Meta, Bit
<1>5. start' = start_save' /\ Word # {} /\ watch \in Beat
  <2>1. start_save' = Flip(start_save) /\ start' = start
    BY <1>1 DEF CacheLoad, cpu_vars
  <2>2. start \in Bit /\ start_save \in Bit /\ Word # {} /\ watch \in Beat
    BY DEF IInv, TypeInv
  <2> QED BY <1>1, <2>1, <2>2 DEF Flip, Bit
<1>6. state' = "LOAD_LINE" /\ counter' = 0 /\ data_wren' = {} /\ UNCHANGED <<write_strobe, expected>>
  BY DEF CacheLoad, NoData
<1>7. Handshake'
  BY <1>1, <1>3, <1>5, <1>6, Zenon DEF CacheLoad, SetMeta, LoadByteena, Handshake, Initialized, cpu_vars
<1>8. Channel'
  BY <1>1, <1>2, <1>3, <1>6, Zenon DEF CacheLoad, Channel, cpu_vars, NoBeat
<1>9. ~(counter' = watch' + 1) /\ ~(counter' \div 2 > watch' \div 2)
  BY <1>1, <1>5, <1>6 DEF Beat
<1>10. Coherent'
  <2>1. ~InLine'
    BY <1>3 DEF InLine
  <2>2. MemQ'[WatchTag][watch'] = expected'
    BY <1>1, <1>4, <1>6, Zenon
  <2>3. LoadedSoFar'
    BY <1>9, Zenon DEF LoadedSoFar
  <2> QED
    BY <1>3, <1>6, <2>1, <2>2, <2>3, Zenon DEF Coherent
<1> QED
  BY <1>6, <1>7, <1>8, <1>10, TypeStep DEF IInv, UndefinedNotRead

\* CacheInitialize: an empty line of the tag, which the next edge writes.
LEMMA InitializeInv == IInv /\ Next /\ CacheInitialize => IInv'
<1> SUFFICES ASSUME IInv, Next, CacheInitialize PROVE IInv'
  OBVIOUS
<1>1. /\ cpu = "WAIT" /\ UNCHANGED cpu_vars /\ state = "IDLE" /\ start # start_save
      /\ write_strobe = write_strobe_save
      /\ mem_beat' = NoBeat /\ op_strobe' = mc_op_start
      /\ MemQ'[WatchTag][watch] = MemQ[WatchTag][watch] /\ watch' = watch
      /\ MetaQ.dirty = 0 => MemQ[WatchTag][watch] = expected
  <2>1. Misses
    BY DEF CacheInitialize
  <2> QED BY <2>1, MissFacts
<1>2. MetaQ' = [tag |-> tag, valid |-> 1, dirty |-> 0]
  <2>1. meta_wren' = 1 /\ meta_valid' = 1 /\ meta_dirty' = 0
    BY DEF CacheInitialize, SetMeta
  <2>2. tag' = tag
    BY <1>1 DEF cpu_vars
  <2> QED BY <2>1, <2>2, MetaEdge
<1>3. MemQ[WatchTag][watch] = expected
  BY <1>1, ShownTypes DEF CacheInitialize, LineDirty, IInv, Meta, Bit
<1>4. state' = "IDLE" /\ UNCHANGED <<start_save, write_strobe, expected, mc_op_start>>
  BY <1>1, Zenon DEF CacheInitialize, InitStart, KeepChannel, mc_vars
<1>5. HalfAt(watch)'.en = 0
  <2>1. watch \div 2 \in Word /\ watch % 2 \in Half
    BY BeatParts DEF IInv, TypeInv
  <2>2. data_wren' = Word /\ cache_byteena' = Half /\ cwbyteena' = 0
    BY DEF CacheInitialize
  <2> QED BY <2>1, <2>2, WatchEdge
<1>6. line_hit' /\ Pending' /\ wren' = 1 /\ cache_byteena' = Half
  BY <1>1, <1>2, <1>4, Zenon DEF CacheInitialize, line_hit, Pending, cpu_vars
<1>7. Handshake'
  BY <1>1, <1>4, <1>6, Zenon DEF Handshake, cpu_vars
<1>8. Channel'
  BY <1>1, <1>4, Zenon DEF Channel, NoBeat
<1>9. Coherent'
  <2>1. ~InLine'
    BY <1>5 DEF InLine
  <2>2. MemQ'[WatchTag][watch'] = expected'
    BY <1>1, <1>3, <1>4, Zenon
  <2> QED
    BY <1>2, <1>4, <2>1, <2>2, Zenon DEF Coherent
<1> QED
  BY <1>6, <1>7, <1>8, <1>9, TypeStep, Zenon DEF IInv, UndefinedNotRead

\* LoadBeat: a halfword arrives; the last one makes the line valid.
LEMMA LoadBeatInv == IInv /\ Next /\ LoadBeat => IInv'
<1> SUFFICES ASSUME IInv, Next, LoadBeat PROVE IInv'
  OBVIOUS
<1>1. /\ cpu = "WAIT" /\ UNCHANGED cpu_vars /\ state = "LOAD_LINE"
      /\ start = start_save /\ wren = 0 /\ MetaQ.valid = 0 /\ meta_dirty = 0
      /\ cwbyteena' = 1 /\ cache_byteena' = Half
      /\ UNCHANGED <<start_save, write_strobe, expected, meta_dirty, cwbyteena, cache_byteena>>
      /\ UNCHANGED mc_vars
  BY CpuStep, Zenon DEF Next, LoadBeat, KeepEnables, KeepChannel, IInv, Handshake
<1>2. /\ mem_beat = counter /\ counter \in Beat /\ counter # NoBeat
      /\ mem_op = [tag |-> tag, wren |-> 0] /\ op_strobe = mc_op_start
  BY <1>1 DEF LoadBeat, IInv, TypeInv, Channel, Beat, NoBeat
<1>3. mem_beat' = counter + 1 /\ op_strobe' = mc_op_start' /\ mem_op' = mem_op
  <2>1. mc_op_start' = mc_op_start
    BY <1>1 DEF mc_vars
  <2> QED BY <1>2, <2>1, BeatNext
<1>4. /\ MemQ[WatchTag][watch] = expected /\ MemQ'[WatchTag][watch] = expected /\ MemQ = mem
      /\ watch' = watch
  <2>1. MemQ = mem
    BY <1>2 DEF MemQ
  <2>2. MemQ[WatchTag][watch] = expected
    BY <1>1 DEF IInv, Coherent, InLine
  <2>3. MemQ'[WatchTag][watch] = MemQ[WatchTag][watch] /\ watch' = watch
    BY <1>2, <1>3, EdgeFacts
  <2> QED BY <2>1, <2>2, <2>3
<1>5. cwdata' = [h \in Half |-> IF h = 0 THEN cwdata[1] ELSE mem[tag][counter]]
  <2>1. cwdata' = [h \in Half |-> IF h = 0 THEN cwdata[1] ELSE sdc_data_out]
    BY DEF LoadBeat, ShiftData
  <2>2. sdc_data_out = mem[tag][counter]
    BY <1>2, Zenon DEF sdc_data_out
  <2> QED BY <2>1, <2>2
<1>6. watch \in Beat /\ watch \div 2 \in Word /\ watch % 2 \in Half /\ Word # {}
      /\ 0 \in Half /\ 1 \in Half
  <2>1. watch \in Beat /\ word \in Word
    BY Zenon DEF IInv, TypeInv
  <2> QED
    BY <2>1, BeatParts DEF Half
<1>7. HalfAt(watch)' = LineQ'[watch \div 2][watch % 2]
  BY <1>4 DEF HalfAt
<1>8. counter \in Nat /\ watch \in Nat
  BY <1>2, <1>6 DEF Beat
<1>9. ASSUME tag = WatchTag, (counter + 1) \div 2 > watch \div 2
      PROVE  HalfAt(watch)' = [en |-> 1, val |-> expected]
  <2>1. CASE counter \div 2 > watch \div 2
    <3>1. watch \div 2 \notin data_wren'
      BY <1>8, <2>1 DEF LoadBeat
    <3>2. HalfAt(watch)' = HalfAt(watch)
      BY <3>1, WatchEdge
    <3> QED
      BY <1>1, <1>9, <2>1, <3>2, Zenon DEF IInv, Coherent, LoadedSoFar
  <2>2. CASE ~(counter \div 2 > watch \div 2)
    <3>1. /\ counter % 2 = 1 /\ counter \div 2 = watch \div 2
          /\ watch % 2 = 1 => counter = watch
          /\ watch % 2 = 0 => counter = watch + 1
          /\ watch % 2 \in {0, 1}
      <4>1. /\ counter = 2 * (counter \div 2) + (counter % 2) /\ counter % 2 \in {0, 1}
            /\ watch = 2 * (watch \div 2) + (watch % 2) /\ watch % 2 \in {0, 1}
            /\ counter \div 2 \in Nat /\ watch \div 2 \in Nat
        BY <1>8
      <4>2. counter % 2 = 0 => (counter + 1) \div 2 = counter \div 2
        BY <1>8
      <4>3. (counter + 1) \div 2 <= counter \div 2 + 1
        BY <1>8
      <4>4. counter % 2 = 1 /\ counter \div 2 = watch \div 2
        BY <1>8, <1>9, <2>2, <4>1, <4>2, <4>3
      <4> QED BY <1>8, <4>1, <4>4
    <3>2. watch \div 2 \in data_wren'
      BY <3>1 DEF LoadBeat
    <3>3. HalfAt(watch)' = [en |-> 1, val |-> cwdata'[watch % 2]]
      BY <1>1, <1>6, <3>2, WatchEdge
    <3>4. cwdata'[watch % 2] = expected
      <4>1. watch % 2 = 1 => cwdata'[watch % 2] = mem[tag][watch]
        BY <1>5, <1>6, <3>1
      <4>2. watch % 2 = 0 => cwdata'[watch % 2] = cwdata[1]
        BY <1>5, <1>6
      <4>3. watch % 2 = 0 => cwdata[1] = expected
        BY <1>1, <1>9, <3>1, Zenon DEF IInv, Coherent, LoadedSoFar
      <4> QED BY <1>4, <1>9, <3>1, <4>1, <4>2, <4>3, Zenon
    <3> QED BY <3>3, <3>4
  <2> QED BY <2>1, <2>2
<1>10. CASE counter # Beats - 1
  <2>1. counter' = counter + 1
    BY <1>2, <1>10, CacheAssumption DEF LoadBeat, Beat, Beats
  <2>2. state' = "LOAD_LINE" /\ meta_wren' = 0 /\ MetaQ' = MetaQ
    <3>1. state' = state /\ meta_wren' = 0
      BY <1>10 DEF LoadBeat
    <3> QED BY <1>1, <3>1, MetaEdge
  <2>3. Handshake'
    BY <1>1, <2>2 DEF Handshake, Initialized, cpu_vars, IInv
  <2>4. Channel'
    BY <1>1, <1>2, <1>3, <2>1, <2>2, Zenon DEF IInv, Channel, cpu_vars, mc_vars, NoBeat
  <2>5. tag = WatchTag /\ counter' = watch + 1 => cwdata'[1] = expected
    BY <1>4, <1>5, <1>6, <1>8, <2>1
  <2>6. Coherent'
    <3>1. ~InLine' /\ (MetaQ'.dirty = 1 => MetaQ'.valid = 1)
      <4>1. MetaQ'.valid # 1
        BY <1>1, <2>2
      <4>2. MetaQ.dirty = 1 => MetaQ.valid = 1
        BY Zenon DEF IInv, Coherent
      <4> QED
        BY <2>2, <4>1, <4>2, Zenon DEF InLine
    <3>2. MemQ'[WatchTag][watch'] = expected'
      BY <1>1, <1>4, Zenon
    <3>3. tag' = WatchTag => LoadedSoFar'
      <4>1. tag' = tag /\ expected' = expected
        BY <1>1 DEF cpu_vars
      <4> QED
        BY <1>4, <1>9, <2>1, <2>5, <4>1, Zenon DEF LoadedSoFar
    <3> QED
      BY <2>2, <3>1, <3>2, <3>3, Zenon DEF Coherent
  <2> QED
    BY <1>1, <2>3, <2>4, <2>6, TypeStep DEF IInv, UndefinedNotRead
<1>11. CASE counter = Beats - 1
  <2>1. mem_beat' = NoBeat
    BY <1>3, <1>8, <1>11, CacheAssumption DEF NoBeat, Beats
  <2>2. state' = "IDLE" /\ MetaQ' = [tag |-> tag, valid |-> 1, dirty |-> 0]
    <3>1. state' = "IDLE" /\ meta_wren' = 1 /\ meta_valid' = 1
      BY <1>11 DEF LoadBeat
    <3>2. tag' = tag
      BY <1>1 DEF cpu_vars
    <3> QED BY <1>1, <3>1, <3>2, MetaEdge
  <2>3. Handshake'
    BY <1>1, <2>2 DEF Handshake, Initialized, cpu_vars, IInv
  <2>4. Channel'
    BY <1>3, <2>1, <2>2 DEF Channel, NoBeat
  <2>5. (counter + 1) \div 2 > watch \div 2
    BY <1>6, <1>11, CacheAssumption DEF Beats, Beat
  <2>6. Coherent'
    <3>1. MemQ'[WatchTag][watch'] = expected'
      BY <1>1, <1>4
    <3>2. InLine' => HalfAt(watch)'.val = expected'
      BY <1>1, <1>9, <2>2, <2>5 DEF InLine
    <3> QED
      BY <2>2, <3>1, <3>2 DEF Coherent
  <2> QED
    BY <1>1, <2>3, <2>4, <2>6, TypeStep DEF IInv, UndefinedNotRead
<1> QED BY <1>10, <1>11

\* StoreBeat: the next halfword is offered; with the last one the line is given up.
LEMMA StoreBeatInv == IInv /\ Next /\ StoreBeat => IInv'
<1> SUFFICES ASSUME IInv, Next, StoreBeat PROVE IInv'
  OBVIOUS
<1>1. /\ cpu = "WAIT" /\ UNCHANGED cpu_vars /\ state = "STORE_LINE"
      /\ start # start_save /\ (wren = 0 => ~hit) /\ meta_dirty = 0
      /\ write_strobe = write_strobe_save
      /\ UNCHANGED <<start_save, write_strobe, expected, meta_dirty, mc_op_start, mc_tag, mc_wren>>
      /\ data_wren' = {}
  BY CpuStep, Zenon DEF Next, StoreBeat, NoData, IInv, Handshake
<1>2. /\ mem_beat = counter /\ counter \in Beat /\ counter # Beats - 1 /\ counter # NoBeat
      /\ mc_tag = MetaQ.tag /\ mc_wren = 1
      /\ mem_op = [tag |-> mc_tag, wren |-> 1] /\ op_strobe = mc_op_start
      /\ MetaQ.valid = 1
  <2>1. op_strobe = mc_op_start
    BY DEF StoreBeat
  <2>2. /\ mem_beat = counter /\ mem_op = [tag |-> mc_tag, wren |-> mc_wren]
        /\ mc_tag = MetaQ.tag /\ mc_wren = 1 /\ counter # Beats - 1
    BY <1>1, <2>1, Zenon DEF IInv, Channel
  <2>3. MetaQ.valid = 1
    BY <1>1, Zenon DEF IInv, Coherent
  <2>4. counter \in Beat
    BY DEF IInv, TypeInv
  <2>5. counter # NoBeat
    BY <2>4, CacheAssumption DEF Beat, Beats, NoBeat
  <2> QED BY <2>1, <2>2, <2>3, <2>4, <2>5
<1>3. mem_beat' = counter + 1 /\ op_strobe' = mc_op_start' /\ mem_op' = mem_op
  BY <1>1, <1>2, BeatNext
<1>4. counter + 1 \in Beat /\ counter' = counter + 1 /\ watch \in Beat /\ Word # {}
  <2>1. counter + 1 \in Beat
    BY <1>2, CacheAssumption DEF Beat, Beats
  <2>2. (counter + 1) % Beats = counter + 1
    BY <2>1, CacheAssumption DEF Beat, Beats
  <2> QED BY <2>1, <2>2, Zenon DEF StoreBeat, IInv, TypeInv
<1>5. /\ MemQ[WatchTag][watch] = expected => MemQ'[WatchTag][watch] = expected
      /\ counter + 1 = watch => MemQ'[WatchTag][watch] = expected
  BY <1>1, <1>2, <1>3, <1>4, OfferedValue, Zenon DEF StoreBeat, StoreDqm
<1>6. counter + 1 >= watch => MemQ'[WatchTag][watch] = expected
  <2>1. counter >= watch => MemQ[WatchTag][watch] = expected
    BY <1>1, <1>2, Zenon DEF IInv, Coherent
  <2>2. counter + 1 >= watch => counter >= watch \/ counter + 1 = watch
    BY <1>2, <1>4 DEF Beat
  <2> QED BY <1>5, <2>1, <2>2, Zenon
<1>7. watch' = watch /\ HalfAt(watch)' = HalfAt(watch) /\ HalfAt(counter)' = HalfAt(counter + 1)
      /\ \A w \in Word, h \in Half : LineQ'[w][h] = LineQ[w][h]
  <2>1. \A k \in Beat : LineQ'[k \div 2][k % 2] = HalfAt(k)
    BY <1>1, EdgeFacts, Zenon
  <2>2. watch' = watch /\ \A w \in Word, h \in Half : LineQ'[w][h] = LineQ[w][h]
    BY <1>1, EdgeFacts, Zenon
  <2>3. HalfAt(watch)' = HalfAt(watch)
    BY <1>4, <2>1, <2>2 DEF HalfAt
  <2>4. HalfAt(counter)' = HalfAt(counter + 1)
    BY <1>4, <2>1 DEF HalfAt
  <2> QED BY <2>2, <2>3, <2>4, Zenon
<1>8. CASE counter # Beats - 2
  <2>1. state' = "STORE_LINE" /\ MetaQ' = MetaQ
    <3>1. state' = state /\ meta_wren' = 0
      BY <1>8 DEF StoreBeat
    <3> QED BY <1>1, <3>1, MetaEdge
  <2>2. hit' <=> hit
    <3>1. UNCHANGED <<tag, word, byteena>>
      BY <1>1 DEF cpu_vars
    <3> QED BY <1>7, <2>1, <3>1, HitKept DEF IInv
  <2>3. Handshake'
    BY <1>1, <1>4, <2>1, <2>2 DEF Handshake, Initialized, cpu_vars
  <2>4. counter' # Beats - 1
    BY <1>2, <1>4, <1>8, CacheAssumption DEF Beat, Beats
  <2>5. Channel'
    BY <1>1, <1>2, <1>3, <1>4, <1>7, <2>1, <2>4, Zenon DEF StoreBeat, StoreDqm, Channel, NoBeat
  <2>6. Coherent'
    <3>1. (InLine' <=> InLine) /\ HalfAt(watch)'.val = HalfAt(watch).val
      BY <1>7, <2>1, Zenon DEF InLine
    <3>2. /\ MetaQ'.dirty = 1 => MetaQ'.valid = 1
          /\ InLine' => HalfAt(watch)'.val = expected'
      BY <1>1, <2>1, <3>1, Zenon DEF IInv, Coherent
    <3>3. ~InLine' => MemQ'[WatchTag][watch'] = expected'
      BY <1>1, <1>5, <1>7, <3>1, Zenon DEF IInv, Coherent
    <3>4. counter' >= watch' => MemQ'[WatchTag][watch'] = expected'
      BY <1>1, <1>4, <1>6, <1>7, Zenon
    <3> QED
      BY <1>2, <2>1, <3>2, <3>3, <3>4, Zenon DEF Coherent
  <2> QED
    BY <1>1, <2>3, <2>5, <2>6, TypeStep DEF IInv, UndefinedNotRead
<1>9. CASE counter = Beats - 2
  <2>1. state' = "IDLE" /\ MetaQ' = [tag |-> tag, valid |-> 0, dirty |-> 0]
    <3>1. state' = "IDLE" /\ meta_wren' = 1 /\ meta_valid' = 0
      BY <1>9 DEF StoreBeat
    <3>2. tag' = tag
      BY <1>1 DEF cpu_vars
    <3> QED BY <1>1, <3>1, <3>2, MetaEdge
  <2>2. Handshake'
    BY <1>1, <1>4, <2>1, Zenon DEF Handshake, Initialized, cpu_vars
  <2>3. mem_beat' = Beats - 1 /\ counter + 1 >= watch
    BY <1>3, <1>4, <1>9, CacheAssumption DEF Beat, Beats
  <2>4. Channel'
    BY <1>1, <1>2, <1>3, <2>1, <2>3, Zenon DEF Channel, NoBeat, Beats
  <2>5. Coherent'
    <3>1. MemQ'[WatchTag][watch'] = expected'
      BY <1>1, <1>6, <1>7, <2>3, Zenon
    <3>2. ~InLine' /\ MetaQ'.dirty = 0
      BY <2>1 DEF InLine
    <3> QED
      BY <2>1, <3>1, <3>2, Zenon DEF Coherent
  <2> QED
    BY <1>1, <2>2, <2>4, <2>5, TypeStep DEF IInv, UndefinedNotRead
<1> QED BY <1>8, <1>9

\* An edge that changes nothing.
LEMMA StutterInv == IInv /\ UNCHANGED vars => IInv'
<1> SUFFICES ASSUME IInv, UNCHANGED vars PROVE IInv'
  OBVIOUS
<1> USE DEF vars, cpu_vars, ram_vars, wr_vars, mc_vars, mem_vars
<1>1. MetaQ' = MetaQ /\ LineQ' = LineQ /\ MemQ' = MemQ
  BY Zenon DEF MetaQ, LineQ, MemQ
<1>2. TypeInv'
  BY Zenon DEF IInv, TypeInv
<1>3. Handshake'
  BY <1>1, Zenon DEF IInv, Handshake, Initialized, Pending, hit, line_hit
<1>4. Channel'
  BY <1>1, Zenon DEF IInv, Channel, HalfAt, NoBeat
<1>5. Coherent'
  BY <1>1, Zenon DEF IInv, Coherent, LoadedSoFar, InLine, HalfAt
<1>6. UndefinedNotRead'
  BY DEF IInv, UndefinedNotRead
<1> QED BY <1>2, <1>3, <1>4, <1>5, <1>6 DEF IInv

\* One rising edge of iexec, the cache and the memory.
LEMMA StepInv == IInv /\ [Next]_vars => IInv'
  BY WriteInv, StoreInv, LoadInv, InitializeInv, ReadHitInv, LoadBeatInv, StoreBeatInv, HoldInv, IdleInv,
     StutterInv DEF Next, CacheClk

-----------------------------------------------------------------------------
(* Theorems.                                                               *)

\* Every reachable state of iexec, the cache and the memory satisfies the
\* inductive invariant.
THEOREM Invariance == Spec => []IInv
  BY InitInv, StepInv, PTL DEF Spec

\* A load returns the value stored last to its address: iexec takes a halfword
\* only while it is enabled in a line of its tag, and such a halfword is the last
\* one stored.
THEOREM LoadsReturnLastStore == Spec => []ReadsLastWrite
<1>1. IInv => ReadsLastWrite
  <2> SUFFICES ASSUME IInv, cpu = "TAKE", NEW h \in byteena, Watched(h)
               PROVE  LineQ[word][h].val = expected
    BY DEF ReadsLastWrite
  <2>1. hit /\ h \in Half /\ word \in Word
    BY Zenon DEF IInv, Handshake, TypeInv
  <2>2. watch \div 2 = word /\ watch % 2 = h
    BY <2>1 DEF Watched, Word, Half
  <2>3. InLine
    BY <2>1, <2>2 DEF hit, line_hit, InLine, HalfAt, Watched
  <2> QED
    BY <2>2, <2>3, Zenon DEF IInv, Coherent, HalfAt
<1> QED BY Invariance, <1>1, PTL

\* The flush by a store without bytes to an alias has written the line back when
\* the store completes.
THEOREM FlushesReachMemory == Spec => []FlushWritesBack
<1>1. IInv => FlushWritesBack
  <2> SUFFICES ASSUME IInv, cpu = "DONE", tag # WatchTag PROVE mem[WatchTag][watch] = expected
    BY DEF FlushWritesBack
  <2>1. line_hit /\ state = "IDLE"
    BY Zenon DEF IInv, Handshake
  <2>2. ~InLine /\ mem_beat = NoBeat
    BY <2>1 DEF line_hit, InLine, IInv, Channel
  <2> QED
    BY <2>2, Zenon DEF IInv, Coherent, MemQ
<1> QED BY Invariance, <1>1, PTL

\* The last value stored is in the line, in memory, or in a store under way.
THEOREM StoresNeverLost == Spec => []NeverLost
<1>1. IInv => NeverLost
  <2> SUFFICES ASSUME IInv, ~InLine, ~InStore PROVE mem[WatchTag][watch] = expected
    BY Zenon DEF IInv, Coherent, NeverLost
  <2>1. MemQ[WatchTag][watch] = expected
    BY Zenon DEF IInv, Coherent
  <2>2. CASE mem_beat # NoBeat /\ mem_op.wren = 1
    <3>1. mem_op.tag = mc_tag
      BY <2>2 DEF IInv, TypeInv, Channel
    <3>2. mem_op.tag # WatchTag
      BY <2>2, <3>1 DEF InStore
    <3> QED
      BY <2>1, <3>2, CacheAssumption, Zenon DEF MemQ, IInv, TypeInv
  <2>3. CASE ~(mem_beat # NoBeat /\ mem_op.wren = 1)
    BY <2>1, <2>3 DEF MemQ
  <2> QED BY <2>2, <2>3
<1> QED BY Invariance, <1>1, PTL

\* An eviction never skips the store of a line that memory does not have.
THEOREM NewerIsDirty == Spec => []DirtyWhenNewer
<1>1. IInv => DirtyWhenNewer
  <2> SUFFICES ASSUME IInv, InLine, state = "IDLE", mem[WatchTag][watch] # HalfAt(watch).val
               PROVE  MetaQ.dirty = 1
    BY DEF DirtyWhenNewer
  <2>1. mem_beat = NoBeat
    <3>1. MetaQ.valid # 0
      BY DEF InLine
    <3> QED
      BY <3>1, Zenon DEF IInv, Channel
  <2>2. MemQ[WatchTag][watch] # expected
    BY <2>1, Zenon DEF MemQ, IInv, Coherent
  <2>3. MetaQ.dirty \in Bit
    BY ShownTypes, Zenon DEF IInv, Meta
  <2> QED
    BY <2>2, <2>3, Zenon DEF IInv, Coherent, Bit
<1> QED BY Invariance, <1>1, PTL

\* Nobody reads the RAM outputs in a cycle in which they are undefined.
THEOREM UndefinedUnread == Spec => []UndefinedNotRead
  BY Invariance, PTL DEF IInv

\* An initialized line is written at the very next edge (line 257's "Must be
\* followed by write").
THEOREM WriteFollowsInit == Spec => InitThenWrite
<1>1. IInv /\ [Next]_vars => [Initialized => CacheWrite]_vars
  <2> SUFFICES ASSUME IInv, Next, Initialized PROVE CacheWrite
    OBVIOUS
  <2>1. Pending /\ wren = 1 /\ line_hit
    BY DEF IInv, Handshake
  <2>2. ~Misses /\ ~CacheReadHit /\ ~LoadBeat /\ ~StoreBeat /\ ~CacheHold
    BY <2>1 DEF Misses, CacheReadHit, LoadBeat, StoreBeat, CacheHold, Pending
  <2> QED
    BY <2>2 DEF Next, CacheClk, CacheStore, CacheLoad, CacheInitialize
<1> QED BY Invariance, <1>1, PTL DEF Spec, InitThenWrite
=============================================================================
