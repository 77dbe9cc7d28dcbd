-------------------------- MODULE Components_proofs --------------------------
(***************************************************************************)
(* Proofs about two components that stand alone.                           *)
(* InstructionFetch, for every number of lines and of tags: what the fetch *)
(* stage takes is fresh.                                                   *)
(* ConsProd, for every size of the ring, every set of bytes and every      *)
(* bound on the length of a call: the ring is a bounded FIFO queue.        *)
(***************************************************************************)
EXTENDS InstructionFetch, Sequences, TLAPS

\* The address of word w of line l of tag t.
AddrOf(t, l, w) == 4 * (t * NLines + l) + w

\* v is a value the fetch stage may take for address a.
MayTake(a, v) == IF a = watch THEN v \in fresh ELSE v = a

TypeInv ==
  /\ pc \in Addr /\ watch \in Addr
  /\ flush \in Bit /\ flush_ack \in Bit /\ flush_enable \in Bit /\ flush_addr \in Line
  /\ ic_state \in {"IDLE", "FLUSH_CACHE", "WAIT"}
  /\ ic_wait \in 1 .. 8 /\ ic_beat \in 0 .. 8
  /\ ic_op_start \in Bit /\ ic_strobe \in Bit
  /\ meta \in [Line -> [tag : Nat, valid : Bit]]
  /\ meta_wren \in Bit /\ line_valid \in Bit
  /\ imem \in [Addr -> Nat]

\* The state of the cache tells where flush and burst are.
Control ==
  /\ flush_enable = 1 <=> ic_state = "FLUSH_CACHE"
  /\ ic_state = "FLUSH_CACHE" => flush # flush_ack
  /\ ic_state = "WAIT" => flush = flush_ack
  /\ ic_state # "WAIT" => ic_beat = NoBeat /\ ic_strobe = ic_op_start
  /\ ic_state = "WAIT" /\ ic_wait = 1 => \/ ic_beat = NoBeat /\ ic_strobe # ic_op_start
                                         \/ ic_beat = 0 /\ ic_strobe = ic_op_start
  /\ ic_state = "WAIT" /\ ic_wait # 1 => ic_beat = ic_wait - 1 /\ ic_strobe = ic_op_start

\* The memory holds what may be fetched.
MemoryFresh == \A a \in Addr : MayTake(a, imem[a])

\* Unless a flush is due, a valid line holds words of its tag that may be fetched.
LinesFresh == flush = flush_ack => \A l \in Line : MetaRam[l].valid = 1 =>
  \A w \in Word : MayTake(AddrOf(MetaRam[l].tag, l, w), DataRam[l][w])

\* A flush invalidates the lines from the last one down.
Flushed == ic_state = "FLUSH_CACHE" => \A l \in Line : l >= flush_addr => MetaRam[l].valid = 0

\* A line being loaded is not valid; WAIT_Bn has written the words whose two
\* halves came before, and holds the halfword that came last.
Loading == ic_state = "WAIT" =>
  /\ MetaRam[LineOf(pc)].valid = 0
  /\ \A w \in Word : 2 * w + 3 <= ic_wait => DataRam[LineOf(pc)][w] = imem[LineBase(pc) + w]
  /\ ic_wait # 1 => write_data[2] = [val |-> imem[LineBase(pc) + (ic_wait - 2) \div 2],
                                     half |-> (ic_wait - 2) % 2]

FetchInv == TypeInv /\ Control /\ MemoryFresh /\ LinesFresh /\ Flushed /\ Loading

-----------------------------------------------------------------------------
(* Addresses.                                                              *)

\* Tag, line and word of an address determine it; the words of its line are
\* addresses.
LEMMA AddrParts ==
  ASSUME NEW a \in Addr
  PROVE  /\ LineOf(a) \in Line /\ TagOf(a) \in Nat /\ a % 4 \in Word
         /\ a = AddrOf(TagOf(a), LineOf(a), a % 4)
         /\ \A w \in Word : /\ LineBase(a) + w \in Addr
                            /\ LineBase(a) + w = AddrOf(TagOf(a), LineOf(a), w)
<1> USE ReadCacheAssumption
<1> DEFINE q == a \div 4
<1>1. a \in Nat /\ q \in Nat /\ a = 4 * q + (a % 4) /\ a % 4 \in 0 .. 3
  BY DEF Addr
<1>2. q \div NLines \in Nat /\ q % NLines \in 0 .. NLines - 1
      /\ q = NLines * (q \div NLines) + (q % NLines)
  <2>. HIDE DEF q
  <2> QED BY <1>1
<1>3. a \div (4 * NLines) = q \div NLines
  BY <1>1, <1>2
<1>4. q < NLines * NTags
  BY <1>1 DEF Addr
<1>5. ASSUME NEW w \in Word
      PROVE  LineBase(a) + w \in Addr /\ LineBase(a) + w = AddrOf(TagOf(a), LineOf(a), w)
  BY <1>1, <1>2, <1>3, <1>4 DEF AddrOf, TagOf, LineOf, LineBase, Word, Addr
<1>6. a = AddrOf(TagOf(a), LineOf(a), a % 4)
  BY <1>1, <1>5 DEF LineBase, Word
<1> QED
  BY <1>1, <1>2, <1>3, <1>5, <1>6 DEF LineOf, TagOf, Line, Word

-----------------------------------------------------------------------------
(* The RAMs after an edge, from what they show at it.                      *)

\* The tag RAM: line_valid and the tag of pc are written where meta_addr points.
LEMMA MetaNext ==
  ASSUME NEW M, meta' = M
  PROVE  MetaRam' = IF meta_wren' = 1
                    THEN [M EXCEPT ![meta_addr'] = [tag |-> TagOf(pc'), valid |-> line_valid']]
                    ELSE M
  BY DEF MetaRam

\* The data RAMs: the joined halves are written to the enabled words of pc's line.
LEMMA DataNext ==
  ASSUME NEW D, data' = D
  PROVE  DataRam' = [l \in Line |-> IF l # LineOf(pc') THEN D[l]
           ELSE [w \in Word |-> IF w \in data_wren' THEN Joined(write_data') ELSE D[l][w]]]
  BY DEF DataRam

\* What the tag RAM shows has the type of its contents.
LEMMA MetaRamType == TypeInv => MetaRam \in [Line -> [tag : Nat, valid : Bit]]
  BY AddrParts, Zenon DEF TypeInv, MetaRam

\* The initial values of the registers satisfy the inductive invariant.
LEMMA FetchInitInv == FetchInit => FetchInv
<1> SUFFICES ASSUME FetchInit PROVE FetchInv
  OBVIOUS
<1> USE ReadCacheAssumption
<1>1. 0 \in Addr
  BY DEF Addr
<1>2. 0 \in Line
  BY DEF Line
<1>3. TypeInv
  BY <1>1, <1>2 DEF FetchInit, IcInit, TypeInv, NoBeat, Bit, Addr
<1>4. MetaRam = [l \in Line |-> [tag |-> 0, valid |-> 0]]
  BY DEF MetaRam, FetchInit, IcInit
<1> QED
  BY <1>3, <1>4 DEF FetchInit, IcInit, FetchInv, Control, MemoryFresh, MayTake, LinesFresh, Flushed,
       Loading, NoBeat

\* The fetch stage moves, and executes FENCE.I, only when the cache is in IDLE.
LEMMA MoveIdle == FetchInv /\ MayMove => ic_state = "IDLE"
  BY DEF FetchInv, TypeInv, Control, Loading, MayMove, hit, meta_addr, Bit

\* What a step of the fetch stage and of the other masters leaves alone.
LEMMA FetchStep ==
  ASSUME FetchInv, Fetch, UNCHANGED watch
  PROVE  /\ pc' \in Addr /\ flush' \in Bit /\ imem' \in [Addr -> Nat]
         /\ MemoryFresh'
         /\ ic_state # "IDLE" \/ flush # flush_ack \/ ~hit => UNCHANGED <<pc, flush>>
         /\ flush' # flush => flush = flush_ack
         /\ flush' = flush => fresh \subseteq fresh'
         /\ ic_beat # NoBeat => imem' = imem
<1> USE ReadCacheAssumption DEF FetchInv, TypeInv, MemoryFresh, MayTake
<1>1. CASE FetchMove /\ UNCHANGED imem
  BY <1>1, MoveIdle DEF FetchMove, MayMove
<1>2. CASE FetchFenceI /\ UNCHANGED imem
  <2>1. (pc + 1) % (4 * NLines * NTags) \in Addr
    <3>1. 4 * NLines * NTags \in Nat \ {0} /\ pc + 1 \in Nat
      BY DEF Addr
    <3> QED BY <3>1 DEF Addr
  <2>2. flush' \in Bit /\ flush' # flush
    BY <1>2 DEF FetchFenceI, Bit, Flip
  <2> QED
    BY <1>2, <2>1, <2>2, MoveIdle DEF FetchFenceI, MayMove
<1>3. CASE FetchHold /\ UNCHANGED imem
  BY <1>3 DEF FetchHold
<1>4. CASE OtherWrite /\ UNCHANGED <<pc, flush>> /\ fresh' = fresh \cup {imem'[watch]}
  <2>1. PICK v \in Bit : imem' = [imem EXCEPT ![watch] = watch + v * (4 * NLines * NTags)]
    BY <1>4, Zenon DEF OtherWrite
  <2>2. watch + v * (4 * NLines * NTags) \in Nat
    <3>1. PICK m \in Nat : m = 4 * NLines * NTags
      OBVIOUS
    <3>2. watch \in Nat /\ (v = 0 \/ v = 1)
      BY DEF Bit, Addr, FetchInv, TypeInv
    <3>3. watch + 0 * m \in Nat /\ watch + 1 * m \in Nat
      BY <3>2
    <3> QED
      BY <3>1, <3>2, <3>3
  <2> QED
    BY <1>4, <2>1, <2>2 DEF OtherWrite
<1> QED
  BY <1>1, <1>2, <1>3, <1>4 DEF Fetch

\* One rising edge of the cache, its memory and the fetch stage.
LEMMA FetchStepInv == FetchInv /\ [FetchNext]_fetch_vars => FetchInv'
<1> SUFFICES ASSUME FetchInv, FetchNext PROVE FetchInv'
  <2>1. ASSUME FetchInv, UNCHANGED fetch_vars PROVE FetchInv'
    <3>1. MetaRam' = MetaRam /\ DataRam' = DataRam
      BY <2>1 DEF MetaRam, DataRam, meta_addr, fetch_vars, ic_vars
    <3>2. TypeInv' /\ Control' /\ MemoryFresh'
      BY <2>1 DEF FetchInv, TypeInv, Control, MemoryFresh, MayTake, fetch_vars, ic_vars, imem_vars
    <3>3. LinesFresh' /\ Flushed' /\ Loading'
      BY <2>1, <3>1 DEF FetchInv, MayTake, LinesFresh, Flushed, Loading, fetch_vars, ic_vars
    <3> QED BY <3>2, <3>3 DEF FetchInv
  <2> QED BY <2>1
<1> USE ReadCacheAssumption
<1>1. IcEdge /\ ImemClk /\ Fetch /\ watch' = watch
  BY DEF FetchNext, IcClk
<1>2. /\ pc' \in Addr /\ flush' \in Bit /\ imem' \in [Addr -> Nat]
      /\ MemoryFresh'
      /\ ic_state # "IDLE" \/ flush # flush_ack \/ ~hit => UNCHANGED <<pc, flush>>
      /\ flush' # flush => flush = flush_ack
      /\ flush' = flush => fresh \subseteq fresh'
      /\ ic_beat # NoBeat => imem' = imem
  BY <1>1, FetchStep
<1>3. PICK M \in [Line -> [tag : Nat, valid : Bit]] : M = MetaRam
  BY MetaRamType DEF FetchInv
<1>4. PICK D : D = DataRam
  OBVIOUS
<1>5. MetaRam' = IF meta_wren' = 1
                 THEN [M EXCEPT ![meta_addr'] = [tag |-> TagOf(pc'), valid |-> line_valid']]
                 ELSE M
  BY <1>1, <1>3, MetaNext DEF IcEdge
<1>6. DataRam' = [l \in Line |-> IF l # LineOf(pc') THEN D[l]
        ELSE [w \in Word |-> IF w \in data_wren' THEN Joined(write_data') ELSE D[l][w]]]
  BY <1>1, <1>4, DataNext DEF IcEdge
<1>7. data_wren' = {} => \A l \in Line, w \in Word : DataRam'[l][w] = D[l][w]
  BY <1>6
<1>8. /\ LineOf(pc) \in Line /\ TagOf(pc) \in Nat
      /\ \A w \in Word : /\ LineBase(pc) + w \in Addr
                         /\ LineBase(pc) + w = AddrOf(TagOf(pc), LineOf(pc), w)
  BY AddrParts DEF FetchInv, TypeInv
<1>9. meta' \in [Line -> [tag : Nat, valid : Bit]] /\ watch' \in Addr
  BY <1>1, MetaRamType DEF FetchInv, TypeInv, IcEdge
<1>10. CASE IcIdle
  <2>1. TypeInv' /\ Control'
    BY <1>1, <1>2, <1>9, <1>10 DEF IcIdle, NoMeta, ImemClk, BurstStart, BurstWait, BurstBeat, imem_vars,
         FetchInv, TypeInv, Control, NoBeat, Bit
  <2>2. MetaRam' = M
    BY <1>5, <1>10 DEF IcIdle, NoMeta
  <2>3. LinesFresh'
    BY <1>1, <1>2, <1>3, <1>4, <1>7, <1>10, <2>2 DEF IcIdle, FetchInv, LinesFresh, MayTake, AddrOf
  <2> QED
    BY <1>2, <1>10, <2>1, <2>3 DEF IcIdle, FetchInv, Flushed, Loading
<1>11. CASE FlushStart
  <2>1. NLines - 1 \in Line
    BY DEF Line
  <2>2. TypeInv' /\ Control'
    BY <1>1, <1>2, <1>9, <1>11, <2>1 DEF FlushStart, Invalidate, ImemClk, BurstStart, BurstWait, BurstBeat,
         imem_vars, FetchInv, TypeInv, Control, NoBeat, Bit
  <2>3. MetaRam'[NLines - 1].valid = 0
    BY <1>5, <1>11, <2>1 DEF FlushStart, Invalidate, meta_addr
  <2>4. Flushed'
    <3>1. \A l \in Line : l >= NLines - 1 => l = NLines - 1
      BY DEF Line
    <3> QED
      BY <1>11, <2>3, <3>1 DEF FlushStart, Flushed
  <2> QED
    BY <1>2, <1>11, <2>2, <2>4 DEF FlushStart, FetchInv, LinesFresh, Loading
<1>12. CASE Miss
  <2>1. TypeInv' /\ Control'
    BY <1>1, <1>2, <1>9, <1>12 DEF Miss, Invalidate, ImemClk, BurstStart, BurstWait, BurstBeat, imem_vars,
         FetchInv, TypeInv, Control, NoBeat, Bit, Flip
  <2>2. MetaRam' = [M EXCEPT ![LineOf(pc)] = [tag |-> TagOf(pc), valid |-> 0]]
    BY <1>2, <1>5, <1>12, Zenon DEF Miss, Invalidate, meta_addr, FetchInv, TypeInv, Control, Bit
  <2>3. LinesFresh'
    BY <1>1, <1>2, <1>3, <1>4, <1>7, <1>8, <1>12, <2>2 DEF Miss, FetchInv, LinesFresh, MayTake, AddrOf
  <2>4. Loading'
    BY <1>2, <1>8, <1>12, <2>2 DEF Miss, Loading, Word
  <2> QED
    BY <1>2, <1>12, <2>1, <2>3, <2>4 DEF Miss, FetchInv, Flushed
<1>13. CASE FlushLine
  <2>1. UNCHANGED <<pc, flush>>
    BY <1>2, <1>13 DEF FlushLine
  <2>2. TypeInv' /\ Control'
    <3>1. flush_addr # 0 => flush_addr - 1 \in Line
      BY DEF FetchInv, TypeInv, Line
    <3>2. ic_beat' = NoBeat /\ UNCHANGED <<ic_strobe, ic_op_start, ic_wait>>
      BY <1>1, <1>13 DEF FlushLine, ImemClk, BurstStart, BurstWait, BurstBeat, imem_vars, FetchInv, Control
    <3>3. TypeInv'
      BY <1>1, <1>2, <1>9, <1>13, <3>1, <3>2 DEF FlushLine, FlushAcked, Invalidate, FetchInv, TypeInv,
           NoBeat, Bit, Flip
    <3>4. Control'
      BY <1>13, <2>1, <3>2 DEF FlushLine, FlushAcked, FetchInv, TypeInv, Control, Bit, Flip
    <3> QED BY <3>3, <3>4
  <2>3. CASE flush_addr = 0
    <3>1. \A l \in Line : M[l].valid = 0
      BY <1>3, <1>13, <2>3 DEF FlushLine, FetchInv, Flushed, Line
    <3>2. \A l \in Line : MetaRam'[l].valid = 0
      BY <1>5, <1>13, <3>1 DEF FlushLine, Invalidate
    <3> QED
      BY <1>2, <1>13, <2>2, <2>3, <3>2 DEF FlushLine, FetchInv, LinesFresh, Flushed, Loading
  <2>4. CASE flush_addr # 0
    <3>1. MetaRam' = [M EXCEPT ![flush_addr - 1] = [tag |-> TagOf(pc'), valid |-> 0]]
      BY <1>5, <1>13, <2>4, Zenon DEF FlushLine, Invalidate, meta_addr, FetchInv, TypeInv, Control, Bit
    <3>2. Flushed'
      <4>1. /\ flush_addr \in Nat /\ flush_addr' = flush_addr - 1
            /\ \A l \in Line : l >= flush_addr => M[l].valid = 0
        BY <1>3, <1>13, <2>4 DEF FlushLine, FetchInv, TypeInv, Flushed, Line
      <4>2. \A l \in Line : l >= flush_addr - 1 => l = flush_addr - 1 \/ l >= flush_addr
        BY <4>1 DEF Line
      <4>3. \A l \in Line : l >= flush_addr - 1 => MetaRam'[l].valid = 0
        BY <3>1, <4>1, <4>2
      <4> QED
        BY <4>1, <4>3 DEF Flushed
    <3>3. flush' # flush_ack'
      BY <1>13, <2>1, <2>4 DEF FlushLine, FetchInv, Control
    <3> QED
      BY <1>2, <1>13, <2>2, <2>4, <3>2, <3>3 DEF FlushLine, FetchInv, LinesFresh, Loading
  <2> QED BY <2>3, <2>4
<1>14. CASE WaitStrobe
  <2>1. UNCHANGED <<pc, flush>>
    BY <1>2, <1>14 DEF WaitStrobe
  <2>2. TypeInv' /\ Control'
    BY <1>1, <1>2, <1>9, <1>14, <2>1 DEF WaitStrobe, NoMeta, ImemClk, BurstStart, BurstWait, BurstBeat,
         imem_vars, FetchInv, TypeInv, Control, NoBeat, Bit
  <2>3. MetaRam' = M
    BY <1>5, <1>14 DEF WaitStrobe, NoMeta
  <2>4. LinesFresh'
    BY <1>1, <1>2, <1>3, <1>4, <1>7, <1>14, <2>1, <2>3 DEF WaitStrobe, FetchInv, LinesFresh, MayTake, AddrOf
  <2>5. Loading'
    <3>1. ic_wait' = 2 => ic_beat = 0 /\ imem' = imem
      BY <1>2, <1>14 DEF WaitStrobe, FetchInv, TypeInv, Control, NoBeat
    <3>2. ic_wait' = 2 => write_data'[2] = [val |-> imem'[LineBase(pc') + (ic_wait' - 2) \div 2],
                                            half |-> (ic_wait' - 2) % 2]
      BY <1>1, <2>1, <3>1 DEF IcEdge, sdc_data_out, NoBeat
    <3> QED
      BY <1>3, <1>14, <2>1, <2>3, <3>2 DEF WaitStrobe, FetchInv, Loading, Word
  <2> QED
    BY <1>2, <1>14, <2>2, <2>4, <2>5 DEF WaitStrobe, FetchInv, Flushed
<1>15. CASE WaitBeat
  <2>1. /\ UNCHANGED <<pc, flush, imem>>
        /\ ic_wait \in 2 .. 8 /\ ic_beat = ic_wait - 1 /\ ic_beat # NoBeat
    BY <1>2, <1>15 DEF WaitBeat, FetchInv, TypeInv, Control, NoBeat
  <2>2. TypeInv'
    BY <1>1, <1>2, <1>9, <1>15, <2>1 DEF WaitBeat, ValidAt, ImemClk, BurstStart, BurstWait, BurstBeat,
         FetchInv, TypeInv, NoBeat, Bit
  <2>3. Control'
    BY <1>1, <1>15, <2>1 DEF WaitBeat, ImemClk, BurstStart, BurstWait, BurstBeat,
         FetchInv, TypeInv, Control, NoBeat, Bit
  <2>4. write_data' = <<[val |-> imem[LineBase(pc) + (ic_wait - 2) \div 2], half |-> (ic_wait - 2) % 2],
                        [val |-> imem[LineBase(pc) + (ic_wait - 1) \div 2], half |-> (ic_wait - 1) % 2]>>
    BY <1>1, <1>15, <2>1 DEF WaitBeat, IcEdge, sdc_data_out, FetchInv, Loading
  <2>5. ASSUME NEW w \in Word, 2 * w + 3 <= ic_wait + 1
        PROVE  DataRam'[LineOf(pc)][w] = imem[LineBase(pc) + w]
    <3>1. CASE 2 * w + 3 <= ic_wait
      <4>1. w \notin data_wren'
        BY <1>15, <2>1, <3>1 DEF WaitBeat, Word
      <4> QED
        BY <1>4, <1>6, <1>8, <1>15, <2>1, <3>1, <4>1 DEF WaitBeat, FetchInv, Loading
    <3>2. CASE 2 * w + 3 = ic_wait + 1
      <4>1. /\ w \in data_wren'
            /\ (ic_wait - 2) \div 2 = w /\ (ic_wait - 1) \div 2 = w
            /\ (ic_wait - 2) % 2 = 0 /\ (ic_wait - 1) % 2 = 1
        BY <1>15, <2>1, <3>2 DEF WaitBeat, Word
      <4>2. Joined(write_data') = imem[LineBase(pc) + w]
        BY <2>4, <4>1 DEF Joined
      <4> QED
        BY <1>6, <1>8, <2>1, <4>1, <4>2
    <3> QED BY <2>1, <2>5, <3>1, <3>2 DEF Word
  <2>6. \A l \in Line : l # LineOf(pc) => DataRam'[l] = D[l]
    BY <1>6, <2>1
  <2>7. CASE ic_wait # 8
    <3>1. MetaRam' = M /\ ic_state' = "WAIT" /\ ic_wait' = ic_wait + 1 /\ UNCHANGED flush_ack
      BY <1>5, <1>15, <2>7 DEF WaitBeat, ValidAt
    <3>2. LinesFresh'
      <4> SUFFICES ASSUME flush' = flush_ack', NEW l \in Line, MetaRam'[l].valid = 1, NEW w \in Word
                   PROVE  MayTake(AddrOf(MetaRam[l].tag, l, w), DataRam[l][w])'
        BY DEF LinesFresh
      <4>1. l # LineOf(pc)
        BY <1>3, <1>15, <3>1 DEF WaitBeat, FetchInv, Loading
      <4>2. MayTake(AddrOf(M[l].tag, l, w), D[l][w])
        BY <1>3, <1>4, <2>1, <3>1, Zenon DEF FetchInv, LinesFresh
      <4> QED
        BY <1>1, <1>2, <2>1, <2>6, <3>1, <4>1, <4>2 DEF MayTake, AddrOf
    <3>3. Loading'
      <4>1. MetaRam'[LineOf(pc)].valid = 0
        BY <1>3, <1>15, <3>1 DEF WaitBeat, FetchInv, Loading
      <4>2. write_data'[2] = [val |-> imem[LineBase(pc) + (ic_wait - 1) \div 2],
                              half |-> (ic_wait - 1) % 2]
        BY <2>4
      <4>3. ic_wait' - 2 = ic_wait - 1
        BY <2>1, <3>1
      <4> QED
        BY <2>1, <2>5, <3>1, <4>1, <4>2, <4>3 DEF Loading
    <3> QED
      BY <1>2, <2>2, <2>3, <3>1, <3>2, <3>3 DEF FetchInv, Flushed
  <2>8. CASE ic_wait = 8
    <3>1. MetaRam' = [M EXCEPT ![LineOf(pc)] = [tag |-> TagOf(pc), valid |-> 1]]
      BY <1>5, <1>15, <2>1, <2>8, Zenon DEF WaitBeat, ValidAt, meta_addr, FetchInv, TypeInv, Control, Bit
    <3>2. \A w \in Word : DataRam'[LineOf(pc)][w] = imem[LineBase(pc) + w]
      BY <2>5, <2>8 DEF Word
    <3>3. ic_state' = "IDLE" /\ UNCHANGED flush_ack
      BY <1>15, <2>8 DEF WaitBeat
    <3>4. LinesFresh'
      <4> SUFFICES ASSUME flush' = flush_ack', NEW l \in Line, MetaRam'[l].valid = 1, NEW w \in Word
                   PROVE  MayTake(AddrOf(MetaRam[l].tag, l, w), DataRam[l][w])'
        BY DEF LinesFresh
      <4>1. CASE l = LineOf(pc)
        <5>1. MetaRam'[l].tag = TagOf(pc)
          BY <1>8, <3>1, <4>1
        <5>2. AddrOf(MetaRam'[l].tag, l, w) = LineBase(pc) + w
          BY <1>8, <4>1, <5>1
        <5> QED
          BY <1>2, <1>8, <2>1, <3>2, <4>1, <5>2 DEF MemoryFresh, MayTake, AddrOf
      <4>2. CASE l # LineOf(pc)
        BY <1>1, <1>2, <1>3, <1>4, <2>1, <2>6, <3>1, <3>3, <4>2, Zenon DEF FetchInv, LinesFresh, MayTake, AddrOf
      <4> QED BY <4>1, <4>2
    <3> QED
      BY <1>2, <2>2, <2>3, <3>3, <3>4 DEF FetchInv, Flushed, Loading
  <2> QED BY <2>7, <2>8
<1> QED
  BY <1>10, <1>11, <1>12, <1>13, <1>14, <1>15 DEF FetchNext, IcClk

\* Every reachable state of cache, memory and fetch stage satisfies the
\* inductive invariant.
THEOREM FetchInvariance == FetchSpec => []FetchInv
  BY FetchInitInv, FetchStepInv, PTL DEF FetchSpec

\* What the fetch stage takes on a hit is a word of its pc, never one older than
\* the last FENCE.I: whatever the number of lines and tags, and however bursts,
\* flushes and the writes of other masters interleave.
THEOREM FetchesFresh == FetchSpec => []FetchedFresh
<1>1. FetchInv => FetchedFresh
  <2> SUFFICES ASSUME FetchInv, MayMove PROVE IF pc = watch THEN inst \in fresh ELSE inst = pc
    BY DEF FetchedFresh
  <2>1. /\ LineOf(pc) \in Line /\ pc % 4 \in Word
        /\ pc = AddrOf(TagOf(pc), LineOf(pc), pc % 4)
    BY AddrParts DEF FetchInv, TypeInv
  <2>2. MetaRam[LineOf(pc)] = [tag |-> TagOf(pc), valid |-> 1]
    BY MoveIdle DEF MayMove, hit, meta_addr, FetchInv, TypeInv, Control, Bit
  <2>3. MayTake(AddrOf(TagOf(pc), LineOf(pc), pc % 4), DataRam[LineOf(pc)][pc % 4])
    <3>1. flush = flush_ack /\ MetaRam[LineOf(pc)].valid = 1 /\ MetaRam[LineOf(pc)].tag = TagOf(pc)
      BY <2>2 DEF MayMove
    <3> QED
      BY <2>1, <3>1, Zenon DEF FetchInv, LinesFresh
  <2> QED
    BY <2>1, <2>3 DEF MayTake, inst
<1> QED
  BY FetchInvariance, <1>1, PTL

-----------------------------------------------------------------------------
(* The ring of ConsProd.                                                   *)

CONSTANTS N, Byte, MaxLen
VARIABLES buffer, prod, cons, p_pc, p_x, p_len, p_wait, p_p, p_c, p_ret, p_done,
          c_pc, c_x, c_len, c_wait, c_p, c_c, c_byte, c_ret, c_done, c_got

INSTANCE ConsProd

\* The assumptions of ConsProd.
RingOk == N \in Nat /\ N >= 2 /\ MaxLen \in Nat /\ Byte # {}

\* Two queues of bytes of the same length with the same bytes are the same.
LEMMA SameSeq == ASSUME NEW S, NEW s \in Seq(S), NEW t \in Seq(S), Len(s) = Len(t),
                        \A i \in 1 .. Len(s) : s[i] = t[i]
                 PROVE  s = t
OBVIOUS

\* The cells from cons to prod, read in order, are a queue of bytes.
LEMMA FunIsSeq == ASSUME NEW S, NEW n \in Nat, NEW f \in [1 .. n -> S]
                  PROVE  f \in Seq(S) /\ Len(f) = n
OBVIOUS

\* The local pointers follow the shared pointer their side owns; a side about
\* to advance has found room or data, and the consumer holds the byte it read.
LocalsFollow ==
  /\ p_pc \in {"loop", "advance"} => p_p = cp_ptr_next(prod)
  /\ p_pc = "advance" => p_x > 0 /\ p_p # p_c
  /\ c_pc \in {"loop", "advance"} => c_c = cp_ptr_next(cons)
  /\ c_pc = "advance" => c_x > 0 /\ c_c # c_p /\ c_byte = buffer[c_c]

\* What a running call has moved.
RunningCalls ==
  /\ p_pc # "idle" => p_x <= p_len /\ (p_wait = 0 => p_done = p_len - p_x)
  /\ p_pc = "spin" => p_wait = 1
  /\ c_pc # "idle" => c_x <= c_len /\ (c_wait = 0 => c_done = c_len - c_x)
  /\ c_pc = "spin" => c_wait = 1

IInv == TypeOK /\ SnapshotsSafe /\ LocalsFollow /\ RunningCalls /\ CallsAccountBytes

\* The invariant holds after consprod_init.
LEMMA InitInv == ASSUME RingOk PROVE Init => IInv
BY DEF RingOk, Init, ConsprodInit, IInv, TypeOK, SnapshotsSafe, LocalsFollow, RunningCalls,
       CallsAccountBytes, Cell, PC, Dist

\* Every step of consprod_produce preserves it.
LEMMA ProduceInv ==
  ASSUME RingOk, IInv,
         ProduceStep \/ \E len \in 0 .. MaxLen, wait \in {0, 1} : ProduceCall(len, wait)
  PROVE IInv'
<1> USE DEF RingOk, IInv, Cell, PC, shared, consumer, cp_ptr_next
<1>1. CASE \E len \in 0 .. MaxLen, wait \in {0, 1} : ProduceCall(len, wait)
  BY <1>1 DEF ProduceCall, TypeOK, SnapshotsSafe, LocalsFollow, RunningCalls, CallsAccountBytes, Dist
<1>2. CASE ProduceEnter
  BY <1>2 DEF ProduceEnter, TypeOK, SnapshotsSafe, LocalsFollow, RunningCalls, CallsAccountBytes, Dist
<1>3. CASE \E b \in Byte : ProduceWrite(b)
  <2>1. PICK b \in Byte : ProduceWrite(b)
    BY <1>3
  <2>2. TypeOK' /\ SnapshotsSafe' /\ RunningCalls' /\ CallsAccountBytes'
    BY <2>1 DEF ProduceWrite, RoomLeft, TypeOK, SnapshotsSafe, RunningCalls, CallsAccountBytes, Dist
  <2>3. c_pc = "advance" => c_c # prod
    BY DEF TypeOK, SnapshotsSafe, LocalsFollow, Dist
  <2>4. LocalsFollow'
    BY <2>1, <2>3 DEF ProduceWrite, RoomLeft, TypeOK, LocalsFollow
  <2> QED BY <2>2, <2>4
<1>4. CASE ProduceAdvance
  BY <1>4 DEF ProduceAdvance, TypeOK, SnapshotsSafe, LocalsFollow, RunningCalls, CallsAccountBytes, Dist
<1>5. CASE ProduceExit
  BY <1>5 DEF ProduceExit, RoomLeft, ProduceReturn, TypeOK, SnapshotsSafe, LocalsFollow,
              RunningCalls, CallsAccountBytes, Dist
<1>6. CASE ProduceSpin
  BY <1>6 DEF ProduceSpin, ProduceWake, TypeOK, SnapshotsSafe, LocalsFollow, RunningCalls,
              CallsAccountBytes, Dist
<1> QED BY <1>1, <1>2, <1>3, <1>4, <1>5, <1>6 DEF ProduceStep

\* Every step of consprod_consume preserves it.
LEMMA ConsumeInv ==
  ASSUME RingOk, IInv,
         ConsumeStep \/ \E len \in 0 .. MaxLen, wait \in {0, 1} : ConsumeCall(len, wait)
  PROVE IInv'
<1> USE DEF RingOk, IInv, Cell, PC, shared, producer, cp_ptr_next
<1>1. CASE \E len \in 0 .. MaxLen, wait \in {0, 1} : ConsumeCall(len, wait)
  BY <1>1 DEF ConsumeCall, TypeOK, SnapshotsSafe, LocalsFollow, RunningCalls, CallsAccountBytes, Dist
<1>2. CASE ConsumeEnter
  BY <1>2 DEF ConsumeEnter, TypeOK, SnapshotsSafe, LocalsFollow, RunningCalls, CallsAccountBytes, Dist
<1>3. CASE ConsumeRead
  BY <1>3 DEF ConsumeRead, DataLeft, TypeOK, SnapshotsSafe, LocalsFollow, RunningCalls,
              CallsAccountBytes, Dist
<1>4. CASE ConsumeAdvance
  BY <1>4 DEF ConsumeAdvance, TypeOK, SnapshotsSafe, LocalsFollow, RunningCalls,
              CallsAccountBytes, Dist
<1>5. CASE ConsumeExit
  BY <1>5 DEF ConsumeExit, DataLeft, ConsumeReturn, TypeOK, SnapshotsSafe, LocalsFollow,
              RunningCalls, CallsAccountBytes, Dist
<1>6. CASE ConsumeSpin
  BY <1>6 DEF ConsumeSpin, TypeOK, SnapshotsSafe, LocalsFollow, RunningCalls,
              CallsAccountBytes, Dist
<1> QED BY <1>1, <1>2, <1>3, <1>4, <1>5, <1>6 DEF ConsumeStep

\* The invariant is inductive.
LEMMA StepInv == ASSUME RingOk PROVE IInv /\ [Next]_vars => IInv'
<1> SUFFICES ASSUME RingOk, IInv, [Next]_vars PROVE IInv'
  OBVIOUS
<1>1. CASE UNCHANGED vars
  BY <1>1 DEF vars, shared, producer, consumer, IInv, TypeOK, SnapshotsSafe, LocalsFollow,
              RunningCalls, CallsAccountBytes
<1>2. CASE Next
  <2>1. CASE ProduceStep
    BY <2>1, ProduceInv
  <2>2. CASE ConsumeStep
    BY <2>2, ConsumeInv
  <2>3. CASE \E len \in 0 .. MaxLen, wait \in {0, 1} : ProduceCall(len, wait)
    BY <2>3, ProduceInv
  <2>4. CASE \E len \in 0 .. MaxLen, wait \in {0, 1} : ConsumeCall(len, wait)
    BY <2>4, ConsumeInv
  <2> QED BY <1>2, <2>1, <2>2, <2>3, <2>4 DEF Next
<1> QED BY <1>1, <1>2

\* Every reachable state satisfies the inductive invariant.
THEOREM Invariance == ASSUME RingOk PROVE Spec => []IInv
BY InitInv, StepInv, PTL DEF Spec

\* Pointers never leave the buffer, for every size of the ring.
THEOREM TypeCorrect == ASSUME RingOk PROVE Spec => []TypeOK
BY Invariance, PTL DEF IInv

\* A stale copy of the other side's pointer errs in the safe direction only.
THEOREM StaleButSafe == ASSUME RingOk PROVE Spec => []SnapshotsSafe
BY Invariance, PTL DEF IInv

\* Calls report and move the bytes they should.
THEOREM BytesAccounted == ASSUME RingOk PROVE Spec => []CallsAccountBytes
BY Invariance, PTL DEF IInv
-----------------------------------------------------------------------------
(* The ring implements BoundedFifo.                                        *)

\* The ring holds a sequence of at most N - 2 bytes, in cells other than prod.
ContentsOk ==
  /\ Count \in 0 .. N - 2
  /\ \A i \in 1 .. Count : Place(i) \in Cell /\ Place(i) # prod
  /\ Contents \in Seq(Byte)
  /\ Len(Contents) = Count
  /\ \A i \in 1 .. Count : Contents[i] = buffer[Place(i)]

\* It does so in every state of the invariant.
LEMMA ContentsType == ASSUME RingOk PROVE IInv => ContentsOk
<1> SUFFICES ASSUME RingOk, IInv PROVE ContentsOk
  OBVIOUS
<1>1. Count \in 0 .. N - 2
  BY DEF RingOk, IInv, TypeOK, SnapshotsSafe, Count, Dist, Cell
<1>2. \A i \in 1 .. Count : Place(i) \in Cell /\ Place(i) # prod
  BY DEF RingOk, IInv, TypeOK, SnapshotsSafe, Count, Dist, Cell, Place
<1>3. \A i \in 1 .. Count : buffer[Place(i)] \in Byte
  BY <1>2 DEF IInv, TypeOK
<1>4. Contents \in [1 .. Count -> Byte]
  BY <1>3 DEF Contents
<1>5. Contents \in Seq(Byte) /\ Len(Contents) = Count
  BY <1>1, <1>4, FunIsSeq
<1> QED BY <1>1, <1>2, <1>5 DEF Contents, ContentsOk

\* Advancing prod appends the byte written there.
LEMMA AdvanceIsPut ==
  ASSUME RingOk, IInv, IInv', ProduceAdvance
  PROVE Fifo!Put(buffer[prod])
<1> USE DEF ContentsOk
<1>0. ContentsOk /\ ContentsOk'
  <2>1. ContentsOk
    BY ContentsType
  <2>2. ContentsOk'
    BY ContentsType, PTL
  <2> QED BY <2>1, <2>2
<1>1. /\ Count' = Count + 1
      /\ Place(Count + 1) = prod
      /\ Count < N - 2
  BY DEF RingOk, IInv, TypeOK, SnapshotsSafe, LocalsFollow, ProduceAdvance, Count,
     Dist, Cell, Place, cp_ptr_next
<1>2. buffer[prod] \in Byte
  BY DEF IInv, TypeOK
<1>3. \A i \in Nat : Place(i)' = Place(i)
  BY DEF ProduceAdvance, Place
<1>4. /\ Contents' \in Seq(Byte) /\ Len(Contents') = Count + 1
      /\ \A i \in 1 .. Count + 1 : Contents'[i] = buffer[Place(i)]
  BY <1>1, <1>3, <1>0 DEF ProduceAdvance
<1> DEFINE new == Append(Contents, buffer[prod])
<1>5. /\ new \in Seq(Byte) /\ Len(new) = Count + 1
      /\ \A i \in 1 .. Count : new[i] = Contents[i]
      /\ new[Count + 1] = buffer[prod]
  BY <1>2, <1>0
<1>6. \A i \in 1 .. Count + 1 : Contents'[i] = new[i]
  BY <1>1, <1>4, <1>5, <1>0
<1>7. Contents' = new
  BY <1>4, <1>5, <1>6, SameSeq
<1> QED BY <1>1, <1>7, <1>0 DEF Fifo!Put, ProduceAdvance, consumer

\* Advancing cons removes the first byte, which the consumer has read.
LEMMA AdvanceIsGet ==
  ASSUME RingOk, IInv, IInv', ConsumeAdvance
  PROVE Fifo!Get
<1> USE DEF ContentsOk
<1>0. ContentsOk /\ ContentsOk'
  <2>1. ContentsOk
    BY ContentsType
  <2>2. ContentsOk'
    BY ContentsType, PTL
  <2> QED BY <2>1, <2>2
<1>1. /\ Count > 0 /\ Count' = Count - 1
      /\ Place(1) = c_c
      /\ c_byte = buffer[c_c]
  BY DEF RingOk, IInv, TypeOK, SnapshotsSafe, LocalsFollow, ConsumeAdvance, Count,
     Dist, Cell, Place, cp_ptr_next
<1>2. \A i \in 1 .. Count - 1 : Place(i)' = Place(i + 1)
  <2> SUFFICES ASSUME NEW i \in 1 .. Count - 1 PROVE Place(i)' = Place(i + 1)
    OBVIOUS
  <2>1. i \in 1 .. N - 3
    BY <1>0 DEF RingOk
  <2>2. cons \in Cell /\ cons' = cp_ptr_next(cons)
    BY DEF IInv, TypeOK, LocalsFollow, ConsumeAdvance
  <2> QED BY <2>1, <2>2 DEF RingOk, Place, cp_ptr_next, Cell
<1>3. Contents # << >> /\ Contents[1] = c_byte
  BY <1>1, <1>0
<1>4. /\ Contents' \in Seq(Byte) /\ Len(Contents') = Count - 1
      /\ \A i \in 1 .. Count - 1 : Contents'[i] = buffer[Place(i + 1)]
  BY <1>1, <1>2, <1>0 DEF ConsumeAdvance
<1> DEFINE rest == Tail(Contents)
<1>5. /\ rest \in Seq(Byte) /\ Len(rest) = Count - 1
      /\ \A i \in 1 .. Count - 1 : rest[i] = Contents[i + 1]
  BY <1>3, <1>0
<1>6. \A i \in 1 .. Count - 1 : Contents'[i] = rest[i]
  BY <1>4, <1>5, <1>0
<1>7. Contents' = rest
  BY <1>4, <1>5, <1>6, SameSeq
<1>8. Head(Contents) = c_byte
  BY <1>3, <1>0
<1> QED BY <1>3, <1>7, <1>8 DEF Fifo!Get, ConsumeAdvance

\* No other step changes what the ring holds.
LEMMA OthersStutter ==
  ASSUME RingOk, IInv, UNCHANGED <<prod, cons, c_got>>,
         buffer' = buffer \/ \E b \in Byte : buffer' = [buffer EXCEPT ![prod] = b]
  PROVE UNCHANGED <<Contents, c_got>>
<1>1. Count' = Count /\ \A i \in Nat : Place(i)' = Place(i)
  BY DEF Count, Dist, Place
<1>2. \A i \in 1 .. Count : buffer'[Place(i)] = buffer[Place(i)]
  BY ContentsType DEF ContentsOk, IInv, TypeOK
<1>3. Contents' = Contents
  BY <1>1, <1>2 DEF Contents
<1> QED BY <1>3

\* consprod.c implements a FIFO of N - 2 bytes for one producer and one consumer,
\* whatever N is and however their accesses interleave.
THEOREM ImplementsFifo == ASSUME RingOk PROVE Spec => FifoSpec
<1>1. Init => Fifo!FifoInit
  <2> SUFFICES ASSUME Init PROVE Fifo!FifoInit
    OBVIOUS
  <2>1. IInv
    BY InitInv
  <2>2. Count = 0
    BY DEF RingOk, Init, ConsprodInit, Count, Dist
  <2>3. Contents = << >>
    BY <2>1, <2>2, ContentsType DEF ContentsOk
  <2> QED BY <2>3 DEF Fifo!FifoInit, Init
<1>2. IInv /\ IInv' /\ [Next]_vars => [Fifo!FifoNext]_<<Contents, c_got>>
  <2> SUFFICES ASSUME RingOk, IInv, IInv', [Next]_vars PROVE [Fifo!FifoNext]_<<Contents, c_got>>
    OBVIOUS
  <2>1. CASE ProduceAdvance
    <3>1. buffer[prod] \in Byte
      BY DEF IInv, TypeOK
    <3> QED BY <2>1, <3>1, AdvanceIsPut DEF Fifo!FifoNext
  <2>2. CASE ConsumeAdvance
    BY <2>2, AdvanceIsGet DEF Fifo!FifoNext
  <2>3. CASE ~ProduceAdvance /\ ~ConsumeAdvance
    <3>1. UNCHANGED <<prod, cons, c_got>>
      BY <2>3, Zenon DEF Next, vars, shared, producer, consumer, ProduceStep, ConsumeStep, ProduceCall,
         ProduceEnter, ProduceWrite, ProduceExit, ProduceSpin, ConsumeCall, ConsumeEnter,
         ConsumeRead, ConsumeExit, ConsumeSpin
    <3>2. buffer' = buffer \/ \E b \in Byte : buffer' = [buffer EXCEPT ![prod] = b]
      BY <2>3, Zenon DEF Next, vars, shared, producer, consumer, ProduceStep, ConsumeStep, ProduceCall,
         ProduceEnter, ProduceWrite, ProduceExit, ProduceSpin, ConsumeCall, ConsumeEnter,
         ConsumeRead, ConsumeExit, ConsumeSpin
    <3> QED BY <3>1, <3>2, OthersStutter
  <2> QED BY <2>1, <2>2, <2>3
<1> QED BY <1>1, <1>2, Invariance, PTL DEF Spec, FifoSpec, Fifo!FifoSpec
=============================================================================
