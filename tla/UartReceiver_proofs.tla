-------------------------- MODULE UartReceiver_proofs --------------------------
(***************************************************************************)
(* Proof that the driver delivers what the UART receives, for every size   *)
(* of the buffers, the ring and the cache lines and any number of bytes,   *)
(* from the first uart0_start_engine until the engine is stopped.          *)
(***************************************************************************)
EXTENDS UartDriver, TLAPS

\* One interrupt at a time: the controller is frozen from the moment it triggers
\* an interrupt until the handler returns.
Vectors == {"TIMER", "UART0_TX", "UART0_RX"}
IntrType == intr_trigger \in Bit /\ intr_frozen \in Bit /\ intr_vec \in Vectors /\ id \in Vectors
OneInterrupt == /\ intr_trigger = 1 => intr_frozen = 1 /\ isr = "none"
                /\ isr # "none" => intr_frozen = 1
IntrInv == IntrType /\ OneInterrupt

\* Nothing but the controller, the entry to a handler and its return touches the
\* interrupt registers; a handler runs with the controller frozen.
LEMMA IntrStep == ASSUME IntrInv, [Next]_vars PROVE IntrInv'
<1> USE DEF IntrInv, IntrType, OneInterrupt
<1>1. CASE IntrClk
  BY <1>1 DEF IntrClk, TimerFire, RaiseTimer, RaiseTx, RaiseRx, Raise, Free, Bit, Vectors, isr_vars
<1>2. CASE Enter
  BY <1>2 DEF Enter, Bit
<1>3. CASE Return
  BY <1>3 DEF Return, Bit
<1>4. CASE Handler /\ ~Enter /\ ~Return
  <2>1. UNCHANGED <<intr_trigger, intr_frozen, intr_vec, id>> /\ isr # "none"
    BY <1>4, Zenon DEF Handler, RxPos, RxCopy, RxNothing, RxRearm, TxTake, TxNothing, TxSet,
                TimerRestart, SetTimer, intr_vars
  <2> QED
    BY <2>1
<1>5. CASE Task
  <2>1. UNCHANGED <<intr_trigger, intr_frozen, intr_vec, isr_vars>>
    BY <1>5, Zenon DEF Task, Starting, StartTxRing, StartRxRing, StartFlags, StartLastpos, StartRx,
                StartTimer, SetTimer, StopFlags, StopRx, Write, Read, TaskKeep, intr_vars
  <2> QED
    BY <2>1 DEF isr_vars
<1>6. CASE Hardware \/ UNCHANGED vars
  BY <1>6 DEF Hardware, vars, intr_vars, isr_vars
<1> QED
  BY <1>1, <1>2, <1>3, <1>4, <1>5, <1>6, Zenon DEF Next, Software, Handler

\* One interrupt is in progress at any time, whatever the UART and the timer do.
LEMMA IntrInvariance == Spec => []IntrInv
<1>1. Init => IntrInv
  BY DEF Init, IntrInv, IntrType, OneInterrupt, Bit, Vectors
<1> QED
  BY <1>1, IntrStep, PTL DEF Spec

-----------------------------------------------------------------------------
RxStates == {"RXD_IDLE", "RXD_RUNNING", "RXD_CHECK_STOPBIT", "RXD_WAIT_STOPBIT", "RXD_MEM_WAIT"}

RxType == /\ rxd_state \in RxStates
          /\ rx_reset_curpos \in Bit /\ rx_reset_curpos_ack \in Bit
          /\ rx_intr_toggle \in Bit /\ rx_toggle_ack \in Bit
          /\ write \in Bit /\ write_ack \in Bit
          /\ rx_buf_len \in {0, MaxLen} /\ rx_buf_curpos \in Page /\ rx_lastpos \in Page
          /\ pos \in Page /\ write_addr \in Page
          /\ rx_mem \in [Page -> Nat] /\ write_data \in Nat /\ arrived \in Nat
          /\ rx_cache \in [Page -> Nat \cup {NotCached}]
          /\ rx_ring \in Seq(Nat) /\ Len(rx_ring) <= RingCap
          /\ rx_seen \in Seq(Nat) /\ dropped \subseteq Nat

\* uart0_start_engine is called once: the receiver has no buffer until StartRx,
\* and one whenever the engine is on afterwards.
Before == {"start_rx_ring", "start_flags", "start_lastpos", "start_rx"}
StartedOnce == /\ starts \in Nat /\ task # "stop_rx"
               /\ starts = 0 => task = "run" /\ engine_on = 0 /\ rx_buf_len = 0
               /\ task \in Before => rx_buf_len = 0
               /\ task \in {"start_lastpos", "start_rx"} => engine_on = 1
               /\ rx_buf_len # 0 => engine_on = 1
               /\ rx_buf_len = 0 => /\ ~ResetDue /\ rx_buf_curpos = 0 /\ rx_lastpos = 0
                                    /\ rxd_state # "RXD_MEM_WAIT"

\* The interrupt of a full buffer is on its way, or its handler has not asked for
\* a new buffer yet.
RxCompletionPending ==
  \/ rx_toggle_ack # rx_intr_toggle
  \/ intr_trigger = 1 /\ intr_vec = "UART0_RX"
  \/ id = "UART0_RX" /\ isr \in {"rx_pos", "rx_copy", "rx_rearm"}

\* Until then nothing more is received.
RxHandshake ==
  /\ RxCompletionPending => /\ rx_buf_len = MaxLen /\ rx_buf_curpos = MaxLen
                            /\ ~ResetDue /\ rxd_state # "RXD_MEM_WAIT"
  /\ rx_toggle_ack # rx_intr_toggle =>
       /\ ~(intr_trigger = 1 /\ intr_vec = "UART0_RX")
       /\ ~(id = "UART0_RX" /\ isr \in {"rx_pos", "rx_copy", "rx_rearm"})
  /\ isr \in {"rx_pos", "rx_copy", "rx_rearm"} => id \in {"TIMER", "UART0_RX"}
  /\ isr = "rx_rearm" => id = "UART0_RX"

\* The DMA writes the byte before rx_buf_curpos.
Storing ==
  /\ write # write_ack => rxd_state = "RXD_MEM_WAIT"
  /\ mem_state = "WRITE" => write # write_ack
  /\ rxd_state = "RXD_MEM_WAIT" =>
       /\ ~ResetDue /\ rx_buf_curpos > 0 /\ write_addr = rx_buf_curpos - 1
       /\ write = write_ack => rx_mem[write_addr] = write_data

\* How far the buffer asked for last is filled.
Filled == IF ResetDue THEN 0 ELSE rx_buf_curpos
Byte(i) == IF write # write_ack /\ i = write_addr THEN write_data ELSE rx_mem[i]
Received == rx_lastpos .. Filled - 1           \* not yet given to the ring
InFrame == rxd_state \in {"RXD_RUNNING", "RXD_CHECK_STOPBIT"}
Ended == IF InFrame THEN arrived - 1 ELSE arrived

Positions == /\ rx_lastpos <= Filled
             /\ isr = "rx_copy" => pos <= Filled
             /\ isr = "rx_copy" /\ id = "UART0_RX" => pos = rx_buf_curpos
             /\ isr = "rx_rearm" => rx_lastpos = rx_buf_curpos

\* What was received is in order: in rx_seen, then in the buffer.
RxOrder ==
  /\ InFrame => arrived > 0
  /\ \A b \in dropped : 1 <= b /\ b <= Ended
  /\ \A k \in 1 .. Len(rx_seen) : 1 <= rx_seen[k] /\ rx_seen[k] <= Ended /\ rx_seen[k] \notin dropped
  /\ \A k, l \in 1 .. Len(rx_seen) : k < l => rx_seen[k] < rx_seen[l]
  /\ \A i \in Received : 1 <= Byte(i) /\ Byte(i) <= Ended /\ Byte(i) \notin dropped
  /\ \A i, j \in Received : i < j => Byte(i) < Byte(j)
  /\ \A k \in 1 .. Len(rx_seen), i \in Received : rx_seen[k] < Byte(i)

RxAccounted == \A b \in 1 .. Ended :
  \/ b \in dropped
  \/ \E k \in 1 .. Len(rx_seen) : rx_seen[k] = b
  \/ \E i \in Received : Byte(i) = b

RxGood == /\ RxType /\ StartedOnce /\ RxHandshake /\ Storing /\ Positions
          /\ RxOrder /\ RxAccounted
RxInv == window = {} => RxGood

-----------------------------------------------------------------------------
rx_reg_vars == <<rxd_state, rx_reset_curpos, rx_reset_curpos_ack, rx_intr_toggle, write,
                 write_addr, write_data, rx_buf_len, rx_buf_curpos, arrived>>
rx_data_vars == <<rx_mem, write_ack, mem_state, dropped, rx_seen>>
rx_soft_vars == <<rx_toggle_ack, intr_trigger, intr_vec, isr, id, pos, rx_lastpos, rx_cache,
                  rx_ring, engine_on, starts, task>>

\* The state after reset.
LEMMA RxInit == Init => RxInv
<1> SUFFICES ASSUME Init PROVE RxGood
  BY DEF RxInv
<1> USE DEF Init, UartInit
<1>1. RxType
  BY UartAssumption, DriverAssumption DEF RxType, RxStates, Bit, Page
<1>2. StartedOnce /\ RxHandshake /\ Storing
  BY DEF StartedOnce, Before, ResetDue, RxHandshake, RxCompletionPending, Storing
<1>3. Positions
  BY DEF Positions, Filled, ResetDue
<1>4. Received = {} /\ Ended = 0 /\ Len(rx_seen) = 0 /\ ~InFrame
  BY DEF Received, Filled, ResetDue, Ended, InFrame
<1>5. RxOrder /\ RxAccounted
  BY <1>4 DEF RxOrder, RxAccounted
<1> QED
  BY <1>1, <1>2, <1>3, <1>5 DEF RxGood

\* A step that moves no byte keeps the bytes in order.
LEMMA OrderFrame == ASSUME RxGood, Received' = Received, Ended' = Ended, InFrame' => arrived' > 0,
                           \A i \in Received : Byte(i)' = Byte(i), UNCHANGED <<rx_seen, dropped>>
                    PROVE  RxOrder' /\ RxAccounted'
BY DEF RxGood, RxOrder, RxAccounted

\* The positions and the values of the bytes not given to the ring yet.
LEMMA RxTypes == ASSUME RxGood
                 PROVE  /\ MaxLen \in Nat /\ MaxLen > 0 /\ Filled \in Nat /\ Filled <= MaxLen
                        /\ Received \subseteq Page /\ Received \subseteq Nat
                        /\ \A i \in Page : Byte(i) \in Nat
                        /\ arrived \in Nat /\ Ended \in Nat
                        /\ \A k \in 1 .. Len(rx_seen) : rx_seen[k] \in Nat
                        /\ dropped \subseteq Nat
<1>1. MaxLen \in Nat /\ MaxLen > 0
  BY UartAssumption
<1>2. Filled \in Nat /\ Filled <= MaxLen /\ rx_lastpos \in Nat
  BY <1>1 DEF RxGood, RxType, Page, Filled
<1>3. Received \subseteq Page /\ Received \subseteq Nat
  BY <1>1, <1>2 DEF Received, Page
<1>4. \A i \in Page : Byte(i) \in Nat
  BY DEF RxGood, RxType, Byte
<1>5. arrived \in Nat /\ Ended \in Nat
  BY DEF RxGood, RxType, RxOrder, Ended
<1>6. \A k \in 1 .. Len(rx_seen) : rx_seen[k] \in Nat
  BY DEF RxGood, RxType
<1>7. dropped \subseteq Nat
  BY DEF RxGood, RxType
<1> QED
  BY <1>1, <1>2, <1>3, <1>4, <1>5, <1>6, <1>7

\* A step that concerns neither the receiver nor the driver's receiving side.
LEMMA RxFrame == ASSUME RxGood, UNCHANGED rx_reg_vars, UNCHANGED rx_data_vars,
                        UNCHANGED rx_soft_vars
                 PROVE  RxGood'
<1> USE DEF rx_reg_vars, rx_data_vars, rx_soft_vars
<1>1. RxType'
  BY DEF RxGood, RxType
<1>2. StartedOnce'
  BY DEF RxGood, StartedOnce, ResetDue
<1>3. RxHandshake'
  BY DEF RxGood, RxHandshake, RxCompletionPending, ResetDue
<1>4. Storing'
  BY DEF RxGood, Storing, ResetDue
<1>5. Positions'
  BY DEF RxGood, Positions, Filled, ResetDue
<1>6. Received' = Received /\ Ended' = Ended /\ InFrame' = InFrame
  BY DEF Received, Filled, ResetDue, Ended, InFrame
<1>7. \A i \in Received : Byte(i)' = Byte(i)
  BY DEF Byte
<1>8. RxOrder' /\ RxAccounted'
  BY <1>6, <1>7, OrderFrame DEF RxGood, RxOrder
<1> QED
  BY <1>1, <1>2, <1>3, <1>4, <1>5, <1>8 DEF RxGood

-----------------------------------------------------------------------------
(* The receiver.                                                           *)

\* What a step of the receiver leaves alone.
RxOthers == /\ UNCHANGED rx_soft_vars
            /\ UNCHANGED <<rx_reset_curpos, rx_buf_len, rx_mem, write_ack, mem_state, rx_seen>>

\* A receiver that acknowledges a new buffer.
LEMMA AckFacts == ASSUME AckReset, UNCHANGED rx_reset_curpos
                  PROVE  Filled' = Filled /\ ~ResetDue' /\ rx_buf_curpos' = Filled
BY DEF AckReset, Filled, ResetDue

\* It acknowledges a new buffer, and may find a start bit.
LEMMA RxIdleInv == ASSUME RxGood, RxOthers, RxReset \/ RxStartBit PROVE RxGood'
<1>0. /\ AckReset /\ rxd_state = "RXD_IDLE" /\ rxd_state' \in {"RXD_IDLE", "RXD_RUNNING"}
      /\ UNCHANGED <<rx_intr_toggle, write, write_addr, write_data, dropped>>
      /\ IF rxd_state' = "RXD_IDLE" THEN arrived' = arrived ELSE arrived' = arrived + 1
  BY DEF RxReset, RxStartBit
<1>1. Filled' = Filled /\ ~ResetDue' /\ rx_buf_curpos' = Filled
  BY AckFacts, <1>0 DEF RxOthers
<1>2. UNCHANGED rx_soft_vars /\ UNCHANGED <<rx_reset_curpos, rx_buf_len, rx_mem, write_ack,
                                            mem_state, rx_seen>>
  BY DEF RxOthers
<1>3. RxType'
  <2>1. rx_buf_curpos' \in Page /\ arrived' \in Nat
    BY <1>0, <1>1, RxTypes DEF Page
  <2> QED
    BY <1>0, <1>2, <2>1, Zenon DEF RxGood, RxType, RxStates, AckReset, rx_soft_vars
<1>4. StartedOnce'
  BY <1>0, <1>1, <1>2 DEF RxGood, StartedOnce, Filled, rx_soft_vars
<1>5. RxHandshake'
  BY <1>0, <1>1, <1>2 DEF RxGood, RxHandshake, RxCompletionPending, Filled, rx_soft_vars
<1>6. Storing'
  BY <1>0, <1>2 DEF RxGood, Storing
<1>7. Positions'
  BY <1>0, <1>1, <1>2 DEF RxGood, Positions, RxHandshake, RxCompletionPending, Filled, rx_soft_vars
<1>8. Received' = Received /\ Ended' = Ended /\ (InFrame' => arrived' > 0)
  BY <1>0, <1>1, <1>2, RxTypes DEF Received, Ended, InFrame, rx_soft_vars
<1>9. \A i \in Received : Byte(i)' = Byte(i)
  BY <1>0, <1>2 DEF Byte
<1>10. RxOrder' /\ RxAccounted'
  BY <1>0, <1>2, <1>8, <1>9, OrderFrame
<1> QED
  BY <1>3, <1>4, <1>5, <1>6, <1>7, <1>10 DEF RxGood

\* It takes the bits, or waits for the line after a bad stop bit.
LEMMA RxBitsInv == ASSUME RxGood, RxOthers, RxBits \/ RxResync PROVE RxGood'
<1>0. /\ \/ rxd_state = "RXD_RUNNING" /\ rxd_state' = "RXD_CHECK_STOPBIT"
         \/ rxd_state = "RXD_WAIT_STOPBIT" /\ rxd_state' = "RXD_IDLE"
      /\ UNCHANGED <<rx_reset_curpos_ack, rx_buf_curpos, rx_intr_toggle, write, write_addr,
                     write_data, arrived, dropped>>
  BY DEF RxBits, RxResync
<1>1. UNCHANGED rx_soft_vars /\ UNCHANGED <<rx_reset_curpos, rx_buf_len, rx_mem, write_ack,
                                            mem_state, rx_seen>>
  BY DEF RxOthers
<1>2. RxType'
  BY <1>0, <1>1 DEF RxGood, RxType, RxStates, rx_soft_vars
<1>3. StartedOnce'
  BY <1>0, <1>1 DEF RxGood, StartedOnce, ResetDue, rx_soft_vars
<1>4. RxHandshake'
  BY <1>0, <1>1 DEF RxGood, RxHandshake, RxCompletionPending, ResetDue, rx_soft_vars
<1>5. Storing'
  BY <1>0, <1>1 DEF RxGood, Storing
<1>6. Positions'
  BY <1>0, <1>1 DEF RxGood, Positions, Filled, ResetDue, rx_soft_vars
<1>7. Received' = Received /\ Ended' = Ended /\ InFrame' = InFrame
  BY <1>0, <1>1 DEF Received, Filled, ResetDue, Ended, InFrame, rx_soft_vars
<1>8. \A i \in Received : Byte(i)' = Byte(i)
  BY <1>0, <1>1 DEF Byte
<1>9. RxOrder' /\ RxAccounted'
  BY <1>0, <1>1, <1>7, <1>8, OrderFrame DEF RxGood, RxOrder
<1> QED
  BY <1>2, <1>3, <1>4, <1>5, <1>6, <1>9 DEF RxGood

\* The byte of the frame that ends is dropped.
LEMMA DroppedOrder ==
  ASSUME RxGood, rxd_state = "RXD_CHECK_STOPBIT",
         rxd_state' \in {"RXD_IDLE", "RXD_WAIT_STOPBIT"}, dropped' = dropped \cup {arrived},
         Received' = Received, \A i \in Received : Byte(i)' = Byte(i),
         UNCHANGED <<rx_seen, arrived>>
  PROVE  RxOrder' /\ RxAccounted'
<1>1. /\ arrived \in Nat /\ arrived > 0 /\ Ended = arrived - 1 /\ Ended' = arrived /\ ~InFrame'
      /\ arrived \notin dropped
  BY RxTypes DEF RxGood, RxOrder, Ended, InFrame
<1>2. /\ \A i \in Received : Byte(i) \in Nat
      /\ \A k \in 1 .. Len(rx_seen) : rx_seen[k] \in Nat
      /\ \A b \in dropped : b \in Nat
  BY RxTypes
<1>3. /\ \A b \in dropped' : 1 <= b /\ b <= arrived
      /\ \A k \in 1 .. Len(rx_seen) :
           1 <= rx_seen[k] /\ rx_seen[k] <= arrived /\ rx_seen[k] \notin dropped'
      /\ \A i \in Received : 1 <= Byte(i) /\ Byte(i) <= arrived /\ Byte(i) \notin dropped'
  BY <1>1, <1>2 DEF RxGood, RxOrder
<1>4. RxOrder'
  BY <1>1, <1>3 DEF RxGood, RxOrder
<1>5. RxAccounted'
  BY <1>1 DEF RxGood, RxAccounted
<1> QED
  BY <1>4, <1>5

\* A bad stop bit: the byte is dropped.
LEMMA RxBadStopBitInv == ASSUME RxGood, RxOthers, RxBadStopBit PROVE RxGood'
<1>0. /\ rxd_state = "RXD_CHECK_STOPBIT" /\ rxd_state' = "RXD_WAIT_STOPBIT"
      /\ dropped' = dropped \cup {arrived}
      /\ UNCHANGED <<rx_reset_curpos_ack, rx_buf_curpos, rx_intr_toggle, write, write_addr,
                     write_data, arrived>>
  BY DEF RxBadStopBit
<1>1. UNCHANGED rx_soft_vars /\ UNCHANGED <<rx_reset_curpos, rx_buf_len, rx_mem, write_ack,
                                            mem_state, rx_seen>>
  BY DEF RxOthers
<1>2. RxType'
  BY <1>0, <1>1 DEF RxGood, RxType, RxStates, rx_soft_vars
<1>3. StartedOnce'
  BY <1>0, <1>1 DEF RxGood, StartedOnce, ResetDue, rx_soft_vars
<1>4. RxHandshake'
  BY <1>0, <1>1 DEF RxGood, RxHandshake, RxCompletionPending, ResetDue, rx_soft_vars
<1>5. Storing'
  BY <1>0, <1>1 DEF RxGood, Storing
<1>6. Positions'
  BY <1>0, <1>1 DEF RxGood, Positions, Filled, ResetDue, rx_soft_vars
<1>7. Received' = Received /\ (\A i \in Received : Byte(i)' = Byte(i))
  BY <1>0, <1>1 DEF Received, Filled, ResetDue, Byte, rx_soft_vars
<1>8. RxOrder' /\ RxAccounted'
  BY <1>0, <1>1, <1>7, DroppedOrder
<1> QED
  BY <1>2, <1>3, <1>4, <1>5, <1>6, <1>8 DEF RxGood

\* The byte of the frame that ends is stored behind the others.
LEMMA StoredOrder ==
  ASSUME RxGood, NEW at \in Nat, rx_lastpos \in Nat, rx_lastpos <= at, arrived \in Nat, arrived > 0,
         Received = rx_lastpos .. at - 1, Received' = rx_lastpos .. at,
         \A i \in Received : Byte(i)' = Byte(i) /\ Byte(i) \in Nat, Byte(at)' = arrived,
         Ended = arrived - 1, Ended' = arrived, ~InFrame', UNCHANGED <<rx_seen, dropped>>
  PROVE  RxOrder' /\ RxAccounted'
<1>1. /\ \A k \in 1 .. Len(rx_seen) : rx_seen[k] \in Nat
      /\ \A b \in dropped : b \in Nat
  BY RxTypes
<1>2. \A i \in Received' : i = at \/ (i \in Received /\ i < at)
  OBVIOUS
<1>3. at \in Received' /\ (\A i \in Received : i \in Received')
  OBVIOUS
<1>4. /\ \A b \in dropped : 1 <= b /\ b < arrived
      /\ \A k \in 1 .. Len(rx_seen) :
           1 <= rx_seen[k] /\ rx_seen[k] < arrived /\ rx_seen[k] \notin dropped
      /\ \A i \in Received : 1 <= Byte(i) /\ Byte(i) < arrived /\ Byte(i) \notin dropped
  BY <1>1 DEF RxGood, RxOrder
<1>5. \A i \in Received' : 1 <= Byte(i)' /\ Byte(i)' <= arrived /\ Byte(i)' \notin dropped
  BY <1>2, <1>4
<1>6. \A i, j \in Received' : i < j => Byte(i)' < Byte(j)'
  <2>1. TAKE i, j \in Received'
  <2>2. HAVE i < j
  <2>3. i \in Received
    BY <1>2, <2>2
  <2>4. CASE j = at
    BY <1>4, <2>3, <2>4
  <2>5. CASE j \in Received
    BY <2>2, <2>3, <2>5 DEF RxGood, RxOrder
  <2> QED
    BY <1>2, <2>4, <2>5
<1>7. \A k \in 1 .. Len(rx_seen), i \in Received' : rx_seen[k] < Byte(i)'
  <2>1. TAKE k \in 1 .. Len(rx_seen), i \in Received'
  <2>2. CASE i = at
    BY <1>4, <2>2
  <2>3. CASE i \in Received
    BY <2>3 DEF RxGood, RxOrder
  <2> QED
    BY <1>2, <2>2, <2>3
<1>8. /\ \A b \in dropped : 1 <= b /\ b <= arrived
      /\ \A k \in 1 .. Len(rx_seen) :
           1 <= rx_seen[k] /\ rx_seen[k] <= arrived /\ rx_seen[k] \notin dropped
  BY <1>1, <1>4
<1>9. RxOrder'
  BY <1>5, <1>6, <1>7, <1>8 DEF RxGood, RxOrder
<1>10. RxAccounted'
  <2>1. SUFFICES ASSUME NEW b \in 1 .. arrived
                 PROVE  \/ b \in dropped
                        \/ \E k \in 1 .. Len(rx_seen) : rx_seen[k] = b
                        \/ \E i \in Received' : Byte(i)' = b
    BY Zenon DEF RxAccounted
  <2>2. CASE b = arrived
    BY <1>3, <2>2
  <2>3. CASE b \in 1 .. Ended
    BY <1>3, <2>3 DEF RxGood, RxAccounted
  <2> QED
    BY <2>2, <2>3
<1> QED
  BY <1>9, <1>10


\* A good stop bit: the byte is stored behind the others, or dropped because the
\* buffer is full.
LEMMA RxStopBitInv == ASSUME RxGood, RxOthers, RxStopBit PROVE RxGood'
<1>a. PICK at \in Nat : at = Filled
  BY RxTypes
<1>0. /\ rxd_state = "RXD_CHECK_STOPBIT"
      /\ rx_reset_curpos_ack' = rx_reset_curpos /\ write_data' = arrived /\ write_addr' = at
      /\ UNCHANGED <<rx_intr_toggle, arrived>>
  BY <1>a DEF RxStopBit, Filled
<1>1. UNCHANGED rx_soft_vars /\ UNCHANGED <<rx_reset_curpos, rx_buf_len, rx_mem, write_ack,
                                            mem_state, rx_seen>>
  BY DEF RxOthers
<1>2. ~ResetDue' /\ Filled' = rx_buf_curpos' /\ write = write_ack
  BY <1>0, <1>1 DEF Filled, ResetDue, RxGood, Storing
<1>3. /\ MaxLen \in Nat /\ at \in Nat /\ at <= MaxLen /\ arrived \in Nat /\ arrived > 0
      /\ rx_lastpos \in Nat /\ rx_lastpos <= at
  BY <1>a, RxTypes, <1>0 DEF RxGood, RxType, RxOrder, InFrame, Positions, Page
<1>4. CASE at = rx_buf_len
  <2>1. /\ rx_buf_curpos' = at /\ rxd_state' = "RXD_IDLE" /\ dropped' = dropped \cup {arrived}
        /\ write' = write
    BY <1>a, <1>4 DEF RxStopBit, Filled
  <2>2. RxType'
    BY <1>0, <1>1, <1>3, <2>1 DEF RxGood, RxType, RxStates, Page, rx_soft_vars
  <2>3. StartedOnce'
    BY <1>a, <1>0, <1>1, <1>2, <2>1 DEF RxGood, StartedOnce, Filled, rx_soft_vars
  <2>4. RxHandshake'
    BY <1>a, <1>0, <1>1, <1>2, <2>1, Zenon DEF RxGood, RxHandshake, RxCompletionPending, Filled, rx_soft_vars
  <2>5. Storing'
    BY <1>1, <1>2, <2>1 DEF RxGood, Storing
  <2>6. Positions'
    BY <1>a, <1>1, <1>2, <2>1 DEF RxGood, Positions, RxHandshake, RxCompletionPending, Filled,
                            rx_soft_vars
  <2>7. Received' = Received /\ (\A i \in Received : Byte(i)' = Byte(i))
    BY <1>a, <1>1, <1>2, <2>1 DEF Received, Byte, rx_soft_vars
  <2>8. RxOrder' /\ RxAccounted'
    BY <1>0, <1>1, <2>1, <2>7, DroppedOrder
  <2> QED
    BY <2>2, <2>3, <2>4, <2>5, <2>6, <2>8 DEF RxGood
<1>5. CASE at # rx_buf_len
  <2>1. rx_buf_len = MaxLen /\ at < MaxLen
    BY <1>a, <1>3, <1>5 DEF RxGood, RxType, StartedOnce, Filled
  <2>2. /\ rx_buf_curpos' = at + 1 /\ rxd_state' = "RXD_MEM_WAIT" /\ dropped' = dropped
        /\ write' = Flip(write)
    <3>1. at = rx_buf_curpos => NextPos(rx_buf_curpos) = at + 1
      BY <1>3, <2>1 DEF NextPos
    <3> QED
      BY <1>a, <1>3, <1>5, <3>1 DEF RxStopBit, Filled
  <2>3. write' # write_ack /\ write' \in Bit
    BY <1>2, <2>2 DEF RxGood, RxType, Flip, Bit
  <2>4. RxType'
    <3>1. rx_buf_curpos' \in Page /\ write_addr' \in Page
      BY <1>0, <1>3, <2>1, <2>2 DEF Page
    <3> QED
      BY <1>0, <1>1, <1>3, <2>2, <2>3, <3>1, Zenon DEF RxGood, RxType, RxStates, rx_soft_vars
  <2>5. StartedOnce'
    <3>1. rx_buf_len # 0 /\ rx_buf_len' # 0
      BY <1>1, <1>3, <2>1
    <3>2. StartedOnce
      BY Zenon DEF RxGood
    <3> QED
      BY <1>1, <2>2, <3>1, <3>2, Zenon DEF StartedOnce, rx_soft_vars
  <2>6. ~RxCompletionPending
    BY <1>a, <1>3, <2>1 DEF RxGood, RxHandshake, Filled
  <2>7. RxHandshake'
    BY <1>0, <1>1, <2>6 DEF RxGood, RxHandshake, RxCompletionPending, rx_soft_vars
  <2>8. Storing'
    BY <1>0, <1>1, <1>2, <1>3, <2>2, <2>3 DEF RxGood, Storing
  <2>9. Positions'
    BY <1>a, <1>0, <1>1, <1>2, <1>3, <2>2, <2>6
       DEF RxGood, RxType, Page, Positions, RxHandshake, RxCompletionPending, rx_soft_vars
  <2>10. /\ Received = rx_lastpos .. at - 1 /\ Received' = rx_lastpos .. at
         /\ \A i \in Received : Byte(i)' = Byte(i) /\ Byte(i) \in Nat
         /\ Byte(at)' = arrived
    <3>1. Received = rx_lastpos .. at - 1 /\ Received' = rx_lastpos .. at
      BY <1>a, <1>1, <1>2, <1>3, <2>2 DEF Received, rx_soft_vars
    <3>2. \A i \in Received : i # at
      BY <1>3, <3>1
    <3>3. \A i \in Received : Byte(i) \in Nat
      BY RxTypes
    <3>4. \A i : Byte(i)' = IF i = at THEN arrived ELSE rx_mem[i]
      BY <1>0, <1>1, <2>3 DEF Byte
    <3> QED
      BY <1>2, <3>1, <3>2, <3>3, <3>4 DEF Byte
  <2>11. Ended = arrived - 1 /\ Ended' = arrived /\ ~InFrame'
    BY <1>0, <2>2 DEF Ended, InFrame
  <2>12. RxOrder' /\ RxAccounted'
    BY <1>0, <1>1, <1>3, <2>2, <2>10, <2>11, StoredOrder
  <2> QED
    BY <2>4, <2>5, <2>7, <2>8, <2>9, <2>12 DEF RxGood
<1> QED
  BY <1>4, <1>5

\* The byte is in memory; the last one of the buffer raises the interrupt.
LEMMA RxMemDoneInv == ASSUME RxGood, RxOthers, RxMemDone PROVE RxGood'
<1>0. /\ rxd_state = "RXD_MEM_WAIT" /\ rxd_state' = "RXD_IDLE" /\ write = write_ack
      /\ rx_intr_toggle' = IF BufferFull THEN Flip(rx_intr_toggle) ELSE rx_intr_toggle
      /\ UNCHANGED <<rx_reset_curpos_ack, rx_buf_curpos, write, write_addr, write_data, arrived,
                     dropped>>
  BY DEF RxMemDone
<1>1. UNCHANGED rx_soft_vars /\ UNCHANGED <<rx_reset_curpos, rx_buf_len, rx_mem, write_ack,
                                            mem_state, rx_seen>>
  BY DEF RxOthers
<1>2. ~RxCompletionPending /\ ~ResetDue /\ rx_buf_len = MaxLen
  BY <1>0 DEF RxGood, RxType, StartedOnce, RxHandshake, Storing
<1>3. RxType'
  BY <1>0, <1>1 DEF RxGood, RxType, RxStates, Flip, Bit, rx_soft_vars
<1>4. StartedOnce'
  BY <1>0, <1>1 DEF RxGood, StartedOnce, ResetDue, rx_soft_vars
<1>5. RxHandshake'
  BY <1>0, <1>1, <1>2, Zenon DEF RxGood, RxHandshake, RxCompletionPending, ResetDue, BufferFull,
                          rx_soft_vars
<1>6. Storing'
  BY <1>0, <1>1 DEF RxGood, Storing
<1>7. Positions'
  BY <1>0, <1>1 DEF RxGood, Positions, Filled, ResetDue, rx_soft_vars
<1>8. Received' = Received /\ Ended' = Ended /\ ~InFrame'
  BY <1>0, <1>1 DEF Received, Filled, ResetDue, Ended, InFrame, rx_soft_vars
<1>9. \A i \in Received : Byte(i)' = Byte(i)
  BY <1>0, <1>1 DEF Byte
<1>10. RxOrder' /\ RxAccounted'
  BY <1>0, <1>1, <1>8, <1>9, OrderFrame
<1> QED
  BY <1>3, <1>4, <1>5, <1>6, <1>7, <1>10 DEF RxGood

\* The DMA takes a request, reads for the transmitter, or writes the byte received.
LEMMA PdmaRxInv == ASSUME RxGood, PdmaClk, UNCHANGED rx_soft_vars,
                          UNCHANGED rx_seen
                   PROVE  RxGood'
<1>0. UNCHANGED rx_reg_vars /\ UNCHANGED dropped
  BY DEF PdmaClk, rx_vars, rx_csr, rx_reg_vars
<1>1. \/ /\ UNCHANGED <<rx_mem, write_ack>>
         /\ mem_state' \in {"MS_RUNNING", "READ", "WRITE"}
         /\ mem_state' = "WRITE" => write # write_ack
      \/ /\ mem_state = "WRITE" /\ mem_state' = "MS_RUNNING"
         /\ write_ack' = Flip(write_ack) /\ rx_mem' = [rx_mem EXCEPT ![write_addr] = write_data]
  BY Zenon DEF PdmaClk, PdmaTake, PdmaRead, PdmaWrite
<1>2. mem_state' = "MS_RUNNING" /\ write_ack' # write_ack => write_ack' = write /\ write # write_ack
  BY <1>1 DEF RxGood, RxType, Storing, Flip, Bit
<1> USE DEF rx_reg_vars
<1>3. RxType'
  <2>1. write_ack' \in Bit
    BY <1>1 DEF RxGood, RxType, Flip, Bit
  <2>2. rx_mem' \in [Page -> Nat]
    BY <1>1, Zenon DEF RxGood, RxType
  <2> QED
    BY <1>0, <2>1, <2>2, Zenon DEF RxGood, RxType, rx_soft_vars
<1>4. StartedOnce' /\ RxHandshake'
  BY <1>0, Zenon DEF RxGood, StartedOnce, RxHandshake, RxCompletionPending, ResetDue, rx_soft_vars
<1>5. Storing'
  <2>1. CASE UNCHANGED <<rx_mem, write_ack>> /\ (mem_state' = "WRITE" => write # write_ack)
    BY <1>0, <2>1 DEF RxGood, Storing, ResetDue
  <2>2. CASE /\ mem_state = "WRITE" /\ mem_state' = "MS_RUNNING"
             /\ write_ack' = Flip(write_ack) /\ rx_mem' = [rx_mem EXCEPT ![write_addr] = write_data]
    <3>1. write_ack' = write /\ write_addr \in Page /\ rx_mem'[write_addr] = write_data
      BY <2>2 DEF RxGood, RxType, Storing, Flip, Bit
    <3> QED
      BY <1>0, <2>2, <3>1 DEF RxGood, Storing, ResetDue
  <2> QED
    BY <1>1, <2>1, <2>2
<1>6. Positions'
  BY <1>0 DEF RxGood, Positions, Filled, ResetDue, rx_soft_vars
<1>7. Received' = Received /\ Ended' = Ended /\ InFrame' = InFrame
  BY <1>0 DEF Received, Filled, ResetDue, Ended, InFrame, rx_soft_vars
<1>8. \A i \in Received : Byte(i)' = Byte(i)
  <2>0. \A i \in Received : i \in Page
    BY RxTypes
  <2>1. CASE UNCHANGED <<rx_mem, write_ack>>
    BY <1>0, <2>1 DEF Byte
  <2>2. CASE /\ mem_state = "WRITE" /\ mem_state' = "MS_RUNNING"
             /\ write_ack' = Flip(write_ack) /\ rx_mem' = [rx_mem EXCEPT ![write_addr] = write_data]
    <3>1. write_ack' = write /\ write # write_ack /\ write_addr \in Page
      BY <2>2 DEF RxGood, RxType, Storing, Flip, Bit
    <3>2. \A i \in Page : rx_mem'[i] = IF i = write_addr THEN write_data ELSE rx_mem[i]
      BY <2>2 DEF RxGood, RxType
    <3> QED
      BY <1>0, <2>0, <3>1, <3>2, Zenon DEF Byte
  <2> QED
    BY <1>1, <2>1, <2>2
<1>9. RxOrder' /\ RxAccounted'
  BY <1>0, <1>7, <1>8, OrderFrame, Zenon DEF RxGood, RxOrder
<1> QED
  BY <1>3, <1>4, <1>5, <1>6, <1>9 DEF RxGood

\* Any step of the hardware.
LEMMA HardwareRxInv == ASSUME RxGood, Hardware PROVE RxGood'
<1>0. UNCHANGED rx_soft_vars /\ UNCHANGED rx_seen
  BY DEF Hardware, rx_soft_vars, intr_vars, isr_vars, task_vars, drv_vars
<1>1. CASE RxClk
  <2>1. RxOthers
    BY <1>0, <1>1 DEF RxOthers, RxClk, rx_csr, pdma_vars
  <2> QED
    BY <1>1, <2>1, RxIdleInv, RxBitsInv, RxStopBitInv, RxBadStopBitInv, RxMemDoneInv DEF RxClk
<1>2. CASE TxClk \/ TxdClk
  <2>1. UNCHANGED rx_reg_vars /\ UNCHANGED rx_data_vars
    BY <1>0, <1>2, Zenon DEF TxClk, TxdClk, rx_reg_vars, rx_data_vars, rx_vars, rx_csr, pdma_vars
  <2> QED
    BY <1>0, <2>1, RxFrame
<1>3. CASE PdmaClk
  BY <1>0, <1>3, PdmaRxInv
<1> QED
  BY <1>1, <1>2, <1>3 DEF Hardware

-----------------------------------------------------------------------------
(* Interrupts and handlers.                                                *)

\* A step that leaves the receiver, the memory and the handler's positions alone.
LEMMA SoftFrame == ASSUME RxGood, UNCHANGED rx_reg_vars, UNCHANGED rx_data_vars,
                          UNCHANGED <<rx_lastpos, rx_cache, rx_ring, engine_on, starts, task>>
                   PROVE  StartedOnce' /\ Storing' /\ RxOrder' /\ RxAccounted' /\ Filled' = Filled
<1> USE DEF rx_reg_vars, rx_data_vars
<1>1. StartedOnce' /\ Storing'
  BY Zenon DEF RxGood, StartedOnce, Storing, ResetDue
<1>2. Filled' = Filled /\ Received' = Received /\ Ended' = Ended /\ InFrame' = InFrame
  BY DEF Received, Filled, ResetDue, Ended, InFrame
<1>3. \A i \in Received : Byte(i)' = Byte(i)
  BY DEF Byte
<1> QED
  BY <1>1, <1>2, <1>3, OrderFrame, Zenon DEF RxGood, RxOrder

\* The interrupt controller passes the receiver's interrupt on.
LEMMA IntrRxInv == ASSUME IntrInv, RxGood, IntrClk PROVE RxGood'
<1> USE DEF IntrClk, TimerFire, RaiseTimer, RaiseTx, RaiseRx, Raise, Free
<1>0. /\ UNCHANGED rx_reg_vars /\ UNCHANGED rx_data_vars
      /\ UNCHANGED <<isr, id, pos, rx_lastpos, rx_cache, rx_ring, engine_on, starts, task>>
  BY Zenon DEF uart_vars, rx_vars, rx_csr, pdma_vars, isr_vars, task_vars, drv_vars, rx_reg_vars,
         rx_data_vars
<1>1. StartedOnce' /\ Storing' /\ RxOrder' /\ RxAccounted' /\ Filled' = Filled
  BY <1>0, SoftFrame, Zenon
<1>2. RxType'
  BY <1>0, Zenon DEF RxGood, RxType, rx_reg_vars, rx_data_vars
<1>3. RxHandshake'
  BY <1>0, Zenon DEF IntrInv, IntrType, OneInterrupt, RxGood, RxType, RxHandshake,
              RxCompletionPending, ResetDue, Bit, rx_reg_vars
<1>4. Positions'
  BY <1>0, <1>1, Zenon DEF RxGood, Positions, rx_reg_vars
<1> QED
  BY <1>1, <1>2, <1>3, <1>4, Zenon DEF RxGood

\* An interrupt is taken.
LEMMA EnterRxInv == ASSUME IntrInv, RxGood, Enter, UNCHANGED task_vars PROVE RxGood'
<1> USE DEF Enter
<1>0. /\ UNCHANGED rx_reg_vars /\ UNCHANGED rx_data_vars
      /\ UNCHANGED <<pos, rx_lastpos, rx_cache, rx_ring, engine_on, starts, task, rx_toggle_ack>>
  BY Zenon DEF uart_vars, rx_vars, rx_csr, pdma_vars, task_vars, drv_vars, rx_reg_vars, rx_data_vars
<1>1. StartedOnce' /\ Storing' /\ RxOrder' /\ RxAccounted' /\ Filled' = Filled
  BY <1>0, SoftFrame
<1>2. RxType'
  BY <1>0, Zenon DEF RxGood, RxType, rx_reg_vars, rx_data_vars
<1>3. RxHandshake'
  BY <1>0, Zenon DEF IntrInv, IntrType, Vectors, RxGood, RxHandshake, RxCompletionPending, ResetDue,
              rx_reg_vars
<1>4. Positions'
  BY <1>0, <1>1 DEF RxGood, Positions
<1> QED
  BY <1>1, <1>2, <1>3, <1>4 DEF RxGood

\* The steps of a handler that have nothing to do with reception, and its return.
LEMMA OtherHandlerRxInv ==
  ASSUME RxGood, UNCHANGED task_vars, Return \/ TxTake \/ TxNothing \/ TxSet \/ TimerRestart
  PROVE  RxGood'
<1>0. /\ UNCHANGED rx_reg_vars /\ UNCHANGED rx_data_vars
      /\ UNCHANGED <<rx_lastpos, rx_cache, rx_ring, engine_on, starts, task>>
      /\ UNCHANGED <<rx_toggle_ack, intr_trigger, intr_vec, id, pos>>
      /\ isr' \notin {"rx_pos", "rx_copy", "rx_rearm"}
  BY Zenon DEF Return, TxTake, TxNothing, TxSet, TimerRestart, AfterTx, SetTimer, uart_vars, rx_vars,
         rx_csr, pdma_vars, task_vars, drv_vars, intr_vars, rx_reg_vars, rx_data_vars
<1>1. StartedOnce' /\ Storing' /\ RxOrder' /\ RxAccounted' /\ Filled' = Filled
  BY <1>0, SoftFrame
<1>2. RxType'
  BY <1>0, Zenon DEF RxGood, RxType, rx_reg_vars, rx_data_vars
<1>3. RxHandshake'
  BY <1>0, Zenon DEF RxGood, RxHandshake, RxCompletionPending, ResetDue, rx_reg_vars
<1>4. Positions'
  BY <1>0, <1>1 DEF RxGood, Positions
<1> QED
  BY <1>1, <1>2, <1>3, <1>4 DEF RxGood

\* process_rx_data reads the position, outside the window "stale".
LEMMA RxPosInv == ASSUME RxGood, RxPos, UNCHANGED task_vars, window' = {} PROVE RxGood'
<1>0. /\ UNCHANGED rx_reg_vars /\ UNCHANGED rx_data_vars
      /\ UNCHANGED <<rx_lastpos, rx_cache, rx_ring, engine_on, starts, task>>
      /\ UNCHANGED <<rx_toggle_ack, intr_trigger, intr_vec, id>>
      /\ isr = "rx_pos" /\ isr' = "rx_copy" /\ pos' = rx_buf_curpos
      /\ ~(ResetDue /\ rx_buf_curpos > rx_lastpos)
  BY Zenon DEF RxPos, uart_vars, rx_vars, rx_csr, pdma_vars, task_vars, intr_vars, rx_reg_vars,
         rx_data_vars
<1>1. StartedOnce' /\ Storing' /\ RxOrder' /\ RxAccounted' /\ Filled' = Filled
  BY <1>0, SoftFrame
<1>2. RxType'
  BY <1>0, Zenon DEF RxGood, RxType, rx_reg_vars, rx_data_vars
<1>3. RxHandshake'
  BY <1>0, Zenon DEF RxGood, RxHandshake, RxCompletionPending, ResetDue, rx_reg_vars
<1>4. pos' <= Filled
  <2>1. rx_buf_curpos \in Nat /\ rx_lastpos \in Nat /\ rx_lastpos <= Filled
    BY UartAssumption DEF RxGood, RxType, Positions, Page
  <2> QED
    BY <1>0, <2>1 DEF Filled
<1>5. Positions'
  BY <1>0, <1>1, <1>4 DEF RxGood, Positions, rx_reg_vars
<1> QED
  BY <1>1, <1>2, <1>3, <1>5 DEF RxGood

\* It finds nothing new.
LEMMA RxNothingInv == ASSUME RxGood, RxNothing, UNCHANGED task_vars PROVE RxGood'
<1>0. /\ UNCHANGED rx_reg_vars /\ UNCHANGED rx_data_vars
      /\ UNCHANGED <<rx_lastpos, rx_cache, rx_ring, engine_on, starts, task>>
      /\ UNCHANGED <<rx_toggle_ack, intr_trigger, intr_vec, id, pos>>
      /\ isr = "rx_copy" /\ isr' = AfterCopy /\ pos <= rx_lastpos
  BY Zenon DEF RxNothing, uart_vars, rx_vars, rx_csr, pdma_vars, task_vars, intr_vars, drv_vars,
         rx_reg_vars, rx_data_vars
<1>1. StartedOnce' /\ Storing' /\ RxOrder' /\ RxAccounted' /\ Filled' = Filled
  BY <1>0, SoftFrame
<1>2. RxType'
  BY <1>0, Zenon DEF RxGood, RxType, rx_reg_vars, rx_data_vars
<1>3. RxHandshake'
  BY <1>0, Zenon DEF RxGood, RxHandshake, RxCompletionPending, ResetDue, AfterCopy, rx_reg_vars
<1>4. id = "UART0_RX" => rx_lastpos = rx_buf_curpos
  <2>1. /\ rx_buf_curpos \in Nat /\ rx_lastpos \in Nat /\ rx_lastpos <= Filled
        /\ id = "UART0_RX" => pos = rx_buf_curpos /\ ~ResetDue
    BY <1>0, UartAssumption DEF RxGood, RxType, Positions, RxHandshake, RxCompletionPending, Page
  <2> QED
    BY <1>0, <2>1 DEF Filled
<1>5. Positions'
  BY <1>0, <1>1, <1>4, Zenon DEF RxGood, Positions, RxHandshake, AfterCopy, rx_reg_vars
<1> QED
  BY <1>1, <1>2, <1>3, <1>5 DEF RxGood

\* A new buffer for the receiver, once all of the full one has been copied.
LEMMA RxRearmInv == ASSUME IntrInv, RxGood, RxRearm, UNCHANGED task_vars PROVE RxGood'
<1>0. /\ UNCHANGED <<rxd_state, rx_reset_curpos_ack, rx_intr_toggle, write, write_addr,
                     write_data, rx_buf_curpos, arrived>>
      /\ UNCHANGED rx_data_vars
      /\ UNCHANGED <<rx_cache, rx_ring, engine_on, starts, task>>
      /\ UNCHANGED <<rx_toggle_ack, intr_trigger, intr_vec, id, pos>>
      /\ isr = "rx_rearm" /\ isr' = "return" /\ rx_lastpos' = RearmPos
      /\ rx_buf_len' = RearmLen /\ rx_reset_curpos' = Flip(rx_reset_curpos)
  BY Zenon DEF RxRearm, SetRx, rx_vars, pdma_vars, task_vars, intr_vars, rx_data_vars
<1>1. /\ id = "UART0_RX" /\ RxCompletionPending /\ rx_buf_len = MaxLen /\ ~ResetDue
      /\ rxd_state # "RXD_MEM_WAIT" /\ rx_buf_curpos = rx_lastpos /\ Filled = rx_lastpos
  BY <1>0, Zenon DEF RxGood, RxHandshake, RxCompletionPending, Positions, Filled
<1>2. MaxLen \in Nat /\ MaxLen # 0 /\ engine_on = 1
  BY <1>1, UartAssumption DEF RxGood, StartedOnce
<1>3. rx_lastpos' = 0 /\ rx_buf_len' = MaxLen
  BY <1>0, <1>2 DEF RearmPos, RearmLen
<1>4. ResetDue' /\ Filled' = 0 /\ rx_reset_curpos' \in Bit
  <2>1. rx_reset_curpos \in Bit /\ rx_reset_curpos_ack \in Bit
    BY Zenon DEF RxGood, RxType
  <2> QED
    BY <1>0, <1>1, <2>1 DEF ResetDue, Flip, Bit, Filled
<1>5. RxType'
  <2>1. rx_lastpos' \in Page
    BY <1>2, <1>3 DEF Page
  <2> QED
    BY <1>0, <1>3, <1>4, <2>1, Zenon DEF RxGood, RxType, rx_data_vars
<1>6. StartedOnce'
  BY <1>0, <1>1, <1>2, <1>3, Zenon DEF RxGood, StartedOnce
<1>7. RxHandshake'
  BY <1>0, <1>1, Zenon DEF IntrInv, OneInterrupt, RxGood, RxHandshake, RxCompletionPending
<1>8. Storing'
  BY <1>0, <1>1, Zenon DEF RxGood, Storing, rx_data_vars
<1>9. Positions'
  BY <1>0, <1>3, <1>4 DEF Positions
<1>10. Received = {} /\ Received' = {}
  BY <1>1, <1>3, <1>4 DEF Received, RxGood, RxType, Page
<1>11. Ended' = Ended /\ InFrame' = InFrame
  BY <1>0 DEF Ended, InFrame
<1>12. RxOrder' /\ RxAccounted'
  BY <1>0, <1>10, <1>11, OrderFrame, Zenon DEF RxGood, RxOrder, rx_data_vars
<1> QED
  BY <1>5, <1>6, <1>7, <1>8, <1>9, <1>12 DEF RxGood

\* n bytes from the front of the buffer go to the ring, the others up to p are
\* dropped for want of room.
Emptied(lp, n, p, f) == lp + n <= p /\ p <= f /\ Received = lp .. f - 1 /\ Received' = p .. f - 1
Given(lp, n, len) == /\ len = Len(rx_seen) /\ Len(rx_seen') = len + n
                     /\ \A k \in 1 .. len : rx_seen'[k] = rx_seen[k]
                     /\ \A k \in 1 .. n : rx_seen'[len + k] = Byte(lp + k - 1)
Refused(lp, n, p) ==
  \A b : b \in dropped' <=> b \in dropped \/ \E i \in lp + n .. p - 1 : b = Byte(i)
SameFrame == /\ \A i \in Received : Byte(i)' = Byte(i)
             /\ Ended' = Ended /\ arrived' = arrived /\ InFrame' = InFrame

\* What the driver copies from the buffer keeps its order, and no byte gets lost.
LEMMA CopiedOrder ==
  ASSUME RxGood, NEW lp \in Nat, NEW n \in Nat, NEW p \in Nat, NEW f \in Nat, NEW len \in Nat,
         Emptied(lp, n, p, f), Given(lp, n, len), Refused(lp, n, p), SameFrame
  PROVE  RxOrder' /\ RxAccounted'
<1>1. /\ \A i \in Received : Byte(i) \in Nat
      /\ \A k \in 1 .. len : rx_seen[k] \in Nat
      /\ Ended \in Nat
  BY RxTypes DEF Given
<1>2. /\ \A i \in Received' : i \in Received
      /\ \A k \in 1 .. n : lp + k - 1 \in Received
      /\ \A i \in lp + n .. p - 1 : i \in Received
      /\ \A k \in 1 .. len + n : k \in 1 .. len \/ (k - len \in 1 .. n /\ k = len + (k - len))
      /\ \A i \in Received : i \in Received' \/ i \in lp + n .. p - 1 \/ i - lp + 1 \in 1 .. n
  BY DEF Emptied
<1> DEFINE At(k) == lp + (k - len) - 1
<1>3. \A k \in 1 .. len + n : \/ k \in 1 .. len /\ rx_seen'[k] = rx_seen[k]
                              \/ /\ k > len /\ At(k) \in lp .. lp + n - 1 /\ At(k) \in Received
                                 /\ rx_seen'[k] = Byte(At(k))
  <2>1. TAKE k \in 1 .. len + n
  <2>2. CASE k \in 1 .. len
    BY <2>2, Zenon DEF Given
  <2>3. CASE k \notin 1 .. len
    <3>1. PICK m \in 1 .. n : k = len + m
      BY <1>2, <2>3
    <3>2. rx_seen'[len + m] = Byte(lp + m - 1)
      BY Zenon DEF Given
    <3>3. /\ At(k) = lp + m - 1 /\ lp + m - 1 \in lp .. lp + n - 1
          /\ len + m > len
      BY <3>1
    <3>4. lp + m - 1 \in Received
      BY <1>2, Zenon
    <3> HIDE DEF At
    <3> QED
      BY <3>1, <3>2, <3>3, <3>4, Zenon
  <2> QED
    BY <2>2, <2>3, Zenon
<1>4. /\ \A b \in dropped : 1 <= b /\ b <= Ended
      /\ \A k \in 1 .. len : 1 <= rx_seen[k] /\ rx_seen[k] <= Ended /\ rx_seen[k] \notin dropped
      /\ \A k, l \in 1 .. len : k < l => rx_seen[k] < rx_seen[l]
      /\ \A i \in Received : 1 <= Byte(i) /\ Byte(i) <= Ended /\ Byte(i) \notin dropped
      /\ \A i, j \in Received : i < j => Byte(i) < Byte(j)
      /\ \A k \in 1 .. len, i \in Received : rx_seen[k] < Byte(i)
  BY Zenon DEF RxGood, RxOrder, Given
<1>5. \A b \in dropped' : 1 <= b /\ b <= Ended
  <2>1. TAKE b \in dropped'
  <2>2. b \in dropped \/ \E i \in lp + n .. p - 1 : b = Byte(i)
    BY DEF Refused
  <2> QED
    BY <1>2, <1>4, <2>2, Zenon
<1> HIDE DEF At
<1>6. \A k \in 1 .. len + n : /\ 1 <= rx_seen'[k] /\ rx_seen'[k] <= Ended
                              /\ rx_seen'[k] \notin dropped
  BY <1>3, <1>4, Zenon
<1>7. \A k \in 1 .. len + n, i \in lp + n .. f - 1 : rx_seen'[k] < Byte(i)
  <2>1. TAKE k \in 1 .. len + n, i \in lp + n .. f - 1
  <2>2. i \in Received
    BY DEF Emptied
  <2>3. CASE k \in 1 .. len /\ rx_seen'[k] = rx_seen[k]
    BY <1>4, <2>2, <2>3, Zenon
  <2>4. CASE At(k) \in lp .. lp + n - 1 /\ At(k) \in Received /\ rx_seen'[k] = Byte(At(k))
    <3>1. At(k) < i
      BY <2>4
    <3> QED
      BY <1>4, <2>2, <2>4, <3>1, Zenon
  <2> QED
    BY <1>3, <2>3, <2>4, Zenon
<1>8. \A k \in 1 .. len + n : rx_seen'[k] \notin dropped'
  <2>1. TAKE k \in 1 .. len + n
  <2>2. rx_seen'[k] \in Nat
    BY <1>1, <1>3
  <2>3. ASSUME NEW i \in lp + n .. p - 1 PROVE rx_seen'[k] # Byte(i)
    <3>1. i \in lp + n .. f - 1
      BY DEF Emptied
    <3>2. Byte(i) \in Nat /\ rx_seen'[k] < Byte(i)
      BY <1>1, <1>2, <1>7, <3>1, Zenon
    <3> QED
      BY <2>2, <3>2
  <2> QED
    BY <1>6, <2>3 DEF Refused
<1>9. \A k, l \in 1 .. len + n : k < l => rx_seen'[k] < rx_seen'[l]
  <2>1. TAKE k, l \in 1 .. len + n
  <2>2. HAVE k < l
  <2>3. CASE l \in 1 .. len /\ rx_seen'[l] = rx_seen[l]
    <3>1. k \in 1 .. len
      BY <2>2, <2>3
    <3>2. rx_seen'[k] = rx_seen[k]
      BY <3>1, Zenon DEF Given
    <3> QED
      BY <1>4, <2>2, <2>3, <3>1, <3>2, Zenon
  <2>4. CASE /\ l > len /\ At(l) \in lp .. lp + n - 1 /\ At(l) \in Received
             /\ rx_seen'[l] = Byte(At(l))
    <3>1. CASE k \in 1 .. len /\ rx_seen'[k] = rx_seen[k]
      BY <1>4, <2>4, <3>1, Zenon
    <3>2. CASE At(k) \in Received /\ rx_seen'[k] = Byte(At(k))
      <4>1. At(k) < At(l)
        BY <2>2 DEF At
      <4> QED
        BY <1>4, <2>4, <3>2, <4>1, Zenon
    <3> QED
      BY <1>3, <3>1, <3>2, Zenon
  <2> QED
    BY <1>3, <2>3, <2>4, Zenon
<1>10. \A i \in Received' : 1 <= Byte(i) /\ Byte(i) <= Ended /\ Byte(i) \notin dropped'
  <2>1. TAKE i \in Received'
  <2>2. ASSUME NEW j \in lp + n .. p - 1 PROVE Byte(i) # Byte(j)
    <3>1. j \in Received /\ i \in Received
      BY <1>2
    <3>2. j < i
      BY DEF Emptied
    <3>3. Byte(j) < Byte(i) /\ Byte(j) \in Nat /\ Byte(i) \in Nat
      BY <1>1, <1>4, <3>1, <3>2, Zenon
    <3> QED
      BY <3>3
  <2>3. Byte(i) \notin dropped'
    BY <1>2, <1>4, <2>2, Zenon DEF Refused
  <2> QED
    BY <1>2, <1>4, <2>3, Zenon
<1>11. \A k \in 1 .. len + n, i \in Received' : rx_seen'[k] < Byte(i)
  <2>1. \A i \in Received' : i \in lp + n .. f - 1
    BY DEF Emptied
  <2> QED
    BY <1>7, <2>1
<1>12. RxOrder'
  <2>1. \A i \in Received' : Byte(i)' = Byte(i)
    BY <1>2 DEF SameFrame
  <2>2. \A i, j \in Received' : i < j => Byte(i) < Byte(j)
    BY <1>2, <1>4, Zenon
  <2>3. Len(rx_seen') = len + n /\ Ended' = Ended /\ (InFrame' => arrived' > 0)
    BY Zenon DEF Given, SameFrame, RxGood, RxOrder
  <2> QED
    BY <1>5, <1>6, <1>8, <1>9, <1>10, <1>11, <2>1, <2>2, <2>3, Zenon DEF RxOrder
<1>13. RxAccounted'
  <2>1. SUFFICES ASSUME NEW b \in 1 .. Ended
                 PROVE  \/ b \in dropped'
                        \/ \E k \in 1 .. len + n : rx_seen'[k] = b
                        \/ \E i \in Received' : Byte(i)' = b
    BY Zenon DEF RxAccounted, Given, SameFrame
  <2>2. CASE b \in dropped
    BY <2>2 DEF Refused
  <2>3. ASSUME NEW k \in 1 .. len, rx_seen[k] = b
        PROVE  \E m \in 1 .. len + n : rx_seen'[m] = b
    <3>1. k \in 1 .. len + n
      OBVIOUS
    <3> QED
      BY <2>3, <3>1 DEF Given
  <2>4. ASSUME NEW i \in Received, Byte(i) = b
        PROVE  \/ b \in dropped'
               \/ \E k \in 1 .. len + n : rx_seen'[k] = b
               \/ \E j \in Received' : Byte(j)' = b
    <3>1. CASE i \in Received'
      BY <2>4, <3>1 DEF SameFrame
    <3>2. CASE i \in lp + n .. p - 1
      BY <2>4, <3>2 DEF Refused
    <3>3. CASE i - lp + 1 \in 1 .. n
      <4>0. i \in Int
        BY DEF Emptied
      <4>1. PICK m \in 1 .. n : i = lp + m - 1
        BY <3>3, <4>0
      <4>2. rx_seen'[len + m] = Byte(lp + m - 1)
        BY Zenon DEF Given
      <4>3. len + m \in 1 .. len + n
        OBVIOUS
      <4> QED
        BY <2>4, <4>1, <4>2, <4>3
    <3> QED
      BY <1>2, <3>1, <3>2, <3>3, Zenon
  <2> QED
    BY <2>1, <2>2, <2>3, <2>4, Zenon DEF RxGood, RxAccounted, Given
<1> QED
  BY <1>12, <1>13

\* What process_rx_data reads through the data cache once it has flushed the lines
\* of the new bytes: what the DMA wrote.
LEMMA ReadsMemory == ASSUME NEW a \in Nat, NEW b \in Nat, NEW n \in Nat, a + n <= b,
                            NEW i \in Page, i \in a .. a + n - 1
                     PROVE  Loaded(Flushed(a, b), a, n)[i] = rx_mem[i]
<1>1. i \in a .. b - 1
  OBVIOUS
<1>2. i \in FlushRange(a, b)
  BY <1>1 DEF FlushRange
<1>3. Flushed(a, b)[i] = NotCached
  BY <1>2 DEF Flushed
<1> QED
  BY <1>3, Zenon DEF Loaded

\* The cache keeps its type.
LEMMA LoadedType == ASSUME RxGood, NEW a, NEW b, NEW n
                    PROVE  Loaded(Flushed(a, b), a, n) \in [Page -> Nat \cup {NotCached}]
<1>1. Flushed(a, b) \in [Page -> Nat \cup {NotCached}]
  BY DEF Flushed, RxGood, RxType
<1> QED
  BY <1>1, Zenon DEF Loaded, RxGood, RxType

\* What a concatenation holds.
LEMMA Concatenated ==
  ASSUME NEW s \in Seq(Nat), NEW t \in Seq(Nat)
  PROVE  /\ Len(s \o t) = Len(s) + Len(t)
         /\ \A k \in 1 .. Len(s) : (s \o t)[k] = s[k]
         /\ \A k \in 1 .. Len(t) : (s \o t)[Len(s) + k] = t[k]
  OBVIOUS

\* It copies the new bytes, outside the window "early".
LEMMA RxCopyInv == ASSUME RxGood, RxCopy, UNCHANGED task_vars, window' = {} PROVE RxGood'
<1> DEFINE ring == Len(rx_ring)
           n == IF pos - rx_lastpos <= RingCap - ring THEN pos - rx_lastpos ELSE RingCap - ring
           c == Loaded(Flushed(rx_lastpos, pos), rx_lastpos, n)
           got == [i \in 1 .. n |-> c[rx_lastpos + i - 1]]
           over == {rx_mem[i] : i \in (rx_lastpos + n) .. (pos - 1)}
<1>0. /\ UNCHANGED rx_reg_vars /\ UNCHANGED <<rx_mem, write_ack, mem_state>>
      /\ UNCHANGED <<engine_on, starts, task, rx_toggle_ack, intr_trigger, intr_vec, id, pos>>
      /\ isr = "rx_copy" /\ isr' = AfterCopy /\ pos > rx_lastpos /\ rx_lastpos' = pos
  BY Zenon DEF RxCopy, rx_vars, rx_csr, pdma_vars, task_vars, intr_vars, rx_reg_vars
<1>1. /\ rx_ring' = rx_ring \o got /\ rx_cache' = c
      /\ rx_seen' = rx_seen \o got /\ dropped' = dropped \cup over
      /\ ~(write # write_ack /\ write_addr \in rx_lastpos .. pos - 1)
  BY Zenon DEF RxCopy
<1>2. /\ pos \in Nat /\ rx_lastpos \in Nat /\ ring \in Nat /\ RingCap \in Nat /\ ring <= RingCap
      /\ MaxLen \in Nat /\ pos <= MaxLen /\ pos <= Filled /\ Filled \in Nat /\ Filled <= MaxLen
  <2>1. pos \in Page /\ rx_lastpos \in Page /\ rx_ring \in Seq(Nat) /\ Len(rx_ring) <= RingCap
    BY Zenon DEF RxGood, RxType
  <2>2. pos <= Filled
    BY <1>0, Zenon DEF RxGood, Positions
  <2> QED
    BY <2>1, <2>2, RxTypes, DriverAssumption DEF Page
<1>3. n \in Nat /\ rx_lastpos + n <= pos /\ ring + n <= RingCap
  BY <1>0, <1>2
<1> HIDE DEF n, ring, c, got, over
<1>4. \A k \in 1 .. n : rx_lastpos + k - 1 \in Page /\ got[k] = rx_mem[rx_lastpos + k - 1]
  <2>1. TAKE k \in 1 .. n
  <2>2. rx_lastpos + k - 1 \in Page /\ rx_lastpos + k - 1 \in rx_lastpos .. rx_lastpos + n - 1
    BY <1>2, <1>3 DEF Page
  <2>3. c[rx_lastpos + k - 1] = rx_mem[rx_lastpos + k - 1]
    BY <1>2, <1>3, <2>2, ReadsMemory DEF c
  <2> QED
    BY <2>2, <2>3, Zenon DEF got
<1>5. got \in Seq(Nat) /\ Len(got) = n
  <2>1. got \in [1 .. n -> Nat]
    <3>1. DOMAIN got = 1 .. n /\ got = [k \in 1 .. n |-> got[k]]
      BY DEF got
    <3>2. \A k \in 1 .. n : got[k] \in Nat
      BY <1>4, Zenon DEF RxGood, RxType
    <3> QED
      BY <3>1, <3>2
  <2> QED
    BY <1>3, <2>1
<1>6. \A i \in rx_lastpos .. pos - 1 : i \in Page /\ Byte(i) = rx_mem[i]
  <2>1. TAKE i \in rx_lastpos .. pos - 1
  <2>2. i \in Page
    BY <1>2 DEF Page
  <2>3. ~(write # write_ack /\ i = write_addr)
    BY <1>1, Zenon
  <2> QED
    BY <2>2, <2>3, Zenon DEF Byte
<1>7. RxType'
  <2>1. rx_cache' \in [Page -> Nat \cup {NotCached}]
    BY <1>1, LoadedType DEF c
  <2>2. rx_ring' \in Seq(Nat) /\ Len(rx_ring') <= RingCap
    BY <1>1, <1>2, <1>3, <1>5 DEF RxGood, RxType, ring
  <2>3. rx_seen' \in Seq(Nat)
    BY <1>1, <1>5 DEF RxGood, RxType
  <2>4. dropped' \subseteq Nat
    <3>1. \A i \in rx_lastpos + n .. pos - 1 : i \in rx_lastpos .. pos - 1
      BY <1>2, <1>3
    <3>2. \A i \in rx_lastpos + n .. pos - 1 : rx_mem[i] \in Nat
      BY <1>6, <3>1 DEF RxGood, RxType
    <3> QED
      BY <1>1, <3>2, Zenon DEF over, RxGood, RxType
  <2> QED
    BY <1>0, <2>1, <2>2, <2>3, <2>4, Zenon DEF RxGood, RxType, rx_reg_vars
<1>8. StartedOnce'
  <2>1. rx_buf_len # 0
    BY <1>0, <1>2 DEF RxGood, StartedOnce, Filled
  <2> QED
    BY <1>0, <2>1, Zenon DEF RxGood, StartedOnce, rx_reg_vars
<1>9. RxHandshake' /\ Storing'
  BY <1>0, Zenon DEF RxGood, RxHandshake, RxCompletionPending, Storing, ResetDue, AfterCopy, rx_reg_vars
<1>10. Filled' = Filled /\ Ended' = Ended /\ InFrame' = InFrame
  BY <1>0, Zenon DEF Filled, ResetDue, Ended, InFrame, rx_reg_vars
<1>11. Positions'
  BY <1>0, <1>2, <1>10, Zenon DEF RxGood, Positions, RxHandshake, AfterCopy, rx_reg_vars
<1>12. Received = rx_lastpos .. Filled - 1 /\ Received' = pos .. Filled - 1
  BY <1>0, <1>10 DEF Received
<1>13. \A i : Byte(i)' = Byte(i)
  BY <1>0 DEF Byte, rx_reg_vars
<1>14. \A b : b \in dropped' <=> b \in dropped \/ \E i \in rx_lastpos + n .. pos - 1 : b = Byte(i)
  <2>1. \A i \in rx_lastpos + n .. pos - 1 : i \in rx_lastpos .. pos - 1
    BY <1>2, <1>3
  <2> QED
    BY <1>1, <1>6, <2>1, Zenon DEF over
<1>15. PICK len \in Nat : len = Len(rx_seen)
  BY DEF RxGood, RxType
<1>16. /\ Len(rx_seen') = len + n
       /\ \A k \in 1 .. len : rx_seen'[k] = rx_seen[k]
       /\ \A k \in 1 .. n : rx_seen'[len + k] = got[k]
  <2>1. rx_seen \in Seq(Nat)
    BY DEF RxGood, RxType
  <2> QED
    BY <1>1, <1>5, <1>15, <2>1, Concatenated, Zenon
<1>17. \A k \in 1 .. n : rx_seen'[len + k] = Byte(rx_lastpos + k - 1)
  <2>1. TAKE k \in 1 .. n
  <2>2. rx_lastpos + k - 1 \in rx_lastpos .. pos - 1
    BY <1>2, <1>3
  <2> QED
    BY <1>4, <1>6, <1>16, <2>2, Zenon
<1>18. UNCHANGED arrived
  BY <1>0 DEF rx_reg_vars
<1>19. RxOrder' /\ RxAccounted'
  <2>1. Emptied(rx_lastpos, n, pos, Filled)
    BY <1>2, <1>3, <1>12 DEF Emptied
  <2>2. Given(rx_lastpos, n, len)
    BY <1>15, <1>16, <1>17, Zenon DEF Given
  <2>3. Refused(rx_lastpos, n, pos)
    BY <1>14 DEF Refused
  <2>4. SameFrame
    BY <1>10, <1>13, <1>18 DEF SameFrame
  <2> QED
    BY <1>2, <1>3, <1>15, <2>1, <2>2, <2>3, <2>4, CopiedOrder, Zenon
<1> QED
  BY <1>7, <1>8, <1>9, <1>11, <1>19 DEF RxGood

-----------------------------------------------------------------------------
(* The task, which starts the engine once.                                 *)

\* The receiver gets its first buffer.
LEMMA StartRxInv == ASSUME RxGood, StartRx PROVE RxGood'
<1>0. /\ UNCHANGED <<rxd_state, rx_reset_curpos_ack, rx_intr_toggle, write, write_addr,
                     write_data, rx_buf_curpos, arrived>>
      /\ UNCHANGED rx_data_vars
      /\ UNCHANGED <<rx_lastpos, rx_cache, rx_ring, engine_on, starts>>
      /\ UNCHANGED <<rx_toggle_ack, intr_trigger, intr_vec, isr, id, pos>>
      /\ task = "start_rx" /\ task' = "start_timer"
      /\ rx_buf_len' = MaxLen /\ rx_reset_curpos' = Flip(rx_reset_curpos)
  BY Zenon DEF StartRx, SetRx, TaskKeep, rx_vars, pdma_vars, drv_vars, isr_vars, intr_vars, rx_data_vars
<1>1. /\ rx_buf_len = 0 /\ engine_on = 1 /\ ~ResetDue /\ rx_buf_curpos = 0 /\ rx_lastpos = 0
      /\ rxd_state # "RXD_MEM_WAIT" /\ starts # 0
  BY <1>0, Zenon DEF RxGood, StartedOnce, Before
<1>2. MaxLen \in Nat /\ MaxLen # 0
  BY UartAssumption
<1>3. ~RxCompletionPending
  BY <1>1, <1>2 DEF RxGood, RxHandshake
<1>4. ResetDue' /\ Filled = 0 /\ Filled' = 0 /\ rx_reset_curpos' \in Bit
  <2>1. rx_reset_curpos \in Bit /\ rx_reset_curpos_ack \in Bit
    BY Zenon DEF RxGood, RxType
  <2> QED
    BY <1>0, <1>1, <2>1 DEF ResetDue, Flip, Bit, Filled
<1>5. RxType'
  BY <1>0, <1>4, Zenon DEF RxGood, RxType, rx_data_vars
<1>6. StartedOnce'
  BY <1>0, <1>1, <1>2, Zenon DEF RxGood, StartedOnce, Before
<1>7. RxHandshake'
  BY <1>0, <1>3, Zenon DEF RxGood, RxHandshake, RxCompletionPending
<1>8. Storing'
  BY <1>0, <1>1, Zenon DEF RxGood, Storing, rx_data_vars
<1>9. Positions'
  BY <1>0, <1>4, Zenon DEF RxGood, Positions
<1>10. Received' = Received /\ Ended' = Ended /\ InFrame' = InFrame
  BY <1>0, <1>4, Zenon DEF Received, Ended, InFrame
<1>11. \A i \in Received : Byte(i)' = Byte(i)
  BY <1>0, Zenon DEF Byte, rx_data_vars
<1>12. RxOrder' /\ RxAccounted'
  BY <1>0, <1>10, <1>11, OrderFrame, Zenon DEF RxGood, RxOrder, rx_data_vars
<1> QED
  BY <1>5, <1>6, <1>7, <1>8, <1>9, <1>12 DEF RxGood

\* The rest of uart0.c.  The engine is not stopped.
LEMMA OtherTaskRxInv ==
  ASSUME RxGood, MaxStarts = 1,
         \/ StartTxRing \/ StartRxRing \/ StartFlags \/ StartLastpos \/ StartTimer
         \/ StopFlags \/ StopRx \/ Write \/ Read
  PROVE  RxGood'
<1>0. ~StopFlags /\ ~StopRx
  BY DEF StopFlags, StopRx, RxGood, StartedOnce
<1>1. /\ UNCHANGED rx_reg_vars /\ UNCHANGED rx_data_vars
      /\ UNCHANGED <<rx_toggle_ack, intr_trigger, intr_vec, isr, id, pos, rx_cache>>
  BY <1>0, Zenon DEF StartTxRing, StartRxRing, StartFlags, StartLastpos, StartTimer, Write, Read, SetTimer,
         TaskKeep, uart_vars, rx_vars, rx_csr, pdma_vars, drv_vars, isr_vars, intr_vars,
         rx_reg_vars, rx_data_vars
<1>2. /\ rx_lastpos' = rx_lastpos
      /\ StartedOnce'
  <2> DEFINE Kept == /\ rx_buf_len' = rx_buf_len /\ rx_buf_curpos' = rx_buf_curpos
                     /\ rxd_state' = rxd_state /\ (ResetDue' <=> ResetDue)
  <2>1. Kept /\ StartedOnce
    BY <1>1, Zenon DEF rx_reg_vars, ResetDue, RxGood
  <2>2. CASE StartTxRing
    <3>1. starts = 0 /\ starts' \in Nat /\ starts' # 0
      BY <2>1, <2>2 DEF StartTxRing, StartedOnce
    <3> QED
      BY <2>1, <2>2, <3>1, Zenon DEF StartTxRing, StartedOnce, Before
  <2>3. CASE StartRxRing
    BY <2>1, <2>3, Zenon DEF StartRxRing, TaskKeep, StartedOnce, Before
  <2>4. CASE StartFlags
    BY <2>1, <2>4, Zenon DEF StartFlags, TaskKeep, StartedOnce, Before
  <2>5. CASE StartLastpos
    BY <2>1, <2>5, Zenon DEF StartLastpos, TaskKeep, StartedOnce, Before
  <2>6. CASE StartTimer
    BY <2>1, <2>6, Zenon DEF StartTimer, TaskKeep, drv_vars, StartedOnce, Before
  <2>7. CASE Write
    BY <2>1, <2>7, Zenon DEF Write, StartedOnce, Before
  <2>8. CASE Read
    BY <2>1, <2>8, Zenon DEF Read, task_vars, StartedOnce, Before
  <2> QED
    BY <1>0, <2>2, <2>3, <2>4, <2>5, <2>6, <2>7, <2>8, Zenon
<1>3. rx_ring' \in Seq(Nat) /\ Len(rx_ring') <= RingCap
  <2>1. CASE rx_ring' = rx_ring
    BY <2>1, Zenon DEF RxGood, RxType
  <2>2. CASE rx_ring' = <<>>
    BY <2>2, DriverAssumption
  <2>3. CASE rx_ring # <<>> /\ rx_ring' = Tail(rx_ring)
    <3>1. rx_ring \in Seq(Nat) /\ Len(rx_ring) <= RingCap
      BY Zenon DEF RxGood, RxType
    <3>2. Len(Tail(rx_ring)) = Len(rx_ring) - 1 /\ Tail(rx_ring) \in Seq(Nat) /\ Len(rx_ring) \in Nat
      BY <2>3, <3>1
    <3> QED
      BY <2>3, <3>1, <3>2, DriverAssumption
  <2> QED
    BY <1>0, <2>1, <2>2, <2>3, Zenon
       DEF StartTxRing, StartRxRing, StartFlags, StartLastpos, StartTimer, Write, Read, drv_vars
<1>4. RxType'
  BY <1>1, <1>2, <1>3, Zenon DEF RxGood, RxType, rx_reg_vars, rx_data_vars
<1>5. RxHandshake'
  BY <1>1, Zenon DEF RxGood, RxHandshake, RxCompletionPending, ResetDue, rx_reg_vars
<1>6. Storing'
  BY <1>1, Zenon DEF RxGood, Storing, ResetDue, rx_reg_vars, rx_data_vars
<1>7. Filled' = Filled /\ Received' = Received /\ Ended' = Ended /\ InFrame' = InFrame
  BY <1>1, <1>2, Zenon DEF Received, Filled, ResetDue, Ended, InFrame, rx_reg_vars
<1>8. Positions'
  BY <1>1, <1>2, <1>7, Zenon DEF RxGood, Positions, rx_reg_vars
<1>9. \A i \in Received : Byte(i)' = Byte(i)
  BY <1>1, Zenon DEF Byte, rx_reg_vars, rx_data_vars
<1>10. RxOrder' /\ RxAccounted'
  BY <1>1, <1>7, <1>9, OrderFrame, Zenon DEF RxGood, RxOrder, rx_data_vars, rx_reg_vars
<1> QED
  BY <1>2, <1>4, <1>5, <1>6, <1>8, <1>10 DEF RxGood

-----------------------------------------------------------------------------
\* Every step keeps the invariant of the receiving side, if the engine is started
\* once.
LEMMA RxStep == ASSUME MaxStarts = 1, IntrInv, RxInv, [Next]_vars PROVE RxInv'
<1> SUFFICES ASSUME window' = {} PROVE RxGood'
  BY DEF RxInv
<1>1. CASE Hardware
  <2>1. window = {}
    BY <1>1 DEF Hardware, drv_vars
  <2> QED
    BY <1>1, <2>1, HardwareRxInv DEF RxInv
<1>2. CASE IntrClk
  <2>1. window = {}
    BY <1>2 DEF IntrClk, drv_vars
  <2> QED
    BY <1>2, <2>1, IntrRxInv DEF RxInv
<1>3. CASE Handler
  <2>1. window = {}
    BY <1>3, Zenon DEF Handler, Enter, Return, RxPos, RxCopy, RxNothing, RxRearm, TxTake, TxNothing,
                TxSet, TimerRestart, drv_vars
  <2> QED
    BY <1>3, <2>1, EnterRxInv, OtherHandlerRxInv, RxPosInv, RxCopyInv, RxNothingInv, RxRearmInv
       DEF Handler, RxInv
<1>4. CASE Task
  <2>1. window = {}
    BY <1>4, Zenon DEF Task, Starting, StartTxRing, StartRxRing, StartFlags, StartLastpos, StartRx,
                StartTimer, StopFlags, StopRx, Write, Read, drv_vars
  <2> QED
    BY <1>4, <2>1, StartRxInv, OtherTaskRxInv DEF Task, Starting, RxInv
<1>5. CASE UNCHANGED vars
  <2>1. /\ window = {} /\ UNCHANGED rx_reg_vars /\ UNCHANGED rx_data_vars
        /\ UNCHANGED rx_soft_vars
    BY <1>5, Zenon DEF vars, uart_vars, rx_vars, rx_csr, pdma_vars, intr_vars, isr_vars, task_vars,
                drv_vars, rx_reg_vars, rx_data_vars, rx_soft_vars
  <2> QED
    BY <2>1, RxFrame DEF RxInv
<1> QED
  BY <1>1, <1>2, <1>3, <1>4, <1>5 DEF Next, Software

\* The inductive invariant of the receiving side holds from the start of the
\* engine on, whatever the interleaving of receiver, DMA, timer and handlers.
THEOREM RxInvariance == ASSUME MaxStarts = 1 PROVE Spec => []RxInv
<1>1. Init => RxInv
  BY RxInit
<1>2. IntrInv /\ RxInv /\ [Next]_vars => RxInv'
  BY RxStep
<1> QED
  BY <1>1, <1>2, IntrInvariance, PTL DEF Spec

\* What the invariant says of rx_seen.
LEMMA RxGoodOnce == ASSUME RxGood
                    PROVE  /\ \A i \in 1 .. Len(rx_seen) - 1 : rx_seen[i] < rx_seen[i + 1]
                           /\ rx_seen # <<>> =>
                                \A b \in 1 .. rx_seen[Len(rx_seen)] :
                                  b \in Range(rx_seen) <=> b \notin dropped
<1>1. rx_seen \in Seq(Nat) /\ Len(rx_seen) \in Nat /\ Ended \in Nat
  BY RxTypes DEF RxGood, RxType
<1>2. \A i \in 1 .. Len(rx_seen) - 1 : rx_seen[i] < rx_seen[i + 1]
  <2>1. TAKE i \in 1 .. Len(rx_seen) - 1
  <2>2. i \in 1 .. Len(rx_seen) /\ i + 1 \in 1 .. Len(rx_seen) /\ i < i + 1
    BY <1>1
  <2> QED
    BY <2>2, Zenon DEF RxGood, RxOrder
<1>3. ASSUME rx_seen # <<>>, NEW b \in 1 .. rx_seen[Len(rx_seen)]
      PROVE  b \in Range(rx_seen) <=> b \notin dropped
  <2>1. PICK n \in 1 .. Len(rx_seen) : n = Len(rx_seen)
    BY <1>1, <1>3
  <2>2. rx_seen[n] \in Nat /\ rx_seen[n] <= Ended /\ b <= rx_seen[n] /\ b \in 1 .. Ended
    BY <1>1, <1>3, <2>1 DEF RxGood, RxOrder
  <2>3. Range(rx_seen) = {rx_seen[k] : k \in 1 .. Len(rx_seen)}
    BY <1>1 DEF Range
  <2>4. ASSUME b \in Range(rx_seen) PROVE b \notin dropped
    BY <2>3, <2>4, Zenon DEF RxGood, RxOrder
  <2>5. ASSUME NEW i \in Received PROVE Byte(i) # b
    <3>1. rx_seen[n] < Byte(i) /\ Byte(i) \in Nat
      BY <2>1, RxTypes, Zenon DEF RxGood, RxOrder
    <3> QED
      BY <2>2, <3>1
  <2>6. ASSUME b \notin dropped PROVE b \in Range(rx_seen)
    BY <2>2, <2>3, <2>5, <2>6, Zenon DEF RxGood, RxAccounted
  <2> QED
    BY <2>4, <2>6
<1> QED
  BY <1>2, <1>3

\* process_rx_data gives each byte the UART received to the ring once and in
\* order, or it was dropped for a known reason, unless one of the two windows is
\* hit: across DMA, cache, full buffers, new buffers and late handlers.
THEOREM DeliversExactlyOnce == ASSUME MaxStarts = 1 PROVE Spec => []RxExactlyOnce
<1>1. RxInv => RxExactlyOnce
  BY RxGoodOnce DEF RxInv, RxExactlyOnce
<1> QED
  BY <1>1, RxInvariance, PTL
=============================================================================
