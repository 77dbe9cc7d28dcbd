--------------------------- MODULE UartDriver_proofs ---------------------------
(***************************************************************************)
(* Proofs about the UART's driver, for every size of the buffers, the      *)
(* rings and the cache lines and any number of bytes and restarts.         *)
(***************************************************************************)
EXTENDS UartDriver, TLAPS

TxStates == {"TX_IDLE", "TX_RUNNING", "TX_READMEM_WAIT", "TX_TXD_WAIT"}
Vectors == {"TIMER", "UART0_TX", "UART0_RX"}

TxType == /\ tx_state \in TxStates
          /\ tx_active \in Bit /\ tx_intr_toggle \in Bit /\ tx_toggle_ack \in Bit
          /\ intr_trigger \in Bit /\ intr_frozen \in Bit
          /\ intr_vec \in Vectors /\ id \in Vectors
          /\ txd_start \in Bit /\ txd_start_ack \in Bit /\ read \in Bit /\ read_ack \in Bit
          /\ tx_buf_len \in Page /\ tx_buf_curpos \in Page /\ read_addr \in Page /\ x \in Page
          /\ tx_mem \in [Page -> Nat] /\ read_data \in Nat /\ txd_byte \in Nat
          /\ tx_ring \in Seq(Nat) /\ written \in Nat /\ wire \in Nat

\* One interrupt at a time: the controller is frozen from the moment it triggers
\* an interrupt until the handler returns.
OneInterrupt == /\ intr_trigger = 1 => intr_frozen = 1 /\ isr = "none"
                /\ isr # "none" => intr_frozen = 1

\* A completion is in one place: the transmitter that works on the buffer, its
\* toggle, the controller's trigger or the handler.
OneCompletion == /\ tx_state # "TX_IDLE" => ~TxCompletionPending
                 /\ tx_toggle_ack # tx_intr_toggle =>
                      /\ ~(intr_trigger = 1 /\ intr_vec = "UART0_TX")
                      /\ ~(isr = "tx_take" /\ id = "UART0_TX")

OwnInv == /\ OneInterrupt /\ TxOwnership /\ OneCompletion
          /\ isr = "tx_set" => tx_active = 0

\* The transmitter's requests: of the DMA, for the byte at tx_buf_curpos, and of
\* the shift register, for that byte.
Fetching ==
  /\ read # read_ack => tx_state = "TX_READMEM_WAIT"
  /\ mem_state = "READ" => read # read_ack
  /\ tx_state = "TX_READMEM_WAIT" => /\ read_addr = tx_buf_curpos
                                     /\ read = read_ack => read_data = tx_mem[tx_buf_curpos]
  /\ txd_start # txd_start_ack => /\ tx_state = "TX_TXD_WAIT"
                                  /\ txd_byte = tx_mem[tx_buf_curpos]
  /\ tx_buf_curpos <= tx_buf_len
  /\ tx_state = "TX_IDLE" => tx_buf_curpos = tx_buf_len
  /\ tx_state \in {"TX_READMEM_WAIT", "TX_TXD_WAIT"} => tx_buf_curpos < tx_buf_len

\* The bytes in the driver's buffer that are still to be sent: just consumed by
\* the handler, or not yet sent by the transmitter.
Sent == tx_state = "TX_TXD_WAIT" /\ txd_start = txd_start_ack
First == IF isr = "tx_set" THEN 0 ELSE IF Sent THEN tx_buf_curpos + 1 ELSE tx_buf_curpos
Limit == IF isr = "tx_set" THEN x ELSE tx_buf_len
Unsent == First .. Limit - 1

\* What is on its way is in order: sent, in the buffer, in the ring.
InOrder ==
  /\ wire <= written
  /\ \A i \in Unsent : wire < tx_mem[i] /\ tx_mem[i] <= written
  /\ \A i, j \in Unsent : i < j => tx_mem[i] < tx_mem[j]
  /\ \A k \in 1 .. Len(tx_ring) : wire < tx_ring[k] /\ tx_ring[k] <= written
  /\ \A k, l \in 1 .. Len(tx_ring) : k < l => tx_ring[k] < tx_ring[l]
  /\ \A i \in Unsent, k \in 1 .. Len(tx_ring) : tx_mem[i] < tx_ring[k]

\* A written byte that was not sent is on its way or given up.
Accounted == \A b \in wire + 1 .. written :
  \/ b \in lost
  \/ \E i \in Unsent : tx_mem[i] = b
  \/ \E k \in 1 .. Len(tx_ring) : tx_ring[k] = b

TxInv == TxType /\ OwnInv /\ Fetching /\ InOrder /\ Accounted

-----------------------------------------------------------------------------
own_vars == <<tx_state, tx_active, tx_intr_toggle, tx_toggle_ack, intr_trigger,
              intr_frozen, intr_vec, isr, id>>
send_vars == <<txd_start, txd_start_ack, txd_byte, read, read_ack, read_addr, read_data,
               mem_state, tx_buf_len, tx_buf_curpos, x, tx_mem, tx_ring, written, wire, lost>>

\* The state after reset: nothing written, the transmitter idle.
LEMMA TxInit == Init => TxInv
<1> SUFFICES ASSUME Init PROVE TxInv
  OBVIOUS
<1> USE DEF Init, UartInit
<1>1. TxType
  BY UartAssumption DEF TxType, TxStates, Vectors, Bit, Page
<1>2. OwnInv
  BY DEF OwnInv, OneInterrupt, OneCompletion, TxOwnership, TxCompletionPending
<1>3. Fetching
  BY DEF Fetching
<1>4. Unsent = {} /\ Len(tx_ring) = 0
  BY DEF Unsent, First, Limit, Sent
<1>5. InOrder /\ Accounted
  BY <1>4 DEF InOrder, Accounted
<1> QED
  BY <1>1, <1>2, <1>3, <1>5 DEF TxInv

\* A step that leaves the sending side alone and in which the handler neither
\* consumes bytes nor hands them over keeps the bytes in order.
LEMMA SendFrame == ASSUME TxInv, UNCHANGED send_vars, UNCHANGED tx_state,
                          isr = "tx_set" <=> isr' = "tx_set"
                   PROVE  Fetching' /\ InOrder' /\ Accounted'
<1>1. Fetching'
  BY DEF TxInv, Fetching, send_vars
<1>2. UNCHANGED <<Unsent, tx_mem, tx_ring, wire, written, lost>>
  BY DEF Unsent, First, Limit, Sent, send_vars
<1>3. InOrder'
  BY <1>2 DEF TxInv, InOrder
<1>4. Accounted'
  BY <1>2 DEF TxInv, Accounted
<1> QED
  BY <1>1, <1>3, <1>4

\* A step that does not concern the sending side.
LEMMA TxFrame == ASSUME TxInv, UNCHANGED own_vars, UNCHANGED send_vars
                 PROVE  TxInv'
<1>1. TxType'
  BY DEF TxInv, TxType, own_vars, send_vars
<1>2. OwnInv'
  BY DEF TxInv, OwnInv, OneInterrupt, OneCompletion, TxOwnership, TxCompletionPending, own_vars
<1>3. Fetching' /\ InOrder' /\ Accounted'
  BY SendFrame DEF own_vars
<1> QED
  BY <1>1, <1>2, <1>3 DEF TxInv

\* The interrupt controller passes a completion on, from its toggle to its trigger.
LEMMA IntrTxInv == TxInv /\ IntrClk => TxInv'
<1> SUFFICES ASSUME TxInv, IntrClk PROVE TxInv'
  OBVIOUS
<1> USE DEF IntrClk, TimerFire, RaiseTimer, RaiseTx, RaiseRx, Raise, Free
<1>0. UNCHANGED send_vars /\ UNCHANGED <<tx_state, isr, id, tx_active, tx_intr_toggle>>
  BY DEF uart_vars, tx_vars, txd_vars, pdma_vars, isr_vars, task_vars, drv_vars, send_vars
<1>1. TxType'
  BY <1>0 DEF TxInv, TxType, Vectors, Bit, send_vars
<1>2. OwnInv'
  BY <1>0 DEF TxInv, TxType, OwnInv, OneInterrupt, OneCompletion, TxOwnership,
              TxCompletionPending, Bit, Vectors
<1>3. Fetching' /\ InOrder' /\ Accounted'
  BY <1>0, SendFrame
<1> QED
  BY <1>1, <1>2, <1>3 DEF TxInv

-----------------------------------------------------------------------------
(* The hardware.                                                           *)

\* The transmitter asks for the byte at tx_buf_curpos, or interrupts at the end.
LEMMA TxNextInv == ASSUME TxInv, TxClk, TxNext,
                          UNCHANGED <<intr_vars, isr_vars, task_vars, drv_vars>>
                   PROVE  TxInv'
<1> USE DEF TxClk, TxNext, intr_vars, isr_vars, task_vars, drv_vars, txd_vars, pdma_vars
<1>1. TxType'
  BY DEF Flip, Bit, TxInv, TxType, TxStates
<1>2. OwnInv'
  BY DEF Flip, Bit, TxInv, TxType, OwnInv, OneInterrupt, OneCompletion, TxOwnership,
                 TxCompletionPending
<1>3. Fetching'
  BY DEF Flip, Bit, TxInv, TxType, OwnInv, Fetching, Page
<1>4. UNCHANGED <<Unsent, tx_mem, tx_ring, wire, written, lost>>
  BY DEF TxInv, Fetching, Unsent, First, Limit, Sent
<1>5. InOrder' /\ Accounted'
  BY <1>4 DEF TxInv, InOrder, Accounted
<1> QED
  BY <1>1, <1>2, <1>3, <1>5 DEF TxInv

\* It hands the byte that was read to the shift register.
LEMMA TxFetchedInv == ASSUME TxInv, TxClk, TxFetched,
                             UNCHANGED <<intr_vars, isr_vars, task_vars, drv_vars>>
                      PROVE  TxInv'
<1> USE DEF TxClk, TxFetched, intr_vars, isr_vars, task_vars, drv_vars, txd_vars, pdma_vars
<1>1. TxType'
  BY DEF Flip, Bit, TxInv, TxType, TxStates
<1>2. OwnInv'
  BY DEF TxInv, TxType, OwnInv, OneInterrupt, OneCompletion, TxOwnership,
         TxCompletionPending
<1>3. txd_start = txd_start_ack /\ txd_start' # txd_start_ack'
  BY DEF Flip, Bit, TxInv, TxType, Fetching
<1>4. Fetching'
  BY <1>3 DEF TxInv, TxType, Fetching
<1>5. UNCHANGED <<Unsent, tx_mem, tx_ring, wire, written, lost>>
  BY <1>3 DEF Unsent, First, Limit, Sent
<1>6. InOrder' /\ Accounted'
  BY <1>5 DEF TxInv, InOrder, Accounted
<1> QED
  BY <1>1, <1>2, <1>4, <1>6 DEF TxInv

\* The byte is sent: on to the next one.
LEMMA TxSentInv == ASSUME TxInv, TxClk, TxSent,
                          UNCHANGED <<intr_vars, isr_vars, task_vars, drv_vars>>
                   PROVE  TxInv'
<1> USE DEF TxClk, TxSent, intr_vars, isr_vars, task_vars, drv_vars, txd_vars, pdma_vars
<1>0. /\ tx_buf_curpos \in Nat /\ tx_buf_len \in Nat /\ MaxLen \in Nat
      /\ tx_buf_curpos < tx_buf_len /\ tx_buf_len <= MaxLen
  BY UartAssumption DEF TxInv, TxType, Fetching, Page
<1>1. tx_buf_curpos' = tx_buf_curpos + 1
  BY <1>0 DEF NextPos
<1>2. TxType'
  BY <1>0, <1>1 DEF TxInv, TxType, TxStates, Page
<1>3. OwnInv'
  BY DEF TxInv, TxType, OwnInv, OneInterrupt, OneCompletion, TxOwnership,
         TxCompletionPending
<1>4. Fetching'
  BY <1>0, <1>1 DEF TxInv, TxType, Fetching, Page
<1>5. UNCHANGED <<Unsent, tx_mem, tx_ring, wire, written, lost>>
  BY <1>1 DEF Unsent, First, Limit, Sent
<1>6. InOrder' /\ Accounted'
  BY <1>5 DEF TxInv, InOrder, Accounted
<1> QED
  BY <1>2, <1>3, <1>4, <1>6 DEF TxInv

\* What the shift register sends: the first byte of the buffer not sent yet.
LEMMA TxdSends == ASSUME TxInv, TxdClk, txd_bitnr = 1
                  PROVE  /\ tx_buf_curpos \in Unsent /\ wire' = tx_mem[tx_buf_curpos]
                         /\ isr # "tx_set"
                         /\ First = tx_buf_curpos /\ Limit = tx_buf_len
<1>1. tx_state = "TX_TXD_WAIT" /\ tx_buf_curpos < tx_buf_len
  BY DEF TxInv, TxdClk, Fetching
<1>2. isr # "tx_set"
  BY <1>1 DEF TxInv, OwnInv, TxOwnership
<1>3. First = tx_buf_curpos /\ Limit = tx_buf_len
  BY <1>2 DEF TxdClk, First, Limit, Sent
<1> QED
  BY <1>1, <1>2, <1>3 DEF TxInv, TxType, TxdClk, Fetching, Unsent, Page

\* The shift register counts the bits and, with the last one, has sent the byte.
LEMMA TxdInv == ASSUME TxInv, TxdClk, UNCHANGED <<intr_vars, isr_vars, task_vars, drv_vars>>
                PROVE  TxInv'
<1> USE DEF TxdClk, intr_vars, isr_vars, task_vars, drv_vars, tx_vars, pdma_vars
<1>1. CASE txd_bitnr # 1
  <2>1. UNCHANGED own_vars /\ UNCHANGED send_vars
    BY <1>1 DEF own_vars, send_vars
  <2> QED
    BY <2>1, TxFrame
<1>2. CASE txd_bitnr = 1
  <2>1. wire' \in Nat /\ txd_start_ack' = txd_start
    BY <1>2 DEF Flip, Bit, TxInv, TxType
  <2>2. TxType'
    BY <2>1 DEF Flip, Bit, TxInv, TxType
  <2>3. OwnInv'
    BY DEF TxInv, OwnInv, OneInterrupt, OneCompletion, TxOwnership, TxCompletionPending
  <2>4. Fetching'
    BY <2>1 DEF TxInv, TxType, Fetching
  <2>5. /\ tx_buf_curpos \in Unsent /\ wire' = tx_mem[tx_buf_curpos]
        /\ First = tx_buf_curpos /\ Limit = tx_buf_len /\ isr # "tx_set"
    BY <1>2, TxdSends
  <2>6. /\ Unsent = tx_buf_curpos .. tx_buf_len - 1
        /\ Unsent' = tx_buf_curpos + 1 .. tx_buf_len - 1
    BY <2>1, <2>5 DEF TxInv, Fetching, Unsent, First, Limit, Sent
  <2>a. tx_buf_curpos \in Nat /\ tx_buf_len \in Nat /\ tx_buf_len <= MaxLen /\ MaxLen \in Nat
    BY UartAssumption DEF TxInv, TxType, Page
  <2>7. /\ \A i \in Unsent' : i \in Unsent /\ tx_buf_curpos < i
        /\ \A i \in Unsent : i = tx_buf_curpos \/ i \in Unsent'
    BY <2>a, <2>6
  <2>8. \A i \in Unsent : tx_mem[i] \in Nat
    BY <2>a, <2>5 DEF TxInv, TxType, Unsent, Page
  <2>9. \A k \in 1 .. Len(tx_ring) : tx_ring[k] \in Nat
    BY DEF TxInv, TxType
  <2>10. InOrder'
    BY <2>5, <2>7, <2>8, <2>9, Zenon DEF TxInv, TxType, InOrder
  <2>11. Accounted'
    <3>1. SUFFICES ASSUME NEW b \in wire' + 1 .. written
                   PROVE  \/ b \in lost
                          \/ \E i \in Unsent' : tx_mem[i] = b
                          \/ \E k \in 1 .. Len(tx_ring) : tx_ring[k] = b
      BY DEF Accounted
    <3>2. b \in wire + 1 .. written /\ b # wire'
      BY <2>1, <2>5, <2>8 DEF TxInv, TxType, InOrder
    <3> QED
      BY <3>2, <2>5, <2>7 DEF TxInv, Accounted
  <2> QED
    BY <2>2, <2>3, <2>4, <2>10, <2>11 DEF TxInv
<1> QED
  BY <1>1, <1>2

\* The DMA reads the byte it was asked for.
LEMMA PdmaTxInv == ASSUME TxInv, PdmaClk, UNCHANGED <<intr_vars, isr_vars, task_vars, drv_vars>>
                   PROVE  TxInv'
<1> USE DEF PdmaClk, PdmaTake, PdmaRead, PdmaWrite, intr_vars, isr_vars, task_vars, drv_vars,
            tx_vars, txd_vars
<1>1. TxType'
  BY DEF Flip, Bit, TxInv, TxType
<1>2. OwnInv'
  BY DEF TxInv, OwnInv, OneInterrupt, OneCompletion, TxOwnership, TxCompletionPending
<1>3. Fetching'
  BY Zenon DEF Flip, Bit, TxInv, TxType, Fetching
<1>4. UNCHANGED <<Unsent, tx_mem, tx_ring, wire, written, lost>>
  BY DEF Unsent, First, Limit, Sent
<1>5. InOrder' /\ Accounted'
  BY <1>4, Zenon DEF TxInv, InOrder, Accounted
<1> QED
  BY <1>1, <1>2, <1>3, <1>5 DEF TxInv

-----------------------------------------------------------------------------
(* The handlers.                                                           *)

\* An interrupt is taken: a completion passes from the trigger to the handler.
LEMMA EnterTxInv == ASSUME TxInv, Enter, UNCHANGED task_vars PROVE TxInv'
<1> USE DEF Enter, task_vars, uart_vars, tx_vars, txd_vars, pdma_vars, drv_vars
<1>0. UNCHANGED send_vars /\ UNCHANGED tx_state /\ isr' # "tx_set"
  BY DEF send_vars
<1>1. TxType'
  BY DEF TxInv, TxType, Bit
<1>2. OwnInv'
  BY DEF TxInv, TxType, OwnInv, OneInterrupt, OneCompletion, TxOwnership,
         TxCompletionPending
<1>3. Fetching' /\ InOrder' /\ Accounted'
  BY <1>0, SendFrame
<1> QED
  BY <1>1, <1>2, <1>3 DEF TxInv

\* The steps of a handler that do not concern the sending side.
LEMMA OtherHandlerTxInv ==
  ASSUME TxInv, UNCHANGED task_vars,
         Return \/ RxPos \/ RxCopy \/ RxNothing \/ RxRearm \/ TimerRestart
  PROVE  TxInv'
<1> USE DEF Return, RxPos, RxCopy, RxNothing, RxRearm, TimerRestart, AfterCopy, SetTimer,
            task_vars, uart_vars, tx_vars, txd_vars, pdma_vars, drv_vars, intr_vars
<1>0. /\ UNCHANGED send_vars
      /\ UNCHANGED <<tx_state, tx_active, tx_intr_toggle, tx_toggle_ack, intr_trigger, intr_vec, id>>
      /\ intr_frozen' \in Bit
      /\ isr \notin {"none", "tx_set", "tx_take"} /\ isr' # "tx_set"
      /\ isr' = "tx_take" => id # "UART0_TX"
      /\ IF isr' = "none" THEN intr_frozen' = 0 ELSE intr_frozen' = intr_frozen
  BY Zenon DEF send_vars, Bit, TxInv, TxType
<1> HIDE DEF Return, RxPos, RxCopy, RxNothing, RxRearm, TimerRestart
<1>1. TxType'
  BY <1>0 DEF TxInv, TxType, send_vars
<1>2. OwnInv'
  BY <1>0 DEF TxInv, TxType, OwnInv, OneInterrupt, OneCompletion, TxOwnership,
              TxCompletionPending
<1>3. Fetching' /\ InOrder' /\ Accounted'
  BY <1>0, SendFrame
<1> QED
  BY <1>1, <1>2, <1>3 DEF TxInv

\* process_tx_data finds nothing to send, or the buffer in use.
LEMMA TxNothingInv == ASSUME TxInv, TxNothing, UNCHANGED task_vars PROVE TxInv'
<1> USE DEF TxNothing, AfterTx, ActiveNow, task_vars, uart_vars, tx_vars, txd_vars, pdma_vars,
            intr_vars
<1>0. UNCHANGED send_vars /\ UNCHANGED tx_state /\ isr # "tx_set" /\ isr' # "tx_set"
  BY DEF send_vars
<1>1. TxType'
  BY Zenon DEF TxInv, TxType, Bit
<1>2. OwnInv'
  BY DEF TxInv, TxType, OwnInv, OneInterrupt, OneCompletion, TxOwnership,
         TxCompletionPending
<1>3. Fetching' /\ InOrder' /\ Accounted'
  BY <1>0, SendFrame
<1> QED
  BY <1>1, <1>2, <1>3 DEF TxInv

\* It consumes bytes of the ring: the buffer is free, and they go into it in the
\* order in which they were written.
LEMMA TxTakeInv == ASSUME TxInv, TxTake, UNCHANGED task_vars PROVE TxInv'
<1> USE DEF task_vars
<1> DEFINE n == IF Len(tx_ring) <= MaxLen THEN Len(tx_ring) ELSE MaxLen
<1>1. /\ isr = "tx_take" /\ isr' = "tx_set" /\ tx_active' = 0 /\ x' = n
      /\ tx_ring' = SubSeq(tx_ring, n + 1, Len(tx_ring))
      /\ tx_mem' = [i \in Page |-> IF i < n THEN tx_ring[i + 1] ELSE tx_mem[i]]
      /\ UNCHANGED <<tx_state, tx_buf_len, tx_buf_curpos, tx_intr_toggle, txd_start, txd_byte,
                     read, read_addr, txd_start_ack, wire, read_ack, read_data, mem_state,
                     tx_toggle_ack, intr_trigger, intr_frozen, intr_vec, id, written, lost>>
  BY Zenon DEF TxTake, MayTake, ActiveNow, tx_vars, txd_vars, pdma_vars, intr_vars, TxInv, TxType, Bit
<1>2. tx_state = "TX_IDLE" /\ OwnInv'
  BY <1>1, Zenon DEF TxTake, MayTake, TxInv, TxType, OwnInv, OneInterrupt, OneCompletion, TxOwnership,
              TxCompletionPending, Bit
<1>3. /\ MaxLen \in Nat /\ Len(tx_ring) \in Nat /\ n \in Nat /\ n <= MaxLen /\ n <= Len(tx_ring)
      /\ \A k \in 1 .. Len(tx_ring) : tx_ring[k] \in Nat
  BY UartAssumption DEF TxInv, TxType
<1>4. /\ tx_ring' \in Seq(Nat) /\ Len(tx_ring') = Len(tx_ring) - n
      /\ \A k \in 1 .. Len(tx_ring') : tx_ring'[k] = tx_ring[n + k] /\ n + k \in 1 .. Len(tx_ring)
  <2>0. tx_ring \in Seq(Nat)
    BY DEF TxInv, TxType
  <2> HIDE DEF n
  <2>1. n + 1 \in 1 .. Len(tx_ring) + 1
    BY <1>3
  <2>2. tx_ring' = [k \in 1 .. Len(tx_ring) - n |-> tx_ring[n + k]]
    BY <1>1, <1>3, <2>0, <2>1
  <2>3. tx_ring' \in Seq(Nat)
    BY <1>1, <1>3, <2>0, <2>1
  <2>4. Len(tx_ring') = Len(tx_ring) - n
    BY <1>3, <2>2, <2>3
  <2> QED
    BY <1>3, <2>2, <2>3, <2>4
<1>5. /\ Unsent' = 0 .. n - 1
      /\ \A i \in Unsent' : tx_mem'[i] = tx_ring[i + 1] /\ i + 1 \in 1 .. Len(tx_ring)
  BY <1>1, <1>3 DEF Unsent, First, Limit, Page
<1> HIDE DEF n
<1>6. TxType'
  <2>1. tx_mem' \in [Page -> Nat]
    BY <1>1, <1>3 DEF TxInv, TxType, Page
  <2>2. x' \in Page /\ tx_active' \in Bit
    BY <1>1, <1>3 DEF Page, Bit
  <2> QED
    BY <1>1, <1>4, <2>1, <2>2, Zenon DEF TxInv, TxType
<1>7. Fetching'
  BY <1>1, <1>2, Zenon DEF TxInv, Fetching
<1>8. InOrder'
  <2>1. /\ \A k \in 1 .. Len(tx_ring) : wire < tx_ring[k] /\ tx_ring[k] <= written
        /\ \A k, l \in 1 .. Len(tx_ring) : k < l => tx_ring[k] < tx_ring[l]
    BY DEF TxInv, InOrder
  <2>2. \A i \in Unsent' : wire < tx_mem'[i] /\ tx_mem'[i] <= written
    BY <1>5, <2>1
  <2>3. \A i, j \in Unsent' : i < j => tx_mem'[i] < tx_mem'[j]
    BY <1>3, <1>5, <2>1
  <2>4. \A k \in 1 .. Len(tx_ring') : wire < tx_ring'[k] /\ tx_ring'[k] <= written
    BY <1>4, <2>1, Zenon
  <2>5. \A k, l \in 1 .. Len(tx_ring') : k < l => tx_ring'[k] < tx_ring'[l]
    <3>1. TAKE k, l \in 1 .. Len(tx_ring')
    <3>2. n + k \in 1 .. Len(tx_ring) /\ n + l \in 1 .. Len(tx_ring) /\ (k < l => n + k < n + l)
      BY <1>3, <1>4
    <3> QED
      BY <1>4, <2>1, <3>2, Zenon
  <2>6. \A i \in Unsent', k \in 1 .. Len(tx_ring') : tx_mem'[i] < tx_ring'[k]
    <3>1. TAKE i \in Unsent', k \in 1 .. Len(tx_ring')
    <3>2. i + 1 \in 1 .. Len(tx_ring) /\ n + k \in 1 .. Len(tx_ring) /\ i + 1 < n + k
      BY <1>3, <1>4, <1>5
    <3> QED
      BY <1>4, <1>5, <2>1, <3>2, Zenon
  <2> QED
    BY <1>1, <2>2, <2>3, <2>4, <2>5, <2>6, Zenon DEF TxInv, InOrder
<1>9. Accounted'
  <2>1. SUFFICES ASSUME NEW b \in wire + 1 .. written
                 PROVE  \/ b \in lost
                        \/ \E i \in Unsent' : tx_mem'[i] = b
                        \/ \E k \in 1 .. Len(tx_ring') : tx_ring'[k] = b
    BY <1>1, Zenon DEF Accounted
  <2>2. Unsent = {}
    BY <1>1, <1>2 DEF TxInv, TxType, Fetching, Unsent, First, Limit, Sent, Page
  <2>3. CASE b \in lost
    BY <2>3
  <2>4. ASSUME NEW k \in 1 .. Len(tx_ring), tx_ring[k] = b
        PROVE  \/ \E i \in Unsent' : tx_mem'[i] = b
               \/ \E l \in 1 .. Len(tx_ring') : tx_ring'[l] = b
    <3>1. CASE k <= n
      <4>1. k - 1 \in Unsent' /\ tx_mem'[k - 1] = b
        BY <1>3, <1>5, <2>4, <3>1
      <4> QED
        BY <4>1
    <3>2. CASE k > n
      <4>1. k - n \in 1 .. Len(tx_ring') /\ tx_ring'[k - n] = b
        BY <1>3, <1>4, <2>4, <3>2
      <4> QED
        BY <4>1
    <3> QED
      BY <1>3, <3>1, <3>2
  <2> QED
    BY <2>1, <2>2, <2>3, <2>4 DEF TxInv, Accounted
<1> QED
  BY <1>2, <1>6, <1>7, <1>8, <1>9 DEF TxInv

\* The bytes are handed to the transmitter, which is idle, or given up.
LEMMA TxSetInv == ASSUME TxInv, TxSet, UNCHANGED task_vars PROVE TxInv'
<1> USE DEF task_vars
<1>1. /\ isr = "tx_set" /\ isr' \in {"timer", "return"}
      /\ tx_active = 0 /\ tx_state = "TX_IDLE"
      /\ txd_start = txd_start_ack /\ read = read_ack /\ mem_state # "READ"
  BY DEF TxSet, AfterTx, TxInv, TxType, OwnInv, TxOwnership, Fetching
<1>2. UNCHANGED <<tx_intr_toggle, txd_start, txd_byte, read, read_addr, txd_start_ack, wire,
                  read_ack, read_data, mem_state, tx_toggle_ack, intr_trigger, intr_frozen,
                  intr_vec, id, x, written, tx_mem, tx_ring>>
  BY Zenon DEF TxSet, SetTx, tx_vars, txd_vars, pdma_vars, intr_vars
<1>3. /\ MaxLen \in Nat /\ x \in Nat /\ x <= MaxLen /\ Unsent = 0 .. x - 1
      /\ tx_buf_len \in Nat /\ tx_buf_curpos = tx_buf_len
  BY <1>1, UartAssumption DEF TxInv, TxType, Fetching, Unsent, First, Limit, Page
<1>4. CASE engine_on = 1
  <2>1. /\ tx_active' = 1 /\ tx_state' = "TX_RUNNING" /\ tx_buf_len' = x /\ tx_buf_curpos' = 0
        /\ lost' = lost
    BY <1>1, <1>4, Zenon DEF TxSet, SetTx
  <2>2. Unsent' = Unsent
    BY <1>1, <1>2, <1>3, <2>1, Zenon DEF Unsent, First, Limit, Sent
  <2>3. TxType'
    BY <1>1, <1>2, <1>3, <2>1 DEF TxInv, TxType, TxStates, Bit, Page
  <2>4. OwnInv'
    BY <1>1, <1>2, <2>1 DEF TxInv, OwnInv, OneInterrupt, OneCompletion, TxOwnership,
                            TxCompletionPending
  <2>5. Fetching'
    BY <1>1, <1>2, <1>3, <2>1 DEF TxInv, Fetching
  <2>6. InOrder' /\ Accounted'
    BY <1>2, <2>1, <2>2, Zenon DEF TxInv, InOrder, Accounted
  <2> QED
    BY <2>3, <2>4, <2>5, <2>6 DEF TxInv
<1>5. CASE engine_on # 1
  <2>1. /\ UNCHANGED <<tx_active, tx_state, tx_buf_len, tx_buf_curpos>>
        /\ lost' = lost \cup {tx_mem[i] : i \in 0 .. x - 1}
    BY <1>5, Zenon DEF TxSet, tx_vars
  <2>2. Unsent' = {}
    BY <1>1, <1>2, <1>3, <2>1 DEF Unsent, First, Limit, Sent
  <2>3. TxType'
    BY <1>2, <2>1, Zenon DEF TxInv, TxType
  <2>4. OwnInv'
    BY <1>1, <1>2, <2>1, Zenon DEF TxInv, OwnInv, OneInterrupt, OneCompletion, TxOwnership,
                            TxCompletionPending
  <2>5. Fetching'
    BY <1>1, <1>2, <2>1, Zenon DEF TxInv, Fetching
  <2>6. InOrder'
    BY <1>2, <2>2, Zenon DEF TxInv, InOrder
  <2>7. Accounted'
    BY <1>2, <1>3, <2>1, <2>2, Zenon DEF TxInv, Accounted
  <2> QED
    BY <2>3, <2>4, <2>5, <2>6, <2>7 DEF TxInv
<1> QED
  BY <1>4, <1>5, Zenon

-----------------------------------------------------------------------------
(* The task.                                                               *)

\* uart0_start_engine throws away what is in the ring.
LEMMA StartTxRingInv == ASSUME TxInv, StartTxRing, isr = "none" PROVE TxInv'
<1>1. /\ tx_ring' = <<>> /\ lost' = lost \cup Range(tx_ring) /\ UNCHANGED own_vars
      /\ UNCHANGED <<txd_start, txd_start_ack, txd_byte, read, read_ack, read_addr, read_data,
                     mem_state, tx_buf_len, tx_buf_curpos, x, tx_mem, written, wire>>
  BY Zenon DEF StartTxRing, own_vars, isr_vars, uart_vars, tx_vars, txd_vars, pdma_vars, intr_vars
<1>2. TxType'
  BY <1>1 DEF TxInv, TxType, own_vars
<1>3. OwnInv'
  BY <1>1, Zenon DEF TxInv, OwnInv, OneInterrupt, OneCompletion, TxOwnership, TxCompletionPending,
              own_vars
<1>4. Fetching'
  BY <1>1, Zenon DEF TxInv, Fetching, own_vars
<1>5. Unsent' = Unsent /\ Len(tx_ring') = 0
  BY <1>1, Zenon DEF Unsent, First, Limit, Sent, own_vars
<1>6. InOrder'
  BY <1>1, <1>5 DEF TxInv, InOrder
<1>7. \A k \in 1 .. Len(tx_ring) : tx_ring[k] \in lost'
  BY <1>1 DEF TxInv, TxType, Range
<1>8. Accounted'
  BY <1>1, <1>5, <1>7 DEF TxInv, Accounted
<1> QED
  BY <1>2, <1>3, <1>4, <1>6, <1>8 DEF TxInv

\* uart0_blocking_write appends the next byte to the ring.
LEMMA WriteTxInv == ASSUME TxInv, Write PROVE TxInv'
<1>1. /\ written' = written + 1 /\ tx_ring' = Append(tx_ring, written + 1)
      /\ UNCHANGED own_vars
      /\ UNCHANGED <<txd_start, txd_start_ack, txd_byte, read, read_ack, read_addr, read_data,
                     mem_state, tx_buf_len, tx_buf_curpos, x, tx_mem, wire, lost>>
  BY Zenon DEF Write, own_vars, isr_vars, uart_vars, tx_vars, txd_vars, pdma_vars, intr_vars
<1>2. tx_ring \in Seq(Nat) /\ written \in Nat /\ wire \in Nat /\ Len(tx_ring) \in Nat
  BY DEF TxInv, TxType
<1>3. /\ tx_ring' \in Seq(Nat) /\ Len(tx_ring') = Len(tx_ring) + 1
      /\ tx_ring'[Len(tx_ring) + 1] = written + 1
      /\ \A k \in 1 .. Len(tx_ring) : tx_ring'[k] = tx_ring[k] /\ tx_ring[k] \in Nat
  BY <1>1, <1>2
<1>4. \A k \in 1 .. Len(tx_ring') : k = Len(tx_ring) + 1 \/ k \in 1 .. Len(tx_ring)
  BY <1>2, <1>3
<1>5. TxType'
  BY <1>1, <1>2, <1>3 DEF TxInv, TxType, own_vars
<1>6. OwnInv'
  BY <1>1, Zenon DEF TxInv, OwnInv, OneInterrupt, OneCompletion, TxOwnership, TxCompletionPending,
              own_vars
<1>7. Fetching'
  BY <1>1, Zenon DEF TxInv, Fetching, own_vars
<1>8. /\ Unsent' = Unsent
      /\ \A i \in Unsent : tx_mem[i] \in Nat
  BY <1>1, UartAssumption DEF Unsent, First, Limit, Sent, own_vars, TxInv, TxType, Page
<1>9. InOrder'
  <2>0. wire <= written /\ wire < written + 1
    BY <1>2 DEF TxInv, InOrder
  <2>1. \A i \in Unsent : wire < tx_mem[i] /\ tx_mem[i] <= written + 1
    BY <1>2, <1>8 DEF TxInv, InOrder
  <2>2. \A k \in 1 .. Len(tx_ring) : wire < tx_ring'[k] /\ tx_ring'[k] < written + 1
    <3>1. \A k \in 1 .. Len(tx_ring) : wire < tx_ring[k] /\ tx_ring[k] <= written
      BY DEF TxInv, InOrder
    <3>2. TAKE k \in 1 .. Len(tx_ring)
    <3>3. tx_ring[k] \in Nat /\ tx_ring[k] < written + 1
      BY <1>2, <1>3, <3>1
    <3> QED
      BY <1>3, <3>1, <3>3
  <2>3. \A k \in 1 .. Len(tx_ring') : wire < tx_ring'[k] /\ tx_ring'[k] <= written + 1
    BY <1>2, <1>3, <1>4, <2>0, <2>2
  <2>4. \A k, l \in 1 .. Len(tx_ring') : k < l => tx_ring'[k] < tx_ring'[l]
    <3>1. TAKE k, l \in 1 .. Len(tx_ring')
    <3>2. HAVE k < l
    <3>3. k \in 1 .. Len(tx_ring)
      BY <1>2, <1>3, <1>4, <3>2
    <3>4. CASE l = Len(tx_ring) + 1
      BY <1>3, <2>2, <3>3, <3>4
    <3>5. CASE l \in 1 .. Len(tx_ring)
      BY <1>3, <3>2, <3>3, <3>5 DEF TxInv, InOrder
    <3> QED
      BY <1>4, <3>4, <3>5
  <2>5. \A i \in Unsent, k \in 1 .. Len(tx_ring') : tx_mem[i] < tx_ring'[k]
    <3>1. TAKE i \in Unsent, k \in 1 .. Len(tx_ring')
    <3>2. CASE k = Len(tx_ring) + 1
      <4>1. tx_mem[i] \in Nat /\ tx_mem[i] <= written
        BY <1>8 DEF TxInv, InOrder
      <4> QED
        BY <1>2, <1>3, <3>2, <4>1
    <3>3. CASE k \in 1 .. Len(tx_ring)
      BY <1>3, <3>3, Zenon DEF TxInv, InOrder
    <3> QED
      BY <1>4, <3>2, <3>3
  <2>6. \A i, j \in Unsent : i < j => tx_mem[i] < tx_mem[j]
    BY DEF TxInv, InOrder
  <2>7. wire <= written + 1
    BY <1>2, <2>0
  <2> QED
    BY <1>1, <1>8, <2>1, <2>3, <2>4, <2>5, <2>6, <2>7, Zenon DEF InOrder
<1>10. Accounted'
  <2>1. SUFFICES ASSUME NEW b \in wire + 1 .. written + 1
                 PROVE  \/ b \in lost
                        \/ \E i \in Unsent : tx_mem[i] = b
                        \/ \E k \in 1 .. Len(tx_ring') : tx_ring'[k] = b
    BY <1>1, <1>8, Zenon DEF Accounted
  <2>2. CASE b = written + 1
    BY <1>2, <1>3, <2>2
  <2>3. CASE b \in wire + 1 .. written
    <3>1. \/ b \in lost
          \/ \E i \in Unsent : tx_mem[i] = b
          \/ \E k \in 1 .. Len(tx_ring) : tx_ring[k] = b
      BY <2>3, Zenon DEF TxInv, Accounted
    <3>2. \A k \in 1 .. Len(tx_ring) : k \in 1 .. Len(tx_ring') /\ tx_ring'[k] = tx_ring[k]
      BY <1>2, <1>3
    <3> QED
      BY <3>1, <3>2, Zenon
  <2> QED
    BY <1>2, <2>2, <2>3
<1> QED
  BY <1>5, <1>6, <1>7, <1>9, <1>10 DEF TxInv

\* The rest of uart0.c does not concern the sending side.
LEMMA OtherTaskTxInv ==
  ASSUME TxInv, \/ StartRxRing \/ StartFlags \/ StartLastpos \/ StartRx \/ StartTimer
                \/ StopFlags \/ StopRx \/ Read
  PROVE  TxInv'
<1>1. UNCHANGED own_vars /\ UNCHANGED send_vars
  BY Zenon DEF StartRxRing, StartFlags, StartLastpos, StartRx, StartTimer, StopFlags, StopRx, Read,
         TaskKeep, SetTimer, own_vars, send_vars, isr_vars, uart_vars, tx_vars, txd_vars,
         pdma_vars, intr_vars, drv_vars, task_vars
<1> QED
  BY <1>1, TxFrame

-----------------------------------------------------------------------------
\* Every step of the hardware, the interrupt controller, a handler or the task
\* keeps the invariant of the sending side.
LEMMA TxStep == TxInv /\ [Next]_vars => TxInv'
<1> SUFFICES ASSUME TxInv, [Next]_vars PROVE TxInv'
  OBVIOUS
<1>1. CASE Hardware
  <2>1. CASE RxClk
    <3>1. UNCHANGED own_vars /\ UNCHANGED send_vars
      BY <1>1, <2>1, Zenon DEF Hardware, RxClk, own_vars, send_vars, tx_vars, txd_vars, pdma_vars,
                        intr_vars, isr_vars, task_vars, drv_vars
    <3> QED
      BY <3>1, TxFrame
  <2>2. CASE TxClk
    <3>1. TxNext \/ TxFetched \/ TxSent
      BY <2>2 DEF TxClk
    <3> QED
      BY <1>1, <2>2, <3>1, TxNextInv, TxFetchedInv, TxSentInv DEF Hardware
  <2>3. CASE TxdClk
    BY <1>1, <2>3, TxdInv DEF Hardware
  <2>4. CASE PdmaClk
    BY <1>1, <2>4, PdmaTxInv DEF Hardware
  <2> QED
    BY <1>1, <2>1, <2>2, <2>3, <2>4 DEF Hardware
<1>2. CASE IntrClk
  BY <1>2, IntrTxInv
<1>3. CASE Software
  <2>1. CASE Handler
    BY <2>1, EnterTxInv, OtherHandlerTxInv, TxTakeInv, TxNothingInv, TxSetInv DEF Handler
  <2>2. CASE Task
    BY <2>2, StartTxRingInv, WriteTxInv, OtherTaskTxInv DEF Task, Starting
  <2> QED
    BY <1>3, <2>1, <2>2 DEF Software
<1>4. CASE UNCHANGED vars
  <2>1. UNCHANGED own_vars /\ UNCHANGED send_vars
    BY <1>4, Zenon DEF vars, own_vars, send_vars, uart_vars, tx_vars, txd_vars, pdma_vars,
                intr_vars, isr_vars, task_vars, drv_vars
  <2> QED
    BY <2>1, TxFrame
<1> QED
  BY <1>1, <1>2, <1>3, <1>4 DEF Next

\* The inductive invariant of the sending side holds throughout, whatever the
\* sizes of buffers and rings, however often the engine is stopped and started.
THEOREM TxInvariance == Spec => []TxInv
BY TxInit, TxStep, PTL DEF Spec

\* s_uart0_tx_active (interrupts.c) always tells who owns the transmit buffer: no
\* completion interrupt is lost or raised twice, whatever the timer does.
THEOREM OwnershipKept == Spec => []TxOwnership
<1>1. TxInv => TxOwnership
  BY DEF TxInv, OwnInv
<1> QED
  BY <1>1, TxInvariance, PTL

\* A byte leaves the transmitter.
LEMMA TransmitsInOrder ==
  ASSUME TxInv, [Next]_vars, txd_start_ack' # txd_start_ack
  PROVE  /\ wire' > wire
         /\ \A b \in wire + 1 .. wire' - 1 : b \in lost
<1>1. TxdClk /\ txd_bitnr = 1
  <2>1. UNCHANGED txd_vars => FALSE
    BY DEF txd_vars
  <2>2. ~UNCHANGED vars /\ ~UNCHANGED uart_vars
    BY <2>1 DEF vars, uart_vars
  <2>3. ~IntrClk
    BY <2>2 DEF IntrClk
  <2>4. ~Handler
    BY <2>1, <2>2, Zenon DEF Handler, Enter, Return, RxPos, RxCopy, RxNothing, RxRearm, TxTake,
                      TxNothing, TxSet, TimerRestart
  <2>5. ~Task
    BY <2>1, <2>2, Zenon DEF Task, Starting, StartTxRing, StartRxRing, StartFlags, StartLastpos,
                      StartRx, StartTimer, StopFlags, StopRx, Write, Read
  <2>6. Hardware /\ ~RxClk /\ ~TxClk /\ ~PdmaClk
    BY <2>1, <2>2, <2>3, <2>4, <2>5 DEF Next, Software, RxClk, TxClk, PdmaClk
  <2>7. TxdClk
    BY <2>6 DEF Hardware
  <2> QED
    BY <2>7, Zenon DEF TxdClk
<1>2. /\ tx_buf_curpos \in Unsent /\ wire' = tx_mem[tx_buf_curpos]
      /\ First = tx_buf_curpos /\ Limit = tx_buf_len
  BY <1>1, TxdSends
<1>3. /\ tx_buf_curpos \in Nat /\ tx_buf_len \in Nat /\ tx_buf_len <= MaxLen /\ MaxLen \in Nat
      /\ wire \in Nat /\ written \in Nat
  BY UartAssumption DEF TxInv, TxType, Page
<1>4. /\ \A i \in Unsent : tx_mem[i] \in Nat /\ (i = tx_buf_curpos \/ tx_buf_curpos < i)
      /\ \A k \in 1 .. Len(tx_ring) : tx_ring[k] \in Nat
  BY <1>2, <1>3 DEF TxInv, TxType, Unsent, Page
<1>5. PICK w \in Nat : w = wire'
  BY <1>2, <1>4
<1>6. wire < w /\ w <= written
  BY <1>2, <1>4, <1>5, Zenon DEF TxInv, InOrder
<1>7. ASSUME NEW b \in wire + 1 .. w - 1 PROVE b \in lost
  <2>1. b \in wire + 1 .. written
    BY <1>3, <1>6, <1>7
  <2>2. \A i \in Unsent : w <= tx_mem[i]
    BY <1>2, <1>4, <1>5 DEF TxInv, InOrder
  <2>3. \A k \in 1 .. Len(tx_ring) : w < tx_ring[k]
    BY <1>2, <1>5, Zenon DEF TxInv, InOrder
  <2>4. /\ \A i \in Unsent : tx_mem[i] # b
        /\ \A k \in 1 .. Len(tx_ring) : tx_ring[k] # b
    BY <1>3, <1>4, <1>7, <2>2, <2>3
  <2> QED
    BY <2>1, <2>4 DEF TxInv, Accounted
<1> QED
  BY <1>3, <1>5, <1>6, <1>7, Zenon

\* The bytes the task writes leave the transmitter once each and in order, and
\* every byte left out was given up by uart0_start_engine or by process_tx_data
\* with the engine stopped.
THEOREM SendsInOrder == Spec => TxInOrder
<1>1. TxInv /\ [Next]_vars =>
        [txd_start_ack' # txd_start_ack =>
           /\ wire' > wire
           /\ \A b \in wire + 1 .. wire' - 1 : b \in lost]_vars
  BY TransmitsInOrder
<1> QED
  BY <1>1, TxInvariance, PTL DEF Spec, TxInOrder
=============================================================================
