--------------------------------- MODULE Uart ---------------------------------
(***************************************************************************)
(* The UART (csr_uart_rs232.vhd) and the DMA that moves its bytes          *)
(* (periph_dma.vhd).  Receiver, transmitter and DMA step independently: in *)
(* the source they are clocked together, but each reads the others only    *)
(* through toggles, so every common step is some order of theirs.          *)
(* Sampling and shifting of bits are abstracted to frames.  Bytes are      *)
(* numbered in the order of their arrival, or of the task's writes.        *)
(*                                                                         *)
(* Positions have 8 bits and the largest buffer is 255: a page has MaxLen  *)
(* + 1 bytes.                                                              *)
(***************************************************************************)
EXTENDS Bits, FiniteSets

CONSTANTS MaxLen,    \* 255
          TxdBits,   \* steps of a transmitted frame: 9
          MaxIn      \* bound on the bytes that arrive

ASSUME UartAssumption == MaxLen \in Nat \ {0} /\ TxdBits \in Nat \ {0} /\ MaxIn \in Nat

Page == 0 .. MaxLen

VARIABLES
  rxd_state, rx_reset_curpos, rx_reset_curpos_ack, rx_buf_len, rx_buf_curpos,
  rx_intr_toggle,
  tx_state, tx_buf_len, tx_buf_curpos, tx_intr_toggle,
  txd_start, txd_start_ack, txd_bitnr, txd_byte,
  write, write_addr, write_data, write_ack,       \* pdma
  read, read_addr, read_data, read_ack, mem_state,
  rx_mem, tx_mem,     \* the driver's buffers in memory
  arrived,            \* history: bytes whose start bit was seen
  dropped,            \* history: those that were not delivered, for a known reason
  wire                \* history: the last byte transmitted

rx_vars == <<rxd_state, rx_reset_curpos_ack, rx_buf_curpos, rx_intr_toggle,
             write, write_addr, write_data, arrived>>
rx_csr == <<rx_reset_curpos, rx_buf_len>>
tx_vars == <<tx_state, tx_buf_len, tx_buf_curpos, tx_intr_toggle, txd_start,
             txd_byte, read, read_addr>>
txd_vars == <<txd_start_ack, txd_bitnr, wire>>
pdma_vars == <<write_ack, read_ack, read_data, mem_state>>
uart_vars == <<rx_vars, rx_csr, tx_vars, txd_vars, pdma_vars, rx_mem, tx_mem, dropped>>

UartInit ==
  /\ rxd_state = "RXD_IDLE" /\ rx_reset_curpos = 0 /\ rx_reset_curpos_ack = 0
  /\ rx_buf_len = 0 /\ rx_buf_curpos = 0 /\ rx_intr_toggle = 0
  /\ tx_state = "TX_IDLE" /\ tx_buf_len = 0 /\ tx_buf_curpos = 0 /\ tx_intr_toggle = 0
  /\ txd_start = 0 /\ txd_start_ack = 0 /\ txd_bitnr = 0 /\ txd_byte = 0
  /\ write = 0 /\ write_addr = 0 /\ write_data = 0 /\ write_ack = 0
  /\ read = 0 /\ read_addr = 0 /\ read_data = 0 /\ read_ack = 0
  /\ mem_state = "MS_RUNNING"
  /\ rx_mem = [i \in Page |-> 0] /\ tx_mem = [i \in Page |-> 0]
  /\ arrived = 0 /\ dropped = {} /\ wire = 0

NextPos(p) == (p + 1) % (MaxLen + 1)

-----------------------------------------------------------------------------
(* The receiver.                                                           *)

ResetDue == rx_reset_curpos # rx_reset_curpos_ack

\* RXD_IDLE acknowledges a new buffer.
AckReset == /\ rx_reset_curpos_ack' = rx_reset_curpos
            /\ rx_buf_curpos' = IF ResetDue THEN 0 ELSE rx_buf_curpos

RxReset == /\ rxd_state = "RXD_IDLE" /\ ResetDue
           /\ AckReset
           /\ UNCHANGED <<rxd_state, rx_intr_toggle, write, write_addr, write_data,
                          arrived, dropped>>

RxStartBit == /\ rxd_state = "RXD_IDLE" /\ arrived < MaxIn
              /\ AckReset
              /\ rxd_state' = "RXD_RUNNING"
              /\ arrived' = arrived + 1
              /\ UNCHANGED <<rx_intr_toggle, write, write_addr, write_data, dropped>>

RxBits == /\ rxd_state = "RXD_RUNNING"
          /\ rxd_state' = "RXD_CHECK_STOPBIT"
          /\ UNCHANGED <<rx_reset_curpos_ack, rx_buf_curpos, rx_intr_toggle, write,
                         write_addr, write_data, arrived, dropped>>

\* The stop bit is good: the byte goes to memory if the buffer has room, to the
\* start of the buffer if it is a new one.
RxStopBit ==
  LET at == IF ResetDue THEN 0 ELSE rx_buf_curpos
      next == IF ResetDue THEN 1 ELSE NextPos(rx_buf_curpos)
  IN /\ rxd_state = "RXD_CHECK_STOPBIT"
     /\ rx_reset_curpos_ack' = rx_reset_curpos
     /\ write_data' = arrived /\ write_addr' = at
     /\ IF at # rx_buf_len
        THEN /\ rx_buf_curpos' = next
             /\ write' = Flip(write)
             /\ rxd_state' = "RXD_MEM_WAIT"
             /\ UNCHANGED dropped
        ELSE /\ rx_buf_curpos' = at
             /\ rxd_state' = "RXD_IDLE"
             /\ dropped' = dropped \cup {arrived}
             /\ UNCHANGED write
     /\ UNCHANGED <<rx_intr_toggle, arrived>>

RxBadStopBit == /\ rxd_state = "RXD_CHECK_STOPBIT"
                /\ rxd_state' = "RXD_WAIT_STOPBIT"
                /\ dropped' = dropped \cup {arrived}
                /\ UNCHANGED <<rx_reset_curpos_ack, rx_buf_curpos, rx_intr_toggle,
                               write, write_addr, write_data, arrived>>

RxResync == /\ rxd_state = "RXD_WAIT_STOPBIT"
            /\ rxd_state' = "RXD_IDLE"
            /\ UNCHANGED <<rx_reset_curpos_ack, rx_buf_curpos, rx_intr_toggle, write,
                           write_addr, write_data, arrived, dropped>>

\* The DMA is done; the last byte of the buffer raises the interrupt.
BufferFull == rx_buf_curpos = rx_buf_len
RxMemDone == /\ rxd_state = "RXD_MEM_WAIT" /\ write = write_ack
             /\ rx_intr_toggle' = IF BufferFull THEN Flip(rx_intr_toggle) ELSE rx_intr_toggle
             /\ rxd_state' = "RXD_IDLE"
             /\ UNCHANGED <<rx_reset_curpos_ack, rx_buf_curpos, write, write_addr,
                            write_data, arrived, dropped>>

RxClk == /\ \/ RxReset \/ RxStartBit \/ RxBits \/ RxStopBit \/ RxBadStopBit
            \/ RxResync \/ RxMemDone
         /\ UNCHANGED <<rx_csr, tx_vars, txd_vars, pdma_vars, rx_mem, tx_mem>>

-----------------------------------------------------------------------------
(* The transmitter and its shift register.                                 *)

TxNext == /\ tx_state = "TX_RUNNING"
          /\ IF tx_buf_curpos # tx_buf_len
             THEN /\ read_addr' = tx_buf_curpos
                  /\ read' = Flip(read)
                  /\ tx_state' = "TX_READMEM_WAIT"
                  /\ UNCHANGED tx_intr_toggle
             ELSE /\ tx_intr_toggle' = Flip(tx_intr_toggle)
                  /\ tx_state' = "TX_IDLE"
                  /\ UNCHANGED <<read_addr, read>>
          /\ UNCHANGED <<tx_buf_len, tx_buf_curpos, txd_start, txd_byte>>

TxFetched == /\ tx_state = "TX_READMEM_WAIT" /\ read = read_ack
             /\ txd_start' = Flip(txd_start)
             /\ txd_byte' = read_data
             /\ tx_state' = "TX_TXD_WAIT"
             /\ UNCHANGED <<tx_buf_len, tx_buf_curpos, tx_intr_toggle, read, read_addr>>

TxSent == /\ tx_state = "TX_TXD_WAIT" /\ txd_start = txd_start_ack
          /\ tx_state' = "TX_RUNNING"
          /\ tx_buf_curpos' = NextPos(tx_buf_curpos)
          /\ UNCHANGED <<tx_buf_len, tx_intr_toggle, txd_start, txd_byte, read, read_addr>>

TxClk == /\ TxNext \/ TxFetched \/ TxSent
         /\ UNCHANGED <<rx_vars, rx_csr, txd_vars, pdma_vars, rx_mem, tx_mem, dropped>>

\* Runs on tx_clk.  The frame is over, and acknowledged, with bit 1.
TxdClk == /\ txd_start # txd_start_ack
          /\ txd_bitnr' = IF txd_bitnr = 0 THEN TxdBits ELSE txd_bitnr - 1
          /\ IF txd_bitnr = 1 THEN txd_start_ack' = Flip(txd_start_ack) /\ wire' = txd_byte
             ELSE UNCHANGED <<txd_start_ack, wire>>
          /\ UNCHANGED <<rx_vars, rx_csr, tx_vars, pdma_vars, rx_mem, tx_mem, dropped>>

-----------------------------------------------------------------------------
(* The DMA: MS_RUNNING takes a read before a write, MS_WAIT is left when   *)
(* the memory has performed the access.                                    *)

PdmaTake == /\ mem_state = "MS_RUNNING"
            /\ read # read_ack \/ write # write_ack
            /\ mem_state' = IF read # read_ack THEN "READ" ELSE "WRITE"
            /\ UNCHANGED <<write_ack, read_ack, read_data, rx_mem>>

PdmaRead == /\ mem_state = "READ"
            /\ read_ack' = Flip(read_ack)
            /\ read_data' = tx_mem[read_addr]
            /\ mem_state' = "MS_RUNNING"
            /\ UNCHANGED <<write_ack, rx_mem>>

PdmaWrite == /\ mem_state = "WRITE"
             /\ write_ack' = Flip(write_ack)
             /\ rx_mem' = [rx_mem EXCEPT ![write_addr] = write_data]
             /\ mem_state' = "MS_RUNNING"
             /\ UNCHANGED <<read_ack, read_data>>

PdmaClk == /\ PdmaTake \/ PdmaRead \/ PdmaWrite
           /\ UNCHANGED <<rx_vars, rx_csr, tx_vars, txd_vars, tx_mem, dropped>>

-----------------------------------------------------------------------------
(* Writes to the control registers by a CSR instruction.                   *)

\* CSR_REG_UART0_RX
SetRx(len) == rx_buf_len' = len /\ rx_reset_curpos' = Flip(rx_reset_curpos)

\* CSR_REG_UART0_TX: ignored unless the transmitter is idle.
SetTx(len) == IF tx_state = "TX_IDLE"
              THEN /\ tx_buf_len' = len /\ tx_buf_curpos' = 0 /\ tx_state' = "TX_RUNNING"
                   /\ UNCHANGED <<tx_intr_toggle, txd_start, txd_byte, read, read_addr>>
              ELSE UNCHANGED tx_vars
=============================================================================
