------------------------------ MODULE UartDriver ------------------------------
(***************************************************************************)
(* The UART under its driver: the interrupt controller and the timer       *)
(* (intr_controller.vhd, csr_timer.vhd), the handlers of interrupts.c and  *)
(* a task that calls uart0.c.  A handler runs to its end before the task   *)
(* or another handler continues, but the hardware goes on between its      *)
(* steps, each of which has one access to a device register or a buffer.   *)
(*                                                                         *)
(* The rings are bounded queues (ConsProd implements BoundedFifo).  The    *)
(* data cache matters where the receiver's DMA writes behind it: rx_cache. *)
(***************************************************************************)
EXTENDS Uart, Sequences, Functions

CONSTANTS RingCap,     \* bytes a ring holds
          LineSize,    \* SUMERU_CACHE_LINE_SIZE
          MaxOut,      \* bound on the bytes the task writes
          MaxStarts    \* bound on the calls of uart0_start_engine

ASSUME DriverAssumption == /\ RingCap \in Nat \ {0} /\ LineSize \in Nat \ {0}
                           /\ MaxOut \in Nat /\ MaxStarts \in Nat

VARIABLES
  timer_enabled, timer_intr,             \* csr_timer
  intr_frozen, intr_trigger, intr_vec, tx_toggle_ack, rx_toggle_ack,
  task,                                  \* where the task is in uart0.c
  isr, id, pos, x,                       \* the handler: place, argument, locals
  engine_on, rx_lastpos, tx_active, tx_ring, rx_ring, rx_cache,
  starts, written,                       \* bounds: calls and bytes so far
  rx_seen,                               \* history: what went into rx_ring
  lost,                                  \* history: written, not to be sent
  window                                 \* history: timing windows that were hit

intr_vars == <<timer_enabled, timer_intr, intr_frozen, intr_trigger, intr_vec,
               tx_toggle_ack, rx_toggle_ack>>
isr_vars == <<isr, id, pos, x>>
task_vars == <<task, starts, written>>
drv_vars == <<engine_on, rx_lastpos, tx_active, tx_ring, rx_ring, rx_cache,
              rx_seen, lost, window>>
vars == <<uart_vars, intr_vars, isr_vars, task_vars, drv_vars>>

\* Definitions named X_<fault> are faults injected into X to validate the
\* properties; no specification uses them.

NotCached == -1

Init ==
  /\ UartInit
  /\ timer_enabled = 0 /\ timer_intr = 0 /\ intr_frozen = 0 /\ intr_trigger = 0
  /\ intr_vec = "TIMER" /\ tx_toggle_ack = 0 /\ rx_toggle_ack = 0
  /\ task = "run" /\ isr = "none" /\ id = "TIMER" /\ pos = 0 /\ x = 0
  /\ engine_on = 0 /\ rx_lastpos = 0 /\ tx_active = 0
  /\ tx_ring = <<>> /\ rx_ring = <<>> /\ rx_cache = [i \in Page |-> NotCached]
  /\ starts = 0 /\ written = 0 /\ rx_seen = <<>> /\ lost = {} /\ window = {}

-----------------------------------------------------------------------------
(* Timer and interrupt controller.                                         *)

\* The count starts again with timer_set, the timer handler's last statement
\* but the return: it cannot expire between the two.
TimerFire == /\ timer_enabled = 1 /\ timer_intr = 0
             /\ ~(isr = "return" /\ id = "TIMER")
             /\ timer_intr' = 1
             /\ UNCHANGED <<timer_enabled, intr_frozen, intr_trigger, intr_vec,
                            tx_toggle_ack, rx_toggle_ack>>

Free == intr_frozen = 0
Raise(vec) == /\ intr_frozen' = 1
              /\ intr_trigger' = 1
              /\ intr_vec' = vec
              /\ UNCHANGED <<timer_enabled, timer_intr>>

RaiseTimer == /\ Free /\ timer_intr = 1
              /\ Raise("TIMER")
              /\ UNCHANGED <<tx_toggle_ack, rx_toggle_ack>>

RaiseTx == /\ Free /\ timer_intr = 0
           /\ tx_toggle_ack # tx_intr_toggle
           /\ Raise("UART0_TX")
           /\ tx_toggle_ack' = tx_intr_toggle
           /\ UNCHANGED rx_toggle_ack

RaiseRx == /\ Free /\ timer_intr = 0
           /\ tx_toggle_ack = tx_intr_toggle /\ rx_toggle_ack # rx_intr_toggle
           /\ Raise("UART0_RX")
           /\ rx_toggle_ack' = rx_intr_toggle
           /\ UNCHANGED tx_toggle_ack

IntrClk == /\ TimerFire \/ RaiseTimer \/ RaiseTx \/ RaiseRx
           /\ UNCHANGED <<uart_vars, isr_vars, task_vars, drv_vars>>

\* timer_set: enables or disables the timer and withdraws its trigger.
SetTimer(on) == /\ timer_enabled' = on /\ timer_intr' = 0
                /\ UNCHANGED <<intr_frozen, intr_trigger, intr_vec, tx_toggle_ack,
                               rx_toggle_ack>>

-----------------------------------------------------------------------------
(* Entry to and return from handle_interrupt.                              *)

Enter == /\ isr = "none" /\ intr_trigger = 1
         /\ intr_trigger' = 0
         /\ id' = intr_vec
         /\ isr' = IF intr_vec = "UART0_TX" THEN "tx_take" ELSE "rx_pos"
         /\ UNCHANGED <<timer_enabled, timer_intr, intr_frozen, intr_vec,
                        tx_toggle_ack, rx_toggle_ack, pos, x, uart_vars, drv_vars>>

Return == /\ isr = "return"
          /\ isr' = "none"
          /\ intr_frozen' = 0
          /\ UNCHANGED <<timer_enabled, timer_intr, intr_trigger, intr_vec,
                         tx_toggle_ack, rx_toggle_ack, id, pos, x, uart_vars, drv_vars>>

-----------------------------------------------------------------------------
(* process_rx_data                                                         *)

\* The window "stale": the position is of the buffer before the one asked for.
RxPos == /\ isr = "rx_pos"
         /\ pos' = rx_buf_curpos
         /\ isr' = "rx_copy"
         /\ window' = IF ResetDue /\ rx_buf_curpos > rx_lastpos
                      THEN window \cup {"stale"} ELSE window
         /\ UNCHANGED <<id, x, uart_vars, intr_vars, engine_on, rx_lastpos, tx_active,
                        tx_ring, rx_ring, rx_cache, rx_seen, lost>>

\* flush_dcache_range: the addresses whose lines are dropped from the cache.
LineOf(i) == i \div LineSize
FlushRange_roundedUp(a, b) == {i \in Page : LineOf(i) * LineSize \in a .. b - 1}
FlushRange(a, b) == {i \in Page : \E j \in a .. b - 1 : LineOf(i) = LineOf(j)}

\* The cache after the flush and after loading the n bytes from a.
Flushed(a, b) == [i \in Page |-> IF i \in FlushRange(a, b) THEN NotCached ELSE rx_cache[i]]
Loaded(c, a, n) == [i \in Page |->
  IF c[i] = NotCached /\ \E j \in a .. a + n - 1 : LineOf(i) = LineOf(j)
  THEN rx_mem[i] ELSE c[i]]

\* What follows process_rx_data without its last part: the rest of the timer's
\* handler, or the new buffer.
AfterCopy == IF id = "TIMER" THEN "tx_take" ELSE "rx_rearm"

\* The window "early": the DMA of the last byte is not done.  The bytes the ring
\* has no room for are dropped.
RxCopy ==
  LET len == pos - rx_lastpos
      n == IF len <= RingCap - Len(rx_ring) THEN len ELSE RingCap - Len(rx_ring)
      c == Loaded(Flushed(rx_lastpos, pos), rx_lastpos, n)
      got == [i \in 1 .. n |-> c[rx_lastpos + i - 1]]
      over == {rx_mem[i] : i \in (rx_lastpos + n) .. (pos - 1)}
      early == write # write_ack /\ write_addr \in rx_lastpos .. pos - 1
      win == IF early THEN window \cup {"early"} ELSE window
  IN /\ isr = "rx_copy" /\ pos > rx_lastpos
     /\ rx_ring' = rx_ring \o got
     /\ rx_cache' = c
     /\ rx_lastpos' = pos
     /\ window' = win
     /\ rx_seen' = IF win = {} THEN rx_seen \o got ELSE rx_seen
     /\ dropped' = IF win = {} THEN dropped \cup over ELSE dropped
     /\ isr' = AfterCopy
     /\ UNCHANGED <<id, pos, x, rx_vars, rx_csr, tx_vars, txd_vars, pdma_vars, rx_mem,
                    tx_mem, intr_vars, engine_on, tx_active, tx_ring, lost>>

RxNothing == /\ isr = "rx_copy" /\ pos <= rx_lastpos
             /\ isr' = AfterCopy
             /\ UNCHANGED <<id, pos, x, uart_vars, intr_vars, drv_vars>>

RearmLen == IF engine_on = 1 THEN MaxLen ELSE 0
RearmPos == IF engine_on = 1 THEN 0 ELSE rx_lastpos
RxRearm == /\ isr = "rx_rearm"
           /\ rx_lastpos' = RearmPos
           /\ SetRx(RearmLen)
           /\ isr' = "return"
           /\ UNCHANGED <<id, pos, x, rx_vars, tx_vars, txd_vars, pdma_vars, rx_mem, tx_mem,
                          dropped, intr_vars, engine_on, tx_active, tx_ring, rx_ring,
                          rx_cache, rx_seen, lost, window>>

-----------------------------------------------------------------------------
(* process_tx_data                                                         *)

ActiveNow_kept == tx_active
ActiveNow == IF id = "UART0_TX" THEN 0 ELSE tx_active
MayTake_always == TRUE
MayTake == id = "UART0_TX" \/ tx_active = 0
AfterTx == IF id = "TIMER" THEN "timer" ELSE "return"

\* Up to 255 bytes are consumed, copied to the driver's buffer and flushed.
TxTake ==
  LET n == IF Len(tx_ring) <= MaxLen THEN Len(tx_ring) ELSE MaxLen
  IN /\ isr = "tx_take" /\ MayTake /\ tx_ring # <<>>
     /\ tx_active' = ActiveNow
     /\ x' = n
     /\ tx_ring' = SubSeq(tx_ring, n + 1, Len(tx_ring))
     /\ tx_mem' = [i \in Page |-> IF i < n THEN tx_ring[i + 1] ELSE tx_mem[i]]
     /\ isr' = "tx_set"
     /\ UNCHANGED <<id, pos, rx_vars, rx_csr, tx_vars, txd_vars, pdma_vars, rx_mem, dropped,
                    intr_vars, engine_on, rx_lastpos, rx_ring, rx_cache, rx_seen, lost, window>>

TxNothing == /\ isr = "tx_take" /\ (~MayTake \/ tx_ring = <<>>)
             /\ tx_active' = ActiveNow
             /\ isr' = AfterTx
             /\ UNCHANGED <<id, pos, x, uart_vars, intr_vars, engine_on, rx_lastpos, tx_ring,
                            rx_ring, rx_cache, rx_seen, lost, window>>

\* With the engine stopped the bytes just consumed are given up.
TxSet == /\ isr = "tx_set"
         /\ IF engine_on = 1
            THEN SetTx(x) /\ tx_active' = 1 /\ UNCHANGED lost
            ELSE /\ lost' = lost \cup {tx_mem[i] : i \in 0 .. x - 1}
                 /\ UNCHANGED <<tx_vars, tx_active>>
         /\ isr' = AfterTx
         /\ UNCHANGED <<id, pos, x, rx_vars, rx_csr, txd_vars, pdma_vars, rx_mem, tx_mem, dropped,
                        intr_vars, engine_on, rx_lastpos, tx_ring, rx_ring, rx_cache,
                        rx_seen, window>>

TimerAgain_off == 0
TimerAgain == engine_on
TimerRestart == /\ isr = "timer"
                /\ SetTimer(TimerAgain)
                /\ isr' = "return"
                /\ UNCHANGED <<id, pos, x, uart_vars, drv_vars>>

Handler == /\ \/ Enter \/ Return \/ RxPos \/ RxCopy \/ RxNothing \/ RxRearm
              \/ TxTake \/ TxNothing \/ TxSet \/ TimerRestart
           /\ UNCHANGED task_vars

-----------------------------------------------------------------------------
(* The task: uart0.c.  Interrupts come between any two of its steps.       *)

TaskKeep == UNCHANGED <<starts, written, isr_vars>>

StartTxRing == /\ task = "run" /\ engine_on = 0 /\ starts < MaxStarts
               /\ task' = "start_rx_ring"
               /\ starts' = starts + 1
               /\ lost' = lost \cup Range(tx_ring)
               /\ tx_ring' = <<>>
               /\ UNCHANGED <<written, isr_vars, uart_vars, intr_vars, engine_on, rx_lastpos,
                              tx_active, rx_ring, rx_cache, rx_seen, window>>

StartRxRing == /\ task = "start_rx_ring"
               /\ task' = "start_flags"
               /\ rx_ring' = <<>>
               /\ TaskKeep
               /\ UNCHANGED <<uart_vars, intr_vars, engine_on, rx_lastpos, tx_active, tx_ring,
                              rx_cache, rx_seen, lost, window>>

StartFlags == /\ task = "start_flags"
              /\ task' = "start_lastpos"
              /\ engine_on' = 1
              /\ TaskKeep
              /\ UNCHANGED <<uart_vars, intr_vars, rx_lastpos, tx_active, tx_ring, rx_ring,
                             rx_cache, rx_seen, lost, window>>

StartLastpos == /\ task = "start_lastpos"
                /\ task' = "start_rx"
                /\ rx_lastpos' = 0
                /\ TaskKeep
                /\ UNCHANGED <<uart_vars, intr_vars, engine_on, tx_active, tx_ring, rx_ring,
                               rx_cache, rx_seen, lost, window>>

StartRx == /\ task = "start_rx"
           /\ task' = "start_timer"
           /\ SetRx(MaxLen)
           /\ TaskKeep
           /\ UNCHANGED <<rx_vars, tx_vars, txd_vars, pdma_vars, rx_mem, tx_mem, dropped,
                          intr_vars, drv_vars>>

StartTimer == /\ task = "start_timer"
              /\ task' = "run"
              /\ SetTimer(1)
              /\ TaskKeep
              /\ UNCHANGED <<uart_vars, drv_vars>>

\* The model stops the engine only if it may start it again.
StopFlags == /\ task = "run" /\ engine_on = 1 /\ starts < MaxStarts
             /\ task' = "stop_rx"
             /\ engine_on' = 0
             /\ TaskKeep
             /\ UNCHANGED <<uart_vars, intr_vars, rx_lastpos, tx_active, tx_ring, rx_ring,
                            rx_cache, rx_seen, lost, window>>

StopRx == /\ task = "stop_rx"
          /\ task' = "run"
          /\ SetRx(0)
          /\ TaskKeep
          /\ UNCHANGED <<rx_vars, tx_vars, txd_vars, pdma_vars, rx_mem, tx_mem, dropped,
                         intr_vars, drv_vars>>

\* One byte of uart0_blocking_write, which waits for room, and of
\* uart0_blocking_read, which waits for data.
Write == /\ task = "run" /\ starts > 0 /\ written < MaxOut /\ Len(tx_ring) < RingCap
         /\ written' = written + 1
         /\ tx_ring' = Append(tx_ring, written + 1)
         /\ UNCHANGED <<task, starts, isr_vars, uart_vars, intr_vars, engine_on, rx_lastpos,
                        tx_active, rx_ring, rx_cache, rx_seen, lost, window>>

Read == /\ task = "run" /\ rx_ring # <<>>
        /\ rx_ring' = Tail(rx_ring)
        /\ UNCHANGED <<task_vars, isr_vars, uart_vars, intr_vars, engine_on, rx_lastpos,
                       tx_active, tx_ring, rx_cache, rx_seen, lost, window>>

Starting == StartTxRing \/ StartRxRing \/ StartFlags \/ StartLastpos \/ StartRx \/ StartTimer
Task == isr = "none" /\ (Starting \/ StopFlags \/ StopRx \/ Write \/ Read)

\* A receiver in RXD_IDLE acknowledges a new buffer at the next edge, before the
\* processor's next instruction.
Acknowledged == ~(rxd_state = "RXD_IDLE" /\ ResetDue)
Software == Acknowledged /\ (Handler \/ Task)

Hardware == /\ RxClk \/ TxClk \/ TxdClk \/ PdmaClk
            /\ UNCHANGED <<intr_vars, isr_vars, task_vars, drv_vars>>

Next == Hardware \/ IntrClk \/ Software

Spec == Init /\ [][Next]_vars

\* The clocks run and the processor executes its handlers.  A byte need not come
\* and a stop bit may be bad.  RaiseTx, RaiseRx: the timer counts from the end of
\* its handler, which leaves the controller free for a period.  Starting: handlers
\* return, and the task's next instruction is executed before the next one.
HwFair == /\ WF_vars(RxClk /\ rxd_state # "RXD_IDLE" /\ Hardware)
          /\ WF_vars(RxReset /\ Hardware)
          /\ WF_vars(TxClk /\ Hardware) /\ WF_vars(TxdClk /\ Hardware)
          /\ WF_vars(PdmaClk /\ Hardware)
Fairness == /\ HwFair
            /\ WF_vars(TimerFire /\ IntrClk) /\ WF_vars(RaiseTimer /\ IntrClk)
            /\ SF_vars(RaiseTx /\ IntrClk) /\ SF_vars(RaiseRx /\ IntrClk)
            /\ WF_vars(Acknowledged /\ Handler)
            /\ SF_vars(Software /\ Starting)
FairSpec == Spec /\ Fairness

-----------------------------------------------------------------------------
(* Properties.                                                             *)

TxCompletionPending == \/ tx_toggle_ack # tx_intr_toggle
                       \/ intr_trigger = 1 /\ intr_vec = "UART0_TX"
                       \/ isr = "tx_take" /\ id = "UART0_TX"

\* s_uart0_tx_active tells who owns the transmit buffer: it is set exactly while
\* the transmitter works on it or its completion interrupt is on its way, so the
\* interrupt is not lost and uart0_set_tx never meets a busy transmitter, which
\* would ignore it.
TxOwnership == tx_active = 1 <=> tx_state # "TX_IDLE" \/ TxCompletionPending

\* The transmitter sends the written bytes once each and in order; what it leaves
\* out was thrown away by uart0_start_engine or consumed with the engine stopped.
TxInOrder == [][txd_start_ack' # txd_start_ack =>
                  /\ wire' > wire
                  /\ \A b \in wire + 1 .. wire' - 1 : b \in lost]_vars

\* process_rx_data gives each received byte to the ring once and in order; what
\* is missing had a bad stop bit or found the buffer or the ring full.  Unless a
\* position is read in one of the two windows.  Of an engine started once: a stop
\* and a second start leave bytes in a buffer that is never copied.
RxExactlyOnce == window = {} =>
  /\ \A i \in 1 .. Len(rx_seen) - 1 : rx_seen[i] < rx_seen[i + 1]
  /\ rx_seen # <<>> => \A b \in 1 .. rx_seen[Len(rx_seen)] : b \in Range(rx_seen) <=> b \notin dropped

\* With the engine running, a byte the task has written is sent.
AllSent == \A n \in 1 .. MaxOut : written >= n ~> wire >= n

\* With the engine running, a byte that arrives is delivered or dropped for a
\* known reason, or one of the two windows is hit.
RxDelivered == \A n \in 1 .. MaxIn :
  arrived >= n ~> n \in Range(rx_seen) \cup dropped \/ window # {}
=============================================================================
