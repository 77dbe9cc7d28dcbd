------------------------------- MODULE ConsProd -------------------------------
(***************************************************************************)
(* The ring buffer between a driver's interrupt handler and a task         *)
(* (drivers/consprod.c), with one producer and one consumer.  Either of    *)
(* them may be the interrupt handler: their steps interleave at every      *)
(* access to a shared cell or pointer, which includes the schedules in     *)
(* which the handler runs to completion.  Pointers are offsets from        *)
(* buffer_start; buffer_end is N.  The locals of a call are 0 once it does *)
(* not read them any more.                                                 *)
(***************************************************************************)
EXTENDS Integers

CONSTANTS N,        \* buffer_end - buffer_start
          Byte,
          MaxLen    \* bound on the len of a call

ASSUME NAssumption == N \in Nat /\ N >= 2
ASSUME MaxLenAssumption == MaxLen \in Nat
ASSUME ByteAssumption == Byte # {}

Cell == 0 .. N - 1

VARIABLES
  buffer, prod, cons,            \* shared
  p_pc, p_x, p_len, p_wait,      \* consprod_produce: x, len, wait
  p_p, p_c,                      \*   locals p and c
  p_ret, p_done,                 \*   value returned; history: bytes put by the call
  c_pc, c_x, c_len, c_wait,      \* consprod_consume
  c_p, c_c, c_byte,
  c_ret, c_done,
  c_got                          \* history: what *buf received last

shared == <<buffer, prod, cons>>
producer == <<p_pc, p_x, p_len, p_wait, p_p, p_c, p_ret, p_done>>
consumer == <<c_pc, c_x, c_len, c_wait, c_p, c_c, c_byte, c_ret, c_done, c_got>>
vars == <<shared, producer, consumer>>

\* Definitions named X_<fault> are faults injected into X to validate the
\* properties; no specification uses them.

cp_ptr_next(ptr) == IF ptr + 1 = N THEN 0 ELSE ptr + 1

\* consprod_init
ConsprodInit == prod = 1 /\ cons = 0

Init == /\ ConsprodInit
        /\ buffer \in [Cell -> Byte]
        /\ p_pc = "idle" /\ p_x = 0 /\ p_len = 0 /\ p_wait = 0
        /\ p_p = 0 /\ p_c = 0 /\ p_ret = 0 /\ p_done = 0
        /\ c_pc = "idle" /\ c_x = 0 /\ c_len = 0 /\ c_wait = 0
        /\ c_p = 0 /\ c_c = 0 /\ c_byte \in Byte /\ c_ret = 0 /\ c_done = 0
        /\ c_got = {}

-----------------------------------------------------------------------------
(* consprod_produce                                                        *)

ProduceCall(len, wait) ==
  /\ p_pc = "idle"
  /\ p_pc' = "enter"
  /\ p_x' = len /\ p_len' = len /\ p_wait' = wait /\ p_ret' = 0 /\ p_done' = 0
  /\ UNCHANGED <<shared, consumer, p_p, p_c>>

\* p and c are set from the shared pointers; only cons can change under them.
ProduceEnter ==
  /\ p_pc = "enter"
  /\ p_p' = cp_ptr_next(prod)
  /\ p_c' = cons
  /\ p_pc' = "loop"
  /\ UNCHANGED <<shared, consumer, p_x, p_len, p_wait, p_ret, p_done>>

\* The loop condition of consprod_produce.
RoomLeft_full == p_x > 0 /\ prod # p_c
RoomLeft == p_x > 0 /\ p_p # p_c

\* *cp->prod = *buf
ProduceWrite(b) ==
  /\ p_pc = "loop" /\ RoomLeft
  /\ buffer' = [buffer EXCEPT ![prod] = b]
  /\ p_pc' = "advance"
  /\ UNCHANGED <<prod, cons, consumer, p_x, p_len, p_wait, p_p, p_c, p_ret, p_done>>

\* cp->prod = p
ProduceAdvance ==
  /\ p_pc = "advance"
  /\ prod' = p_p
  /\ p_p' = cp_ptr_next(p_p)
  /\ p_x' = p_x - 1
  /\ p_done' = p_done + 1
  /\ p_pc' = "loop"
  /\ UNCHANGED <<buffer, cons, consumer, p_len, p_wait, p_c, p_ret>>

ProduceReturn_requested == p_len
ProduceReturn == p_len - p_x
ProduceExit ==
  /\ p_pc = "loop" /\ ~RoomLeft
  /\ IF p_x > 0 /\ p_wait = 1
     THEN p_pc' = "spin" /\ UNCHANGED <<p_len, p_c, p_ret>>
     ELSE p_pc' = "idle" /\ p_len' = 0 /\ p_c' = 0 /\ p_ret' = ProduceReturn
  /\ p_p' = 0
  /\ UNCHANGED <<shared, consumer, p_x, p_wait, p_done>>

\* while (cp->cons == c) has seen another value: the call starts over with what
\* is left.
ProduceWake_hoisted == FALSE       \* the load of a pointer that is not volatile
ProduceWake == cons # p_c
ProduceSpin ==
  /\ p_pc = "spin" /\ ProduceWake
  /\ p_pc' = "enter"
  /\ p_len' = p_x /\ p_c' = 0
  /\ UNCHANGED <<shared, consumer, p_x, p_wait, p_p, p_ret, p_done>>

-----------------------------------------------------------------------------
(* consprod_consume                                                        *)

ConsumeCall(len, wait) ==
  /\ c_pc = "idle"
  /\ c_pc' = "enter"
  /\ c_x' = len /\ c_len' = len /\ c_wait' = wait /\ c_ret' = 0 /\ c_done' = 0
  /\ UNCHANGED <<shared, producer, c_p, c_c, c_byte, c_got>>

ConsumeEnter ==
  /\ c_pc = "enter"
  /\ c_p' = prod
  /\ c_c' = cp_ptr_next(cons)
  /\ c_pc' = "loop"
  /\ UNCHANGED <<shared, producer, c_x, c_len, c_wait, c_byte, c_ret, c_done, c_got>>

DataLeft_noEmptyTest == c_x > 0
DataLeft == c_x > 0 /\ c_c # c_p

\* *buf = *c
ConsumeRead ==
  /\ c_pc = "loop" /\ DataLeft
  /\ c_byte' = buffer[c_c]
  /\ c_pc' = "advance"
  /\ UNCHANGED <<shared, producer, c_x, c_len, c_wait, c_p, c_c, c_ret, c_done, c_got>>

\* cp->cons = c
ConsumeAdvance ==
  /\ c_pc = "advance"
  /\ cons' = c_c
  /\ c_c' = cp_ptr_next(c_c)
  /\ c_x' = c_x - 1
  /\ c_done' = c_done + 1
  /\ c_got' = {c_byte}
  /\ c_pc' = "loop"
  /\ UNCHANGED <<buffer, prod, producer, c_len, c_wait, c_p, c_byte, c_ret>>

ConsumeReturn == c_len - c_x
ConsumeExit ==
  /\ c_pc = "loop" /\ ~DataLeft
  /\ IF c_x > 0 /\ c_wait = 1
     THEN c_pc' = "spin" /\ UNCHANGED <<c_len, c_p, c_ret>>
     ELSE c_pc' = "idle" /\ c_len' = 0 /\ c_p' = 0 /\ c_ret' = ConsumeReturn
  /\ c_c' = 0
  /\ UNCHANGED <<shared, producer, c_x, c_wait, c_byte, c_done, c_got>>

ConsumeSpin ==
  /\ c_pc = "spin" /\ prod # c_p
  /\ c_pc' = "enter"
  /\ c_len' = c_x /\ c_p' = 0
  /\ UNCHANGED <<shared, producer, c_x, c_wait, c_c, c_byte, c_ret, c_done, c_got>>

-----------------------------------------------------------------------------
ProduceStep == \/ ProduceEnter \/ ProduceAdvance \/ ProduceExit \/ ProduceSpin
               \/ \E b \in Byte : ProduceWrite(b)
ConsumeStep == \/ ConsumeEnter \/ ConsumeRead \/ ConsumeAdvance
               \/ ConsumeExit \/ ConsumeSpin

Next == \/ ProduceStep \/ ConsumeStep
        \/ \E len \in 0 .. MaxLen, wait \in {0, 1} :
             ProduceCall(len, wait) \/ ConsumeCall(len, wait)

Spec == Init /\ [][Next]_vars

\* Both sides make progress, and each keeps calling with a positive len: the
\* timer and UART interrupts call process_tx_data and process_rx_data again and
\* again, the task reads or writes in a loop.
Fairness == /\ WF_vars(ProduceStep) /\ WF_vars(ConsumeStep)
            /\ SF_vars(\E len \in 1 .. MaxLen, wait \in {0, 1} : ProduceCall(len, wait))
            /\ SF_vars(\E len \in 1 .. MaxLen, wait \in {0, 1} : ConsumeCall(len, wait))

FairSpec == Spec /\ Fairness
-----------------------------------------------------------------------------
(* Properties.                                                             *)

PC == {"idle", "enter", "loop", "advance", "spin"}

\* Pointers stay inside the buffer and the locals have their types.
TypeOK == /\ buffer \in [Cell -> Byte]
          /\ prod \in Cell /\ cons \in Cell
          /\ p_pc \in PC /\ c_pc \in PC
          /\ p_x \in Nat /\ p_len \in Nat /\ p_wait \in {0, 1}
          /\ c_x \in Nat /\ c_len \in Nat /\ c_wait \in {0, 1}
          /\ p_p \in Cell /\ p_c \in Cell /\ p_ret \in Nat /\ p_done \in Nat
          /\ c_p \in Cell /\ c_c \in Cell /\ c_ret \in Nat /\ c_done \in Nat
          /\ c_byte \in Byte /\ c_got \in SUBSET Byte

\* Steps from a to b around the ring.
Dist(a, b) == IF b >= a THEN b - a ELSE b - a + N

\* The bytes in the ring: from the cell after cons up to the one before prod.
Count == Dist(cons, prod) - 1
Place(i) == IF cons + i >= N THEN cons + i - N ELSE cons + i
Contents == [i \in 1 .. Count |-> buffer[Place(i)]]

Fifo == INSTANCE BoundedFifo WITH q <- Contents, got <- c_got, Capacity <- N - 2

\* The ring is a FIFO of N - 2 bytes: whatever the interleaving of the two sides
\* and however stale their copies of the other's pointer, no byte is lost,
\* duplicated, reordered or overwritten before it is read.
FifoSpec == Fifo!FifoSpec

\* The pointer of the other side that a call copied at its start may be stale,
\* but only in the safe direction: cons has moved from p_c towards prod, and
\* prod has moved on from c_p.
SnapshotsSafe ==
  /\ prod # cons
  /\ p_pc \in {"loop", "advance"} =>
       p_c # prod /\ Dist(p_c, cons) < Dist(p_c, prod)
  /\ c_pc \in {"loop", "advance"} =>
       c_p # cons /\ Dist(cons, c_p) <= Dist(cons, prod)

\* A call without wait returns the number of bytes it moved (process_tx_data
\* sends that many), a call with wait returns only when it has moved them all.
CallsAccountBytes ==
  /\ p_pc = "idle" => IF p_wait = 0 THEN p_ret = p_done ELSE p_x = 0
  /\ c_pc = "idle" => IF c_wait = 0 THEN c_ret = c_done ELSE c_x = 0

\* A call with wait returns, given a partner that keeps calling: the loop on a
\* copied pointer misses no movement of the original.
CallsReturn == /\ p_pc # "idle" ~> p_pc = "idle"
               /\ c_pc # "idle" ~> c_pc = "idle"
=============================================================================
