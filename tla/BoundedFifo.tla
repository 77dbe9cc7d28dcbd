----------------------------- MODULE BoundedFifo -----------------------------
(***************************************************************************)
(* What a consprod_t promises its producer and its consumer: a queue of at *)
(* most Capacity bytes, each delivered once and in order.                  *)
(***************************************************************************)
EXTENDS Sequences, Naturals

CONSTANTS Byte, Capacity

VARIABLES q,       \* bytes put and not yet got
          got      \* the bytes a Get may have delivered last: a singleton, or
                   \* {} before the first

FifoInit == q = << >> /\ got = {}

Put(b) == /\ Len(q) < Capacity
          /\ q' = Append(q, b)
          /\ got' = got

Get == /\ q # << >>
       /\ q' = Tail(q)
       /\ got' = {Head(q)}

FifoNext == Get \/ \E b \in Byte : Put(b)

FifoSpec == FifoInit /\ [][FifoNext]_<<q, got>>
=============================================================================
