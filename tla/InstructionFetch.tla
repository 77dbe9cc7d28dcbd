--------------------------- MODULE InstructionFetch ---------------------------
(***************************************************************************)
(* The instruction cache with a fetch stage that goes to any address and   *)
(* executes FENCE.I whenever it may, and with other masters that write one *)
(* word of the memory between bursts.                                      *)
(***************************************************************************)
EXTENDS ReadCache

VARIABLES watch,      \* the word that is written
          fresh       \* the values it had since the last FENCE.I

fetch_vars == <<pc, flush, ic_vars, imem_vars, imem, watch, fresh>>

\* ifetch moves pc, and starts a flush, only when the cache hits and no flush runs.
MayMove == flush = flush_ack /\ hit

FetchMove == /\ MayMove
             /\ pc' \in Addr
             /\ UNCHANGED <<flush, fresh>>
FetchFenceI == /\ MayMove
               /\ pc' = (pc + 1) % (4 * NLines * NTags)
               /\ flush' = Flip(flush)
               /\ fresh' = {imem[watch]}
FetchHold == UNCHANGED <<pc, flush, fresh>>

\* Another master writes the watched word: imem[a] is a or a + the memory's size.
OtherWrite == /\ ic_beat = NoBeat
              /\ \E v \in Bit : imem' = [imem EXCEPT ![watch] = watch + v * (4 * NLines * NTags)]

Fetch == \/ FetchMove /\ UNCHANGED imem
         \/ FetchFenceI /\ UNCHANGED imem
         \/ FetchHold /\ UNCHANGED imem
         \/ OtherWrite /\ UNCHANGED <<pc, flush>> /\ fresh' = fresh \cup {imem'[watch]}

FetchInit == /\ IcInit
             /\ pc = 0 /\ flush = 0
             /\ imem = [a \in Addr |-> a]
             /\ watch \in Addr /\ fresh = {imem[watch]}

FetchNext == IcClk /\ ImemClk /\ Fetch /\ UNCHANGED watch

FetchSpec == FetchInit /\ [][FetchNext]_fetch_vars

-----------------------------------------------------------------------------
\* What the fetch stage takes on a hit is a word of its pc, and the watched
\* word is one the memory held since the last FENCE.I, never an older one.
FetchedFresh == MayMove => IF pc = watch THEN inst \in fresh ELSE inst = pc
=============================================================================
