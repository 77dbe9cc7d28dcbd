--------------------------- MODULE MC_MemorySystem ---------------------------
(* Small instances of MemorySystem: two banks of two rows, a refresh every *)
(* 24 cycles and a start-up of 32 cycles; the access times are those of    *)
(* sdram_controller.vhd.                                                   *)
EXTENDS MemorySystem, TLC

At(b, r, w, n) == [bank |-> b, row |-> r, wren |-> w, burst |-> n]

\* The two caches: the instruction cache reads two rows of one bank; the data
\* cache reads and writes one of them and writes a row of the other bank.
Caches == (0 :> {At(0, "r0", 0, 1), At(0, "r1", 0, 1)})
       @@ (1 :> {At(0, "r0", 0, 1), At(0, "r0", 1, 1), At(1, "r0", 1, 1)})
       @@ (2 :> {})

\* The data cache and the DMA, which makes single accesses.
CacheAndDma == (0 :> {})
            @@ (1 :> {At(0, "r0", 0, 1), At(0, "r0", 1, 1), At(1, "r0", 1, 1)})
            @@ (2 :> {At(0, "r0", 0, 0), At(0, "r1", 1, 0)})

\* The two caches thrashing between two rows of one bank; the data cache also
\* reads from the other bank.
RowConflict == (0 :> {At(0, "r0", 0, 1)})
            @@ (1 :> {At(0, "r1", 1, 1), At(1, "r0", 0, 1)})
            @@ (2 :> {})
=============================================================================
