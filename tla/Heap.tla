---------------------------------- MODULE Heap ----------------------------------
(***************************************************************************)
(* What malloc, free and realloc promise a program.  mem is the memory     *)
(* given to the allocator, byte by byte; live[p] is the number of bytes of *)
(* the block the program holds at p; last is the call made last and what   *)
(* it returned.                                                            *)
(***************************************************************************)
EXTENDS Integers, TLC

CONSTANTS HEADER,     \* bytes the allocator keeps in front of a block
          NULL

VARIABLES mem, live, last, lowmem
vars == <<mem, live, last, lowmem>>

\* The bytes a request takes, with its header.
Gross(n) == HEADER * ((n + 2 * HEADER - 1) \div HEADER)

Bytes(held, p) == p - HEADER .. p + held[p] - 1
Free(held) == mem \ UNION {Bytes(held, p) : p \in DOMAIN held}
Fits(held, size) == \E b \in Free(held) : b .. b + size - 1 \subseteq Free(held)

\* The program gets n bytes that were free, or nothing if that many, with a
\* header, are nowhere free in one piece.
Gets(held, n, op) ==
  \/ /\ \E p \in DOMAIN live' \ DOMAIN held :
          /\ live' = held @@ (p :> live'[p])
          /\ live'[p] >= n
          /\ Bytes(live', p) \subseteq Free(held)
          /\ last' = <<op, n, p>>
  \/ ~Fits(held, Gross(n)) /\ live' = held /\ last' = <<op, n, NULL>>

Without(p) == [q \in DOMAIN live \ {p} |-> live[q]]

Malloc(n) == n # 0 /\ Gets(live, n, "malloc") /\ UNCHANGED <<mem, lowmem>>
Nothing(n) == n = 0 /\ last' = <<"malloc", n, NULL>> /\ UNCHANGED <<mem, live, lowmem>>
FreeBlock(p) == live' = Without(p) /\ last' = <<"free", p, NULL>> /\ UNCHANGED <<mem, lowmem>>
Give(more) == /\ more \cap mem = {}
              /\ mem' = mem \cup more /\ last' = <<"give", 0, NULL>>
              /\ UNCHANGED <<live, lowmem>>

\* realloc keeps a block that is large enough and not four times too large.
\* Otherwise it asks for the gross size while it still holds the old block.
\* When that fails the old block is lost all the same, and was copied to NULL.
Realloc(p, n) ==
  \/ live[p] >= n /\ last' = <<"realloc", n, p>> /\ UNCHANGED <<mem, live, lowmem>>
  \/ /\ \E q \in DOMAIN live' \ DOMAIN live :
          /\ live' = Without(p) @@ (q :> live'[q])
          /\ live'[q] >= n /\ Bytes(live', q) \subseteq Free(live)
          /\ last' = <<"realloc", n, q>>
     /\ UNCHANGED <<mem, lowmem>>
  \/ /\ ~Fits(live, Gross(Gross(n)))
     /\ live' = Without(p) /\ last' = <<"realloc", n, NULL>>
     /\ lowmem' = "overwritten" /\ UNCHANGED mem

Init == mem = {} /\ live = <<>> /\ last = <<"none", 0, NULL>> /\ lowmem = "intact"
Next == \/ last'[1] = "malloc" /\ (Malloc(last'[2]) \/ Nothing(last'[2]))
        \/ last'[1] = "free" /\ FreeBlock(last'[2])
        \/ last'[1] = "give" /\ Give(mem' \ mem)
        \/ last'[1] = "realloc" /\ \E p \in DOMAIN live : Realloc(p, last'[2])
Spec == Init /\ [][Next]_vars
=============================================================================
