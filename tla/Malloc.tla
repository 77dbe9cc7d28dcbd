--------------------------------- MODULE Malloc ---------------------------------
(***************************************************************************)
(* The allocator of the C library: malloc.c and realloc.c.  header[b] is   *)
(* the struct free_arena_header at address b, HEAD is __malloc_head.       *)
(* Memory that holds no header is not in header's domain, and the links of *)
(* the free chain in a used block are the program's data.  Nothing is      *)
(* allocated in interrupt handlers and the locks are the default ones, so  *)
(* a call is one step.                                                     *)
(***************************************************************************)
EXTENDS Integers, FiniteSets, TLC

CONSTANTS Arenas,     \* buffers for add_malloc_block: <<address, size>>
          Requests    \* sizes asked for, all less than 2^32 - 31

HEAD == 0
NULL == -1
DATA == -2                            \* a link overwritten by the program
SIZEOF_HEADER == 16                   \* sizeof(struct arena_header)
SIZEOF_FREE_HEADER == 24              \* sizeof(struct free_arena_header)

ASSUME MallocAssumption == /\ \A a \in Arenas : a[1] > 0 /\ a[1] % SIZEOF_HEADER = 0 /\ a[2] \in Nat
                           /\ Requests \subseteq Nat

VARIABLES header,
          given,      \* arenas given so far
          last,       \* the last call: its name, argument and result
          lowmem      \* "overwritten" once something was copied to NULL
vars == <<header, given, last, lowmem>>

\* Definitions named X_<fault> are faults injected into X to validate the
\* properties; no specification uses them.

\* size + header, rounded up
Rounded(size) == SIZEOF_HEADER * ((size + 2 * SIZEOF_HEADER - 1) \div SIZEOF_HEADER)

Dead(h, b) == [x \in DOMAIN h \ {b} |-> h[x]]
UnlinkMain(h, b) == [h EXCEPT ![h[b].prev].next = h[b].next, ![h[b].next].prev = h[b].prev]
UnlinkFree(h, b) == [h EXCEPT ![h[b].prev_free].next_free = h[b].next_free,
                              ![h[b].next_free].prev_free = h[b].prev_free]

\* __malloc_from_block: split when the rest can be a free block, else use all.
Splits_exact(fsize, size) == fsize > size
Splits(fsize, size) == fsize >= size + 2 * SIZEOF_HEADER
Used(h, b, size) == [h EXCEPT ![b].type = "USED", ![b].size = size,
                              ![b].next_free = DATA, ![b].prev_free = DATA]
MallocFromBlock(h, fp, size) ==
  IF ~Splits(h[fp].size, size) THEN Used(UnlinkFree(h, fp), fp, h[fp].size)
  ELSE LET nfp == fp + size
           h1 == h @@ (nfp :> [h[fp] EXCEPT !.size = h[fp].size - size, !.prev = fp])
           h2 == [h1 EXCEPT ![h[fp].next].prev = nfp, ![fp].next = nfp]
           h3 == [h2 EXCEPT ![h[fp].next_free].prev_free = nfp, ![h[fp].prev_free].next_free = nfp]
       IN Used(h3, fp, size)

\* __free_block
IsFreeAndEndsAt(h, b, a) == h[b].type = "FREE" /\ b + h[b].size = a
Absorb(h, b, n) == Dead([UnlinkMain(h, n) EXCEPT ![b].size = @ + h[n].size], n)
PushFree(h, b) ==
  LET first == h[HEAD].next_free
      h1 == [h EXCEPT ![b].type = "FREE", ![b].next_free = first, ![b].prev_free = HEAD,
                      ![HEAD].next_free = b]
  IN [h1 EXCEPT ![first].prev_free = b]
MergeNext_anywhere(h, b) ==
  LET n == h[b].next
  IN IF h[n].type = "FREE" THEN Absorb(UnlinkFree(h, n), b, n) ELSE h
MergeNext(h, b) ==
  LET n == h[b].next
  IN IF h[n].type = "FREE" /\ b + h[b].size = n THEN Absorb(UnlinkFree(h, n), b, n) ELSE h
FreeBlock(h, b) ==
  LET p == h[b].prev
  IN IF IsFreeAndEndsAt(h, p, b) THEN MergeNext(Absorb(h, p, b), p)
     ELSE MergeNext(PushFree(h, b), b)

\* The first block of the free chain from fp on that is large enough, or HEAD.
RECURSIVE FirstFit(_, _, _)
FirstFit(h, fp, size) ==
  IF fp = HEAD \/ h[fp].size >= size THEN fp ELSE FirstFit(h, h[fp].next_free, size)

\* What malloc does to the headers and what it returns, for size > 0.
Malloc(h, size) ==
  LET fp == FirstFit(h, h[HEAD].next_free, Rounded(size))
  IN IF fp = HEAD THEN [h |-> h, ptr |-> NULL]
     ELSE [h |-> MallocFromBlock(h, fp, Rounded(size)), ptr |-> fp + SIZEOF_HEADER]

\* The block of the main chain after which fp is inserted, searching backwards.
RECURSIVE Predecessor(_, _, _)
Predecessor(h, pah, fp) ==
  IF pah = HEAD \/ pah < fp THEN pah ELSE Predecessor(h, h[pah].prev, fp)

-----------------------------------------------------------------------------
Init == /\ header = HEAD :> [type |-> "HEAD", size |-> 0, next |-> HEAD, prev |-> HEAD,
                             next_free |-> HEAD, prev_free |-> HEAD]
        /\ given = {} /\ last = <<"none", 0, NULL>> /\ lowmem = "intact"

Held == {b + SIZEOF_HEADER : b \in {x \in DOMAIN header : header[x].type = "USED"}}

malloc(size) == /\ LET r == Malloc(header, size)
                   IN IF size = 0 THEN header' = header /\ last' = <<"malloc", size, NULL>>
                      ELSE header' = r.h /\ last' = <<"malloc", size, r.ptr>>
                /\ UNCHANGED <<given, lowmem>>

free(ptr) == /\ header' = FreeBlock(header, ptr - SIZEOF_HEADER)
             /\ last' = <<"free", ptr, NULL>>
             /\ UNCHANGED <<given, lowmem>>

add_malloc_block(buf, size) ==
  /\ given' = given \cup {<<buf, size>>}
  /\ last' = <<"give", 0, NULL>>
  /\ IF size < SIZEOF_FREE_HEADER THEN header' = header
     ELSE LET pah == Predecessor(header, header[HEAD].prev, buf)
              nah == header[pah].next
              h1 == header @@ (buf :> [type |-> "FREE", size |-> size, next |-> nah, prev |-> pah,
                                       next_free |-> DATA, prev_free |-> DATA])
              h2 == [h1 EXCEPT ![pah].next = buf]
          IN header' = FreeBlock([h2 EXCEPT ![nah].prev = buf], buf)
  /\ UNCHANGED lowmem

\* realloc of a block the program holds; size = 0 is free.
Suits(old, size) == old >= size /\ size >= old \div 4
realloc(ptr, size) ==
  LET b == ptr - SIZEOF_HEADER
      r == Malloc(header, Rounded(size))      \* adds the header a second time
  IN /\ IF Suits(header[b].size, Rounded(size))
        THEN header' = header /\ last' = <<"realloc", size, ptr>> /\ UNCHANGED lowmem
        ELSE /\ header' = FreeBlock(r.h, b)
             /\ last' = <<"realloc", size, r.ptr>>
             /\ lowmem' = IF r.ptr = NULL THEN "overwritten" ELSE lowmem
     /\ UNCHANGED given

Next == \/ \E size \in Requests : malloc(size)
        \/ \E ptr \in Held : free(ptr)
        \/ \E ptr \in Held, size \in Requests \ {0} : realloc(ptr, size)
        \/ \E a \in Arenas \ given : add_malloc_block(a[1], a[2])
Spec == Init /\ [][Next]_vars

-----------------------------------------------------------------------------
Blocks == DOMAIN header \ {HEAD}
FreeBlocks == {b \in Blocks : header[b].type = "FREE"}
Extent(b) == b .. b + header[b].size - 1
Accepted == {a \in given : a[2] >= SIZEOF_FREE_HEADER}
Memory == UNION {a[1] .. a[1] + a[2] - 1 : a \in Accepted}

TheHeap == INSTANCE Heap WITH
  HEADER <- SIZEOF_HEADER, mem <- Memory,
  live <- [p \in Held |-> header[p - SIZEOF_HEADER].size - SIZEOF_HEADER]

\* Through any sequence of calls a block the program gets lies in memory that
\* was given and free, header and all; no other block moves, shrinks or is
\* freed; and malloc fails only if the request fits nowhere in one piece.
HeapSpec == TheHeap!Spec

\* Both chains are sound after every call: the main chain is sorted by address,
\* doubly linked, and its blocks tile the memory given; the free chain goes
\* through every free block once, in both directions; and no two free blocks
\* touch.
FreeAt[k \in 0 .. Cardinality(FreeBlocks)] ==
  IF k = 0 THEN HEAD ELSE header[FreeAt[k - 1]].next_free
ChainsSound ==
  /\ \A b \in DOMAIN header :
       LET n == header[b].next
       IN /\ header[n].prev = b
          /\ IF n = HEAD THEN \A x \in Blocks : x <= b
             ELSE n > b /\ \A x \in Blocks : x <= b \/ x >= n
  /\ UNION {Extent(b) : b \in Blocks} = Memory
  /\ \A b, c \in Blocks : b # c => Extent(b) \cap Extent(c) = {}
  /\ {FreeAt[k] : k \in DOMAIN FreeAt} = FreeBlocks \cup {HEAD}
  /\ \A b \in FreeBlocks \cup {HEAD} : header[header[b].next_free].prev_free = b
  /\ \A b, c \in FreeBlocks : b + header[b].size # c
  /\ \A b \in FreeBlocks : header[b].size >= SIZEOF_FREE_HEADER
=============================================================================
