---------------------------- MODULE MemoryService ----------------------------
(***************************************************************************)
(* What the memory channels of cpu.vhd promise to their masters: every     *)
(* request a master makes is performed by the SDRAM controller exactly     *)
(* once, with the address and direction the master asked for, and the      *)
(* master is told so in the very step in which it is performed.  At most   *)
(* one request is performed at a time; masters ask independently.          *)
(***************************************************************************)
CONSTANTS Chan,     \* the memory channels
          Op,       \* what a master may ask for
          NoOp      \* no request outstanding

VARIABLES req,       \* req[c]: the outstanding request of channel c, or NoOp
          performed  \* the request the memory performed last

Init == /\ req = [c \in Chan |-> NoOp]
        /\ performed = NoOp

Idle == {c \in Chan : req[c] = NoOp}

\* Masters of idle channels may ask; the channels of S become idle.
Change(S) == /\ req' \in [Chan -> Op \cup {NoOp}]
             /\ \A c \in Chan \ Idle : req'[c] = IF c \in S THEN NoOp ELSE req[c]

Ask == Change({}) /\ performed' = performed

Perform(c) == /\ c \notin Idle
              /\ performed' = req[c]
              /\ Change({c})

Next == Ask \/ \E c \in Chan : Perform(c)

Spec == Init /\ [][Next]_<<req, performed>>
=============================================================================
