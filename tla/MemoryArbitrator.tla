-------------------------- MODULE MemoryArbitrator --------------------------
(***************************************************************************)
(* The memory arbitrator (memory_arbitrator.vhd): NChan masters share one  *)
(* SDRAM controller.  A master asks by toggling its op_start and has been  *)
(* served when its op_strobe equals op_start again; the arbitrator asks    *)
(* the controller with the same two-phase protocol.                        *)
(*                                                                         *)
(* One step is one rising edge of clk.  All registers change together and  *)
(* read the values from before the edge.  The masters and the controller   *)
(* are left as free as the protocol allows: a master asks again only after *)
(* it has seen its strobe, and keeps the request stable until then; the    *)
(* controller answers a request after any number of cycles and is busy     *)
(* whenever it likes.  SdramController and the masters of MemorySystem are *)
(* instances of this environment.                                          *)
(***************************************************************************)
EXTENDS Bits

CONSTANTS NChan,    \* number of channels, 8 in cpu.vhd
          Op,       \* (op_addr, op_wren, op_burst) of a request
          NoOp

ASSUME NChanAssumption == NChan \in Nat \ {0}
ASSUME OpAssumption == NoOp \notin Op /\ Op # {}

Chan == 0 .. NChan - 1

VARIABLES
  state, chan, op_start,     \* registers of the arbitrator
  sdc_op,                    \* sdc_in.op_addr, op_wren, op_burst
  strobe,                    \* mcN_strobe
  strobe_mux, strobe_reg,    \* mcN_strobe_mux, mcN_strobe_reg
  mc_op_start, mc_op,        \* mcN_in, driven by the masters
  sdc_strobe, sdc_busy,      \* sdc_out.op_strobe, sdc_busy
  performed                  \* history: what the controller performed last

arb_vars == <<state, chan, op_start, sdc_op, strobe, strobe_mux, strobe_reg>>
mc_vars == <<mc_op_start, mc_op>>
sdc_vars == <<sdc_strobe, sdc_busy, performed>>
vars == <<arb_vars, mc_vars, sdc_vars>>

\* Definitions named X_<fault> are faults injected into X to validate the
\* properties; no specification uses them.

\* mcN_out.op_strobe: the controller's strobe while channel c is being served,
\* shifted to the parity of the channel; the remembered strobe otherwise.
op_strobe_noMux(c) == Xor(sdc_strobe, strobe_reg[c])
op_strobe_early(c) == strobe[c]
op_strobe(c) == IF strobe_mux[c] = 1 THEN Xor(sdc_strobe, strobe_reg[c])
                ELSE strobe[c]

\* The request of c that the arbitrator has not taken yet.
Requests(c) == mc_op_start[c] # strobe[c]

\* The elsif chain of IDLE: the lowest requesting channel wins.
Wins_lastChannel(c) == Requests(c) /\ \A d \in Chan : d > c => ~Requests(d)
Wins(c) == Requests(c) /\ \A d \in Chan : d < c => ~Requests(d)

\* mcN_strobe_reg: the parity between channel c and the controller.
ParityShift_dropped(c) == strobe[c]
ParityShift(c) == Xor(strobe[c], sdc_strobe)

ArbInit == /\ state = "IDLE"
           /\ chan = 0
           /\ op_start = 0
           /\ sdc_op \in Op
           /\ strobe = [c \in Chan |-> 0]
           /\ strobe_mux = [c \in Chan |-> 0]
           /\ strobe_reg \in [Chan -> Bit]

-----------------------------------------------------------------------------
(* The clocked process, one action per arm of its case statement.          *)

\* IDLE: a channel is granted.
Grant(c) ==
  /\ state = "IDLE"
  /\ Wins(c)
  /\ sdc_op' = mc_op[c]
  /\ chan' = c
  /\ op_start' = Flip(op_start)
  /\ state' = "WAIT_STROBE"
  /\ strobe_mux' = [strobe_mux EXCEPT ![c] = 1]
  /\ strobe_reg' = [strobe_reg EXCEPT ![c] = ParityShift(c)]
  /\ strobe' = [strobe EXCEPT ![c] = Flip(@)]

\* WAIT_STROBE: the controller has taken the request.
StrobeSeen_noWait ==
  /\ state = "WAIT_STROBE"
  /\ state' = "WAIT_BUSY"
  /\ strobe_mux' = [c \in Chan |-> 0]
  /\ UNCHANGED <<chan, op_start, sdc_op, strobe, strobe_reg>>
StrobeSeen ==
  /\ state = "WAIT_STROBE"
  /\ sdc_strobe = op_start
  /\ state' = "WAIT_BUSY"
  /\ strobe_mux' = [c \in Chan |-> 0]
  /\ UNCHANGED <<chan, op_start, sdc_op, strobe, strobe_reg>>

\* WAIT_BUSY: the controller is ready for the next request.
BusyDone ==
  /\ state = "WAIT_BUSY"
  /\ sdc_busy = 0
  /\ state' = "IDLE"
  /\ UNCHANGED <<chan, op_start, sdc_op, strobe, strobe_mux, strobe_reg>>

\* No condition of the current state holds: every register keeps its value.
Hold ==
  /\ \/ state = "IDLE" /\ \A c \in Chan : ~Requests(c)
     \/ state = "WAIT_STROBE" /\ sdc_strobe # op_start
     \/ state = "WAIT_BUSY" /\ sdc_busy = 1
  /\ UNCHANGED arb_vars

Clk == (\E c \in Chan : Grant(c)) \/ StrobeSeen \/ BusyDone \/ Hold

-----------------------------------------------------------------------------
(* The environment.                                                        *)

\* Masters that have seen their last request served may toggle op_start.
Masters ==
  \E R \in SUBSET {c \in Chan : op_strobe(c) = mc_op_start[c]} :
    /\ mc_op_start' = [c \in Chan |-> IF c \in R THEN Flip(mc_op_start[c])
                                      ELSE mc_op_start[c]]
    /\ \E f \in [R -> Op] :
         mc_op' = [c \in Chan |-> IF c \in R THEN f[c] ELSE mc_op[c]]

\* The controller performs the request on its inputs and toggles its strobe.
SdcPerform == /\ sdc_strobe # op_start
              /\ sdc_strobe' = op_start
              /\ performed' = sdc_op
              /\ sdc_busy' \in Bit

SdcOther == /\ sdc_busy' \in Bit
            /\ UNCHANGED <<sdc_strobe, performed>>

Init == /\ ArbInit
        /\ mc_op_start = [c \in Chan |-> 0]
        /\ mc_op \in [Chan -> Op]
        /\ sdc_strobe = 0
        /\ sdc_busy = 0
        /\ performed = NoOp

Perform == Clk /\ Masters /\ SdcPerform
Other == Clk /\ Masters /\ SdcOther
Next == Perform \/ Other

Spec == Init /\ [][Next]_vars

\* The clock never stops; the controller answers a pending request and is not
\* busy for ever (SdramController: every busy period is a bounded count).
Fairness == /\ WF_vars(Next)
            /\ []<>(sdc_strobe = op_start)
            /\ []<>(sdc_busy = 0)

FairSpec == Spec /\ Fairness
-----------------------------------------------------------------------------
(* Properties.                                                             *)

\* Every register and wire holds a value of its type.
TypeOK == /\ state \in {"IDLE", "WAIT_STROBE", "WAIT_BUSY"}
          /\ chan \in Chan
          /\ op_start \in Bit
          /\ sdc_op \in Op
          /\ strobe \in [Chan -> Bit]
          /\ strobe_mux \in [Chan -> Bit]
          /\ strobe_reg \in [Chan -> Bit]
          /\ mc_op_start \in [Chan -> Bit]
          /\ mc_op \in [Chan -> Op]
          /\ sdc_strobe \in Bit
          /\ sdc_busy \in Bit
          /\ performed \in Op \cup {NoOp}

\* A master has asked and has not been told that it was served.
Pending(c) == mc_op_start[c] # op_strobe(c)

\* The controller has been asked and has not answered.
SdcAsked == op_start # sdc_strobe

\* The controller is asked only on behalf of a master that is still waiting
\* for this very request, and the latched address and direction are still the
\* ones on that master's channel (memory_arbitrator.vhd latches them once, the
\* write data and dqm stay multiplexed from the channel).
RequestIntact == SdcAsked => /\ state = "WAIT_STROBE"
                             /\ Pending(chan)
                             /\ sdc_op = mc_op[chan]

\* Only the granted channel sees the controller's strobe, and a request is
\* either still untaken or the granted one: no strobe of another channel's
\* transaction leaks through mcN_strobe_mux.
StrobeRouting == \A c \in Chan :
  /\ strobe_mux[c] = 1 => state = "WAIT_STROBE" /\ c = chan
  /\ Pending(c) <=> Requests(c) \/ (SdcAsked /\ c = chan)

\* The inductive strengthening: while a channel is served, strobe_reg maps the
\* controller's strobe parity to the parity of the channel.
StrobeParity == state = "WAIT_STROBE" =>
  /\ strobe_mux[chan] = 1
  /\ Xor(op_start, strobe_reg[chan]) = strobe[chan]
  /\ SdcAsked => mc_op_start[chan] = strobe[chan]

\* Every request is performed exactly once, with the parameters the master
\* gave, and the master sees its strobe exactly then (the comment at
\* readcache_256x4x32.vhd:167 relies on it): the arbitrator implements
\* MemoryService.
Service == INSTANCE MemoryService WITH
             req <- [c \in Chan |-> IF Pending(c) THEN mc_op[c] ELSE NoOp]
ServiceSpec == Service!Spec

\* A request is served if from some time on no channel of higher priority (a
\* lower number) asks any more; the highest channel is always served.
ServedUnlessOutranked == \A c \in Chan :
  <>[](\A d \in Chan : d < c => ~Pending(d)) => (Pending(c) ~> ~Pending(c))
=============================================================================
