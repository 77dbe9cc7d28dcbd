----------------------- MODULE MemoryArbitrator_proofs -----------------------
(***************************************************************************)
(* Proofs about MemoryArbitrator for every number of channels and every    *)
(* set of requests.                                                        *)
(***************************************************************************)
EXTENDS MemoryArbitrator, TLAPS

\* The inductive invariant.
IInv == TypeOK /\ RequestIntact /\ StrobeRouting /\ StrobeParity

\* What the masters' step leaves alone: a waiting master keeps its request.
LEMMA MastersKeepPending ==
  ASSUME TypeOK, Masters
  PROVE  /\ mc_op_start' \in [Chan -> Bit]
         /\ mc_op' \in [Chan -> Op]
         /\ \A c \in Chan : Pending(c) => /\ mc_op_start'[c] = mc_op_start[c]
                                         /\ mc_op'[c] = mc_op[c]
         /\ \A c \in Chan : mc_op_start'[c] = mc_op_start[c] => mc_op'[c] = mc_op[c]
<1>1. PICK R \in SUBSET {c \in Chan : op_strobe(c) = mc_op_start[c]} :
        /\ mc_op_start' = [c \in Chan |-> IF c \in R THEN Flip(mc_op_start[c])
                                          ELSE mc_op_start[c]]
        /\ \E f \in [R -> Op] :
             mc_op' = [c \in Chan |-> IF c \in R THEN f[c] ELSE mc_op[c]]
  BY DEF Masters
<1>2. PICK f \in [R -> Op] :
        mc_op' = [c \in Chan |-> IF c \in R THEN f[c] ELSE mc_op[c]]
  BY <1>1
<1>3. \A c \in Chan : Flip(mc_op_start[c]) \in Bit /\ Flip(mc_op_start[c]) # mc_op_start[c]
  BY DEF TypeOK, Bit, Flip
<1>4. \A c \in Chan : Pending(c) => c \notin R
  BY <1>1 DEF Pending
<1>5. mc_op_start' \in [Chan -> Bit]
  BY <1>1, <1>3 DEF TypeOK
<1>6. mc_op' \in [Chan -> Op]
  BY <1>2 DEF TypeOK
<1> QED
  BY <1>1, <1>2, <1>3, <1>4, <1>5, <1>6

\* The registers' initial values satisfy the inductive invariant.
LEMMA InitInv == Init => IInv
  BY NChanAssumption DEF Init, ArbInit, IInv, TypeOK, RequestIntact, StrobeRouting,
       StrobeParity, SdcAsked, Pending, Requests, op_strobe, Chan, Bit

\* One rising edge: the wires of the environment change with the registers.
LEMMA StepInv == IInv /\ [Next]_vars => IInv'
<1> SUFFICES ASSUME IInv, Next PROVE IInv'
  BY DEF IInv, TypeOK, RequestIntact, StrobeRouting, StrobeParity, SdcAsked,
         Pending, Requests, op_strobe, vars, arb_vars, mc_vars, sdc_vars
<1> USE NChanAssumption
<1>1. Clk /\ Masters /\ (SdcPerform \/ SdcOther)
  BY DEF Next, Perform, Other
<1>2. /\ mc_op_start' \in [Chan -> Bit]
      /\ mc_op' \in [Chan -> Op]
      /\ \A c \in Chan : Pending(c) => /\ mc_op_start'[c] = mc_op_start[c]
                                      /\ mc_op'[c] = mc_op[c]
  BY <1>1, MastersKeepPending DEF IInv
<1>3. /\ sdc_strobe' \in Bit
      /\ sdc_busy' \in Bit
      /\ performed' \in Op \cup {NoOp}
      /\ sdc_strobe' # sdc_strobe => SdcAsked /\ sdc_strobe' = op_start
  BY <1>1 DEF SdcPerform, SdcOther, IInv, TypeOK, SdcAsked
<1>4. ASSUME NEW c \in Chan, Grant(c) PROVE IInv'
  <2>1. ~SdcAsked /\ sdc_strobe' = sdc_strobe
    BY <1>3, <1>4 DEF Grant, IInv, RequestIntact
  <2>2. TypeOK'
    BY <1>2, <1>3, <1>4 DEF Grant, IInv, TypeOK, Bit, Flip, ParityShift, Xor
  <2>3. Pending(c)
    BY <1>4 DEF IInv, StrobeRouting, Grant, Wins
  <2>4. StrobeParity'
    BY <1>2, <1>4, <2>1, <2>3 DEF Grant, Wins, Requests, ParityShift, IInv, TypeOK,
         StrobeParity, SdcAsked, Bit, Flip, Xor
  <2>5. RequestIntact'
    BY <1>2, <1>4, <2>1, <2>3 DEF Grant, Wins, Requests, ParityShift, IInv, TypeOK,
         RequestIntact, SdcAsked, Pending, op_strobe, Bit, Flip, Xor
  <2>6. ASSUME NEW d \in Chan, d # c
        PROVE  /\ strobe_mux'[d] = 0
               /\ Pending(d)' <=> Requests(d)'
    BY <1>4, <2>6 DEF Grant, IInv, TypeOK, StrobeRouting, Pending, Requests, op_strobe, Bit
  <2>7. Pending(c)'
    BY <2>1, <2>3, <1>2, <1>4 DEF Grant, Wins, Requests, ParityShift, IInv, TypeOK, 
       Pending, op_strobe, Bit, Flip, Xor
  <2>8. StrobeRouting'
    BY <1>4, <2>1, <2>6, <2>7, <2>2 DEF Grant, StrobeRouting, SdcAsked, IInv, TypeOK, Bit, Flip
  <2> QED
    BY <2>2, <2>4, <2>5, <2>8 DEF IInv
<1>5. CASE StrobeSeen
  <2>1. ~SdcAsked /\ sdc_strobe' = sdc_strobe
    BY <1>3, <1>5 DEF StrobeSeen, SdcAsked
  <2>2. TypeOK'
    BY <1>2, <1>3, <1>5 DEF StrobeSeen, IInv, TypeOK, Bit
  <2> QED
    BY <1>5, <2>1, <2>2 DEF StrobeSeen, IInv, TypeOK, RequestIntact, StrobeRouting,
       StrobeParity, SdcAsked, Pending, Requests, op_strobe
<1>6. CASE BusyDone
  <2>1. ~SdcAsked /\ sdc_strobe' = sdc_strobe
    BY <1>3, <1>6 DEF BusyDone, IInv, RequestIntact
  <2>2. TypeOK'
    BY <1>2, <1>3, <1>6 DEF BusyDone, IInv, TypeOK, Bit
  <2> QED
    BY <1>6, <2>1, <2>2 DEF BusyDone, IInv, TypeOK, RequestIntact, StrobeRouting,
       StrobeParity, SdcAsked, Pending, Requests, op_strobe, Bit
<1>7. CASE Hold
  <2>1. UNCHANGED arb_vars
    BY <1>7 DEF Hold
  <2>2. TypeOK'
    BY <1>2, <1>3, <2>1 DEF IInv, TypeOK, arb_vars
  <2>3. StrobeParity'
    BY <1>2, <1>3, <2>1 DEF IInv, TypeOK, StrobeParity, RequestIntact, SdcAsked, arb_vars, Bit
  <2>4. ASSUME NEW c \in Chan
        PROVE /\ strobe_mux'[c] = 1 => state' = "WAIT_STROBE" /\ c = chan'
              /\ Pending(c)' <=> Requests(c)' \/ (SdcAsked' /\ c = chan')
    BY <1>2, <1>3, <2>1 DEF IInv, TypeOK, StrobeParity, StrobeRouting, RequestIntact, SdcAsked, 
       Pending, Requests, op_strobe, arb_vars, Bit, Xor
  <2>5. RequestIntact'
    BY <1>2, <1>3, <2>1, <2>4 DEF IInv, TypeOK, RequestIntact, SdcAsked, arb_vars, Bit
  <2> QED
    BY <2>2, <2>3, <2>4, <2>5 DEF IInv, StrobeRouting
<1> QED
  BY <1>1, <1>4, <1>5, <1>6, <1>7 DEF Clk

\* Every reachable state of the arbitrator and its masters satisfies the
\* inductive invariant.
THEOREM Invariance == Spec => []IInv
  BY InitInv, StepInv, PTL DEF Spec

\* Type correctness of every register and wire of the arbitrator.
THEOREM TypeCorrect == Spec => []TypeOK
  BY Invariance, PTL DEF IInv

\* The controller is only ever asked for a request its master is waiting for
\* and that has not changed since it was latched.
THEOREM RequestsIntact == Spec => []RequestIntact
  BY Invariance, PTL DEF IInv

\* No channel sees a strobe that belongs to another channel's transaction.
THEOREM StrobesRouted == Spec => []StrobeRouting
  BY Invariance, PTL DEF IInv

\* While a channel is served, the parity saved at its grant (mcN_strobe_reg)
\* maps the controller's strobe to the parity of the channel's own requests.
THEOREM ParityKept == Spec => []StrobeParity
  BY Invariance, PTL DEF IInv

-----------------------------------------------------------------------------
(* Refinement: the requests that are pending before and after an edge.     *)

\* A pending request stays pending unless it is the one the controller
\* performs in this step, which stops being pending.
LEMMA PendingStep ==
  ASSUME IInv, IInv', Next, NEW c \in Chan, Pending(c)
  PROVE  /\ mc_op'[c] = mc_op[c]
         /\ SdcPerform /\ c = chan => ~Pending(c)'
         /\ SdcPerform /\ c # chan => Pending(c)'
         /\ SdcOther => Pending(c)'
<1> USE NChanAssumption
<1>1. Clk /\ Masters
  BY DEF Next, Perform, Other
<1>2. mc_op_start'[c] = mc_op_start[c] /\ mc_op'[c] = mc_op[c]
  BY <1>1, MastersKeepPending DEF IInv
<1>3. CASE Requests(c) /\ ~SdcAsked
  <2>1. sdc_strobe' = sdc_strobe /\ ~SdcPerform
    BY <1>3 DEF Next, Perform, Other, SdcPerform, SdcOther, SdcAsked
  <2>2. CASE Grant(c)
    <3>1. SdcAsked' /\ chan' = c
      BY <2>1, <2>2, <1>3 DEF Grant, IInv, SdcAsked, TypeOK, Bit, Flip
    <3> QED
      BY <3>1, <2>1, <1>2 DEF IInv, StrobeRouting
  <2>3. CASE ~Grant(c)
    <3>1. strobe'[c] = strobe[c]
      BY <1>1, <2>3 DEF Clk, Grant, StrobeSeen, BusyDone, Hold, arb_vars, IInv, TypeOK
    <3> QED
      BY <3>1, <2>1, <1>2, <1>3 DEF IInv, StrobeRouting, Requests
  <2> QED BY <2>1, <2>2, <2>3, <1>2
<1>4. CASE SdcAsked
  <2>1. Hold
    BY <1>1, <1>4 DEF Clk, Grant, StrobeSeen, BusyDone, IInv, RequestIntact, SdcAsked
  <2>2. UNCHANGED <<strobe, chan, op_start>>
    BY <2>1 DEF Hold, arb_vars
  <2>3. CASE c = chan
    <3>1. ~Requests(c)'
      BY <2>2, <2>3, <1>2, <1>4 DEF IInv, RequestIntact, StrobeParity, Requests
    <3>2. SdcPerform => ~SdcAsked'
      BY <2>2 DEF SdcPerform, SdcAsked
    <3>3. SdcOther => SdcAsked'
      BY <2>2, <1>4 DEF SdcOther, SdcAsked
    <3> QED
      BY <3>1, <3>2, <3>3, <2>2, <2>3, <1>2 DEF IInv, StrobeRouting
  <2>4. CASE c # chan
    <3>1. Requests(c)
      BY <2>4 DEF IInv, StrobeRouting
    <3> QED
      BY <3>1, <2>2, <2>4, <1>2 DEF IInv, StrobeRouting, Requests
  <2> QED BY <2>3, <2>4
<1> QED
  BY <1>3, <1>4 DEF IInv, StrobeRouting

\* A channel without a pending request gets none unless its master asks.
LEMMA IdleStep ==
  ASSUME IInv, IInv', Next, NEW c \in Chan, ~Pending(c), mc_op_start'[c] = mc_op_start[c]
  PROVE  ~Pending(c)'
<1> USE NChanAssumption
<1>1. Clk /\ (SdcPerform \/ SdcOther)
  BY DEF Next, Perform, Other
<1>2. ~Requests(c) /\ ~(SdcAsked /\ c = chan)
  BY DEF IInv, StrobeRouting
<1>3. ~Grant(c)
  BY <1>2 DEF Grant, Wins
<1>4. strobe'[c] = strobe[c]
  BY <1>1, <1>3 DEF Clk, Grant, StrobeSeen, BusyDone, Hold, arb_vars, IInv, TypeOK
<1>5. ~Requests(c)'
  BY <1>2, <1>4 DEF Requests
<1>6. ASSUME SdcAsked', c = chan' PROVE FALSE
  <2>1. sdc_strobe' = sdc_strobe
    BY <1>1, <1>6 DEF Clk, Grant, StrobeSeen, BusyDone, Hold, arb_vars, SdcPerform, SdcOther,
                      SdcAsked, IInv, RequestIntact
  <2>2. \A d \in Chan : ~Grant(d)
    BY <1>3, <1>6 DEF Grant
  <2>3. UNCHANGED <<op_start, chan>>
    BY <1>1, <2>2 DEF Clk, StrobeSeen, BusyDone, Hold, arb_vars
  <2> QED
    BY <1>2, <1>6, <2>1, <2>3 DEF SdcAsked
<1> QED
  BY <1>5, <1>6 DEF IInv, StrobeRouting

\* A channel without a pending request has one as soon as its master asks.
LEMMA AskStep ==
  ASSUME IInv, IInv', Next, NEW c \in Chan, ~Pending(c), mc_op_start'[c] # mc_op_start[c]
  PROVE  Pending(c)'
<1> USE NChanAssumption
<1>1. ~Requests(c)
  BY DEF IInv, StrobeRouting
<1>2. Clk /\ ~Grant(c)
  BY <1>1 DEF Next, Perform, Other, Grant, Wins
<1>3. strobe'[c] = strobe[c]
  BY <1>2 DEF Clk, Grant, StrobeSeen, BusyDone, Hold, arb_vars, IInv, TypeOK
<1> QED
  BY <1>1, <1>3 DEF IInv, StrobeRouting, Requests

\* The arbitrator implements the memory service: each request of each master
\* is performed once, as asked, and acknowledged in the step that performs it.
THEOREM ImplementsService == Spec => ServiceSpec
<1> DEFINE req == [c \in Chan |-> IF Pending(c) THEN mc_op[c] ELSE NoOp]
<1> USE NChanAssumption, OpAssumption
<1>1. Init => Service!Init
  BY DEF Init, ArbInit, Service!Init, Pending, op_strobe, Chan
<1>2. IInv /\ IInv' /\ [Next]_vars => [Service!Next]_<<req, performed>>
  <2>1. ASSUME UNCHANGED vars PROVE UNCHANGED <<req, performed>>
    BY <2>1 DEF vars, arb_vars, mc_vars, sdc_vars, Pending, op_strobe
  <2>2. ASSUME IInv, IInv', Next PROVE Service!Next
    <3>1. /\ req' \in [Chan -> Op \cup {NoOp}]
          /\ \A c \in Chan : c \in Service!Idle <=> ~Pending(c)
          /\ \A c \in Chan : Pending(c) => req[c] = mc_op[c]
          /\ \A c \in Chan : req'[c] = IF Pending(c)' THEN mc_op'[c] ELSE NoOp
      BY <2>2 DEF IInv, TypeOK, Service!Idle
    <3>2. CASE SdcPerform
      <4>1. PICK k \in Chan : k = chan
        BY <2>2 DEF IInv, TypeOK
      <4>2. Pending(k) /\ performed' = req[k]
        BY <2>2, <3>1, <3>2, <4>1 DEF SdcPerform, IInv, TypeOK, RequestIntact, SdcAsked
      <4>3. Service!Change({k})
        BY <2>2, <3>1, <3>2, <4>1, PendingStep DEF Service!Change
      <4>4. Service!Perform(k)
        BY <4>2, <4>3, <3>1 DEF Service!Perform
      <4> QED BY <4>4 DEF Service!Next
    <3>3. CASE SdcOther
      <4>1. Service!Change({})
        BY <2>2, <3>1, <3>3, PendingStep DEF Service!Change
      <4> QED BY <4>1, <3>3 DEF Service!Next, Service!Ask, SdcOther
    <3> QED BY <2>2, <3>2, <3>3 DEF Next, Perform, Other
  <2> QED BY <2>1, <2>2
<1> QED
  BY <1>1, <1>2, Invariance, PTL DEF Spec, ServiceSpec, Service!Spec
=============================================================================
