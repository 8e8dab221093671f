--------------------------- MODULE MCAg71xxRings ---------------------------
(***************************************************************************)
(* A transmit and a receive ring, of any two chips, in one instance.  They *)
(* share the arithmetic of RingCounters and no state: every behaviour is   *)
(* one of the side it starts with, and the other side rests.               *)
(*                                                                         *)
(* The driver does not look at what a frame holds, so it is enough that    *)
(* frames which are in the ring together differ: each holds the number of  *)
(* its place, Payloads being the Counters.                                 *)
(***************************************************************************)
EXTENDS Ag71xxTxRing, Ag71xxRxNapi

VARIABLE side     \* "tx" or "rx"

ringsVars == <<vars, rx_vars, side>>

\* What the receive buffers hold before the first frame matters to nobody.
RingsInit ==
    /\ data = [i \in Slots |-> 0]
    /\ Init /\ RxInit
    /\ side \in {"tx", "rx"}

\* Actions of Next and of RxNext.
Tx(Action) == side = "tx" /\ Action /\ UNCHANGED <<rx_vars, side>>
Rx(Action) == side = "rx" /\ Action /\ UNCHANGED <<vars, side>>

RingsNext ==
    \/ \E n \in 1 .. MaxDesc : Tx(XmitBegin(n))
    \/ Tx(FillDesc) \/ Tx(XmitPublish)
    \/ Tx(TxPackets)
    \/ Tx(HwSend) \/ Tx(HwHalt)
    \/ Tx(LinkDown) \/ Tx(LinkUp) \/ Tx(Linkwatch) \/ Tx(Open) \/ Tx(Stop)
    \/ Rx(HwReceive(rx_hw))
    \/ Rx(HwOverflow) \/ Rx(HwTxDone)
    \/ Rx(Interrupt) \/ Rx(OomTimer)
    \/ Rx(PollTx) \/ Rx(PollRx) \/ Rx(PollAssert) \/ Rx(PollRxEnd) \/ Rx(PollRefill)
    \/ Rx(PollStatus) \/ Rx(PollTxStatus) \/ Rx(PollEnable)
    \/ Rx(RxLinkDown) \/ Rx(RxLinkUp) \/ Rx(MemChange)

\* RxFairness, if that side runs.
RingsSpec ==
    /\ RingsInit /\ [][RingsNext]_ringsVars
    /\ WF_ringsVars(Rx(Interrupt))
    /\ WF_ringsVars(Rx(OomTimer))
    /\ WF_ringsVars(Rx(Poll))
=============================================================================
