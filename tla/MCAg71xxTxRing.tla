--------------------------- MODULE MCAg71xxTxRing ---------------------------
(***************************************************************************)
(* The transmit ring with a link of any kind (Spec), and with a fixed one, *)
(* for which the link actions of Next are never enabled.                   *)
(***************************************************************************)
EXTENDS Ag71xxTxRing

FixedNext ==
    \/ \E n \in 1 .. MaxDesc : XmitBegin(n)
    \/ FillDesc \/ XmitPublish
    \/ TxPackets
    \/ HwSend \/ HwHalt
    \/ Open \/ Stop

FixedSpec == FixedLink /\ Init /\ [][FixedNext]_vars /\ Fairness
=============================================================================
