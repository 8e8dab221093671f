--------------------------- MODULE MCAg71xxDriver ---------------------------
(***************************************************************************)
(* The life of the device and the cutting of packets into segments, in one *)
(* instance.  They share no state: every behaviour is one of the part it   *)
(* starts with, and the other part rests.                                  *)
(***************************************************************************)
EXTENDS Ag71xxLifecycle, Ag71xxFillDesc

VARIABLE part     \* "life" or "fill"

driverVars == <<vars, fillVars, part>>

\* Which packet is cut matters only if one is.
DriverInit ==
    \/ part = "fill" /\ Init /\ FillBegin /\ size = order
    \/ part = "life" /\ Init /\ FillBegin /\ skbLen = MaxLen

\* Actions of Next and of FillNext.
Life(Action) == part = "life" /\ Action /\ UNCHANGED <<fillVars, part>>
Fill(Action) == part = "fill" /\ Action /\ UNCHANGED <<vars, part>>

\* The loop of fill_dma_desc ends.
FillDone == len = 0 /\ UNCHANGED fillVars

DriverNext ==
    \/ Life(OpenBegin) \/ Life(OpenOk) \/ Life(OpenFails)
    \/ Life(CloseBegin) \/ Life(CloseEnd)
    \/ Life(SetClosed) \/ Life(SetBegin) \/ Life(SetStopped) \/ Life(SetOrder)
    \/ Life(SetOpenOk) \/ Life(SetOpenFails)
    \/ Life(RestartDue) \/ Life(RestartBegin) \/ Life(RestartStopped)
    \/ Life(RestartOk) \/ Life(RestartFails)
    \/ \E l \in {"up", "down"} : Life(Phy(l))
    \/ Life(Linkwatch) \/ Life(Xmit) \/ Life(Irq) \/ Life(Poll) \/ Life(TxTimeout)
    \/ Fill(FillDesc) \/ Fill(FillDone)

\* Fairness of the lifecycle.
DriverSpec ==
    /\ DriverInit /\ [][DriverNext]_driverVars
    /\ WF_driverVars(Life(Holder))
    /\ WF_driverVars(Life(Poll))
=============================================================================
