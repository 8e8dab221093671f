--------------------------- MODULE Ag71xxTxRestart ---------------------------
(***************************************************************************)
(* The recovery of a transmit engine that hangs: the queue's watchdog and  *)
(* check_dma_stuck schedule restart_work, which rebuilds the rings and, on *)
(* the AR724x, performs a fast reset.                                      *)
(*                                                                         *)
(* restart_work holds rtnl but neither ag->lock nor the queue's lock, and  *)
(* netif_start_queue in hw_enable has already woken the queue: a softirq   *)
(* may send packets between any two steps of the fast reset.  This module  *)
(* therefore splits what is the single step FastReset of Ag71xxTxRing when *)
(* the PHY layer calls it with interrupts off.  The work sleeps at two     *)
(* places: in napi_disable, where the poll it waits for still runs, and in *)
(* the allocation of the new ring; the PHY layer's work may run at both.   *)
(* The device stays open, and the allocation does not fail                 *)
(* (Ag71xxLifecycle models what follows if it does).                       *)
(***************************************************************************)
EXTENDS Ag71xxTxRing

VARIABLES
    pc,           \* the next step of restart_work ("idle": not running)
    work,         \* restart_work: "pending" or "none"
    at,           \* what TX_DESC points at: the "ring" or the "stop" descriptor
    hung,         \* whether the engine hangs: "yes" or "no"
    disturbed     \* history: a packet was sent while the last restart ran

restartVars == <<pc, work, at, hung, disturbed>>
rvars == <<vars, restartVars>>

RInit == Init /\ pc = "idle" /\ work = "none" /\ at = "ring" /\ hung = "no"
         /\ disturbed = FALSE

-----------------------------------------------------------------------------
(* The actions of Ag71xxTxRing, and what lets them run *)

\* A softirq runs to its end before the work goes on.
Xmit ==
    /\ \/ /\ \E n \in 1 .. MaxDesc : XmitBegin(n)
          /\ disturbed' = (disturbed \/ pc # "idle")
       \/ (FillDesc \/ XmitPublish) /\ UNCHANGED disturbed
    /\ UNCHANGED <<pc, work, at, hung>>

Engine ==
    /\ hung = "no" /\ at = "ring"
    /\ HwSend \/ HwHalt
    /\ UNCHANGED restartVars

\* The PHY layer's work runs, and the device is open.
PhyRuns == (pc = "idle" /\ rings = "alloc") \/ pc \in {"disable", "enable"}

\* The linkwatch work and ag71xx_open need rtnl.
Link ==
    /\ (PhyRuns /\ LinkLost) \/ (pc = "idle" /\ (Linkwatch \/ Open))
    /\ UNCHANGED restartVars

\* On the AR724x the reset of the MAC gets the engine going again and points
\* it at the ring, and tx_packets(flush) cancels the work if it frees a packet.
LinkReset ==
    /\ PhyRuns /\ LinkFound
    /\ hung' = IF IsAr724x THEN "no" ELSE hung
    /\ at' = IF IsAr724x THEN "ring" ELSE at
    /\ work' = IF IsAr724x /\ InFlight > 0 THEN "none" ELSE work
    /\ UNCHANGED <<pc, disturbed>>

HwHang ==
    /\ hung = "no" /\ txe = "run" /\ at = "ring"
    /\ hung' = "yes"
    /\ UNCHANGED <<vars, pc, work, at, disturbed>>

-----------------------------------------------------------------------------
(* What schedules the work *)

\* check_dma_stuck, called when the loop of tx_packets ends at a descriptor
\* the engine still owns.  It reads the state machines of the MAC, of which
\* nothing is assumed.
MayBeStuck == IsAr724x /\ link = "up" /\ Window \intersect own # {}

\* The poll runs, at "disable" the one napi_disable waits for.  After hw_enable
\* the interrupts are on if the PHY layer's work has run meanwhile, until
\* fast_reset turns them off.
PollRuns == pc \in {"idle", "disable", IF IsAr724x THEN "stop" ELSE "start"}

\* tx_packets: progress cancels the work, unless the engine looks stuck.
Reap ==
    /\ PollRuns
    /\ TxPackets
    /\ \/ work' = "none"
       \/ MayBeStuck /\ work' = "pending"
    /\ UNCHANGED <<pc, at, hung, disturbed>>

\* tx_packets that reaps nothing.
DmaStuck ==
    /\ PollRuns /\ rings = "alloc" /\ need = 0
    /\ MayBeStuck /\ ~\E m \in 1 .. InFlight : Reaped(m)
    /\ work' = "pending"
    /\ UNCHANGED <<vars, pc, at, hung, disturbed>>

\* ag71xx_tx_timeout, called by the watchdog for a queue stopped too long.
TxTimeout ==
    /\ need = 0 /\ queue = "stopped" /\ qdisc = "active" /\ link = "up"
    /\ work' = "pending"
    /\ UNCHANGED <<vars, pc, at, hung, disturbed>>

-----------------------------------------------------------------------------
(* ag71xx_restart_work_func *)

\* Step s of the work leads to step t; the softirq is not in the middle of a
\* packet.
Step(s, t) ==
    /\ pc = s /\ need = 0
    /\ pc' = t

\* hw_disable: queue and engine are stopped ...
HwDisable ==
    /\ work = "pending" /\ rings = "alloc"
    /\ Step("idle", "disable")
    /\ work' = "none" /\ at' = "stop" /\ disturbed' = FALSE
    /\ queue' = "stopped" /\ txe' = "halt" /\ txps' = 0
    /\ UNCHANGED <<curr, dirty, own, more, skb, rings, link, qdisc, need, ndesc, hw, hung>>

\* ... and, after napi_disable, everything in the ring is freed.
RingsCleanup ==
    /\ Step("disable", "enable")
    /\ rings' = "none" /\ RingTxClean
    /\ UNCHANGED <<curr, queue, link, qdisc, need, ndesc, hw, txe, txps,
                   work, at, hung, disturbed>>

\* Mutant of HwEnable: the counters of the old ring are kept.
HwEnableOldCounters ==
    /\ Step("enable", IF link = "down" THEN "idle" ELSE IF IsAr724x THEN "stop" ELSE "start")
    /\ own' = {} /\ more' = {} /\ skb' = {} /\ hw' = 0 /\ at' = "ring"
    /\ queue' = "awake" /\ rings' = "alloc"
    /\ UNCHANGED <<curr, dirty, link, qdisc, need, ndesc, txe, txps, work, hung, disturbed>>

\* Mutant of HwEnable: the link is not adjusted afterwards.
HwEnableOnly ==
    /\ Step("enable", "idle")
    /\ RingTxInit /\ at' = "ring"
    /\ queue' = "awake" /\ rings' = "alloc"
    /\ UNCHANGED <<link, qdisc, need, ndesc, txe, txps, work, hung, disturbed>>

\* hw_enable: a new ring, and the queue is started.  Unless the link is down,
\* __ag71xx_link_adjust follows.
HwEnable ==
    /\ Step("enable", IF link = "down" THEN "idle" ELSE IF IsAr724x THEN "stop" ELSE "start")
    /\ RingTxInit /\ at' = "ring"
    /\ queue' = "awake" /\ rings' = "alloc"
    /\ UNCHANGED <<link, qdisc, need, ndesc, txe, txps, work, hung, disturbed>>

\* fast_reset: hw_stop ...
HwStop ==
    /\ Step("stop", "flush")
    /\ txe' = "halt"
    /\ UNCHANGED <<driverVars, own, more, skb, hw, txps, work, at, hung, disturbed>>

\* ... tx_packets(flush) ...
Flush ==
    /\ Step("flush", "reset")
    /\ own' = own \ Window /\ skb' = skb \ Window
    /\ dirty' = curr
    /\ txps' = IF txps > InFlight THEN txps - InFlight ELSE 0
    /\ queue' = IF InFlight > 0 THEN "awake" ELSE queue
    /\ work' = IF InFlight > 0 THEN "none" ELSE work
    /\ UNCHANGED <<curr, more, rings, link, qdisc, need, ndesc, hw, txe, at, hung, disturbed>>

\* ... the reset of the MAC ...
MacReset ==
    /\ Step("reset", "dma_stop")
    /\ txe' = "halt" /\ hung' = "no"
    /\ UNCHANGED <<driverVars, own, more, skb, hw, txps, work, at, disturbed>>

\* ... dma_reset, before and after its delay ...
DmaResetStop ==
    /\ Step("dma_stop", "dma_clear")
    /\ txe' = "halt"
    /\ UNCHANGED <<driverVars, own, more, skb, hw, txps, work, at, hung, disturbed>>

DmaResetClear ==
    /\ Step("dma_clear", "curr")
    /\ at' = "stop" /\ txps' = 0
    /\ UNCHANGED <<driverVars, own, more, skb, hw, txe, work, hung, disturbed>>

\* ... the counters ...
ResetCurr ==
    /\ Step("curr", "dirty")
    /\ curr' = 0
    /\ UNCHANGED <<dirty, own, more, skb, queue, rings, link, qdisc, need, ndesc,
                   hw, txe, txps, work, at, hung, disturbed>>

ResetDirty ==
    /\ Step("dirty", "desc")
    /\ dirty' = 0
    /\ UNCHANGED <<curr, own, more, skb, queue, rings, link, qdisc, need, ndesc,
                   hw, txe, txps, work, at, hung, disturbed>>

\* ... and TX_DESC.
SetDesc ==
    /\ Step("desc", "start")
    /\ at' = "ring" /\ hw' = 0
    /\ UNCHANGED <<driverVars, own, more, skb, txe, txps, work, hung, disturbed>>

HwStart ==
    /\ Step("start", "idle")
    /\ queue' = "awake"
    /\ UNCHANGED <<curr, dirty, own, more, skb, rings, link, qdisc, need, ndesc,
                   hw, txe, txps, work, at, hung, disturbed>>

RestartWork ==
    \/ HwDisable \/ RingsCleanup \/ HwEnable \/ HwStop \/ Flush \/ MacReset
    \/ DmaResetStop \/ DmaResetClear \/ ResetCurr \/ ResetDirty \/ SetDesc \/ HwStart

RNext ==
    \/ Xmit \/ Engine \/ Link \/ LinkReset \/ HwHang
    \/ Reap \/ DmaStuck \/ TxTimeout
    \/ HwDisable \/ RingsCleanup \/ HwEnable \/ HwStop \/ Flush \/ MacReset
    \/ DmaResetStop \/ DmaResetClear \/ ResetCurr \/ ResetDirty \/ SetDesc \/ HwStart

RSpec == RInit /\ [][RNext]_rvars

\* The watchdog fires on a queue that stays stopped, and work that is due and
\* not cancelled runs to its end.
RFairSpec ==
    /\ RSpec
    /\ WF_rvars(FillDesc /\ UNCHANGED restartVars)
    /\ WF_rvars(XmitPublish /\ UNCHANGED restartVars)
    /\ WF_rvars(TxTimeout) /\ WF_rvars(RestartWork)

-----------------------------------------------------------------------------
\* Whatever the ring was like before (an earlier restart may have spoilt it), it
\* is as Ag71xxTxRing promises whenever the work is not running, unless a packet
\* was sent while it last ran; also if the link has changed meanwhile.
SoundRing == pc = "idle" /\ ~disturbed => RingInv /\ at = "ring"

\* Why: nothing but hw_enable's empty ring exists while the work goes through
\* the fast reset, if no packet is sent meanwhile.
EmptyRing ==
    /\ rings = "alloc" /\ need = 0 /\ ndesc = 0
    /\ curr = 0 /\ dirty = 0 /\ hw = 0 /\ txps = 0
    /\ own = {} /\ skb = {}

Calm ==
    /\ pc = "idle" => RingInv /\ at = "ring"
    /\ pc # "idle" => need = 0 /\ txe = "halt" /\ txps = 0
    /\ pc \notin {"idle", "disable", "enable"} => EmptyRing
    /\ pc = "start" => at = "ring"

RestartInv ==
    /\ TypeOK
    /\ pc = "disable" => rings = "alloc"
    /\ pc = "enable" => rings = "none" /\ need = 0 /\ dirty = curr /\ own = {}
    /\ ~disturbed => Calm

\* An engine that hangs is found out and reset if there is traffic: it cannot
\* hang for ever while the queue is stopped again and again.
HangRecovers ==
    <>[](hung = "yes" /\ link = "up") => <>[](queue = "awake")

\* "give the hardware some time to really stop all rx/tx activity" and "clearing
\* the descriptors too early causes random memory corruption"
\* (ag71xx_main.c:375-376): dma_reset changes TX_DESC only while the engine is
\* off.
StoppedBeforeClear == [][DmaResetClear => txe = "halt"]_rvars
=============================================================================
