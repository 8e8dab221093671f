---------------------------- MODULE Ag71xxRxNapi ----------------------------
(***************************************************************************)
(* The receive side of the ag71xx driver: the ring the MAC receive engine  *)
(* fills, the NAPI poll that empties and refills it, the interrupt and the *)
(* out-of-memory timer that start the poll, and the link changes that      *)
(* enable and disable engine and interrupts.                               *)
(*                                                                         *)
(* The engine and the interrupt may act between any two accesses of the    *)
(* poll to the ring or to a register, so the poll is split there.  It is a *)
(* softirq: timers and the link changes (interrupts off) run outside it.   *)
(*                                                                         *)
(* A slot is in one of three stretches of the ring, in this order:         *)
(*   dirty .. curr-1          taken by the poll, waiting for a new buffer; *)
(*   curr .. hw-1             holding a received packet (the backlog);     *)
(*   hw .. dirty+RingSize-1   empty, the engine's.                         *)
(***************************************************************************)
EXTENDS RingCounters

CONSTANTS
    Limit,        \* AG71XX_NAPI_WEIGHT, the poll's budget
    RxAr724x,     \* pdata->is_ar724x: link_adjust performs a fast reset
    Payloads      \* what a frame may hold

ASSUME RxAssumption == Limit \in Nat \ {0} /\ RxAr724x \in BOOLEAN

VARIABLES
    rx_curr, rx_dirty,  \* rx_ring's counters: next slot to take, next to refill
    empty,        \* slots whose descriptor has DESC_EMPTY set
    buf,          \* slots whose buf[i].rx_buf is not NULL
    data,         \* the frame the engine stored in each slot
    rx_hw,           \* the engine's descriptor pointer (RX_DESC), as a counter
    rxe,          \* RX_CTRL_RXE: "run" or "halt"
    pr,           \* RX_STATUS: packets received and not acknowledged
    of,           \* RX_STATUS_OF: "set" or "clear"
    ps,           \* TX_STATUS_PS: transmit completions pending
    int,          \* AG71XX_INT_POLL in INT_ENABLE: "on" or "off"
    napi,         \* NAPI_STATE_SCHED: "sched" or "idle"
    rx_pc, done,     \* the poll: its next step ("idle": not running), rx_done
    timer,        \* oom_timer: "armed" or "off"
    rx_link,         \* ag->link: "up" or "down"
    mem           \* whether buffer allocation may fail: "low" or "ok"

ring == <<rx_curr, rx_dirty, empty, buf, data, rx_hw>>
status == <<rxe, pr, of, ps>>
sched == <<int, napi, timer>>
rx_vars == <<ring, status, sched, rx_pc, done, rx_link, mem>>

\* Received packets the poll has not taken, and slots it has not refilled.
Backlog == Minus(rx_hw, rx_curr)
Unfilled == Minus(rx_curr, rx_dirty)

\* hw_enable and the first link up: ring_rx_init filled the ring.
RxInit ==
    /\ rx_curr = 0 /\ rx_dirty = 0 /\ rx_hw = 0
    /\ empty = Slots /\ buf = Slots
    /\ data \in [Slots -> Payloads]
    /\ rxe = "run" /\ pr = 0 /\ of = "clear" /\ ps = "clear"
    /\ int = "on" /\ napi = "idle" /\ timer = "off"
    /\ rx_pc = "idle" /\ done = 0
    /\ rx_link = "up" /\ mem = "ok"

-----------------------------------------------------------------------------
(* The engine *)

\* A frame arrives and finds an empty descriptor ...
HwReceive(d) ==
    /\ rx_link = "up" /\ rxe = "run" /\ Slot(rx_hw) \in empty
    /\ data' = [data EXCEPT ![Slot(rx_hw)] = d]
    /\ empty' = empty \ {Slot(rx_hw)}
    /\ rx_hw' = Plus(rx_hw, 1)
    /\ pr' = pr + 1
    /\ UNCHANGED <<rx_curr, rx_dirty, buf, rxe, of, ps, sched, rx_pc, done, rx_link, mem>>

\* ... or does not: it is lost, and the engine stops.
HwOverflow ==
    /\ rx_link = "up" /\ rxe = "run" /\ Slot(rx_hw) \notin empty
    /\ rxe' = "halt" /\ of' = "set"
    /\ UNCHANGED <<ring, pr, ps, sched, rx_pc, done, rx_link, mem>>

\* The transmit engine, of which only the status bit matters here.
HwTxDone ==
    /\ rx_link = "up" /\ ps = "clear"
    /\ ps' = "set"
    /\ UNCHANGED <<ring, rxe, pr, of, sched, rx_pc, done, rx_link, mem>>

-----------------------------------------------------------------------------
(* What starts the poll *)

Pending == pr > 0 \/ of = "set" \/ ps = "set"

\* ag71xx_interrupt; napi_schedule has no effect while NAPI is scheduled.
Interrupt ==
    /\ int = "on" /\ Pending
    /\ int' = "off" /\ napi' = "sched"
    /\ UNCHANGED <<ring, status, timer, rx_pc, done, rx_link, mem>>

\* ag71xx_oom_timer_handler
OomTimer ==
    /\ timer = "armed" /\ rx_pc = "idle"
    /\ timer' = "off" /\ napi' = "sched"
    /\ UNCHANGED <<ring, status, int, rx_pc, done, rx_link, mem>>

-----------------------------------------------------------------------------
(* ag71xx_poll *)

\* tx_packets reaps what was sent.
PollTx ==
    /\ napi = "sched" /\ rx_pc = "idle"
    /\ ps' = "clear"
    /\ rx_pc' = "rx" /\ done' = 0
    /\ UNCHANGED <<ring, rxe, pr, of, sched, rx_link, mem>>

\* Mutant of PollRx: DESC_EMPTY is not looked at.
PollRxBlind ==
    /\ rx_pc = "rx" /\ done < Limit
    /\ Plus(rx_dirty, RingSize) # rx_curr
    /\ pr' = IF pr > 0 THEN pr - 1 ELSE 0
    /\ buf' = buf \ {Slot(rx_curr)}
    /\ done' = done + 1
    /\ rx_curr' = Plus(rx_curr, 1)
    /\ UNCHANGED <<rx_dirty, empty, data, rx_hw, rxe, of, ps, sched, rx_pc, rx_link, mem>>

\* The loop of rx_packets takes a packet (build_skb, or the buffer is freed).
PollRx ==
    /\ rx_pc = "rx" /\ done < Limit /\ Slot(rx_curr) \notin empty
    /\ Plus(rx_dirty, RingSize) # rx_curr
    /\ pr' = IF pr > 0 THEN pr - 1 ELSE 0
    /\ buf' = buf \ {Slot(rx_curr)}
    /\ done' = done + 1
    /\ rx_curr' = Plus(rx_curr, 1)
    /\ UNCHANGED <<rx_dirty, empty, data, rx_hw, rxe, of, ps, sched, rx_pc, rx_link, mem>>

\* The whole ring is waiting for buffers: ag71xx_assert(0), which is BUG().
PollAssert ==
    /\ rx_pc = "rx" /\ done < Limit /\ Slot(rx_curr) \notin empty
    /\ Plus(rx_dirty, RingSize) = rx_curr
    /\ rx_pc' = "bug"
    /\ UNCHANGED <<ring, status, sched, done, rx_link, mem>>

PollRxEnd ==
    /\ rx_pc = "rx"
    /\ done >= Limit \/ Slot(rx_curr) \in empty
    /\ rx_pc' = "refill"
    /\ UNCHANGED <<ring, status, sched, done, rx_link, mem>>

\* Mutant of PollRefill: a descriptor too many is given to the engine.
PollRefillMore ==
    /\ rx_pc = "refill"
    /\ \E n \in 0 .. Unfilled :
        /\ mem = "ok" => n = Unfilled
        /\ empty' = empty \union Run(rx_dirty, n + 1)
        /\ buf' = buf \union Run(rx_dirty, n)
        /\ rx_dirty' = Plus(rx_dirty, n)
    /\ IF Slot(rx_dirty') \in buf'
       THEN rx_pc' = "status" /\ UNCHANGED <<napi, timer>>
       ELSE rx_pc' = "idle" /\ timer' = "armed" /\ napi' = "idle"
    /\ UNCHANGED <<rx_curr, data, rx_hw, status, int, done, rx_link, mem>>

\* Mutant of PollRefill: the timer is not armed.
PollRefillNoTimer ==
    /\ rx_pc = "refill"
    /\ \E n \in 0 .. Unfilled :
        /\ mem = "ok" => n = Unfilled
        /\ empty' = empty \union Run(rx_dirty, n)
        /\ buf' = buf \union Run(rx_dirty, n)
        /\ rx_dirty' = Plus(rx_dirty, n)
    /\ IF Slot(rx_dirty') \in buf'
       THEN rx_pc' = "status" /\ UNCHANGED <<napi, timer>>
       ELSE rx_pc' = "idle" /\ napi' = "idle" /\ UNCHANGED timer
    /\ UNCHANGED <<rx_curr, data, rx_hw, status, int, done, rx_link, mem>>

\* ag71xx_ring_rx_refill, up to the first allocation that fails.  If the next
\* slot is still without a buffer, poll leaves it to the timer (oom).
PollRefill ==
    /\ rx_pc = "refill"
    /\ \E n \in 0 .. Unfilled :
        /\ mem = "ok" => n = Unfilled
        /\ empty' = empty \union Run(rx_dirty, n)
        /\ buf' = buf \union Run(rx_dirty, n)
        /\ rx_dirty' = Plus(rx_dirty, n)
    /\ IF Slot(rx_dirty') \in buf'
       THEN rx_pc' = "status" /\ UNCHANGED <<napi, timer>>
       ELSE rx_pc' = "idle" /\ timer' = "armed" /\ napi' = "idle"
    /\ UNCHANGED <<rx_curr, data, rx_hw, status, int, done, rx_link, mem>>

\* Mutant of PollStatus: the overflow is only acknowledged.
PollStatusNoRestart ==
    /\ rx_pc = "status"
    /\ of' = "clear"
    /\ rx_pc' = IF done < Limit /\ pr = 0 THEN "txstatus" ELSE "idle"
    /\ UNCHANGED <<ring, rxe, pr, ps, sched, done, rx_link, mem>>

\* Reads RX_STATUS: restarts the engine after an overflow, and polls again if
\* the budget is used up or packets wait.
PollStatus ==
    /\ rx_pc = "status"
    /\ of' = "clear"
    /\ rxe' = IF of = "set" THEN "run" ELSE rxe
    /\ rx_pc' = IF done < Limit /\ pr = 0 THEN "txstatus" ELSE "idle"
    /\ UNCHANGED <<ring, pr, ps, sched, done, rx_link, mem>>

\* Reads TX_STATUS; napi_complete if nothing waits there either.
PollTxStatus ==
    /\ rx_pc = "txstatus"
    /\ IF ps = "set" THEN rx_pc' = "idle" /\ UNCHANGED napi
                     ELSE rx_pc' = "enable" /\ napi' = "idle"
    /\ UNCHANGED <<ring, status, int, timer, done, rx_link, mem>>

\* Mutant of PollEnable: the interrupt stays off.
PollEnableForgotten ==
    /\ rx_pc = "enable"
    /\ rx_pc' = "idle"
    /\ UNCHANGED <<ring, status, int, napi, timer, done, rx_link, mem>>

PollEnable ==
    /\ rx_pc = "enable"
    /\ int' = "on" /\ rx_pc' = "idle"
    /\ UNCHANGED <<ring, status, napi, timer, done, rx_link, mem>>

-----------------------------------------------------------------------------
(* __ag71xx_link_adjust, and memory *)

\* hw_stop
RxLinkDown ==
    /\ rx_pc = "idle" /\ rx_link = "up"
    /\ rx_link' = "down" /\ int' = "off" /\ rxe' = "halt"
    /\ UNCHANGED <<ring, pr, of, ps, napi, timer, rx_pc, done, mem>>

\* hw_start, after a fast reset on the AR724x: dma_reset clears the status
\* registers, and RX_DESC is put back.
RxLinkUp ==
    /\ rx_pc = "idle"
    /\ rx_link' = "up" /\ int' = "on" /\ rxe' = "run"
    /\ IF RxAr724x THEN pr' = 0 /\ of' = "clear" /\ ps' = "clear"
                   ELSE UNCHANGED <<pr, of, ps>>
    /\ UNCHANGED <<ring, napi, timer, rx_pc, done, mem>>

MemChange ==
    /\ mem' = IF mem = "ok" THEN "low" ELSE "ok"
    /\ UNCHANGED <<ring, status, sched, rx_pc, done, rx_link>>

Poll ==
    \/ PollTx \/ PollRx \/ PollAssert \/ PollRxEnd \/ PollRefill
    \/ PollStatus \/ PollTxStatus \/ PollEnable

RxNext ==
    \/ \E d \in Payloads : HwReceive(d)
    \/ HwOverflow \/ HwTxDone
    \/ Interrupt \/ OomTimer
    \/ PollTx \/ PollRx \/ PollAssert \/ PollRxEnd \/ PollRefill
    \/ PollStatus \/ PollTxStatus \/ PollEnable
    \/ RxLinkDown \/ RxLinkUp \/ MemChange

RxSpec == RxInit /\ [][RxNext]_rx_vars

\* A raised interrupt is taken, an armed timer expires and a scheduled poll
\* runs; nothing is assumed of traffic, link and memory.
RxFairness == WF_rx_vars(Interrupt) /\ WF_rx_vars(OomTimer) /\ WF_rx_vars(Poll)

RxFairSpec == RxSpec /\ RxFairness

-----------------------------------------------------------------------------
RxTypeOK ==
    /\ rx_curr \in Counters /\ rx_dirty \in Counters /\ rx_hw \in Counters
    /\ empty \subseteq Slots /\ buf \subseteq Slots
    /\ data \in [Slots -> Payloads]
    /\ rxe \in {"run", "halt"} /\ pr \in Nat
    /\ of \in {"set", "clear"} /\ ps \in {"set", "clear"}
    /\ int \in {"on", "off"} /\ napi \in {"sched", "idle"}
    /\ timer \in {"armed", "off"}
    /\ rx_pc \in {"idle", "rx", "refill", "status", "txstatus", "enable", "bug"}
    /\ done \in 0 .. Limit
    /\ rx_link \in {"up", "down"} /\ mem \in {"ok", "low"}

\* Every slot the engine may write to and every slot rx_packets passes to
\* build_skb has a buffer, however often the refill fails.
DmaTarget == empty \union Run(rx_curr, Backlog) \subseteq buf

\* RX_STATUS counts the packets of the ring: each is acknowledged once.  On
\* the AR724x a fast reset forgets what it counted.
StatusCountsBacklog ==
    /\ pr <= Backlog
    /\ ~RxAr724x => pr = Backlog

\* No wakeup is lost: while the link is up, the interrupt is enabled or a
\* scheduled poll or the timer is on the way, so that a status bit that is set
\* is always seen.
NoLostWakeup ==
    rx_link = "up" =>
        int = "on" \/ napi = "sched" \/ timer = "armed" \/ rx_pc \in {"enable", "bug"}

\* The three stretches make up the ring.
Stretches ==
    /\ Unfilled + Backlog <= RingSize
    /\ empty = Run(rx_hw, RingSize - Unfilled - Backlog)
    /\ buf = Run(rx_curr, RingSize - Unfilled)

\* A poll keeps NAPI_STATE_SCHED until it calls napi_complete.
PollScheduled == rx_pc \in {"rx", "refill", "status", "txstatus"} => napi = "sched"

\* The inductive invariant of the receive side.
RxInv == Stretches /\ StatusCountsBacklog /\ PollScheduled /\ NoLostWakeup

\* rx_packets' ag71xx_assert(0) is never reached.
NoAssert == rx_pc # "bug"

\* The ring implements a queue of RingSize packets: rx_packets hands over what
\* the engine stored, in that order, each packet once.
backlog == [k \in 1 .. Backlog |-> data[Slot(rx_curr + k - 1)]]
Fifo == INSTANCE PacketFifo WITH q <- backlog, Capacity <- RingSize
ImplementsFifo == Fifo!Spec

\* If memory is available from some time on and the assertion is not hit, the
\* poll keeps taking packets as long as there are any and the link is up: none
\* is left in the ring for want of an interrupt or a timer.
Delivered ==
    [](rx_pc # "bug") /\ <>[](mem = "ok") =>
        (<>[](Backlog > 0 /\ rx_link = "up") => []<><<PollRx>>_rx_vars)

\* An engine that stopped for want of an empty descriptor is started again.
RxRestarts ==
    [](rx_pc # "bug") /\ <>[](mem = "ok") =>
        (rxe = "halt" /\ rx_link = "up") ~> (rxe = "run" \/ rx_link = "down")
=============================================================================
