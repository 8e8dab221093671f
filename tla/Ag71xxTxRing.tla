---------------------------- MODULE Ag71xxTxRing ----------------------------
(***************************************************************************)
(* The transmit ring of the ag71xx Ethernet driver (AR71xx/AR91xx/AR724x): *)
(* the driver's side (hard_start_xmit, fill_dma_desc, tx_packets), the MAC *)
(* transmit engine that walks the same descriptors, and the events of the  *)
(* process context that run with interrupts off on these uniprocessors:    *)
(* open, stop and the link changes the PHY layer reports.                  *)
(*                                                                         *)
(* The CPU side of xmit is split at every descriptor it writes, because    *)
(* the engine may look at the ring between two of those writes.  The other *)
(* CPU code (softirq or interrupts off) excludes xmit, so it is atomic.    *)
(***************************************************************************)
EXTENDS RingCounters, FiniteSets

CONSTANTS
    DsPerPkt,     \* AG71XX_TX_RING_DS_PER_PKT
    DescSplit,    \* tx_ring.desc_split # 0: a packet may take DsPerPkt slots
    IsAr724x,     \* pdata->is_ar724x: link_adjust performs a fast reset
    FixedLink     \* no PHY device: the link is raised once, by phy_start

\* probe() sets desc_split only on chips that are neither AR724x nor AR91xx.
ASSUME ChipAssumption ==
    /\ DsPerPkt \in Nat \ {0}
    /\ DescSplit \in BOOLEAN /\ IsAr724x \in BOOLEAN /\ FixedLink \in BOOLEAN
    /\ IsAr724x => ~DescSplit

VARIABLES
    curr, dirty,  \* the driver's counters: next slot to fill, next to reap
    own,          \* slots whose descriptor has DESC_EMPTY clear
    more,         \* slots whose descriptor has DESC_MORE set
    skb,          \* slots whose buf[i].skb is not NULL
    queue,        \* the stack's transmit queue: "awake" or "stopped"
    rings,        \* "alloc" between hw_enable and hw_disable, else "none"
    link,         \* ag->link
    qdisc,        \* whether the stack sends to this device: "active", "noop"
    need, ndesc,  \* the packet in hard_start_xmit: slots it takes (0: no
                  \* packet) and slots fill_dma_desc has written so far
    hw,           \* the engine's descriptor pointer, as a counter
    txe,          \* TX_CTRL_TXE: "run" or "halt"
    txps          \* descriptors done and not yet acknowledged in TX_STATUS

driverVars == <<curr, dirty, queue, rings, link, qdisc, need, ndesc>>
vars == <<curr, dirty, own, more, skb, queue, rings, link, qdisc, need, ndesc,
          hw, txe, txps>>

\* curr - dirty: the slots in flight.
InFlight == Minus(curr, dirty)

\* The k-th slot counted from dirty.
At(k) == Slot(dirty + k)

\* The slots of published packets, dirty .. curr - 1.
Window == {At(k) : k \in 0 .. InFlight - 1}

\* The most slots one packet takes.
MaxDesc == IF DescSplit THEN DsPerPkt ELSE 1

\* ring_min of hard_start_xmit.
RingMin == IF DescSplit THEN 2 * DsPerPkt ELSE 2

\* The configurations whose flow control is sound: nothing but tx_packets
\* wakes a queue over a ring in use, and the ring is large enough for the two
\* thresholds (RingMin slots short of full, three quarters full).
SafeConfig ==
    /\ FixedLink \/ IsAr724x
    /\ RingMin <= RingSize
    /\ (RingSize * 3) \div 4 + MaxDesc <= RingSize + 1

Init ==
    /\ curr = 0 /\ dirty = 0 /\ hw = 0
    /\ own = {} /\ more = {} /\ skb = {}
    /\ queue = "awake" /\ rings = "none" /\ link = "down"
    /\ qdisc = "noop" /\ need = 0 /\ ndesc = 0
    /\ txe = "halt" /\ txps = 0

-----------------------------------------------------------------------------
(* ag71xx_hard_start_xmit *)

\* The stack hands over a packet that takes n descriptors.
XmitBegin(n) ==
    /\ rings = "alloc" /\ qdisc = "active" /\ queue = "awake" /\ need = 0
    /\ need' = n /\ ndesc' = 0
    /\ UNCHANGED <<curr, dirty, own, more, skb, queue, rings, link, qdisc, hw, txe, txps>>

\* Mutant of FillDesc: the first descriptor is handed over at once.
FillDescEager ==
    LET i == Slot(curr + ndesc) IN
    /\ ndesc < need /\ i \notin own
    /\ more' = IF ndesc + 1 < need THEN more \union {i} ELSE more \ {i}
    /\ own' = own \union {i}
    /\ ndesc' = ndesc + 1
    /\ UNCHANGED <<curr, dirty, skb, queue, rings, link, qdisc, need, hw, txe, txps>>

\* One iteration of fill_dma_desc.  The first descriptor keeps DESC_EMPTY.  If
\* the descriptor is in use the packet is dropped (err_drop_unmap), and the
\* descriptors already written stay as they are.
FillDesc ==
    LET i == Slot(curr + ndesc) IN
    /\ ndesc < need
    /\ IF i \in own
       THEN /\ need' = 0 /\ ndesc' = 0
            /\ UNCHANGED <<own, more>>
       ELSE /\ more' = IF ndesc + 1 < need THEN more \union {i} ELSE more \ {i}
            /\ own' = IF ndesc = 0 THEN own ELSE own \union {i}
            /\ ndesc' = ndesc + 1
            /\ UNCHANGED need
    /\ UNCHANGED <<curr, dirty, skb, queue, rings, link, qdisc, hw, txe, txps>>

\* Mutant of XmitPublish: the engine is not told of the packet.
XmitPublishNoKick ==
    /\ need > 0 /\ ndesc = need
    /\ skb' = skb \union {Slot(curr + need - 1)}
    /\ own' = own \union {Slot(curr)}
    /\ curr' = Plus(curr, need)
    /\ queue' = IF Minus(curr', dirty) >= Minus(RingSize, RingMin)
                THEN "stopped" ELSE queue
    /\ need' = 0 /\ ndesc' = 0
    /\ UNCHANGED <<dirty, more, rings, link, qdisc, hw, txe, txps>>

\* The rest of hard_start_xmit.  The comparison is between unsigned ints.
XmitPublish ==
    /\ need > 0 /\ ndesc = need
    /\ skb' = skb \union {Slot(curr + need - 1)}
    /\ own' = own \union {Slot(curr)}
    /\ curr' = Plus(curr, need)
    /\ queue' = IF Minus(curr', dirty) >= Minus(RingSize, RingMin)
                THEN "stopped" ELSE queue
    /\ txe' = "run"
    /\ need' = 0 /\ ndesc' = 0
    /\ UNCHANGED <<dirty, more, rings, link, qdisc, hw, txps>>

-----------------------------------------------------------------------------
(* ag71xx_tx_packets *)

\* Mutant of Passed: the loop does not look at DESC_EMPTY.
PassedAll == 0 .. InFlight - 1

\* The loop passes slots until it meets one the engine still owns ...
Passed == {k \in 0 .. InFlight - 1 : \A j \in 0 .. k : At(j) \notin own}

\* ... and dirty moves to just after the last skb it passed.
Reaped(m) ==
    /\ m \in 1 .. InFlight
    /\ m - 1 \in Passed /\ At(m - 1) \in skb
    /\ \A k \in Passed : k >= m => At(k) \notin skb

\* Mutant of TxPackets: the threshold is read before dirty has moved.
TxPacketsStale ==
    /\ rings = "alloc" /\ need = 0
    /\ \E m \in 1 .. InFlight :
        /\ Reaped(m)
        /\ skb' = skb \ {At(k) : k \in 0 .. m - 1}
        /\ dirty' = Plus(dirty, m)
        /\ txps' = IF txps > m THEN txps - m ELSE 0
        /\ queue' = IF InFlight < (RingSize * 3) \div 4 THEN "awake" ELSE queue
    /\ UNCHANGED <<curr, own, more, rings, link, qdisc, need, ndesc, hw, txe>>

TxPackets ==
    /\ rings = "alloc" /\ need = 0
    /\ \E m \in 1 .. InFlight :
        /\ Reaped(m)
        /\ skb' = skb \ {At(k) : k \in 0 .. m - 1}
        /\ dirty' = Plus(dirty, m)
        /\ txps' = IF txps > m THEN txps - m ELSE 0
        /\ queue' = IF Minus(curr, dirty') < (RingSize * 3) \div 4
                    THEN "awake" ELSE queue
    /\ UNCHANGED <<curr, own, more, rings, link, qdisc, need, ndesc, hw, txe>>

-----------------------------------------------------------------------------
(* The transmit engine *)

\* It sends the next descriptor, gives it back and counts it ...
HwSend ==
    /\ txe = "run" /\ Slot(hw) \in own
    /\ own' = own \ {Slot(hw)}
    /\ hw' = Plus(hw, 1)
    /\ txps' = txps + 1
    /\ UNCHANGED <<driverVars, more, skb, txe>>

\* ... and stops at a descriptor that has DESC_EMPTY set.
HwHalt ==
    /\ txe = "run" /\ Slot(hw) \notin own
    /\ txe' = "halt"
    /\ UNCHANGED <<driverVars, own, more, skb, hw, txps>>

-----------------------------------------------------------------------------
(* Link changes, open and stop *)

\* __ag71xx_link_adjust with the link gone: hw_stop.
LinkLost ==
    /\ ~FixedLink /\ need = 0 /\ link = "up"
    /\ link' = "down" /\ txe' = "halt"
    /\ UNCHANGED <<curr, dirty, own, more, skb, queue, rings, qdisc, need, ndesc, hw, txps>>

\* The PHY layer reports changes of an open device.
LinkDown == rings = "alloc" /\ LinkLost

\* The stack learns of a carrier change later, from the linkwatch work.
Linkwatch ==
    /\ ~FixedLink /\ rings = "alloc" /\ need = 0
    /\ qdisc' = IF link = "up" THEN "active" ELSE "noop"
    /\ qdisc' # qdisc
    /\ UNCHANGED <<curr, dirty, own, more, skb, queue, rings, link, need, ndesc,
                   hw, txe, txps>>

\* Mutant of FastReset: the ring is not flushed first.
FastResetNoFlush ==
    /\ txe' = "halt"
    /\ UNCHANGED <<own, skb>>
    /\ curr' = 0 /\ dirty' = 0 /\ hw' = 0 /\ txps' = 0

\* ag71xx_fast_reset: stop the engine, tx_packets(flush), reset the MAC and
\* point everything at the base of the ring.
FastReset ==
    /\ txe' = "halt"
    /\ own' = own \ Window /\ skb' = skb \ Window
    /\ curr' = 0 /\ dirty' = 0 /\ hw' = 0 /\ txps' = 0

\* __ag71xx_link_adjust with the link there (also after a change of speed or
\* duplex): the AR724x resets, and hw_start wakes the queue on every chip.
LinkFound ==
    /\ ~FixedLink /\ need = 0
    /\ link' = "up" /\ queue' = "awake"
    /\ IF IsAr724x THEN FastReset
                   ELSE UNCHANGED <<curr, dirty, own, skb, hw, txe, txps>>
    /\ UNCHANGED <<more, rings, qdisc, need, ndesc>>

LinkUp == rings = "alloc" /\ LinkFound

\* ag71xx_ring_tx_init, on fresh memory; hw_enable points TX_DESC at it.
RingTxInit ==
    /\ curr' = 0 /\ dirty' = 0 /\ hw' = 0
    /\ own' = {} /\ more' = {} /\ skb' = {}

\* ag71xx_ring_tx_clean: what is in flight is freed, and the descriptors with
\* it (rings_free).
RingTxClean ==
    /\ own' = {} /\ more' = {} /\ skb' = skb \ Window
    /\ dirty' = curr

\* ag71xx_open: hw_enable, then phy_start.
Open ==
    /\ rings = "none"
    /\ RingTxInit
    /\ queue' = "awake" /\ rings' = "alloc"
    /\ link' = IF FixedLink THEN "up" ELSE link
    /\ qdisc' = IF FixedLink THEN "active" ELSE "noop"
    /\ UNCHANGED <<need, ndesc, txe, txps>>

\* ag71xx_stop: hw_disable stops queue and engine and clears the status
\* counters before the ring goes.
Stop ==
    /\ rings = "alloc" /\ need = 0
    /\ queue' = "stopped" /\ rings' = "none" /\ link' = "down" /\ qdisc' = "noop"
    /\ txe' = "halt" /\ txps' = 0
    /\ RingTxClean
    /\ UNCHANGED <<curr, need, ndesc, hw>>

Next ==
    \/ \E n \in 1 .. MaxDesc : XmitBegin(n)
    \/ FillDesc \/ XmitPublish
    \/ TxPackets
    \/ HwSend \/ HwHalt
    \/ LinkDown \/ LinkUp \/ Linkwatch \/ Open \/ Stop

Spec == Init /\ [][Next]_vars

\* xmit runs to its end and the engine keeps sending while it is enabled.  The
\* poll that calls tx_packets is a pending softirq: it runs between packets,
\* however many of them follow each other.
Fairness ==
    /\ WF_vars(FillDesc) /\ WF_vars(XmitPublish)
    /\ WF_vars(HwSend)
    /\ SF_vars(TxPackets)

FairSpec == Spec /\ Fairness

-----------------------------------------------------------------------------
TypeOK ==
    /\ curr \in Counters /\ dirty \in Counters /\ hw \in Counters
    /\ own \subseteq Slots /\ more \subseteq Slots /\ skb \subseteq Slots
    /\ queue \in {"awake", "stopped"}
    /\ rings \in {"alloc", "none"}
    /\ link \in {"up", "down"}
    /\ qdisc \in {"active", "noop"}
    /\ need \in 0 .. MaxDesc /\ ndesc \in 0 .. need
    /\ txe \in {"run", "halt"}
    /\ txps \in Nat

\* Descriptors the engine has sent since the last one the driver reaped.
Done == Minus(hw, dirty)

\* fill_dma_desc "prevent[s] early tx attempt" (ag71xx_main.c:779): what the
\* engine is about to send is a descriptor of a packet hard_start_xmit has
\* published, never one it is still filling or one it has given up.
NoEarlyTx ==
    (txe = "run" /\ Slot(hw) \in own) => Done < InFlight

\* The frames the engine cuts at DESC_MORE are the packets tx_packets cuts at
\* buf[i].skb: in flight, a descriptor ends a frame iff its slot holds an skb,
\* and the last one in flight does.
FramesArePackets ==
    /\ \A i \in Window : i \in skb <=> i \notin more
    /\ InFlight > 0 => At(InFlight - 1) \in skb

\* tx_packets frees no packet the engine can still read: a descriptor the
\* engine owns belongs to a packet in flight whose skb is not yet freed, or to
\* the packet being filled.
HeldUntilSent ==
    \A i \in own :
        \/ \E k \in 0 .. InFlight - 1 :
             At(k) = i /\ \E j \in k .. InFlight - 1 : At(j) \in skb
        \/ \E j \in 1 .. ndesc - 1 : At(InFlight + j) = i

\* The flow control of the queue is enough: a packet hard_start_xmit accepts
\* finds every slot it needs free, reaped and without an skb, so that
\* fill_dma_desc never fails and overwrites nothing.
RoomForPacket ==
    need > 0 =>
        /\ InFlight + need <= RingSize
        /\ \A k \in InFlight .. InFlight + need - 1 : At(k) \notin skb

\* The engine's count of sent descriptors, which keeps the interrupt pending,
\* agrees with what tx_packets has yet to acknowledge: none is forgotten and
\* none is acknowledged twice.
StatusCountsDone ==
    rings = "alloc" => txps = Done

\* The counters are in order, what is in flight and the packet being filled fit
\* in the ring, and an awake queue has room for the largest packet.
Bounds ==
    /\ Done <= InFlight /\ InFlight + need <= RingSize
    /\ queue = "awake" /\ need = 0 => InFlight + MaxDesc <= RingSize
    /\ txps = Done

\* The slots the engine owns are those of published packets it has not sent
\* yet and, after a gap of one slot, those of the packet being filled: the gap
\* is the descriptor that keeps DESC_EMPTY until the packet is complete.
Ownership ==
    own = {At(k) : k \in Done .. InFlight - 1}
            \union {At(k) : k \in InFlight + 1 .. InFlight + ndesc - 1}

\* DESC_MORE and the skbs cut the ring into the same packets, the one being
\* filled included.
Packets ==
    /\ skb \subseteq Window
    /\ \A k \in 0 .. InFlight - 1 : At(k) \in skb <=> At(k) \notin more
    /\ InFlight > 0 => At(InFlight - 1) \in skb
    /\ \A j \in 0 .. ndesc - 1 : At(InFlight + j) \in more <=> j + 1 < need

\* The inductive invariant of the ring: while it is allocated, the three above
\* hold of it.
RingInv ==
    /\ rings = "none" => need = 0 /\ dirty = curr /\ own = {} /\ txps = 0
    /\ rings = "alloc" => Bounds /\ Ownership /\ Packets

\* Every packet handed to the ring is freed again, after it was sent or by a
\* reset, unless the link is lost with the packet in the ring.
PacketsComplete ==
    \A i \in Slots : (i \in skb) ~> (i \notin skb \/ link = "down")

\* A queue hard_start_xmit stopped is woken again while the link is up.
QueueWakes ==
    (queue = "stopped") ~> (queue = "awake" \/ link = "down")
=============================================================================
