--------------------------- MODULE Ag71xxLifecycle ---------------------------
(***************************************************************************)
(* The life of an ag71xx device with a PHY: open, stop, ethtool's          *)
(* set_ringparam and restart_work against each other, and against what     *)
(* runs without rtnl: the PHY layer's work, the poll, the watchdog and     *)
(* packets the stack sends.                                                *)
(*                                                                         *)
(* Of the rings only their existence matters here (Ag71xxTxRing and        *)
(* Ag71xxRxNapi model what is in them).  The holder of rtnl gives up the   *)
(* processor at two places: napi_disable waits for a poll in progress, and *)
(* the GFP_KERNEL allocation of rings_init may sleep.  The spinlock that   *)
(* hw_disable holds across the first does not exclude anybody on a         *)
(* uniprocessor kernel once the holder sleeps.                             *)
(***************************************************************************)
CONSTANT Orders     \* the ring orders ethtool may set

ASSUME OrdersAssumption == Orders # {}

VARIABLES
    running,        \* netif_running(dev)
    pc,             \* the next step of the holder of rtnl; "idle": rtnl is free
    rings,          \* "none", "alloc", or "partial": ring_rx_init failed
    size,           \* the order the present rings were allocated with
    order,          \* ring->order
    napi,           \* "off" (disabled), "idle" or "sched"
    queue,          \* the transmit queue: "awake" or "stopped"
    qdisc,          \* whether the stack sends to this device
    link,           \* ag->link, and the carrier with it
    phy,            \* whether the PHY state machine reports: "on", "off"
    work,           \* restart_work: "none" or "pending"
    worker,         \* the worker thread: "idle", at rtnl_lock ("rtnl"), "busy"
    mishaps         \* what the code does not provide against, once it occurs

devVars == <<rings, size, order, napi, queue>>
netVars == <<running, qdisc, link, phy>>
workVars == <<work, worker>>
vars == <<running, pc, rings, size, order, napi, queue, qdisc, link, phy,
          work, worker, mishaps>>

\* "oom":  the rings could not be allocated again, by restart_work (which
\*         ignores it) or by set_ringparam (which leaves the device running);
\* "late": restart_work runs on a closed device;
\* "phy":  the PHY layer changes the link while restart_work sleeps;
\* "poll": a poll hw_disable waits for wakes the queue hw_disable has stopped.
Mishaps == {"oom", "late", "phy", "poll"}

\* The holder of rtnl is in napi_disable.
Waiting == pc \in {"close_napi", "set_napi", "restart_napi"}

Init ==
    /\ running = FALSE /\ pc = "idle"
    /\ rings = "none" /\ size \in Orders /\ order \in Orders
    /\ napi = "off" /\ queue = "awake" /\ qdisc = "noop"
    /\ link = "down" /\ phy = "off"
    /\ work = "none" /\ worker = "idle"
    /\ mishaps = {}

-----------------------------------------------------------------------------
(* ag71xx_hw_disable and ag71xx_hw_enable *)

\* The end of hw_disable: NAPI is off, then rings_cleanup.
NapiOff == napi' = "off" /\ rings' = "none" /\ UNCHANGED size

\* Mutant of HwDisable: the queue is left awake.
HwDisableAwake(wait, next) ==
    /\ IF napi = "idle"
       THEN NapiOff /\ pc' = next
       ELSE pc' = wait /\ UNCHANGED <<napi, rings, size>>
    /\ UNCHANGED queue

\* hw_disable stops the queue and the engines; napi_disable waits (step wait)
\* unless NAPI is enabled and not scheduled.  Step next follows.
HwDisable(wait, next) ==
    /\ queue' = "stopped"
    /\ IF napi = "idle"
       THEN NapiOff /\ pc' = next
       ELSE pc' = wait /\ UNCHANGED <<napi, rings, size>>

\* napi_disable has waited long enough.
NapiWaited(wait, next) ==
    /\ pc = wait /\ napi = "idle"
    /\ NapiOff /\ pc' = next
    /\ UNCHANGED queue

\* Mutant of HwEnableOk: napi_enable is forgotten.
HwEnableNoNapi ==
    /\ rings' = "alloc" /\ size' = order
    /\ queue' = "awake" /\ UNCHANGED napi

\* rings_init and the rest of hw_enable: all goes well ...
HwEnableOk ==
    /\ rings' = "alloc" /\ size' = order
    /\ napi' = "idle" /\ queue' = "awake"

\* ... or there is no memory for the rings, or not for all receive buffers.
HwEnableFails ==
    /\ \/ UNCHANGED <<rings, size>>
       \/ rings' = "partial" /\ size' = order
    /\ UNCHANGED napi

-----------------------------------------------------------------------------
(* Opening and closing *)

\* dev_open calls ag71xx_open.
OpenBegin ==
    /\ pc = "idle" /\ ~running
    /\ running' = TRUE /\ pc' = "open"
    /\ link' = "down"
    /\ UNCHANGED <<devVars, qdisc, phy, workVars, mishaps>>

OpenOk ==
    /\ pc = "open"
    /\ HwEnableOk
    /\ phy' = "on" /\ pc' = "idle"
    /\ UNCHANGED <<order, running, qdisc, link, workVars, mishaps>>

\* The error path: rings_cleanup, and the core takes the device as closed.
OpenFails ==
    /\ pc = "open"
    /\ rings' = "none" /\ running' = FALSE /\ pc' = "idle"
    /\ UNCHANGED <<size, order, napi, queue, qdisc, link, phy, workVars, mishaps>>

\* dev_close deactivates the queue and calls ag71xx_stop: phy_stop, hw_disable.
\* restart_work is not cancelled.
CloseBegin ==
    /\ pc = "idle" /\ running
    /\ running' = FALSE /\ qdisc' = "noop" /\ link' = "down" /\ phy' = "off"
    /\ HwDisable("close_napi", "idle")
    /\ UNCHANGED <<order, workVars, mishaps>>

CloseEnd ==
    /\ NapiWaited("close_napi", "idle")
    /\ UNCHANGED <<order, netVars, workVars, mishaps>>

-----------------------------------------------------------------------------
(* ag71xx_ethtool_set_ringparam *)

SetClosed ==
    /\ pc = "idle" /\ ~running
    /\ order' \in Orders
    /\ UNCHANGED <<pc, rings, size, napi, queue, netVars, workVars, mishaps>>

\* Mutant of SetBegin: the sizes are changed before the device is stopped.
SetBeginOrder ==
    /\ pc = "idle" /\ running
    /\ link' = "down" /\ phy' = "off" /\ order' \in Orders
    /\ HwDisable("set_napi", "set_order")
    /\ UNCHANGED <<running, qdisc, workVars, mishaps>>

\* ndo_stop is called directly: the device stays running and its queue
\* active.
SetBegin ==
    /\ pc = "idle" /\ running
    /\ link' = "down" /\ phy' = "off"
    /\ HwDisable("set_napi", "set_order")
    /\ UNCHANGED <<order, running, qdisc, workVars, mishaps>>

SetStopped ==
    /\ NapiWaited("set_napi", "set_order")
    /\ UNCHANGED <<order, netVars, workVars, mishaps>>

SetOrder ==
    /\ pc = "set_order"
    /\ order' \in Orders /\ pc' = "set_open"
    /\ UNCHANGED <<rings, size, napi, queue, netVars, workVars, mishaps>>

SetOpenOk ==
    /\ pc = "set_open"
    /\ HwEnableOk
    /\ phy' = "on" /\ pc' = "idle"
    /\ UNCHANGED <<order, running, qdisc, link, workVars, mishaps>>

\* ndo_open cleans up and fails, but nobody tells the core.
SetOpenFails ==
    /\ pc = "set_open"
    /\ rings' = "none" /\ pc' = "idle"
    /\ mishaps' = mishaps \union {"oom"}
    /\ UNCHANGED <<size, order, napi, queue, netVars, workVars>>

-----------------------------------------------------------------------------
(* ag71xx_restart_work_func *)

\* The delay is over: the worker takes the work and goes for rtnl.
RestartDue ==
    /\ work = "pending" /\ worker = "idle"
    /\ work' = "none" /\ worker' = "rtnl"
    /\ UNCHANGED <<pc, devVars, netVars, mishaps>>

RestartBegin ==
    /\ worker = "rtnl" /\ pc = "idle"
    /\ worker' = "busy"
    /\ HwDisable("restart_napi", "restart")
    /\ mishaps' = IF running THEN mishaps ELSE mishaps \union {"late"}
    /\ UNCHANGED <<order, netVars, work>>

RestartStopped ==
    /\ NapiWaited("restart_napi", "restart")
    /\ UNCHANGED <<order, netVars, workVars, mishaps>>

\* hw_enable, and link_adjust if the link is up: hw_start wakes the queue.
RestartOk ==
    /\ pc = "restart"
    /\ HwEnableOk
    /\ pc' = "idle" /\ worker' = "idle"
    /\ UNCHANGED <<order, netVars, work, mishaps>>

RestartFails ==
    /\ pc = "restart"
    /\ HwEnableFails
    /\ queue' = IF link = "up" THEN "awake" ELSE queue
    /\ pc' = "idle" /\ worker' = "idle"
    /\ mishaps' = mishaps \union {"oom"}
    /\ UNCHANGED <<order, netVars, work>>

-----------------------------------------------------------------------------
(* What runs without rtnl *)

\* ag71xx_phy_link_adjust.  The PHY layer's work runs when the holder of rtnl
\* sleeps, and then hw_start wakes the queue whatever the holder is doing.
Phy(l) ==
    /\ phy = "on" /\ pc \in {"idle", "restart_napi", "restart"}
    /\ link' = l
    /\ queue' = IF l = "up" THEN "awake" ELSE queue
    /\ mishaps' = IF pc = "idle" THEN mishaps ELSE mishaps \union {"phy"}
    /\ UNCHANGED <<pc, rings, size, order, napi, running, qdisc, phy, workVars>>

\* The linkwatch work needs rtnl.
Linkwatch ==
    /\ pc = "idle" /\ running
    /\ qdisc' = IF link = "up" THEN "active" ELSE "noop"
    /\ UNCHANGED <<pc, devVars, running, link, phy, workVars, mishaps>>

\* The stack hands over a packet, which may fill the ring.
Xmit ==
    /\ qdisc = "active" /\ queue = "awake" /\ rings # "none"
    /\ queue' = "stopped"
    /\ UNCHANGED <<pc, rings, size, order, napi, netVars, workVars, mishaps>>

\* ag71xx_interrupt and the oom timer.  napi_schedule does nothing while
\* napi_disable waits.
Irq ==
    /\ link = "up" /\ napi = "idle" /\ ~Waiting
    /\ napi' = "sched"
    /\ UNCHANGED <<pc, rings, size, order, queue, netVars, workVars, mishaps>>

\* ag71xx_poll.  tx_packets may wake the queue, cancel the work or, if the
\* engine looks stuck, schedule it.  The poll goes on while there is more to
\* do, but not against napi_disable.
Poll ==
    /\ napi = "sched"
    /\ napi' \in IF Waiting THEN {"idle"} ELSE {"idle", "sched"}
    /\ \E progress, stuck \in BOOLEAN :
        /\ stuck => link = "up"
        /\ queue' \in IF progress THEN {queue, "awake"} ELSE {queue}
        /\ work' = IF stuck THEN "pending" ELSE IF progress THEN "none" ELSE work
    /\ mishaps' = IF Waiting /\ queue' # queue THEN mishaps \union {"poll"} ELSE mishaps
    /\ UNCHANGED <<pc, rings, size, order, netVars, worker>>

\* ag71xx_tx_timeout, from the watchdog.
TxTimeout ==
    /\ running /\ qdisc = "active" /\ link = "up" /\ queue = "stopped"
    /\ work' = "pending"
    /\ UNCHANGED <<pc, devVars, netVars, worker, mishaps>>

-----------------------------------------------------------------------------
Holder ==
    \/ OpenOk \/ OpenFails
    \/ CloseEnd
    \/ SetStopped \/ SetOrder \/ SetOpenOk \/ SetOpenFails
    \/ RestartStopped \/ RestartOk \/ RestartFails

Next ==
    \/ OpenBegin \/ OpenOk \/ OpenFails
    \/ CloseBegin \/ CloseEnd
    \/ SetClosed \/ SetBegin \/ SetStopped \/ SetOrder \/ SetOpenOk \/ SetOpenFails
    \/ RestartDue \/ RestartBegin \/ RestartStopped \/ RestartOk \/ RestartFails
    \/ \E l \in {"up", "down"} : Phy(l)
    \/ Linkwatch \/ Xmit \/ Irq \/ Poll \/ TxTimeout

Spec == Init /\ [][Next]_vars

\* The holder of rtnl goes on and a scheduled poll runs.
FairSpec == Spec /\ WF_vars(Holder) /\ WF_vars(Poll)

-----------------------------------------------------------------------------
(* Properties *)

\* The variables have their types.
TypeOK ==
    /\ running \in BOOLEAN
    /\ pc \in {"idle", "open", "close_napi", "set_napi", "set_order", "set_open",
               "restart_napi", "restart"}
    /\ rings \in {"none", "alloc", "partial"}
    /\ size \in Orders /\ order \in Orders
    /\ napi \in {"off", "idle", "sched"}
    /\ queue \in {"awake", "stopped"} /\ qdisc \in {"active", "noop"}
    /\ link \in {"up", "down"} /\ phy \in {"on", "off"}
    /\ work \in {"none", "pending"} /\ worker \in {"idle", "rtnl", "busy"}
    /\ mishaps \subseteq Mishaps

\* hard_start_xmit dereferences the ring without looking: whenever the stack
\* may call it, there is a ring.  Except after an allocation failure, the only
\* times there is none are the gap between hw_disable and hw_enable of
\* restart_work and set_ringparam, if a poll or the PHY layer has woken the
\* queue meanwhile.
RingForTraffic ==
    qdisc = "active" /\ queue = "awake" /\ rings = "none" =>
        \/ "oom" \in mishaps
        \/ pc = "restart" /\ mishaps \intersect {"phy", "poll"} # {}
        \/ pc \in {"set_order", "set_open"} /\ "poll" \in mishaps

\* napi_disable on a NAPI context that is already disabled waits for ever, with
\* rtnl held.  ag71xx_stop, set_ringparam and restart_work get there only after
\* an allocation failure went unnoticed or restart_work outlived ag71xx_stop.
RtnlLost == Waiting /\ napi = "off" => mishaps \intersect {"oom", "late"} # {}

\* rings_free, ring_tx_clean and ring_rx_clean use ring->order: it is still the
\* order the rings were allocated with, whatever ethtool does.
FreedAsAllocated == rings # "none" => size = order

\* rings_init overwrites the pointers to the rings: there are none when it runs.
NoRingLeak == pc \in {"open", "set_open", "restart"} => rings = "none"

\* A closed device has no rings, no NAPI, no link and no traffic, also after an
\* open that failed half way.
ClosedIsQuiet ==
    pc = "idle" /\ ~running =>
        rings = "none" /\ napi = "off" /\ phy = "off" /\ link = "down" /\ qdisc = "noop"

\* Unless an allocation failed, an open device is fully enabled whenever nobody
\* holds rtnl.
OpenIsEnabled ==
    pc = "idle" /\ running /\ "oom" \notin mishaps =>
        rings = "alloc" /\ napi # "off" /\ phy = "on"

\* The parts of the invariant that recur.
Quiet == phy = "off" /\ link = "down" /\ qdisc = "noop"
Off == rings = "none" /\ napi = "off"
QueueHeld(causes) == queue = "stopped" \/ mishaps \intersect causes # {}

\* What the code relies on at each step, from which the invariants above
\* follow: NAPI is enabled only over complete rings; a step that finds NAPI off
\* where it should be on, or a queue awake where it should be stopped, is
\* accounted for by a mishap.
LifecycleInv ==
    /\ napi # "off" => rings = "alloc"
    /\ rings # "none" => size = order
    /\ pc = "idle" /\ ~running => Quiet /\ Off
    /\ pc = "idle" /\ running /\ "oom" \notin mishaps =>
          rings = "alloc" /\ napi # "off" /\ phy = "on"
    /\ pc = "open" => running /\ Quiet /\ Off
    /\ pc = "close_napi" => ~running /\ Quiet /\ (napi = "off" => "oom" \in mishaps)
    /\ pc \in {"set_napi", "set_order", "set_open"} => running /\ phy = "off" /\ link = "down"
    /\ pc = "set_napi" => QueueHeld({"poll"}) /\ (napi = "off" => "oom" \in mishaps)
    /\ pc \in {"set_order", "set_open"} => Off /\ QueueHeld({"poll"})
    /\ pc \in {"restart_napi", "restart"} /\ running /\ "oom" \notin mishaps => phy = "on"
    /\ pc = "restart_napi" /\ running =>
          QueueHeld({"phy", "poll"}) /\ (napi = "off" => "oom" \in mishaps)
    /\ pc = "restart_napi" /\ ~running => Quiet /\ Off /\ "late" \in mishaps
    /\ pc = "restart" => running /\ Off /\ QueueHeld({"phy", "poll"})

\* The holder of rtnl always gives it back, unless one of the two mishaps of
\* RtnlLost occurs.
RtnlReleased ==
    [](mishaps \intersect {"oom", "late"} = {}) => []<>(pc = "idle")
=============================================================================
