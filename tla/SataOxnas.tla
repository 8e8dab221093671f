------------------------------ MODULE SataOxnas ------------------------------
(***************************************************************************)
(* The oxnas SATA driver: one core serves two ports, and only the port     *)
(* that holds the core may have commands in hand.  The driver takes the    *)
(* core in the qc_new and acquire_hw hooks which the repository's libata   *)
(* patch adds, and gives it back in qc_free.                               *)
(*                                                                         *)
(* The actors run on two processors: queuecommand under the host lock, the *)
(* interrupt handler (which does not take it), and an error handler (EH)   *)
(* thread per port.  libata serialises the error handlers with eh_mutex,   *)
(* which it gives up while an internal command is in flight.               *)
(*                                                                         *)
(* Left out: direct access to the core (hw_access = 0), which nothing in   *)
(* the repository asks for, and with it the callbacks, direct_lock_count   *)
(* and scsi_nonblocking_attempts, which only direct access reads;          *)
(* locker_uid and current_locker_type, which change with core_locked.      *)
(***************************************************************************)
EXTENDS Integers, FiniteSets

CONSTANTS
    Ports,          \* the port numbers, 0 among them
    HotPorts,       \* those whose cable is plugged and pulled
    Tags,           \* the tags of SCSI commands
    Internal        \* ATA_TAG_INTERNAL

ASSUME PortsAssumption == Ports \subseteq Nat /\ 0 \in Ports /\ HotPorts \subseteq Ports
ASSUME TagsAssumption == IsFiniteSet(Ports) /\ IsFiniteSet(Tags) /\ Internal \notin Tags

VARIABLES
    core_locked, reentrant_port_no, hw_lock_count,      \* the core's lock
    port_in_eh, port_frozen,    \* bit masks, as sets of ports
    qc,             \* the state of every command, by port and tag
    eh,             \* the next step of every port's EH thread
    eh_mutex,       \* the port whose EH holds it, or -1
    awake, expired, \* a sleeper has been woken; its two seconds are over
    enabled,        \* CORE_INT_ENABLE: the ports whose END interrupt is on
    pending,        \* CORE_INT_STATUS: the ports whose END interrupt is raised
    link,           \* the ports with a cable and a disk
    serror,         \* the ports whose SERROR shows that the link has changed
    todo, setup     \* sata_oxnas_cleanup: the ports post_reset_init is still to
                    \* be called for, and the one it is at work on, or -1

lockVars == <<core_locked, reentrant_port_no, hw_lock_count>>
maskVars == <<port_in_eh, port_frozen>>
ehVars == <<eh, eh_mutex>>
waitVars == <<awake, expired>>
irqVars == <<enabled, pending>>
linkVars == <<link, serror>>
cleanVars == <<todo, setup>>
vars == <<lockVars, maskVars, qc, ehVars, waitVars, irqVars, linkVars, cleanVars>>

Slots == Ports \X (Tags \cup {Internal})

\* "checked", "new": within queuecommand, before and after taking the core;
\* "taken": the core is taken for an internal command which is not yet issued;
\* "issued", "ended", "lost": the hardware works on it, has finished it, or was
\* reset under it; "failed": left to EH; "done": an internal command is over.
QcStates == {"free", "checked", "new", "taken", "issued", "ended", "lost",
             "failed", "done"}
EhStates == {"idle", "run", "cleaned", "ready", "denied", "wait", "got",
             "flight", "relock", "post", "posted", "finish"}

\* The commands which hold the core, and those which libata believes active.
Holders == {s \in Slots : qc[s] \notin {"free", "checked"}}
Active(p) == {s \in Slots : s[1] = p /\ qc[s] \in {"issued", "ended", "lost"}}
Failed(p) == {s \in Slots : s[1] = p /\ s[2] # Internal /\ qc[s] = "failed"}

\* queuecommand holds the host lock from its first test to the issue.
HostLocked == \E s \in Slots : qc[s] \in {"checked", "new"}
Waiting(p) == eh[p] = "wait"

Init ==
    /\ core_locked = FALSE /\ reentrant_port_no = -1 /\ hw_lock_count = 0
    /\ port_in_eh = {} /\ port_frozen = {}
    /\ qc = [s \in Slots |-> "free"]
    /\ eh = [p \in Ports |-> "idle"] /\ eh_mutex = -1
    /\ awake = [p \in Ports |-> FALSE] /\ expired = [p \in Ports |-> FALSE]
    /\ enabled = Ports /\ pending = {}
    /\ link \in SUBSET Ports /\ serror = {}
    /\ todo = {} /\ setup = -1

-----------------------------------------------------------------------------
(* The lock of the core *)

\* __acquire_sata_core, for the SCSI/SATA stack: the core is free, or its lock
\* is held for the same port.
CanAcquire(p) == ~core_locked \/ reentrant_port_no = p

\* Every waiter of scsi_wait_queue is woken.
WakeUp == awake' = [p \in Ports |-> Waiting(p)]

\* So are the others when one has got the core; a port's EH thread is the only
\* one to wait for the port.
WakeOthers(p) == awake' = [q \in Ports |-> Waiting(q) /\ q # p]

\* Mutant of Acquire: a nested acquisition is not counted.
AcquireFlat(p) ==
    /\ core_locked' = TRUE /\ reentrant_port_no' = p
    /\ hw_lock_count' = 1
    /\ WakeOthers(p)

Acquire(p) ==
    /\ core_locked' = TRUE /\ reentrant_port_no' = p
    /\ hw_lock_count' = hw_lock_count + 1
    /\ WakeOthers(p)

\* Mutant of Release: the first of several holders unlocks the core.
ReleaseFirst(p) ==
    /\ core_locked' = FALSE /\ reentrant_port_no' = -1 /\ hw_lock_count' = 0
    /\ WakeUp

\* sata_oxnas_release_hw
Release(p) ==
    IF ~core_locked \/ hw_lock_count = 0
    THEN UNCHANGED <<lockVars, awake>>
    ELSE /\ hw_lock_count' = hw_lock_count - 1
         /\ IF hw_lock_count = 1
            THEN core_locked' = FALSE /\ reentrant_port_no' = -1 /\ WakeUp
            ELSE UNCHANGED <<core_locked, reentrant_port_no, awake>>

-----------------------------------------------------------------------------
(* The registers of the core *)

\* sata_oxnas_irq_on: pending interrupts of the port are dropped, END is on.
IrqOn(p, on, raised) == enabled' = on \cup {p} /\ pending' = raised \ {p}

\* sata_oxnas_qc_issue: every END interrupt of the core is turned off, tf_load
\* turns on the port's own, and then port 0's is turned on.  If the core stays
\* busy it is cleaned up first, in one step here: no other command is in hand
\* then, and the interrupts it raises for other ports find none.
HwIssue(p) ==
    \/ IrqOn(p, {0}, pending) /\ UNCHANGED serror
    \/ \E left \in SUBSET link : IrqOn(p, {0}, left) /\ serror' = {}

\* The hardware will not report these commands any more.
Lose(cmds, lost) ==
    [s \in Slots |-> IF s \in lost /\ cmds[s] \in {"issued", "ended"} THEN "lost"
                     ELSE cmds[s]]

\* sata_oxnas_cleanup begins: the reset of the core drops what the hardware was
\* doing for either port, with the registers.
CleanupCore ==
    /\ qc' = Lose(qc, Slots)
    /\ enabled' = {} /\ pending' = {} /\ serror' = {}
    /\ todo' = Ports
    /\ UNCHANGED <<link, setup>>

Clean == todo = {} /\ setup = -1

\* ... post_reset_init for one port after the other: irq_on drops the END of a
\* command that was let in before port_in_eh was set, and the hard reset of the
\* link, which now begins, stops it.
PortInit(n) ==
    /\ setup = -1 /\ n \in todo /\ \A m \in todo : n <= m
    /\ setup' = n /\ todo' = todo \ {n}
    /\ serror' = serror \ {n} /\ IrqOn(n, enabled, pending)
    /\ qc' = Lose(qc, {n} \X (Tags \cup {Internal}))
    /\ UNCHANGED <<lockVars, maskVars, ehVars, waitVars, link>>

\* The link goes down and up again in sata_std_hardreset, which sleeps: with
\* the interrupt already on that raises it.
LinkReset(n) ==
    /\ setup = n /\ n \in link
    /\ serror' = serror \cup {n} /\ pending' = pending \cup {n}
    /\ UNCHANGED <<lockVars, maskVars, qc, ehVars, waitVars, enabled, link, cleanVars>>

\* The end of post_reset_init: SCR_ERROR is cleared, the interrupt is not.
PortInitEnd(n) ==
    /\ setup = n
    /\ setup' = -1 /\ serror' = serror \ {n}
    /\ UNCHANGED <<lockVars, maskVars, qc, ehVars, waitVars, irqVars, link, todo>>

-----------------------------------------------------------------------------
(* queuecommand, for port p with tag t *)

\* sata_oxnas_qc_new looks at the masks.  SCSI sends nothing to a port whose
\* commands EH is to deal with, libata nothing to a frozen port.
QcNew(p, t) ==
    /\ qc[<<p, t>>] = "free" /\ ~HostLocked
    /\ eh[p] = "idle" /\ Failed(p) = {}
    /\ port_frozen = {} /\ port_in_eh = {}
    /\ qc' = [qc EXCEPT ![<<p, t>>] = "checked"]
    /\ UNCHANGED <<lockVars, maskVars, ehVars, waitVars, irqVars, linkVars, cleanVars>>

\* Mutant of QcAcquire: the port that holds the core is not looked at.
QcAcquireAny(p, t) ==
    /\ qc[<<p, t>>] = "checked"
    /\ qc' = [qc EXCEPT ![<<p, t>>] = "new"]
    /\ Acquire(p)
    /\ UNCHANGED <<maskVars, ehVars, expired, irqVars, linkVars, cleanVars>>

\* The second half of qc_new: acquire_hw, which may not sleep here.
QcAcquire(p, t) ==
    /\ qc[<<p, t>>] = "checked"
    /\ IF CanAcquire(p)
       THEN qc' = [qc EXCEPT ![<<p, t>>] = "new"] /\ Acquire(p)
       ELSE qc' = [qc EXCEPT ![<<p, t>>] = "free"] /\ UNCHANGED <<lockVars, awake>>
    /\ UNCHANGED <<maskVars, ehVars, expired, irqVars, linkVars, cleanVars>>

\* Without NCQ a port has one command in flight: libata defers another one and
\* frees it.
QcDefer(p, t) ==
    /\ qc[<<p, t>>] = "new" /\ Active(p) # {}
    /\ qc' = [qc EXCEPT ![<<p, t>>] = "free"]
    /\ Release(p)
    /\ UNCHANGED <<maskVars, ehVars, expired, irqVars, linkVars, cleanVars>>

\* sata_oxnas_qc_prep fails the command if there is no link; qc_issue is called
\* all the same.
QcIssue(p, t) ==
    /\ qc[<<p, t>>] = "new" /\ Active(p) = {}
    /\ qc' = [qc EXCEPT ![<<p, t>>] = IF p \in link THEN "issued" ELSE "failed"]
    /\ HwIssue(p)
    /\ UNCHANGED <<lockVars, maskVars, ehVars, waitVars, link, cleanVars>>

\* libata gives up on a command after 30 seconds: it is left to EH, which
\* freezes the port.
Timeout(p, t) ==
    /\ <<p, t>> \in Active(p) /\ ~HostLocked
    /\ qc' = [qc EXCEPT ![<<p, t>>] = "failed"]
    /\ port_frozen' = port_frozen \cup {p}
    /\ UNCHANGED <<lockVars, port_in_eh, ehVars, waitVars, irqVars, linkVars, cleanVars>>

-----------------------------------------------------------------------------
(* The hardware and its interrupt *)

HwEnd(s) ==
    /\ qc[s] = "issued" /\ s[1] \in link
    /\ qc' = [qc EXCEPT ![s] = "ended"]
    /\ pending' = pending \cup {s[1]}
    /\ UNCHANGED <<lockVars, maskVars, ehVars, waitVars, enabled, linkVars, cleanVars>>

\* The cable is plugged or pulled.
Hotplug(p) ==
    /\ p \in HotPorts
    /\ link' = IF p \in link THEN link \ {p} ELSE link \cup {p}
    /\ serror' = serror \cup {p} /\ pending' = pending \cup {p}
    /\ UNCHANGED <<lockVars, maskVars, qc, ehVars, waitVars, enabled, cleanVars>>

Raised(p) == p \in pending /\ p \in enabled

\* sata_oxnas_port_irq while an internal command is active: it is completed,
\* and that is all.
IrqInternal(p) ==
    /\ Raised(p) /\ <<p, Internal>> \in Active(p)
    /\ pending' = pending \ {p}
    /\ qc' = [qc EXCEPT ![<<p, Internal>>] = "done"]
    /\ UNCHANGED <<lockVars, maskVars, ehVars, waitVars, enabled, linkVars, cleanVars>>

\* The end of port_irq: a link that has changed freezes the port.
IrqHotplug(p) ==
    port_frozen' = IF p \in serror THEN port_frozen \cup {p} ELSE port_frozen

\* port_irq for the active command.  Its status decides whether it is over or
\* left to EH; without a link it shows an error.  irq_clear drops what is
\* pending for port 0.
IrqCommand(p, t) ==
    /\ Raised(p) /\ <<p, t>> \in Active(p)
    /\ pending' = pending \ {p, 0}
    /\ \/ /\ p \in link
          /\ qc' = [qc EXCEPT ![<<p, t>>] = "free"] /\ Release(p)
       \/ /\ qc' = [qc EXCEPT ![<<p, t>>] = "failed"]
          /\ UNCHANGED <<lockVars, awake>>
    /\ IrqHotplug(p)
    /\ UNCHANGED <<port_in_eh, ehVars, expired, enabled, linkVars, cleanVars>>

\* port_irq without a command.
IrqIdle(p) ==
    /\ Raised(p) /\ Active(p) = {}
    /\ pending' = pending \ {p}
    /\ IrqHotplug(p)
    /\ UNCHANGED <<lockVars, port_in_eh, qc, ehVars, waitVars, enabled, linkVars, cleanVars>>

-----------------------------------------------------------------------------
(* The error handler of port p *)

\* libata runs EH once all commands of the port are over or failed.
\* sata_oxnas_error_handler starts with freeze_host.
EhStart(p) ==
    /\ eh[p] = "idle" /\ eh_mutex = -1
    /\ Failed(p) # {} \/ p \in port_frozen
    /\ \A s \in Slots : s[1] = p => qc[s] \in {"free", "failed"}
    /\ eh_mutex' = p /\ eh' = [eh EXCEPT ![p] = "run"]
    /\ port_in_eh' = port_in_eh \cup {p}
    /\ UNCHANGED <<lockVars, port_frozen, qc, waitVars, irqVars, linkVars, cleanVars>>

EhCleanup(p) ==
    /\ eh[p] = "run"
    /\ CleanupCore
    /\ eh' = [eh EXCEPT ![p] = "cleaned"]
    /\ UNCHANGED <<lockVars, maskVars, eh_mutex, waitVars>>

\* ata_std_error_handler, after the cleanup: a reset of the port freezes it,
\* and thaws it unless the reset fails.
EhReset(p) ==
    /\ eh[p] = "cleaned" /\ Clean
    /\ port_frozen' \in {port_frozen, port_frozen \cup {p}, port_frozen \ {p}}
    /\ eh' = [eh EXCEPT ![p] = "ready"]
    /\ UNCHANGED <<lockVars, port_in_eh, qc, eh_mutex, waitVars, irqVars, linkVars, cleanVars>>

\* An internal command is given to the hardware; eh_mutex is given up while it
\* is in flight.
IssueInternal(p) ==
    /\ qc' = [qc EXCEPT ![<<p, Internal>>] = IF p \in link THEN "issued" ELSE "failed"]
    /\ HwIssue(p)
    /\ eh_mutex' = -1 /\ eh' = [eh EXCEPT ![p] = "flight"]

\* ata_exec_internal_sg: no command while the port is frozen; acquire_hw
\* without sleeping first.
EhTry(p) ==
    /\ eh[p] = "ready" /\ ~HostLocked
    /\ IF p \in port_frozen
       THEN /\ eh' = [eh EXCEPT ![p] = "finish"]
            /\ UNCHANGED <<lockVars, qc, eh_mutex, awake, irqVars, serror>>
       ELSE IF CanAcquire(p)
       THEN Acquire(p) /\ IssueInternal(p)
       ELSE /\ eh' = [eh EXCEPT ![p] = "denied"]
            /\ UNCHANGED <<lockVars, qc, eh_mutex, awake, irqVars, serror>>
    /\ UNCHANGED <<maskVars, expired, link, cleanVars>>

AcquireInternal(p) ==
    /\ Acquire(p)
    /\ qc' = [qc EXCEPT ![<<p, Internal>>] = "taken"]
    /\ eh' = [eh EXCEPT ![p] = "got"]

\* acquire_hw for up to two seconds, the host lock given up: the first look.
EhSleep(p) ==
    /\ eh[p] = "denied"
    /\ IF CanAcquire(p)
       THEN AcquireInternal(p) /\ UNCHANGED expired
       ELSE /\ eh' = [eh EXCEPT ![p] = "wait"]
            /\ awake' = [awake EXCEPT ![p] = FALSE]
            /\ expired' = [expired EXCEPT ![p] = FALSE]
            /\ UNCHANGED <<lockVars, qc>>
    /\ UNCHANGED <<maskVars, eh_mutex, irqVars, linkVars, cleanVars>>

\* Mutant of WaitCheck: the two seconds are not looked at.
WaitCheckForever(p) ==
    /\ eh[p] = "wait" /\ awake[p]
    /\ IF ~core_locked
       THEN AcquireInternal(p) /\ UNCHANGED expired
       ELSE /\ awake' = [awake EXCEPT ![p] = FALSE]
            /\ UNCHANGED <<lockVars, eh, qc, expired>>
    /\ UNCHANGED <<maskVars, eh_mutex, irqVars, linkVars, cleanVars>>

\* The loop of the sleeper: only a free core will do, else it fails after two
\* seconds (AC_ERR_TIMEOUT) or sleeps on.
WaitCheck(p) ==
    /\ eh[p] = "wait" /\ awake[p]
    /\ IF ~core_locked
       THEN AcquireInternal(p)
       ELSE /\ awake' = [awake EXCEPT ![p] = FALSE]
            /\ eh' = [eh EXCEPT ![p] = IF expired[p] THEN "finish" ELSE "wait"]
            /\ UNCHANGED <<lockVars, qc>>
    /\ expired' = [expired EXCEPT ![p] = @ /\ eh'[p] = "wait"]
    /\ UNCHANGED <<maskVars, eh_mutex, irqVars, linkVars, cleanVars>>

\* Two seconds have passed ...
Expire(p) ==
    /\ eh[p] = "wait"
    /\ expired' = [expired EXCEPT ![p] = TRUE]
    /\ UNCHANGED <<lockVars, maskVars, qc, ehVars, awake, irqVars, linkVars, cleanVars>>

\* ... and the four seconds of schedule_timeout.
Rouse(p) ==
    /\ eh[p] = "wait" /\ expired[p]
    /\ awake' = [awake EXCEPT ![p] = TRUE]
    /\ UNCHANGED <<lockVars, maskVars, qc, ehVars, expired, irqVars, linkVars, cleanVars>>

\* Back in ata_exec_internal_sg, with the core.
EhIssue(p) ==
    /\ eh[p] = "got" /\ ~HostLocked
    /\ IssueInternal(p)
    /\ UNCHANGED <<lockVars, maskVars, waitVars, link, cleanVars>>

\* The internal command is over, or has taken too long.
EhAnswer(p) ==
    /\ eh[p] = "flight"
    /\ eh' = [eh EXCEPT ![p] = "relock"]
    /\ UNCHANGED <<lockVars, maskVars, qc, eh_mutex, waitVars, irqVars, linkVars, cleanVars>>

\* Mutant of EhRelock: eh_mutex is not needed.
EhRelockUnlocked(p) ==
    /\ eh[p] = "relock" /\ ~HostLocked
    /\ eh_mutex' = p /\ eh' = [eh EXCEPT ![p] = "post"]
    /\ UNCHANGED <<lockVars, maskVars, qc, waitVars, irqVars, linkVars, cleanVars>>

\* With eh_mutex again: a command that has taken too long has failed, which
\* freezes the port.
EhRelock(p) ==
    /\ eh[p] = "relock" /\ eh_mutex = -1 /\ ~HostLocked
    /\ eh_mutex' = p /\ eh' = [eh EXCEPT ![p] = "post"]
    /\ IF <<p, Internal>> \in Active(p)
       THEN /\ qc' = [qc EXCEPT ![<<p, Internal>>] = "failed"]
            /\ port_frozen' = port_frozen \cup {p}
       ELSE UNCHANGED <<qc, port_frozen>>
    /\ UNCHANGED <<lockVars, port_in_eh, waitVars, irqVars, linkVars, cleanVars>>

\* sata_oxnas_post_internal_cmd cleans up after a command that failed ...
EhPost(p) ==
    /\ eh[p] = "post" /\ qc[<<p, Internal>>] = "failed"
    /\ CleanupCore
    /\ eh' = [eh EXCEPT ![p] = "posted"]
    /\ UNCHANGED <<lockVars, maskVars, eh_mutex, waitVars>>

\* ... and the command is freed.
EhQcFree(p) ==
    /\ \/ eh[p] = "post" /\ qc[<<p, Internal>>] = "done"
       \/ eh[p] = "posted" /\ Clean
    /\ ~HostLocked
    /\ eh' = [eh EXCEPT ![p] = "finish"]
    /\ qc' = [qc EXCEPT ![<<p, Internal>>] = "free"]
    /\ Release(p)
    /\ UNCHANGED <<maskVars, eh_mutex, expired, irqVars, linkVars, cleanVars>>

\* ata_eh_finish: the failed commands are freed one by one ...
EhFree(p, t) ==
    /\ eh[p] = "finish" /\ <<p, t>> \in Failed(p)
    /\ qc' = [qc EXCEPT ![<<p, t>>] = "free"]
    /\ Release(p)
    /\ UNCHANGED <<maskVars, ehVars, expired, irqVars, linkVars, cleanVars>>

\* Mutant of EhEnd: no thaw_host.
EhEndFrozen(p) ==
    /\ eh[p] = "finish" /\ Failed(p) = {}
    /\ eh_mutex' = -1 /\ eh' = [eh EXCEPT ![p] = "idle"]
    /\ UNCHANGED <<lockVars, maskVars, qc, waitVars, irqVars, linkVars, cleanVars>>

\* ... and error_handler ends with thaw_host.
EhEnd(p) ==
    /\ eh[p] = "finish" /\ Failed(p) = {}
    /\ port_in_eh' = port_in_eh \ {p}
    /\ eh_mutex' = -1 /\ eh' = [eh EXCEPT ![p] = "idle"]
    /\ UNCHANGED <<lockVars, port_frozen, qc, waitVars, irqVars, linkVars, cleanVars>>

-----------------------------------------------------------------------------
Command(p, t) ==
    \/ QcNew(p, t) \/ QcAcquire(p, t) \/ QcDefer(p, t) \/ QcIssue(p, t)
    \/ Timeout(p, t) \/ IrqCommand(p, t)

ErrorHandler(p) ==
    \/ EhStart(p) \/ EhCleanup(p) \/ EhReset(p) \/ EhTry(p) \/ EhSleep(p)
    \/ WaitCheck(p) \/ Expire(p) \/ Rouse(p) \/ EhIssue(p) \/ EhAnswer(p)
    \/ EhRelock(p) \/ EhPost(p) \/ EhQcFree(p)
    \/ \E t \in Tags : EhFree(p, t)
    \/ EhEnd(p)

CleanupStep(n) == PortInit(n) \/ LinkReset(n) \/ PortInitEnd(n)

Next ==
    \/ \E p \in Ports, t \in Tags : Command(p, t)
    \/ \E s \in Slots : HwEnd(s)
    \/ \E p \in Ports :
          \/ Hotplug(p) \/ IrqInternal(p) \/ IrqIdle(p)
          \/ ErrorHandler(p) \/ CleanupStep(p)

Spec == Init /\ [][Next]_vars

\* Threads and queuecommand get on, also past a lock that is taken again and
\* again, and libata's timers run out; the disk may never answer.
FairSpec ==
    /\ Spec
    /\ WF_vars(\E n \in Ports : PortInit(n) \/ PortInitEnd(n))
    /\ \A p \in Ports :
          /\ SF_vars(ErrorHandler(p))
          /\ WF_vars(\E t \in Tags : QcAcquire(p, t) \/ QcDefer(p, t) \/ QcIssue(p, t))
          /\ SF_vars(\E t \in Tags : Timeout(p, t))

-----------------------------------------------------------------------------
(* What the driver promises *)

\* The variables have their types; in particular qc_issue and irq_on turn on
\* the END interrupts of existing ports only.
TypeOK ==
    /\ core_locked \in BOOLEAN /\ reentrant_port_no \in Ports \cup {-1}
    /\ hw_lock_count \in Nat
    /\ port_in_eh \subseteq Ports /\ port_frozen \subseteq Ports
    /\ qc \in [Slots -> QcStates] /\ eh \in [Ports -> EhStates]
    /\ eh_mutex \in Ports \cup {-1}
    /\ awake \in [Ports -> BOOLEAN] /\ expired \in [Ports -> BOOLEAN]
    /\ enabled \subseteq Ports /\ pending \subseteq Ports
    /\ link \subseteq Ports /\ serror \subseteq Ports
    /\ todo \subseteq Ports /\ setup \in Ports \cup {-1}

\* hw_lock_count counts exactly the commands between qc_new or acquire_hw and
\* qc_free, whichever way they end (deferred, completed by the interrupt,
\* failed and freed by EH, timed out), and the core is locked for their port
\* as long as there is one.  So none of the BUG_ONs and warnings of
\* __acquire_sata_core and sata_oxnas_release_hw about the state of the lock
\* is ever hit, and the lock never leaks.
LockCountsCommands ==
    /\ hw_lock_count = Cardinality(Holders)
    /\ core_locked <=> hw_lock_count # 0
    /\ ~core_locked => reentrant_port_no = -1
    /\ \A s \in Holders : s[1] = reentrant_port_no

\* "... thus enforcing that only one SATA core port may be operated on at
\* once" (the comment on sata_oxnas_acquire_hw), also while the error handlers
\* of both ports are at work.
OnePortAtOnce == \A s, u \in Holders : s[1] = u[1]

\* qc_issue turns off the END interrupts of both ports and turns on the one of
\* its port and port 0's.  The END interrupt of a command in flight is
\* nevertheless always on.
EndIrqEnabled ==
    \A s \in Slots : qc[s] \in {"issued", "ended"} => s[1] \in enabled

\* irq_clear drops port 0's END interrupt whichever port it is called for,
\* and irq_on drops its port's.  The END of a command the hardware has
\* finished is nevertheless not lost before port_irq has seen it.
EndNotLost == \A s \in Slots : qc[s] = "ended" => s[1] \in pending

\* How commands and error handlers belong together: while EH is at work its
\* port has no SCSI command but failed ones, a port has one active command, and
\* the internal command has the state its EH thread left it in.
InternalStates(step) ==
    CASE step = "got" -> {"taken"}
      [] step \in {"flight", "relock"} -> {"issued", "ended", "lost", "failed", "done"}
      [] step = "post" -> {"failed", "done"}
      [] step = "posted" -> {"failed"}
      [] OTHER -> {"free"}

CommandsInv ==
    \A p \in Ports :
       /\ qc[<<p, Internal>>] \in InternalStates(eh[p])
       /\ \A t \in Tags :
             /\ qc[<<p, t>>] \notin {"taken", "done"}
             /\ eh[p] # "idle" => qc[<<p, t>>] \in {"free", "failed"}
             /\ \A u \in Tags \ {t} :
                   ~({<<p, t>>, <<p, u>>} \subseteq Active(p))

\* The inductive invariant: what a port may have in hand decides whose
\* interrupts a step may turn off or drop.
SataInv ==
    /\ LockCountsCommands /\ CommandsInv
    /\ EndIrqEnabled /\ EndNotLost

\* "We may get spurious interrupts when cleaning-up after a failed command,
\* ignore these too" (sata_oxnas.c:2142-2144): an interrupt never passes for
\* the end of a command which the reset of the core has taken from the
\* hardware.
SpuriousIgnored ==
    [][\A s \in Slots :
          qc[s] = "lost" => qc'[s] # IF s[2] = Internal THEN "done" ELSE "free"]_vars

\* An error handler holds eh_mutex but while its internal command is in flight.
MutexInv ==
    \A p \in Ports : eh[p] \notin {"idle", "flight", "relock"} => eh_mutex = p

\* The two-second wait for the core that the libata patch adds runs under
\* eh_mutex, and the other port's EH needs eh_mutex to free its internal
\* command, with the core.  So as long as one port sleeps, the other's internal
\* command stays where it is, and the sleeper can only give up.
WaitIsFutile ==
    [][\A p, q \in Ports :
          eh[p] = "wait" /\ eh[q] \in {"flight", "relock"}
          => /\ eh'[p] \in {"wait", "finish"}
             /\ eh'[q] \in {"flight", "relock"}]_vars

\* Every command is freed in the end, with the core: also one the hardware
\* forgot because the other port's EH reset the core under it.
CommandsResolved == \A s \in Slots : qc[s] # "free" ~> qc[s] = "free"

\* No error handling goes on for ever, although the two error handlers wait
\* for each other (the core against eh_mutex); port_in_eh, which shuts out the
\* commands of both ports, is cleared.
EhEnds == \A p \in Ports : p \in port_in_eh ~> p \notin port_in_eh
=============================================================================
