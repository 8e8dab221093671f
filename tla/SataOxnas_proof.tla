--------------------------- MODULE SataOxnas_proof ---------------------------
(***************************************************************************)
(* Proofs about SataOxnas, for any number of ports and tags.  SataInv is   *)
(* inductive together with TypeOK.  The lock lemmas say what acquire_hw    *)
(* and release_hw do to LockCountsCommands; the rest is one step per       *)
(* action.                                                                 *)
(***************************************************************************)
EXTENDS SataOxnas, FiniteSetTheorems, TLAPS

\* Only finitely many commands hold the core.
LEMMA HoldersFinite == IsFiniteSet(Slots) /\ IsFiniteSet(Holders)
<1>1. IsFiniteSet(Tags \cup {Internal})
  BY TagsAssumption, FS_AddElement
<1>2. IsFiniteSet(Slots)
  BY <1>1, TagsAssumption, FS_Product DEF Slots
<1>3. Holders \subseteq Slots
  BY DEF Holders
<1> QED
  BY <1>2, <1>3, FS_Subset

\* acquire_hw for a command that does not hold the core yet.
LEMMA AcquireKeepsCount ==
  ASSUME NEW p \in Ports, NEW s \in Slots, TypeOK, LockCountsCommands,
         s[1] = p, CanAcquire(p), Acquire(p),
         s \notin Holders, Holders' = Holders \cup {s}
  PROVE  LockCountsCommands'
<1>1. Cardinality(Holders \cup {s}) = Cardinality(Holders) + 1
  BY HoldersFinite, FS_AddElement, ZenonT(30)
<1>2. hw_lock_count \in Nat /\ hw_lock_count = Cardinality(Holders)
  BY DEF TypeOK, LockCountsCommands
<1>3. hw_lock_count' = Cardinality(Holders') /\ hw_lock_count' # 0 /\ core_locked'
  BY <1>1, <1>2 DEF Acquire
<1>4. Holders = {} \/ (core_locked /\ reentrant_port_no = p)
  <2>1. ~core_locked => Cardinality(Holders) = 0
    BY <1>2 DEF LockCountsCommands
  <2>2. Cardinality(Holders) = 0 <=> Holders = {}
    BY HoldersFinite, FS_EmptySet, ZenonT(30)
  <2> QED
    BY <2>1, <2>2 DEF CanAcquire, LockCountsCommands, TypeOK
<1>5. \A u \in Holders' : u[1] = reentrant_port_no'
  BY <1>4 DEF LockCountsCommands, Acquire
<1> QED
  BY <1>3, <1>5 DEF LockCountsCommands

\* release_hw for a command that holds the core.
LEMMA ReleaseKeepsCount ==
  ASSUME NEW p \in Ports, NEW s \in Slots, TypeOK, LockCountsCommands,
         Release(p), s \in Holders, Holders' = Holders \ {s}
  PROVE  LockCountsCommands'
<1>1. Cardinality(Holders') = Cardinality(Holders) - 1
  <2>1. Cardinality(Holders \ {s}) = Cardinality(Holders) - 1
    BY HoldersFinite, FS_RemoveElement, ZenonT(30)
  <2> QED
    BY <2>1, Zenon
<1>2. hw_lock_count \in Nat /\ hw_lock_count = Cardinality(Holders)
  BY DEF TypeOK, LockCountsCommands
<1>3. hw_lock_count # 0 /\ core_locked
  <2>1. Cardinality(Holders) # 0
    BY HoldersFinite, FS_EmptySet
  <2> QED
    BY <2>1, <1>2 DEF LockCountsCommands
<1>4. hw_lock_count' = Cardinality(Holders') /\ (core_locked' <=> hw_lock_count' # 0)
  <2>1. hw_lock_count' = hw_lock_count - 1
    BY <1>3 DEF Release
  <2>2. core_locked' <=> hw_lock_count # 1
    BY <1>3, ZenonT(30) DEF Release, TypeOK
  <2>3. hw_lock_count' = Cardinality(Holders')
    BY <1>1, <1>2, <2>1
  <2>4. hw_lock_count' # 0 <=> hw_lock_count # 1
    BY <1>2, <2>1
  <2> QED
    BY <2>2, <2>3, <2>4
<1>5. CASE hw_lock_count = 1
  <2>1. Cardinality(Holders') = 0 /\ IsFiniteSet(Holders')
    <3>1. IsFiniteSet(Holders \ {s})
      BY HoldersFinite, FS_RemoveElement
    <3> QED
      BY <1>1, <1>2, <1>5, <3>1
  <2>2. Holders' = {}
    BY <2>1, FS_EmptySet
  <2> QED
    BY <1>3, <1>4, <1>5, <2>2 DEF Release, LockCountsCommands
<1>6. CASE hw_lock_count # 1
  BY <1>3, <1>4, <1>6 DEF Release, LockCountsCommands
<1> QED
  BY <1>5, <1>6

\* A step that leaves the lock and its holders alone.
LEMMA IdleKeepsCount ==
  ASSUME LockCountsCommands, UNCHANGED lockVars, Holders' = Holders
  PROVE  LockCountsCommands'
  BY DEF LockCountsCommands, lockVars

\* A step that changes the state of one command.
LEMMA HoldersAfter ==
  ASSUME TypeOK, NEW s \in Slots, NEW v \in QcStates, qc' = [qc EXCEPT ![s] = v]
  PROVE  /\ v \in {"free", "checked"} => Holders' = Holders \ {s}
         /\ v \notin {"free", "checked"} => Holders' = Holders \cup {s}
  BY DEF TypeOK, Holders

\* ... but not whether it holds the core.
LEMMA HoldersSame ==
  ASSUME TypeOK, NEW s \in Slots, NEW v \in QcStates, qc' = [qc EXCEPT ![s] = v],
         v \in {"free", "checked"} <=> qc[s] \in {"free", "checked"}
  PROVE  Holders' = Holders
  BY DEF TypeOK, Holders

\* Commands the hardware loses keep the core.
LEMMA LoseKeeps ==
  ASSUME TypeOK, NEW lost, qc' = Lose(qc, lost)
  PROVE  /\ Holders' = Holders
         /\ qc' \in [Slots -> QcStates]
         /\ \A s \in Slots : qc'[s] = qc[s] \/ (qc[s] \in {"issued", "ended"} /\ qc'[s] = "lost")
         /\ \A s \in Slots : s \in lost => qc'[s] \notin {"issued", "ended"}
  BY DEF TypeOK, Lose, Holders, QcStates

\* Every action keeps the types.
LEMMA TypeStep == TypeOK /\ [Next]_vars => TypeOK'
<1> SUFFICES ASSUME TypeOK, [Next]_vars PROVE TypeOK'
  OBVIOUS
<1>w. \A p \in Ports : /\ WakeUp => awake' \in [Ports -> BOOLEAN]
                       /\ WakeOthers(p) => awake' \in [Ports -> BOOLEAN]
  BY ZenonT(30) DEF WakeUp, WakeOthers, Waiting
<1>a. ASSUME NEW p \in Ports, Acquire(p)
      PROVE  /\ core_locked' \in BOOLEAN /\ reentrant_port_no' \in Ports \cup {-1}
             /\ hw_lock_count' \in Nat /\ awake' \in [Ports -> BOOLEAN]
  BY <1>a, <1>w DEF Acquire, TypeOK
<1>r. ASSUME NEW p \in Ports, Release(p)
      PROVE  /\ core_locked' \in BOOLEAN /\ reentrant_port_no' \in Ports \cup {-1}
             /\ hw_lock_count' \in Nat /\ awake' \in [Ports -> BOOLEAN]
  <2>1. CASE ~core_locked \/ hw_lock_count = 0
    BY <1>r, <2>1 DEF Release, TypeOK, lockVars
  <2>2. CASE core_locked /\ hw_lock_count = 1
    <3>1. /\ hw_lock_count' = hw_lock_count - 1 /\ core_locked' = FALSE
          /\ reentrant_port_no' = -1 /\ WakeUp
      BY <1>r, <2>2 DEF Release
    <3>2. hw_lock_count' \in Nat
      BY <2>2, <3>1
    <3>3. awake' \in [Ports -> BOOLEAN]
      BY <3>1, <1>w, Zenon
    <3> QED
      BY <3>1, <3>2, <3>3, ZenonT(30)
  <2>3. CASE core_locked /\ hw_lock_count \notin {0, 1}
    <3>1. /\ hw_lock_count' = hw_lock_count - 1
          /\ UNCHANGED <<core_locked, reentrant_port_no, awake>>
      BY <1>r, <2>3, ZenonT(30) DEF Release
    <3>2. hw_lock_count' \in Nat
      BY <2>3, <3>1 DEF TypeOK
    <3> QED
      BY <3>1, <3>2 DEF TypeOK
  <2> QED
    BY <2>1, <2>2, <2>3 DEF TypeOK
<1>s. \A p \in Ports : <<p, Internal>> \in Slots /\ \A t \in Tags : <<p, t>> \in Slots
  BY DEF Slots
<1>i. ASSUME NEW p \in Ports, HwIssue(p)
      PROVE  enabled' \subseteq Ports /\ pending' \subseteq Ports /\ serror' \subseteq Ports
  BY <1>i, PortsAssumption, ZenonT(30) DEF HwIssue, IrqOn, TypeOK
<1>c. ASSUME CleanupCore
      PROVE  /\ qc' \in [Slots -> QcStates] /\ enabled' \subseteq Ports /\ pending' \subseteq Ports
             /\ link' \subseteq Ports /\ serror' \subseteq Ports
             /\ todo' \subseteq Ports /\ setup' \in Ports \cup {-1}
  BY <1>c, LoseKeeps DEF CleanupCore, TypeOK
<1> USE DEF TypeOK, QcStates, EhStates, lockVars, maskVars, ehVars, waitVars, irqVars, linkVars,
            cleanVars
<1>1. ASSUME NEW p \in Ports, NEW t \in Tags, QcNew(p, t)
      PROVE  TypeOK'
  BY <1>1, <1>s, ZenonT(30) DEF QcNew
<1>2. ASSUME NEW p \in Ports, NEW t \in Tags, QcAcquire(p, t)
      PROVE  TypeOK'
  BY <1>2, <1>s, <1>a DEF QcAcquire
<1>3. ASSUME NEW p \in Ports, NEW t \in Tags, QcDefer(p, t)
      PROVE  TypeOK'
  BY <1>3, <1>s, <1>r, ZenonT(30) DEF QcDefer
<1>4. ASSUME NEW p \in Ports, NEW t \in Tags, QcIssue(p, t)
      PROVE  TypeOK'
  BY <1>4, <1>s, <1>i, ZenonT(30) DEF QcIssue
<1>5. ASSUME NEW p \in Ports, NEW t \in Tags, Timeout(p, t)
      PROVE  TypeOK'
  BY <1>5, <1>s, ZenonT(30) DEF Timeout
<1>6. ASSUME NEW p \in Ports, NEW t \in Tags, IrqCommand(p, t)
      PROVE  TypeOK'
  BY <1>6, <1>s, <1>r DEF IrqCommand, IrqHotplug
<1>7. ASSUME NEW s \in Slots, HwEnd(s)
      PROVE  TypeOK'
  BY <1>7 DEF HwEnd, Slots
<1>8. ASSUME NEW p \in Ports, Hotplug(p) \/ IrqInternal(p) \/ IrqIdle(p)
      PROVE  TypeOK'
  BY <1>8, <1>s, SMTT(60) DEF Hotplug, IrqInternal, IrqIdle, IrqHotplug
<1>9. ASSUME NEW p \in Ports, ErrorHandler(p)
      PROVE  TypeOK'
  <2>1. CASE EhStart(p)
    BY <2>1 DEF EhStart
  <2>2. CASE EhCleanup(p)
    BY <2>2, <1>c DEF EhCleanup
  <2>3. CASE EhReset(p)
    BY <2>3 DEF EhReset
  <2>4. CASE EhTry(p)
    BY <2>4, <1>s, <1>a, <1>i DEF EhTry, IssueInternal
  <2>5. CASE EhSleep(p)
    BY <2>5, <1>s, <1>a, ZenonT(30) DEF EhSleep, AcquireInternal
  <2>6. CASE WaitCheck(p)
    BY <2>6, <1>s, <1>a, ZenonT(30) DEF WaitCheck, AcquireInternal
  <2>7. CASE Expire(p) \/ Rouse(p)
    BY <2>7, ZenonT(30) DEF Expire, Rouse
  <2>8. CASE EhIssue(p)
    BY <2>8, <1>s, <1>i DEF EhIssue, IssueInternal
  <2>9. CASE EhAnswer(p)
    BY <2>9 DEF EhAnswer
  <2>10. CASE EhRelock(p)
    BY <2>10, <1>s DEF EhRelock
  <2>11. CASE EhPost(p)
    BY <2>11, <1>c DEF EhPost
  <2>12. CASE EhQcFree(p)
    BY <2>12, <1>s, <1>r, ZenonT(30) DEF EhQcFree
  <2>13. CASE \E t \in Tags : EhFree(p, t)
    BY <2>13, <1>s, <1>r, ZenonT(30) DEF EhFree
  <2>14. CASE EhEnd(p)
    BY <2>14 DEF EhEnd
  <2> QED
    BY <1>9, <2>1, <2>2, <2>3, <2>4, <2>5, <2>6, <2>7, <2>8, <2>9, <2>10, <2>11, <2>12, <2>13,
       <2>14, SMTT(60) DEF ErrorHandler
<1>11. ASSUME NEW p \in Ports, CleanupStep(p)
       PROVE  TypeOK'
  <2>1. CASE PortInit(p)
    <3>1. qc' \in [Slots -> QcStates]
      BY <2>1, LoseKeeps DEF PortInit
    <3> QED
      BY <2>1, <3>1 DEF PortInit, IrqOn
  <2>2. CASE LinkReset(p) \/ PortInitEnd(p)
    BY <2>2 DEF LinkReset, PortInitEnd
  <2> QED
    BY <1>11, <2>1, <2>2 DEF CleanupStep
<1>10. CASE UNCHANGED vars
  BY <1>10 DEF vars
<1> QED
  BY <1>1, <1>2, <1>3, <1>4, <1>5, <1>6, <1>7, <1>8, <1>9, <1>10, <1>11 DEF Next, Command

\* The lock under every step: what it does to the holders, then a lock lemma.
LEMMA LockStep ==
  TypeOK /\ LockCountsCommands /\ CommandsInv /\ [Next]_vars => LockCountsCommands'
<1> SUFFICES ASSUME TypeOK, LockCountsCommands, CommandsInv, [Next]_vars
             PROVE  LockCountsCommands'
  OBVIOUS
<1>s. \A p \in Ports : <<p, Internal>> \in Slots /\ \A t \in Tags : <<p, t>> \in Slots
  BY DEF Slots
<1>q. QcStates = {"free", "checked", "new", "taken", "issued", "ended", "lost", "failed", "done"}
  BY DEF QcStates
<1>h. ASSUME NEW s \in Slots
      PROVE  s \in Holders <=> qc[s] \notin {"free", "checked"}
  BY DEF Holders
<1>1. ASSUME NEW p \in Ports, NEW t \in Tags, QcNew(p, t)
      PROVE  LockCountsCommands'
  <2>1. Holders' = Holders
    BY <1>1, <1>s, <1>q, HoldersSame, ZenonT(30) DEF QcNew
  <2> QED
    BY <1>1, <2>1, IdleKeepsCount DEF QcNew
<1>2. ASSUME NEW p \in Ports, NEW t \in Tags, QcAcquire(p, t)
      PROVE  LockCountsCommands'
  <2>1. CASE CanAcquire(p)
    <3>1. <<p, t>> \notin Holders /\ Holders' = Holders \cup {<<p, t>>}
      BY <1>2, <2>1, <1>s, <1>q, <1>h, HoldersAfter, ZenonT(30) DEF QcAcquire
    <3> QED
      BY <1>2, <2>1, <3>1, <1>s, AcquireKeepsCount, ZenonT(30) DEF QcAcquire
  <2>2. CASE ~CanAcquire(p)
    <3>1. Holders' = Holders
      BY <1>2, <2>2, <1>s, <1>q, HoldersSame, ZenonT(30) DEF QcAcquire
    <3> QED
      BY <1>2, <2>2, <3>1, IdleKeepsCount DEF QcAcquire
  <2> QED
    BY <2>1, <2>2
<1>3. ASSUME NEW p \in Ports, NEW t \in Tags, QcDefer(p, t)
      PROVE  LockCountsCommands'
  <2>1. <<p, t>> \in Holders /\ Holders' = Holders \ {<<p, t>>}
    BY <1>3, <1>s, <1>q, <1>h, HoldersAfter, ZenonT(30) DEF QcDefer
  <2> QED
    BY <1>3, <2>1, <1>s, ReleaseKeepsCount, ZenonT(30) DEF QcDefer
<1>4. ASSUME NEW p \in Ports, NEW t \in Tags, QcIssue(p, t) \/ Timeout(p, t)
      PROVE  LockCountsCommands'
  <2>1. Holders' = Holders
    BY <1>4, <1>s, <1>q, HoldersSame, ZenonT(30) DEF QcIssue, Timeout, Active
  <2> QED
    BY <1>4, <2>1, IdleKeepsCount DEF QcIssue, Timeout
<1>5. ASSUME NEW p \in Ports, NEW t \in Tags, IrqCommand(p, t)
      PROVE  LockCountsCommands'
  <2>1. <<p, t>> \in Holders
    BY <1>5, <1>s, <1>h DEF IrqCommand, Active
  <2>2. CASE qc' = [qc EXCEPT ![<<p, t>>] = "free"] /\ Release(p)
    <3>1. Holders' = Holders \ {<<p, t>>}
      BY <2>2, <1>s, <1>q, HoldersAfter, ZenonT(30)
    <3> QED
      BY <2>1, <2>2, <3>1, <1>s, ReleaseKeepsCount, ZenonT(30)
  <2>3. CASE qc' = [qc EXCEPT ![<<p, t>>] = "failed"] /\ UNCHANGED lockVars
    <3>1. Holders' = Holders
      BY <2>1, <2>3, <1>s, <1>q, <1>h, HoldersSame, ZenonT(30)
    <3> QED
      BY <2>3, <3>1, IdleKeepsCount
  <2> QED
    BY <1>5, <2>2, <2>3 DEF IrqCommand
<1>6. ASSUME NEW s \in Slots, HwEnd(s)
      PROVE  LockCountsCommands'
  <2>1. Holders' = Holders
    BY <1>6, <1>q, HoldersSame, ZenonT(30) DEF HwEnd
  <2> QED
    BY <1>6, <2>1, IdleKeepsCount DEF HwEnd
<1>7. ASSUME NEW p \in Ports, IrqInternal(p)
      PROVE  LockCountsCommands'
  <2>1. Holders' = Holders
    BY <1>7, <1>s, <1>q, HoldersSame, ZenonT(30) DEF IrqInternal, Active
  <2> QED
    BY <1>7, <2>1, IdleKeepsCount DEF IrqInternal
<1>8. ASSUME UNCHANGED <<lockVars, qc>>
      PROVE  LockCountsCommands'
  BY <1>8, IdleKeepsCount DEF Holders
<1>9. ASSUME NEW p \in Ports, ErrorHandler(p)
      PROVE  LockCountsCommands'
  <2> DEFINE s == <<p, Internal>>
  <2>s. s \in Slots /\ s[1] = p
    BY <1>s
  <2>i. qc[s] \in InternalStates(eh[p])
    BY DEF CommandsInv
  <2> HIDE DEF s
  <2>1. CASE \/ EhStart(p) \/ EhReset(p) \/ Expire(p) \/ Rouse(p) \/ EhAnswer(p)
             \/ EhEnd(p)
    BY <2>1, <1>8 DEF EhStart, EhReset, Expire, Rouse, EhAnswer, EhEnd
  <2>2. CASE EhCleanup(p) \/ EhPost(p)
    <3>1. Holders' = Holders
      BY <2>2, LoseKeeps DEF EhCleanup, EhPost, CleanupCore
    <3> QED
      BY <2>2, <3>1, IdleKeepsCount DEF EhCleanup, EhPost
  <2>3. ASSUME Acquire(p), CanAcquire(p), eh[p] \in {"ready", "denied", "wait"},
               NEW v \in QcStates \ {"free", "checked"},
               qc' = [qc EXCEPT ![s] = v]
        PROVE  LockCountsCommands'
    <3>1. s \notin Holders
      BY <2>3, <2>i, <2>s, <1>h DEF InternalStates
    <3>2. Holders' = Holders \cup {s}
      BY <2>3, <2>s, HoldersAfter, ZenonT(30)
    <3> QED
      BY <2>3, <3>1, <3>2, <2>s, AcquireKeepsCount
  <2>4. CASE EhTry(p)
    <3>1. CASE p \notin port_frozen /\ CanAcquire(p)
      BY <2>4, <3>1, <2>3, <1>q DEF EhTry, IssueInternal, s
    <3>2. CASE p \in port_frozen \/ ~CanAcquire(p)
      BY <2>4, <3>2, <1>8 DEF EhTry
    <3> QED
      BY <3>1, <3>2
  <2>5. CASE EhSleep(p)
    <3>1. CASE CanAcquire(p)
      BY <2>5, <3>1, <2>3, <1>q DEF EhSleep, AcquireInternal, s
    <3>2. CASE ~CanAcquire(p)
      BY <2>5, <3>2, <1>8 DEF EhSleep
    <3> QED
      BY <3>1, <3>2
  <2>6. CASE WaitCheck(p)
    <3>1. CASE ~core_locked
      BY <2>6, <3>1, <2>3, <1>q DEF WaitCheck, AcquireInternal, CanAcquire, s
    <3>2. CASE core_locked
      BY <2>6, <3>2, <1>8 DEF WaitCheck
    <3> QED
      BY <3>1, <3>2
  <2>7. CASE EhIssue(p)
    <3>1. s \in Holders
      BY <2>7, <2>i, <2>s, <1>h DEF EhIssue, InternalStates
    <3>2. Holders' = Holders
      BY <2>7, <3>1, <2>s, <1>q, <1>h, HoldersSame, ZenonT(30) DEF EhIssue, IssueInternal, s
    <3> QED
      BY <2>7, <3>2, IdleKeepsCount DEF EhIssue
  <2>8. CASE EhRelock(p)
    <3>1. Holders' = Holders
      BY <2>8, <2>s, <1>q, HoldersSame, ZenonT(30) DEF EhRelock, Active, Holders, s
    <3> QED
      BY <2>8, <3>1, IdleKeepsCount DEF EhRelock
  <2>10. CASE EhQcFree(p)
    <3>1. s \in Holders
      BY <2>10, <2>i, <2>s, <1>h DEF EhQcFree, InternalStates
    <3>2. Holders' = Holders \ {s}
      BY <2>10, <2>s, <1>q, HoldersAfter, ZenonT(30) DEF EhQcFree, s
    <3> QED
      BY <2>10, <3>1, <3>2, <2>s, ReleaseKeepsCount DEF EhQcFree
  <2>9. CASE \E t \in Tags : EhFree(p, t)
    <3>1. PICK t \in Tags : EhFree(p, t)
      BY <2>9
    <3>2. <<p, t>> \in Holders /\ Holders' = Holders \ {<<p, t>>}
      BY <3>1, <1>s, <1>q, <1>h, HoldersAfter, ZenonT(30) DEF EhFree, Failed
    <3> QED
      BY <3>1, <3>2, <1>s, ReleaseKeepsCount, ZenonT(30) DEF EhFree
  <2> QED
    BY <1>9, <2>1, <2>2, <2>4, <2>5, <2>6, <2>7, <2>8, <2>9, <2>10 DEF ErrorHandler
<1>10. ASSUME NEW p \in Ports, Hotplug(p) \/ IrqIdle(p)
       PROVE  LockCountsCommands'
  BY <1>10, <1>8 DEF Hotplug, IrqIdle
<1>11. CASE UNCHANGED vars
  BY <1>11, <1>8 DEF vars
<1>12. ASSUME NEW p \in Ports, CleanupStep(p)
       PROVE  LockCountsCommands'
  <2>1. CASE PortInit(p)
    BY <2>1, LoseKeeps, IdleKeepsCount DEF PortInit
  <2>2. CASE LinkReset(p) \/ PortInitEnd(p)
    BY <2>2, <1>8 DEF LinkReset, PortInitEnd
  <2> QED
    BY <1>12, <2>1, <2>2 DEF CleanupStep
<1> QED
  BY <1>1, <1>2, <1>3, <1>4, <1>5, <1>6, <1>7, <1>9, <1>10, <1>11, <1>12 DEF Next, Command

\* Commands and error handlers belong together under every step.
LEMMA CommandsStep == TypeOK /\ CommandsInv /\ [Next]_vars => CommandsInv'
<1> SUFFICES ASSUME TypeOK, CommandsInv, [Next]_vars PROVE CommandsInv'
  OBVIOUS
<1>s. \A p \in Ports : <<p, Internal>> \in Slots /\ \A t \in Tags : <<p, t>> \in Slots
  BY DEF Slots
<1>t. \A t \in Tags : t # Internal
  BY TagsAssumption
<1>l. \A lost : qc' = Lose(qc, lost) =>
        \A s \in Slots : qc'[s] = qc[s] \/ (qc[s] \in {"issued", "ended"} /\ qc'[s] = "lost")
  BY LoseKeeps
<1> USE DEF CommandsInv, Active
<1>1. ASSUME NEW p \in Ports, NEW t \in Tags, QcNew(p, t)
      PROVE  CommandsInv'
  BY <1>1, <1>s, <1>t, SMTT(60) DEF QcNew, TypeOK, ehVars
<1>2. ASSUME NEW p \in Ports, NEW t \in Tags, QcAcquire(p, t)
      PROVE  CommandsInv'
  BY <1>2, <1>s, <1>t, SMTT(60) DEF QcAcquire, TypeOK, ehVars
<1>3. ASSUME NEW p \in Ports, NEW t \in Tags, QcDefer(p, t)
      PROVE  CommandsInv'
  BY <1>3, <1>s, <1>t DEF QcDefer, TypeOK, ehVars
<1>4. ASSUME NEW p \in Ports, NEW t \in Tags, QcIssue(p, t)
      PROVE  CommandsInv'
  BY <1>4, <1>s, <1>t DEF QcIssue, TypeOK, ehVars
<1>5. ASSUME NEW p \in Ports, NEW t \in Tags, Timeout(p, t)
      PROVE  CommandsInv'
  BY <1>5, <1>s, <1>t DEF Timeout, TypeOK, ehVars
<1>6. ASSUME NEW p \in Ports, NEW t \in Tags, IrqCommand(p, t)
      PROVE  CommandsInv'
  BY <1>6, <1>s, <1>t DEF IrqCommand, TypeOK, ehVars
<1>7. ASSUME NEW s \in Slots, HwEnd(s)
      PROVE  CommandsInv'
  BY <1>7, <1>s, <1>t DEF HwEnd, TypeOK, ehVars, InternalStates
<1>8. ASSUME NEW p \in Ports, IrqInternal(p)
      PROVE  CommandsInv'
  BY <1>8, <1>s, <1>t, SMTT(60) DEF IrqInternal, TypeOK, ehVars, InternalStates
<1>9. ASSUME NEW p \in Ports, Hotplug(p) \/ IrqIdle(p)
      PROVE  CommandsInv'
  <2>1. UNCHANGED <<qc, eh>>
    BY <1>9 DEF Hotplug, IrqIdle, ehVars
  <2> QED
    BY <2>1
<1>10. ASSUME NEW p \in Ports, ErrorHandler(p)
       PROVE  CommandsInv'
  <2> USE <1>s, <1>t DEF TypeOK, InternalStates
  <2>1. CASE EhStart(p)
    BY <2>1 DEF EhStart
  <2>2. CASE EhCleanup(p) \/ EhPost(p)
    BY <2>2, <1>l DEF EhCleanup, EhPost, CleanupCore
  <2>3. CASE EhReset(p) \/ Expire(p) \/ Rouse(p) \/ EhAnswer(p)
    BY <2>3 DEF EhReset, Expire, Rouse, EhAnswer, ehVars
  <2>4. CASE EhTry(p)
    BY <2>4 DEF EhTry, IssueInternal
  <2>5. CASE EhSleep(p)
    BY <2>5 DEF EhSleep, AcquireInternal
  <2>6. CASE WaitCheck(p)
    BY <2>6 DEF WaitCheck, AcquireInternal
  <2>7. CASE EhIssue(p)
    BY <2>7 DEF EhIssue, IssueInternal
  <2>8. CASE EhRelock(p)
    BY <2>8 DEF EhRelock
  <2>11. CASE EhQcFree(p)
    BY <2>11 DEF EhQcFree
  <2>9. CASE \E t \in Tags : EhFree(p, t)
    BY <2>9 DEF EhFree, Failed, ehVars
  <2>10. CASE EhEnd(p)
    BY <2>10, SMTT(60) DEF EhEnd
  <2> QED
    BY <1>10, <2>1, <2>2, <2>3, <2>4, <2>5, <2>6, <2>7, <2>8, <2>9, <2>10, <2>11, SMTT(60)
       DEF ErrorHandler
<1>11. CASE UNCHANGED vars
  BY <1>11 DEF vars, ehVars
<1>12. ASSUME NEW p \in Ports, CleanupStep(p)
       PROVE  CommandsInv'
  <2>1. CASE PortInit(p)
    <3>1. /\ eh' = eh
          /\ \A s \in Slots : qc'[s] = qc[s] \/ (qc[s] \in {"issued", "ended"} /\ qc'[s] = "lost")
      BY <2>1, <1>l DEF PortInit, ehVars
    <3> QED
      BY <3>1, <1>s DEF InternalStates
  <2>2. CASE LinkReset(p) \/ PortInitEnd(p)
    <3>1. UNCHANGED <<qc, eh>>
      BY <2>2 DEF LinkReset, PortInitEnd, ehVars
    <3> QED
      BY <3>1
  <2> QED
    BY <1>12, <2>1, <2>2 DEF CleanupStep
<1> QED
  BY <1>1, <1>2, <1>3, <1>4, <1>5, <1>6, <1>7, <1>8, <1>9, <1>10, <1>11, <1>12, ZenonT(30)
     DEF Next, Command

\* A port has at most one active command, the internal one included.
LEMMA OneActive ==
  ASSUME CommandsInv, NEW p \in Ports, NEW s \in Active(p), NEW u \in Active(p)
  PROVE  s = u
<1>1. s[1] = p /\ u[1] = p /\ s[2] \in Tags \cup {Internal} /\ u[2] \in Tags \cup {Internal}
      /\ s = <<s[1], s[2]>> /\ u = <<u[1], u[2]>>
  BY DEF Active, Slots
<1>2. CASE s[2] \in Tags /\ u[2] \in Tags
  <2>1. {<<p, s[2]>>, <<p, u[2]>>} \subseteq Active(p)
    BY <1>1
  <2>2. s[2] = u[2]
    BY <1>2, <2>1, ZenonT(30) DEF CommandsInv
  <2> QED
    BY <1>1, <2>2
<1>3. ASSUME NEW t \in Tags, <<p, Internal>> \in Active(p), <<p, t>> \in Active(p)
      PROVE  FALSE
  <2>1. qc[<<p, Internal>>] \in InternalStates(eh[p]) /\ eh[p] # "idle"
    BY <1>3 DEF CommandsInv, InternalStates, Active
  <2> QED
    BY <1>3, <2>1 DEF CommandsInv, Active
<1> QED
  BY <1>1, <1>2, <1>3

\* qc_issue for port p, whose commands alone are in hand and none of them
\* active: no other END interrupt matters.
LEMMA IssueKeepsIrq ==
  ASSUME TypeOK, SataInv, NEW p \in Ports, NEW s \in Slots, s[1] = p, Active(p) = {},
         \A u \in Holders : u[1] = p, HwIssue(p),
         NEW v \in {"issued", "failed"}, qc' = [qc EXCEPT ![s] = v]
  PROVE  EndIrqEnabled' /\ EndNotLost'
<1>1. \A u \in Slots : u # s => qc[u] \notin {"issued", "ended"}
  BY DEF Holders, Active
<1>2. \A u \in Slots : qc'[u] # "ended" /\ (qc'[u] = "issued" => u = s)
  BY <1>1 DEF TypeOK
<1>3. p \in enabled'
  BY DEF HwIssue, IrqOn
<1> QED
  BY <1>2, <1>3 DEF EndIrqEnabled, EndNotLost

\* No step turns off, or drops an END interrupt that matters.
LEMMA IrqStep ==
  TypeOK /\ SataInv /\ [Next]_vars => EndIrqEnabled' /\ EndNotLost'
<1> SUFFICES ASSUME TypeOK, SataInv, [Next]_vars
             PROVE  EndIrqEnabled' /\ EndNotLost'
  OBVIOUS
<1> DEFINE Good == EndIrqEnabled' /\ EndNotLost'
<1> USE DEF EndIrqEnabled, EndNotLost, Active, irqVars, linkVars, TypeOK
<1>s. \A p \in Ports : <<p, Internal>> \in Slots /\ \A t \in Tags : <<p, t>> \in Slots
  BY DEF Slots
<1>o. \A p \in Ports : \A s, u \in Active(p) : s = u
  BY OneActive DEF SataInv
<1>h. EndIrqEnabled /\ EndNotLost /\ LockCountsCommands /\ CommandsInv
  BY SMTT(60) DEF SataInv
<1>1. ASSUME NEW p \in Ports, NEW t \in Tags,
             QcNew(p, t) \/ QcAcquire(p, t) \/ QcDefer(p, t) \/ EhFree(p, t)
      PROVE  Good
  BY <1>1, <1>s, <1>h DEF QcNew, QcAcquire, QcDefer, EhFree, Failed
<1>2. ASSUME NEW p \in Ports, NEW t \in Tags, QcIssue(p, t)
      PROVE  Good
  <2>1. <<p, t>> \in Holders /\ Active(p) = {} /\ HwIssue(p)
    BY <1>2, <1>s, ZenonT(30) DEF QcIssue, Holders
  <2>2. \A u \in Holders : u[1] = p
    BY <2>1, <1>h DEF LockCountsCommands
  <2>3. PICK v \in {"issued", "failed"} : qc' = [qc EXCEPT ![<<p, t>>] = v]
    BY <1>2, ZenonT(30) DEF QcIssue
  <2> QED
    BY <2>1, <2>2, <2>3, <1>s, IssueKeepsIrq, ZenonT(30)
<1>3. ASSUME NEW p \in Ports, NEW t \in Tags, Timeout(p, t)
      PROVE  Good
  BY <1>3, <1>s, <1>h, <1>o, SMTT(60) DEF Timeout
<1>4. ASSUME NEW p \in Ports, NEW t \in Tags, IrqCommand(p, t)
      PROVE  Good
  <2>1. \A u \in Slots : u # <<p, t>> => qc[u] # "ended"
    BY <1>4, <1>s, <1>h, <1>o, SMTT(60) DEF IrqCommand, LockCountsCommands, Holders
  <2>2. \A u \in Slots : u # <<p, t>> => qc'[u] = qc[u]
    BY <1>4, <1>s DEF IrqCommand
  <2>3. qc'[<<p, t>>] \in {"free", "failed"}
    BY <1>4, <1>s DEF IrqCommand
  <2>4. enabled' = enabled /\ pending' \subseteq pending /\ serror' = serror /\ p \notin pending'
    BY <1>4, SMTT(60) DEF IrqCommand
  <2> QED
    BY <2>1, <2>2, <2>3, <2>4, <1>h, SMTT(60)
<1>5. ASSUME NEW s \in Slots, HwEnd(s)
      PROVE  Good
  BY <1>5, <1>h, <1>o, SMTT(60) DEF HwEnd, Slots
<1>6. ASSUME NEW p \in Ports, Hotplug(p)
      PROVE  Good
  BY <1>6, <1>h, SMTT(60) DEF Hotplug
<1>7. ASSUME NEW p \in Ports, IrqInternal(p)
      PROVE  Good
  BY <1>7, <1>s, <1>h, <1>o, SMTT(60) DEF IrqInternal
<1>8. ASSUME NEW p \in Ports, IrqIdle(p)
      PROVE  Good
  BY <1>8, <1>h, SMTT(60) DEF IrqIdle
<1>9. ASSUME NEW p \in Ports, ErrorHandler(p)
      PROVE  Good
  <2>1. CASE EhCleanup(p) \/ EhPost(p)
    BY <2>1 DEF EhCleanup, EhPost, CleanupCore, Lose
  <2>2. ASSUME UNCHANGED <<qc, irqVars, serror>>
        PROVE  Good
    BY <2>2, <1>h, SMTT(60)
  <2>3. CASE \/ EhStart(p) \/ EhReset(p) \/ Expire(p) \/ Rouse(p) \/ EhAnswer(p)
             \/ EhEnd(p)
    BY <2>3, <2>2, SMTT(60) DEF EhStart, EhReset, Expire, Rouse, EhAnswer, EhEnd
  <2>4. ASSUME qc' = [qc EXCEPT ![<<p, Internal>>] = "taken"], UNCHANGED <<irqVars, serror>>,
               qc[<<p, Internal>>] = "free"
        PROVE  Good
    BY <2>4, <1>s, <1>h
  <2>5. ASSUME eh[p] \in {"ready", "denied", "wait"}
        PROVE  qc[<<p, Internal>>] = "free"
    BY <2>5, <1>h DEF CommandsInv, InternalStates
  <2>6. ASSUME eh[p] \in {"ready", "got"}
        PROVE  Active(p) = {}
    <3>1. \A t \in Tags : qc[<<p, t>>] \in {"free", "failed"}
      BY <2>6, <1>h, ZenonT(30) DEF CommandsInv
    <3>2. qc[<<p, Internal>>] \in {"free", "taken"}
      BY <2>6, <1>h DEF CommandsInv, InternalStates
    <3> QED
      BY <3>1, <3>2 DEF Slots
  <2>7. ASSUME IssueInternal(p), eh[p] \in {"ready", "got"}, \A u \in Holders : u[1] = p
        PROVE  Good
    <3>1. PICK v \in {"issued", "failed"} : qc' = [qc EXCEPT ![<<p, Internal>>] = v]
      BY <2>7, ZenonT(30) DEF IssueInternal
    <3>2. HwIssue(p) /\ Active(p) = {}
      BY <2>7, <2>6, SMTT(60) DEF IssueInternal
    <3> QED
      BY <2>7, <3>1, <3>2, <1>s, IssueKeepsIrq, ZenonT(30)
  <2>8. CASE EhTry(p)
    <3>1. CASE p \notin port_frozen /\ CanAcquire(p)
      <4>1. \A u \in Holders : u[1] = p
        <5>1. CASE core_locked
          BY <3>1, <5>1, <1>h, SMTT(60) DEF CanAcquire, LockCountsCommands
        <5>2. CASE ~core_locked
          BY <5>2, <1>h, HoldersFinite, FS_EmptySet, SMTT(60) DEF LockCountsCommands
        <5> QED
          BY <5>1, <5>2
      <4> QED
        BY <2>8, <3>1, <4>1, <2>7 DEF EhTry
    <3>2. CASE p \in port_frozen \/ ~CanAcquire(p)
      BY <2>8, <3>2, <2>2, SMTT(60) DEF EhTry
    <3> QED
      BY <3>1, <3>2, SMTT(60)
  <2>9. CASE EhSleep(p)
    BY <2>9, <2>2, <2>4, <2>5, SMTT(60) DEF EhSleep, AcquireInternal
  <2>10. CASE WaitCheck(p)
    BY <2>10, <2>2, <2>4, <2>5, SMTT(60) DEF WaitCheck, AcquireInternal
  <2>11. CASE EhIssue(p)
    <3>1. <<p, Internal>> \in Holders
      BY <2>11, <1>h, <1>s DEF EhIssue, CommandsInv, InternalStates, Holders
    <3>2. \A u \in Holders : u[1] = p
      BY <3>1, <1>h, SMTT(60) DEF LockCountsCommands
    <3> QED
      BY <2>11, <3>2, <2>7 DEF EhIssue
  <2>12. CASE EhRelock(p)
    BY <2>12, <1>s, <1>h, SMTT(60) DEF EhRelock
  <2>13. CASE EhQcFree(p)
    BY <2>13, <1>s, <1>h, SMTT(60) DEF EhQcFree
  <2> QED
    BY <1>9, <1>1, <2>1, <2>3, <2>8, <2>9, <2>10, <2>11, <2>12, <2>13, ZenonT(60)
       DEF ErrorHandler
<1>10. CASE UNCHANGED vars
  BY <1>10, <1>h DEF vars
<1>11. ASSUME NEW p \in Ports, CleanupStep(p)
       PROVE  Good
  <2>1. CASE PortInit(p)
    <3>1. \A s \in Slots : s[1] = p => s \in {p} \X (Tags \cup {Internal})
      BY DEF Slots
    <3>2. \A s \in Slots : qc'[s] \in {"issued", "ended"} => s[1] # p /\ qc'[s] = qc[s]
      BY <2>1, <3>1 DEF PortInit, Lose
    <3>3. enabled \subseteq enabled' /\ pending' = pending \ {p}
      BY <2>1 DEF PortInit, IrqOn
    <3> QED
      BY <3>2, <3>3, <1>h
  <2>2. CASE LinkReset(p) \/ PortInitEnd(p)
    BY <2>2, <1>h, SMTT(60) DEF LinkReset, PortInitEnd
  <2> QED
    BY <1>11, <2>1, <2>2 DEF CleanupStep
<1> QED
  BY <1>1, <1>2, <1>3, <1>4, <1>5, <1>6, <1>7, <1>8, <1>9, <1>10, <1>11, ZenonT(30)
     DEF Next, Command

\* The initial states satisfy the invariant.
LEMMA SataInit == Init => TypeOK /\ SataInv
<1> SUFFICES ASSUME Init PROVE TypeOK /\ SataInv
  OBVIOUS
<1>s. \A p \in Ports : <<p, Internal>> \in Slots /\ \A t \in Tags : <<p, t>> \in Slots
  BY DEF Slots
<1>1. Holders = {} /\ Cardinality(Holders) = 0
  BY FS_EmptySet DEF Init, Holders
<1>2. LockCountsCommands
  BY <1>1 DEF Init, LockCountsCommands
<1>3. CommandsInv
  BY <1>s DEF Init, CommandsInv, InternalStates, Active
<1>4. EndIrqEnabled /\ EndNotLost
  BY DEF Init, EndIrqEnabled, EndNotLost
<1>5. TypeOK
  BY PortsAssumption, ZenonT(30) DEF Init, TypeOK, QcStates, EhStates
<1> QED
  BY <1>2, <1>3, <1>4, <1>5 DEF SataInv

\* The inductive invariant holds throughout: in particular the lock of the
\* core counts the commands in hand (LockCountsCommands), for any number of
\* ports and tags.
THEOREM SataCorrect == Spec => [](TypeOK /\ SataInv)
<1>1. TypeOK /\ SataInv /\ [Next]_vars => (TypeOK /\ SataInv)'
  BY TypeStep, LockStep, CommandsStep, IrqStep DEF SataInv
<1> QED
  BY <1>1, SataInit, PTL DEF Spec

\* acquire_hw and release_hw count the commands in hand.
THEOREM LockCountsCommandsHolds == Spec => []LockCountsCommands
<1>1. TypeOK /\ SataInv => LockCountsCommands
  BY DEF SataInv
<1> QED
  BY <1>1, SataCorrect, PTL

\* The comment on acquire_hw is true: one port is operated on at once.
THEOREM OnePortAtOnceHolds == Spec => []OnePortAtOnce
<1>1. TypeOK /\ SataInv => OnePortAtOnce
  BY DEF SataInv, LockCountsCommands, OnePortAtOnce
<1> QED
  BY <1>1, SataCorrect, PTL

\* Every command in flight has its END interrupt on.
THEOREM EndIrqHolds == Spec => []EndIrqEnabled
<1>1. TypeOK /\ SataInv => EndIrqEnabled
  BY DEF SataInv
<1> QED
  BY <1>1, SataCorrect, PTL

\* A command the hardware has finished keeps its port pending until the
\* handler has taken it, whatever sata_oxnas_interrupt and the resets of the
\* other port acknowledge meanwhile.
THEOREM EndNotLostHolds == Spec => []EndNotLost
<1>1. TypeOK /\ SataInv => EndNotLost
  BY DEF SataInv
<1> QED
  BY <1>1, SataCorrect, PTL

\* Every step of an error handler keeps eh_mutex in the hands of one.
LEMMA MutexStep == TypeOK /\ MutexInv /\ [Next]_vars => MutexInv'
<1> SUFFICES ASSUME TypeOK, MutexInv, [Next]_vars
             PROVE  MutexInv'
  OBVIOUS
<1>n. \A p \in Ports : p # -1
  BY PortsAssumption
<1>t. eh \in [Ports -> EhStates]
  BY DEF TypeOK
<1>1. ASSUME UNCHANGED ehVars PROVE MutexInv'
  BY <1>1 DEF ehVars, MutexInv
<1>2. ASSUME NEW p \in Ports, NEW x \in EhStates, eh' = [eh EXCEPT ![p] = x],
             eh_mutex' = eh_mutex, eh[p] \notin {"idle", "flight", "relock"}
      PROVE  MutexInv'
  BY <1>2, <1>t DEF MutexInv
<1>3. ASSUME NEW p \in Ports, NEW x \in EhStates, eh' = [eh EXCEPT ![p] = x],
             eh_mutex = -1, eh_mutex' = p
      PROVE  MutexInv'
  BY <1>3, <1>t, <1>n DEF MutexInv
<1>4. ASSUME NEW p \in Ports, NEW x \in {"idle", "flight"}, eh' = [eh EXCEPT ![p] = x],
             eh[p] \notin {"idle", "flight", "relock"}
      PROVE  MutexInv'
  BY <1>4, <1>t DEF MutexInv
<1>5. ASSUME NEW p \in Ports, eh' = [eh EXCEPT ![p] = "relock"], eh_mutex' = eh_mutex
      PROVE  MutexInv'
  BY <1>5, <1>t DEF MutexInv
<1>6. ASSUME NEW p \in Ports, ErrorHandler(p) PROVE MutexInv'
  <2> USE DEF EhStates
  <2>1. CASE EhStart(p) BY <2>1, <1>3, ZenonT(30) DEF EhStart
  <2>2. CASE EhCleanup(p) BY <2>2, <1>2, ZenonT(30) DEF EhCleanup
  <2>3. CASE EhReset(p) BY <2>3, <1>2, ZenonT(30) DEF EhReset
  <2>4. CASE EhTry(p) BY <2>4, <1>2, <1>4 DEF EhTry, IssueInternal
  <2>5. CASE EhSleep(p) BY <2>5, <1>2 DEF EhSleep, AcquireInternal
  <2>6. CASE WaitCheck(p) BY <2>6, <1>2 DEF WaitCheck, AcquireInternal
  <2>7. CASE Expire(p) \/ Rouse(p) BY <2>7, <1>1 DEF Expire, Rouse
  <2>8. CASE EhIssue(p) BY <2>8, <1>4, ZenonT(30) DEF EhIssue, IssueInternal
  <2>9. CASE EhAnswer(p) BY <2>9, <1>5, ZenonT(30) DEF EhAnswer
  <2>10. CASE EhRelock(p) BY <2>10, <1>3, ZenonT(30) DEF EhRelock
  <2>11. CASE \E t \in Tags : EhFree(p, t) BY <2>11, <1>1 DEF EhFree
  <2>12. CASE EhEnd(p) BY <2>12, <1>4, ZenonT(30) DEF EhEnd
  <2>13. CASE EhPost(p) BY <2>13, <1>2, ZenonT(30) DEF EhPost
  <2>14. CASE EhQcFree(p) BY <2>14, <1>2 DEF EhQcFree
  <2> QED
    BY <1>6, <2>1, <2>2, <2>3, <2>4, <2>5, <2>6, <2>7, <2>8, <2>9, <2>10, <2>11, <2>12,
       <2>13, <2>14, ZenonT(30) DEF ErrorHandler
<1>7. ASSUME NEW p \in Ports, NEW t \in Tags, Command(p, t) PROVE UNCHANGED ehVars
  BY <1>7, ZenonT(30)
     DEF Command, QcNew, QcAcquire, QcDefer, QcIssue, Timeout, IrqCommand
<1>8. ASSUME NEW s \in Slots, HwEnd(s) PROVE UNCHANGED ehVars
  BY <1>8 DEF HwEnd
<1>9. ASSUME NEW p \in Ports, Hotplug(p) \/ IrqInternal(p) \/ IrqIdle(p) \/ CleanupStep(p)
      PROVE  UNCHANGED ehVars
  BY <1>9, ZenonT(30)
     DEF Hotplug, IrqInternal, IrqIdle, CleanupStep, PortInit, LinkReset, PortInitEnd
<1>10. CASE UNCHANGED vars
  BY <1>10, <1>1 DEF vars
<1> QED
  BY <1>1, <1>6, <1>7, <1>8, <1>9, <1>10, ZenonT(30) DEF Next

\* A sleeper of the two-second wait holds eh_mutex; the other port's internal
\* command holds the core, and cannot be freed without eh_mutex.
THEOREM WaitIsFutileHolds == Spec => WaitIsFutile
<1> DEFINE A == \A p, q \in Ports :
                   eh[p] = "wait" /\ eh[q] \in {"flight", "relock"}
                   => /\ eh'[p] \in {"wait", "finish"}
                      /\ eh'[q] \in {"flight", "relock"}
<1>1. Init => MutexInv
  BY DEF Init, MutexInv
<1>2. TypeOK /\ SataInv /\ MutexInv /\ [Next]_vars => A
  <2> SUFFICES ASSUME TypeOK, SataInv, MutexInv, [Next]_vars,
                      NEW p \in Ports, NEW q \in Ports,
                      eh[p] = "wait", eh[q] \in {"flight", "relock"}
               PROVE  /\ eh'[p] \in {"wait", "finish"}
                      /\ eh'[q] \in {"flight", "relock"}
    OBVIOUS
  <2>t. eh \in [Ports -> EhStates]
    BY DEF TypeOK
  <2>m. eh_mutex # -1
    <3>1. eh_mutex = p
      BY DEF MutexInv
    <3> QED
      BY <3>1, PortsAssumption
  <2>c. core_locked
    <3>1. <<q, Internal>> \in Slots
      BY DEF Slots
    <3>2. qc[<<q, Internal>>] \in InternalStates(eh[q])
      BY DEF SataInv, CommandsInv
    <3>3. <<q, Internal>> \in Holders
      BY <3>1, <3>2 DEF Holders, InternalStates
    <3>4. Cardinality(Holders) # 0
      BY <3>3, HoldersFinite, FS_EmptySet
    <3> QED
      BY <3>4, ZenonT(30) DEF SataInv, LockCountsCommands
  <2>1. ASSUME UNCHANGED eh
        PROVE  /\ eh'[p] \in {"wait", "finish"}
               /\ eh'[q] \in {"flight", "relock"}
    BY <2>1
  <2>2. ASSUME NEW r \in Ports, NEW x, eh' = [eh EXCEPT ![r] = x],
               eh[r] \notin {"wait", "flight", "relock"}
        PROVE  /\ eh'[p] \in {"wait", "finish"}
               /\ eh'[q] \in {"flight", "relock"}
    BY <2>2, <2>t
  <2>3. ASSUME NEW r \in Ports, ErrorHandler(r)
        PROVE  /\ eh'[p] \in {"wait", "finish"}
               /\ eh'[q] \in {"flight", "relock"}
    <3>1. CASE EhStart(r) BY <3>1, <2>m DEF EhStart
    <3>2. CASE EhCleanup(r) BY <3>2, <2>2 DEF EhCleanup
    <3>3. CASE EhReset(r) BY <3>3, <2>2 DEF EhReset
    <3>4. CASE EhTry(r) BY <3>4, <2>2 DEF EhTry, IssueInternal
    <3>5. CASE EhSleep(r) BY <3>5, <2>2 DEF EhSleep, AcquireInternal
    <3>6. CASE WaitCheck(r) BY <3>6, <2>c, <2>t DEF WaitCheck
    <3>7. CASE Expire(r) \/ Rouse(r) BY <3>7, <2>1 DEF Expire, Rouse, ehVars
    <3>8. CASE EhIssue(r) BY <3>8, <2>2 DEF EhIssue, IssueInternal
    <3>9. CASE EhAnswer(r) BY <3>9, <2>t DEF EhAnswer
    <3>10. CASE EhRelock(r) BY <3>10, <2>m DEF EhRelock
    <3>11. CASE \E t \in Tags : EhFree(r, t) BY <3>11, <2>1 DEF EhFree, ehVars
    <3>12. CASE EhEnd(r) BY <3>12, <2>2 DEF EhEnd
    <3>13. CASE EhPost(r) BY <3>13, <2>2 DEF EhPost
    <3>14. CASE EhQcFree(r) BY <3>14, <2>2 DEF EhQcFree
    <3> QED
      BY <2>3, <3>1, <3>2, <3>3, <3>4, <3>5, <3>6, <3>7, <3>8, <3>9, <3>10, <3>11,
         <3>12, <3>13, <3>14, ZenonT(30) DEF ErrorHandler
  <2>4. ASSUME NEW r \in Ports, NEW t \in Tags, Command(r, t) PROVE UNCHANGED eh
    BY <2>4, ZenonT(30)
       DEF Command, QcNew, QcAcquire, QcDefer, QcIssue, Timeout, IrqCommand, ehVars
  <2>5. ASSUME NEW s \in Slots, HwEnd(s) PROVE UNCHANGED eh
    BY <2>5 DEF HwEnd, ehVars
  <2>6. ASSUME NEW r \in Ports, Hotplug(r) \/ IrqInternal(r) \/ IrqIdle(r) \/ CleanupStep(r)
        PROVE  UNCHANGED eh
    BY <2>6, ZenonT(30) DEF Hotplug, IrqInternal, IrqIdle, CleanupStep, PortInit, LinkReset,
                            PortInitEnd, ehVars
  <2>7. CASE UNCHANGED vars
    BY <2>7, <2>1 DEF vars, ehVars
  <2> QED
    BY <2>1, <2>3, <2>4, <2>5, <2>6, <2>7, ZenonT(30) DEF Next
<1>3. TypeOK /\ SataInv /\ MutexInv /\ [Next]_vars => [A]_vars
  BY <1>2
<1> HIDE DEF A
<1>4. Spec => [][A]_vars
  BY <1>1, <1>3, MutexStep, SataCorrect, PTL DEF Spec
<1> QED
  BY <1>4 DEF WaitIsFutile, A

=============================================================================
