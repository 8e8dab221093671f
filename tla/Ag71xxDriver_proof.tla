------------------------- MODULE Ag71xxDriver_proof -------------------------
(***************************************************************************)
(* Proofs about the life cycle of an ag71xx device, whatever orders        *)
(* ethtool may set and however often the device is opened, closed and      *)
(* restarted; and about the cutting of packets into DMA segments, for      *)
(* every limit of the chip, every packet length and every shortest         *)
(* transfer.                                                               *)
(***************************************************************************)
EXTENDS Ag71xxLifecycle, Ag71xxFillDesc, TLAPS

-----------------------------------------------------------------------------
(* Opening, closing, resizing and restarting *)

\* Every step of the driver, the core and the PHY layer keeps the variables in
\* their types.
LEMMA TypeStep == TypeOK /\ [Next]_vars => TypeOK'
<1> SUFFICES ASSUME TypeOK, [Next]_vars PROVE TypeOK'
    OBVIOUS
<1> USE DEF TypeOK, Mishaps, devVars, netVars, workVars
<1>1. CASE OpenBegin BY <1>1 DEF OpenBegin
<1>2. CASE OpenOk BY <1>2 DEF OpenOk, HwEnableOk
<1>3. CASE OpenFails BY <1>3, ZenonT(30) DEF OpenFails
<1>4. CASE CloseBegin BY <1>4, ZenonT(30) DEF CloseBegin, HwDisable, NapiOff
<1>5. CASE CloseEnd BY <1>5 DEF CloseEnd, NapiWaited, NapiOff
<1>6. CASE SetClosed BY <1>6 DEF SetClosed
<1>7. CASE SetBegin BY <1>7 DEF SetBegin, HwDisable, NapiOff
<1>8. CASE SetStopped BY <1>8 DEF SetStopped, NapiWaited, NapiOff
<1>9. CASE SetOrder BY <1>9 DEF SetOrder
<1>10. CASE SetOpenOk BY <1>10 DEF SetOpenOk, HwEnableOk
<1>11. CASE SetOpenFails BY <1>11 DEF SetOpenFails
<1>12. CASE RestartDue BY <1>12 DEF RestartDue
<1>13. CASE RestartBegin BY <1>13 DEF RestartBegin, HwDisable, NapiOff
<1>14. CASE RestartStopped BY <1>14 DEF RestartStopped, NapiWaited, NapiOff
<1>15. CASE RestartOk BY <1>15 DEF RestartOk, HwEnableOk
<1>16. CASE RestartFails BY <1>16 DEF RestartFails, HwEnableFails
<1>17. CASE \E l \in {"up", "down"} : Phy(l) BY <1>17 DEF Phy
<1>18. CASE Linkwatch BY <1>18 DEF Linkwatch
<1>19. CASE Xmit BY <1>19 DEF Xmit
<1>20. CASE Irq BY <1>20 DEF Irq
<1>21. CASE Poll BY <1>21 DEF Poll
<1>22. CASE TxTimeout BY <1>22 DEF TxTimeout
<1>23. CASE UNCHANGED vars BY <1>23 DEF vars
<1> QED
    BY <1>1, <1>2, <1>3, <1>4, <1>5, <1>6, <1>7, <1>8, <1>9, <1>10, <1>11, <1>12,
       <1>13, <1>14, <1>15, <1>16, <1>17, <1>18, <1>19, <1>20, <1>21, <1>22, <1>23
       DEF Next

\* LifecycleInv is inductive: what one context leaves behind when it gives up
\* rtnl or sleeps is what the next one relies on.
LEMMA LifecycleStep == TypeOK /\ LifecycleInv /\ [Next]_vars => LifecycleInv'
<1> SUFFICES ASSUME TypeOK, LifecycleInv, [Next]_vars PROVE LifecycleInv'
    OBVIOUS
<1> USE DEF TypeOK, LifecycleInv, Quiet, Off, QueueHeld, devVars, netVars, workVars
<1>1. CASE OpenBegin BY <1>1 DEF OpenBegin
<1>2. CASE OpenOk BY <1>2 DEF OpenOk, HwEnableOk
<1>3. CASE OpenFails BY <1>3 DEF OpenFails
<1>4. CASE CloseBegin BY <1>4 DEF CloseBegin, HwDisable, NapiOff
<1>5. CASE CloseEnd BY <1>5 DEF CloseEnd, NapiWaited, NapiOff
<1>6. CASE SetClosed BY <1>6 DEF SetClosed
<1>7. CASE SetBegin BY <1>7 DEF SetBegin, HwDisable, NapiOff
<1>8. CASE SetStopped BY <1>8 DEF SetStopped, NapiWaited, NapiOff
<1>9. CASE SetOrder BY <1>9 DEF SetOrder
<1>10. CASE SetOpenOk BY <1>10 DEF SetOpenOk, HwEnableOk
<1>11. CASE SetOpenFails BY <1>11 DEF SetOpenFails
<1>12. CASE RestartDue BY <1>12 DEF RestartDue
<1>13. CASE RestartBegin BY <1>13 DEF RestartBegin, HwDisable, NapiOff
<1>14. CASE RestartStopped BY <1>14 DEF RestartStopped, NapiWaited, NapiOff
<1>15. CASE RestartOk BY <1>15 DEF RestartOk, HwEnableOk
<1>16. CASE RestartFails BY <1>16 DEF RestartFails, HwEnableFails
<1>17. CASE \E l \in {"up", "down"} : Phy(l) BY <1>17 DEF Phy
<1>18. CASE Linkwatch BY <1>18 DEF Linkwatch
<1>19. CASE Xmit BY <1>19 DEF Xmit
<1>20. CASE Irq BY <1>20 DEF Irq, Waiting
<1>21. CASE Poll BY <1>21 DEF Poll, Waiting
<1>22. CASE TxTimeout BY <1>22 DEF TxTimeout
<1>23. CASE UNCHANGED vars BY <1>23 DEF vars
<1> QED
    BY <1>1, <1>2, <1>3, <1>4, <1>5, <1>6, <1>7, <1>8, <1>9, <1>10, <1>11, <1>12,
       <1>13, <1>14, <1>15, <1>16, <1>17, <1>18, <1>19, <1>20, <1>21, <1>22, <1>23, ZenonT(30)
       DEF Next

\* The state after probe satisfies both.
LEMMA InitOK == Init => TypeOK /\ LifecycleInv
BY OrdersAssumption, ZenonT(30) DEF Init, TypeOK, LifecycleInv, Quiet, Off, QueueHeld, Mishaps

\* Types and the inductive invariant hold in every reachable state of the
\* device's life.
THEOREM LifecycleCorrect == Spec => [](TypeOK /\ LifecycleInv)
<1>1. TypeOK /\ LifecycleInv /\ [Next]_vars => (TypeOK /\ LifecycleInv)'
    BY TypeStep, LifecycleStep
<1> QED
    BY InitOK, <1>1, PTL DEF Spec

\* hard_start_xmit finds a ring, except in the gaps RingForTraffic names.
THEOREM RingForTrafficHolds == Spec => []RingForTraffic
<1>1. TypeOK /\ LifecycleInv => RingForTraffic
    BY DEF TypeOK, LifecycleInv, RingForTraffic, Quiet, Off, QueueHeld
<1> QED
    BY LifecycleCorrect, <1>1, PTL

\* napi_disable waits for ever only after one of the two mishaps RtnlLost names.
THEOREM RtnlLostHolds == Spec => []RtnlLost
<1>1. TypeOK /\ LifecycleInv => RtnlLost
    BY DEF TypeOK, LifecycleInv, RtnlLost, Waiting
<1> QED
    BY LifecycleCorrect, <1>1, PTL

\* Rings are freed with the order they were allocated with.
THEOREM FreedAsAllocatedHolds == Spec => []FreedAsAllocated
<1>1. LifecycleInv => FreedAsAllocated
    BY DEF LifecycleInv, FreedAsAllocated
<1> QED
    BY LifecycleCorrect, <1>1, PTL

\* rings_init never overwrites rings that are still allocated.
THEOREM NoRingLeakHolds == Spec => []NoRingLeak
<1>1. TypeOK /\ LifecycleInv => NoRingLeak
    BY DEF TypeOK, LifecycleInv, NoRingLeak, Off
<1> QED
    BY LifecycleCorrect, <1>1, PTL

\* A closed device is quiet, an open one enabled unless an allocation failed.
THEOREM OpenAndClosed == Spec => [](ClosedIsQuiet /\ OpenIsEnabled)
<1>1. LifecycleInv => ClosedIsQuiet /\ OpenIsEnabled
    BY DEF LifecycleInv, ClosedIsQuiet, OpenIsEnabled, Quiet, Off
<1> QED
    BY LifecycleCorrect, <1>1, PTL

-----------------------------------------------------------------------------
(* Segments *)

\* One descriptor fewer is desc_split bytes fewer.
LEMMA OneLess ==
    ASSUME NEW k \in Int, NEW s \in Nat
    PROVE  (k - 1) * s = k * s - s /\ k * s \in Int
  BY Z3

\* No descriptors hold no bytes, and two or more hold at least two segments.
LEMMA TwoOrMore ==
    ASSUME NEW k \in Int, NEW s \in Nat
    PROVE  (k <= 0 => k * s <= 0) /\ (k <= 1 => k * s <= s) /\ (k >= 1 => k * s >= s)
<1>1. ASSUME k <= 0 PROVE k * s <= 0
  BY <1>1, Z3
<1>2. ASSUME k <= 1 PROVE k * s <= s
  BY <1>2, Z3
<1>3. ASSUME k >= 1 PROVE k * s >= s
  BY <1>3, Z3
<1> QED BY <1>1, <1>2, <1>3

\* The next segment is safe to send, and so is what it leaves.
LEMMA NextSegment ==
    ASSUME FillTypeOK, SafeSegments, len > 0, len <= skbLen
    PROVE  /\ CurLen \in Nat /\ CurLen > MinDma /\ CurLen <= split /\ CurLen <= len
           /\ len - CurLen = 0 \/ len - CurLen > MinDma
           /\ split \in Nat
<1>1. len \in Nat /\ skbLen \in Nat /\ MinDma \in Nat /\ len > MinDma
  BY SplitAssumption DEF FillTypeOK, SafeSegments
<1>2. CASE descSplit = 0
  BY <1>1, <1>2 DEF CurLen, split
<1>3. CASE descSplit # 0
  <2>1. split \in Nat /\ split > 2 * MinDma
    BY <1>3, SplitAssumption DEF FillTypeOK, split
  <2> QED BY <1>1, <2>1 DEF CurLen
<1> QED BY <1>2, <1>3

\* The types and the invariant hold before the loop ...
LEMMA FillInit == FillBegin => FillTypeOK /\ FillInv
<1> SUFFICES ASSUME FillBegin PROVE FillTypeOK /\ FillInv
  OBVIOUS
<1>1. skbLen \in Nat /\ skbLen > MinDma /\ skbLen <= MaxLen /\ len = skbLen
  BY SplitAssumption DEF FillBegin
<1>2. FillTypeOK
  BY <1>1, SplitAssumption DEF FillBegin, FillTypeOK
<1>3. Room
  <2> SUFFICES ASSUME descSplit # 0 PROVE len <= (DsPerPkt - 0) * descSplit
    BY SplitAssumption DEF Room, FillBegin
  <2> QED BY <1>1, SplitAssumption DEF FillBegin
<1> QED BY <1>1, <1>2, <1>3, SplitAssumption
        DEF FillBegin, FillInv, SafeSegments, Tiling, Single

\* ... and every iteration keeps them.
LEMMA FillStep == FillTypeOK /\ FillInv /\ [FillNext]_fillVars => FillTypeOK' /\ FillInv'
<1> SUFFICES ASSUME FillTypeOK, FillInv, [FillNext]_fillVars PROVE FillTypeOK' /\ FillInv'
  OBVIOUS
<1>1. CASE UNCHANGED fillVars
  BY <1>1 DEF fillVars, FillTypeOK, FillInv, SafeSegments, Tiling, Room, Single, split
<1>2. CASE FillDesc
  <2> DEFINE c == CurLen
             seg == [at |-> addr, len |-> c, more |-> len - c > 0]
  <2>1. len \in Nat /\ addr \in Nat /\ skbLen \in Nat /\ ndesc \in Nat
        /\ addr + len = skbLen /\ len > 0 /\ MinDma \in Nat
    BY <1>2, SplitAssumption DEF FillTypeOK, FillInv, Tiling, FillDesc
  <2>2. /\ c \in Nat /\ c > MinDma /\ c <= split /\ c <= len
        /\ len - c = 0 \/ len - c > MinDma
        /\ split \in Nat
    BY <2>1, NextSegment DEF FillInv
  <2>3. /\ segs' = segs \union {seg} /\ addr' = addr + c /\ len' = len - c
        /\ ndesc' = ndesc + 1 /\ descSplit' = descSplit /\ skbLen' = skbLen
    BY <1>2 DEF FillDesc
  <2>4. split' = split
    BY <2>3 DEF split
  <2>5. seg.at = addr /\ seg.len = c /\ seg.more = (len - c > 0)
    OBVIOUS
  <2>6. (len - c > 0) <=> (addr + c < skbLen)
    BY <2>1, <2>2
  <2>7. Room'
    <3> SUFFICES ASSUME descSplit # 0
                 PROVE  ndesc + 1 <= DsPerPkt /\ len - c <= (DsPerPkt - (ndesc + 1)) * descSplit
      BY <2>3 DEF Room
    <3> DEFINE k == DsPerPkt - ndesc
               s == descSplit
    <3>1. k \in Int /\ s \in Nat /\ s > 2 * MinDma /\ split = s /\ DsPerPkt \in Nat
      BY <2>1, SplitAssumption DEF FillTypeOK, split
    <3>2. len <= k * s
      BY DEF FillInv, Room
    <3>3. DsPerPkt - (ndesc + 1) = k - 1 /\ (ndesc + 1 <= DsPerPkt <=> k >= 1)
      BY <2>1, <3>1
    <3>4. c = IF len > s THEN IF len <= s + MinDma THEN s - MinDma ELSE s ELSE len
      BY <3>1 DEF CurLen
    <3> HIDE DEF k, s, c
    <3>5. (k - 1) * s = k * s - s /\ k * s \in Int
      BY <3>1, OneLess
    <3>6. (k <= 0 => k * s <= 0) /\ (k <= 1 => k * s <= s)
      BY <3>1, TwoOrMore
    <3>7. k >= 1
      BY <2>1, <3>1, <3>2, <3>5, <3>6
    <3>8. len - c <= (k - 1) * s
      <4>1. CASE len > s + MinDma
        BY <4>1, <2>1, <3>1, <3>2, <3>4, <3>5
      <4>2. CASE len > s /\ len <= s + MinDma
        <5>1. k - 1 >= 1 /\ k - 1 \in Int
          BY <4>2, <2>1, <3>1, <3>2, <3>5, <3>6
        <5>2. (k - 1) * s >= s
          BY <5>1, <3>1, TwoOrMore
        <5>3. len - c <= 2 * MinDma
          BY <4>2, <2>1, <3>1, <3>4
        <5> QED BY <5>2, <5>3, <2>1, <2>2, <3>1, <3>5
      <4>3. CASE len <= s
        <5>1. c = len /\ len - c = 0
          BY <4>3, <2>1, <3>1, <3>4
        <5>2. k - 1 >= 0 /\ k - 1 \in Int
          BY <3>1, <3>7
        <5>3. (k - 1) * s >= 0
          BY <5>2, <3>1, Z3
        <5> QED BY <5>1, <5>3
      <4> QED BY <4>1, <4>2, <4>3, <2>1, <3>1
    <3> QED BY <3>3, <3>7, <3>8 DEF s
  <2>8. Single'
    <3> SUFFICES ASSUME descSplit = 0 PROVE ndesc + 1 = 1 /\ len - c = 0
      BY <2>3 DEF Single
    <3>1. ndesc = 0 /\ len = skbLen
      BY <2>1 DEF FillInv, Single
    <3> QED BY <2>1, <3>1 DEF CurLen, split
  <2> HIDE DEF c, seg
  <2>9. SafeSegments'
    BY <2>2, <2>3, <2>4, <2>5 DEF FillInv, SafeSegments
  <2>10. Tiling'
    <3>1. addr' + len' = skbLen'
      BY <2>1, <2>2, <2>3
    <3>2. ASSUME NEW s \in segs
          PROVE  /\ s.at + s.len <= addr'
                 /\ s.at = 0 \/ \E p \in segs' : p.at + p.len = s.at
                 /\ s.more <=> s.at + s.len < skbLen
      BY <2>1, <2>2, <2>3 DEF FillInv, Tiling, FillTypeOK
    <3>3. /\ seg.at + seg.len <= addr'
          /\ seg.at = 0 \/ \E p \in segs' : p.at + p.len = seg.at
          /\ seg.more <=> seg.at + seg.len < skbLen
      <4>1. seg.at + seg.len <= addr'
        BY <2>1, <2>2, <2>3, <2>5
      <4>2. addr = 0 \/ \E p \in segs' : p.at + p.len = addr
        BY <2>3 DEF FillInv, Tiling
      <4>3. seg.more <=> seg.at + seg.len < skbLen
        BY <2>5, <2>6, ZenonT(30)
      <4> QED BY <4>1, <4>2, <4>3, <2>5
    <3>4. seg \in segs' /\ seg.at + seg.len = addr'
      BY <2>3, <2>5
    <3> QED BY <2>3, <3>1, <3>2, <3>3, <3>4 DEF Tiling
  <2>11. FillTypeOK'
    <3>1. len' \in Nat /\ addr' \in Nat /\ ndesc' \in Nat
      BY <2>1, <2>2, <2>3
    <3>2. seg.at \in Nat /\ seg.len \in Nat /\ seg.more \in BOOLEAN
      BY <2>1, <2>2, <2>5
    <3> QED BY <2>3, <3>1, <3>2 DEF FillTypeOK
  <2> QED BY <2>7, <2>8, <2>9, <2>10, <2>11 DEF FillInv
<1> QED BY <1>1, <1>2 DEF FillNext

\* The invariant of the loop, for every split, length and shortest transfer.
THEOREM FillCorrect == FillSpec => [](FillTypeOK /\ FillInv)
  BY FillInit, FillStep, PTL DEF FillSpec

\* No packet makes the engine hang on a transfer it cannot do.
THEOREM SafeSegmentsHolds == FillSpec => []SafeSegments
<1>1. FillInv => SafeSegments
  BY DEF FillInv
<1> QED BY <1>1, FillCorrect, PTL

\* DsPerPkt descriptors are enough for every packet although some segments are
\* shortened: the number the flow control of hard_start_xmit counts on.
THEOREM EnoughDescsHolds == FillSpec => []EnoughDescs
<1>1. FillTypeOK /\ FillInv => EnoughDescs
  <2> SUFFICES ASSUME FillTypeOK, FillInv PROVE EnoughDescs
    OBVIOUS
  <2>1. CASE descSplit = 0
    BY <2>1 DEF FillInv, Single, EnoughDescs
  <2>2. CASE descSplit # 0
    BY <2>2 DEF FillInv, Room, EnoughDescs
  <2> QED BY <2>1, <2>2
<1> QED BY <1>1, FillCorrect, PTL

\* The segments are the packet, in order.
THEOREM TilingHolds == FillSpec => []Tiling
<1>1. FillInv => Tiling
  BY DEF FillInv
<1> QED BY <1>1, FillCorrect, PTL

\* The loop keeps its lengths and descriptors in their types.
THEOREM FillTypeCorrect == FillSpec => []FillTypeOK
  BY FillCorrect, PTL
=============================================================================
