---------------------------- MODULE BaReorder_proof ----------------------------
(***************************************************************************)
(* Proofs about the receive reordering of a block-ack session, for any     *)
(* number of sequence numbers, any window below half of them, any pool and *)
(* any traffic: what is held back stays sorted and within the window,      *)
(* CurMpdu is never followed too late, and no frame leaks.                 *)
(***************************************************************************)
EXTENDS BaReorderHandlers_proof

-------------------------------------------------------------------------------
(* The window and CurMpdu, in every state                                  *)

\* What the entry is between two steps.
SInv(t) == Good(t) /\ CurOK(t) /\ t.dangling = FALSE /\ t.up = <<>> /\ t.drop = {}

RestOK ==
  /\ world \in Scenarios
  /\ linked \in BOOLEAN /\ due \in BOOLEAN /\ expired \in BOOLEAN
  /\ rx \in [pc : {"frame", "bar"}, f : Frames] \cup {Idle}
  /\ mlme \in {"idle", "unlink", "free", "handle", "init", "link"}
  /\ base \in Nat /\ partial \in Nat \cup {None}
  /\ delivered \in Seq(Blocks)
  /\ arrived \subseteq Frames /\ gone \subseteq Frames /\ torn \subseteq Frames

IInv == RestOK /\ SInv(s)

\* A receiver that is busy has a frame in hand.
LEMMA RxFrame ==
  ASSUME RestOK, rx.pc \in {"frame", "bar"}
  PROVE  rx.f \in Frames /\ rx.f.n \in Nat
<1>1. rx # Idle
  BY DEF Idle
<1>2. rx \in [pc : {"frame", "bar"}, f : Frames]
  BY <1>1 DEF RestOK
<1> HIDE DEF Frames
<1>3. rx.f \in Frames
  BY <1>2
<1> QED BY <1>3 DEF Frames

\* The entry a handler leaves.
Plain(e) == [e EXCEPT !.up = <<>>, !.drop = {}]

\* The number, the blocks and what is known of the frame before are the same.
Alike(r, e) ==
  /\ r \in Entries
  /\ r.list = e.list /\ r.LastIndSeq = e.LastIndSeq /\ r.CurMpdu = e.CurMpdu
  /\ r.dangling = e.dangling /\ r.PreviousSN = e.PreviousSN
  /\ r.PreviousAmsduState = e.PreviousAmsduState
  /\ r.PreviousReorderCase = e.PreviousReorderCase

\* Good and CurOK depend only on the fields that Alike compares.
LEMMA AlikeGood ==
  ASSUME NEW e, Good(e), CurOK(e), NEW r, Alike(r, e)
  PROVE  Good(r) /\ CurOK(r)
<1>1. Good(r)
  BY DEF Good, Alike
<1>2. Held(e) => Held(r)
  BY DEF Held, Alike
<1>3. Past(e) => Past(r)
  BY DEF Past, Alike
<1> QED BY <1>1, <1>2, <1>3 DEF CurOK, Alike

\* Clearing what the last handler passed up or released keeps the invariant.
LEMMA PlainDoes ==
  ASSUME NEW e, Good(e), CurOK(e), e.dangling = FALSE
  PROVE  SInv(Plain(e)) /\ Plain(e).list = e.list /\ Plain(e).status = e.status
<1> DEFINE none == <<>>
           a == [e EXCEPT !.up = none]
           r == [a EXCEPT !.drop = {}]
<1>1. e \in Entries /\ none \in Seq(Blocks) /\ {} \in SUBSET Frames
  BY DEF Good
<1>2. Plain(e) = r
  BY DEF Plain
<1> HIDE DEF none
<1>3. Alike(a, e) /\ a.up = none /\ a.status = e.status
  BY <1>1, ZenonT(30) DEF Alike, Entries
<1> HIDE DEF a
<1>4. Alike(r, a) /\ r.up = none /\ r.drop = {} /\ r.status = a.status
  BY <1>1, <1>3, ZenonT(30) DEF Alike, Entries
<1> HIDE DEF r
<1>5. Alike(r, e)
  BY <1>3, <1>4 DEF Alike
<1>6. Good(r) /\ CurOK(r)
  BY <1>5, AlikeGood
<1> QED BY <1>2, <1>3, <1>4, <1>5, <1>6 DEF SInv, Alike, none

\* Changing the status of a session keeps the invariant.
LEMMA StatusDoes ==
  ASSUME NEW e, SInv(e), NEW x \in Statuses
  PROVE  SInv([e EXCEPT !.status = x]) /\ [e EXCEPT !.status = x].list = e.list
         /\ [e EXCEPT !.status = x].status = x
<1> DEFINE r == [e EXCEPT !.status = x]
<1>1. e \in Entries
  BY DEF SInv, Good
<1>2. Alike(r, e) /\ r.up = e.up /\ r.drop = e.drop /\ r.status = x
  BY <1>1 DEF Alike, Entries
<1> HIDE DEF r
<1>3. Good(r) /\ CurOK(r)
  BY <1>2, AlikeGood DEF SInv
<1>4. SInv(r) /\ r.list = e.list /\ r.status = x
  BY <1>2, <1>3 DEF SInv, Alike
<1> QED BY <1>4 DEF r

\* A tick of the timer keeps the invariant.
LEMMA TickDoes ==
  ASSUME NEW e, SInv(e), e.age < 2
  PROVE  /\ SInv([e EXCEPT !.age = e.age + 1]) /\ [e EXCEPT !.age = e.age + 1].list = e.list
         /\ [e EXCEPT !.age = e.age + 1].status = e.status
<1> DEFINE r == [e EXCEPT !.age = e.age + 1]
<1>1. e \in Entries
  BY DEF SInv, Good
<1>2. e.age + 1 \in 0 .. 2
  BY <1>1 DEF Entries
<1>3. Alike(r, e) /\ r.up = e.up /\ r.drop = e.drop /\ r.status = e.status
  BY <1>1, <1>2 DEF Alike, Entries
<1> HIDE DEF r
<1>4. Good(r) /\ CurOK(r)
  BY <1>3, AlikeGood DEF SInv
<1>5. SInv(r) /\ r.list = e.list /\ r.status = e.status
  BY <1>3, <1>4, SMTT(60) DEF SInv, Alike
<1> QED BY <1>5 DEF r

\* A handler of an entry between two steps leaves such an entry.
LEMMA RefreshStep ==
  ASSUME NEW e, Good(e)
  PROVE  Good(Refresh(e)) /\ CurOK(Refresh(e)) /\ Refresh(e).dangling = e.dangling
<1>1. Follows(Refresh(e), e) /\ Good(Refresh(e)) /\ Refresh(e).CurMpdu = None
  BY RefreshDoes, SMTT(60) DEF Good
<1> QED BY <1>1 DEF CurOK, Follows

\* The flush after a timeout keeps the invariant of a session.
LEMMA FlushStep ==
  ASSUME NEW e, Good(e), CurOK(e)
  PROVE  Good(TimeoutFlush(e)) /\ CurOK(TimeoutFlush(e)) /\ TimeoutFlush(e).dangling = e.dangling
<1>1. Follows(TimeoutFlush(e), e) /\ Good(TimeoutFlush(e))
  BY TimeoutFlushDoes
<1>2. CurOK(TimeoutFlush(e))
  BY TimeoutFlushCur
<1> QED BY <1>1, <1>2 DEF Follows

\* A BAR keeps the invariant of a session and loses no frame.
LEMMA BarStep ==
  ASSUME NEW e, Good(e), CurOK(e), NEW n \in Nat, NEW e1, e1 = AmsduSanity(e, SN(n), "FIRST")
  PROVE  /\ Good(Bar(e1, SN(n))) /\ CurOK(Bar(e1, SN(n))) /\ Bar(e1, SN(n)).dangling = e.dangling
         /\ All(e) \subseteq All(Bar(e1, SN(n))) /\ Bar(e1, SN(n)).status = e.status
<1> DEFINE r == Bar(e1, SN(n))
<1>1. /\ Follows(e1, e) /\ Good(e1)
      /\ AmsduMiss(e, SN(n), "FIRST") => e1.CurMpdu = None
      /\ ~AmsduMiss(e, SN(n), "FIRST") => e1 = e
  BY AmsduSanityDoes
<1>2. e1.CurMpdu = None
  <2>1. CASE AmsduMiss(e, SN(n), "FIRST")
    BY <1>1, <2>1
  <2>2. CASE ~AmsduMiss(e, SN(n), "FIRST")
    BY <1>1, <2>2 DEF AmsduMiss, CurOK
  <2> QED BY <2>1, <2>2
<1>3. SN(n) \in 0 .. M - 1
  BY SNType
<1>4. Follows(r, e1) /\ Good(r) /\ r.CurMpdu = e1.CurMpdu
  BY <1>1, <1>3, BarDoes, SMTT(60)
<1> HIDE DEF r
<1>5. CurOK(r) /\ r.dangling = e.dangling /\ r.status = e.status
  BY <1>1, <1>2, <1>4, ZenonT(30) DEF CurOK, Follows
<1>6. All(e) \subseteq All(r)
  BY <1>1, <1>4, FollowsAll
<1> QED BY <1>4, <1>5, <1>6 DEF r

\* Passing a frame up outside a session keeps the invariant.
LEMMA IndicateStep ==
  ASSUME NEW e, Good(e), CurOK(e), NEW f \in Frames
  PROVE  /\ Good(Indicate(e, f)) /\ CurOK(Indicate(e, f))
         /\ Indicate(e, f).dangling = e.dangling
<1>1. e \in Entries
  BY DEF Good
<1>2. Alike(Indicate(e, f), e)
  BY <1>1, IndicateDoes DEF Alike
<1> QED BY <1>2, AlikeGood DEF Alike

\* The inductive invariant holds initially.
LEMMA InvInit == Init => IInv
<1> SUFFICES ASSUME Init PROVE IInv
  OBVIOUS
<1> DEFINE none == <<>>
<1>1. none \in Seq(Blocks) /\ 0 \in 0 .. M - 1
  BY Numbering
<1>2. RestOK
  <2>1. world.first \in Nat
    BY WindowAssumption DEF Init
  <2> QED BY <1>1, <2>1, ZenonT(30) DEF Init, RestOK, First
<1>3. s \in Entries
  <2>1. s = [status |-> "Initialization", LastIndSeq |-> 0, list |-> none, CurMpdu |-> None,
             PreviousSN |-> 0, PreviousAmsduState |-> "MSDU", PreviousReorderCase |-> "STEP_ONE",
             age |-> 0, up |-> none, drop |-> {}, dangling |-> FALSE]
    BY DEF Init, Entry0
  <2> HIDE DEF none
  <2> QED BY <1>1, <2>1 DEF Entries, Statuses, Formats, Cases
<1>4. /\ s.list = <<>> /\ s.CurMpdu = None /\ s.dangling = FALSE /\ s.up = <<>> /\ s.drop = {}
  BY DEF Init, Entry0
<1>5. Good(s)
  BY <1>3, <1>4, EmptySorted DEF Good
<1> QED BY <1>2, <1>4, <1>5 DEF IInv, SInv, CurOK

\* Every step keeps the inductive invariant.
LEMMA InvNext == IInv /\ [Next]_vars => IInv'
<1> SUFFICES ASSUME IInv, [Next]_vars PROVE IInv'
  OBVIOUS
<1>1. RestOK /\ SInv(s) /\ Good(s) /\ CurOK(s) /\ s.dangling = FALSE
  BY DEF IInv, SInv
<1>2. delivered \in Seq(Blocks) /\ gone \subseteq Frames
  BY <1>1 DEF RestOK
\* an entry that becomes another one
<1>3. ASSUME NEW e, Good(e), CurOK(e), e.dangling = FALSE, Becomes(e)
      PROVE  SInv(s') /\ delivered' \in Seq(Blocks) /\ gone' \subseteq Frames
  <2>1. s' = Plain(e) /\ delivered' = delivered \o e.up /\ gone' = gone \cup e.drop
    BY <1>3 DEF Becomes, Plain
  <2>2. e.up \in Seq(Blocks) /\ e.drop \subseteq Frames
    BY <1>3 DEF Good, Entries
  <2>3. SInv(Plain(e))
    BY <1>3, PlainDoes, ZenonT(30)
  <2> QED BY <1>2, <2>1, <2>2, <2>3
<1>4. ASSUME NEW f \in Frames, Lookup(f), UNCHANGED world PROVE IInv'
  <2>1. SInv(s') /\ delivered' \in Seq(Blocks) /\ gone' \subseteq Frames
    <3>1. CASE linked
      BY <1>1, <1>2, <1>4, <3>1 DEF Lookup
    <3>2. CASE ~linked
      <4>1. Becomes(Indicate(s, f))
        BY <1>4, <3>2 DEF Lookup
      <4>2. Good(Indicate(s, f)) /\ CurOK(Indicate(s, f)) /\ Indicate(s, f).dangling = FALSE
        BY <1>1, IndicateStep
      <4> QED BY <1>3, <4>1, <4>2, ZenonT(30)
    <3> QED BY <3>1, <3>2
  <2>2. rx' \in [pc : {"frame", "bar"}, f : Frames] \cup {Idle}
    BY <1>1, <1>4 DEF Lookup, RestOK
  <2>3. partial' \in Nat \cup {None} /\ arrived' \subseteq Frames /\ torn' \subseteq Frames
    BY <1>1, <1>4 DEF Lookup, RestOK, Frames
  <2>4. /\ world' \in Scenarios /\ linked' \in BOOLEAN /\ due' \in BOOLEAN /\ expired' \in BOOLEAN
        /\ mlme' \in {"idle", "unlink", "free", "handle", "init", "link"} /\ base' \in Nat
    BY <1>1, <1>4 DEF Lookup, RestOK
  <2> QED BY <2>1, <2>2, <2>3, <2>4 DEF IInv, RestOK, Idle, NoFrame
<1>5. world \in Scenarios /\ \A n \in Numbers : n \in Nat
  <2>1. world \in Scenarios /\ world.first \in Nat /\ world.last \in Nat
    BY <1>1, WindowAssumption DEF RestOK
  <2> QED BY <2>1 DEF Numbers, First, MaxSeq
<1>6. CASE ReceiveMsdu /\ UNCHANGED world
  <2>1. PICK n \in Numbers : Lookup([n |-> n, fmt |-> "MSDU"])
    BY <1>6 DEF ReceiveMsdu
  <2>2. [n |-> n, fmt |-> "MSDU"] \in Frames
    BY <1>5 DEF Frames, Formats
  <2> QED BY <1>4, <1>6, <2>1, <2>2
<1>7. CASE ReceiveFirst /\ UNCHANGED world
  <2>1. PICK n \in Numbers : Lookup([n |-> n, fmt |-> "FIRST"])
    BY <1>7 DEF ReceiveFirst
  <2>2. [n |-> n, fmt |-> "FIRST"] \in Frames
    BY <1>5 DEF Frames, Formats
  <2> QED BY <1>4, <1>7, <2>1, <2>2
<1>8. CASE ReceiveFinal /\ UNCHANGED world
  <2>1. [n |-> partial, fmt |-> "FINAL"] \in Frames
    BY <1>1, <1>8 DEF ReceiveFinal, RestOK, Frames, Formats
  <2>2. Lookup([n |-> partial, fmt |-> "FINAL"])
    BY <1>8 DEF ReceiveFinal
  <2>3. PICK f \in Frames : f = [n |-> partial, fmt |-> "FINAL"]
    BY <2>1, SMTT(60)
  <2> QED BY <1>4, <1>8, <2>2, <2>3
<1>9. CASE Handle /\ UNCHANGED world
  <2> DEFINE f == rx.f
             miss == AmsduMiss(s, SN(f.n), f.fmt)
  <2>1. f \in Frames
    <3>1. rx.pc = "frame"
      BY <1>9, ZenonT(30) DEF Handle
    <3> QED BY <1>1, <3>1, RxFrame, ZenonT(30)
  <2>2. PICK e1 \in {AmsduSanity(s, SN(f.n), f.fmt)} :
          \E e2 \in {IF Last_(f.fmt) \/ miss THEN TimeoutFlush(e1) ELSE e1} :
            \/ s.status = "Initialization" /\ Becomes(Initialize(e2, f))
            \/ /\ s.status = "Established"
               /\ \E e3 \in {IF Surpasses(e2, SN(f.n)) THEN Shift(e2, SN(f.n)) ELSE e2} :
                    Becomes(Note(Check(e3, f), f))
            \/ s.status \in {"NONE", "USED", "HandleRes"} /\ Becomes(Refresh(e2))
    BY <1>9, ZenonT(30) DEF Handle
  <2>3. PICK e2 \in {IF Last_(f.fmt) \/ miss THEN TimeoutFlush(e1) ELSE e1} :
            \/ s.status = "Initialization" /\ Becomes(Initialize(e2, f))
            \/ /\ s.status = "Established"
               /\ \E e3 \in {IF Surpasses(e2, SN(f.n)) THEN Shift(e2, SN(f.n)) ELSE e2} :
                    Becomes(Note(Check(e3, f), f))
            \/ s.status \in {"NONE", "USED", "HandleRes"} /\ Becomes(Refresh(e2))
    BY <2>2
  <2>4. e1 = AmsduSanity(s, SN(f.n), f.fmt)
        /\ e2 = IF Last_(f.fmt) \/ miss THEN TimeoutFlush(e1) ELSE e1
    BY <2>2, <2>3
  <2>5. Follows(e1, s) /\ Good(e1)
    BY <1>1, <2>4, AmsduSanityDoes
  <2>6. Good(e2) /\ e2.dangling = FALSE
    <3>1. Follows(TimeoutFlush(e1), e1) /\ Good(TimeoutFlush(e1))
      BY <2>5, TimeoutFlushDoes
    <3> QED BY <1>1, <2>4, <2>5, <3>1, ZenonT(30) DEF Follows
  <2>7. SInv(s') /\ delivered' \in Seq(Blocks) /\ gone' \subseteq Frames
    <3>1. CASE Becomes(Initialize(e2, f))
      <4>1. /\ Good(Initialize(e2, f)) /\ CurOK(Initialize(e2, f))
            /\ Initialize(e2, f).dangling = FALSE
        BY <2>1, <2>6, InitializeDoes, ZenonT(30) DEF Good
      <4> QED BY <1>3, <3>1, <4>1, ZenonT(30)
    <3>2. CASE \E e3 \in {IF Surpasses(e2, SN(f.n)) THEN Shift(e2, SN(f.n)) ELSE e2} :
                 Becomes(Note(Check(e3, f), f))
      <4>1. PICK e3 \in {IF Surpasses(e2, SN(f.n)) THEN Shift(e2, SN(f.n)) ELSE e2} :
              Becomes(Note(Check(e3, f), f))
        BY <3>2
      <4>2. /\ Good(Note(Check(e3, f), f)) /\ CurOK(Note(Check(e3, f), f))
            /\ Note(Check(e3, f), f).dangling = FALSE
        BY <1>1, <2>1, <2>4, <4>1, HandleDoes
      <4> QED BY <1>3, <4>1, <4>2, ZenonT(30)
    <3>3. CASE Becomes(Refresh(e2))
      <4>1. Good(Refresh(e2)) /\ CurOK(Refresh(e2)) /\ Refresh(e2).dangling = FALSE
        BY <2>6, RefreshStep
      <4> QED BY <1>3, <3>3, <4>1, ZenonT(30)
    <3> QED BY <2>3, <3>1, <3>2, <3>3
  <2>8. expired' \in BOOLEAN
    BY <1>9, ZenonT(30) DEF Handle
  <2>9. /\ rx' = Idle
        /\ UNCHANGED <<world, linked, due, mlme, base, partial, barred, arrived, torn>>
    BY <1>9, ZenonT(30) DEF Handle, peer
  <2> QED BY <1>1, <2>7, <2>8, <2>9, ZenonT(30) DEF IInv, RestOK, Idle, NoFrame
<1>10. CASE ReceiveBar /\ UNCHANGED world
  <2>1. rx' \in [pc : {"frame", "bar"}, f : Frames]
    BY <1>1, <1>10, SMTT(60) DEF ReceiveBar, RestOK, Frames, Formats
  <2> QED BY <1>1, <1>10, <2>1, SMTT(60) DEF ReceiveBar, IInv, RestOK
<1>11. CASE HandleBar /\ UNCHANGED world
  <2>1. rx.f.n \in Nat
    <3>1. rx.pc = "bar"
      BY <1>11, ZenonT(30) DEF HandleBar
    <3> QED BY <1>1, <3>1, RxFrame, ZenonT(30)
  <2>2. PICK e \in {AmsduSanity(s, SN(rx.f.n), "FIRST")} : Becomes(Bar(e, SN(rx.f.n)))
    BY <1>11 DEF HandleBar
  <2>3. /\ Good(Bar(e, SN(rx.f.n))) /\ CurOK(Bar(e, SN(rx.f.n)))
        /\ Bar(e, SN(rx.f.n)).dangling = FALSE
    BY <1>1, <2>1, <2>2, BarStep, ZenonT(30)
  <2>4. SInv(s') /\ delivered' \in Seq(Blocks) /\ gone' \subseteq Frames
    BY <1>3, <2>2, <2>3, ZenonT(30)
  <2>5. rx' = Idle /\ UNCHANGED <<world, linked, due, mlme, base, partial, arrived, expired, torn>>
    BY <1>11 DEF HandleBar, peer
  <2> QED BY <1>1, <2>4, <2>5, ZenonT(30) DEF IInv, RestOK, Idle, NoFrame
<1>12. CASE Advance /\ UNCHANGED world
  BY <1>1, <1>12 DEF Advance, IInv, RestOK, Idle, NoFrame
<1>13. CASE Tick /\ UNCHANGED world
  <2>1. s' = [s EXCEPT !.age = s.age + 1] /\ s.age < 2
    BY <1>13 DEF Tick
  <2>2. SInv(s')
    BY <1>1, <2>1, TickDoes, SMTT(60)
  <2> QED BY <1>1, <1>13, <2>2 DEF Tick, peer, IInv, RestOK, Idle, NoFrame
<1>14. CASE Monitor /\ UNCHANGED world
  BY <1>1, <1>14, ZenonT(30) DEF Monitor, peer, IInv, RestOK, Idle, NoFrame
<1>15. CASE Flush /\ UNCHANGED world
  <2>1. SInv(s') /\ delivered' \in Seq(Blocks) /\ gone' \subseteq Frames
    <3>1. Good(TimeoutFlush(s)) /\ CurOK(TimeoutFlush(s)) /\ TimeoutFlush(s).dangling = FALSE
      BY <1>1, FlushStep
    <3>2. Becomes(TimeoutFlush(s))
      BY <1>15, ZenonT(30) DEF Flush
    <3> QED BY <1>3, <3>1, <3>2, ZenonT(30)
  <2> QED BY <1>1, <1>15, <2>1, ZenonT(30) DEF Flush, peer, IInv, RestOK, Idle, NoFrame
\* the MLME thread
<1>16. ASSUME NEW a, NEW b \in {"idle", "unlink", "free", "handle", "init", "link"}, Mlme(a, b),
              SInv(s'), delivered' \in Seq(Blocks), gone' \subseteq Frames,
              linked' \in BOOLEAN, UNCHANGED world
       PROVE  IInv'
  <2>1. torn' \subseteq Frames
    BY <1>1, <1>16 DEF Mlme, RestOK, Idle
  <2> QED BY <1>1, <1>16, <2>1, ZenonT(30) DEF Mlme, peer, IInv, RestOK, Idle, NoFrame
<1>17. linked \in BOOLEAN
  BY <1>1 DEF RestOK
<1>18. Good(Refresh(s)) /\ CurOK(Refresh(s)) /\ Refresh(s).dangling = FALSE
  BY <1>1, RefreshStep
<1>19. CASE TearRefresh /\ UNCHANGED world
  <2>1. SInv(s') /\ delivered' \in Seq(Blocks) /\ gone' \subseteq Frames
    BY <1>3, <1>18, <1>19, ZenonT(30) DEF TearRefresh
  <2> QED BY <1>16, <1>17, <1>19, <2>1 DEF TearRefresh
<1>20. CASE TearUnlink /\ UNCHANGED world
  BY <1>1, <1>2, <1>16, <1>20, ZenonT(30) DEF TearUnlink
<1>21. ASSUME NEW x \in {"NONE", "USED", "HandleRes", "Initialization"}, s' = [s EXCEPT !.status = x]
       PROVE  SInv(s')
  BY <1>1, <1>21, StatusDoes, ZenonT(30) DEF Statuses
<1>22. CASE TearFree /\ UNCHANGED world
  <2>1. SInv(s')
    BY <1>21, <1>22 DEF TearFree
  <2> QED BY <1>2, <1>16, <1>17, <1>22, <2>1 DEF TearFree
<1>23. CASE AddBegin /\ UNCHANGED world
  <2>1. CASE linked
    <3>1. SInv(s') /\ delivered' \in Seq(Blocks) /\ gone' \subseteq Frames
      BY <1>3, <1>18, <1>23, <2>1, ZenonT(30) DEF AddBegin
    <3> QED BY <1>16, <1>17, <1>23, <3>1 DEF AddBegin
  <2>2. CASE ~linked
    <3>1. SInv(s')
      BY <1>21, <1>23, <2>2 DEF AddBegin
    <3> QED BY <1>2, <1>16, <1>17, <1>23, <2>2, <3>1 DEF AddBegin
  <2> QED BY <2>1, <2>2
<1>24. CASE AddHandle /\ UNCHANGED world
  <2>1. SInv(s')
    BY <1>21, <1>24 DEF AddHandle
  <2> QED BY <1>2, <1>16, <1>17, <1>24, <2>1, SMTT(60) DEF AddHandle
<1>25. CASE AddInit /\ UNCHANGED world
  <2>1. SInv(s')
    BY <1>21, <1>25 DEF AddInit
  <2> QED BY <1>2, <1>16, <1>17, <1>25, <2>1, SMTT(60) DEF AddInit
<1>26. CASE AddLink /\ UNCHANGED world
  BY <1>1, <1>2, <1>16, <1>26, SMTT(60) DEF AddLink
<1>27. CASE UNCHANGED vars
  BY <1>1, <1>27 DEF vars, peer, IInv, RestOK, Idle, NoFrame
<1> QED
  BY <1>6, <1>7, <1>8, <1>9, <1>10, <1>11, <1>12, <1>13, <1>14, <1>15, <1>19, <1>20, <1>22,
     <1>23, <1>24, <1>25, <1>26, <1>27 DEF Next

\* The inductive invariant always holds.
LEMMA InvAlways == Spec => []IInv
BY InvInit, InvNext, PTL DEF Spec

\* The variables have their types.
THEOREM TypeCorrect == Spec => []TypeOK
<1>1. IInv => TypeOK
  BY SMTT(60) DEF IInv, RestOK, SInv, Good, TypeOK
<1> QED BY <1>1, InvAlways, PTL

\* What ba_reorder holds back is in order, each block after a gap and none
\* beyond the window; of the number amsdu_sanity may go back to, too.
THEOREM WindowInvHolds == Spec => []WindowInv
<1>1. IInv => WindowInv
  BY DEF IInv, SInv, Good, WindowInv, Window
<1> QED BY <1>1, InvAlways, PTL

\* What ba_reorder holds back is in the order of the sequence numbers, each
\* block after a gap and none beyond the window, wherever the numbers wrap.
THEOREM WindowHolds == Spec => []Window
<1>1. WindowInv => Window
  BY SMTT(60) DEF WindowInv
<1> QED BY <1>1, WindowInvHolds, PTL

\* While CurMpdu is set, its block is held, or LastIndSeq has passed it by no
\* more than the window.
THEOREM CurHolds == Spec => []CurInv
<1>1. IInv => CurInv
  <2> SUFFICES ASSUME IInv PROVE CurInv
    BY SMTT(60)
  <2>1. CurOK(s) /\ ~s.dangling
    BY ZenonT(30) DEF IInv, SInv
  <2>2. Past(s) => LET past == (s.LastIndSeq - s.PreviousSN) % M
                   IN /\ past <= BAWinSize
                      /\ \A i \in DOMAIN s.list : past + Ahead(s.list[i], s.LastIndSeq) <= BAWinSize
    BY DEF Past, Dist
  <2> QED BY <2>1, <2>2, ZenonT(30) DEF CurOK, Held, CurInv, NoDangling
<1> QED BY <1>1, InvAlways, PTL

\* CurMpdu is never followed after its block went back to the pool.
THEOREM NoDanglingHolds == Spec => []NoDangling
<1>1. CurInv => NoDangling
  BY DEF CurInv
<1> QED BY <1>1, CurHolds, PTL

-------------------------------------------------------------------------------
(* No frame leaks                                                          *)

\* The frames of two lists are frames of the lists joined.
LEMMA FramesConcat ==
  ASSUME NEW a \in Seq(Blocks), NEW b \in Seq(Blocks)
  PROVE  FramesOf(a) \cup FramesOf(b) \subseteq FramesOf(a \o b)
<1>1. Len(a) \in Nat /\ Len(b) \in Nat /\ DOMAIN a = 1 .. Len(a) /\ DOMAIN b = 1 .. Len(b)
  OBVIOUS
<1>2. DOMAIN (a \o b) = 1 .. Len(a) + Len(b)
  OBVIOUS
<1>3. ASSUME NEW i \in DOMAIN a PROVE i \in DOMAIN (a \o b) /\ (a \o b)[i] = a[i]
  BY <1>1, <1>2
<1>4. ASSUME NEW i \in DOMAIN b
      PROVE  Len(a) + i \in DOMAIN (a \o b) /\ (a \o b)[Len(a) + i] = b[i]
  BY <1>1, <1>2
<1> QED BY <1>3, <1>4, ZenonT(30) DEF FramesOf

\* The empty list holds no frame.
LEMMA NoFrames == FramesOf(<<>>) = {}
BY DEF FramesOf

\* The frames the driver has, or has passed up or released.
Safe == FramesOf(delivered) \cup gone \cup FramesOf(s.list)

\* No frame is leaked initially.
LEMMA LeakInit == Init => LeakInv
<1> SUFFICES ASSUME Init PROVE LeakInv
  OBVIOUS
<1>1. arrived = {} /\ rx.pc = "idle" /\ mlme = "idle" /\ s.status = "Initialization"
  BY DEF Init, Idle, Entry0
<1> QED BY <1>1 DEF LeakInv, NoneLeaks

\* Every step keeps every frame received held, passed up or released.
LEMMA LeakNext == IInv /\ LeakInv /\ [Next]_vars => LeakInv'
<1> SUFFICES ASSUME IInv, LeakInv, [Next]_vars PROVE LeakInv'
  OBVIOUS
<1>1. RestOK /\ SInv(s) /\ Good(s) /\ CurOK(s) /\ s \in Entries
  BY DEF IInv, SInv, Good
<1>2. delivered \in Seq(Blocks) /\ arrived \subseteq Frames
  BY <1>1 DEF RestOK
<1>3. arrived \subseteq Safe \cup torn \cup {f \in {rx.f} : rx.pc = "frame"}
  BY DEF LeakInv, NoneLeaks, Safe
\* no frame is lost when the entry becomes another one
<1>4. ASSUME NEW e \in Entries, Becomes(e), NEW F, All(s) \cup F \subseteq All(e)
      PROVE  Safe \cup F \subseteq Safe' /\ s'.status = e.status
  <2>1. /\ delivered' = delivered \o e.up /\ gone' = gone \cup e.drop
        /\ s' = [e EXCEPT !.up = <<>>, !.drop = {}]
    BY <1>4 DEF Becomes
  <2>2. s'.list = e.list /\ s'.status = e.status
    BY <2>1 DEF Entries
  <2>3. e.up \in Seq(Blocks)
    BY DEF Entries
  <2>4. FramesOf(delivered) \cup FramesOf(e.up) \subseteq FramesOf(delivered')
    BY <1>2, <2>1, <2>3, FramesConcat
  <2>5. Safe' = FramesOf(delivered') \cup gone' \cup FramesOf(s'.list)
    BY DEF Safe
  <2>6. FramesOf(s.list) \cup F \subseteq FramesOf(e.list) \cup FramesOf(e.up) \cup e.drop
    BY <1>4 DEF All
  <2> QED BY <2>1, <2>2, <2>4, <2>5, <2>6 DEF Safe
<1>5. /\ mlme = "idle" /\ linked => s.status \in {"Initialization", "Established"}
      /\ mlme = "free" => ~linked
      /\ mlme = "link" => s.status \in {"Initialization", "Established"}
      /\ rx.pc = "frame" => rx.f \in torn \/ (mlme = "idle" /\ linked)
  BY DEF LeakInv
<1>6. ASSUME arrived' \subseteq Safe' \cup torn' \cup {f \in {rx'.f} : rx'.pc = "frame"},
             mlme' = "idle" /\ linked' => s'.status \in {"Initialization", "Established"},
             mlme' = "free" => ~linked',
             mlme' = "link" => s'.status \in {"Initialization", "Established"},
             rx'.pc = "frame" => rx'.f \in torn' \/ (mlme' = "idle" /\ linked')
      PROVE  LeakInv'
  BY <1>6 DEF LeakInv, NoneLeaks, Safe
\* steps of the tasklet and the peer that keep what there is, and the session
<1>7. ASSUME Safe \subseteq Safe', UNCHANGED <<linked, mlme, torn, rx, arrived>>,
             s'.status = s.status
      PROVE  LeakInv'
  <2>1. arrived' \subseteq Safe' \cup torn' \cup {f \in {rx'.f} : rx'.pc = "frame"}
    BY <1>3, <1>7
  <2> QED BY <1>5, <1>6, <1>7, <2>1
<1>8. rx = Idle => {f \in {rx.f} : rx.pc = "frame"} = {} /\ rx.pc # "frame"
  BY DEF Idle
<1>9. ASSUME NEW f \in Frames, Lookup(f) PROVE LeakInv'
  <2>1. CASE linked
    <3>1. /\ rx = Idle /\ rx' = [pc |-> "frame", f |-> f] /\ arrived' = arrived \cup {f}
          /\ torn' = IF mlme = "idle" THEN torn ELSE torn \cup {f}
          /\ UNCHANGED <<s, delivered, gone, linked, mlme>>
      BY <1>9, <2>1 DEF Lookup
    <3>2. rx'.f = f /\ rx'.pc = "frame" /\ Safe' = Safe
      BY <3>1 DEF Safe
    <3>3. arrived' \subseteq Safe' \cup torn' \cup {g \in {rx'.f} : rx'.pc = "frame"}
      BY <1>3, <1>8, <3>1, <3>2
    <3> QED BY <1>5, <1>6, <2>1, <3>1, <3>2, <3>3, SMTT(60)
  <2>2. CASE ~linked
    <3>1. /\ rx = Idle /\ arrived' = arrived \cup {f} /\ torn \subseteq torn'
          /\ Becomes(Indicate(s, f)) /\ UNCHANGED <<linked, mlme, rx>>
      BY <1>9, <2>2, SMTT(60) DEF Lookup
    <3>2. Indicate(s, f) \in Entries /\ All(s) \cup {f} \subseteq All(Indicate(s, f))
          /\ Indicate(s, f).status = s.status
      BY <1>1, IndicateDoes, SMTT(60) DEF All
    <3>3. Safe \cup {f} \subseteq Safe' /\ s'.status = s.status
      BY <1>4, <3>1, <3>2, SMTT(60)
    <3>4. arrived' \subseteq Safe' \cup torn' \cup {g \in {rx'.f} : rx'.pc = "frame"}
      BY <1>3, <1>8, <3>1, <3>3
    <3> QED BY <1>5, <1>6, <1>8, <3>1, <3>3, <3>4
  <2> QED BY <2>1, <2>2
<1>10. world \in Scenarios /\ \A n \in Numbers : n \in Nat
  <2>1. world \in Scenarios /\ world.first \in Nat /\ world.last \in Nat
    BY <1>1, WindowAssumption DEF RestOK
  <2> QED BY <2>1 DEF Numbers, First, MaxSeq
<1>11. CASE ReceiveMsdu
  <2>1. PICK n \in Numbers : Lookup([n |-> n, fmt |-> "MSDU"])
    BY <1>11 DEF ReceiveMsdu
  <2>2. [n |-> n, fmt |-> "MSDU"] \in Frames
    BY <1>10 DEF Frames, Formats
  <2> QED BY <1>9, <2>1, <2>2
<1>12. CASE ReceiveFirst
  <2>1. PICK n \in Numbers : Lookup([n |-> n, fmt |-> "FIRST"])
    BY <1>12 DEF ReceiveFirst
  <2>2. [n |-> n, fmt |-> "FIRST"] \in Frames
    BY <1>10 DEF Frames, Formats
  <2> QED BY <1>9, <2>1, <2>2
<1>13. CASE ReceiveFinal
  <2>1. [n |-> partial, fmt |-> "FINAL"] \in Frames
    BY <1>1, <1>13 DEF ReceiveFinal, RestOK, Frames, Formats
  <2>2. PICK f \in Frames : f = [n |-> partial, fmt |-> "FINAL"]
    BY <2>1
  <2>3. Lookup(f)
    BY <1>13, <2>2, SMTT(60) DEF ReceiveFinal
  <2> QED BY <1>9, <2>3
<1>14. CASE Handle
  <2> DEFINE f == rx.f
             miss == AmsduMiss(s, SN(f.n), f.fmt)
  <2>1. f \in Frames /\ rx.pc = "frame"
    <3>1. rx.pc = "frame"
      BY <1>14, ZenonT(30) DEF Handle
    <3> QED BY <1>1, <3>1, RxFrame, ZenonT(30)
  <2>2. PICK e1 \in {AmsduSanity(s, SN(f.n), f.fmt)} :
          \E e2 \in {IF Last_(f.fmt) \/ miss THEN TimeoutFlush(e1) ELSE e1} :
            \/ s.status = "Initialization" /\ Becomes(Initialize(e2, f))
            \/ /\ s.status = "Established"
               /\ \E e3 \in {IF Surpasses(e2, SN(f.n)) THEN Shift(e2, SN(f.n)) ELSE e2} :
                    Becomes(Note(Check(e3, f), f))
            \/ s.status \in {"NONE", "USED", "HandleRes"} /\ Becomes(Refresh(e2))
    BY <1>14, ZenonT(30) DEF Handle
  <2>3. PICK e2 \in {IF Last_(f.fmt) \/ miss THEN TimeoutFlush(e1) ELSE e1} :
            \/ s.status = "Initialization" /\ Becomes(Initialize(e2, f))
            \/ /\ s.status = "Established"
               /\ \E e3 \in {IF Surpasses(e2, SN(f.n)) THEN Shift(e2, SN(f.n)) ELSE e2} :
                    Becomes(Note(Check(e3, f), f))
            \/ s.status \in {"NONE", "USED", "HandleRes"} /\ Becomes(Refresh(e2))
    BY <2>2
  <2>4. e1 = AmsduSanity(s, SN(f.n), f.fmt)
        /\ e2 = IF Last_(f.fmt) \/ miss THEN TimeoutFlush(e1) ELSE e1
    BY <2>2, <2>3
  <2>5. Follows(e1, s) /\ Good(e1)
    BY <1>1, <2>4, AmsduSanityDoes, SMTT(60)
  <2>6. Good(e2) /\ All(s) \subseteq All(e2) /\ e2 \in Entries /\ e2.status = s.status
    <3>1. Follows(TimeoutFlush(e1), e1) /\ Good(TimeoutFlush(e1))
      BY <2>5, TimeoutFlushDoes
    <3>2. All(s) \subseteq All(e1) /\ All(e1) \subseteq All(TimeoutFlush(e1))
      BY <2>5, <3>1, FollowsAll
    <3> QED BY <2>4, <2>5, <3>1, <3>2, ZenonT(30) DEF Follows, Good
  <2>7. /\ Safe \subseteq Safe' /\ (f \in Safe' \/ f \in torn)
        /\ s.status \in {"Initialization", "Established"} =>
             s'.status \in {"Initialization", "Established"}
    <3>1. CASE Becomes(Initialize(e2, f))
      <4>1. /\ Initialize(e2, f) \in Entries /\ Initialize(e2, f).status = "Established"
            /\ All(s) \cup {f} \subseteq All(Initialize(e2, f))
        BY <2>1, <2>6, InitializeDoes, ZenonT(30) DEF Good
      <4>2. Safe \cup {f} \subseteq Safe' /\ s'.status = "Established"
        BY <1>4, <3>1, <4>1
      <4> QED BY <4>2, SMTT(60)
    <3>2. CASE /\ s.status = "Established"
               /\ \E e3 \in {IF Surpasses(e2, SN(f.n)) THEN Shift(e2, SN(f.n)) ELSE e2} :
                    Becomes(Note(Check(e3, f), f))
      <4>1. PICK e3 \in {IF Surpasses(e2, SN(f.n)) THEN Shift(e2, SN(f.n)) ELSE e2} :
              Becomes(Note(Check(e3, f), f))
        BY <3>2, SMTT(60)
      <4>2. /\ Good(Note(Check(e3, f), f)) /\ Note(Check(e3, f), f).status = s.status
            /\ All(s) \cup {f} \subseteq All(Note(Check(e3, f), f))
        BY <1>1, <2>1, <2>4, <4>1, HandleDoes, SMTT(60)
      <4>3. Note(Check(e3, f), f) \in Entries
        BY <4>2, ZenonT(30) DEF Good
      <4>4. Safe \cup {f} \subseteq Safe' /\ s'.status = s.status
        BY <1>4, <4>1, <4>2, <4>3, ZenonT(30)
      <4> QED BY <4>4
    <3>3. CASE s.status \in {"NONE", "USED", "HandleRes"} /\ Becomes(Refresh(e2))
      <4>1. Follows(Refresh(e2), e2) /\ Refresh(e2) \in Entries
        BY <2>6, RefreshDoes, ZenonT(30) DEF Follows
      <4>2. All(s) \cup {} \subseteq All(Refresh(e2)) /\ Refresh(e2).status = s.status
        BY <2>6, <4>1, FollowsAll, ZenonT(30) DEF Follows
      <4>3. Safe \cup {} \subseteq Safe' /\ s'.status = s.status
        BY <1>4, <3>3, <4>1, <4>2
      <4>4. f \in torn
        BY <1>5, <2>1, <3>3, SMTT(60)
      <4> QED BY <4>3, <4>4, SMTT(60)
    <3> QED BY <2>3, <3>1, <3>2, <3>3
  <2>8. rx' = Idle /\ UNCHANGED <<linked, mlme, arrived, torn>>
    BY <1>14, ZenonT(30) DEF Handle, peer
  <2>9. rx'.pc # "frame"
    BY <2>8, SMTT(60) DEF Idle
  <2>10. arrived' \subseteq Safe' \cup torn' \cup {g \in {rx'.f} : rx'.pc = "frame"}
    BY <1>3, <2>7, <2>8, ZenonT(30)
  <2> QED BY <1>5, <1>6, <2>7, <2>8, <2>9, <2>10, SMTT(60)
<1>15. CASE ReceiveBar
  <2>1. /\ rx = Idle /\ rx' = [pc |-> "bar", f |-> [n |-> base, fmt |-> "FIRST"]]
        /\ UNCHANGED <<s, linked, mlme, arrived, delivered, gone, torn>>
    BY <1>15 DEF ReceiveBar
  <2>2. rx'.pc # "frame" /\ Safe' = Safe
    BY <2>1 DEF Safe
  <2>3. arrived' \subseteq Safe' \cup torn' \cup {g \in {rx'.f} : rx'.pc = "frame"}
    BY <1>3, <1>8, <2>1, <2>2, SMTT(60)
  <2> QED BY <1>5, <1>6, <2>1, <2>2, <2>3, SMTT(60)
<1>16. CASE HandleBar
  <2>1. rx.f.n \in Nat /\ rx.pc # "frame"
    <3>1. rx.pc = "bar"
      BY <1>16, ZenonT(30) DEF HandleBar
    <3>2. rx.f.n \in Nat
      BY <1>1, <3>1, RxFrame, ZenonT(30)
    <3> QED BY <3>1, <3>2
  <2>2. PICK e \in {AmsduSanity(s, SN(rx.f.n), "FIRST")} : Becomes(Bar(e, SN(rx.f.n)))
    BY <1>16, SMTT(60) DEF HandleBar
  <2>3. /\ Good(Bar(e, SN(rx.f.n))) /\ All(s) \subseteq All(Bar(e, SN(rx.f.n)))
        /\ Bar(e, SN(rx.f.n)).status = s.status
    BY <1>1, <2>1, <2>2, BarStep, ZenonT(30)
  <2>4. Bar(e, SN(rx.f.n)) \in Entries /\ All(s) \cup {} \subseteq All(Bar(e, SN(rx.f.n)))
    BY <2>3, ZenonT(30) DEF Good
  <2>5. Safe \cup {} \subseteq Safe' /\ s'.status = s.status
    BY <1>4, <2>2, <2>3, <2>4, ZenonT(30)
  <2>6. rx' = Idle /\ UNCHANGED <<linked, mlme, arrived, torn>>
    BY <1>16 DEF HandleBar, peer
  <2>7. rx'.pc # "frame"
    BY <2>6, SMTT(60) DEF Idle
  <2>8. arrived' \subseteq Safe' \cup torn' \cup {g \in {rx'.f} : rx'.pc = "frame"}
    BY <1>3, <2>1, <2>5, <2>6
  <2> QED BY <1>5, <1>6, <2>5, <2>6, <2>7, <2>8, SMTT(60)
<1>17. CASE Advance
  BY <1>7, <1>17 DEF Advance, Safe
<1>18. CASE Tick
  <2>1. s' = [s EXCEPT !.age = s.age + 1] /\ s.age < 2
    BY <1>18 DEF Tick
  <2>2. s'.list = s.list /\ s'.status = s.status
    BY <1>1, <2>1, TickDoes, SMTT(60)
  <2> QED BY <1>7, <1>18, <2>2 DEF Tick, peer, Safe
<1>19. CASE Monitor
  BY <1>7, <1>19 DEF Monitor, peer, Safe
<1>20. CASE Flush
  <2>1. Follows(TimeoutFlush(s), s) /\ TimeoutFlush(s) \in Entries
    BY <1>1, TimeoutFlushDoes, ZenonT(30) DEF Follows
  <2>2. All(s) \cup {} \subseteq All(TimeoutFlush(s)) /\ TimeoutFlush(s).status = s.status
    BY <2>1, FollowsAll, ZenonT(30) DEF Follows
  <2>3. Safe \cup {} \subseteq Safe' /\ s'.status = s.status
    BY <1>4, <1>20, <2>1, <2>2 DEF Flush
  <2> QED BY <1>7, <1>20, <2>3, SMTT(60) DEF Flush, peer
\* the MLME thread: the frame the tasklet has is one of those around a change
<1>21. ASSUME NEW a, NEW b, Mlme(a, b), Safe \subseteq Safe',
              b = "idle" /\ linked' => s'.status \in {"Initialization", "Established"},
              b = "free" => ~linked',
              b = "link" => s'.status \in {"Initialization", "Established"}
       PROVE  LeakInv'
  <2>1. /\ mlme' = b /\ UNCHANGED <<rx, arrived>> /\ torn \subseteq torn'
        /\ rx.pc = "frame" => rx.f \in torn'
    BY <1>21 DEF Mlme, peer
  <2>2. arrived' \subseteq Safe' \cup torn' \cup {f \in {rx'.f} : rx'.pc = "frame"}
    BY <1>3, <1>21, <2>1
  <2> QED BY <1>6, <1>21, <2>1, <2>2
<1>22. ASSUME Becomes(Refresh(s)) PROVE Safe \subseteq Safe' /\ s'.status = s.status
  <2>1. Follows(Refresh(s), s) /\ Refresh(s) \in Entries
    BY <1>1, RefreshDoes, ZenonT(30) DEF Follows
  <2>2. All(s) \cup {} \subseteq All(Refresh(s)) /\ Refresh(s).status = s.status
    BY <2>1, FollowsAll, ZenonT(30) DEF Follows
  <2>3. Safe \cup {} \subseteq Safe' /\ s'.status = s.status
    BY <1>4, <1>22, <2>1, <2>2, ZenonT(30)
  <2> QED BY <2>3, SMTT(60)
<1>23. ASSUME NEW x \in Statuses, s' = [s EXCEPT !.status = x], UNCHANGED <<delivered, gone>>
       PROVE  Safe \subseteq Safe' /\ s'.status = x
  <2>1. s'.list = s.list /\ s'.status = x
    BY <1>1, <1>23, StatusDoes
  <2> QED BY <1>23, <2>1 DEF Safe
<1>24. CASE TearRefresh
  BY <1>21, <1>22, <1>24 DEF TearRefresh
<1>25. CASE TearUnlink
  <2>1. Safe \subseteq Safe'
    BY <1>25 DEF TearUnlink, Safe
  <2> QED BY <1>21, <1>25, <2>1 DEF TearUnlink
<1>26. CASE TearFree
  <2>1. Safe \subseteq Safe'
    BY <1>23, <1>26 DEF TearFree, Statuses
  <2>2. ~linked'
    BY <1>5, <1>26 DEF TearFree, Mlme
  <2> QED BY <1>21, <1>26, <2>1, <2>2 DEF TearFree
<1>27. CASE AddBegin
  <2>1. Safe \subseteq Safe'
    <3>1. CASE linked
      BY <1>22, <1>27, <3>1 DEF AddBegin
    <3>2. CASE ~linked
      BY <1>23, <1>27, <3>2 DEF AddBegin, Statuses
    <3> QED BY <3>1, <3>2
  <2> QED BY <1>21, <1>27, <2>1 DEF AddBegin
<1>28. CASE AddHandle
  <2>1. Safe \subseteq Safe'
    BY <1>23, <1>28 DEF AddHandle, Statuses
  <2> QED BY <1>21, <1>28, <2>1 DEF AddHandle
<1>29. CASE AddInit
  <2>1. Safe \subseteq Safe' /\ s'.status = "Initialization"
    BY <1>23, <1>29 DEF AddInit, Statuses
  <2> QED BY <1>21, <1>29, <2>1 DEF AddInit
<1>30. CASE AddLink
  <2>1. Safe \subseteq Safe' /\ s' = s
    BY <1>30 DEF AddLink, Safe
  <2>2. s'.status \in {"Initialization", "Established"}
    BY <1>5, <1>30, <2>1 DEF AddLink, Mlme
  <2> QED BY <1>21, <1>30, <2>1, <2>2 DEF AddLink
<1>31. CASE UNCHANGED vars
  BY <1>7, <1>31 DEF vars, peer, Safe
<1> QED
  BY <1>11, <1>12, <1>13, <1>14, <1>15, <1>16, <1>17, <1>18, <1>19, <1>20, <1>24, <1>25, <1>26,
     <1>27, <1>28, <1>29, <1>30, <1>31 DEF Next

\* LeakInv: which frames may be lost is known when the session changes.
THEOREM LeakHolds == Spec => []LeakInv
BY LeakInit, LeakNext, InvAlways, PTL DEF Spec

\* Every frame that arrived is passed up, released, held or in the tasklet's
\* hands, but where the session changed around ba_reorder's lookup.
THEOREM NoneLeaksHolds == Spec => []NoneLeaks
<1>1. LeakInv => NoneLeaks
  BY DEF LeakInv
<1> QED BY <1>1, LeakHolds, PTL
===============================================================================
