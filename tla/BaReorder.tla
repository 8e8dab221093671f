------------------------------ MODULE BaReorder ------------------------------
(***************************************************************************)
(* Receive reordering of the mt_wifi driver (ba_action.c): the frames of a *)
(* block-ack session arrive out of order, are held back until the gap      *)
(* before them is filled, timed out or given up, and go up in order.       *)
(*                                                                         *)
(* One session entry of the table.  The receive tasklet runs ba_reorder,   *)
(* bar_process and ba_timeout_flush one after the other; ba_reorder looks  *)
(* the session up and then works on it, and the MLME thread may add or     *)
(* tear down the session in between.  Sequence numbers are taken modulo M  *)
(* (4096 in the code).  Every frame has a number that does not wrap, which *)
(* only the properties use.  The hardware splits an A-MSDU into frames     *)
(* with one sequence number, FIRST and FINAL (fASIC_CAP_HW_DAMSDU); the    *)
(* code treats MIDDLE as it treats FIRST.                                  *)
(***************************************************************************)
EXTENDS Integers, Sequences, FiniteSets, FiniteSetsExt

CONSTANTS
  M,            \* MAXSEQ + 1, a power of 2
  BAWinSize,
  Scenarios     \* what may happen in one behaviour, see world

ASSUME WindowAssumption ==
  /\ M \in Nat /\ M % 2 = 0
  /\ BAWinSize \in 1 .. M \div 2 - 1
  /\ Scenarios \subseteq
       [first : Nat, last : Nat, pool : Nat, aggregated : SUBSET Nat,
        eap : SUBSET Nat, dups : BOOLEAN, sessions : Nat]

VARIABLES
  world,        \* the scenario, which never changes
  s,            \* the BA_REC_ENTRY
  linked,       \* BARecWcidArray[TID] # 0
  due,          \* its bit of ba_timeout_bitmap, and ba_timeout_check
  rx,           \* frame or BAR the tasklet has looked the session up for
  mlme,         \* what the MLME thread does
  sessions,
  base,         \* first frame the peer still sends
  partial,      \* A-MSDU whose FIRST was the last frame to come
  barred,       \* base of the last BAR
  arrived,      \* frames that reached the driver
  \* history
  delivered,    \* blocks passed up, in order
  gone,         \* dropped and released
  expired,      \* a gap was given up for its age
  torn          \* frames for which the MLME thread was, or came, in between

peer == <<base, partial, barred, arrived>>
vars == <<world, s, linked, due, rx, mlme, sessions, peer, delivered, gone, expired, torn>>

\* The frames the peer sends; those that are A-MSDUs, and those that carry EAP
\* (fRX_EAP); the blocks of mpdu_blk_pool other sessions leave to this one;
\* whether repetitions of a frame reach the driver; how often the session is
\* torn down or added anew.
First == world.first
MaxSeq == world.last
Aggregated == world.aggregated
Eap == world.eap
Pool == world.pool
Dups == world.dups
MaxSessions == world.sessions

None == -1
SN(n) == n % M
StepOne(a, b) == a = (b + 1) % M
\* (a - b) & ((MAXSEQ + 1) >> 1)
SeqSmaller(a, b) == (a - b) % M >= M \div 2

NoFrame == [n |-> None, fmt |-> "MSDU"]
Last_(fmt) == fmt \in {"FINAL", "MSDU"}

\* a session entry: list and up are sequences of blocks, and a block is a
\* sequence of frames with one sequence number, the first one with the others
\* in its AmsduList; age is how long ago LastIndSeqAtTimer was: 0, over 100 ms,
\* over 250 ms; up and drop are what a handler passes up and releases
Entry0 ==
  [status |-> "Initialization", LastIndSeq |-> 0, list |-> <<>>, CurMpdu |-> None,
   PreviousSN |-> 0, PreviousAmsduState |-> "MSDU", PreviousReorderCase |-> "STEP_ONE",
   age |-> 0, up |-> <<>>, drop |-> {}, dangling |-> FALSE]

Seq_(blk) == SN(Head(blk).n)
Used(e) == MapThenSumSet(LAMBDA i : Len(e.list[i]), DOMAIN e.list)

-------------------------------------------------------------------------------
(* The list                                                                *)

\* the first k blocks go up, each with its AmsduList
Release(e, k) ==
  [e EXCEPT !.up = @ \o SubSeq(e.list, 1, k), !.list = SubSeq(@, k + 1, Len(@))]

\* how many blocks come before the first one at which the loop stops
Prefix(e, stops) == Min(stops \cup {Len(e.list) + 1}) - 1

\* Mutant of InOrder: what follows the filled gap stays.
InOrderNone(e, start) == e

\* ba_indicate_reordering_mpdus_in_order, with the LastIndSeq its callers set
InOrder(e, start) ==
  LET k == Prefix(e, {i \in DOMAIN e.list : Seq_(e.list[i]) # (start + i) % M})
  IN [Release(e, k) EXCEPT !.LastIndSeq = IF k = 0 THEN @ ELSE (start + k) % M]

\* ba_indicate_reordering_mpdus_le_seq
LeSeq(e, seq) ==
  Release(e, Prefix(e, {i \in DOMAIN e.list :
                          Seq_(e.list[i]) # seq /\ ~SeqSmaller(Seq_(e.list[i]), seq)}))

\* ba_refresh_reordering_mpdus
Refresh(e) ==
  [Release(e, Len(e.list)) EXCEPT
     !.LastIndSeq = IF e.list = <<>> THEN @ ELSE Seq_(e.list[Len(e.list)]),
     !.CurMpdu = None]

\* everything up to seq goes up, and what follows seq without a gap
MoveTo(e, seq) == InOrder([LeSeq(e, seq) EXCEPT !.LastIndSeq = seq, !.age = 0], seq)

\* the list with a block before its i-th one
InsertAt(list, i, blk) == SubSeq(list, 1, i - 1) \o <<blk>> \o SubSeq(list, i, Len(list))

\* Mutant of InsertSorted: a frame that comes again is inserted again.
InsertDup(e, f) ==
  LET before == Prefix(e, {i \in DOMAIN e.list : ~SeqSmaller(Seq_(e.list[i]), SN(f.n))})
  IN [e EXCEPT !.list = InsertAt(@, before + 1, <<f>>), !.CurMpdu = f.n]

\* Mutant of InsertSorted: a frame is held behind the others.
InsertTail(e, f) == [e EXCEPT !.list = Append(@, <<f>>), !.CurMpdu = f.n]

\* ba_reordering_mpdu_insertsorted; a duplicate is released
InsertSorted(e, f) ==
  LET before == Prefix(e, {i \in DOMAIN e.list : ~SeqSmaller(Seq_(e.list[i]), SN(f.n))})
  IN IF before < Len(e.list) /\ Seq_(e.list[before + 1]) = SN(f.n)
       THEN [e EXCEPT !.drop = @ \cup {f}]
       ELSE [e EXCEPT !.list = InsertAt(@, before + 1, <<f>>), !.CurMpdu = f.n]

\* ba_enqueue_tail to the AmsduList of CurMpdu, which may have been freed
EnqueueTail(e, f) ==
  IF \E i \in DOMAIN e.list : Head(e.list[i]).n = e.CurMpdu
    THEN [e EXCEPT !.list = [i \in DOMAIN @ |->
            IF Head(@[i]).n = e.CurMpdu THEN Append(@[i], f) ELSE @[i]]]
    ELSE [e EXCEPT !.dangling = TRUE]

-------------------------------------------------------------------------------
(* Handlers                                                                *)

Indicate(e, f) == [e EXCEPT !.up = Append(@, <<f>>)]
Drop(e, f) == [e EXCEPT !.drop = @ \cup {f}]

\* ba_enqueue_reordering_packet; without a block, or for an EAP frame, the
\* frame and all before it go up at once
Enqueue(e, f) ==
  IF Used(e) < Pool /\ f.n \notin Eap
    THEN IF e.CurMpdu = None THEN InsertSorted(e, f) ELSE EnqueueTail(e, f)
    ELSE LET e1 == [LeSeq(e, SN(f.n)) EXCEPT !.LastIndSeq = SN(f.n)]
         IN [InOrder(Indicate(e1, f), SN(f.n)) EXCEPT !.age = 0, !.CurMpdu = None]

\* ba_flush_reordering_timeout_mpdus
TimeoutFlush(e) ==
  CASE e.list # <<>> /\ e.age = 2 -> [Refresh(e) EXCEPT !.age = 0]
    [] e.list # <<>> /\ e.age = 1 -> MoveTo(e, (e.LastIndSeq + 1) % M)
    [] OTHER -> e

\* amsdu_sanity: the rest of the A-MSDU before is missing
AmsduMiss(e, seq, fmt) ==
  e.PreviousAmsduState = "FIRST" /\ (seq # e.PreviousSN \/ fmt = "FIRST")

\* Mutant of AmsduSanity: CurMpdu is kept.
AmsduSanityKeep(e, seq, fmt) ==
  IF AmsduMiss(e, seq, fmt) /\ e.PreviousReorderCase = "STEP_ONE"
    THEN InOrder([e EXCEPT !.LastIndSeq = e.PreviousSN, !.age = 0], e.PreviousSN)
    ELSE e

AmsduSanity(e, seq, fmt) ==
  IF ~AmsduMiss(e, seq, fmt) THEN e
  ELSE LET e1 == [e EXCEPT !.CurMpdu = None]
       IN IF e.PreviousReorderCase # "STEP_ONE" THEN e1
          ELSE InOrder([e1 EXCEPT !.LastIndSeq = e.PreviousSN, !.age = 0], e.PreviousSN)

Surpasses(e, seq) ==
  /\ ~StepOne(seq, e.LastIndSeq)
  /\ seq # e.LastIndSeq
  /\ ~SeqSmaller(seq, e.LastIndSeq)
  /\ ~SeqSmaller(seq, (e.LastIndSeq + BAWinSize + 1) % M)

\* ba_reorder_check: in order, repeated, old, within the window
Check(e, f) ==
  LET seq == SN(f.n)
  IN CASE StepOne(seq, e.LastIndSeq) ->
            LET e1 == [Indicate(e, f) EXCEPT !.PreviousReorderCase = "STEP_ONE"]
            IN IF Last_(f.fmt)
                 THEN InOrder([e1 EXCEPT !.LastIndSeq = seq, !.age = 0], seq)
                 ELSE e1
       [] seq = e.LastIndSeq -> [Drop(e, f) EXCEPT !.PreviousReorderCase = "REPEAT"]
       [] seq # e.LastIndSeq /\ SeqSmaller(seq, e.LastIndSeq) ->
            [Drop(e, f) EXCEPT !.PreviousReorderCase = "OLDPKT"]
       [] Surpasses(e, seq) -> [e EXCEPT !.PreviousReorderCase = "SURPASS"]
       [] OTHER -> [Enqueue(e, f) EXCEPT !.PreviousReorderCase = "WITHIN"]

\* Mutant of Shift: the window ends at the frame before.
ShiftShort(e, seq) == MoveTo(e, (seq - BAWinSize - 1) % M)

\* a frame beyond the window moves it, and is checked again
Shift(e, seq) == MoveTo(e, (seq - BAWinSize) % M)

\* what ba_reorder leaves for the next frame
Note(e, f) ==
  [e EXCEPT !.PreviousAmsduState = f.fmt, !.PreviousSN = SN(f.n),
            !.CurMpdu = IF Last_(f.fmt) THEN None ELSE @]

\* the first frame of a session
Initialize(e, f) ==
  [Indicate(Refresh(e), f) EXCEPT
     !.LastIndSeq = SN(f.n), !.age = 0, !.PreviousAmsduState = f.fmt,
     !.PreviousSN = SN(f.n), !.status = "Established"]

\* Mutant of Bar: the frame at the start of the BAR is skipped with the others.
BarLate(e, start) ==
  IF SeqSmaller(e.LastIndSeq, start) THEN MoveTo(e, start) ELSE e

\* bar_process after amsdu_sanity
Bar(e, start) ==
  IF SeqSmaller(e.LastIndSeq, start) THEN MoveTo(e, (start - 1) % M) ELSE e

-------------------------------------------------------------------------------
(* Actions                                                                 *)

Numbers == First .. MaxSeq
Idle == [pc |-> "idle", f |-> NoFrame]
FramesOf(blocks) == UNION {Range(blocks[i]) : i \in DOMAIN blocks}

Init ==
  /\ world \in Scenarios
  /\ s = Entry0
  /\ linked = TRUE
  /\ due = FALSE
  /\ rx = Idle
  /\ mlme = "idle"
  /\ sessions = 0
  /\ base = First
  /\ partial = None
  /\ barred = None
  /\ arrived = {}
  /\ delivered = <<>>
  /\ gone = {}
  /\ expired = FALSE
  /\ torn = {}

\* the entry becomes e; what a handler passed up and released is history
Becomes(e) ==
  \E r \in {e} :
    /\ s' = [r EXCEPT !.up = <<>>, !.drop = {}]
    /\ delivered' = delivered \o r.up
    /\ gone' = gone \cup r.drop

Top == Max({f.n : f \in arrived} \cup {First})

\* The peer sends the frames of its window in any order, and some get lost.
\* Fewer than half of the numbers separate a frame from the last one received.
Sendable(n) ==
  /\ n \in base .. base + BAWinSize - 1
  /\ n - Top < M \div 2 - BAWinSize

\* ba_reorder up to the lookup: without a session the frame goes up
Lookup(f) ==
  /\ rx = Idle
  /\ arrived' = arrived \cup {f}
  /\ partial' = IF f.fmt = "FIRST" THEN f.n ELSE None
  /\ torn' = IF mlme = "idle" THEN torn ELSE torn \cup {f}
  /\ IF linked THEN rx' = [pc |-> "frame", f |-> f] /\ UNCHANGED <<s, delivered, gone>>
               ELSE Becomes(Indicate(s, f)) /\ UNCHANGED rx
  /\ UNCHANGED <<linked, due, mlme, sessions, base, barred, expired>>

\* a whole MSDU, or the parts of an A-MSDU one after the other
ReceiveMsdu ==
  \E n \in Numbers \ Aggregated :
    /\ Sendable(n)
    /\ Dups \/ [n |-> n, fmt |-> "MSDU"] \notin arrived
    /\ Lookup([n |-> n, fmt |-> "MSDU"])

ReceiveFirst ==
  \E n \in Numbers \cap Aggregated :
    /\ Sendable(n)
    /\ Dups \/ [n |-> n, fmt |-> "FIRST"] \notin arrived
    /\ Lookup([n |-> n, fmt |-> "FIRST"])

ReceiveFinal ==
  /\ partial # None
  /\ Lookup([n |-> partial, fmt |-> "FINAL"])

\* the rest of ba_reorder: amsdu_sanity, the time-out, then by the state of
\* the session; while it is set up or torn down, the frame is neither passed
\* up nor released
Handle ==
  LET f == rx.f
      miss == AmsduMiss(s, SN(f.n), f.fmt)
  IN /\ rx.pc = "frame"
     /\ \E e1 \in {AmsduSanity(s, SN(f.n), f.fmt)} :
        \E e2 \in {IF Last_(f.fmt) \/ miss THEN TimeoutFlush(e1) ELSE e1} :
          \/ s.status = "Initialization" /\ Becomes(Initialize(e2, f))
          \/ /\ s.status = "Established"
             /\ \E e3 \in {IF Surpasses(e2, SN(f.n)) THEN Shift(e2, SN(f.n)) ELSE e2} :
                  Becomes(Note(Check(e3, f), f))
          \/ s.status \in {"NONE", "USED", "HandleRes"} /\ Becomes(Refresh(e2))
     /\ expired' = (expired \/ ((Last_(f.fmt) \/ miss) /\ s.list # <<>> /\ s.age > 0))
     /\ rx' = Idle
     /\ UNCHANGED <<linked, due, mlme, sessions, peer, torn>>

\* bar_process: the peer has given up the frames before its window (a BAR
\* without a session works on entry 0 of the table, which is no session).
\* One BAR for each start of the window: each one restarts the clock.
ReceiveBar ==
  /\ rx = Idle
  /\ linked
  /\ barred < base
  /\ barred' = base
  /\ base - Top < M \div 2 - BAWinSize
  /\ rx' = [pc |-> "bar", f |-> [n |-> base, fmt |-> "FIRST"]]
  /\ partial' = None
  /\ UNCHANGED <<s, linked, due, mlme, sessions, base, arrived, delivered, gone, expired, torn>>

HandleBar ==
  /\ rx.pc = "bar"
  /\ \E e \in {AmsduSanity(s, SN(rx.f.n), "FIRST")} : Becomes(Bar(e, SN(rx.f.n)))
  /\ rx' = Idle
  /\ UNCHANGED <<linked, due, mlme, sessions, peer, expired, torn>>

\* the peer's window moves on: its first frame got through, or is given up
Advance ==
  /\ base < MaxSeq
  /\ base' = base + 1
  /\ UNCHANGED <<s, linked, due, rx, mlme, sessions, partial, barred, arrived, delivered, gone, expired, torn>>

\* time passes
Tick ==
  /\ s.list # <<>>
  /\ s.age < 2
  /\ s' = [s EXCEPT !.age = @ + 1]
  /\ UNCHANGED <<linked, due, rx, mlme, sessions, peer, delivered, gone, expired, torn>>

\* Mutant of Monitor: only a full window is looked at.
MonitorFull ==
  /\ ~due
  /\ s.status = "Established"
  /\ Len(s.list) >= BAWinSize
  /\ s.age > 0
  /\ due' = TRUE
  /\ UNCHANGED <<s, linked, rx, mlme, sessions, peer, delivered, gone, expired, torn>>

\* ba_timeout_monitor, once in every round of the MLME's periodic work
Monitor ==
  /\ ~due
  /\ s.status = "Established"
  /\ s.list # <<>>
  /\ s.age > 0
  /\ due' = TRUE
  /\ UNCHANGED <<s, linked, rx, mlme, sessions, peer, delivered, gone, expired, torn>>

\* ba_timeout_flush, in the tasklet
Flush ==
  /\ due
  /\ rx = Idle
  /\ Becomes(TimeoutFlush(s))
  /\ due' = FALSE
  /\ expired' = (expired \/ (s.list # <<>> /\ s.age > 0))
  /\ UNCHANGED <<linked, rx, mlme, sessions, peer, torn>>

\* the MLME thread takes its next step
Mlme(from, to) ==
  /\ mlme = from
  /\ mlme' = to
  /\ torn' = IF rx.pc = "frame" THEN torn \cup {rx.f} ELSE torn
  /\ UNCHANGED <<due, rx, peer, expired>>

\* ba_rec_session_tear_down: the list is flushed before the session is unlinked
TearRefresh ==
  /\ linked
  /\ sessions < MaxSessions
  /\ sessions' = sessions + 1
  /\ Becomes(Refresh(s))
  /\ Mlme("idle", "unlink")
  /\ UNCHANGED linked

TearUnlink ==
  /\ linked' = FALSE
  /\ Mlme("unlink", "free")
  /\ UNCHANGED <<s, sessions, delivered, gone>>

\* ba_free_rec_entry
TearFree ==
  /\ s' = [s EXCEPT !.status = "NONE"]
  /\ Mlme("free", "idle")
  /\ UNCHANGED <<linked, sessions, delivered, gone>>

\* ba_rec_session_add: a free entry is taken, or the session is set up anew
AddBegin ==
  /\ sessions < MaxSessions
  /\ sessions' = sessions + 1
  /\ IF linked THEN Becomes(Refresh(s))
               ELSE s' = [s EXCEPT !.status = "USED"] /\ UNCHANGED <<delivered, gone>>
  /\ Mlme("idle", "handle")
  /\ UNCHANGED linked

AddHandle ==
  /\ s' = [s EXCEPT !.status = "HandleRes"]
  /\ Mlme("handle", "init")
  /\ UNCHANGED <<linked, sessions, delivered, gone>>

AddInit ==
  /\ s' = [s EXCEPT !.status = "Initialization"]
  /\ Mlme("init", "link")
  /\ UNCHANGED <<linked, sessions, delivered, gone>>

AddLink ==
  /\ linked' = TRUE
  /\ Mlme("link", "idle")
  /\ UNCHANGED <<s, sessions, delivered, gone>>

Next ==
  /\ \/ ReceiveMsdu \/ ReceiveFirst \/ ReceiveFinal \/ Handle
     \/ ReceiveBar \/ HandleBar \/ Advance
     \/ Tick \/ Monitor \/ Flush
     \/ TearRefresh \/ TearUnlink \/ TearFree
     \/ AddBegin \/ AddHandle \/ AddInit \/ AddLink
  /\ UNCHANGED world

Spec == Init /\ [][Next]_vars

\* the tasklet runs once scheduled, the clock and the periodic work go on
FairSpec ==
  /\ Spec
  /\ WF_vars(Handle /\ UNCHANGED world) /\ WF_vars(HandleBar /\ UNCHANGED world)
  /\ WF_vars(Tick /\ UNCHANGED world) /\ WF_vars(Monitor /\ UNCHANGED world)
  /\ WF_vars(Flush /\ UNCHANGED world)

-------------------------------------------------------------------------------
(* Properties                                                              *)

Formats == {"MSDU", "FIRST", "FINAL"}
Frames == [n : Nat, fmt : Formats]
Blocks == Seq(Frames) \ {<<>>}
Statuses == {"NONE", "USED", "HandleRes", "Initialization", "Established"}
Cases == {"STEP_ONE", "REPEAT", "OLDPKT", "SURPASS", "WITHIN"}

Entries ==
  [status : Statuses, LastIndSeq : 0 .. M - 1, list : Seq(Blocks),
   CurMpdu : Nat \cup {None}, PreviousSN : 0 .. M - 1, PreviousAmsduState : Formats,
   PreviousReorderCase : Cases, age : 0 .. 2, up : Seq(Blocks), drop : SUBSET Frames,
   dangling : BOOLEAN]

\* The variables have their types.
TypeOK ==
  /\ world \in Scenarios
  /\ s \in Entries /\ s.up = <<>> /\ s.drop = {}
  /\ linked \in BOOLEAN /\ due \in BOOLEAN /\ expired \in BOOLEAN
  /\ rx \in [pc : {"frame", "bar"}, f : Frames] \cup {Idle}
  /\ mlme \in {"idle", "unlink", "free", "handle", "init", "link"}
  /\ base \in Nat /\ partial \in Nat \cup {None}
  /\ delivered \in Seq(Blocks)
  /\ arrived \subseteq Frames /\ gone \subseteq Frames /\ torn \subseteq Frames

\* how far a block is ahead of a sequence number
Ahead(blk, seq) == (Seq_(blk) - seq) % M

\* the blocks are in order, and between lo and hi ahead of a sequence number
Sorted(list, seq, lo, hi) ==
  /\ \A i \in DOMAIN list : Ahead(list[i], seq) \in lo .. hi
  /\ \A i, j \in DOMAIN list : i < j => Ahead(list[i], seq) < Ahead(list[j], seq)

\* What ba_reorder holds back is what it must: in the order of the sequence
\* numbers, each after a gap and none beyond the window, wherever the
\* numbers wrap; so the ASSERT on qlen in ba_enqueue_reordering_packet holds.
Window == Sorted(s.list, s.LastIndSeq, 2, BAWinSize)

\* The same of the number amsdu_sanity would go back to.
WindowInv ==
  /\ Window
  /\ s.PreviousAmsduState = "FIRST" /\ s.PreviousReorderCase = "STEP_ONE" =>
       Sorted(s.list, s.PreviousSN, 1, BAWinSize)

\* Frames go up in the order the peer numbered them: a frame older than one
\* already passed up is dropped ("III. Drop Old Received Packet").  Not so the
\* parts of an A-MSDU, which is given up for its age or for a BAR while its
\* first part is already up, nor frames around a change of the session.
OldDropped ==
  Aggregated = {} /\ sessions = 0 =>
    \A i, j \in DOMAIN delivered : i < j => Head(delivered[i]).n <= Head(delivered[j]).n

\* No frame is passed up twice, however often the peer repeats it, unless the
\* pool runs out: a frame without a block goes up even if it is held already.
\* A new session does not know what the one before passed up, and LastIndSeq
\* goes back to an A-MSDU that was never completed.
OnceUp ==
  Pool >= BAWinSize /\ (Dups => Aggregated = {} /\ sessions = 0) =>
    \A i, j \in DOMAIN delivered : \A k \in DOMAIN delivered[i], l \in DOMAIN delivered[j] :
      delivered[i][k] = delivered[j][l] => i = j /\ k = l

\* A frame is released only for a reason: it was passed up or is held
\* ("II. Drop Duplicated Packet"), a later one was passed up, or its gap was
\* given up by the peer or for its age.  Again not so the parts of an A-MSDU.
DuplicateOrLate ==
  [][Aggregated = {} => \A f \in gone' \ gone :
       \/ f \in FramesOf(delivered) \cup FramesOf(s.list)
       \/ \E g \in FramesOf(delivered') : g.n > f.n
       \/ f.n < base \/ expired']_vars

\* Every frame that arrived is in one place, passed up, released, held or
\* in the tasklet's hands: none leaks, but where the session was torn down
\* or set up anew around ba_reorder's lookup.
NoneLeaks ==
  arrived \subseteq FramesOf(delivered) \cup gone \cup FramesOf(s.list) \cup torn
                    \cup {f \in {rx.f} : rx.pc = "frame"}

\* A frame whose session changes is known to be one of those: the tasklet has
\* it from before the change, or looked it up during the change.
LeakInv ==
  /\ NoneLeaks
  /\ mlme = "idle" /\ linked => s.status \in {"Initialization", "Established"}
  /\ mlme = "free" => ~linked
  /\ mlme = "link" => s.status \in {"Initialization", "Established"}
  /\ rx.pc = "frame" => rx.f \in torn \/ (mlme = "idle" /\ linked)

\* CurMpdu is never followed after its block went back to the pool.
NoDangling == ~s.dangling

\* While CurMpdu is set, its block is held, or LastIndSeq has passed it and the
\* frames held since then are no further from it than the window.
CurInv ==
  /\ NoDangling
  /\ s.CurMpdu # None =>
       /\ s.PreviousAmsduState = "FIRST" /\ s.PreviousSN = SN(s.CurMpdu)
       /\ \/ \E i \in DOMAIN s.list : Head(s.list[i]).n = s.CurMpdu
          \/ LET past == (s.LastIndSeq - s.PreviousSN) % M
             IN /\ past <= BAWinSize
                /\ \A i \in DOMAIN s.list : past + Ahead(s.list[i], s.LastIndSeq) <= BAWinSize

\* No frame is held for ever, even when nothing more comes: the monitor and
\* the flush see to it, but for frames that came around a change of the session.
HeldGoesUp == []<>(s.list = <<>> \/ torn # {})
===============================================================================
