------------------------ MODULE BaReorderHandlers_proof ------------------------
(***************************************************************************)
(* The operators that put a frame on the reordering list, and the handlers *)
(* ba_reorder, bar_process and ba_timeout_flush are made of: each one      *)
(* keeps the list sorted, keeps CurMpdu safe to follow and loses no frame. *)
(***************************************************************************)
EXTENDS BaReorderList_proof

-------------------------------------------------------------------------------
(* Inserting                                                               *)

\* The frames an entry holds, and those a handler passed up or released.
All(e) == FramesOf(e.list) \cup FramesOf(e.up) \cup e.drop

\* Joining two sequences, as the inserts into the reordering list do.
LEMMA Joined ==
  ASSUME NEW S, NEW a \in Seq(S), NEW b \in Seq(S)
  PROVE  a \o b \in Seq(S) /\ Len(a \o b) = Len(a) + Len(b)
OBVIOUS

\* What inserting a block behind the first b blocks of a list gives.
LEMMA Inserted ==
  ASSUME NEW list \in Seq(Blocks), NEW b \in 0 .. Len(list), NEW x \in Blocks
  PROVE  /\ InsertAt(list, b + 1, x) \in Seq(Blocks)
         /\ Len(InsertAt(list, b + 1, x)) = Len(list) + 1
         /\ \A i \in 1 .. b : InsertAt(list, b + 1, x)[i] = list[i]
         /\ InsertAt(list, b + 1, x)[b + 1] = x
         /\ \A i \in b + 1 .. Len(list) : InsertAt(list, b + 1, x)[i + 1] = list[i]
<1>1. Len(list) \in Nat /\ b \in Nat /\ b <= Len(list) /\ (b + 1) - 1 = b
  OBVIOUS
<1> DEFINE front == SubSeq(list, 1, b)
           back == SubSeq(list, b + 1, Len(list))
           new == (front \o <<x>>) \o back
<1>2. /\ Suffix(back, list, b) /\ front \in Seq(Blocks) /\ Len(front) = b
      /\ \A i \in 1 .. b : front[i] = list[i]
  BY SuffixOf
<1>3. InsertAt(list, b + 1, x) = new
  BY <1>1, ZenonT(30) DEF InsertAt
<1>4. /\ back \in Seq(Blocks) /\ Len(back) = Len(list) - b
      /\ \A i \in 1 .. Len(list) - b : back[i] = list[b + i]
  BY <1>2 DEF Suffix
<1> HIDE DEF front, back
<1>5. /\ front \o <<x>> \in Seq(Blocks) /\ Len(front \o <<x>>) = b + 1
      /\ \A i \in 1 .. b : (front \o <<x>>)[i] = list[i]
      /\ (front \o <<x>>)[b + 1] = x
  BY <1>1, <1>2
<1> DEFINE fx == front \o <<x>>
<1> HIDE DEF fx
<1>6. new = fx \o back /\ fx \in Seq(Blocks) /\ Len(fx) = b + 1
  BY <1>5 DEF fx
<1> HIDE DEF new
<1>7. new \in Seq(Blocks) /\ Len(new) = Len(list) + 1
  <2>1. new \in Seq(Blocks) /\ Len(new) = Len(fx) + Len(back)
    <3>1. back \in Seq(Blocks) /\ fx \in Seq(Blocks) /\ new = fx \o back
      BY <1>4, <1>6
    <3> QED BY <3>1, Joined, ZenonT(30)
  <2> QED BY <1>1, <1>4, <1>6, <2>1
<1>8. \A i \in 1 .. b + 1 : new[i] = fx[i]
  BY <1>1, <1>4, <1>6
<1>9. ASSUME NEW i \in b + 1 .. Len(list) PROVE new[i + 1] = list[i]
  <2>1. PICK j \in 1 .. Len(list) - b : i = b + j
    <3>1. i - b \in 1 .. Len(list) - b /\ i = b + (i - b)
      BY <1>1
    <3> QED BY <3>1
  <2>2. new[(b + 1) + j] = back[j]
    BY <1>1, <1>4, <1>6, <2>1
  <2>3. (b + 1) + j = i + 1
    BY <1>1, <2>1
  <2> QED BY <1>4, <2>1, <2>2, <2>3
<1>10. /\ \A i \in 1 .. b : new[i] = list[i]
       /\ new[b + 1] = x
  <2>1. ASSUME NEW i \in 1 .. b PROVE new[i] = list[i]
    <3>1. i \in 1 .. b + 1
      BY <1>1
    <3>2. new[i] = fx[i]
      BY <1>8, <3>1
    <3>3. fx[i] = list[i]
      BY <1>5 DEF fx
    <3> QED BY <3>2, <3>3
  <2>2. new[b + 1] = fx[b + 1] /\ fx[b + 1] = x
    <3>1. b + 1 \in 1 .. b + 1
      BY <1>1
    <3>2. new[b + 1] = fx[b + 1]
      BY <1>8, <3>1
    <3> QED BY <1>5, <3>2 DEF fx
  <2> QED BY <2>1, <2>2
<1> QED BY <1>3, <1>7, <1>9, <1>10

\* What a frame does to an entry that takes it: it is held, passed up or
\* released, and what is held stays in order; a frame that becomes CurMpdu is held.
Takes(r, e, f) ==
  /\ r \in Entries
  /\ r.status = e.status /\ r.dangling = e.dangling
  /\ Sorted(r.list, r.LastIndSeq, 2, BAWinSize)
  /\ All(e) \cup {f} \subseteq All(r)
  /\ r.CurMpdu \in {e.CurMpdu, None} \/
       (r.CurMpdu = f.n /\ \E i \in DOMAIN r.list : Head(r.list[i]).n = f.n)

\* ba_reordering_mpdu_insertsorted, of a frame within the window
LEMMA InsertSortedDoes ==
  ASSUME NEW e, Good(e), NEW f \in Frames, Dist(SN(f.n), e.LastIndSeq) \in 2 .. BAWinSize
  PROVE  Takes(InsertSorted(e, f), e, f)
<1> DEFINE l == e.LastIndSeq
           W == BAWinSize
           seq == SN(f.n)
           d == Dist(seq, l)
           stops == {i \in DOMAIN e.list : ~SeqSmaller(Seq_(e.list[i]), seq)}
           b == Prefix(e, stops)
           x == <<f>>
           new == InsertAt(e.list, b + 1, x)
           r == InsertSorted(e, f)
<1>1. /\ e \in Entries /\ e.list \in Seq(Blocks) /\ l \in 0 .. M - 1 /\ l \in Int
      /\ Sorted(e.list, l, 2, W)
  BY Numbering DEF Good, Entries
<1>2. Len(e.list) \in Nat /\ DOMAIN e.list = 1 .. Len(e.list)
  BY <1>1
<1>3. f.n \in Nat /\ seq \in 0 .. M - 1
  BY SNType DEF Frames
<1>4. d \in 0 .. M - 1 /\ seq = (l + d) % M
  BY <1>1, <1>3, DistFacts, ZenonT(30)
<1>5. x \in Blocks /\ Head(x) = f /\ Seq_(x) = seq
  BY DEF Blocks, Seq_
<1>6. Ahead(x, l) = d
  BY <1>5 DEF Ahead, Dist
<1>7. /\ b \in 0 .. Len(e.list) /\ b \in Nat
      /\ \A i \in 1 .. b : i \notin stops
      /\ b < Len(e.list) => b + 1 \in stops
  <2>1. stops \in SUBSET DOMAIN e.list
    OBVIOUS
  <2> HIDE DEF stops
  <2> QED BY <1>1, <1>2, <2>1, PrefixStops
<1>8. r = IF b < Len(e.list) /\ Seq_(e.list[b + 1]) = seq
            THEN [e EXCEPT !.drop = @ \cup {f}]
            ELSE [e EXCEPT !.list = new, !.CurMpdu = f.n]
  BY <1>1 DEF InsertSorted, Entries
<1> SUFFICES Takes(r, e, f)
  OBVIOUS
<1> HIDE DEF b, r, x, new
<1>9. /\ d \in 2 .. W /\ d \in Int /\ W \in Nat /\ W < Half /\ Half \in Nat /\ M = 2 * Half
  BY Numbering
<1> HIDE DEF d
<1>10. ASSUME NEW i \in DOMAIN e.list
       PROVE  /\ Ahead(e.list[i], l) \in 2 .. W /\ Ahead(e.list[i], l) \in Int
              /\ i \in stops <=> Ahead(e.list[i], l) >= d
              /\ Seq_(e.list[i]) = seq <=> Ahead(e.list[i], l) = d
  <2>1. e.list[i] \in Blocks /\ Ahead(e.list[i], l) \in 2 .. W
    BY <1>1 DEF Sorted
  <2>2. Seq_(e.list[i]) = seq <=> Ahead(e.list[i], l) = d
    BY <1>1, <1>4, <2>1, AheadIs
  <2>3. Ahead(e.list[i], seq) =
          IF Ahead(e.list[i], l) >= d THEN Ahead(e.list[i], l) - d
                                      ELSE (Ahead(e.list[i], l) - d) + M
    <3>1. Ahead(e.list[i], (l + d) % M) =
            IF Ahead(e.list[i], l) >= d THEN Ahead(e.list[i], l) - d
                                        ELSE (Ahead(e.list[i], l) - d) + M
      BY <1>1, <1>4, <2>1, AheadShift, ZenonT(30)
    <3> QED BY <1>4, <3>1
  <2>4. SeqSmaller(Seq_(e.list[i]), seq) <=> Ahead(e.list[i], seq) >= Half
    BY DEF SeqSmaller, Ahead, Half
  <2>5. Ahead(e.list[i], l) >= d => ~(Ahead(e.list[i], seq) >= Half)
    BY <1>9, <2>1, <2>3
  <2>6. ~(Ahead(e.list[i], l) >= d) => Ahead(e.list[i], seq) >= Half
    BY <1>9, <2>1, <2>3
  <2> HIDE DEF seq
  <2> QED BY <2>1, <2>2, <2>4, <2>5, <2>6
<1> HIDE DEF stops, seq
<1>11. CASE b < Len(e.list) /\ Seq_(e.list[b + 1]) = seq
  <2>1. r = [e EXCEPT !.drop = e.drop \cup {f}]
    BY <1>1, <1>8, <1>11 DEF Entries
  <2>2. e.drop \cup {f} \in SUBSET Frames
    BY <1>1 DEF Entries
  <2>3. /\ r \in Entries /\ r.status = e.status /\ r.dangling = e.dangling /\ r.list = e.list
        /\ r.LastIndSeq = l /\ r.CurMpdu = e.CurMpdu /\ r.up = e.up /\ r.drop = e.drop \cup {f}
    BY <1>1, <2>1, <2>2, SMTT(60) DEF Entries
  <2>4. All(e) \cup {f} \subseteq All(r)
    BY <2>3 DEF All
  <2> QED BY <1>1, <2>3, <2>4 DEF Takes
<1>12. CASE ~(b < Len(e.list) /\ Seq_(e.list[b + 1]) = seq)
  <2>1. /\ new \in Seq(Blocks)
        /\ Len(new) = Len(e.list) + 1
        /\ \A i \in 1 .. b : new[i] = e.list[i]
        /\ new[b + 1] = x
        /\ \A i \in b + 1 .. Len(e.list) : new[i + 1] = e.list[i]
    BY <1>1, <1>5, <1>7, Inserted, ZenonT(30) DEF new
  <2>2. r = [e EXCEPT !.list = new, !.CurMpdu = f.n]
    BY <1>8, <1>12
  <2>3. /\ r \in Entries /\ r.status = e.status /\ r.dangling = e.dangling /\ r.list = new
        /\ r.LastIndSeq = l /\ r.CurMpdu = f.n /\ r.up = e.up /\ r.drop = e.drop
    BY <1>1, <1>3, <2>1, <2>2, ZenonT(30) DEF Entries
  <2>4. DOMAIN new = 1 .. Len(e.list) + 1
    BY <2>1
  <2>5. ASSUME NEW i \in 1 .. b PROVE Ahead(e.list[i], l) < d
    <3>1. i \in DOMAIN e.list /\ i \notin stops
      BY <1>2, <1>7
    <3> QED BY <1>9, <1>10, <3>1
  <2>6. ASSUME NEW i \in b + 1 .. Len(e.list) PROVE Ahead(e.list[i], l) > d
    <3>1. i \in DOMAIN e.list /\ b + 1 \in DOMAIN e.list /\ b + 1 \in stops /\ b < Len(e.list)
      BY <1>2, <1>7
    <3>2. Ahead(e.list[b + 1], l) >= d /\ Ahead(e.list[b + 1], l) # d
      BY <1>10, <1>12, <3>1
    <3>3. CASE i = b + 1
      BY <1>9, <1>10, <3>1, <3>2, <3>3, SMTT(60)
    <3>4. CASE b + 1 < i
      <4>1. Ahead(e.list[b + 1], l) < Ahead(e.list[i], l)
        BY <1>1, <3>1, <3>4 DEF Sorted
      <4> QED BY <1>9, <1>10, <3>1, <3>2, <4>1
    <3> QED BY <1>2, <1>7, <3>3, <3>4
  \* where the blocks of new come from
  <2>7. ASSUME NEW i \in DOMAIN new
        PROVE  \/ i \in 1 .. b /\ new[i] = e.list[i] /\ i \in DOMAIN e.list
               \/ i = b + 1 /\ new[i] = x
               \/ \E j \in b + 1 .. Len(e.list) : i = j + 1 /\ new[i] = e.list[j]
                                                  /\ j \in DOMAIN e.list
    <3>1. CASE i <= b
      BY <1>2, <1>7, <2>1, <2>4, <3>1
    <3>2. CASE i = b + 1
      BY <2>1, <3>2
    <3>3. CASE i > b + 1
      <4>1. i - 1 \in b + 1 .. Len(e.list) /\ i = (i - 1) + 1 /\ i - 1 \in DOMAIN e.list
        BY <1>2, <1>7, <2>4, <3>3
      <4>2. new[(i - 1) + 1] = e.list[i - 1]
        BY <2>1, <4>1
      <4>3. new[i] = e.list[i - 1]
        BY <4>1, <4>2
      <4> QED BY <4>1, <4>3
    <3> QED BY <1>2, <1>7, <2>4, <3>1, <3>2, <3>3, SMTT(60)
  <2>8. ASSUME NEW i \in DOMAIN new PROVE Ahead(new[i], l) \in 2 .. W
    BY <1>6, <1>9, <1>10, <2>7, SMTT(60)
  <2>9. ASSUME NEW i \in DOMAIN new
        PROVE  /\ Ahead(new[i], l) \in Int
               /\ i < b + 1 <=> Ahead(new[i], l) < d
               /\ i > b + 1 <=> Ahead(new[i], l) > d
    <3>0. Ahead(new[i], l) \in Int
      BY <2>8
    <3>1. CASE i \in 1 .. b /\ new[i] = e.list[i]
      BY <1>7, <1>9, <2>5, <3>0, <3>1
    <3>2. CASE i = b + 1 /\ new[i] = x
      BY <1>6, <1>7, <1>9, <3>0, <3>2
    <3>3. CASE \E j \in b + 1 .. Len(e.list) : i = j + 1 /\ new[i] = e.list[j]
      <4>1. PICK j \in b + 1 .. Len(e.list) : i = j + 1 /\ new[i] = e.list[j]
        BY <3>3
      <4>2. Ahead(new[i], l) > d
        BY <2>6, <4>1
      <4>3. i > b + 1
        BY <1>2, <1>7, <4>1
      <4> QED BY <1>7, <1>9, <3>0, <4>1, <4>2, <4>3
    <3> QED BY <2>7, <3>1, <3>2, <3>3
  <2>10. ASSUME NEW i \in DOMAIN new, NEW j \in DOMAIN new, i < j
         PROVE  Ahead(new[i], l) < Ahead(new[j], l)
    <3>0. i \in Int /\ j \in Int
      BY <2>4
    <3>1. CASE j <= b
      <4>1. /\ new[i] = e.list[i] /\ i \in DOMAIN e.list
            /\ new[j] = e.list[j] /\ j \in DOMAIN e.list
        BY <1>2, <1>7, <2>1, <2>4, <2>10, <3>1
      <4> QED BY <1>1, <2>10, <4>1 DEF Sorted
    <3>2. CASE i <= b /\ b < j
      <4>1. i < b + 1 /\ ~(j < b + 1)
        BY <1>7, <3>0, <3>2
      <4> QED BY <1>9, <2>9, <4>1
    <3>3. CASE i = b + 1
      <4>1. j > b + 1 /\ ~(i > b + 1)
        BY <1>7, <2>10, <3>0, <3>3
      <4> QED BY <1>9, <2>9, <4>1
    <3>4. CASE i > b + 1
      <4>1. /\ i - 1 \in b + 1 .. Len(e.list) /\ i = (i - 1) + 1 /\ i - 1 \in DOMAIN e.list
            /\ j - 1 \in b + 1 .. Len(e.list) /\ j = (j - 1) + 1 /\ j - 1 \in DOMAIN e.list
            /\ i - 1 < j - 1
        BY <1>2, <1>7, <2>4, <2>10, <3>0, <3>4
      <4>2. new[(i - 1) + 1] = e.list[i - 1] /\ new[(j - 1) + 1] = e.list[j - 1]
        BY <2>1, <4>1, SMTT(60)
      <4>3. Ahead(e.list[i - 1], l) < Ahead(e.list[j - 1], l)
        BY <1>1, <4>1 DEF Sorted
      <4> QED BY <4>1, <4>2, <4>3, SMTT(60)
    <3> QED BY <1>7, <3>0, <3>1, <3>2, <3>3, <3>4
  <2>11. Sorted(new, l, 2, W)
    BY <2>8, <2>10 DEF Sorted
  <2>12. \E i \in DOMAIN new : Head(new[i]).n = f.n
    <3>1. b + 1 \in DOMAIN new
      BY <1>2, <1>7, <2>4
    <3> QED BY <1>5, <2>1, <3>1
  <2>13. f \in FramesOf(new)
    <3>1. b + 1 \in DOMAIN new
      BY <1>2, <1>7, <2>4
    <3>2. f \in Range(x)
      BY DEF x, Range
    <3> QED BY <2>1, <3>1, <3>2 DEF FramesOf
  <2>14. FramesOf(e.list) \subseteq FramesOf(new)
    <3> SUFFICES ASSUME NEW i \in DOMAIN e.list, NEW g \in Range(e.list[i])
                 PROVE  g \in FramesOf(new)
      BY DEF FramesOf
    <3>1. \E j \in DOMAIN new : new[j] = e.list[i]
      <4>1. CASE i <= b
        <5>1. i \in 1 .. b /\ i \in DOMAIN new
          BY <1>2, <1>7, <2>4, <4>1
        <5> QED BY <2>1, <5>1
      <4>2. CASE b < i
        <5>1. i \in b + 1 .. Len(e.list) /\ i + 1 \in DOMAIN new
          BY <1>2, <1>7, <2>4, <4>2
        <5> QED BY <2>1, <5>1
      <4> QED BY <1>2, <1>7, <4>1, <4>2
    <3> QED BY <3>1 DEF FramesOf
  <2>15. All(e) \cup {f} \subseteq All(r)
    BY <2>3, <2>13, <2>14 DEF All
  <2> QED BY <2>3, <2>11, <2>12, <2>15 DEF Takes
<1> QED BY <1>11, <1>12

\* A part of an A-MSDU joins the block of its first part.
LEMMA EnqueueTailDoes ==
  ASSUME NEW e, Good(e), NEW f \in Frames, \E i \in DOMAIN e.list : Head(e.list[i]).n = e.CurMpdu
  PROVE  Takes(EnqueueTail(e, f), e, f)
<1> DEFINE new == [i \in DOMAIN e.list |->
                     IF Head(e.list[i]).n = e.CurMpdu THEN Append(e.list[i], f) ELSE e.list[i]]
           r == EnqueueTail(e, f)
<1>1. e \in Entries /\ e.list \in Seq(Blocks) /\ Sorted(e.list, e.LastIndSeq, 2, BAWinSize)
  BY DEF Good, Entries
<1>2. Len(e.list) \in Nat /\ DOMAIN e.list = 1 .. Len(e.list)
  BY <1>1
<1>3. r = [e EXCEPT !.list = new]
  BY <1>1 DEF EnqueueTail, Entries
<1>4. ASSUME NEW i \in DOMAIN e.list
      PROVE  /\ new[i] \in Blocks /\ Head(new[i]) = Head(e.list[i])
             /\ Range(e.list[i]) \subseteq Range(new[i])
             /\ Head(e.list[i]).n = e.CurMpdu => f \in Range(new[i])
  <2> DEFINE blk == e.list[i]
  <2>1. blk \in Seq(Frames) /\ blk # <<>> /\ Len(blk) \in Nat /\ Len(blk) > 0
    BY <1>1 DEF Blocks
  <2>2. new[i] = IF Head(blk).n = e.CurMpdu THEN Append(blk, f) ELSE blk
    OBVIOUS
  <2> HIDE DEF blk, new
  <2>3. /\ Append(blk, f) \in Seq(Frames) /\ Len(Append(blk, f)) = Len(blk) + 1
        /\ \A j \in 1 .. Len(blk) : Append(blk, f)[j] = blk[j]
        /\ Append(blk, f)[Len(blk) + 1] = f
    BY <2>1
  <2>4. Append(blk, f) \in Blocks /\ blk \in Blocks
    BY <2>1, <2>3 DEF Blocks
  <2>5. Head(Append(blk, f)) = Head(blk)
    <3>1. 1 \in 1 .. Len(blk) /\ Head(blk) = blk[1] /\ Head(Append(blk, f)) = Append(blk, f)[1]
      BY <2>1, <2>3
    <3> QED BY <2>3, <3>1
  <2>6. Range(blk) \subseteq Range(Append(blk, f)) /\ f \in Range(Append(blk, f))
    <3>1. DOMAIN blk = 1 .. Len(blk) /\ DOMAIN Append(blk, f) = 1 .. Len(blk) + 1
      BY <2>1, <2>3
    <3>2. Len(blk) + 1 \in 1 .. Len(blk) + 1 /\ 1 .. Len(blk) \subseteq 1 .. Len(blk) + 1
      BY <2>1
    <3> QED BY <2>3, <3>1, <3>2 DEF Range
  <2> QED BY <2>2, <2>4, <2>5, <2>6 DEF blk
<1>5. new \in Seq(Blocks) /\ DOMAIN new = DOMAIN e.list
  <2>1. new \in [1 .. Len(e.list) -> Blocks]
    BY <1>2, <1>4, ZenonT(30)
  <2>2. DOMAIN new = DOMAIN e.list
    OBVIOUS
  <2> HIDE DEF new
  <2> QED BY <1>2, <2>1, <2>2
<1> SUFFICES Takes(r, e, f)
  OBVIOUS
<1> HIDE DEF new, r
<1>6. /\ r \in Entries /\ r.status = e.status /\ r.dangling = e.dangling /\ r.list = new
      /\ r.LastIndSeq = e.LastIndSeq /\ r.CurMpdu = e.CurMpdu /\ r.up = e.up /\ r.drop = e.drop
  BY <1>1, <1>3, <1>5, ZenonT(30) DEF Entries
<1>7. \A i \in DOMAIN new : Ahead(new[i], e.LastIndSeq) = Ahead(e.list[i], e.LastIndSeq)
  BY <1>4, <1>5 DEF Ahead, Seq_
<1>8. Sorted(new, e.LastIndSeq, 2, BAWinSize)
  BY <1>1, <1>5, <1>7 DEF Sorted
<1>9. FramesOf(e.list) \subseteq FramesOf(new) /\ f \in FramesOf(new)
  BY <1>4, <1>5, ZenonT(30) DEF FramesOf
<1>10. All(e) \cup {f} \subseteq All(r)
  BY <1>6, <1>9 DEF All
<1> QED BY <1>6, <1>8, <1>10 DEF Takes

\* Passing a frame up adds it to up and changes nothing else that is tracked.
LEMMA IndicateDoes ==
  ASSUME NEW e \in Entries, NEW f \in Frames
  PROVE  /\ Indicate(e, f) \in Entries
         /\ Indicate(e, f).list = e.list /\ Indicate(e, f).drop = e.drop
         /\ FramesOf(e.up) \cup {f} \subseteq FramesOf(Indicate(e, f).up)
         /\ Indicate(e, f).LastIndSeq = e.LastIndSeq /\ Indicate(e, f).CurMpdu = e.CurMpdu
         /\ Indicate(e, f).status = e.status /\ Indicate(e, f).dangling = e.dangling
         /\ Indicate(e, f).PreviousSN = e.PreviousSN
         /\ Indicate(e, f).PreviousAmsduState = e.PreviousAmsduState
         /\ Indicate(e, f).PreviousReorderCase = e.PreviousReorderCase
<1> DEFINE x == <<f>>
           up == Append(e.up, x)
<1>1. x \in Blocks /\ f \in Range(x)
  BY DEF Blocks, Range
<1> HIDE DEF x
<1>2. e.up \in Seq(Blocks) /\ Len(e.up) \in Nat
  BY DEF Entries
<1>3. /\ up \in Seq(Blocks) /\ Len(up) = Len(e.up) + 1
      /\ \A i \in 1 .. Len(e.up) : up[i] = e.up[i]
      /\ up[Len(e.up) + 1] = x
  BY <1>1, <1>2
<1>4. Indicate(e, f) = [e EXCEPT !.up = up]
  BY DEF Indicate, x, Entries
<1> HIDE DEF up
<1>5. FramesOf(e.up) \cup {f} \subseteq FramesOf(up)
  <2>1. DOMAIN e.up = 1 .. Len(e.up) /\ DOMAIN up = 1 .. Len(e.up) + 1
    BY <1>2, <1>3
  <2>2. Len(e.up) + 1 \in DOMAIN up /\ DOMAIN e.up \subseteq DOMAIN up
    BY <1>2, <2>1
  <2> QED BY <1>1, <1>3, <2>1, <2>2 DEF FramesOf
<1> QED BY <1>3, <1>4, <1>5, ZenonT(30) DEF Entries

\* ba_enqueue_reordering_packet, of a frame within the window
LEMMA EnqueueDoes ==
  ASSUME NEW e, Good(e), NEW f \in Frames, Dist(SN(f.n), e.LastIndSeq) \in 2 .. BAWinSize,
         e.CurMpdu # None => \E i \in DOMAIN e.list : Head(e.list[i]).n = e.CurMpdu
  PROVE  Takes(Enqueue(e, f), e, f)
<1>1. CASE Used(e) < Pool /\ f.n \notin Eap
  <2>1. CASE e.CurMpdu = None
    <3>1. Enqueue(e, f) = InsertSorted(e, f)
      BY <1>1, <2>1 DEF Enqueue
    <3> QED BY <3>1, InsertSortedDoes
  <2>2. CASE e.CurMpdu # None
    <3>1. Enqueue(e, f) = EnqueueTail(e, f)
      BY <1>1, <2>2 DEF Enqueue
    <3> QED BY <2>2, <3>1, EnqueueTailDoes
  <2> QED BY <2>1, <2>2
<1>2. CASE ~(Used(e) < Pool /\ f.n \notin Eap)
  <2> DEFINE l == e.LastIndSeq
             seq == SN(f.n)
             d == Dist(seq, l)
             e0 == LeSeq(e, seq)
             e1 == [e0 EXCEPT !.LastIndSeq = seq]
             e2 == Indicate(e1, f)
             r0 == InOrder(e2, seq)
             r1 == [r0 EXCEPT !.age = 0]
             r == Enqueue(e, f)
  <2>1. e \in Entries /\ l \in 0 .. M - 1 /\ Sorted(e.list, l, 2, BAWinSize)
    BY DEF Good, Entries
  <2>2. seq \in 0 .. M - 1
    BY SNType DEF Frames
  <2>3. d \in 0 .. M - 1 /\ seq = (l + d) % M /\ d \in 0 .. Half
    <3>1. d \in 0 .. M - 1 /\ seq = (l + d) % M
      BY <2>1, <2>2, DistFacts
    <3>2. d \in 0 .. Half
      BY Numbering
    <3> QED BY <3>1, <3>2
  <2>4. r = [r1 EXCEPT !.CurMpdu = None]
    BY <1>2 DEF Enqueue
  <2> SUFFICES Takes(r, e, f)
    OBVIOUS
  <2> HIDE DEF r, d, seq
  <2>5. Follows(e0, e)
    BY <2>1, <2>3, LeSeqDoes, SMTT(60)
  <2>6. e0 \in Entries
    BY <2>5 DEF Follows
  <2>7. Kept(e1, e0) /\ e1.LastIndSeq = seq
    <3> HIDE DEF e0
    <3> QED BY <2>2, <2>6, SetNumber, SMTT(60)
  <2>8. /\ e2 \in Entries /\ e2.list = e1.list /\ e2.drop = e1.drop
        /\ FramesOf(e1.up) \cup {f} \subseteq FramesOf(e2.up)
        /\ e2.LastIndSeq = seq /\ e2.status = e1.status /\ e2.dangling = e1.dangling
    <3>1. e1 \in Entries
      BY <2>7 DEF Kept
    <3> HIDE DEF e1
    <3> QED BY <2>7, <3>1, IndicateDoes
  <2>9. e2.list = e0.list /\ e2.drop = e0.drop /\ e2.status = e0.status /\ e2.dangling = e0.dangling
        /\ FramesOf(e0.up) \cup {f} \subseteq FramesOf(e2.up)
    <3> HIDE DEF e1, e2
    <3> QED BY <2>7, <2>8, SMTT(60) DEF Kept
  <2> HIDE DEF e1, e2
  <2>10. Follows(r0, e2) /\ Sorted(r0.list, r0.LastIndSeq, 2, BAWinSize)
    BY <2>1, <2>3, <2>8, <2>9, CatchUp, ZenonT(30)
  <2> HIDE DEF e0, r0
  <2>11. Kept(r1, r0) /\ r1.LastIndSeq = r0.LastIndSeq /\ r1 \in Entries
    <3>1. r0 \in Entries /\ 0 \in 0 .. 2
      BY <2>10, SMTT(60) DEF Follows
    <3> QED BY <3>1, SetAge, ZenonT(30) DEF Kept
  <2> HIDE DEF r1
  <2>12. Kept(r, r1) /\ r.LastIndSeq = r1.LastIndSeq /\ r.CurMpdu = None
    BY <2>4, <2>11, SetCur
  <2>13. /\ r \in Entries /\ r.list = r0.list /\ r.up = r0.up /\ r.drop = r0.drop
         /\ r.dangling = r0.dangling /\ r.status = r0.status /\ r.LastIndSeq = r0.LastIndSeq
    BY <2>11, <2>12 DEF Kept
  <2>14. All(e) \cup {f} \subseteq All(r)
    <3>1. FramesOf(e.list) \cup FramesOf(e.up) \subseteq FramesOf(e0.list) \cup FramesOf(e0.up)
      BY <2>5 DEF Follows
    <3>2. FramesOf(e2.list) \cup FramesOf(e2.up) \subseteq FramesOf(r0.list) \cup FramesOf(r0.up)
      BY <2>10, SMTT(60) DEF Follows
    <3>3. e.drop = e0.drop /\ e2.drop = r0.drop
      BY <2>5, <2>10, SMTT(60) DEF Follows
    <3> QED BY <2>9, <2>13, <3>1, <3>2, <3>3, SMTT(60) DEF All
  <2>15. r.status = e.status /\ r.dangling = e.dangling
    BY <2>5, <2>9, <2>10, <2>13 DEF Follows
  <2> QED BY <2>10, <2>12, <2>13, <2>14, <2>15, SMTT(60) DEF Takes
<1> QED BY <1>1, <1>2

\* What recording the reordering case changes in an entry.
LEMMA SetCase ==
  ASSUME NEW e \in Entries, NEW c \in Cases
  PROVE  /\ [e EXCEPT !.PreviousReorderCase = c] \in Entries
         /\ [e EXCEPT !.PreviousReorderCase = c].PreviousReorderCase = c
         /\ [e EXCEPT !.PreviousReorderCase = c].list = e.list
         /\ [e EXCEPT !.PreviousReorderCase = c].up = e.up
         /\ [e EXCEPT !.PreviousReorderCase = c].drop = e.drop
         /\ [e EXCEPT !.PreviousReorderCase = c].LastIndSeq = e.LastIndSeq
         /\ [e EXCEPT !.PreviousReorderCase = c].CurMpdu = e.CurMpdu
         /\ [e EXCEPT !.PreviousReorderCase = c].status = e.status
         /\ [e EXCEPT !.PreviousReorderCase = c].dangling = e.dangling
BY DEF Entries

\* Recording the reordering case keeps what a handler did with its frame.
LEMMA SetCaseTakes ==
  ASSUME NEW e, NEW f, NEW r, Takes(r, e, f), NEW c \in Cases
  PROVE  /\ Takes([r EXCEPT !.PreviousReorderCase = c], e, f)
         /\ [r EXCEPT !.PreviousReorderCase = c].PreviousReorderCase = c
<1> DEFINE q == [r EXCEPT !.PreviousReorderCase = c]
<1>1. r \in Entries
  BY DEF Takes
<1>2. /\ q \in Entries /\ q.list = r.list /\ q.up = r.up /\ q.drop = r.drop
      /\ q.LastIndSeq = r.LastIndSeq /\ q.CurMpdu = r.CurMpdu /\ q.status = r.status
      /\ q.dangling = r.dangling /\ q.PreviousReorderCase = c
  BY <1>1, SetCase, SMTT(60)
<1> HIDE DEF q
<1>3. Takes(q, e, f)
  BY <1>2 DEF Takes, All
<1> QED BY <1>2, <1>3 DEF q

\* Releasing a frame takes it.
LEMMA DropDoes ==
  ASSUME NEW e, Good(e), NEW f \in Frames
  PROVE  Takes(Drop(e, f), e, f)
<1> DEFINE r == Drop(e, f)
<1>1. e \in Entries /\ Sorted(e.list, e.LastIndSeq, 2, BAWinSize)
  BY DEF Good
<1>2. r = [e EXCEPT !.drop = e.drop \cup {f}] /\ e.drop \cup {f} \in SUBSET Frames
  BY <1>1 DEF Drop, Entries
<1> SUFFICES Takes(r, e, f)
  OBVIOUS
<1> HIDE DEF r
<1>3. /\ r \in Entries /\ r.list = e.list /\ r.up = e.up /\ r.drop = e.drop \cup {f}
      /\ r.LastIndSeq = e.LastIndSeq /\ r.CurMpdu = e.CurMpdu /\ r.status = e.status
      /\ r.dangling = e.dangling
  BY <1>1, <1>2, SMTT(60) DEF Entries
<1> QED BY <1>1, <1>3 DEF Takes, All

\* ba_reorder_check takes a frame that is not beyond the window.
LEMMA CheckDoes ==
  ASSUME NEW e, Good(e), NEW f \in Frames, ~Surpasses(e, SN(f.n)),
         e.CurMpdu # None /\ Dist(SN(f.n), e.LastIndSeq) \in 2 .. BAWinSize =>
           \E i \in DOMAIN e.list : Head(e.list[i]).n = e.CurMpdu
  PROVE  /\ Takes(Check(e, f), e, f)
         /\ f.fmt = "FIRST" /\ Check(e, f).PreviousReorderCase = "STEP_ONE" =>
              Sorted(Check(e, f).list, SN(f.n), 1, BAWinSize)
<1> DEFINE l == e.LastIndSeq
           seq == SN(f.n)
           d == Dist(seq, l)
           r == Check(e, f)
<1>1. /\ e \in Entries /\ l \in 0 .. M - 1 /\ l \in Int /\ e.list \in Seq(Blocks)
      /\ Sorted(e.list, l, 2, BAWinSize)
  BY Numbering DEF Good, Entries
<1>2. seq \in 0 .. M - 1
  BY SNType, SMTT(60) DEF Frames
<1>3. /\ d \in 0 .. M - 1 /\ seq = (l + d) % M
      /\ seq = l <=> d = 0
      /\ StepOne(seq, l) <=> d = 1
      /\ SeqSmaller(seq, l) <=> d >= Half
  BY <1>1, <1>2, DistFacts, ZenonT(30)
<1>4. /\ BAWinSize \in Nat /\ BAWinSize >= 1 /\ BAWinSize < Half /\ Half \in Nat /\ M = 2 * Half
      /\ M >= 4
  BY Numbering
<1>5. CASE d = 1
  <2>1. StepOne(seq, l)
    BY <1>3, <1>5
  <2> DEFINE i0 == Indicate(e, f)
             e1 == [i0 EXCEPT !.PreviousReorderCase = "STEP_ONE"]
             e2 == [e1 EXCEPT !.LastIndSeq = seq, !.age = 0]
  <2>2. r = IF Last_(f.fmt) THEN InOrder(e2, seq) ELSE e1
    <3>1. seq # l /\ ~SeqSmaller(seq, l)
      BY <1>3, <1>4, <1>5, SMTT(60)
    <3> QED BY <2>1, <3>1, ZenonT(30) DEF Check
  <2>3. Sorted(e.list, seq, 1, BAWinSize)
    <3>1. ASSUME NEW i \in DOMAIN e.list PROVE Ahead(e.list[i], l) >= 1 + 1
      <4>1. Ahead(e.list[i], l) \in 2 .. BAWinSize
        BY <1>1 DEF Sorted
      <4> QED BY <4>1
    <3>2. 1 \in 0 .. M - 1
      BY <1>4
    <3>3. Sorted(e.list, (l + 1) % M, 1, BAWinSize - 1)
      BY <1>1, <1>4, <3>1, <3>2, Rebase, ZenonT(30)
    <3>4. ASSUME NEW i \in DOMAIN e.list PROVE Ahead(e.list[i], seq) \in 1 .. BAWinSize
      <4>1. Ahead(e.list[i], seq) \in 1 .. BAWinSize - 1
        BY <1>3, <1>5, <3>3 DEF Sorted
      <4> QED BY <1>4, <4>1
    <3> QED BY <1>3, <1>5, <3>3, <3>4 DEF Sorted
  <2> HIDE DEF seq, d
  <2>4. /\ i0 \in Entries /\ i0.list = e.list /\ i0.drop = e.drop
        /\ FramesOf(e.up) \cup {f} \subseteq FramesOf(i0.up)
        /\ i0.LastIndSeq = l /\ i0.CurMpdu = e.CurMpdu
        /\ i0.status = e.status /\ i0.dangling = e.dangling
    BY <1>1, IndicateDoes, ZenonT(30)
  <2> HIDE DEF i0
  <2>5. /\ e1 \in Entries /\ e1.list = e.list /\ e1.drop = e.drop
        /\ FramesOf(e.up) \cup {f} \subseteq FramesOf(e1.up)
        /\ e1.LastIndSeq = l /\ e1.CurMpdu = e.CurMpdu
        /\ e1.status = e.status /\ e1.dangling = e.dangling
    <3>1. "STEP_ONE" \in Cases
      BY DEF Cases
    <3> QED BY <2>4, <3>1, SetCase
  <2> HIDE DEF e1
  <2>6. CASE ~Last_(f.fmt)
    <3>1. r = e1
      BY <2>2, <2>6, SMTT(60)
    <3>2. Takes(r, e, f)
      BY <1>1, <2>5, <3>1, ZenonT(30) DEF Takes, All
    <3>3. Sorted(r.list, seq, 1, BAWinSize)
      BY <2>3, <2>5, <3>1, ZenonT(30)
    <3> QED BY <3>2, <3>3 DEF seq
  <2>7. CASE Last_(f.fmt)
    <3>1. r = InOrder(e2, seq)
      BY <2>2, <2>7, SMTT(60)
    <3>2. Kept(e2, e1) /\ e2.LastIndSeq = seq /\ e2.CurMpdu = e1.CurMpdu /\ e2 \in Entries
      BY <1>2, <2>5, Restart, ZenonT(30) DEF Kept
    <3> HIDE DEF e2, r
    <3>3. e2.list = e.list /\ Sorted(e2.list, e2.LastIndSeq, 1, BAWinSize)
      BY <2>3, <2>5, <3>2 DEF Kept
    <3>4. /\ Follows(r, e2) /\ r.CurMpdu = e2.CurMpdu
          /\ \E k \in 0 .. BAWinSize :
               /\ r.LastIndSeq = (e2.LastIndSeq + k) % M
               /\ k # 0 => \E i \in DOMAIN e2.list : Ahead(e2.list[i], e2.LastIndSeq) = k
               /\ Suffix(r.list, e2.list, k)
               /\ \A i \in 1 .. k : Ahead(e2.list[i], e2.LastIndSeq) <= k
               /\ \A i \in k + 1 .. Len(e2.list) : Ahead(e2.list[i], e2.LastIndSeq) >= k + 2
      <4>1. BAWinSize \in 0 .. BAWinSize
        BY <1>4, SMTT(60)
      <4> QED BY <3>1, <3>2, <3>3, <4>1, InOrderDoes, ZenonT(30)
    <3>5. PICK k \in 0 .. BAWinSize :
               /\ r.LastIndSeq = (e2.LastIndSeq + k) % M
               /\ k # 0 => \E i \in DOMAIN e2.list : Ahead(e2.list[i], e2.LastIndSeq) = k
               /\ Suffix(r.list, e2.list, k)
               /\ \A i \in 1 .. k : Ahead(e2.list[i], e2.LastIndSeq) <= k
               /\ \A i \in k + 1 .. Len(e2.list) : Ahead(e2.list[i], e2.LastIndSeq) >= k + 2
      BY <3>4
    <3>6. k \in 0 .. M - 1
      BY <1>4
    <3>7. Jump(r.list, e2.list, e2.LastIndSeq, 0, k)
      BY <3>5, <3>6, SMTT(60) DEF Jump
    <3>8. Sorted(r.list, r.LastIndSeq, 2, BAWinSize)
      <4>1. e2.list \in Seq(Blocks) /\ e2.LastIndSeq \in 0 .. M - 1 /\ 0 \in Nat /\ BAWinSize \in Nat
        BY <1>4, <3>2, SMTT(60) DEF Entries
      <4> QED BY <3>3, <3>5, <3>7, <4>1, JumpSorted
    <3>9. r.status = e.status /\ r.dangling = e.dangling /\ r.CurMpdu = e.CurMpdu /\ r \in Entries
      BY <2>5, <3>2, <3>4, ZenonT(30) DEF Follows, Kept
    <3>10. All(e) \cup {f} \subseteq All(r)
      <4>1. FramesOf(e2.list) \cup FramesOf(e2.up) \subseteq FramesOf(r.list) \cup FramesOf(r.up)
            /\ r.drop = e2.drop
        BY <3>4, ZenonT(30) DEF Follows
      <4>2. e2.up = e1.up /\ e2.drop = e.drop /\ e2.list = e.list
        BY <2>5, <3>2, SMTT(60) DEF Kept
      <4> QED BY <2>5, <4>1, <4>2, SMTT(60) DEF All
    <3>11. Takes(r, e, f)
      BY <3>8, <3>9, <3>10 DEF Takes
    <3>12. f.fmt # "FIRST"
      BY <2>7, SMTT(60) DEF Last_
    <3> QED BY <3>11, <3>12 DEF r
  <2> QED BY <2>6, <2>7
<1>6. CASE d # 1
  <2>1. ~StepOne(seq, l)
    BY <1>3, <1>6
  <2>2. "REPEAT" \in Cases /\ "OLDPKT" \in Cases /\ "WITHIN" \in Cases
    BY DEF Cases
  <2>3. CASE d = 0
    <3>1. r = [Drop(e, f) EXCEPT !.PreviousReorderCase = "REPEAT"]
      BY <1>3, <2>1, <2>3 DEF Check
    <3>2. Takes(r, e, f) /\ r.PreviousReorderCase = "REPEAT"
      BY <2>2, <3>1, DropDoes, SetCaseTakes
    <3> QED BY <3>2
  <2>4. CASE d # 0 /\ d >= Half
    <3>1. r = [Drop(e, f) EXCEPT !.PreviousReorderCase = "OLDPKT"]
      BY <1>3, <2>1, <2>4 DEF Check
    <3>2. Takes(r, e, f) /\ r.PreviousReorderCase = "OLDPKT"
      BY <2>2, <3>1, DropDoes, SetCaseTakes
    <3> QED BY <3>2
  <2>5. CASE d # 0 /\ ~(d >= Half)
    <3>1. r = [Enqueue(e, f) EXCEPT !.PreviousReorderCase = "WITHIN"]
      BY <1>3, <2>1, <2>5 DEF Check
    <3>2. d \in 2 .. BAWinSize
      <4>1. ~(d > BAWinSize /\ d < Half /\ d > 1)
        BY <1>1, <1>2, SurpassesIs
      <4> HIDE DEF d
      <4> QED BY <1>3, <1>4, <1>6, <2>5, <4>1
    <3>3. Takes(Enqueue(e, f), e, f)
      BY <3>2, EnqueueDoes
    <3>4. Takes(r, e, f) /\ r.PreviousReorderCase = "WITHIN"
      BY <2>2, <3>1, <3>3, SetCaseTakes
    <3> QED BY <3>4
  <2> QED BY <2>3, <2>4, <2>5, ZenonT(30)
<1> QED BY <1>5, <1>6, SMTT(60)

-------------------------------------------------------------------------------
(* CurMpdu                                                                 *)

Held(e) == \E i \in DOMAIN e.list : Head(e.list[i]).n = e.CurMpdu

Past(e) ==
  /\ Dist(e.LastIndSeq, e.PreviousSN) <= BAWinSize
  /\ \A i \in DOMAIN e.list :
       Dist(e.LastIndSeq, e.PreviousSN) + Ahead(e.list[i], e.LastIndSeq) <= BAWinSize

\* CurInv, of any entry.
CurOK(e) ==
  e.CurMpdu # None =>
    /\ e.PreviousAmsduState = "FIRST" /\ e.PreviousSN = SN(e.CurMpdu)
    /\ Held(e) \/ Past(e)

\* The distance back, modulo M.
LEMMA DistBack ==
  ASSUME NEW l \in 0 .. M - 1, NEW seq \in 0 .. M - 1
  PROVE  Dist(l, seq) = IF Dist(seq, l) = 0 THEN 0 ELSE M - Dist(seq, l)
<1> DEFINE d == Dist(seq, l)
<1>1. d \in 0 .. M - 1 /\ seq = (l + d) % M
  BY DistFacts
<1>2. Dist(l, l) = 0
  BY DistFacts
<1> HIDE DEF d
<1>3. Dist(l, (l + d) % M) = IF Dist(l, l) >= d THEN Dist(l, l) - d ELSE (Dist(l, l) - d) + M
  BY <1>1, DistShift
<1>4. d \in Nat /\ M \in Nat
  BY <1>1, Numbering
<1>5. Dist(l, seq) = IF d = 0 THEN 0 ELSE M - d
  BY <1>1, <1>2, <1>3, <1>4
<1> QED BY <1>5 DEF d

\* A further part of the A-MSDU of CurMpdu finds its block, or is too late.
LEMMA CurChecks ==
  ASSUME NEW e, Good(e), CurOK(e), e.CurMpdu # None
  PROVE  /\ ~Surpasses(e, e.PreviousSN)
         /\ Dist(e.PreviousSN, e.LastIndSeq) \in 2 .. BAWinSize => Held(e)
<1> DEFINE l == e.LastIndSeq
           p == e.PreviousSN
           W == BAWinSize
<1>1. e \in Entries /\ l \in 0 .. M - 1 /\ p \in 0 .. M - 1 /\ e.list \in Seq(Blocks)
  BY DEF Good, Entries
<1>2. W \in Nat /\ W < Half /\ Half \in Nat /\ M = 2 * Half
  BY Numbering
<1>3. CASE Held(e)
  <2>1. PICK i \in DOMAIN e.list : Head(e.list[i]).n = e.CurMpdu
    BY <1>3 DEF Held
  <2>2. Seq_(e.list[i]) = p
    BY <2>1 DEF Seq_, CurOK
  <2>3. Ahead(e.list[i], l) \in 2 .. W
    BY DEF Good, Sorted
  <2>4. Dist(p, l) = Ahead(e.list[i], l)
    BY <2>2 DEF Dist, Ahead
  <2>5. ~(Dist(p, l) > W)
    BY <1>2, <2>3, <2>4
  <2> QED BY <1>1, <1>3, <2>5, SurpassesIs
<1>4. CASE Past(e)
  <2>1. Dist(l, p) <= W /\ Dist(l, p) \in 0 .. M - 1
    BY <1>1, <1>4, DistFacts, ZenonT(30) DEF Past
  <2>2. Dist(p, l) = IF Dist(l, p) = 0 THEN 0 ELSE M - Dist(l, p)
    BY <1>1, DistBack
  <2>3. Dist(p, l) = 0 \/ Dist(p, l) > Half
    BY <1>2, <2>1, <2>2
  <2>4. Dist(p, l) \in Int
    BY <1>2, <2>1, <2>2
  <2>5. ~(Dist(p, l) > W /\ Dist(p, l) < Half /\ Dist(p, l) > 1) /\ ~(Dist(p, l) \in 2 .. W)
    BY <1>2, <2>3, <2>4
  <2> QED BY <1>1, <2>5, SurpassesIs
<1> QED BY <1>3, <1>4 DEF CurOK

\* Frames that go up for their age leave CurMpdu held or passed.
LEMMA TimeoutFlushCur ==
  ASSUME NEW e, Good(e), CurOK(e)
  PROVE  CurOK(TimeoutFlush(e))
<1>1. e \in Entries
  BY DEF Good
<1>2. CASE e.list # <<>> /\ e.age = 2
  <2>1. TimeoutFlush(e) = [Refresh(e) EXCEPT !.age = 0]
    BY <1>2 DEF TimeoutFlush
  <2>2. Refresh(e).CurMpdu = None /\ Good(Refresh(e)) /\ 0 \in 0 .. 2
    BY <1>1, RefreshDoes
  <2>3. TimeoutFlush(e).CurMpdu = None
    BY <2>1, <2>2, AgeFollows
  <2> QED BY <2>3 DEF CurOK
<1>3. CASE e.list # <<>> /\ e.age = 1
  <2> DEFINE l == e.LastIndSeq
             p == e.PreviousSN
             W == BAWinSize
             r == TimeoutFlush(e)
  <2>1. r = MoveTo(e, (l + 1) % M)
    BY <1>3 DEF TimeoutFlush
  <2>2. 1 \in 0 .. Half
    BY Numbering
  <2> SUFFICES CurOK(r)
    OBVIOUS
  <2> HIDE DEF r
  <2>3. /\ Follows(r, e) /\ Good(r) /\ r.CurMpdu = e.CurMpdu
        /\ \E K : r.LastIndSeq = (l + K) % M /\ Jump(r.list, e.list, l, 1, K)
    BY <2>1, <2>2, MoveToDoes
  <2>4. PICK K : r.LastIndSeq = (l + K) % M /\ Jump(r.list, e.list, l, 1, K)
    BY <2>3
  <2>5. PICK k : /\ Suffix(r.list, e.list, k)
                 /\ \A i \in 1 .. k : Ahead(e.list[i], l) <= K
                 /\ \A i \in k + 1 .. Len(e.list) : Ahead(e.list[i], l) >= K + 2
    BY <2>4 DEF Jump
  <2>6. /\ l \in 0 .. M - 1 /\ p \in 0 .. M - 1 /\ e.list \in Seq(Blocks) /\ l \in Int /\ p \in Int
        /\ Len(e.list) \in Nat /\ DOMAIN e.list = 1 .. Len(e.list)
        /\ k \in Nat /\ k <= Len(e.list)
    BY <1>1, <2>5, Numbering DEF Entries, Suffix
  <2>7. W \in Nat /\ W >= 1 /\ W < Half /\ Half \in Nat /\ M = 2 * Half
    BY Numbering
  <2>8. \A i \in DOMAIN e.list : Ahead(e.list[i], l) \in 2 .. W
    BY DEF Good, Sorted
  <2>9. K \in 1 .. W /\ K \in 0 .. M - 1 /\ K \in Nat
    <3>1. K \in 1 .. M - 1
      BY <2>4 DEF Jump
    <3>2. CASE K # 1
      <4>1. PICK i \in DOMAIN e.list : Ahead(e.list[i], l) = K
        BY <2>4, <3>2 DEF Jump
      <4> QED BY <2>7, <2>8, <3>1, <4>1
    <3> QED BY <2>7, <3>1, <3>2, SMTT(60)
  <2>10. ASSUME NEW i \in DOMAIN r.list
         PROVE  /\ r.list[i] = e.list[k + i] /\ k + i \in k + 1 .. Len(e.list)
                /\ k + i \in DOMAIN e.list
                /\ Ahead(r.list[i], r.LastIndSeq) = Ahead(e.list[k + i], l) - K
    <3>1. i \in 1 .. Len(e.list) - k
      BY <2>5 DEF Suffix
    <3>2. r.list[i] = e.list[k + i]
      BY <2>5, <3>1, SMTT(60) DEF Suffix
    <3>3. k + i \in k + 1 .. Len(e.list) /\ k + i \in DOMAIN e.list
      BY <2>6, <3>1
    <3>4. Ahead(e.list[k + i], l) >= K + 2 /\ Ahead(e.list[k + i], l) \in 2 .. W
      BY <2>5, <2>8, <3>3
    <3>5. e.list[k + i] \in Blocks
      BY <2>6, <3>3
    <3>6. Ahead(e.list[k + i], (l + K) % M) =
            IF Ahead(e.list[k + i], l) >= K THEN Ahead(e.list[k + i], l) - K
                                            ELSE (Ahead(e.list[k + i], l) - K) + M
      BY <2>6, <2>9, <3>5, AheadShift, ZenonT(30)
    <3>7. Ahead(e.list[k + i], l) >= K
      BY <2>7, <2>9, <3>4
    <3> QED BY <2>4, <3>2, <3>3, <3>6, <3>7
  <2>11. r.PreviousSN = p /\ r.PreviousAmsduState = e.PreviousAmsduState
    BY <2>3 DEF Follows
  <2>12. SUFFICES ASSUME e.CurMpdu # None PROVE Held(r) \/ Past(r)
    BY <2>3, <2>11 DEF CurOK
  <2>13. CASE Held(e)
    <3>1. PICK c \in DOMAIN e.list : Head(e.list[c]).n = e.CurMpdu
      BY <2>13 DEF Held
    <3>2. CASE k < c
      <4>1. PICK j \in 1 .. Len(e.list) - k : c = k + j
        <5>1. c - k \in 1 .. Len(e.list) - k /\ c = k + (c - k)
          BY <2>6, <3>2
        <5> QED BY <5>1
      <4>2. j \in DOMAIN r.list
        BY <2>5 DEF Suffix
      <4>3. r.list[j] = e.list[c]
        BY <2>10, <4>1, <4>2
      <4> QED BY <2>3, <3>1, <4>2, <4>3 DEF Held
    <3>3. CASE c <= k
      <4> DEFINE D == Ahead(e.list[c], l)
      <4>1. D <= K /\ D \in 2 .. W
        BY <2>5, <2>6, <2>8, <3>3
      <4>2. p = (l + D) % M
        <5>1. Seq_(e.list[c]) = p
          BY <2>12, <3>1 DEF Seq_, CurOK
        <5>2. e.list[c] \in Blocks
          BY <2>6
        <5>3. D \in 0 .. M - 1
          BY <2>6, <5>2, AheadType, ZenonT(30)
        <5> QED BY <2>6, <5>1, <5>2, <5>3, AheadIs
      <4> HIDE DEF D
      <4>3. Dist(r.LastIndSeq, l) = K
        BY <2>4, <2>6, <2>9, Distance, ZenonT(30) DEF Dist
      <4>4. r.LastIndSeq \in 0 .. M - 1 /\ D \in 0 .. M - 1 /\ D \in Nat
        <5>1. r.LastIndSeq \in 0 .. M - 1
          BY <2>3 DEF Good, Entries
        <5> QED BY <2>7, <4>1, <5>1
      <4>5. Dist(r.LastIndSeq, (l + D) % M) =
              IF Dist(r.LastIndSeq, l) >= D THEN Dist(r.LastIndSeq, l) - D
                                            ELSE (Dist(r.LastIndSeq, l) - D) + M
        BY <2>6, <4>4, DistShift, SMTT(60)
      <4>6. Dist(r.LastIndSeq, p) = K - D
        BY <2>9, <4>1, <4>2, <4>3, <4>4, <4>5
      <4>7. K - D <= W
        BY <2>7, <2>9, <4>4
      <4>8. ASSUME NEW i \in DOMAIN r.list
            PROVE  (K - D) + Ahead(r.list[i], r.LastIndSeq) <= W
        <5>1. Ahead(e.list[k + i], l) \in 2 .. W
          BY <2>8, <2>10
        <5>2. Ahead(r.list[i], r.LastIndSeq) = Ahead(e.list[k + i], l) - K
          BY <2>10
        <5> QED BY <2>7, <2>9, <4>4, <5>1, <5>2
      <4>9. Past(r)
        BY <2>11, <4>6, <4>7, <4>8 DEF Past
      <4> QED BY <4>9
    <3> QED BY <2>6, <3>2, <3>3
  <2>14. CASE Past(e)
    <3> DEFINE past == Dist(l, p)
    <3>1. /\ past \in 0 .. M - 1 /\ l = (p + past) % M /\ past <= W
          /\ \A i \in DOMAIN e.list : past + Ahead(e.list[i], l) <= W
      BY <2>6, <2>14, DistFacts, ZenonT(30) DEF Past
    <3> HIDE DEF past
    <3>2. past \in Nat
      BY <2>7, <3>1
    <3>3. past + K <= W
      <4>1. CASE K = 1
        <5>1. 1 \in DOMAIN e.list
          BY <1>3, <2>6
        <5>2. past + Ahead(e.list[1], l) <= W /\ Ahead(e.list[1], l) \in 2 .. W
          BY <2>8, <3>1, <5>1
        <5> QED BY <2>7, <3>2, <4>1, <5>2
      <4>2. CASE K # 1
        <5>1. PICK i \in DOMAIN e.list : Ahead(e.list[i], l) = K
          BY <2>4, <4>2 DEF Jump
        <5> QED BY <3>1, <5>1
      <4> QED BY <4>1, <4>2
    <3>4. r.LastIndSeq = (p + (past + K)) % M
      <4>1. p + past \in Int /\ K \in Int /\ (p + past) + K = p + (past + K)
        BY <2>6, <2>9, <3>2
      <4>2. (((p + past) % M) + K) % M = ((p + past) + K) % M
        BY <4>1, ModAdd, ZenonT(30)
      <4> QED BY <2>4, <3>1, <4>1, <4>2
    <3>5. Dist(r.LastIndSeq, p) = past + K
      <4>1. past + K \in 0 .. M - 1
        BY <2>7, <2>9, <3>2, <3>3
      <4>2. (((p + (past + K)) % M) - p) % M = past + K
        BY <2>6, <4>1, Distance, ZenonT(30)
      <4> QED BY <3>4, <4>2 DEF Dist
    <3>6. ASSUME NEW i \in DOMAIN r.list
          PROVE  (past + K) + Ahead(r.list[i], r.LastIndSeq) <= W
      <4>1. Ahead(e.list[k + i], l) \in 2 .. W /\ past + Ahead(e.list[k + i], l) <= W
        BY <2>8, <2>10, <3>1
      <4>2. Ahead(r.list[i], r.LastIndSeq) = Ahead(e.list[k + i], l) - K
        BY <2>10
      <4> QED BY <2>7, <2>9, <3>2, <4>1, <4>2
    <3>7. Past(r)
      BY <2>11, <3>3, <3>5, <3>6 DEF Past
    <3> QED BY <3>7
  <2> QED BY <2>12, <2>13, <2>14 DEF CurOK
<1>4. CASE ~(e.list # <<>> /\ e.age = 2) /\ ~(e.list # <<>> /\ e.age = 1)
  <2>1. TimeoutFlush(e) = e
    BY <1>4 DEF TimeoutFlush
  <2> QED BY <2>1
<1> QED BY <1>2, <1>3, <1>4

-------------------------------------------------------------------------------
(* ba_reorder                                                              *)

\* r notes a frame.
Notes(r, e, fmt, seq) == r = [e EXCEPT !.PreviousAmsduState = fmt, !.PreviousSN = seq]

\* What recording a frame's number and A-MSDU format changes in an entry.
LEMMA SetPrevious ==
  ASSUME NEW e \in Entries, NEW fmt \in Formats, NEW seq \in 0 .. M - 1, NEW r,
         Notes(r, e, fmt, seq)
  PROVE  /\ r \in Entries /\ r.PreviousAmsduState = fmt /\ r.PreviousSN = seq
         /\ r.list = e.list /\ r.up = e.up /\ r.drop = e.drop /\ r.dangling = e.dangling
         /\ r.status = e.status /\ r.LastIndSeq = e.LastIndSeq /\ r.CurMpdu = e.CurMpdu
         /\ r.PreviousReorderCase = e.PreviousReorderCase
<1> DEFINE a == [e EXCEPT !.PreviousAmsduState = fmt]
<1>1. /\ a \in Entries /\ a.PreviousAmsduState = fmt
      /\ a.list = e.list /\ a.up = e.up /\ a.drop = e.drop /\ a.dangling = e.dangling
      /\ a.status = e.status /\ a.LastIndSeq = e.LastIndSeq /\ a.CurMpdu = e.CurMpdu
      /\ a.PreviousReorderCase = e.PreviousReorderCase
  BY ZenonT(30) DEF Entries
<1>2. r = [a EXCEPT !.PreviousSN = seq]
  BY DEF Notes
<1> HIDE DEF a
<1>3. /\ r \in Entries /\ r.PreviousAmsduState = fmt /\ r.PreviousSN = seq
      /\ r.list = a.list /\ r.up = a.up /\ r.drop = a.drop /\ r.dangling = a.dangling
      /\ r.status = a.status /\ r.LastIndSeq = a.LastIndSeq /\ r.CurMpdu = a.CurMpdu
      /\ r.PreviousReorderCase = a.PreviousReorderCase
  BY <1>1, <1>2, SMTT(60) DEF Entries
<1> QED BY <1>1, <1>3

\* No frame disappears in a step that follows.
LEMMA FollowsAll ==
  ASSUME NEW e, NEW r, Follows(r, e)
  PROVE  All(e) \subseteq All(r)
BY DEF Follows, All

\* The frame of a session that is established.
LEMMA HandleDoes ==
  ASSUME NEW e, Good(e), CurOK(e), NEW f \in Frames, NEW e1, NEW e2, NEW e3,
         e1 = AmsduSanity(e, SN(f.n), f.fmt),
         e2 = IF Last_(f.fmt) \/ AmsduMiss(e, SN(f.n), f.fmt) THEN TimeoutFlush(e1) ELSE e1,
         e3 = IF Surpasses(e2, SN(f.n)) THEN Shift(e2, SN(f.n)) ELSE e2
  PROVE  LET r == Note(Check(e3, f), f)
         IN /\ Good(r) /\ CurOK(r) /\ r.dangling = e.dangling /\ r.status = e.status
            /\ All(e) \cup {f} \subseteq All(r)
<1> DEFINE seq == SN(f.n)
           c == Check(e3, f)
           r == Note(c, f)
<1>1. f.n \in Nat /\ f.fmt \in Formats /\ seq \in 0 .. M - 1
  BY SNType, SMTT(60) DEF Frames
<1>2. e \in Entries
  BY DEF Good
<1>3. /\ Follows(e1, e) /\ Good(e1)
      /\ AmsduMiss(e, seq, f.fmt) => e1.CurMpdu = None
      /\ ~AmsduMiss(e, seq, f.fmt) => e1 = e
  BY AmsduSanityDoes
<1>4. Follows(e2, e1) /\ Good(e2)
  <2>1. Follows(e1, e1)
    BY <1>3, FollowsSelf DEF Good
  <2>2. Follows(TimeoutFlush(e1), e1) /\ Good(TimeoutFlush(e1))
    BY <1>3, TimeoutFlushDoes
  <2> QED BY <1>3, <2>1, <2>2, SMTT(60)
<1>5. /\ Follows(e3, e2) /\ Good(e3) /\ e3.CurMpdu = e2.CurMpdu /\ ~Surpasses(e3, seq)
  <2>1. CASE Surpasses(e2, seq)
    BY <1>1, <1>4, <2>1, ShiftDoes, SMTT(60)
  <2>2. CASE ~Surpasses(e2, seq)
    BY <1>4, <2>2, FollowsSelf, ZenonT(30) DEF Good
  <2> QED BY <2>1, <2>2
<1>6. ASSUME e2.CurMpdu # None
      PROVE  /\ Last_(f.fmt)
             /\ Dist(seq, e3.LastIndSeq) \in 2 .. BAWinSize =>
                  \E i \in DOMAIN e3.list : Head(e3.list[i]).n = e3.CurMpdu
  <2>1. e1.CurMpdu # None
    BY <1>4, <1>6, ZenonT(30) DEF Follows
  <2>2. e1 = e /\ ~AmsduMiss(e, seq, f.fmt)
    BY <1>3, <2>1
  <2>3. seq = e.PreviousSN /\ f.fmt # "FIRST"
    BY <2>1, <2>2 DEF CurOK, AmsduMiss
  <2>4. Last_(f.fmt)
    BY <1>1, <2>3 DEF Formats, Last_
  <2>5. e2 = TimeoutFlush(e)
    BY <2>2, <2>4
  <2>6. CurOK(e2)
    BY <2>5, TimeoutFlushCur, SMTT(60)
  <2>7. e2.PreviousSN = seq
    BY <1>4, <2>2, <2>3, ZenonT(30) DEF Follows
  <2>8. ~Surpasses(e2, seq) /\ (Dist(seq, e2.LastIndSeq) \in 2 .. BAWinSize => Held(e2))
    BY <1>4, <1>6, <2>6, <2>7, CurChecks
  <2>9. e3 = e2
    BY <2>8, SMTT(60)
  <2> QED BY <2>4, <2>8, <2>9, SMTT(60) DEF Held
<1>7. /\ Takes(c, e3, f)
      /\ f.fmt = "FIRST" /\ c.PreviousReorderCase = "STEP_ONE" =>
           Sorted(c.list, seq, 1, BAWinSize)
  BY <1>5, <1>6, CheckDoes, ZenonT(30)
<1> SUFFICES /\ Good(r) /\ CurOK(r) /\ r.dangling = e.dangling /\ r.status = e.status
             /\ All(e) \cup {f} \subseteq All(r)
  OBVIOUS
<1> DEFINE n == [c EXCEPT !.PreviousAmsduState = f.fmt, !.PreviousSN = seq]
           cur == IF Last_(f.fmt) THEN None ELSE n.CurMpdu
<1>8. r = [n EXCEPT !.CurMpdu = cur]
  BY SMTT(60) DEF Note
<1> HIDE DEF c, r, seq
<1>9. c \in Entries
  BY <1>7, ZenonT(30) DEF Takes
<1>10. /\ n \in Entries /\ n.PreviousAmsduState = f.fmt /\ n.PreviousSN = seq
       /\ n.list = c.list /\ n.up = c.up /\ n.drop = c.drop /\ n.dangling = c.dangling
       /\ n.status = c.status /\ n.LastIndSeq = c.LastIndSeq /\ n.CurMpdu = c.CurMpdu
       /\ n.PreviousReorderCase = c.PreviousReorderCase
  <2>1. Notes(n, c, f.fmt, seq)
    BY DEF Notes
  <2> HIDE DEF n
  <2>2. f.fmt \in Formats /\ seq \in 0 .. M - 1
    BY <1>1
  <2> QED BY <1>9, <2>1, <2>2, SetPrevious, SMTT(60)
<1> HIDE DEF n
<1>11. cur \in Nat \cup {None}
  BY <1>10 DEF Entries
<1> HIDE DEF cur
<1>12. /\ r \in Entries /\ r.PreviousAmsduState = f.fmt /\ r.PreviousSN = seq
       /\ r.list = n.list /\ r.up = n.up /\ r.drop = n.drop /\ r.dangling = n.dangling
       /\ r.status = n.status /\ r.LastIndSeq = n.LastIndSeq /\ r.CurMpdu = cur
       /\ r.PreviousReorderCase = n.PreviousReorderCase
  BY <1>8, <1>10, <1>11, SMTT(60) DEF Entries
<1>13. Good(r)
  BY <1>7, <1>10, <1>12, ZenonT(30) DEF Good, Takes
<1>14. CurOK(r)
  <2> SUFFICES ASSUME r.CurMpdu # None
               PROVE  r.PreviousAmsduState = "FIRST" /\ r.PreviousSN = SN(r.CurMpdu) /\ Held(r)
    BY DEF CurOK
  <2>1. ~Last_(f.fmt) /\ r.CurMpdu = c.CurMpdu
    BY <1>10, <1>12, SMTT(60) DEF cur
  <2>2. f.fmt = "FIRST"
    BY <1>1, <2>1, SMTT(60) DEF Formats, Last_
  <2>3. e3.CurMpdu = None
    BY <1>5, <1>6, <2>1, ZenonT(30)
  <2>4. r.CurMpdu = f.n /\ \E i \in DOMAIN c.list : Head(c.list[i]).n = f.n
    BY <1>7, <2>1, <2>3, ZenonT(30) DEF Takes
  <2> QED BY <1>10, <1>12, <2>2, <2>4, ZenonT(30) DEF Held, seq
<1>15. r.dangling = e.dangling /\ r.status = e.status
  BY <1>3, <1>4, <1>5, <1>7, <1>10, <1>12, ZenonT(30) DEF Follows, Takes
<1>16. All(e) \cup {f} \subseteq All(r)
  <2>1. All(e) \subseteq All(e1) /\ All(e1) \subseteq All(e2) /\ All(e2) \subseteq All(e3)
    BY <1>3, <1>4, <1>5, FollowsAll, SMTT(60)
  <2>2. All(e3) \cup {f} \subseteq All(c)
    BY <1>7, ZenonT(30) DEF Takes
  <2>3. All(c) = All(r)
    BY <1>10, <1>12 DEF All
  <2> QED BY <2>1, <2>2, <2>3
<1> QED BY <1>13, <1>14, <1>15, <1>16

\* The first frame of a session.
LEMMA InitializeDoes ==
  ASSUME NEW e \in Entries, NEW f \in Frames
  PROVE  LET r == Initialize(e, f)
         IN /\ Good(r) /\ CurOK(r) /\ r.dangling = e.dangling /\ r.status = "Established"
            /\ All(e) \cup {f} \subseteq All(r)
<1> DEFINE q == Refresh(e)
           i == Indicate(q, f)
           a == [i EXCEPT !.LastIndSeq = SN(f.n), !.age = 0]
           b == [a EXCEPT !.PreviousAmsduState = f.fmt, !.PreviousSN = SN(f.n)]
           r == Initialize(e, f)
<1>1. f.fmt \in Formats /\ SN(f.n) \in 0 .. M - 1
  BY SNType DEF Frames
<1>2. Follows(q, e) /\ q.list = <<>> /\ q.CurMpdu = None /\ q \in Entries
  BY RefreshDoes DEF Good
<1>3. r = [b EXCEPT !.status = "Established"]
  BY DEF Initialize
<1> SUFFICES /\ Good(r) /\ CurOK(r) /\ r.dangling = e.dangling /\ r.status = "Established"
             /\ All(e) \cup {f} \subseteq All(r)
  OBVIOUS
<1> HIDE DEF r, q
<1>4. /\ i \in Entries /\ i.list = q.list /\ i.drop = q.drop /\ i.dangling = q.dangling
      /\ FramesOf(q.up) \cup {f} \subseteq FramesOf(i.up) /\ i.CurMpdu = None
  BY <1>2, IndicateDoes, SMTT(60)
<1> HIDE DEF i
<1>5. Kept(a, i) /\ a.CurMpdu = None
  BY <1>1, <1>4, Restart, ZenonT(30)
<1> HIDE DEF a
<1>6. /\ a \in Entries /\ a.list = q.list /\ a.drop = q.drop /\ a.dangling = q.dangling
      /\ FramesOf(q.up) \cup {f} \subseteq FramesOf(a.up)
  BY <1>4, <1>5 DEF Kept
<1>7. /\ b \in Entries /\ b.list = a.list /\ b.up = a.up /\ b.drop = a.drop
      /\ b.dangling = a.dangling /\ b.CurMpdu = a.CurMpdu
  <2>1. Notes(b, a, f.fmt, SN(f.n))
    BY DEF Notes
  <2> HIDE DEF b
  <2> QED BY <1>1, <1>6, <2>1, SetPrevious
<1> HIDE DEF b
<1>8. /\ r \in Entries /\ r.list = b.list /\ r.up = b.up /\ r.drop = b.drop
      /\ r.dangling = b.dangling /\ r.CurMpdu = b.CurMpdu /\ r.status = "Established"
  BY <1>3, <1>7, ZenonT(30) DEF Entries, Statuses
<1>9. Good(r)
  BY <1>2, <1>6, <1>7, <1>8, EmptySorted DEF Good
<1>10. CurOK(r)
  BY <1>5, <1>7, <1>8 DEF CurOK
<1>11. All(e) \cup {f} \subseteq All(r)
  <2>1. All(e) \subseteq All(q)
    BY <1>2, FollowsAll
  <2>2. All(q) \cup {f} \subseteq All(r)
    BY <1>6, <1>7, <1>8 DEF All
  <2> QED BY <2>1, <2>2
<1>12. r.dangling = e.dangling
  BY <1>2, <1>6, <1>7, <1>8 DEF Follows
<1> QED BY <1>8, <1>9, <1>10, <1>11, <1>12
===============================================================================
