-------------------------- MODULE BaReorderList_proof --------------------------
(***************************************************************************)
(* Sequence numbers modulo M and the operators that take blocks off the    *)
(* reordering list, for any number of sequence numbers and any window      *)
(* below half of them: what each one releases is a prefix of the list, and *)
(* what it leaves is sorted and within the window.                         *)
(***************************************************************************)
EXTENDS BaReorder, WellFoundedInduction, TLAPS

-------------------------------------------------------------------------------
(* Numbers                                                                 *)

Half == M \div 2

\* Half of the numbers, and a window below it.
LEMMA Numbering ==
  /\ M \in Nat /\ M >= 4 /\ M = 2 * Half /\ Half \in Nat
  /\ BAWinSize \in Nat /\ BAWinSize >= 1 /\ BAWinSize < Half
<1>1. M \in Nat /\ M % 2 = 0 /\ BAWinSize \in 1 .. Half - 1
  BY WindowAssumption DEF Half
<1>2. Half \in Int /\ M = 2 * Half
  BY <1>1 DEF Half
<1> QED BY <1>1, <1>2

\* Division with remainder.
LEMMA DivMod ==
  ASSUME NEW x \in Int
  PROVE  x \div M \in Int /\ x % M \in 0 .. M - 1 /\ x = M * (x \div M) + (x % M)
<1>1. M \in Nat \ {0}
  BY Numbering
<1> QED BY <1>1, Z3

\* A number written as M * q + r with r below M leaves r modulo M.
LEMMA ModUnique ==
  ASSUME NEW q \in Int, NEW r \in 0 .. M - 1
  PROVE  (M * q + r) % M = r
<1>1. M \in Nat \ {0}
  BY Numbering
<1> QED BY <1>1, Z3

\* M times a sum or a difference, for the provers' linear arithmetic.
LEMMA Distribute ==
  ASSUME NEW p \in Int, NEW q \in Int
  PROVE  M * (p + q) = M * p + M * q /\ M * (p - q) = M * p - M * q /\ M * p \in Int
<1>1. M \in Int
  BY Numbering
<1> QED BY <1>1, Z3

\* How far h is ahead when the number it is compared with moves on by k.
LEMMA Shifted ==
  ASSUME NEW h \in Int, NEW l \in Int, NEW k \in 0 .. M - 1
  PROVE  (h - ((l + k) % M)) % M =
           IF (h - l) % M >= k THEN ((h - l) % M) - k ELSE (((h - l) % M) - k) + M
<1> DEFINE d == (h - l) % M
           q == (h - l) \div M
           a == (l + k) % M
           p == (l + k) \div M
<1>1. M \in Int /\ k \in Int
  BY Numbering
<1>2. q \in Int /\ d \in 0 .. M - 1 /\ h - l = M * q + d
  <2>1. h - l \in Int
    OBVIOUS
  <2> QED BY <2>1, DivMod
<1>3. p \in Int /\ a \in 0 .. M - 1 /\ l + k = M * p + a
  <2>1. l + k \in Int
    BY <1>1
  <2> QED BY <2>1, DivMod
<1> HIDE DEF d, q, a, p
<1>4. M * (q + p) = M * q + M * p /\ M * q \in Int /\ M * p \in Int /\ q + p \in Int
  BY <1>2, <1>3, Distribute
<1>5. h - a = M * (q + p) + (d - k)
  BY <1>1, <1>2, <1>3, <1>4
<1>6. CASE d >= k
  <2>1. d - k \in 0 .. M - 1
    BY <1>1, <1>2, <1>6
  <2>2. (M * (q + p) + (d - k)) % M = d - k
    BY <1>4, <2>1, ModUnique
  <2> QED BY <1>5, <1>6, <2>2 DEF d, a
<1>7. CASE ~(d >= k)
  <2>1. (d - k) + M \in 0 .. M - 1
    BY <1>1, <1>2, <1>7
  <2>2. M * ((q + p) - 1) = M * (q + p) - M * 1 /\ M * 1 = M /\ (q + p) - 1 \in Int
    <3>1. M * 1 = M
      BY <1>1
    <3>2. 1 \in Int /\ q + p \in Int
      BY <1>4
    <3>3. M * ((q + p) - 1) = M * (q + p) - M * 1
      BY <3>2, Distribute
    <3> QED BY <3>1, <3>2, <3>3
  <2>3. h - a = M * ((q + p) - 1) + ((d - k) + M)
    BY <1>1, <1>2, <1>4, <1>5, <2>2
  <2>4. (M * ((q + p) - 1) + ((d - k) + M)) % M = (d - k) + M
    BY <2>1, <2>2, ModUnique
  <2> QED BY <1>7, <2>3, <2>4 DEF d, a
<1> QED BY <1>6, <1>7

\* A number is as far ahead of l as it says.
LEMMA Same ==
  ASSUME NEW l \in Int, NEW h \in 0 .. M - 1
  PROVE  (l + ((h - l) % M)) % M = h
<1> DEFINE d == (h - l) % M
           q == (h - l) \div M
<1>1. M \in Int /\ h \in Int
  BY Numbering
<1>2. q \in Int /\ d \in 0 .. M - 1 /\ h - l = M * q + d
  <2>1. h - l \in Int
    BY <1>1
  <2> QED BY <2>1, DivMod
<1> HIDE DEF d, q
<1>3. M * (0 - q) = M * 0 - M * q /\ M * 0 = 0 /\ M * q \in Int /\ 0 - q \in Int
  <2>1. M * 0 = 0
    BY <1>1
  <2>2. 0 \in Int /\ 0 - q \in Int
    BY <1>2
  <2> QED BY <1>2, <2>1, <2>2, Distribute
<1>4. l + d = M * (0 - q) + h
  BY <1>1, <1>2, <1>3
<1>5. (M * (0 - q) + h) % M = h
  BY <1>3, ModUnique
<1> QED BY <1>4, <1>5 DEF d

\* k ahead of l is k ahead of l.
LEMMA Distance ==
  ASSUME NEW l \in Int, NEW k \in 0 .. M - 1
  PROVE  (((l + k) % M) - l) % M = k
<1> DEFINE a == (l + k) % M
           p == (l + k) \div M
<1>1. M \in Int /\ k \in Int
  BY Numbering
<1>2. p \in Int /\ a \in 0 .. M - 1 /\ l + k = M * p + a
  <2>1. l + k \in Int
    BY <1>1
  <2> QED BY <2>1, DivMod
<1> HIDE DEF a, p
<1>3. M * (0 - p) = M * 0 - M * p /\ M * 0 = 0 /\ M * p \in Int /\ 0 - p \in Int
  <2>1. M * 0 = 0
    BY <1>1
  <2>2. 0 \in Int /\ 0 - p \in Int
    BY <1>2
  <2> QED BY <1>2, <2>1, <2>2, Distribute
<1>4. a - l = M * (0 - p) + k
  BY <1>1, <1>2, <1>3
<1>5. (M * (0 - p) + k) % M = k
  BY <1>3, ModUnique
<1> QED BY <1>4, <1>5 DEF a

\* A number below M is its own remainder.
LEMMA Small ==
  ASSUME NEW h \in 0 .. M - 1
  PROVE  h % M = h
<1>1. M \in Nat \ {0}
  BY Numbering
<1> QED BY <1>1, Z3

\* A set of natural numbers that is not empty has a least element: the form in
\* which the proofs below use induction.
LEMMA Least ==
  ASSUME NEW T, T \subseteq Nat, T # {}
  PROVE  \E x \in T : \A y \in T : x <= y
<1>1. PICK x \in T : \A y \in T : <<y, x>> \notin OpToRel(<, Nat)
  BY WFMin, NatLessThanWellFounded, ZenonT(30)
<1>2. ASSUME NEW y \in T PROVE x <= y
  <2>1. <<y, x>> \notin OpToRel(<, Nat)
    BY <1>1, ZenonT(30)
  <2>2. ~(y < x)
    BY <2>1 DEF OpToRel
  <2> QED BY <2>2
<1> QED BY <1>2

-------------------------------------------------------------------------------
(* Sequence numbers of blocks                                              *)

\* A sequence number is one of the M the field can hold.
LEMMA SNType ==
  ASSUME NEW n \in Nat
  PROVE  SN(n) \in 0 .. M - 1
<1>1. n \in Int
  OBVIOUS
<1> QED BY <1>1, DivMod DEF SN

\* The first frame of a block of frames gives the block its sequence number.
LEMMA BlockType ==
  ASSUME NEW blk \in Blocks
  PROVE  /\ Head(blk) \in Frames /\ Head(blk).n \in Nat
         /\ Seq_(blk) \in 0 .. M - 1 /\ Seq_(blk) \in Int
<1>1. Head(blk) \in Frames
  BY DEF Blocks
<1>2. Head(blk).n \in Nat
  BY <1>1 DEF Frames
<1>3. Seq_(blk) \in 0 .. M - 1
  BY <1>2, SNType DEF Seq_
<1> QED BY <1>1, <1>2, <1>3, Numbering

\* How far a block is ahead of a sequence number is below M.
LEMMA AheadType ==
  ASSUME NEW blk \in Blocks, NEW l \in 0 .. M - 1
  PROVE  Ahead(blk, l) \in 0 .. M - 1
<1>1. Seq_(blk) - l \in Int
  BY BlockType, Numbering
<1> QED BY <1>1, DivMod DEF Ahead

\* A block has the number k after l if and only if it is k ahead of l.
LEMMA AheadIs ==
  ASSUME NEW blk \in Blocks, NEW l \in 0 .. M - 1, NEW k \in 0 .. M - 1
  PROVE  Seq_(blk) = (l + k) % M <=> Ahead(blk, l) = k
<1>1. l \in Int /\ Seq_(blk) \in 0 .. M - 1
  BY BlockType, Numbering
<1>2. (l + Ahead(blk, l)) % M = Seq_(blk)
  BY <1>1, Same DEF Ahead
<1>3. (((l + k) % M) - l) % M = k
  BY <1>1, Distance
<1> QED BY <1>2, <1>3 DEF Ahead

\* When l moves on by k, a block that was further ahead is k less ahead, and
\* one that was not is behind.
LEMMA AheadShift ==
  ASSUME NEW blk \in Blocks, NEW l \in 0 .. M - 1, NEW k \in 0 .. M - 1
  PROVE  /\ Ahead(blk, (l + k) % M) =
              IF Ahead(blk, l) >= k THEN Ahead(blk, l) - k ELSE (Ahead(blk, l) - k) + M
         /\ (l + k) % M \in 0 .. M - 1
<1>1. l \in Int /\ Seq_(blk) \in Int
  BY BlockType, Numbering
<1>2. l + k \in Int
  BY <1>1, Numbering
<1>3. (l + k) % M \in 0 .. M - 1
  BY <1>2, DivMod
<1>4. Ahead(blk, (l + k) % M) =
        IF Ahead(blk, l) >= k THEN Ahead(blk, l) - k ELSE (Ahead(blk, l) - k) + M
  BY <1>1, Shifted DEF Ahead
<1> QED BY <1>3, <1>4

-------------------------------------------------------------------------------
(* The list                                                                *)

\* l2 is list without its first k blocks.
Suffix(l2, list, k) ==
  /\ k \in 0 .. Len(list)
  /\ l2 \in Seq(Blocks)
  /\ Len(l2) = Len(list) - k
  /\ \A i \in 1 .. Len(list) - k : l2[i] = list[k + i]

\* Taking the first k blocks off a list leaves a suffix of it.
LEMMA SuffixOf ==
  ASSUME NEW list \in Seq(Blocks), NEW k \in 0 .. Len(list)
  PROVE  /\ Suffix(SubSeq(list, k + 1, Len(list)), list, k)
         /\ SubSeq(list, 1, k) \in Seq(Blocks)
         /\ Len(SubSeq(list, 1, k)) = k
         /\ \A i \in 1 .. k : SubSeq(list, 1, k)[i] = list[i]
<1>1. Len(list) \in Nat
  OBVIOUS
<1> DEFINE l2 == SubSeq(list, k + 1, Len(list))
<1>2. l2 \in Seq(Blocks)
  BY <1>1
<1>3. Len(l2) = Len(list) - k
  BY <1>1
<1>4. \A i \in 1 .. Len(list) - k : l2[i] = list[k + i]
  BY <1>1
<1>5. /\ SubSeq(list, 1, k) \in Seq(Blocks)
      /\ Len(SubSeq(list, 1, k)) = k
      /\ \A i \in 1 .. k : SubSeq(list, 1, k)[i] = list[i]
  BY <1>1
<1> QED BY <1>2, <1>3, <1>4, <1>5 DEF Suffix

\* A suffix of a sorted list is sorted.
LEMMA SuffixSorted ==
  ASSUME NEW list \in Seq(Blocks), NEW l2, NEW k, Suffix(l2, list, k),
         NEW l, NEW lo, NEW hi, Sorted(list, l, lo, hi)
  PROVE  Sorted(l2, l, lo, hi)
<1>1. Len(list) \in Nat /\ DOMAIN list = 1 .. Len(list) /\ k \in Nat /\ k <= Len(list)
  BY DEF Suffix
<1>2. DOMAIN l2 = 1 .. Len(list) - k
  BY DEF Suffix
<1>3. ASSUME NEW i \in DOMAIN l2 PROVE l2[i] = list[k + i] /\ k + i \in DOMAIN list /\ i \in Nat
  BY <1>1, <1>2 DEF Suffix
<1>4. \A i \in DOMAIN l2 : Ahead(l2[i], l) \in lo .. hi
  BY <1>3 DEF Sorted
<1>5. ASSUME NEW i \in DOMAIN l2, NEW j \in DOMAIN l2, i < j
      PROVE  Ahead(l2[i], l) < Ahead(l2[j], l)
  <2>1. k + i < k + j
    BY <1>1, <1>3, <1>5
  <2> QED BY <1>3, <2>1 DEF Sorted
<1> QED BY <1>4, <1>5 DEF Sorted

\* The same, counted from a number k ahead that all blocks left are beyond.
LEMMA Rebase ==
  ASSUME NEW list \in Seq(Blocks), NEW l \in 0 .. M - 1, NEW k \in 0 .. M - 1,
         NEW lo \in Nat, NEW hi \in Nat, NEW below \in Nat, Sorted(list, l, lo, hi),
         \A i \in DOMAIN list : Ahead(list[i], l) >= k + below
  PROVE  Sorted(list, (l + k) % M, below, hi - k)
<1>0. k \in Int /\ M \in Int
  BY Numbering
<1>1. ASSUME NEW i \in DOMAIN list
      PROVE  /\ Ahead(list[i], (l + k) % M) = Ahead(list[i], l) - k
             /\ Ahead(list[i], l) \in Int /\ Ahead(list[i], l) \in lo .. hi
             /\ Ahead(list[i], l) >= k + below
  <2>1. list[i] \in Blocks
    OBVIOUS
  <2>2. Ahead(list[i], l) \in 0 .. M - 1
    BY <2>1, AheadType
  <2>3. Ahead(list[i], l) >= k
    BY <1>0, <2>2
  <2> QED BY <1>0, <2>1, <2>2, <2>3, AheadShift DEF Sorted
<1>2. ASSUME NEW i \in DOMAIN list PROVE Ahead(list[i], (l + k) % M) \in below .. hi - k
  BY <1>0, <1>1
<1>3. ASSUME NEW i \in DOMAIN list, NEW j \in DOMAIN list, i < j
      PROVE  Ahead(list[i], (l + k) % M) < Ahead(list[j], (l + k) % M)
  <2>1. Ahead(list[i], l) < Ahead(list[j], l)
    BY <1>3 DEF Sorted
  <2> QED BY <1>0, <1>1, <2>1
<1> QED BY <1>2, <1>3 DEF Sorted

\* The blocks before the first one at which a loop stops.
LEMMA PrefixStops ==
  ASSUME NEW e \in Entries, NEW stops \in SUBSET DOMAIN e.list
  PROVE  /\ Prefix(e, stops) \in 0 .. Len(e.list)
         /\ \A i \in 1 .. Prefix(e, stops) : i \notin stops
         /\ Prefix(e, stops) < Len(e.list) => Prefix(e, stops) + 1 \in stops
<1>1. e.list \in Seq(Blocks)
  BY DEF Entries
<1>2. Len(e.list) \in Nat /\ DOMAIN e.list = 1 .. Len(e.list)
  BY <1>1
<1> DEFINE T == stops \cup {Len(e.list) + 1}
           m == Min(T)
<1>3. T \subseteq Nat /\ T # {} /\ T \subseteq 1 .. Len(e.list) + 1
  BY <1>2
<1>4. \E x \in T : \A y \in T : x <= y
  <2> HIDE DEF T
  <2> QED BY <1>3, Least, ZenonT(30)
<1>5. m \in T /\ \A y \in T : m <= y
  <2> HIDE DEF T
  <2> QED BY <1>4 DEF Min
<1>6. m \in 1 .. Len(e.list) + 1
  BY <1>3, <1>5
<1>7. Prefix(e, stops) = m - 1
  BY DEF Prefix
<1> HIDE DEF m
<1>8. \A i \in 1 .. m - 1 : i \notin stops
  BY <1>2, <1>5, <1>6
<1>9. m - 1 < Len(e.list) => (m - 1) + 1 \in stops
  BY <1>2, <1>5, <1>6
<1> QED BY <1>2, <1>6, <1>7, <1>8, <1>9

\* What releasing the first blocks leaves.
LEMMA Released ==
  ASSUME NEW e \in Entries, NEW k \in 0 .. Len(e.list)
  PROVE  /\ Release(e, k) \in Entries
         /\ Suffix(Release(e, k).list, e.list, k)
         /\ Release(e, k) = [e EXCEPT !.up = Release(e, k).up, !.list = Release(e, k).list]
         /\ FramesOf(e.list) \cup FramesOf(e.up) \subseteq
              FramesOf(Release(e, k).list) \cup FramesOf(Release(e, k).up)
<1>1. e.list \in Seq(Blocks) /\ e.up \in Seq(Blocks)
  BY DEF Entries
<1> DEFINE front == SubSeq(e.list, 1, k)
           back == SubSeq(e.list, k + 1, Len(e.list))
<1>2. /\ Suffix(back, e.list, k) /\ front \in Seq(Blocks) /\ Len(front) = k
      /\ \A i \in 1 .. k : front[i] = e.list[i]
  BY <1>1, SuffixOf
<1>3. back \in Seq(Blocks)
  BY <1>2 DEF Suffix
<1> HIDE DEF front
<1>4. e.up \o front \in Seq(Blocks)
  BY <1>1, <1>2
<1>5. Release(e, k) = [e EXCEPT !.up = e.up \o front, !.list = back]
  BY DEF Release, front, Entries
<1> HIDE DEF back
<1>6. Release(e, k) \in Entries /\ Release(e, k).list = back /\ Release(e, k).up = e.up \o front
  BY <1>3, <1>4, <1>5, ZenonT(30) DEF Entries
<1>7. ASSUME NEW f \in FramesOf(e.list) PROVE f \in FramesOf(back) \cup FramesOf(e.up \o front)
  <2>1. PICK i \in DOMAIN e.list : f \in Range(e.list[i])
    BY DEF FramesOf
  <2>2. i \in 1 .. Len(e.list) /\ k \in Nat /\ Len(e.list) \in Nat
    BY <1>1, <2>1
  <2>3. CASE i <= k
    <3>1. front[i] = e.list[i] /\ i \in 1 .. k
      BY <1>2, <2>2, <2>3
    <3>2. Len(e.up) + i \in DOMAIN (e.up \o front) /\ (e.up \o front)[Len(e.up) + i] = front[i]
      BY <1>1, <1>2, <3>1, SMTT(60)
    <3> QED BY <2>1, <3>1, <3>2 DEF FramesOf
  <2>4. CASE i > k
    <3>1. PICK j \in 1 .. Len(e.list) - k : k + j = i
      <4>1. i - k \in 1 .. Len(e.list) - k /\ k + (i - k) = i
        BY <2>2, <2>4
      <4> QED BY <4>1
    <3>2. back[j] = e.list[k + j] /\ j \in DOMAIN back
      BY <1>2, <3>1 DEF Suffix
    <3> QED BY <2>1, <3>1, <3>2 DEF FramesOf
  <2> QED BY <2>2, <2>3, <2>4
<1>8. ASSUME NEW f \in FramesOf(e.up) PROVE f \in FramesOf(e.up \o front)
  <2>1. PICK i \in DOMAIN e.up : f \in Range(e.up[i])
    BY DEF FramesOf
  <2>2. i \in DOMAIN (e.up \o front) /\ (e.up \o front)[i] = e.up[i]
    BY <1>1, <1>2, <2>1
  <2> QED BY <2>1, <2>2 DEF FramesOf
<1> QED BY <1>2, <1>5, <1>6, <1>7, <1>8

\* Blocks in order are each at least as far ahead as their place says.
LEMMA Places ==
  ASSUME NEW list \in Seq(Blocks), NEW l \in 0 .. M - 1, NEW hi \in Nat, Sorted(list, l, 1, hi)
  PROVE  \A i \in DOMAIN list : Ahead(list[i], l) >= i
<1> DEFINE T == {i \in DOMAIN list : ~(Ahead(list[i], l) >= i)}
<1> SUFFICES ASSUME T # {} PROVE FALSE
  OBVIOUS
<1>1. Len(list) \in Nat /\ DOMAIN list = 1 .. Len(list)
  OBVIOUS
<1>2. T \subseteq Nat
  BY <1>1
<1>3. PICK i \in T : \A j \in T : i <= j
  <2> HIDE DEF T
  <2> QED BY <1>2, Least, ZenonT(30)
<1>4. i \in 1 .. Len(list) /\ ~(Ahead(list[i], l) >= i)
  BY <1>1, <1>3
<1>5. \A j \in DOMAIN list : Ahead(list[j], l) \in Int /\ Ahead(list[j], l) >= 1
  BY DEF Sorted
<1>6. i > 1 /\ i - 1 \in DOMAIN list
  BY <1>1, <1>4, <1>5
<1>7. Ahead(list[i - 1], l) < Ahead(list[i], l)
  BY <1>1, <1>4, <1>6 DEF Sorted
<1>8. ~(Ahead(list[i - 1], l) >= i - 1)
  BY <1>4, <1>5, <1>6, <1>7
<1>9. i - 1 \in T
  BY <1>6, <1>8
<1> QED BY <1>3, <1>4, <1>9

\* r is e after some blocks went up: the rest is as it was, but for the number,
\* the clock and CurMpdu.
Follows(r, e) ==
  /\ r \in Entries
  /\ \E k : Suffix(r.list, e.list, k)
  /\ r.status = e.status /\ r.PreviousSN = e.PreviousSN
  /\ r.PreviousAmsduState = e.PreviousAmsduState
  /\ r.PreviousReorderCase = e.PreviousReorderCase
  /\ r.CurMpdu \in {e.CurMpdu, None}
  /\ r.drop = e.drop /\ r.dangling = e.dangling
  /\ FramesOf(e.list) \cup FramesOf(e.up) \subseteq FramesOf(r.list) \cup FramesOf(r.up)

\* A suffix of a suffix is a suffix.
LEMMA SuffixTwice ==
  ASSUME NEW list \in Seq(Blocks), NEW l2, NEW l3, NEW k, NEW m,
         Suffix(l2, list, k), Suffix(l3, l2, m)
  PROVE  Suffix(l3, list, k + m)
<1>1. /\ Len(list) \in Nat /\ k \in Nat /\ m \in Nat /\ k + m \in 0 .. Len(list)
      /\ l3 \in Seq(Blocks) /\ Len(l3) = Len(list) - (k + m)
  BY DEF Suffix
<1>2. ASSUME NEW i \in 1 .. Len(list) - (k + m) PROVE l3[i] = list[(k + m) + i]
  <2>1. i \in 1 .. Len(l2) - m /\ m + i \in 1 .. Len(list) - k /\ k + (m + i) = (k + m) + i
    BY <1>1 DEF Suffix
  <2>2. l3[i] = l2[m + i]
    BY <2>1 DEF Suffix
  <2>3. l2[m + i] = list[k + (m + i)]
    BY <2>1 DEF Suffix
  <2> QED BY <2>1, <2>2, <2>3
<1> QED BY <1>1, <1>2 DEF Suffix

\* An entry follows itself.
LEMMA FollowsSelf ==
  ASSUME NEW e \in Entries
  PROVE  Follows(e, e)
<1>1. e.list \in Seq(Blocks)
  BY DEF Entries
<1>2. Suffix(e.list, e.list, 0)
  BY <1>1 DEF Suffix
<1> QED BY <1>2 DEF Follows

\* What follows an entry that follows a third one follows the third.
LEMMA FollowsTwice ==
  ASSUME NEW e \in Entries, NEW r, NEW q, Follows(r, e), Follows(q, r)
  PROVE  Follows(q, e)
<1>1. e.list \in Seq(Blocks)
  BY DEF Entries
<1>2. PICK k : Suffix(r.list, e.list, k)
  BY DEF Follows
<1>3. PICK m : Suffix(q.list, r.list, m)
  BY DEF Follows
<1>4. Suffix(q.list, e.list, k + m)
  BY <1>1, <1>2, <1>3, SuffixTwice
<1> QED BY <1>4 DEF Follows

\* ba_indicate_reordering_mpdus_in_order, as its callers use it: it releases
\* the blocks that follow the number without a gap.
LEMMA InOrderDoes ==
  ASSUME NEW e \in Entries, NEW hi \in 0 .. BAWinSize, Sorted(e.list, e.LastIndSeq, 1, hi)
  PROVE  /\ Follows(InOrder(e, e.LastIndSeq), e)
         /\ InOrder(e, e.LastIndSeq).CurMpdu = e.CurMpdu
         /\ \E k \in 0 .. hi :
              /\ InOrder(e, e.LastIndSeq).LastIndSeq = (e.LastIndSeq + k) % M
              /\ k # 0 => \E i \in DOMAIN e.list : Ahead(e.list[i], e.LastIndSeq) = k
              /\ Suffix(InOrder(e, e.LastIndSeq).list, e.list, k)
              /\ \A i \in 1 .. k : Ahead(e.list[i], e.LastIndSeq) <= k
              /\ \A i \in k + 1 .. Len(e.list) : Ahead(e.list[i], e.LastIndSeq) >= k + 2
<1> DEFINE start == e.LastIndSeq
           stops == {i \in DOMAIN e.list : Seq_(e.list[i]) # (start + i) % M}
           k == Prefix(e, stops)
           r == InOrder(e, start)
<1>1. e.list \in Seq(Blocks) /\ start \in 0 .. M - 1 /\ start \in Int
  BY Numbering DEF Entries
<1>2. Len(e.list) \in Nat /\ DOMAIN e.list = 1 .. Len(e.list)
  BY <1>1
<1>3. /\ k \in 0 .. Len(e.list) /\ k \in Nat
      /\ \A i \in 1 .. k : i \notin stops
      /\ k < Len(e.list) => k + 1 \in stops
  <2>1. stops \in SUBSET DOMAIN e.list
    OBVIOUS
  <2> HIDE DEF stops
  <2> QED BY <1>2, <2>1, PrefixStops
<1>4. r = [Release(e, k) EXCEPT !.LastIndSeq = IF k = 0 THEN @ ELSE (start + k) % M]
  BY SMTT(60) DEF InOrder
<1> HIDE DEF k, r
<1>5. /\ Release(e, k) \in Entries
      /\ Suffix(Release(e, k).list, e.list, k)
      /\ Release(e, k) = [e EXCEPT !.up = Release(e, k).up, !.list = Release(e, k).list]
      /\ FramesOf(e.list) \cup FramesOf(e.up) \subseteq
           FramesOf(Release(e, k).list) \cup FramesOf(Release(e, k).up)
  BY <1>3, Released, ZenonT(30)
<1>6. start + k \in Int /\ (start + k) % M \in 0 .. M - 1
  <2>1. start + k \in Int
    BY <1>1, <1>3
  <2> QED BY <2>1, DivMod
<1>7. Release(e, k).LastIndSeq = start /\ (k = 0 => (start + k) % M = start)
  <2>1. Release(e, k).LastIndSeq = start
    BY <1>5, ZenonT(30) DEF Entries
  <2>2. start % M = start
    BY <1>1, Small
  <2> QED BY <1>1, <2>1, <2>2
<1> DEFINE rl == Release(e, k)
<1>8. r = [rl EXCEPT !.LastIndSeq = (start + k) % M]
  BY <1>4, <1>7
<1>9. Follows(r, e) /\ r.CurMpdu = e.CurMpdu /\ r.list = rl.list /\ r.LastIndSeq = (start + k) % M
  <2>1. /\ rl.status = e.status /\ rl.PreviousSN = e.PreviousSN
        /\ rl.PreviousAmsduState = e.PreviousAmsduState
        /\ rl.PreviousReorderCase = e.PreviousReorderCase
        /\ rl.CurMpdu = e.CurMpdu /\ rl.drop = e.drop /\ rl.dangling = e.dangling
    BY <1>5, ZenonT(30) DEF Entries
  <2> HIDE DEF rl
  <2>2. rl \in Entries
    BY <1>5 DEF rl
  <2>3. /\ r.status = rl.status /\ r.PreviousSN = rl.PreviousSN
        /\ r.PreviousAmsduState = rl.PreviousAmsduState
        /\ r.PreviousReorderCase = rl.PreviousReorderCase
        /\ r.CurMpdu = rl.CurMpdu /\ r.drop = rl.drop /\ r.dangling = rl.dangling
        /\ r.list = rl.list /\ r.up = rl.up /\ r.LastIndSeq = (start + k) % M /\ r \in Entries
    BY <1>6, <1>8, <2>2, ZenonT(30) DEF Entries
  <2>4. Suffix(r.list, e.list, k)
    BY <1>5, <2>3 DEF rl
  <2>5. FramesOf(e.list) \cup FramesOf(e.up) \subseteq FramesOf(r.list) \cup FramesOf(r.up)
    BY <1>5, <2>3 DEF rl
  <2> QED BY <2>1, <2>3, <2>4, <2>5 DEF Follows
<1>10. Suffix(r.list, e.list, k)
  BY <1>5, <1>9
<1>11. \A i \in DOMAIN e.list : Ahead(e.list[i], start) >= i
  BY <1>1, Places
<1>12. \A i \in DOMAIN e.list : Ahead(e.list[i], start) \in 1 .. hi /\ i \in 1 .. hi
  <2>1. ASSUME NEW i \in DOMAIN e.list PROVE Ahead(e.list[i], start) \in 1 .. hi
    BY DEF Sorted
  <2> QED BY <1>2, <1>11, <2>1
<1>13. hi \in Nat /\ hi < M /\ M \in Nat
  BY Numbering
<1>14. ASSUME NEW i \in 1 .. k PROVE Ahead(e.list[i], start) = i
  <2>1. i \in DOMAIN e.list /\ Seq_(e.list[i]) = (start + i) % M /\ e.list[i] \in Blocks
    BY <1>1, <1>2, <1>3
  <2>2. i \in 0 .. M - 1
    BY <1>12, <1>13, <2>1
  <2> QED BY <1>1, <2>1, <2>2, AheadIs
<1>15. \A i \in 1 .. k : Ahead(e.list[i], start) <= k
  BY <1>3, <1>14
<1>16. k \in 0 .. hi
  <2>1. CASE k = 0
    BY <2>1, <1>13
  <2>2. CASE k # 0
    <3>1. k \in DOMAIN e.list
      BY <1>2, <1>3, <2>2
    <3> QED BY <1>3, <1>12, <3>1
  <2> QED BY <2>1, <2>2
<1>17. k # 0 => \E i \in DOMAIN e.list : Ahead(e.list[i], start) = k
  <2>1. ASSUME k # 0 PROVE k \in 1 .. k /\ k \in DOMAIN e.list
    BY <1>2, <1>3, <2>1
  <2> QED BY <1>14, <2>1
<1>18. ASSUME NEW i \in k + 1 .. Len(e.list) PROVE Ahead(e.list[i], start) >= k + 2
  <2>1. k + 1 \in DOMAIN e.list /\ i \in DOMAIN e.list /\ k < Len(e.list)
    BY <1>2, <1>3, <1>18
  <2>2. Seq_(e.list[k + 1]) # (start + (k + 1)) % M /\ e.list[k + 1] \in Blocks
    BY <1>1, <1>3, <2>1
  <2>3. k + 1 \in 0 .. M - 1
    BY <1>12, <1>13, <2>1
  <2>4. Ahead(e.list[k + 1], start) # k + 1
    BY <1>1, <2>2, <2>3, AheadIs
  <2>5. Ahead(e.list[k + 1], start) >= k + 2
    BY <1>3, <1>11, <1>12, <2>1, <2>4
  <2>6. CASE i = k + 1
    BY <2>5, <2>6
  <2>7. CASE k + 1 < i
    <3>1. Ahead(e.list[k + 1], start) < Ahead(e.list[i], start)
      BY <2>1, <2>7 DEF Sorted
    <3> QED BY <1>3, <1>12, <2>1, <2>5, <3>1
  <2> QED BY <1>2, <1>3, <2>6, <2>7
<1> HIDE DEF start
<1> QED BY <1>9, <1>10, <1>15, <1>16, <1>17, <1>18 DEF r, start

\* ba_indicate_reordering_mpdus_le_seq: of blocks in order it releases those
\* that are not further ahead than the number.
LEMMA LeSeqDoes ==
  ASSUME NEW e \in Entries, Sorted(e.list, e.LastIndSeq, 2, BAWinSize), NEW K \in 0 .. Half
  PROVE  /\ Follows(LeSeq(e, (e.LastIndSeq + K) % M), e)
         /\ LeSeq(e, (e.LastIndSeq + K) % M).CurMpdu = e.CurMpdu
         /\ LeSeq(e, (e.LastIndSeq + K) % M).LastIndSeq = e.LastIndSeq
         /\ \E k : /\ Suffix(LeSeq(e, (e.LastIndSeq + K) % M).list, e.list, k)
                   /\ \A i \in 1 .. k : Ahead(e.list[i], e.LastIndSeq) <= K
                   /\ \A i \in k + 1 .. Len(e.list) : Ahead(e.list[i], e.LastIndSeq) >= K + 1
<1> DEFINE l == e.LastIndSeq
           seq == (l + K) % M
           stops == {i \in DOMAIN e.list :
                       Seq_(e.list[i]) # seq /\ ~SeqSmaller(Seq_(e.list[i]), seq)}
           k == Prefix(e, stops)
           r == LeSeq(e, seq)
<1>1. e.list \in Seq(Blocks) /\ l \in 0 .. M - 1 /\ l \in Int
  BY Numbering DEF Entries
<1>2. Len(e.list) \in Nat /\ DOMAIN e.list = 1 .. Len(e.list)
  BY <1>1
<1>3. /\ k \in 0 .. Len(e.list) /\ k \in Nat
      /\ \A i \in 1 .. k : i \notin stops
      /\ k < Len(e.list) => k + 1 \in stops
  <2>1. stops \in SUBSET DOMAIN e.list
    OBVIOUS
  <2> HIDE DEF stops
  <2> QED BY <1>2, <2>1, PrefixStops
<1>4. r = Release(e, k)
  BY SMTT(60) DEF LeSeq
<1> HIDE DEF k, r
<1>5. /\ r \in Entries
      /\ Suffix(r.list, e.list, k)
      /\ r = [e EXCEPT !.up = r.up, !.list = r.list]
      /\ FramesOf(e.list) \cup FramesOf(e.up) \subseteq FramesOf(r.list) \cup FramesOf(r.up)
  BY <1>3, <1>4, Released, ZenonT(30)
<1>6. /\ r.status = e.status /\ r.PreviousSN = e.PreviousSN
      /\ r.PreviousAmsduState = e.PreviousAmsduState
      /\ r.PreviousReorderCase = e.PreviousReorderCase
      /\ r.CurMpdu = e.CurMpdu /\ r.drop = e.drop /\ r.dangling = e.dangling
      /\ r.LastIndSeq = e.LastIndSeq
  BY <1>5, ZenonT(30) DEF Entries
<1>7. Follows(r, e)
  BY <1>5, <1>6 DEF Follows
<1>8. K \in 0 .. M - 1 /\ K \in Nat /\ M = 2 * Half /\ Half \in Nat /\ BAWinSize < Half /\ BAWinSize \in Nat
  BY Numbering
<1>9. ASSUME NEW i \in DOMAIN e.list
      PROVE  /\ Ahead(e.list[i], l) \in Int
             /\ i \in stops <=> Ahead(e.list[i], l) >= K + 1
  <2>1. e.list[i] \in Blocks /\ Ahead(e.list[i], l) \in 2 .. BAWinSize
    BY <1>1 DEF Sorted
  <2>2. Seq_(e.list[i]) = seq <=> Ahead(e.list[i], l) = K
    BY <1>1, <1>8, <2>1, AheadIs, ZenonT(30)
  <2>3. Ahead(e.list[i], seq) =
          IF Ahead(e.list[i], l) >= K THEN Ahead(e.list[i], l) - K
                                      ELSE (Ahead(e.list[i], l) - K) + M
    BY <1>1, <1>8, <2>1, AheadShift, ZenonT(30)
  <2>4. SeqSmaller(Seq_(e.list[i]), seq) <=> Ahead(e.list[i], seq) >= Half
    BY DEF SeqSmaller, Ahead, Half
  <2>5. Ahead(e.list[i], l) >= K => ~(Ahead(e.list[i], seq) >= Half)
    BY <1>8, <2>1, <2>3
  <2>6. ~(Ahead(e.list[i], l) >= K) => Ahead(e.list[i], seq) >= Half
    BY <1>8, <2>1, <2>3
  <2>7. Ahead(e.list[i], l) >= K + 1 <=> Ahead(e.list[i], l) >= K /\ Ahead(e.list[i], l) # K
    BY <1>8, <2>1
  <2> HIDE DEF seq
  <2> QED BY <2>1, <2>2, <2>4, <2>5, <2>6, <2>7
<1> HIDE DEF stops
<1>10. ASSUME NEW i \in 1 .. k PROVE Ahead(e.list[i], l) <= K
  <2>1. i \in DOMAIN e.list /\ i \notin stops
    BY <1>2, <1>3
  <2> QED BY <1>8, <1>9, <2>1
<1>11. ASSUME NEW i \in k + 1 .. Len(e.list) PROVE Ahead(e.list[i], l) >= K + 1
  <2>1. k + 1 \in DOMAIN e.list /\ i \in DOMAIN e.list /\ k + 1 \in stops
    BY <1>2, <1>3
  <2>2. Ahead(e.list[k + 1], l) >= K + 1
    BY <1>9, <2>1
  <2>3. CASE i = k + 1
    BY <2>2, <2>3
  <2>4. CASE k + 1 < i
    <3>1. Ahead(e.list[k + 1], l) < Ahead(e.list[i], l)
      BY <2>1, <2>4 DEF Sorted
    <3> QED BY <1>8, <1>9, <2>1, <2>2, <3>1
  <2> QED BY <1>2, <1>3, <2>3, <2>4
<1> HIDE DEF seq, l
<1> QED BY <1>5, <1>6, <1>7, <1>10, <1>11 DEF r, seq, l

\* The blocks left when the number moved from l by K, at least by K0: what is
\* left follows a gap, and K goes beyond K0 only for a block that was held.
Jump(l2, list, l, K0, K) ==
  /\ K \in K0 .. M - 1
  /\ K = K0 \/ \E i \in DOMAIN list : Ahead(list[i], l) = K
  /\ \E k : /\ Suffix(l2, list, k)
            /\ \A i \in 1 .. k : Ahead(list[i], l) <= K
            /\ \A i \in k + 1 .. Len(list) : Ahead(list[i], l) >= K + 2

\* A list that lost the blocks up to a new LastIndSeq is sorted ahead of it.
LEMMA JumpSorted ==
  ASSUME NEW list \in Seq(Blocks), NEW l \in 0 .. M - 1, NEW hi \in Nat, NEW l2,
         NEW K0 \in Nat, NEW K, Jump(l2, list, l, K0, K), Sorted(list, l, 1, hi)
  PROVE  Sorted(l2, (l + K) % M, 2, hi)
<1>1. PICK k : /\ Suffix(l2, list, k)
               /\ \A i \in k + 1 .. Len(list) : Ahead(list[i], l) >= K + 2
  BY DEF Jump
<1>2. Sorted(l2, l, 1, hi) /\ l2 \in Seq(Blocks)
  BY <1>1, SuffixSorted, ZenonT(30) DEF Suffix
<1>3. ASSUME NEW i \in DOMAIN l2 PROVE Ahead(l2[i], l) >= K + 2
  <2>1. i \in 1 .. Len(list) - k /\ k \in Nat /\ Len(list) \in Nat
    BY <1>1, <1>2 DEF Suffix
  <2>2. l2[i] = list[k + i] /\ k + i \in k + 1 .. Len(list)
    BY <1>1, <2>1 DEF Suffix
  <2> QED BY <1>1, <2>2
<1>4. K \in 0 .. M - 1 /\ K \in Nat
  BY Numbering DEF Jump
<1>5. Sorted(l2, (l + K) % M, 2, hi - K)
  BY <1>2, <1>3, <1>4, Rebase
<1>6. ASSUME NEW i \in DOMAIN l2 PROVE Ahead(l2[i], (l + K) % M) \in 2 .. hi
  <2>1. Ahead(l2[i], (l + K) % M) \in 2 .. hi - K
    BY <1>5 DEF Sorted
  <2> QED BY <1>4, <2>1
<1> QED BY <1>5, <1>6 DEF Sorted

\* Reducing a term of a sum first does not change the sum's remainder.
LEMMA ModAdd ==
  ASSUME NEW l \in Int, NEW a \in Int
  PROVE  ((l % M) + a) % M = (l + a) % M
<1> DEFINE r == l % M
           q == l \div M
           t == (r + a) % M
           p == (r + a) \div M
<1>1. q \in Int /\ r \in 0 .. M - 1 /\ r \in Int /\ M \in Int /\ l = M * q + r
  <2>1. q \in Int /\ r \in 0 .. M - 1 /\ l = M * q + r
    BY DivMod
  <2> HIDE DEF r, q
  <2> QED BY <2>1, Numbering
<1> HIDE DEF r, q
<1>2. p \in Int /\ t \in 0 .. M - 1 /\ t \in Int /\ r + a = M * p + t
  <2>1. r + a \in Int
    BY <1>1
  <2>2. p \in Int /\ t \in 0 .. M - 1 /\ r + a = M * p + t
    BY <2>1, DivMod
  <2> QED BY <1>1, <2>2
<1> HIDE DEF t, p
<1>3. M * (q + p) = M * q + M * p /\ M * q \in Int /\ M * p \in Int /\ q + p \in Int
  BY <1>1, <1>2, Distribute
<1>4. l + a = M * (q + p) + t
  BY <1>1, <1>2, <1>3
<1>5. (M * (q + p) + t) % M = t
  BY <1>2, <1>3, ModUnique, SMTT(60)
<1> QED BY <1>4, <1>5 DEF t, r

\* Everything up to a number K0 ahead goes up, then what follows without a gap.
LEMMA CatchUp ==
  ASSUME NEW e \in Entries, Sorted(e.list, e.LastIndSeq, 2, BAWinSize), NEW K0 \in 0 .. Half,
         NEW e1 \in Entries, e1.LastIndSeq = (e.LastIndSeq + K0) % M,
         e1.list = LeSeq(e, (e.LastIndSeq + K0) % M).list
  PROVE  /\ Follows(InOrder(e1, e1.LastIndSeq), e1)
         /\ InOrder(e1, e1.LastIndSeq).CurMpdu = e1.CurMpdu
         /\ Sorted(InOrder(e1, e1.LastIndSeq).list, InOrder(e1, e1.LastIndSeq).LastIndSeq,
                   2, BAWinSize)
         /\ \E K : /\ InOrder(e1, e1.LastIndSeq).LastIndSeq = (e.LastIndSeq + K) % M
                   /\ Jump(InOrder(e1, e1.LastIndSeq).list, e.list, e.LastIndSeq, K0, K)
<1> DEFINE l == e.LastIndSeq
           W == BAWinSize
           r == InOrder(e1, e1.LastIndSeq)
<1>1. e.list \in Seq(Blocks) /\ e1.list \in Seq(Blocks) /\ l \in 0 .. M - 1 /\ l \in Int
  BY Numbering DEF Entries
<1>2. Len(e.list) \in Nat /\ DOMAIN e.list = 1 .. Len(e.list)
  BY <1>1
<1>3. PICK k0 : /\ Suffix(e1.list, e.list, k0)
                /\ \A i \in 1 .. k0 : Ahead(e.list[i], l) <= K0
                /\ \A i \in k0 + 1 .. Len(e.list) : Ahead(e.list[i], l) >= K0 + 1
  BY LeSeqDoes
<1>4. /\ K0 \in 0 .. M - 1 /\ K0 \in Nat /\ W \in Nat /\ W < Half /\ M = 2 * Half /\ Half \in Nat
      /\ k0 \in Nat /\ k0 <= Len(e.list)
  BY <1>2, <1>3, Numbering DEF Suffix
<1>5. Sorted(e1.list, l, 2, W)
  BY <1>1, <1>3, SuffixSorted
<1>6. ASSUME NEW i \in DOMAIN e1.list
      PROVE  e1.list[i] = e.list[k0 + i] /\ k0 + i \in k0 + 1 .. Len(e.list)
  <2>1. i \in 1 .. Len(e.list) - k0
    BY <1>1, <1>3 DEF Suffix
  <2>2. e1.list[i] = e.list[k0 + i]
    BY <1>3, <2>1 DEF Suffix
  <2>3. k0 + i \in k0 + 1 .. Len(e.list)
    BY <1>2, <1>4, <2>1
  <2> QED BY <2>2, <2>3
<1>7. ASSUME NEW i \in DOMAIN e1.list PROVE Ahead(e1.list[i], l) >= K0 + 1
  BY <1>3, <1>6, <1>7
<1>8. Sorted(e1.list, e1.LastIndSeq, 1, W - K0)
  BY <1>1, <1>4, <1>5, <1>7, Rebase, ZenonT(30)
<1>9. Sorted(e1.list, e1.LastIndSeq, 1, W)
  <2>1. ASSUME NEW i \in DOMAIN e1.list PROVE Ahead(e1.list[i], e1.LastIndSeq) \in 1 .. W
    <3>1. Ahead(e1.list[i], e1.LastIndSeq) \in 1 .. W - K0
      BY <1>8 DEF Sorted
    <3> QED BY <1>4, <3>1
  <2> QED BY <1>8, <2>1 DEF Sorted
<1>10. /\ Follows(r, e1) /\ r.CurMpdu = e1.CurMpdu
       /\ \E k \in 0 .. W :
            /\ r.LastIndSeq = (e1.LastIndSeq + k) % M
            /\ k # 0 => \E i \in DOMAIN e1.list : Ahead(e1.list[i], e1.LastIndSeq) = k
            /\ Suffix(r.list, e1.list, k)
            /\ \A i \in 1 .. k : Ahead(e1.list[i], e1.LastIndSeq) <= k
            /\ \A i \in k + 1 .. Len(e1.list) : Ahead(e1.list[i], e1.LastIndSeq) >= k + 2
  <2>1. W \in 0 .. W
    BY <1>4
  <2> QED BY <1>9, <2>1, InOrderDoes, SMTT(60)
<1> HIDE DEF r
<1>11. PICK k \in 0 .. W :
         /\ r.LastIndSeq = (e1.LastIndSeq + k) % M
         /\ k # 0 => \E i \in DOMAIN e1.list : Ahead(e1.list[i], e1.LastIndSeq) = k
         /\ Suffix(r.list, e1.list, k)
         /\ \A i \in 1 .. k : Ahead(e1.list[i], e1.LastIndSeq) <= k
         /\ \A i \in k + 1 .. Len(e1.list) : Ahead(e1.list[i], e1.LastIndSeq) >= k + 2
  BY <1>10
<1> DEFINE K == K0 + k
<1>12. K \in K0 .. M - 1 /\ K \in Nat /\ k \in Nat
  BY <1>4
<1>13. r.LastIndSeq = (l + K) % M
  <2>1. l + K0 \in Int /\ k \in Int /\ (l + K0) + k = l + K
    BY <1>1, <1>4, <1>12
  <2>2. (((l + K0) % M) + k) % M = ((l + K0) + k) % M
    BY <2>1, ModAdd, ZenonT(30)
  <2> QED BY <1>11, <2>1, <2>2
<1>14. ASSUME NEW i \in DOMAIN e1.list
       PROVE  /\ Ahead(e1.list[i], l) \in Int
              /\ Ahead(e1.list[i], e1.LastIndSeq) = Ahead(e1.list[i], l) - K0
  <2>1. e1.list[i] \in Blocks /\ Ahead(e1.list[i], l) \in 2 .. W /\ Ahead(e1.list[i], l) >= K0 + 1
    BY <1>1, <1>5, <1>7 DEF Sorted
  <2>2. Ahead(e1.list[i], l) >= K0
    BY <1>4, <2>1
  <2>3. Ahead(e1.list[i], (l + K0) % M) =
          IF Ahead(e1.list[i], l) >= K0 THEN Ahead(e1.list[i], l) - K0
                                        ELSE (Ahead(e1.list[i], l) - K0) + M
    BY <1>1, <1>4, <2>1, AheadShift, ZenonT(30)
  <2> QED BY <2>1, <2>2, <2>3
<1>15. K = K0 \/ \E i \in DOMAIN e.list : Ahead(e.list[i], l) = K
  <2>1. CASE k = 0
    BY <1>4, <2>1
  <2>2. CASE k # 0
    <3>1. PICK i \in DOMAIN e1.list : Ahead(e1.list[i], e1.LastIndSeq) = k
      BY <1>11, <2>2
    <3>2. Ahead(e1.list[i], l) = K
      BY <1>4, <1>12, <1>14, <3>1
    <3>3. k0 + i \in DOMAIN e.list /\ e1.list[i] = e.list[k0 + i]
      BY <1>2, <1>4, <1>6
    <3> QED BY <3>2, <3>3
  <2> QED BY <2>1, <2>2
<1>16. Suffix(r.list, e.list, k0 + k)
  BY <1>1, <1>3, <1>11, SuffixTwice
<1>17. /\ Len(e1.list) = Len(e.list) - k0 /\ DOMAIN e1.list = 1 .. Len(e.list) - k0
       /\ k0 + k <= Len(e.list)
  <2>1. Len(e1.list) = Len(e.list) - k0
    BY <1>3 DEF Suffix
  <2>2. k0 + k \in 0 .. Len(e.list)
    BY <1>16 DEF Suffix
  <2> QED BY <1>1, <1>2, <1>4, <1>12, <2>1, <2>2, SMTT(60)
<1>18. ASSUME NEW i \in 1 .. k0 + k PROVE Ahead(e.list[i], l) <= K
  <2>0. e.list[i] \in Blocks /\ Ahead(e.list[i], l) \in Int
    <3>1. e.list[i] \in Blocks
      BY <1>1, <1>2, <1>4, <1>12, <1>17, SMTT(60)
    <3>2. Ahead(e.list[i], l) \in 0 .. M - 1
      BY <1>1, <3>1, AheadType, ZenonT(30)
    <3> QED BY <3>1, <3>2
  <2>1. CASE i <= k0
    <3>1. Ahead(e.list[i], l) <= K0
      BY <1>3, <1>4, <1>12, <2>1
    <3> QED BY <1>4, <1>12, <2>0, <3>1
  <2>2. CASE k0 < i
    <3>1. PICK j \in 1 .. k : i = k0 + j
      <4>1. i - k0 \in 1 .. k /\ i = k0 + (i - k0)
        BY <1>4, <1>12, <2>2
      <4> QED BY <4>1
    <3>2. j \in DOMAIN e1.list
      BY <1>2, <1>4, <1>12, <1>17
    <3>3. Ahead(e1.list[j], e1.LastIndSeq) <= k
      BY <1>11
    <3>4. Ahead(e1.list[j], l) <= K
      BY <1>4, <1>12, <1>14, <3>2, <3>3
    <3> QED BY <1>6, <3>1, <3>2, <3>4
  <2> QED BY <1>4, <1>12, <2>1, <2>2
<1>19. ASSUME NEW i \in (k0 + k) + 1 .. Len(e.list) PROVE Ahead(e.list[i], l) >= K + 2
  <2>1. PICK j \in k + 1 .. Len(e1.list) : i = k0 + j
    <3>1. i - k0 \in k + 1 .. Len(e1.list) /\ i = k0 + (i - k0)
      BY <1>2, <1>4, <1>12, <1>17
    <3> QED BY <3>1
  <2>2. j \in DOMAIN e1.list
    BY <1>2, <1>4, <1>12, <1>17
  <2>3. Ahead(e1.list[j], e1.LastIndSeq) >= k + 2
    BY <1>11
  <2>4. Ahead(e1.list[j], l) >= K + 2
    BY <1>4, <1>12, <1>14, <2>2, <2>3
  <2> QED BY <1>6, <2>1, <2>2, <2>4
<1>20. Jump(r.list, e.list, l, K0, K)
  <2> HIDE DEF K, l
  <2> QED BY <1>12, <1>15, <1>16, <1>18, <1>19 DEF Jump
<1>21. Sorted(e.list, l, 1, W)
  <2>1. ASSUME NEW i \in DOMAIN e.list PROVE Ahead(e.list[i], l) \in 1 .. W
    <3>1. Ahead(e.list[i], l) \in 2 .. W
      BY DEF Sorted
    <3> QED BY <1>4, <3>1
  <2> QED BY <2>1 DEF Sorted
<1>22. Sorted(r.list, r.LastIndSeq, 2, W)
  <2> HIDE DEF K, l
  <2> QED BY <1>1, <1>4, <1>13, <1>20, <1>21, JumpSorted
<1> HIDE DEF K
<1> QED BY <1>10, <1>13, <1>20, <1>22 DEF r

-------------------------------------------------------------------------------
(* The entry                                                               *)

\* WindowInv, of any entry.
Good(e) ==
  /\ e \in Entries
  /\ Sorted(e.list, e.LastIndSeq, 2, BAWinSize)
  /\ e.PreviousAmsduState = "FIRST" /\ e.PreviousReorderCase = "STEP_ONE" =>
       Sorted(e.list, e.PreviousSN, 1, BAWinSize)

\* An entry that follows a good one, with a sorted list, is good.
LEMMA FollowsGood ==
  ASSUME NEW e, Good(e), NEW r, Follows(r, e), Sorted(r.list, r.LastIndSeq, 2, BAWinSize)
  PROVE  Good(r)
<1>1. e.list \in Seq(Blocks)
  BY DEF Good, Entries
<1>2. PICK k : Suffix(r.list, e.list, k)
  BY DEF Follows
<1>3. Sorted(e.list, e.PreviousSN, 1, BAWinSize) => Sorted(r.list, e.PreviousSN, 1, BAWinSize)
  BY <1>1, <1>2, SuffixSorted
<1> QED BY <1>3 DEF Good, Follows

\* r differs from e in the number, the clock and CurMpdu only.
Kept(r, e) ==
  /\ r \in Entries
  /\ r.list = e.list /\ r.up = e.up /\ r.drop = e.drop /\ r.dangling = e.dangling
  /\ r.status = e.status /\ r.PreviousSN = e.PreviousSN
  /\ r.PreviousAmsduState = e.PreviousAmsduState
  /\ r.PreviousReorderCase = e.PreviousReorderCase

\* Changing only the number, the age or CurMpdu releases nothing.
LEMMA KeptFollows ==
  ASSUME NEW e \in Entries, NEW r, Kept(r, e), r.CurMpdu \in {e.CurMpdu, None}
  PROVE  Follows(r, e)
BY FollowsSelf DEF Kept, Follows

\* What storing LastIndSeq changes in an entry.
LEMMA SetNumber ==
  ASSUME NEW e \in Entries, NEW seq \in 0 .. M - 1
  PROVE  /\ Kept([e EXCEPT !.LastIndSeq = seq], e)
         /\ [e EXCEPT !.LastIndSeq = seq].LastIndSeq = seq
         /\ [e EXCEPT !.LastIndSeq = seq].CurMpdu = e.CurMpdu
BY ZenonT(30) DEF Kept, Entries

\* What restarting or advancing the timer changes in an entry.
LEMMA SetAge ==
  ASSUME NEW e \in Entries, NEW a \in 0 .. 2
  PROVE  /\ Kept([e EXCEPT !.age = a], e)
         /\ [e EXCEPT !.age = a].LastIndSeq = e.LastIndSeq
         /\ [e EXCEPT !.age = a].CurMpdu = e.CurMpdu
BY DEF Kept, Entries

\* What forgetting CurMpdu changes in an entry.
LEMMA SetCur ==
  ASSUME NEW e \in Entries
  PROVE  /\ Kept([e EXCEPT !.CurMpdu = None], e)
         /\ [e EXCEPT !.CurMpdu = None].LastIndSeq = e.LastIndSeq
         /\ [e EXCEPT !.CurMpdu = None].CurMpdu = None
BY DEF Kept, Entries

\* What storing LastIndSeq and restarting the timer changes in an entry.
LEMMA Restart ==
  ASSUME NEW e \in Entries, NEW seq \in 0 .. M - 1
  PROVE  /\ Kept([e EXCEPT !.LastIndSeq = seq, !.age = 0], e)
         /\ [e EXCEPT !.LastIndSeq = seq, !.age = 0].LastIndSeq = seq
         /\ [e EXCEPT !.LastIndSeq = seq, !.age = 0].CurMpdu = e.CurMpdu
<1> DEFINE r == [e EXCEPT !.LastIndSeq = seq]
<1>1. Kept(r, e) /\ r.LastIndSeq = seq /\ r.CurMpdu = e.CurMpdu
  BY SetNumber
<1> HIDE DEF r
<1>2. r \in Entries /\ 0 \in 0 .. 2
  BY <1>1 DEF Kept
<1>3. /\ Kept([r EXCEPT !.age = 0], r)
      /\ [r EXCEPT !.age = 0].LastIndSeq = seq /\ [r EXCEPT !.age = 0].CurMpdu = e.CurMpdu
  BY <1>1, <1>2, SetAge, ZenonT(30)
<1>4. [e EXCEPT !.LastIndSeq = seq, !.age = 0] = [r EXCEPT !.age = 0]
  BY DEF r
<1> QED BY <1>1, <1>3, <1>4 DEF Kept

\* What a move of the window forward by K0 numbers, as on a BAR or a surpassing
\* frame, does to an entry: it releases a prefix of the list and stays good.
LEMMA MoveToDoes ==
  ASSUME NEW e, Good(e), NEW K0 \in 0 .. Half
  PROVE  /\ Follows(MoveTo(e, (e.LastIndSeq + K0) % M), e)
         /\ Good(MoveTo(e, (e.LastIndSeq + K0) % M))
         /\ MoveTo(e, (e.LastIndSeq + K0) % M).CurMpdu = e.CurMpdu
         /\ \E K : /\ MoveTo(e, (e.LastIndSeq + K0) % M).LastIndSeq = (e.LastIndSeq + K) % M
                   /\ Jump(MoveTo(e, (e.LastIndSeq + K0) % M).list, e.list, e.LastIndSeq, K0, K)
<1> DEFINE seq == (e.LastIndSeq + K0) % M
           e0 == LeSeq(e, seq)
           e1 == [e0 EXCEPT !.LastIndSeq = seq, !.age = 0]
           r == MoveTo(e, seq)
<1>1. e \in Entries /\ Sorted(e.list, e.LastIndSeq, 2, BAWinSize)
  BY DEF Good
<1>2. Follows(e0, e) /\ e0.CurMpdu = e.CurMpdu
  BY <1>1, LeSeqDoes
<1>3. seq \in 0 .. M - 1
  <2>1. e.LastIndSeq + K0 \in Int
    BY <1>1, Numbering DEF Entries
  <2> QED BY <2>1, DivMod
<1>4. r = InOrder(e1, seq)
  BY DEF MoveTo
<1> HIDE DEF e0
<1>5. /\ e1 \in Entries /\ e1.list = e0.list /\ e1.LastIndSeq = seq /\ e1.CurMpdu = e0.CurMpdu
      /\ Follows(e1, e0)
  <2>1. e0 \in Entries
    BY <1>2, SMTT(60) DEF Follows
  <2>2. Kept(e1, e0) /\ e1.LastIndSeq = seq /\ e1.CurMpdu = e0.CurMpdu
    <3> HIDE DEF seq
    <3> QED BY <1>3, <2>1, Restart, ZenonT(30)
  <2> HIDE DEF e1
  <2> QED BY <2>1, <2>2, KeptFollows DEF Kept
<1> HIDE DEF e1, r
<1>6. /\ Follows(r, e1) /\ r.CurMpdu = e1.CurMpdu
      /\ Sorted(r.list, r.LastIndSeq, 2, BAWinSize)
      /\ \E K : /\ r.LastIndSeq = (e.LastIndSeq + K) % M
                /\ Jump(r.list, e.list, e.LastIndSeq, K0, K)
  BY <1>1, <1>4, <1>5, CatchUp DEF e0
<1>7. Follows(r, e)
  <2>1. Follows(e1, e)
    BY <1>1, <1>2, <1>5, FollowsTwice
  <2> QED BY <1>1, <1>6, <2>1, FollowsTwice
<1>8. Good(r)
  BY <1>6, <1>7, FollowsGood
<1> HIDE DEF seq
<1> QED BY <1>2, <1>5, <1>6, <1>7, <1>8 DEF r, seq

\* The empty list is sorted.
LEMMA EmptySorted ==
  ASSUME NEW l, NEW lo, NEW hi
  PROVE  Sorted(<<>>, l, lo, hi)
BY DEF Sorted

\* ba_refresh_reordering_mpdus releases everything.
LEMMA RefreshDoes ==
  ASSUME NEW e \in Entries
  PROVE  /\ Follows(Refresh(e), e) /\ Good(Refresh(e))
         /\ Refresh(e).list = <<>> /\ Refresh(e).CurMpdu = None
<1>1. e.list \in Seq(Blocks) /\ Len(e.list) \in Nat
  BY DEF Entries
<1> DEFINE rl == Release(e, Len(e.list))
           seq == IF e.list = <<>> THEN rl.LastIndSeq ELSE Seq_(e.list[Len(e.list)])
           r == Refresh(e)
<1>2. Len(e.list) \in 0 .. Len(e.list)
  BY <1>1, SMTT(60)
<1>3. /\ rl \in Entries
      /\ Suffix(rl.list, e.list, Len(e.list))
      /\ rl = [e EXCEPT !.up = rl.up, !.list = rl.list]
      /\ FramesOf(e.list) \cup FramesOf(e.up) \subseteq FramesOf(rl.list) \cup FramesOf(rl.up)
  BY <1>2, Released, ZenonT(30)
<1>4. r = [rl EXCEPT !.LastIndSeq = seq, !.CurMpdu = None]
  BY <1>3 DEF Refresh, Entries
<1> HIDE DEF rl
<1>5. rl.list = <<>>
  <2>1. Len(rl.list) = 0 /\ rl.list \in Seq(Blocks)
    BY <1>1, <1>3 DEF Suffix
  <2> QED BY <2>1
<1>6. seq \in 0 .. M - 1
  <2>1. rl.LastIndSeq \in 0 .. M - 1
    BY <1>3 DEF Entries
  <2>2. CASE e.list # <<>>
    <3>1. e.list[Len(e.list)] \in Blocks
      <4>1. Len(e.list) \in DOMAIN e.list
        BY <1>1, <2>2
      <4> QED BY <1>1, <4>1
    <3> QED BY <2>2, <3>1, BlockType
  <2> QED BY <2>1, <2>2
<1> HIDE DEF seq, r
<1>7. /\ r \in Entries /\ r.list = rl.list /\ r.up = rl.up /\ r.CurMpdu = None
      /\ r.status = rl.status /\ r.PreviousSN = rl.PreviousSN
      /\ r.PreviousAmsduState = rl.PreviousAmsduState
      /\ r.PreviousReorderCase = rl.PreviousReorderCase
      /\ r.drop = rl.drop /\ r.dangling = rl.dangling
  BY <1>3, <1>4, <1>6, ZenonT(30) DEF Entries, None
<1>8. /\ rl.status = e.status /\ rl.PreviousSN = e.PreviousSN
      /\ rl.PreviousAmsduState = e.PreviousAmsduState
      /\ rl.PreviousReorderCase = e.PreviousReorderCase
      /\ rl.drop = e.drop /\ rl.dangling = e.dangling
  BY <1>3, ZenonT(30) DEF Entries
<1>9. Follows(r, e)
  BY <1>3, <1>7, <1>8 DEF Follows
<1>10. Good(r)
  BY <1>5, <1>7, EmptySorted DEF Good
<1> QED BY <1>5, <1>7, <1>9, <1>10 DEF r

\* A change of the clock alone.
LEMMA AgeFollows ==
  ASSUME NEW e, Good(e), NEW a \in 0 .. 2
  PROVE  /\ Follows([e EXCEPT !.age = a], e) /\ Good([e EXCEPT !.age = a])
         /\ [e EXCEPT !.age = a].CurMpdu = e.CurMpdu
         /\ [e EXCEPT !.age = a].list = e.list
         /\ [e EXCEPT !.age = a].LastIndSeq = e.LastIndSeq
<1> DEFINE r == [e EXCEPT !.age = a]
<1>1. e \in Entries
  BY DEF Good
<1>2. Kept(r, e) /\ r.LastIndSeq = e.LastIndSeq /\ r.CurMpdu = e.CurMpdu
  BY <1>1, SetAge, ZenonT(30)
<1> HIDE DEF r
<1>3. Follows(r, e)
  BY <1>1, <1>2, KeptFollows
<1>4. Good(r)
  BY <1>2, <1>3, FollowsGood DEF Good, Kept
<1> QED BY <1>2, <1>3, <1>4 DEF r, Kept

\* ba_flush_reordering_timeout_mpdus
LEMMA TimeoutFlushDoes ==
  ASSUME NEW e, Good(e)
  PROVE  Follows(TimeoutFlush(e), e) /\ Good(TimeoutFlush(e))
<1>1. e \in Entries
  BY DEF Good
<1>2. CASE e.list # <<>> /\ e.age = 2
  <2>1. TimeoutFlush(e) = [Refresh(e) EXCEPT !.age = 0]
    BY <1>2 DEF TimeoutFlush
  <2>2. Follows(Refresh(e), e) /\ Good(Refresh(e))
    BY <1>1, RefreshDoes
  <2>3. Follows(TimeoutFlush(e), Refresh(e)) /\ Good(TimeoutFlush(e))
    <3>1. 0 \in 0 .. 2
      OBVIOUS
    <3> QED BY <2>1, <2>2, <3>1, AgeFollows, ZenonT(30)
  <2> QED BY <1>1, <2>2, <2>3, FollowsTwice
<1>3. CASE e.list # <<>> /\ e.age = 1
  <2>1. TimeoutFlush(e) = MoveTo(e, (e.LastIndSeq + 1) % M)
    BY <1>3 DEF TimeoutFlush
  <2>2. 1 \in 0 .. Half
    BY Numbering
  <2> QED BY <2>1, <2>2, MoveToDoes
<1>4. CASE ~(e.list # <<>> /\ e.age = 2) /\ ~(e.list # <<>> /\ e.age = 1)
  <2>1. TimeoutFlush(e) = e
    BY <1>4 DEF TimeoutFlush
  <2> QED BY <1>1, <2>1, FollowsSelf
<1> QED BY <1>2, <1>3, <1>4

\* amsdu_sanity: when the rest of an A-MSDU is missing, CurMpdu is forgotten
\* and, if its first part was in order, the number is its number.
LEMMA AmsduSanityDoes ==
  ASSUME NEW e, Good(e), NEW seq, NEW fmt
  PROVE  /\ Follows(AmsduSanity(e, seq, fmt), e) /\ Good(AmsduSanity(e, seq, fmt))
         /\ AmsduMiss(e, seq, fmt) => AmsduSanity(e, seq, fmt).CurMpdu = None
         /\ ~AmsduMiss(e, seq, fmt) => AmsduSanity(e, seq, fmt) = e
<1>1. e \in Entries
  BY DEF Good
<1>2. CASE ~AmsduMiss(e, seq, fmt)
  BY <1>1, <1>2, FollowsSelf DEF AmsduSanity
<1>3. CASE AmsduMiss(e, seq, fmt)
  <2> DEFINE r == AmsduSanity(e, seq, fmt)
             e1 == [e EXCEPT !.CurMpdu = None]
             e2 == [e1 EXCEPT !.LastIndSeq = e.PreviousSN, !.age = 0]
  <2>1. CASE e.PreviousReorderCase # "STEP_ONE"
    <3>1. r = e1
      BY <1>3, <2>1 DEF AmsduSanity
    <3>2. Kept(r, e) /\ r.LastIndSeq = e.LastIndSeq /\ r.CurMpdu = None
      BY <1>1, <3>1, SetCur
    <3> HIDE DEF r
    <3>3. Follows(r, e)
      BY <1>1, <3>2, KeptFollows
    <3>4. Good(r)
      BY <3>2, <3>3, FollowsGood DEF Good, Kept
    <3> QED BY <1>3, <3>2, <3>3, <3>4 DEF r
  <2>2. CASE e.PreviousReorderCase = "STEP_ONE"
    <3>1. r = InOrder(e2, e.PreviousSN)
      BY <1>3, <2>2 DEF AmsduSanity
    <3>2. Sorted(e.list, e.PreviousSN, 1, BAWinSize)
      BY <1>3, <2>2 DEF Good, AmsduMiss
    <3>3. Kept(e1, e) /\ e1.CurMpdu = None /\ e1 \in Entries
      BY <1>1, SetCur DEF Kept
    <3>4. /\ e2 \in Entries /\ e2.list = e.list /\ e2.LastIndSeq = e.PreviousSN
          /\ e2.CurMpdu = None /\ Follows(e2, e)
      <4>1. e.PreviousSN \in 0 .. M - 1
        BY <1>1, SMTT(60) DEF Entries
      <4> HIDE DEF e1
      <4>2. Kept(e2, e1) /\ e2.LastIndSeq = e.PreviousSN /\ e2.CurMpdu = None
        BY <3>3, <4>1, Restart, ZenonT(30)
      <4> HIDE DEF e2
      <4>3. Kept(e2, e)
        BY <3>3, <4>2 DEF Kept
      <4> QED BY <1>1, <4>2, <4>3, KeptFollows DEF Kept
    <3> HIDE DEF r, e2
    <3>5. BAWinSize \in 0 .. BAWinSize /\ BAWinSize \in Nat /\ BAWinSize < M
      BY Numbering
    <3>6. /\ Follows(r, e2) /\ r.CurMpdu = None
          /\ \E k \in 0 .. BAWinSize :
               /\ r.LastIndSeq = (e.PreviousSN + k) % M
               /\ k # 0 => \E i \in DOMAIN e.list : Ahead(e.list[i], e.PreviousSN) = k
               /\ Suffix(r.list, e.list, k)
               /\ \A i \in 1 .. k : Ahead(e.list[i], e.PreviousSN) <= k
               /\ \A i \in k + 1 .. Len(e.list) : Ahead(e.list[i], e.PreviousSN) >= k + 2
      BY <3>1, <3>2, <3>4, <3>5, InOrderDoes, ZenonT(30)
    <3>7. PICK k \in 0 .. BAWinSize :
               /\ r.LastIndSeq = (e.PreviousSN + k) % M
               /\ k # 0 => \E i \in DOMAIN e.list : Ahead(e.list[i], e.PreviousSN) = k
               /\ Suffix(r.list, e.list, k)
               /\ \A i \in 1 .. k : Ahead(e.list[i], e.PreviousSN) <= k
               /\ \A i \in k + 1 .. Len(e.list) : Ahead(e.list[i], e.PreviousSN) >= k + 2
      BY <3>6
    <3>8. k \in 0 .. M - 1
      BY <3>5, Numbering
    <3>9. Jump(r.list, e.list, e.PreviousSN, 0, k)
      BY <3>7, <3>8 DEF Jump
    <3>10. e.list \in Seq(Blocks) /\ e.PreviousSN \in 0 .. M - 1
      BY <1>1 DEF Entries
    <3>11. Sorted(r.list, r.LastIndSeq, 2, BAWinSize)
      BY <3>2, <3>5, <3>7, <3>9, <3>10, JumpSorted
    <3>12. Follows(r, e)
      BY <1>1, <3>4, <3>6, FollowsTwice
    <3>13. Good(r)
      BY <3>11, <3>12, FollowsGood
    <3> QED BY <1>3, <3>6, <3>12, <3>13 DEF r
  <2> QED BY <2>1, <2>2
<1> QED BY <1>2, <1>3

\* How far a number is ahead of another.
Dist(seq, l) == (seq - l) % M

\* The source's comparisons of sequence numbers as distances modulo M.
LEMMA DistFacts ==
  ASSUME NEW l \in 0 .. M - 1, NEW seq \in 0 .. M - 1
  PROVE  /\ Dist(seq, l) \in 0 .. M - 1
         /\ seq = (l + Dist(seq, l)) % M
         /\ seq = l <=> Dist(seq, l) = 0
         /\ StepOne(seq, l) <=> Dist(seq, l) = 1
         /\ SeqSmaller(seq, l) <=> Dist(seq, l) >= Half
<1>1. l \in Int /\ seq \in Int /\ seq - l \in Int /\ 0 \in 0 .. M - 1 /\ 1 \in 0 .. M - 1
  BY Numbering
<1>2. Dist(seq, l) \in 0 .. M - 1
  BY <1>1, DivMod DEF Dist
<1>3. seq = (l + Dist(seq, l)) % M
  BY <1>1, Same DEF Dist
<1>4. (((l + 1) % M) - l) % M = 1 /\ (((l + 0) % M) - l) % M = 0
  BY <1>1, Distance
<1>5. (l + 0) % M = l
  <2>1. l % M = l
    BY Small
  <2> QED BY <1>1, <2>1
<1>6. seq = l <=> Dist(seq, l) = 0
  BY <1>3, <1>4, <1>5 DEF Dist
<1>7. StepOne(seq, l) <=> Dist(seq, l) = 1
  BY <1>3, <1>4 DEF Dist, StepOne
<1>8. SeqSmaller(seq, l) <=> Dist(seq, l) >= Half
  BY DEF Dist, SeqSmaller, Half
<1> QED BY <1>2, <1>3, <1>6, <1>7, <1>8

\* The distance from a number moved forward by k.
LEMMA DistShift ==
  ASSUME NEW l \in 0 .. M - 1, NEW seq \in 0 .. M - 1, NEW k \in 0 .. M - 1
  PROVE  Dist(seq, (l + k) % M) =
           IF Dist(seq, l) >= k THEN Dist(seq, l) - k ELSE (Dist(seq, l) - k) + M
<1>1. l \in Int /\ seq \in Int
  BY Numbering
<1> QED BY <1>1, Shifted, ZenonT(30) DEF Dist

\* A frame is beyond the window when it is more than the window ahead, and
\* less than half of the numbers.
LEMMA SurpassesIs ==
  ASSUME NEW e \in Entries, NEW seq \in 0 .. M - 1
  PROVE  Surpasses(e, seq) <=>
           Dist(seq, e.LastIndSeq) > BAWinSize /\ Dist(seq, e.LastIndSeq) < Half
         /\ Dist(seq, e.LastIndSeq) > 1
<1> DEFINE l == e.LastIndSeq
           d == Dist(seq, l)
           end == (l + (BAWinSize + 1)) % M
<1>1. l \in 0 .. M - 1 /\ l \in Int
  BY Numbering DEF Entries
<1>2. /\ d \in 0 .. M - 1
      /\ seq = l <=> d = 0
      /\ StepOne(seq, l) <=> d = 1
      /\ SeqSmaller(seq, l) <=> d >= Half
  BY <1>1, DistFacts, ZenonT(30)
<1>3. /\ BAWinSize + 1 \in 0 .. M - 1 /\ BAWinSize \in Nat /\ M = 2 * Half /\ Half \in Nat
      /\ BAWinSize < Half
  BY Numbering
<1>4. end \in 0 .. M - 1 /\ (l + BAWinSize + 1) % M = end
  <2>1. l + (BAWinSize + 1) \in Int /\ l + BAWinSize + 1 = l + (BAWinSize + 1)
    BY <1>1, <1>3
  <2> QED BY <2>1, DivMod
<1>5. Dist(seq, end) =
        IF d >= BAWinSize + 1 THEN d - (BAWinSize + 1) ELSE (d - (BAWinSize + 1)) + M
  <2>1. BAWinSize + 1 \in 0 .. M - 1 /\ l \in 0 .. M - 1
    BY <1>1, <1>3
  <2> QED BY <2>1, DistShift, ZenonT(30)
<1>6. SeqSmaller(seq, end) <=> Dist(seq, end) >= Half
  BY <1>4, DistFacts, ZenonT(30)
<1> HIDE DEF d, end
<1>7. d < Half => (Dist(seq, end) >= Half <=> d <= BAWinSize)
  <2>1. CASE d >= BAWinSize + 1
    BY <1>2, <1>3, <1>5, <2>1
  <2>2. CASE ~(d >= BAWinSize + 1)
    BY <1>2, <1>3, <1>5, <2>2
  <2> QED BY <2>1, <2>2
<1>8. Surpasses(e, seq) <=> ~(d = 1) /\ ~(d = 0) /\ ~(d >= Half) /\ ~SeqSmaller(seq, end)
  BY <1>2, <1>4 DEF Surpasses
<1>9. Surpasses(e, seq) <=> ~(d = 1) /\ ~(d = 0) /\ ~(d >= Half) /\ ~(Dist(seq, end) >= Half)
  BY <1>6, <1>8
<1>10. Surpasses(e, seq) <=> ~(d = 1) /\ ~(d = 0) /\ ~(d >= Half) /\ ~(d <= BAWinSize)
  <2>1. ~(d >= Half) <=> d < Half
    BY <1>2, <1>3
  <2> QED BY <1>7, <1>9, <2>1
<1>11. ~(d = 1) /\ ~(d = 0) /\ ~(d >= Half) /\ ~(d <= BAWinSize) <=>
         d > BAWinSize /\ d < Half /\ d > 1
  BY <1>2, <1>3
<1> QED BY <1>10, <1>11 DEF d

\* A frame beyond the window moves the window so that it is within.
LEMMA ShiftDoes ==
  ASSUME NEW e, Good(e), NEW seq \in 0 .. M - 1, Surpasses(e, seq)
  PROVE  /\ Follows(Shift(e, seq), e) /\ Good(Shift(e, seq))
         /\ Shift(e, seq).CurMpdu = e.CurMpdu
         /\ ~Surpasses(Shift(e, seq), seq)
<1> DEFINE l == e.LastIndSeq
           W == BAWinSize
           d == Dist(seq, l)
           K0 == d - W
           r == Shift(e, seq)
<1>1. e \in Entries /\ l \in 0 .. M - 1 /\ l \in Int
  BY Numbering DEF Good, Entries
<1>2. d \in 0 .. M - 1 /\ seq = (l + d) % M
  BY <1>1, DistFacts
<1>3. d > W /\ d < Half
  BY <1>1, SurpassesIs
<1> HIDE DEF d
<1>4. /\ W \in Nat /\ W >= 1 /\ W < Half /\ Half \in Nat /\ M \in Nat /\ M = 2 * Half
      /\ d \in Int /\ K0 \in 0 .. Half /\ K0 \in Nat /\ K0 < d
  BY <1>2, <1>3, Numbering
<1>5. (seq - W) % M = (l + K0) % M
  <2>1. l + d \in Int /\ 0 - W \in Int /\ (l + d) + (0 - W) = l + K0
    BY <1>1, <1>4
  <2>2. (((l + d) % M) + (0 - W)) % M = (l + K0) % M
    BY <2>1, ModAdd, ZenonT(30)
  <2>3. seq - W = seq + (0 - W)
    BY <1>4
  <2> QED BY <1>2, <2>2, <2>3
<1>6. r = MoveTo(e, (l + K0) % M)
  BY <1>5 DEF Shift
<1> HIDE DEF r, K0
<1>7. /\ Follows(r, e) /\ Good(r) /\ r.CurMpdu = e.CurMpdu
      /\ \E K : r.LastIndSeq = (l + K) % M /\ Jump(r.list, e.list, l, K0, K)
  BY <1>4, <1>6, MoveToDoes
<1>8. PICK K : r.LastIndSeq = (l + K) % M /\ Jump(r.list, e.list, l, K0, K)
  BY <1>7
<1>9. K \in K0 .. M - 1 /\ K \in 0 .. M - 1 /\ (K = K0 \/ K <= W)
  <2>1. K \in K0 .. M - 1
    BY <1>8 DEF Jump
  <2>2. CASE K # K0
    <3>1. PICK i \in DOMAIN e.list : Ahead(e.list[i], l) = K
      BY <1>8, <2>2 DEF Jump
    <3>2. Ahead(e.list[i], l) \in 2 .. W
      BY DEF Good, Sorted
    <3> QED BY <1>4, <2>1, <3>1, <3>2
  <2> QED BY <1>4, <2>1, <2>2
<1>10. Dist(seq, r.LastIndSeq) = d - K
  <2>1. d >= K
    BY <1>3, <1>4, <1>9
  <2>2. Dist(seq, (l + K) % M) = IF d >= K THEN d - K ELSE (d - K) + M
    BY <1>1, <1>9, DistShift DEF d
  <2> QED BY <1>8, <2>1, <2>2
<1>11. ~(Dist(seq, r.LastIndSeq) > W)
  BY <1>4, <1>9, <1>10 DEF K0
<1>12. r \in Entries
  BY <1>7 DEF Good
<1>13. ~Surpasses(r, seq)
  BY <1>11, <1>12, SurpassesIs
<1> QED BY <1>7, <1>13 DEF r

\* bar_process
LEMMA BarDoes ==
  ASSUME NEW e, Good(e), NEW start \in 0 .. M - 1
  PROVE  Follows(Bar(e, start), e) /\ Good(Bar(e, start)) /\ Bar(e, start).CurMpdu = e.CurMpdu
<1> DEFINE l == e.LastIndSeq
           d == Dist(start, l)
           K0 == d - 1
           r == Bar(e, start)
<1>1. e \in Entries /\ l \in 0 .. M - 1 /\ l \in Int
  BY Numbering DEF Good, Entries
<1>2. CASE ~SeqSmaller(l, start)
  <2>1. r = e
    BY <1>2 DEF Bar
  <2> QED BY <1>1, <2>1, FollowsSelf
<1>3. CASE SeqSmaller(l, start)
  <2>1. d \in 0 .. M - 1 /\ start = (l + d) % M
    BY <1>1, DistFacts
  <2>2. Dist(l, start) >= Half
    BY <1>1, <1>3, DistFacts
  <2>3. Dist(l, l) = 0
    BY <1>1, DistFacts, ZenonT(30)
  <2> HIDE DEF d
  <2>4. Dist(l, (l + d) % M) = IF Dist(l, l) >= d THEN Dist(l, l) - d ELSE (Dist(l, l) - d) + M
    BY <1>1, <2>1, DistShift
  <2>5. Half \in Nat /\ M = 2 * Half /\ M >= 4
    BY Numbering
  <2>6. d \in Int /\ K0 \in 0 .. Half
    BY <2>1, <2>2, <2>3, <2>4, <2>5
  <2>7. (start - 1) % M = (l + K0) % M
    <3>1. l + d \in Int /\ 0 - 1 \in Int /\ (l + d) + (0 - 1) = l + K0
      BY <1>1, <2>6
    <3>2. (((l + d) % M) + (0 - 1)) % M = (l + K0) % M
      BY <3>1, ModAdd, ZenonT(30)
    <3>3. start - 1 = start + (0 - 1)
      BY <2>5
    <3> QED BY <2>1, <3>2, <3>3
  <2>8. r = MoveTo(e, (l + K0) % M)
    BY <1>3, <2>7 DEF Bar
  <2> QED BY <2>6, <2>8, MoveToDoes
<1> QED BY <1>2, <1>3
===============================================================================
