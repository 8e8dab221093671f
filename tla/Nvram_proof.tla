----------------------------- MODULE Nvram_proof -----------------------------
(***************************************************************************)
(* Proofs about the nvram tool, for any number of commands at once and     *)
(* images of any size: images stay sound, no staging file stays empty, and *)
(* commands that do not overlap leave whole images.                        *)
(***************************************************************************)
EXTENDS Nvram, FiniteSetTheorems, WellFoundedInduction, TLAPS

-------------------------------------------------------------------------------
(* Induction over the natural numbers, with a set for the property, and    *)
(* functions defined by recursion.                                         *)

\* A set of natural numbers has a least one.
LEMMA Least ==
  ASSUME NEW T, T \subseteq Nat, T # {}
  PROVE  \E x \in T : \A y \in T : x <= y
<1>2. PICK x \in T : \A y \in T : <<y, x>> \notin OpToRel(<, Nat)
  BY WFMin, NatLessThanWellFounded, ZenonT(30)
<1>3. ASSUME NEW y \in T PROVE x <= y
  <2>1. <<y, x>> \notin OpToRel(<, Nat)
    BY <1>2, ZenonT(30)
  <2>2. ~(y < x)
    BY <2>1 DEF OpToRel
  <2> QED BY <2>2
<1> QED BY <1>3

\* A set that holds 0 and, with n, holds n + 1 holds every natural number.
LEMMA Induct ==
  ASSUME NEW T, 0 \in T, \A n \in Nat : n \in T => n + 1 \in T
  PROVE  Nat \subseteq T
<1> SUFFICES ASSUME Nat \ T # {} PROVE FALSE
  OBVIOUS
<1>1. PICK x \in Nat \ T : \A y \in Nat \ T : x <= y
  BY Least, ZenonT(30)
<1>2. x - 1 \in Nat /\ x - 1 \in T
  BY <1>1
<1> QED BY <1>1, <1>2

\* The values of a function defined by recursion, up to n.
Upto(S, b, step, n, g) ==
  /\ g \in [0 .. n -> S]
  /\ g[0] = b
  /\ \A i \in 0 .. n - 1 : g[i + 1] = step[<<i, g[i]>>]

\* A recursive definition has a solution on every initial segment.
LEMMA UptoExists ==
  ASSUME NEW S, NEW b \in S, NEW step \in [Nat \X S -> S]
  PROVE  \A n \in Nat : \E g : Upto(S, b, step, n, g)
<1> DEFINE T == {n \in Nat : \E g : Upto(S, b, step, n, g)}
<1>1. 0 \in T
  <2> DEFINE g == [i \in 0 .. 0 |-> b]
  <2>1. Upto(S, b, step, 0, g)
    BY DEF Upto
  <2> QED BY <2>1
<1>2. ASSUME NEW n \in Nat, n \in T PROVE n + 1 \in T
  <2>1. PICK g : Upto(S, b, step, n, g)
    BY <1>2
  <2>2. g[n] \in S
    BY <2>1 DEF Upto
  <2>3. step[<<n, g[n]>>] \in S
    BY <2>2
  <2> DEFINE h == [i \in 0 .. n + 1 |-> IF i <= n THEN g[i] ELSE step[<<n, g[n]>>]]
  <2>4. h \in [0 .. n + 1 -> S]
    BY <2>1, <2>3 DEF Upto
  <2>5. h[0] = b
    BY <2>1 DEF Upto
  <2>6. \A i \in 0 .. (n + 1) - 1 : h[i + 1] = step[<<i, h[i]>>]
    <3>0. (n + 1) - 1 = n
      OBVIOUS
    <3> SUFFICES ASSUME NEW i \in 0 .. n PROVE h[i + 1] = step[<<i, h[i]>>]
      <4> HIDE DEF h
      <4> QED BY <3>0
    <3>1. CASE i < n
      <4>1. i \in 0 .. n - 1 /\ i + 1 \in 0 .. n + 1 /\ i + 1 <= n /\ i <= n
        BY <3>1
      <4> QED BY <2>1, <4>1 DEF Upto
    <3>2. CASE i = n
      BY <3>2, SMTT(60)
    <3> QED BY <3>1, <3>2
  <2>7. Upto(S, b, step, n + 1, h)
    <3> HIDE DEF h
    <3> QED BY <2>4, <2>5, <2>6 DEF Upto
  <2> QED BY <2>7
<1>3. Nat \subseteq T
  <2> HIDE DEF T
  <2> QED BY <1>1, <1>2, Induct
<1> QED BY <1>3

\* Two solutions agree where both are defined.
LEMMA UptoSame ==
  ASSUME NEW S, NEW b \in S, NEW step \in [Nat \X S -> S], NEW n \in Nat, NEW m \in Nat, n <= m
  PROVE  \A g, h : Upto(S, b, step, n, g) /\ Upto(S, b, step, m, h) =>
           \A i \in 0 .. n : g[i] = h[i]
<1> SUFFICES ASSUME NEW g, NEW h, Upto(S, b, step, n, g), Upto(S, b, step, m, h)
             PROVE  \A i \in 0 .. n : g[i] = h[i]
  OBVIOUS
<1> DEFINE T == {i \in Nat : i <= n => g[i] = h[i]}
<1>1. 0 \in T
  BY DEF Upto
<1>2. ASSUME NEW i \in Nat, i \in T PROVE i + 1 \in T
  <2> SUFFICES ASSUME i + 1 <= n PROVE g[i + 1] = h[i + 1]
    OBVIOUS
  <2>1. i \in 0 .. n - 1 /\ i \in 0 .. m - 1 /\ g[i] = h[i]
    BY <1>2
  <2> QED BY <2>1, ZenonT(30) DEF Upto
<1>3. Nat \subseteq T
  <2> HIDE DEF T
  <2> QED BY <1>1, <1>2, Induct
<1> QED BY <1>3

\* f is what the recursion from b along step defines.
Recursive(S, b, step, f) ==
  /\ f \in [Nat -> S]
  /\ f[0] = b
  /\ \A i \in Nat : f[i + 1] = step[<<i, f[i]>>]

\* Recursion over the natural numbers defines a function.
LEMMA Recursion ==
  ASSUME NEW S, NEW b \in S, NEW step \in [Nat \X S -> S]
  PROVE  \E f : Recursive(S, b, step, f)
<1> DEFINE G(n) == CHOOSE g : Upto(S, b, step, n, g)
           f == [n \in Nat |-> G(n)[n]]
<1>1. \A n \in Nat : Upto(S, b, step, n, G(n))
  BY UptoExists
<1> HIDE DEF G
<1>2. \A n \in Nat : G(n)[n] \in S
  BY <1>1 DEF Upto
<1>3. f \in [Nat -> S]
  BY <1>2
<1>4. f[0] = b
  BY <1>1 DEF Upto
<1>5. ASSUME NEW i \in Nat PROVE f[i + 1] = step[<<i, f[i]>>]
  <2>1. Upto(S, b, step, i, G(i)) /\ Upto(S, b, step, i + 1, G(i + 1))
    BY <1>1
  <2>2. G(i)[i] = G(i + 1)[i]
    <3>1. i + 1 \in Nat /\ i <= i + 1 /\ i \in 0 .. i
      OBVIOUS
    <3> DEFINE k == i + 1
               g == G(i)
               h == G(k)
    <3>2. /\ k \in Nat /\ i <= k
          /\ Upto(S, b, step, i, g) /\ Upto(S, b, step, k, h)
      BY <2>1
    <3>3. \A j \in 0 .. i : g[j] = h[j]
      <4> HIDE DEF k
      <4>1. \A x, y : Upto(S, b, step, i, x) /\ Upto(S, b, step, k, y) =>
              \A j \in 0 .. i : x[j] = y[j]
        BY <3>2, UptoSame
      <4> HIDE DEF g, h
      <4> QED BY <3>2, <4>1, ZenonT(30)
    <3> QED BY <3>1, <3>3
  <2>3. G(i + 1)[i + 1] = step[<<i, G(i + 1)[i]>>]
    BY <2>1 DEF Upto
  <2> QED BY <2>2, <2>3
<1> HIDE DEF f
<1> QED BY <1>3, <1>4, <1>5 DEF Recursive

\* g is what the recursion from b along body defines on 0 .. m.
Below(S, b, body, m, g) ==
  /\ g \in [0 .. m -> S]
  /\ \A k \in 0 .. m : g[k] = IF k = 0 THEN b ELSE body[<<k, g[k - 1]>>]

\* A function on 0 .. m defined by recursion.
LEMMA Bounded ==
  ASSUME NEW S, NEW b \in S, NEW m \in Nat, NEW body \in [(1 .. m) \X S -> S]
  PROVE  \E g : Below(S, b, body, m, g)
<1> DEFINE step == [x \in Nat \X S |-> IF x[1] < m THEN body[<<x[1] + 1, x[2]>>] ELSE x[2]]
<1>0. step \in [Nat \X S -> S]
  <2> SUFFICES ASSUME NEW i \in Nat, NEW s \in S
               PROVE  (IF i < m THEN body[<<i + 1, s>>] ELSE s) \in S
    OBVIOUS
  <2>1. i < m => i + 1 \in 1 .. m
    OBVIOUS
  <2> QED BY <2>1
<1>1. PICK f : Recursive(S, b, step, f)
  <2> HIDE DEF step
  <2> QED BY <1>0, Recursion, ZenonT(30)
<1>2. f \in [Nat -> S] /\ f[0] = b /\ \A i \in Nat : f[i + 1] = step[<<i, f[i]>>]
  BY <1>1, ZenonT(30) DEF Recursive
<1> DEFINE g == [k \in 0 .. m |-> f[k]]
<1>3. g \in [0 .. m -> S]
  <2> HIDE DEF step
  <2>1. \A k \in 0 .. m : k \in Nat /\ f[k] \in S
    BY <1>2
  <2> QED BY <2>1
<1>4. ASSUME NEW k \in 0 .. m
      PROVE  g[k] = IF k = 0 THEN b ELSE body[<<k, g[k - 1]>>]
  <2>1. CASE k = 0
    <3> HIDE DEF step
    <3> QED BY <1>2, <2>1
  <2>2. CASE k # 0
    <3>1. k - 1 \in Nat /\ k - 1 \in 0 .. m /\ (k - 1) + 1 = k /\ k - 1 < m
      BY <2>2
    <3>2. f[k - 1] \in S
      <4> HIDE DEF step
      <4> QED BY <1>2, <3>1
    <3>3. step[<<k - 1, f[k - 1]>>] = body[<<k, f[k - 1]>>]
      BY <3>1, <3>2
    <3>4. f[k] = step[<<k - 1, f[k - 1]>>]
      <4> HIDE DEF step
      <4> QED BY <1>2, <3>1
    <3> QED BY <2>2, <3>1, <3>3, <3>4
  <2> QED BY <2>1, <2>2
<1> HIDE DEF g
<1> QED BY <1>3, <1>4 DEF Below

-------------------------------------------------------------------------------
(* The hash table                                                          *)

Pairs == Names \X Values
Tables == [Buckets -> Seq(Pairs)]

\* Find returns a position in the chain that holds the name.
LEMMA FindFirst ==
  ASSUME NEW chain \in Seq(Pairs), NEW n, \E i \in DOMAIN chain : chain[i][1] = n
  PROVE  Find(chain, n) \in DOMAIN chain /\ chain[Find(chain, n)][1] = n
<1> DEFINE T == {i \in DOMAIN chain : chain[i][1] = n}
<1>1. T \subseteq Nat /\ T # {} /\ DOMAIN chain = 1 .. Len(chain) /\ Len(chain) \in Nat
  OBVIOUS
<1>2. PICK x \in T : \A y \in T : x <= y
  BY <1>1, Least, ZenonT(30)
<1>3. x \in DOMAIN chain /\ chain[x][1] = n
  BY <1>2
<1>4. \A j \in 1 .. x - 1 : chain[j][1] # n
  <2> SUFFICES ASSUME NEW j \in 1 .. x - 1, chain[j][1] = n PROVE FALSE
    OBVIOUS
  <2>1. j \in T
    BY <1>1, <1>3
  <2> QED BY <1>1, <1>2, <2>1
<1>5. \E i \in DOMAIN chain : chain[i][1] = n /\ \A j \in 1 .. i - 1 : chain[j][1] # n
  BY <1>3, <1>4
<1> QED BY <1>5 DEF Find

\* A chain that replaces one of a sound table.
LEMMA ReplaceChain ==
  ASSUME NEW table \in Tables, TableSound(table), NEW b \in Buckets, NEW chain \in Seq(Pairs),
         ChainSound(b, chain)
  PROVE  [table EXCEPT ![b] = chain] \in Tables /\ TableSound([table EXCEPT ![b] = chain])
<1> DEFINE new == [table EXCEPT ![b] = chain]
<1>1. new \in Tables
  BY DEF Tables
<1>2. new[b] = chain /\ \A c \in Buckets \ {b} : new[c] = table[c]
  BY DEF Tables
<1> HIDE DEF new
<1>3. ASSUME NEW c \in Buckets PROVE ChainSound(c, new[c])
  BY <1>2 DEF TableSound
<1>4. TableSound(new)
  BY <1>3 DEF TableSound
<1> QED BY <1>1, <1>4 DEF new

\* nvram_set returns a table.
LEMMA SetType ==
  ASSUME NEW table \in Tables, NEW n \in Names, NEW v \in Values
  PROVE  nvram_set(table, n, v) \in Tables
<1> DEFINE b == Bucket[n]
           chain == table[b]
           k == Find(chain, n)
<1>1. b \in Buckets /\ chain \in Seq(Pairs) /\ <<n, v>> \in Pairs
  BY TableAssumption DEF Tables, Pairs
<1>2. ASSUME NEW new \in Seq(Pairs) PROVE [table EXCEPT ![b] = new] \in Tables
  BY <1>1 DEF Tables
<1>3. CASE ValLen[v] + 1 > Space
  BY <1>3 DEF nvram_set
<1>4. CASE ~(ValLen[v] + 1 > Space) /\ Has(table, n)
  <2>1. [chain EXCEPT ![k] = <<n, v>>] \in Seq(Pairs)
    <3>1. k \in DOMAIN chain
      BY <1>1, <1>4, FindFirst DEF Has
    <3> QED BY <1>1, <3>1
  <2>2. nvram_set(table, n, v) = [table EXCEPT ![b] = [chain EXCEPT ![k] = <<n, v>>]]
    BY <1>4 DEF nvram_set
  <2> QED BY <1>2, <2>1, <2>2, ZenonT(30)
<1>5. CASE ~(ValLen[v] + 1 > Space) /\ ~Has(table, n)
  <2>1. <<<<n, v>>>> \o chain \in Seq(Pairs)
    BY <1>1
  <2>2. nvram_set(table, n, v) = [table EXCEPT ![b] = <<<<n, v>>>> \o chain]
    BY <1>5 DEF nvram_set
  <2> QED BY <1>2, <2>1, <2>2, ZenonT(30)
<1> QED BY <1>3, <1>4, <1>5

\* nvram_set keeps every name in its own bucket, and there only once.
LEMMA SetSound ==
  ASSUME NEW table \in Tables, TableSound(table), NEW n \in Names, NEW v \in Values
  PROVE  nvram_set(table, n, v) \in Tables /\ TableSound(nvram_set(table, n, v))
<1> DEFINE b == Bucket[n]
           chain == table[b]
           k == Find(chain, n)
<1>1. b \in Buckets /\ chain \in Seq(Pairs) /\ <<n, v>> \in Pairs
  BY TableAssumption DEF Tables, Pairs
<1>2. DOMAIN chain = 1 .. Len(chain) /\ Len(chain) \in Nat
  BY <1>1
<1>3. /\ \A i \in DOMAIN chain : Bucket[chain[i][1]] = b
      /\ \A i, j \in DOMAIN chain : chain[i][1] = chain[j][1] => i = j
  BY <1>1 DEF TableSound, ChainSound
<1>4. <<n, v>>[1] = n
  OBVIOUS
<1>5. CASE ValLen[v] + 1 > Space
  BY <1>5 DEF nvram_set
<1>6. CASE ~(ValLen[v] + 1 > Space) /\ Has(table, n)
  <2> DEFINE new == [chain EXCEPT ![k] = <<n, v>>]
  <2>1. k \in DOMAIN chain /\ chain[k][1] = n
    BY <1>1, <1>6, FindFirst DEF Has
  <2>2. new \in Seq(Pairs) /\ DOMAIN new = DOMAIN chain
    BY <1>1, <2>1
  <2>3. \A i \in DOMAIN new : new[i][1] = chain[i][1]
    BY <1>4, <2>1
  <2>4. nvram_set(table, n, v) = [table EXCEPT ![b] = new]
    BY <1>6 DEF nvram_set
  <2> HIDE DEF new, chain, b, k
  <2>5. ChainSound(b, new)
    BY <1>3, <2>2, <2>3 DEF ChainSound
  <2> QED BY <1>1, <2>2, <2>4, <2>5, ReplaceChain, ZenonT(30)
<1>7. CASE ~(ValLen[v] + 1 > Space) /\ ~Has(table, n)
  <2> DEFINE new == <<<<n, v>>>> \o chain
  <2>1. \A i \in DOMAIN chain : chain[i][1] # n
    BY <1>7 DEF Has
  <2>2. nvram_set(table, n, v) = [table EXCEPT ![b] = new]
    BY <1>7 DEF nvram_set
  <2> HIDE DEF chain
  <2>3. new \in Seq(Pairs) /\ Len(new) = Len(chain) + 1
    BY <1>1
  <2>4. new[1] = <<n, v>> /\ \A i \in 2 .. Len(chain) + 1 : new[i] = chain[i - 1]
    BY <1>1
  <2>5. DOMAIN new = 1 .. Len(chain) + 1
    BY <2>3
  <2> HIDE DEF new, b
  <2>6. \A i \in DOMAIN new : i = 1 \/ (i \in 2 .. Len(chain) + 1 /\ i - 1 \in DOMAIN chain)
    BY <1>2, <2>5
  <2>7. b = Bucket[n]
    BY DEF b
  <2>8. \A i \in DOMAIN new : Bucket[new[i][1]] = b
    BY <1>3, <1>4, <2>4, <2>6, <2>7, SMTT(60)
  <2>9. ASSUME NEW i \in DOMAIN new, NEW j \in DOMAIN new, new[i][1] = new[j][1] PROVE i = j
    BY <1>2, <1>3, <1>4, <2>1, <2>4, <2>6, <2>9, SMTT(60)
  <2>10. ChainSound(b, new)
    BY <2>8, <2>9 DEF ChainSound
  <2> QED BY <1>1, <2>2, <2>3, <2>10, ReplaceChain, ZenonT(30)
<1> QED BY <1>5, <1>6, <1>7

\* Joining two chains, as the removal from a bucket does.
LEMMA Joined ==
  ASSUME NEW S, NEW a \in Seq(S), NEW b \in Seq(S)
  PROVE  a \o b \in Seq(S) /\ Len(a \o b) = Len(a) + Len(b)
OBVIOUS

\* nvram_unset keeps every name in its own bucket, and there only once.
LEMMA UnsetSound ==
  ASSUME NEW table \in Tables, TableSound(table), NEW n \in Names
  PROVE  nvram_unset(table, n) \in Tables /\ TableSound(nvram_unset(table, n))
<1> DEFINE b == Bucket[n]
           chain == table[b]
           k == Find(chain, n)
           new == RemoveAt(chain, k)
<1>1. b \in Buckets /\ chain \in Seq(Pairs)
  BY TableAssumption DEF Tables, Pairs
<1>2. DOMAIN chain = 1 .. Len(chain) /\ Len(chain) \in Nat
  BY <1>1
<1>3. /\ \A i \in DOMAIN chain : Bucket[chain[i][1]] = b
      /\ \A i, j \in DOMAIN chain : chain[i][1] = chain[j][1] => i = j
  BY <1>1 DEF TableSound, ChainSound
<1>4. CASE ~Has(table, n)
  BY <1>4 DEF nvram_unset
<1>5. CASE Has(table, n)
  <2>1. k \in DOMAIN chain
    BY <1>1, <1>5, FindFirst DEF Has
  <2>2. nvram_unset(table, n) = [table EXCEPT ![b] = new]
    BY <1>5 DEF nvram_unset
  <2> HIDE DEF chain, k
  <2>3. /\ new \in Seq(Pairs) /\ Len(new) = Len(chain) - 1
        /\ \A i \in 1 .. Len(chain) - 1 : new[i] = chain[IF i < k THEN i ELSE i + 1]
    <3> DEFINE front == SubSeq(chain, 1, k - 1)
               back == SubSeq(chain, k + 1, Len(chain))
    <3>1. front \in Seq(Pairs) /\ Len(front) = k - 1 /\ \A i \in 1 .. k - 1 : front[i] = chain[i]
      BY <1>1, <1>2, <2>1
    <3>2. /\ back \in Seq(Pairs) /\ Len(back) = Len(chain) - k
          /\ \A i \in 1 .. Len(chain) - k : back[i] = chain[k + i]
      BY <1>1, <1>2, <2>1
    <3>3. new = front \o back
      BY DEF RemoveAt
    <3> HIDE DEF front, back, new
    <3>4. new \in Seq(Pairs) /\ Len(new) = Len(chain) - 1
      <4>1. new \in Seq(Pairs) /\ Len(new) = Len(front) + Len(back)
        BY <3>1, <3>2, <3>3, Joined, ZenonT(30)
      <4> QED BY <1>2, <2>1, <3>1, <3>2, <4>1
    <3>5. ASSUME NEW i \in 1 .. Len(chain) - 1 PROVE new[i] = chain[IF i < k THEN i ELSE i + 1]
      <4>1. CASE i < k
        <5>1. i \in 1 .. Len(front)
          BY <1>2, <2>1, <3>1, <4>1
        <5>2. new[i] = front[i]
          BY <3>1, <3>2, <3>3, <5>1
        <5> QED BY <3>1, <4>1, <5>1, <5>2
      <4>2. CASE i >= k
        <5>1. i - (k - 1) \in 1 .. Len(back) /\ i = Len(front) + (i - (k - 1)) /\ k + (i - (k - 1)) = i + 1
          BY <1>2, <2>1, <3>1, <3>2, <4>2, SMTT(60)
        <5>2. new[i] = back[i - (k - 1)]
          BY <3>1, <3>2, <3>3, <5>1
        <5>3. back[i - (k - 1)] = chain[i + 1]
          BY <3>2, <5>1
        <5> QED BY <1>2, <2>1, <4>2, <5>2, <5>3, SMTT(60)
      <4> QED BY <1>2, <2>1, <4>1, <4>2
    <3> QED BY <3>4, <3>5
  <2> HIDE DEF new, b
  <2>4. DOMAIN new = 1 .. Len(chain) - 1
    BY <1>2, <2>3
  <2>5. \A i \in DOMAIN new : (IF i < k THEN i ELSE i + 1) \in DOMAIN chain
    BY <1>2, <2>1, <2>4
  <2>6. \A i \in DOMAIN new : Bucket[new[i][1]] = b
    BY <1>3, <2>3, <2>4, <2>5
  <2>7. ASSUME NEW i \in DOMAIN new, NEW j \in DOMAIN new, new[i][1] = new[j][1] PROVE i = j
    <3>1. (IF i < k THEN i ELSE i + 1) = (IF j < k THEN j ELSE j + 1)
      BY <1>3, <2>3, <2>4, <2>5, <2>7, SMTT(60)
    <3> QED BY <1>2, <2>1, <2>4, <3>1
  <2>8. ChainSound(b, new)
    BY <2>6, <2>7 DEF ChainSound
  <2> QED BY <1>1, <2>2, <2>3, <2>8, ReplaceChain, ZenonT(30)
<1> QED BY <1>4, <1>5

\* nvram_rehash builds a sound table from whatever it finds in the image.
LEMMA RehashSound ==
  ASSUME NEW image \in Images, NEW data \in Seq(Pairs)
  PROVE  nvram_rehash(image, data) \in Tables /\ TableSound(nvram_rehash(image, data))
<1> DEFINE stored == Len(data)
           extra == [i \in DOMAIN SpecialSeq |-> <<SpecialSeq[i], image.hdr[SpecialSeq[i]]>>]
           all == data \o extra
           m == Len(all)
           Body(k, table) == IF k > stored /\ Has(table, all[k][1]) THEN table
                             ELSE nvram_set(table, all[k][1], all[k][2])
           Solves(a) == a = [k \in 0 .. m |-> IF k = 0 THEN EmptyTable ELSE Body(k, a[k - 1])]
           after == CHOOSE a : Solves(a)
<1>1. nvram_rehash(image, data) = after[m]
  BY DEF nvram_rehash
<1>2. all \in Seq(Pairs) /\ m \in Nat
  <2>1. image.hdr \in [Specials -> Values]
    BY DEF Images
  <2>2. DOMAIN SpecialSeq = 1 .. Len(SpecialSeq) /\ Len(SpecialSeq) \in Nat
    BY TableAssumption
  <2>3. ASSUME NEW i \in DOMAIN SpecialSeq
        PROVE  <<SpecialSeq[i], image.hdr[SpecialSeq[i]]>> \in Pairs
    <3>1. SpecialSeq[i] \in Names
      BY TableAssumption
    <3>2. SpecialSeq[i] \in Specials
      BY DEF Specials, Range
    <3> QED BY <2>1, <3>1, <3>2 DEF Pairs
  <2>4. extra \in Seq(Pairs)
    BY <2>2, <2>3
  <2> HIDE DEF extra
  <2> QED BY <2>1, <2>4, Joined
<1> HIDE DEF all, m
<1>3. ASSUME NEW k \in 1 .. m PROVE all[k][1] \in Names /\ all[k][2] \in Values
  <2>1. all[k] \in Pairs
    BY <1>2 DEF m
  <2> QED BY <2>1 DEF Pairs
<1>4. EmptyTable \in Tables /\ TableSound(EmptyTable)
  BY DEF EmptyTable, Tables, TableSound, ChainSound
<1>5. ASSUME NEW k \in 1 .. m, NEW table \in Tables PROVE Body(k, table) \in Tables
  BY <1>3, SetType
<1>6. ASSUME NEW k \in 1 .. m, NEW table \in Tables, TableSound(table) PROVE TableSound(Body(k, table))
  BY <1>3, <1>6, SetSound
<1> HIDE DEF Body
<1>7. \E a : Solves(a)
  <2> DEFINE body == [x \in (1 .. m) \X Tables |-> Body(x[1], x[2])]
  <2>1. body \in [(1 .. m) \X Tables -> Tables]
    BY <1>5
  <2>2. PICK g : Below(Tables, EmptyTable, body, m, g)
    <3> HIDE DEF body
    <3> QED BY <1>2, <1>4, <2>1, Bounded, ZenonT(30)
  <2>3. ASSUME NEW k \in 0 .. m PROVE g[k] = IF k = 0 THEN EmptyTable ELSE Body(k, g[k - 1])
    <3>1. g[k] = IF k = 0 THEN EmptyTable ELSE body[<<k, g[k - 1]>>]
      <4> HIDE DEF body
      <4> QED BY <2>2 DEF Below
    <3>2. ASSUME k # 0 PROVE k \in 1 .. m /\ k - 1 \in 0 .. m
      BY <1>2, <3>2
    <3>3. k # 0 => g[k - 1] \in Tables
      <4> HIDE DEF body
      <4> QED BY <2>2, <3>2 DEF Below
    <3> QED BY <3>1, <3>2, <3>3
  <2>4. DOMAIN g = 0 .. m /\ g = [k \in 0 .. m |-> g[k]]
    <3> HIDE DEF body
    <3> QED BY <2>2 DEF Below
  <2> HIDE DEF body
  <2>5. Solves(g)
    BY <2>3, <2>4
  <2> QED BY <2>5, ZenonT(30)
<1>8. Solves(after)
  BY <1>7, ZenonT(30)
<1> HIDE DEF after
<1>9. \A k \in 0 .. m : after[k] = IF k = 0 THEN EmptyTable ELSE Body(k, after[k - 1])
  BY <1>8, ZenonT(30)
<1> HIDE DEF Solves
<1> DEFINE T == {k \in Nat : k <= m => after[k] \in Tables /\ TableSound(after[k])}
<1>10. 0 \in T
  BY <1>2, <1>4, <1>9
<1>11. ASSUME NEW k \in Nat, k \in T PROVE k + 1 \in T
  <2> SUFFICES ASSUME k + 1 <= m PROVE after[k + 1] \in Tables /\ TableSound(after[k + 1])
    OBVIOUS
  <2>1. k + 1 \in 1 .. m /\ k + 1 \in 0 .. m /\ (k + 1) - 1 = k /\ k + 1 # 0 /\ k <= m
    BY <1>2
  <2>2. after[k + 1] = Body(k + 1, after[k])
    BY <1>9, <2>1
  <2>3. after[k] \in Tables /\ TableSound(after[k])
    BY <1>11, <2>1
  <2> QED BY <1>5, <1>6, <2>1, <2>2, <2>3, SMTT(60)
<1>12. Nat \subseteq T
  <2> HIDE DEF T
  <2> QED BY <1>10, <1>11, Induct
<1>13. after[m] \in Tables /\ TableSound(after[m])
  BY <1>2, <1>12
<1> QED BY <1>1, <1>13

-------------------------------------------------------------------------------
(* The image                                                               *)

Outs == [ptr : Nat, data : Seq(Pairs), open : BOOLEAN]

\* names that have a tuple in the output
Written(out) == {out.data[i][1] : i \in DOMAIN out.data}

\* what the output of nvram_commit keeps to
OutSound(out) ==
  /\ out.ptr <= Space - 2
  /\ \A i, j \in DOMAIN out.data : out.data[i][1] = out.data[j][1] => i = j

\* Writing a tuple or running out of space gives an output again.
LEMMA PutType ==
  ASSUME NEW out \in Outs, NEW t \in Pairs
  PROVE  Put(out, t) \in Outs
<1>1. Cost(t) \in Nat
  BY TextAssumption DEF Cost, Pairs
<1>2. Append(out.data, t) \in Seq(Pairs) /\ out.ptr + Cost(t) \in Nat
  BY <1>1 DEF Outs
<1> QED BY <1>2, ZenonT(30) DEF Put, Outs

\* Writing a name not written yet keeps the output's names distinct.
LEMMA PutSound ==
  ASSUME NEW out \in Outs, NEW t \in Pairs, OutSound(out), t[1] \notin Written(out)
  PROVE  OutSound(Put(out, t)) /\ Written(Put(out, t)) \subseteq Written(out) \cup {t[1]}
<1>1. Cost(t) \in Nat
  BY TextAssumption DEF Cost, Pairs
<1>2. out.data \in Seq(Pairs) /\ out.ptr \in Nat /\ Space \in Nat
  BY SpaceAssumption DEF Outs
<1>3. CASE out.open /\ out.ptr + Cost(t) <= Space - 2
  <2> DEFINE new == Put(out, t)
             data == Append(out.data, t)
  <2>1. new.ptr = out.ptr + Cost(t) /\ new.data = data
    BY <1>3 DEF Put, Outs
  <2>2. /\ DOMAIN out.data = 1 .. Len(out.data) /\ Len(out.data) \in Nat
        /\ DOMAIN data = 1 .. Len(out.data) + 1
        /\ \A i \in 1 .. Len(out.data) : data[i] = out.data[i]
        /\ data[Len(out.data) + 1] = t
    BY <1>2
  <2> HIDE DEF new, data
  <2>3. \A i \in DOMAIN data : (i \in DOMAIN out.data /\ data[i] = out.data[i])
                               \/ (i = Len(out.data) + 1 /\ data[i] = t)
    BY <2>2
  <2>4. \A i \in DOMAIN out.data : out.data[i][1] # t[1]
    BY DEF Written
  <2>5. ASSUME NEW i \in DOMAIN data, NEW j \in DOMAIN data, data[i][1] = data[j][1] PROVE i = j
    BY <2>3, <2>4, <2>5 DEF OutSound
  <2>6. OutSound(new)
    BY <1>3, <2>1, <2>5 DEF OutSound
  <2>7. Written(new) \subseteq Written(out) \cup {t[1]}
    BY <2>1, <2>3 DEF Written
  <2> QED BY <2>6, <2>7 DEF new
<1>4. CASE ~(out.open /\ out.ptr + Cost(t) <= Space - 2)
  <2>1. Put(out, t).ptr = out.ptr /\ Put(out, t).data = out.data
    BY <1>4 DEF Put, Outs
  <2> QED BY <2>1 DEF OutSound, Written
<1> QED BY <1>3, <1>4

\* Writing a chain keeps the output sound, when it has no name of the bucket.
LEMMA WriteChainSound ==
  ASSUME NEW out \in Outs, NEW chain \in Seq(Pairs)
  PROVE  /\ WriteChain(out, chain) \in Outs
         /\ \A b \in Buckets :
              ChainSound(b, chain) /\ OutSound(out) /\ (\A n \in Written(out) : Bucket[n] # b) =>
                /\ OutSound(WriteChain(out, chain))
                /\ \A n \in Written(WriteChain(out, chain)) : n \in Written(out) \/ Bucket[n] = b
<1> DEFINE m == Len(chain)
           first == [out EXCEPT !.open = TRUE]
           Solves(a) == a = [k \in 0 .. m |-> IF k = 0 THEN first ELSE Put(a[k - 1], chain[k])]
           after == CHOOSE a : Solves(a)
<1>1. WriteChain(out, chain) = after[m]
  BY DEF WriteChain
<1>2. m \in Nat /\ DOMAIN chain = 1 .. m
  OBVIOUS
<1> HIDE DEF m
<1>3. \A k \in 1 .. m : chain[k] \in Pairs
  BY <1>2
<1>4. first \in Outs /\ first.data = out.data /\ first.ptr = out.ptr
  BY ZenonT(30) DEF Outs
<1> HIDE DEF first
<1>5. \E a : Solves(a)
  <2> DEFINE body == [x \in (1 .. m) \X Outs |-> Put(x[2], chain[x[1]])]
  <2>1. body \in [(1 .. m) \X Outs -> Outs]
    BY <1>3, PutType
  <2>2. PICK g : Below(Outs, first, body, m, g)
    <3> HIDE DEF body
    <3> QED BY <1>2, <1>4, <2>1, Bounded, ZenonT(30)
  <2>3. ASSUME NEW k \in 0 .. m PROVE g[k] = IF k = 0 THEN first ELSE Put(g[k - 1], chain[k])
    <3>1. g[k] = IF k = 0 THEN first ELSE body[<<k, g[k - 1]>>]
      <4> HIDE DEF body
      <4> QED BY <2>2 DEF Below
    <3>2. ASSUME k # 0 PROVE k \in 1 .. m /\ k - 1 \in 0 .. m
      BY <1>2, <3>2
    <3>3. k # 0 => g[k - 1] \in Outs
      <4> HIDE DEF body
      <4> QED BY <2>2, <3>2 DEF Below
    <3> QED BY <3>1, <3>2, <3>3
  <2>4. DOMAIN g = 0 .. m /\ g = [k \in 0 .. m |-> g[k]]
    <3> HIDE DEF body
    <3> QED BY <2>2 DEF Below
  <2> HIDE DEF body
  <2>5. Solves(g)
    BY <2>3, <2>4, ZenonT(30)
  <2> QED BY <2>5, ZenonT(30)
<1>6. Solves(after)
  BY <1>5, ZenonT(30)
<1> HIDE DEF after
<1>7. \A k \in 0 .. m : after[k] = IF k = 0 THEN first ELSE Put(after[k - 1], chain[k])
  BY <1>6, ZenonT(30)
<1> HIDE DEF Solves
<1>8. ASSUME NEW k \in Nat, k + 1 <= m
      PROVE  after[k + 1] = Put(after[k], chain[k + 1]) /\ k + 1 \in 1 .. m /\ k <= m
  <2>1. k + 1 \in 0 .. m /\ k + 1 # 0 /\ (k + 1) - 1 = k /\ k + 1 \in 1 .. m /\ k <= m
    BY <1>2, <1>8
  <2> QED BY <1>7, <2>1
<1>9. after[0] = first
  BY <1>2, <1>7
<1> DEFINE T == {k \in Nat : k <= m => after[k] \in Outs}
<1>10. 0 \in T
  BY <1>4, <1>9
<1>11. ASSUME NEW k \in Nat, k \in T PROVE k + 1 \in T
  <2> SUFFICES ASSUME k + 1 <= m PROVE after[k + 1] \in Outs
    OBVIOUS
  <2> QED BY <1>3, <1>8, <1>11, PutType
<1>12. Nat \subseteq T
  <2> HIDE DEF T
  <2> QED BY <1>10, <1>11, Induct
<1>13. \A k \in 0 .. m : after[k] \in Outs
  BY <1>2, <1>12
<1>14. ASSUME NEW b \in Buckets, ChainSound(b, chain), OutSound(out),
              \A n \in Written(out) : Bucket[n] # b
       PROVE  /\ OutSound(after[m])
              /\ \A n \in Written(after[m]) : n \in Written(out) \/ Bucket[n] = b
  <2> DEFINE So(k) == Written(out) \cup {chain[i][1] : i \in 1 .. k}
             U == {k \in Nat : k <= m => OutSound(after[k]) /\ Written(after[k]) \subseteq So(k)}
  <2>1. 0 \in U
    BY <1>4, <1>9, <1>14 DEF OutSound, Written
  <2>2. ASSUME NEW k \in Nat, k \in U PROVE k + 1 \in U
    <3> SUFFICES ASSUME k + 1 <= m
                 PROVE  OutSound(after[k + 1]) /\ Written(after[k + 1]) \subseteq So(k + 1)
      OBVIOUS
    <3>1. /\ after[k + 1] = Put(after[k], chain[k + 1]) /\ k + 1 \in 1 .. m /\ k <= m
          /\ k \in 0 .. m
      BY <1>2, <1>8
    <3>2. OutSound(after[k]) /\ Written(after[k]) \subseteq So(k)
      BY <2>2, <3>1
    <3>3. chain[k + 1][1] \notin So(k)
      <4>1. Bucket[chain[k + 1][1]] = b
        BY <1>2, <1>14, <3>1 DEF ChainSound
      <4>2. \A i \in 1 .. k : i \in 1 .. m /\ i # k + 1
        BY <1>2, <3>1
      <4>3. \A i \in 1 .. k : chain[i][1] # chain[k + 1][1]
        BY <1>2, <1>14, <3>1, <4>2, SMTT(60) DEF ChainSound
      <4> QED BY <1>14, <4>1, <4>3
    <3>4. after[k] \in Outs /\ chain[k + 1] \in Pairs /\ chain[k + 1][1] \notin Written(after[k])
      BY <1>3, <1>13, <3>1, <3>2, <3>3, SMTT(60)
    <3>5. /\ OutSound(after[k + 1])
          /\ Written(after[k + 1]) \subseteq Written(after[k]) \cup {chain[k + 1][1]}
      BY <3>1, <3>2, <3>4, PutSound, SMTT(60)
    <3>6. So(k) \cup {chain[k + 1][1]} \subseteq So(k + 1)
      OBVIOUS
    <3> HIDE DEF So
    <3> QED BY <3>2, <3>5, <3>6
  <2>3. Nat \subseteq U
    <3> HIDE DEF U
    <3> QED BY <2>1, <2>2, Induct
  <2>4. OutSound(after[m]) /\ Written(after[m]) \subseteq So(m)
    BY <1>2, <2>3
  <2>5. \A i \in 1 .. m : Bucket[chain[i][1]] = b
    BY <1>2, <1>14 DEF ChainSound
  <2> QED BY <2>4, <2>5
<1>15. after[m] \in Outs
  BY <1>2, <1>13
<1> QED BY <1>1, <1>14, <1>15

\* A sound table is written with one tuple for a name, and within the space.
LEMMA WriteTuplesSound ==
  ASSUME NEW table \in Tables
  PROVE  /\ WriteTuples(table) \in Outs
         /\ TableSound(table) => OutSound(WriteTuples(table))
<1> DEFINE first == [ptr |-> HeaderSize, data |-> <<>>, open |-> TRUE]
           Solves(a) == a = [b \in 0 .. HashSize |->
                               IF b = 0 THEN first ELSE WriteChain(a[b - 1], table[b - 1])]
           after == CHOOSE a : Solves(a)
<1>1. WriteTuples(table) = after[HashSize]
  BY DEF WriteTuples
<1>2. HashSize \in Nat
  BY TableAssumption
<1>3. \A b \in 1 .. HashSize : b - 1 \in Buckets /\ table[b - 1] \in Seq(Pairs)
  BY <1>2 DEF Buckets, Tables
<1>4. first \in Outs /\ OutSound(first) /\ Written(first) = {}
  <2>1. first \in Outs
    BY DEF Outs, HeaderSize
  <2>2. first.ptr <= Space - 2
    BY SpaceAssumption DEF HeaderSize
  <2> QED BY <2>1, <2>2 DEF OutSound, Written
<1> HIDE DEF first
<1>5. \E a : Solves(a)
  <2> DEFINE body == [x \in (1 .. HashSize) \X Outs |-> WriteChain(x[2], table[x[1] - 1])]
  <2>1. body \in [(1 .. HashSize) \X Outs -> Outs]
    BY <1>3, WriteChainSound
  <2>2. PICK g : Below(Outs, first, body, HashSize, g)
    <3> HIDE DEF body
    <3> QED BY <1>2, <1>4, <2>1, Bounded, ZenonT(30)
  <2>3. ASSUME NEW k \in 0 .. HashSize
        PROVE  g[k] = IF k = 0 THEN first ELSE WriteChain(g[k - 1], table[k - 1])
    <3>1. g[k] = IF k = 0 THEN first ELSE body[<<k, g[k - 1]>>]
      <4> HIDE DEF body
      <4> QED BY <2>2 DEF Below
    <3>2. ASSUME k # 0 PROVE k \in 1 .. HashSize /\ k - 1 \in 0 .. HashSize
      BY <1>2, <3>2
    <3>3. k # 0 => g[k - 1] \in Outs
      <4> HIDE DEF body
      <4> QED BY <2>2, <3>2 DEF Below
    <3> QED BY <3>1, <3>2, <3>3
  <2>4. DOMAIN g = 0 .. HashSize /\ g = [k \in 0 .. HashSize |-> g[k]]
    <3> HIDE DEF body
    <3> QED BY <2>2 DEF Below
  <2> HIDE DEF body
  <2>5. Solves(g)
    BY <2>3, <2>4
  <2> QED BY <2>5, ZenonT(30)
<1>6. Solves(after)
  BY <1>5, ZenonT(30)
<1> HIDE DEF after
<1>7. \A k \in 0 .. HashSize :
        after[k] = IF k = 0 THEN first ELSE WriteChain(after[k - 1], table[k - 1])
  BY <1>6, ZenonT(30)
<1> HIDE DEF Solves
<1>8. ASSUME NEW k \in Nat, k + 1 <= HashSize
      PROVE  /\ after[k + 1] = WriteChain(after[k], table[k])
             /\ k \in Buckets /\ k <= HashSize /\ table[k] \in Seq(Pairs)
  <2>1. /\ k + 1 \in 0 .. HashSize /\ k + 1 # 0 /\ (k + 1) - 1 = k
        /\ k + 1 \in 1 .. HashSize /\ k <= HashSize
    BY <1>2, <1>8
  <2> QED BY <1>3, <1>7, <2>1
<1>9. after[0] = first
  BY <1>2, <1>7
<1> DEFINE T == {k \in Nat : k <= HashSize => after[k] \in Outs}
<1>10. 0 \in T
  BY <1>4, <1>9
<1>11. ASSUME NEW k \in Nat, k \in T PROVE k + 1 \in T
  <2> SUFFICES ASSUME k + 1 <= HashSize PROVE after[k + 1] \in Outs
    OBVIOUS
  <2> QED BY <1>8, <1>11, WriteChainSound
<1>12. Nat \subseteq T
  <2> HIDE DEF T
  <2> QED BY <1>10, <1>11, Induct
<1>13. \A k \in 0 .. HashSize : after[k] \in Outs
  BY <1>2, <1>12
<1>14. ASSUME TableSound(table) PROVE OutSound(after[HashSize])
  <2> DEFINE Low(k) == \A n \in Written(after[k]) : Bucket[n] \in 0 .. k - 1
             U == {k \in Nat : k <= HashSize => OutSound(after[k]) /\ Low(k)}
  <2>1. 0 \in U
    BY <1>4, <1>9
  <2>2. ASSUME NEW k \in Nat, k \in U PROVE k + 1 \in U
    <3> SUFFICES ASSUME k + 1 <= HashSize PROVE OutSound(after[k + 1]) /\ Low(k + 1)
      OBVIOUS
    <3>1. /\ after[k + 1] = WriteChain(after[k], table[k]) /\ k \in Buckets
          /\ table[k] \in Seq(Pairs) /\ after[k] \in Outs /\ ChainSound(k, table[k])
      BY <1>2, <1>8, <1>13, <1>14 DEF TableSound
    <3>2. OutSound(after[k]) /\ Low(k)
      BY <1>8, <2>2
    <3>3. \A n \in Written(after[k]) : Bucket[n] # k
      BY <3>2
    <3>4. /\ OutSound(after[k + 1])
          /\ \A n \in Written(after[k + 1]) : n \in Written(after[k]) \/ Bucket[n] = k
      BY <3>1, <3>2, <3>3, WriteChainSound, SMTT(60)
    <3>5. \A i \in 0 .. k - 1 : i \in 0 .. (k + 1) - 1
      OBVIOUS
    <3>6. k \in 0 .. (k + 1) - 1
      OBVIOUS
    <3> QED BY <3>2, <3>4, <3>5, <3>6
  <2>3. Nat \subseteq U
    <3> HIDE DEF U
    <3> QED BY <2>1, <2>2, Induct
  <2> QED BY <1>2, <2>3
<1>15. after[HashSize] \in Outs
  BY <1>2, <1>13
<1> QED BY <1>1, <1>14, <1>15

\* The header a commit writes gives every special variable a value.
LEMMA HeaderType ==
  ASSUME NEW table \in Tables
  PROVE  Header(table) \in [Specials -> Values]
<1>1. CASE \A n \in Specials : Has(table, n)
  <2>1. ASSUME NEW n \in Specials PROVE Canon[nvram_get(table, n)] \in Values
    <3>1. n \in Names
      BY TableAssumption DEF Specials, Range
    <3>2. Bucket[n] \in Buckets /\ table[Bucket[n]] \in Seq(Pairs)
      BY <3>1, TableAssumption DEF Tables
    <3>3. Find(table[Bucket[n]], n) \in DOMAIN table[Bucket[n]]
      BY <1>1, <3>2, FindFirst DEF Has
    <3>4. table[Bucket[n]][Find(table[Bucket[n]], n)] \in Pairs
      BY <3>2, <3>3
    <3>5. nvram_get(table, n) \in Values
      BY <3>4 DEF nvram_get, Pairs
    <3> QED BY <3>5, TextAssumption
  <2> QED BY <1>1, <2>1 DEF Header
<1>2. CASE ~\A n \in Specials : Has(table, n)
  BY <1>2, TextAssumption DEF Header
<1> QED BY <1>1, <1>2

\* NVRAM_ROUNDUP stays within a space that is a multiple of 4.
LEMMA RoundUp ==
  ASSUME NEW p \in Nat, NEW s \in Nat, s % 4 = 0, p <= s - 2
  PROVE  ((p + 2 + 3) \div 4) * 4 <= s
<1> DEFINE q == s \div 4
           d == (p + 5) \div 4
<1>1. q \in Int /\ s = 4 * q
  OBVIOUS
<1>2. d \in Int /\ 4 * d <= p + 5
  OBVIOUS
<1>3. p + 2 + 3 = p + 5
  OBVIOUS
<1> HIDE DEF q, d
<1>4. d <= q
  BY <1>1, <1>2
<1>5. d * 4 <= s
  BY <1>1, <1>2, <1>4
<1> QED BY <1>3, <1>5 DEF d

\* What nvram_commit writes for a sound table.
LEMMA ImageSound ==
  ASSUME NEW table \in Tables
  PROVE  Image(table) \in Images /\ (TableSound(table) => Sound(Image(table)))
<1> DEFINE out == WriteTuples(table)
           len == ((out.ptr + 2 + 3) \div 4) * 4
<1>1. out \in Outs /\ (TableSound(table) => OutSound(out))
  BY WriteTuplesSound
<1> HIDE DEF out
<1>2. out.ptr \in Nat /\ out.data \in Seq(Names \X Values)
  BY <1>1 DEF Outs, Pairs
<1>3. Image(table) = [state |-> "ok", data |-> out.data, hdr |-> Header(table), len |-> len]
  BY DEF Image, out
<1>4. len \in Nat
  BY <1>2
<1>5. out.ptr <= Space - 2 => len <= Space
  BY <1>2, SpaceAssumption, RoundUp, ZenonT(30)
<1> HIDE DEF len
<1>6. Image(table) \in Images
  BY <1>2, <1>3, <1>4, HeaderType DEF Images
<1>7. ASSUME TableSound(table) PROVE Sound(Image(table))
  BY <1>1, <1>3, <1>5, <1>7 DEF OutSound, Sound
<1> QED BY <1>6, <1>7

\* An image without tuples is sound.
LEMMA BlankSound ==
  ASSUME NEW s \in {"ok", "mixed", "cut", "empty", "torn"}
  PROVE  Blank(s) \in Images /\ Sound(Blank(s)) /\ Blank(s).state = s
<1>1. Blank(s) \in Images
  BY TextAssumption DEF Blank, Images
<1> QED BY <1>1, SpaceAssumption DEF Blank, Sound

\* So is one whose data area is none.
LEMMA SpoiltSound ==
  ASSUME NEW image \in Images, Sound(image), NEW s \in {"mixed", "cut"}
  PROVE  /\ Spoilt(image, s) \in Images /\ Sound(Spoilt(image, s))
         /\ Spoilt(image, s).state = s
<1> DEFINE none == <<>>
           new == [image EXCEPT !.state = s, !.data = none]
<1>1. none \in Seq(Names \X Values) /\ DOMAIN none = {}
  OBVIOUS
<1>2. Spoilt(image, s) = new
  BY DEF Spoilt
<1> HIDE DEF none
<1>3. new \in Images /\ new.data = none /\ new.len = image.len /\ new.state = s
  BY <1>1, ZenonT(30) DEF Images
<1> HIDE DEF new
<1>4. Sound(new)
  BY <1>1, <1>3 DEF Sound
<1> QED BY <1>2, <1>3, <1>4

\* And one with another header.
LEMMA HeaderSound ==
  ASSUME NEW image \in Images, Sound(image), NEW h \in [Specials -> Values]
  PROVE  /\ [image EXCEPT !.hdr = h] \in Images /\ Sound([image EXCEPT !.hdr = h])
         /\ [image EXCEPT !.hdr = h].state = image.state
<1> DEFINE new == [image EXCEPT !.hdr = h]
<1>1. /\ new \in Images /\ new.data = image.data /\ new.len = image.len
      /\ new.state = image.state
  BY ZenonT(30) DEF Images
<1> HIDE DEF new
<1>2. Sound(new)
  BY <1>1 DEF Sound
<1> QED BY <1>1, <1>2 DEF new

-------------------------------------------------------------------------------
(* Images stay sound                                                       *)

Pcs == {"idle", "load", "create", "fill", "open", "hash", "clear", "write", "save", "flash", "unlink"}

Records == [pc : Pcs, op : Ops, file : Files \cup {NoFile}, table : Tables, buf : Images,
            clash : BOOLEAN]

\* what a process has in its hands is sound, and it has a file while it needs one
Clean(r) ==
  /\ TableSound(r.table) /\ Sound(r.buf)
  /\ r.pc \in {"fill", "hash", "clear", "write"} => r.file \in Files

\* two records that differ in nothing but the clash
Same(r, s) ==
  /\ r.pc = s.pc /\ r.op = s.op /\ r.file = s.file /\ r.table = s.table /\ r.buf = s.buf

\* A process that begins to work on a file changes of the others only whether
\* they clash.
LEMMA Entered ==
  ASSUME proc \in [Procs -> Records], NEW p \in Procs, NEW f, NEW r \in Records, Enter(p, f, r)
  PROVE  /\ proc' \in [Procs -> Records]
         /\ Same(proc'[p], r)
         /\ proc'[p].clash => AtWork(f) \ {p} # {}
         /\ \A q \in Procs : q # p =>
              Same(proc'[q], proc[q]) /\ (proc'[q].clash => proc[q].clash \/ q \in AtWork(f))
<1> DEFINE first == (AtWork(f) \ {p} # {})
           also(q) == (proc[q].clash \/ q \in AtWork(f))
<1>1. first \in BOOLEAN /\ \A q \in Procs : also(q) \in BOOLEAN
  OBVIOUS
<1>2. proc' = [q \in Procs |-> IF q = p THEN [r EXCEPT !.clash = first]
                                       ELSE [proc[q] EXCEPT !.clash = also(q)]]
  BY ZenonT(30) DEF Enter
<1>3. ASSUME NEW x \in Records, NEW c \in BOOLEAN
      PROVE  /\ [x EXCEPT !.clash = c] \in Records /\ [x EXCEPT !.clash = c].clash = c
             /\ Same([x EXCEPT !.clash = c], x)
  BY ZenonT(30) DEF Records, Same
<1> HIDE DEF first, also
<1>4. proc'[p] = [r EXCEPT !.clash = first]
  BY <1>2
<1>5. ASSUME NEW q \in Procs, q # p PROVE proc'[q] = [proc[q] EXCEPT !.clash = also(q)]
  BY <1>2, <1>5
<1>6. proc'[p] \in Records /\ Same(proc'[p], r) /\ proc'[p].clash = first
  BY <1>1, <1>3, <1>4, ZenonT(30)
<1>7. ASSUME NEW q \in Procs, q # p
      PROVE  proc'[q] \in Records /\ Same(proc'[q], proc[q]) /\ proc'[q].clash = also(q)
  <2>1. proc[q] \in Records
    OBVIOUS
  <2> QED BY <1>1, <1>3, <1>5, <1>7, <2>1, ZenonT(30)
<1>8. proc' \in [Procs -> Records]
  <2>1. \A q \in Procs : proc'[q] \in Records
    BY <1>6, <1>7
  <2>2. proc' = [q \in Procs |-> proc'[q]]
    BY <1>2
  <2> QED BY <2>1, <2>2, ZenonT(30)
<1>9. proc'[p].clash => AtWork(f) \ {p} # {}
  BY <1>6, ZenonT(30) DEF first
<1>10. \A q \in Procs : q # p => (proc'[q].clash => proc[q].clash \/ q \in AtWork(f))
  BY <1>7, ZenonT(30) DEF also
<1> QED BY <1>6, <1>7, <1>8, <1>9, <1>10, ZenonT(30)

\* The type invariant and SoundInv, with the definitions of this module.
SoundState ==
  /\ flash \in Images /\ Sound(flash)
  /\ staging \in Files \cup {NoFile}
  /\ content \in [Files -> Images] /\ \A f \in Files : Sound(content[f])
  /\ proc \in [Procs -> Records] /\ \A p \in Procs : Clean(proc[p])
  /\ solo \in BOOLEAN

\* SoundState has the type invariant and the soundness of every table and image.
LEMMA SoundStateMeans == SoundState => TypeOK /\ SoundInv /\ ImagesSound
<1>1. /\ flash \in Images /\ staging \in Files \cup {NoFile}
      /\ content \in [Files -> Images] /\ proc \in [Procs -> Records]
      /\ solo \in BOOLEAN
      => TypeOK
  BY DEF TypeOK, Records, Pcs, Tables, Pairs
<1>2. ASSUME SoundState
      PROVE  \A image \in {flash} \cup Range(content) : Sound(image)
  BY <1>2 DEF SoundState, Range
<1> QED BY <1>1, <1>2 DEF SoundState, SoundInv, ImagesSound, Clean

\* With as many files as processes and one more, one is held by none.
LEMMA FreeFile ==
  ASSUME NEW held \in [Procs -> Files \cup {NoFile}]
  PROVE  Min(Files \ {held[q] : q \in Procs}) \in Files \ {held[q] : q \in Procs}
<1> DEFINE N == Cardinality(Procs)
           H == {held[q] : q \in Procs}
<1>1. N \in Nat /\ IsFiniteSet(Procs)
  BY CommandsAssumption, FS_CardinalityType
<1>2. IsFiniteSet(H) /\ Cardinality(H) <= N
  <2>1. held \in Surjection(Procs, H)
    BY DEF Surjection
  <2> HIDE DEF H
  <2> QED BY <1>1, <2>1, FS_Surjection
<1>3. Cardinality(Files) = N + 1 /\ IsFiniteSet(Files)
  BY <1>1, FS_Interval DEF Files
<1>4. Cardinality(H) \in Nat
  BY <1>2, FS_CardinalityType
<1>5. ~(Files \subseteq H)
  <2> HIDE DEF H, N
  <2> SUFFICES ASSUME Files \subseteq H PROVE FALSE
    OBVIOUS
  <2>1. Cardinality(Files) <= Cardinality(H)
    BY <1>2, FS_Subset
  <2> QED BY <1>1, <1>2, <1>3, <1>4, <2>1, SMTT(60)
<1> DEFINE free == Files \ H
<1>6. free \subseteq Nat /\ free # {}
  BY <1>1, <1>5 DEF Files
<1> HIDE DEF free
<1>7. \E x \in free : \A y \in free : x <= y
  BY <1>6, Least, ZenonT(30)
<1>8. Min(free) \in free
  BY <1>7 DEF Min
<1> QED BY <1>8 DEF free

\* The commands of a process are operations.
LEMMA CommandsInOps ==
  ASSUME NEW p \in Procs, NEW s \in BOOLEAN, NEW op \in Commands[s][p]
  PROVE  op \in Ops
<1>1. Commands[s] \in [Procs -> SUBSET Ops]
  BY CommandsAssumption, Zenon
<1>2. Commands[s][p] \in SUBSET Ops
  BY <1>1
<1> QED BY <1>2

\* Every operation keeps a table sound.
LEMMA ApplySound ==
  ASSUME NEW table \in Tables, TableSound(table), NEW op \in Ops
  PROVE  Apply(table, op) \in Tables /\ TableSound(Apply(table, op))
<1>1. CASE op.kind = "set"
  <2>1. op.name \in Names /\ op.value \in Values
    BY <1>1 DEF Ops
  <2>2. Apply(table, op) = nvram_set(table, op.name, op.value)
    BY <1>1 DEF Apply
  <2> QED BY <2>1, <2>2, SetSound, SMTT(60)
<1>2. CASE op.kind = "unset"
  <2>1. op.name \in Names
    BY <1>2 DEF Ops
  <2>2. Apply(table, op) = nvram_unset(table, op.name)
    BY <1>2 DEF Apply
  <2> QED BY <2>1, <2>2, UnsetSound
<1>3. CASE op.kind # "set" /\ op.kind # "unset"
  BY <1>3 DEF Apply
<1> QED BY <1>1, <1>2, <1>3, SMTT(60)

\* A process that has not started has nothing to be unsound.
LEMMA IdleSound == Idle \in Records /\ Clean(Idle)
<1>1. EmptyTable \in Tables /\ TableSound(EmptyTable)
  BY DEF EmptyTable, Tables, TableSound, ChainSound
<1>2. [kind |-> "get", commit |-> TRUE] \in Ops
  BY DEF Ops
<1>3. Blank("empty") \in Images /\ Sound(Blank("empty"))
  BY BlankSound
<1> QED BY <1>1, <1>2, <1>3 DEF Idle, Records, Pcs, Clean

\* The initial state is sound.
LEMMA SoundInit == Init => SoundState
<1> SUFFICES ASSUME Init PROVE SoundState
  OBVIOUS
<1>1. Blank("empty") \in Images /\ Sound(Blank("empty"))
  BY BlankSound
<1>2. flash \in Images /\ Sound(flash)
  BY FlashAssumption DEF Init
<1>3. content \in [Files -> Images] /\ \A f \in Files : Sound(content[f])
  BY <1>1 DEF Init
<1>4. proc \in [Procs -> Records] /\ \A p \in Procs : Clean(proc[p])
  BY IdleSound, SMTT(60) DEF Init
<1> QED BY <1>2, <1>3, <1>4 DEF Init, SoundState

\* Every step keeps the state sound.
LEMMA SoundStep == SoundState /\ [Next]_vars => SoundState'
<1> SUFFICES ASSUME SoundState, [Next]_vars PROVE SoundState'
  OBVIOUS
<1> DEFINE FlashOK == flash \in Images /\ Sound(flash)
           StagingOK == staging \in Files \cup {NoFile}
           ContentOK == content \in [Files -> Images] /\ \A f \in Files : Sound(content[f])
           ProcOK == proc \in [Procs -> Records] /\ \A p \in Procs : Clean(proc[p])
           SoloOK == solo \in BOOLEAN
<1>1. FlashOK /\ StagingOK /\ ContentOK /\ ProcOK /\ SoloOK
  BY DEF SoundState
<1>2. FlashOK' /\ StagingOK' /\ ContentOK' /\ ProcOK' /\ SoloOK' => SoundState'
  BY DEF SoundState
<1>3. UNCHANGED flash => FlashOK'
  BY <1>1
<1>4. UNCHANGED staging => StagingOK'
  BY <1>1
<1>5. UNCHANGED content => ContentOK'
  BY <1>1
<1>6. UNCHANGED solo => SoloOK'
  BY <1>1
<1>7. ASSUME NEW p \in Procs, NEW r \in Records, Clean(r), proc' = [proc EXCEPT ![p] = r]
      PROVE  ProcOK'
  BY <1>1, <1>7
<1>8. ASSUME NEW f, NEW image \in Images, Sound(image), content' = [content EXCEPT ![f] = image]
      PROVE  ContentOK'
  BY <1>1, <1>8, ZenonT(30)
<1>9. Blank("empty") \in Images /\ Sound(Blank("empty"))
  BY BlankSound
<1>10. ASSUME NEW p \in Procs, Exit(p) PROVE ProcOK'
  BY <1>7, <1>10, IdleSound, ZenonT(30) DEF Exit
<1>11. ASSUME NEW p \in Procs
       PROVE  /\ proc[p] \in Records /\ Clean(proc[p])
              /\ proc[p].pc \in Pcs /\ proc[p].op \in Ops /\ proc[p].file \in Files \cup {NoFile}
              /\ proc[p].table \in Tables /\ TableSound(proc[p].table)
              /\ proc[p].buf \in Images /\ Sound(proc[p].buf)
              /\ proc[p].pc \in {"fill", "hash", "clear", "write"} => proc[p].file \in Files
  BY <1>1 DEF Records, Clean
<1>12. ASSUME NEW p \in Procs, NEW f, NEW r \in Records, Clean(r), Enter(p, f, r)
       PROVE  ProcOK'
  <2>1. /\ proc' \in [Procs -> Records] /\ Same(proc'[p], r)
        /\ \A q \in Procs : q # p => Same(proc'[q], proc[q])
    BY <1>1, <1>12, Entered, ZenonT(30)
  <2>2. \A x, y : Same(x, y) /\ Clean(y) => Clean(x)
    BY DEF Same, Clean
  <2>3. ASSUME NEW q \in Procs PROVE Clean(proc'[q])
    <3>1. CASE q = p
      BY <1>12, <2>1, <2>2, <3>1, ZenonT(30)
    <3>2. CASE q # p
      BY <1>1, <2>1, <2>2, <3>2, ZenonT(30)
    <3> QED BY <3>1, <3>2
  <2> QED BY <2>1, <2>3
<1> HIDE DEF FlashOK, StagingOK, ContentOK, ProcOK, SoloOK
<1>13. ASSUME NEW p \in Procs, NEW op \in Commands[solo][p], Start(p, op) PROVE SoundState'
  <2> DEFINE pc == CASE op.kind = "get" -> "save"
                     [] op.kind # "get" /\ staging = NoFile -> "load"
                     [] OTHER -> "open"
             r == [proc[p] EXCEPT !.op = op, !.pc = pc]
  <2>1. op \in Ops
    BY <1>1, CommandsInOps DEF SoloOK
  <2>2. pc \in Pcs /\ pc \notin {"fill", "hash", "clear", "write"}
    BY DEF Pcs
  <2>3. proc' = [proc EXCEPT ![p] = r]
    BY <1>13, ZenonT(30) DEF Start
  <2> HIDE DEF pc
  <2>4. r \in Records /\ Clean(r)
    BY <1>11, <2>1, <2>2, ZenonT(30) DEF Records, Clean
  <2> HIDE DEF r
  <2>5. ProcOK'
    BY <1>7, <2>3, <2>4, ZenonT(30)
  <2> QED BY <1>2, <1>3, <1>4, <1>5, <1>6, <1>13, <2>5, <1>1, SMTT(60) DEF Start
<1>14. ASSUME NEW p \in Procs, Load(p) PROVE SoundState'
  <2> DEFINE r == [proc[p] EXCEPT !.pc = "create", !.buf = flash]
  <2>1. r \in Records /\ Clean(r)
    BY <1>1, <1>11, ZenonT(30) DEF Records, Clean, Pcs, FlashOK
  <2>2. proc' = [proc EXCEPT ![p] = r]
    BY <1>14, ZenonT(30) DEF Load
  <2> HIDE DEF r
  <2>3. ProcOK'
    BY <1>7, <2>1, <2>2, ZenonT(30)
  <2> QED BY <1>1, <1>2, <1>3, <1>4, <1>5, <1>6, <1>14, <2>3 DEF Load
<1>15. ASSUME NEW p \in Procs, Create(p) PROVE SoundState'
  <2>1. ASSUME NEW f \in Files,
               proc' = [proc EXCEPT ![p].pc = "fill", ![p].file = f]
        PROVE  ProcOK'
    <3> DEFINE r == [proc[p] EXCEPT !.pc = "fill", !.file = f]
    <3>1. r \in Records /\ Clean(r)
      BY <1>11, ZenonT(30) DEF Records, Clean, Pcs
    <3>2. proc' = [proc EXCEPT ![p] = r]
      BY <2>1, ZenonT(30)
    <3> HIDE DEF r
    <3> QED BY <1>7, <3>1, <3>2, ZenonT(30)
  <2>2. CASE staging # NoFile
    <3>1. ProcOK'
      BY <1>1, <1>15, <2>1, <2>2 DEF Create, StagingOK
    <3> QED BY <1>1, <1>2, <1>3, <1>4, <1>5, <1>6, <1>15, <2>2, <3>1 DEF Create
  <2>3. CASE staging = NoFile
    <3> DEFINE held == [q \in Procs |-> proc[q].file]
               f == Min(Files \ {proc[q].file : q \in Procs})
    <3>1. held \in [Procs -> Files \cup {NoFile}]
      BY <1>11
    <3>2. {held[q] : q \in Procs} = {proc[q].file : q \in Procs}
      OBVIOUS
    <3> HIDE DEF held
    <3>3. f \in Files
      BY <3>1, <3>2, FreeFile
    <3>4. /\ proc' = [proc EXCEPT ![p].pc = "fill", ![p].file = f]
          /\ staging' = f /\ content' = [content EXCEPT ![f] = Blank("empty")]
          /\ UNCHANGED <<flash, solo>>
      BY <1>15, <2>3 DEF Create
    <3> HIDE DEF f
    <3>5. ProcOK'
      BY <2>1, <3>3, <3>4, ZenonT(30)
    <3>6. ContentOK'
      BY <1>8, <1>9, <3>4, ZenonT(30)
    <3>7. StagingOK'
      BY <3>3, <3>4 DEF StagingOK
    <3> QED BY <1>2, <1>3, <1>6, <3>4, <3>5, <3>6, <3>7, SMTT(60)
  <2> QED BY <2>2, <2>3
<1>16. ASSUME NEW p \in Procs, Fill(p) PROVE SoundState'
  <2> DEFINE r == [proc[p] EXCEPT !.pc = "open", !.file = NoFile, !.buf = Blank("empty")]
  <2>1. r \in Records /\ Clean(r)
    BY <1>9, <1>11, ZenonT(30) DEF Records, Clean, Pcs
  <2>2. Enter(p, proc[p].file, r)
    BY <1>16, ZenonT(30) DEF Fill
  <2> HIDE DEF r
  <2>3. ProcOK'
    BY <1>12, <2>1, <2>2, ZenonT(30)
  <2>4. PICK image \in {proc[p].buf, Spoilt(proc[p].buf, "mixed")} :
          content' = [content EXCEPT ![proc[p].file] = image]
    BY <1>16, ZenonT(30) DEF Fill
  <2>5. image \in Images /\ Sound(image)
    BY <1>11, <2>4, SpoiltSound
  <2>6. ContentOK'
    BY <1>8, <2>4, <2>5, ZenonT(30)
  <2> QED BY <1>2, <1>3, <1>4, <1>6, <1>16, <2>3, <2>6, SMTT(60) DEF Fill
<1>17. ASSUME NEW p \in Procs, Open(p) PROVE SoundState'
  <2>1. CASE staging # NoFile /\ Opens(content[staging])
    <3> DEFINE r == [proc[p] EXCEPT !.pc = "hash", !.file = staging]
    <3>1. Enter(p, staging, r)
      BY <1>17, <2>1, ZenonT(30) DEF Open
    <3>2. r \in Records /\ Clean(r)
      <4>1. staging \in Files
        BY <1>1, <2>1 DEF StagingOK
      <4> QED BY <1>11, <4>1, ZenonT(30) DEF Records, Clean, Pcs
    <3> HIDE DEF r
    <3>3. ProcOK'
      BY <1>12, <3>1, <3>2, ZenonT(30)
    <3> QED BY <1>2, <1>3, <1>4, <1>5, <1>6, <1>17, <3>3 DEF Open
  <2>2. CASE ~(staging # NoFile /\ Opens(content[staging]))
    BY <1>2, <1>3, <1>4, <1>5, <1>6, <1>10, <1>17, <2>2 DEF Open
  <2> QED BY <2>1, <2>2
<1>18. ASSUME NEW p \in Procs, Rehash(p) PROVE SoundState'
  <2> DEFINE f == proc[p].file
             R(table) == [proc[p] EXCEPT !.pc = "clear", !.clash = FALSE, !.table = table]
  <2>1. f \in Files
    BY <1>11, <1>18 DEF Rehash
  <2>2. content[f] \in Images /\ Sound(content[f])
    BY <1>1, <2>1 DEF ContentOK
  <2>3. PICK image \in {content[f], Spoilt(content[f], "mixed")} :
          /\ content' = [content EXCEPT ![f] = image]
          /\ \/ \E data \in Parsed(content[f]) \cup Fragments :
                  proc' = [proc EXCEPT ![p].pc = "clear", ![p].clash = FALSE,
                                       ![p].table = nvram_rehash(image, data)]
             \/ Exit(p)
    BY <1>18, ZenonT(60) DEF Rehash
  <2>4. image \in Images /\ Sound(image)
    BY <2>2, <2>3, SpoiltSound
  <2>5. ContentOK'
    BY <1>8, <2>3, <2>4, ZenonT(30)
  <2>6. ProcOK'
    <3>1. CASE Exit(p)
      BY <1>10, <3>1
    <3>2. ASSUME NEW data \in Parsed(content[f]) \cup Fragments,
                 proc' = [proc EXCEPT ![p].pc = "clear", ![p].clash = FALSE,
                                      ![p].table = nvram_rehash(image, data)]
          PROVE  ProcOK'
      <4> DEFINE table == nvram_rehash(image, data)
      <4>1. data \in Seq(Pairs)
        BY <2>2, FragmentsAssumption DEF Parsed, Images, Pairs
      <4>2. table \in Tables /\ TableSound(table)
        BY <2>4, <4>1, RehashSound
      <4>3. proc' = [proc EXCEPT ![p] = R(table)]
        BY <3>2, ZenonT(30)
      <4> HIDE DEF table
      <4>4. R(table) \in Records /\ Clean(R(table))
        BY <1>11, <2>1, <4>2, ZenonT(30) DEF Records, Clean, Pcs
      <4> HIDE DEF R
      <4> QED BY <1>7, <4>3, <4>4, ZenonT(30)
    <3> QED BY <2>3, <3>1, <3>2
  <2> QED BY <1>2, <1>3, <1>4, <1>6, <1>18, <2>5, <2>6, SMTT(60) DEF Rehash
<1>19. ASSUME NEW p \in Procs, Clear(p) PROVE SoundState'
  <2> DEFINE table == Apply(proc[p].table, proc[p].op)
             r == [proc[p] EXCEPT !.pc = "write", !.table = table]
             f == proc[p].file
             mixed == Spoilt(content[f], "mixed")
             image == [mixed EXCEPT !.hdr = Header(table)]
  <2>1. table \in Tables /\ TableSound(table)
    BY <1>11, ApplySound, SMTT(60)
  <2>2. f \in Files
    BY <1>11, <1>19 DEF Clear
  <2>3. Enter(p, f, r) /\ content' = [content EXCEPT ![f] = image]
    BY <1>19, <2>2, ZenonT(30) DEF Clear
  <2> HIDE DEF table
  <2>4. r \in Records /\ Clean(r)
    BY <1>11, <2>1, <2>2, ZenonT(30) DEF Records, Clean, Pcs
  <2>5. image \in Images /\ Sound(image)
    <3>1. content[f] \in Images /\ Sound(content[f])
      BY <1>1, <2>2 DEF ContentOK
    <3>2. mixed \in Images /\ Sound(mixed)
      BY <3>1, SpoiltSound
    <3>3. Header(table) \in [Specials -> Values]
      BY <2>1, HeaderType
    <3> HIDE DEF mixed
    <3> QED BY <3>2, <3>3, HeaderSound
  <2> HIDE DEF r, image, f
  <2>6. ProcOK'
    BY <1>12, <2>3, <2>4, ZenonT(30)
  <2>7. ContentOK'
    BY <1>8, <2>3, <2>5, ZenonT(30)
  <2> QED BY <1>2, <1>3, <1>4, <1>6, <1>19, <2>6, <2>7, SMTT(60) DEF Clear
<1>20. ASSUME NEW p \in Procs, Write(p) PROVE SoundState'
  <2> DEFINE f == proc[p].file
             new == Image(proc[p].table)
             image == [new EXCEPT !.hdr = content[f].hdr]
             r == [proc[p] EXCEPT !.pc = "save", !.file = NoFile, !.table = EmptyTable,
                                  !.clash = FALSE]
  <2>1. image \in Images /\ Sound(image)
    <3>1. new \in Images /\ Sound(new)
      BY <1>11, ImageSound
    <3>2. f \in Files
      BY <1>11, <1>20 DEF Write
    <3>3. content[f].hdr \in [Specials -> Values]
      BY <1>1, <3>2 DEF ContentOK, Images
    <3> HIDE DEF new
    <3> QED BY <3>1, <3>3, HeaderSound
  <2>2. PICK written \in {image, Spoilt(image, "mixed")} :
          content' = [content EXCEPT ![f] = written]
    BY <1>20, ZenonT(30) DEF Write
  <2> HIDE DEF image, f
  <2>3. ContentOK'
    <3>1. written \in Images /\ Sound(written)
      BY <2>1, <2>2, SpoiltSound
    <3> QED BY <1>8, <2>2, <3>1, ZenonT(30)
  <2>4. ProcOK'
    <3>1. CASE proc[p].op.commit
      <4>1. r \in Records /\ Clean(r)
        BY <1>11, IdleSound, ZenonT(30) DEF Records, Clean, Pcs, Idle
      <4>2. proc' = [proc EXCEPT ![p] = r]
        BY <1>20, <3>1, ZenonT(30) DEF Write
      <4> HIDE DEF r
      <4> QED BY <1>7, <4>1, <4>2, ZenonT(30)
    <3>2. CASE ~proc[p].op.commit
      BY <1>10, <1>20, <3>2 DEF Write
    <3> QED BY <3>1, <3>2
  <2> QED BY <1>2, <1>3, <1>4, <1>6, <1>20, <2>3, <2>4 DEF Write
<1>21. ASSUME NEW p \in Procs, SaveRead(p) PROVE SoundState'
  <2>1. CASE staging # NoFile /\ content[staging].state # "empty"
    <3>0. PICK image \in {content[staging], Spoilt(content[staging], "mixed")} :
            proc' = [proc EXCEPT ![p].pc = "flash", ![p].buf = image]
      BY <1>21, <2>1, ZenonT(30) DEF SaveRead, Found
    <3> DEFINE r == [proc[p] EXCEPT !.pc = "flash", !.buf = image]
    <3>1. image \in Images /\ Sound(image)
      <4>1. content[staging] \in Images /\ Sound(content[staging])
        BY <1>1, <2>1 DEF ContentOK, StagingOK
      <4> QED BY <3>0, <4>1, SpoiltSound
    <3>2. r \in Records /\ Clean(r)
      BY <1>11, <3>1, ZenonT(30) DEF Records, Clean, Pcs
    <3>3. proc' = [proc EXCEPT ![p] = r]
      BY <3>0, ZenonT(30)
    <3> HIDE DEF r
    <3>4. ProcOK'
      BY <1>7, <3>2, <3>3, ZenonT(30)
    <3> QED BY <1>2, <1>3, <1>4, <1>5, <1>6, <1>21, <3>4, SMTT(60) DEF SaveRead
  <2>2. CASE ~(staging # NoFile /\ content[staging].state # "empty")
    BY <1>2, <1>3, <1>4, <1>5, <1>6, <1>10, <1>21, <2>2, SMTT(60) DEF SaveRead
  <2> QED BY <2>1, <2>2
<1>22. ASSUME NEW p \in Procs, SaveWrite(p) PROVE SoundState'
  <2> DEFINE r == [proc[p] EXCEPT !.pc = "unlink", !.buf = Blank("empty")]
  <2>1. r \in Records /\ Clean(r)
    BY <1>9, <1>11, ZenonT(30) DEF Records, Clean, Pcs
  <2>2. proc' = [proc EXCEPT ![p] = r]
    BY <1>22, ZenonT(30) DEF SaveWrite
  <2> HIDE DEF r
  <2>3. ProcOK'
    BY <1>7, <2>1, <2>2, ZenonT(30)
  <2>4. FlashOK'
    BY <1>11, <1>22 DEF SaveWrite, FlashOK
  <2> QED BY <1>2, <1>4, <1>5, <1>6, <1>22, <2>3, <2>4, SMTT(60) DEF SaveWrite
<1>23. ASSUME NEW p \in Procs, Unlink(p) PROVE SoundState'
  <2>1. ProcOK'
    BY <1>10, <1>23 DEF Unlink
  <2>2. ContentOK'
    BY <1>1, <1>9, <1>23, SMTT(60) DEF Unlink, ContentOK
  <2>3. StagingOK'
    BY <1>23 DEF Unlink, StagingOK
  <2> QED BY <1>2, <1>3, <1>6, <1>23, <2>1, <2>2, <2>3, SMTT(60) DEF Unlink
<1>24. ASSUME PowerLoss PROVE SoundState'
  <2>1. FlashOK'
    <3>1. \/ flash' = flash \/ flash' = Blank("torn")
          \/ \E p \in Procs : flash' = proc[p].buf \/ flash' = Spoilt(proc[p].buf, "cut")
      BY <1>24, ZenonT(30) DEF PowerLoss
    <3>2. ASSUME NEW p \in Procs PROVE Spoilt(proc[p].buf, "cut") \in Images
                                      /\ Sound(Spoilt(proc[p].buf, "cut"))
      BY <1>11, SpoiltSound
    <3> QED BY <1>1, <1>11, <3>1, <3>2, BlankSound, SMTT(60) DEF FlashOK
  <2>2. ContentOK'
    BY <1>9, <1>24 DEF PowerLoss, ContentOK
  <2>3. ProcOK'
    BY <1>24, IdleSound DEF PowerLoss, ProcOK
  <2>4. StagingOK'
    BY <1>24 DEF PowerLoss, StagingOK
  <2> QED BY <1>2, <1>6, <1>24, <2>1, <2>2, <2>3, <2>4, SMTT(60) DEF PowerLoss
<1>25. CASE UNCHANGED vars
  <2>1. ProcOK'
    BY <1>1, <1>25 DEF vars, ProcOK
  <2> QED BY <1>2, <1>3, <1>4, <1>5, <1>6, <1>25, <2>1, SMTT(60) DEF vars
<1> QED BY <1>13, <1>14, <1>15, <1>16, <1>17, <1>18, <1>19, <1>20, <1>21, <1>22, <1>23, <1>24, <1>25, SMTT(60)
        DEF Next, Run, Step

\* The variables have their types, the specials' header values included.
THEOREM TypeCorrect == Spec => []TypeOK
<1>1. SoundState => TypeOK
  BY SoundStateMeans
<1> QED BY <1>1, SoundInit, SoundStep, PTL DEF Spec

\* What the processes have in their hands is as sound as the images: the
\* tables _nvram_rehash builds and nvram_set and nvram_unset change have a name
\* in its own chain, and there once (nvram.c:74-91, 157-219).
THEOREM SoundHolds == Spec => []SoundInv
<1>1. SoundState => SoundInv
  BY SoundStateMeans
<1> QED BY <1>1, SoundInit, SoundStep, PTL DEF Spec

\* An image the tool writes and nobody spoils while it does so has one tuple for
\* a name and fits the partition, also when it was made from a damaged data area
\* or from one another command was writing: nvram_set finds the tuple of a known
\* name, nvram_commit stops in time (nvram.c:184, 297-308).
THEOREM ImagesSoundHolds == Spec => []ImagesSound
<1>1. SoundState => ImagesSound
  BY SoundStateMeans
<1> QED BY <1>1, SoundInit, SoundStep, PTL DEF Spec

-------------------------------------------------------------------------------
(* Staging files get their content                                         *)

\* what FileInv says of one process
Holds(r) ==
  /\ r.pc \in {"fill", "hash", "clear", "write"} <=> r.file # NoFile
  /\ r.pc \in {"create", "fill", "flash"} => r.buf.state # "empty"

\* an empty staging file has a process that is going to fill it
Filler ==
  staging # NoFile /\ content[staging].state = "empty" =>
    \E p \in Procs : proc[p].pc = "fill" /\ proc[p].file = staging

\* Every step keeps what is known of open files.
LEMMA FileStep == TypeOK /\ TypeOK' /\ FileInv /\ [Next]_vars => FileInv'
<1> SUFFICES ASSUME TypeOK, TypeOK', FileInv, [Next]_vars PROVE FileInv'
  OBVIOUS
<1>1. flash.state # "empty" /\ (\A p \in Procs : Holds(proc[p])) /\ Filler
  BY DEF FileInv, Holds, Filler
<1>2. flash'.state # "empty" /\ (\A p \in Procs : Holds(proc'[p])) /\ Filler' => FileInv'
  BY DEF FileInv, Holds, Filler
<1>3. NoFile \notin Files
  BY CommandsAssumption, FS_CardinalityType, SMTT(60) DEF Files, NoFile
<1>4. /\ proc \in [Procs -> Records] /\ content \in [Files -> Images]
      /\ staging \in Files \cup {NoFile}
  BY DEF TypeOK, Records, Pcs, Tables, Pairs
<1>5. proc' \in [Procs -> Records] /\ content' \in [Files -> Images]
  BY DEF TypeOK, Records, Pcs, Tables, Pairs
<1>6. Holds(Idle) /\ Idle.pc = "idle"
  BY DEF Idle, Holds, NoFile
\* a step of p leaves the records of the others alone
<1>7. ASSUME NEW p \in Procs, NEW r, proc' = [proc EXCEPT ![p] = r], Holds(r)
      PROVE  /\ proc'[p] = r /\ \A q \in Procs : q # p => proc'[q] = proc[q]
             /\ \A q \in Procs : Holds(proc'[q])
  <2>1. proc'[p] = r /\ \A q \in Procs : q # p => proc'[q] = proc[q]
    BY <1>4, <1>7, SMTT(60)
  <2> QED BY <1>1, <1>7, <2>1
<1>8. ASSUME NEW p \in Procs, NEW f, NEW r \in Records, Enter(p, f, r), Holds(r)
       PROVE  /\ \A q \in Procs : q # p => proc'[q].pc = proc[q].pc /\ proc'[q].file = proc[q].file
              /\ \A q \in Procs : Holds(proc'[q])
  <2>1. Same(proc'[p], r) /\ \A q \in Procs : q # p => Same(proc'[q], proc[q])
    BY <1>4, <1>8, Entered, ZenonT(30)
  <2>2. \A x, y : Same(x, y) /\ Holds(y) => Holds(x)
    BY DEF Same, Holds
  <2>3. ASSUME NEW q \in Procs PROVE Holds(proc'[q])
    <3>1. CASE q = p
      BY <1>8, <2>1, <2>2, <3>1, ZenonT(30)
    <3>2. CASE q # p
      BY <1>1, <2>1, <2>2, <3>2, ZenonT(30)
    <3> QED BY <3>1, <3>2
  <2> QED BY <2>1, <2>3 DEF Same
\* a process that is not filling a file is not missed
<1>9. ASSUME NEW p \in Procs, proc[p].pc # "fill",
             \A q \in Procs : q # p => proc'[q].pc = proc[q].pc /\ proc'[q].file = proc[q].file,
             staging' = staging, staging # NoFile /\ content'[staging].state = "empty" =>
                                   content[staging].state = "empty"
      PROVE  Filler'
  BY <1>1, <1>9, SMTT(60) DEF Filler
<1>10. ASSUME NEW p \in Procs, proc[p].pc # "fill", Exit(p), UNCHANGED <<flash, staging, content>>
      PROVE  FileInv'
  BY <1>1, <1>2, <1>6, <1>7, <1>9, <1>10, SMTT(60) DEF Exit
<1>11. ASSUME NEW p \in Procs PROVE proc[p] \in Records /\ Holds(proc[p])
  BY <1>1, <1>4, SMTT(60)
<1>12. ASSUME NEW p \in Procs, NEW op \in Commands[solo][p], Start(p, op) PROVE FileInv'
  <2> DEFINE pc == CASE op.kind = "get" -> "save"
                     [] op.kind # "get" /\ staging = NoFile -> "load"
                     [] OTHER -> "open"
             r == [proc[p] EXCEPT !.op = op, !.pc = pc]
  <2>1. pc \in {"save", "load", "open"}
    OBVIOUS
  <2>2. /\ proc' = [proc EXCEPT ![p] = r] /\ proc[p].pc = "idle"
        /\ UNCHANGED <<flash, staging, content>>
    BY <1>12, ZenonT(30) DEF Start
  <2> HIDE DEF pc
  <2>3. r.pc = pc /\ r.file = proc[p].file
    BY <1>11 DEF Records
  <2>4. Holds(r)
    BY <1>11, <2>1, <2>2, <2>3 DEF Holds
  <2> HIDE DEF r
  <2> QED BY <1>1, <1>2, <1>7, <1>9, <2>2, <2>4, SMTT(60)
<1>13. ASSUME NEW p \in Procs, Load(p) PROVE FileInv'
  <2> DEFINE r == [proc[p] EXCEPT !.pc = "create", !.buf = flash]
  <2>1. /\ proc' = [proc EXCEPT ![p] = r] /\ proc[p].pc = "load"
        /\ UNCHANGED <<flash, staging, content>>
    BY <1>13, ZenonT(30) DEF Load
  <2>2. r.pc = "create" /\ r.file = proc[p].file /\ r.buf = flash
    BY <1>11 DEF Records
  <2> HIDE DEF r
  <2>3. Holds(r)
    BY <1>1, <1>11, <2>1, <2>2 DEF Holds
  <2> QED BY <1>1, <1>2, <1>7, <1>9, <2>1, <2>3
<1>14. ASSUME NEW p \in Procs, Create(p) PROVE FileInv'
  <2> DEFINE R(f) == [proc[p] EXCEPT !.pc = "fill", !.file = f]
  <2>1. ASSUME NEW f, f # NoFile PROVE Holds(R(f)) /\ R(f).pc = "fill" /\ R(f).file = f
    <3>1. R(f).pc = "fill" /\ R(f).file = f /\ R(f).buf = proc[p].buf
      BY <1>11 DEF Records
    <3>2. proc[p].pc = "create"
      BY <1>14 DEF Create
    <3> HIDE DEF R
    <3> QED BY <1>11, <2>1, <3>1, <3>2, SMTT(60) DEF Holds
  <2>2. CASE staging # NoFile
    <3>1. /\ proc' = [proc EXCEPT ![p] = R(staging)] /\ proc[p].pc = "create"
          /\ UNCHANGED <<flash, staging, content>>
      BY <1>14, <2>2, ZenonT(30) DEF Create
    <3> HIDE DEF R
    <3> QED BY <1>1, <1>2, <1>7, <1>9, <2>1, <2>2, <3>1, SMTT(60)
  <2>3. CASE staging = NoFile
    <3> DEFINE f == Min(Files \ {proc[q].file : q \in Procs})
    <3>1. proc' = [proc EXCEPT ![p] = R(f)] /\ staging' = f /\ UNCHANGED flash
      BY <1>14, <2>3, ZenonT(30) DEF Create
    <3> DEFINE held == [q \in Procs |-> proc[q].file]
    <3>2. f \in Files
      <4>1. held \in [Procs -> Files \cup {NoFile}]
        BY <1>4 DEF Records
      <4>2. {held[q] : q \in Procs} = {proc[q].file : q \in Procs}
        OBVIOUS
      <4> HIDE DEF held
      <4> QED BY <4>1, <4>2, FreeFile
    <3> HIDE DEF f, R
    <3>3. /\ proc'[p].pc = "fill" /\ proc'[p].file = staging'
          /\ \A q \in Procs : Holds(proc'[q])
      BY <1>3, <1>7, <2>1, <3>1, <3>2, ZenonT(30)
    <3>4. Filler'
      BY <3>3 DEF Filler
    <3> QED BY <1>1, <1>2, <3>1, <3>3, <3>4
  <2> QED BY <2>2, <2>3, SMTT(60)
<1>15. ASSUME NEW p \in Procs, Fill(p) PROVE FileInv'
  <2> DEFINE r == [proc[p] EXCEPT !.pc = "open", !.file = NoFile, !.buf = Blank("empty")]
             f == proc[p].file
  <2>0. PICK image \in {proc[p].buf, Spoilt(proc[p].buf, "mixed")} :
          content' = [content EXCEPT ![f] = image]
    BY <1>15, ZenonT(30) DEF Fill
  <2>1. proc[p].pc = "fill" /\ Enter(p, f, r) /\ UNCHANGED <<flash, staging>>
    BY <1>15, ZenonT(30) DEF Fill
  <2>2. r \in Records /\ r.pc = "open" /\ r.file = NoFile
    BY <1>11, BlankSound, ZenonT(30) DEF Records, Pcs
  <2> HIDE DEF r
  <2>3. Holds(r)
    BY <2>2 DEF Holds
  <2>4. image.state # "empty"
    <3>1. proc[p].buf.state # "empty" /\ proc[p].buf \in Images
      BY <1>11, <2>1 DEF Holds, Records
    <3> QED BY <2>0, <3>1 DEF Spoilt, Images
  <2>5. /\ \A q \in Procs : q # p => proc'[q].pc = proc[q].pc /\ proc'[q].file = proc[q].file
        /\ \A q \in Procs : Holds(proc'[q])
    BY <1>8, <2>1, <2>2, <2>3, ZenonT(30)
  <2>6. Filler'
    <3> SUFFICES ASSUME staging # NoFile, content'[staging].state = "empty"
                 PROVE  \E q \in Procs : proc'[q].pc = "fill" /\ proc'[q].file = staging
      BY <2>1 DEF Filler
    <3>1. staging \in Files
      BY <1>4
    <3>2. staging # f /\ content[staging].state = "empty"
      BY <1>4, <2>0, <2>4, <3>1, SMTT(60)
    <3>3. PICK q \in Procs : proc[q].pc = "fill" /\ proc[q].file = staging
      BY <1>1, <3>2 DEF Filler
    <3> QED BY <2>5, <3>2, <3>3, SMTT(60)
  <2> QED BY <1>1, <1>2, <2>1, <2>5, <2>6
<1>16. ASSUME NEW p \in Procs, Open(p) PROVE FileInv'
  <2>1. CASE staging # NoFile /\ Opens(content[staging])
    <3> DEFINE r == [proc[p] EXCEPT !.pc = "hash", !.file = staging]
    <3>1. /\ Enter(p, staging, r) /\ proc[p].pc = "open"
          /\ UNCHANGED <<flash, staging, content>>
      BY <1>16, <2>1, ZenonT(30) DEF Open
    <3>2. r \in Records /\ r.pc = "hash" /\ r.file = staging
      BY <1>4, <1>11, ZenonT(30) DEF Records, Pcs
    <3> HIDE DEF r
    <3>3. Holds(r)
      BY <2>1, <3>2 DEF Holds
    <3>4. /\ \A q \in Procs : q # p => proc'[q].pc = proc[q].pc /\ proc'[q].file = proc[q].file
          /\ \A q \in Procs : Holds(proc'[q])
      BY <1>8, <3>1, <3>2, <3>3, ZenonT(30)
    <3> QED BY <1>1, <1>2, <1>9, <3>1, <3>4, SMTT(60)
  <2>2. CASE ~(staging # NoFile /\ Opens(content[staging]))
    BY <1>10, <1>16, <2>2, SMTT(60) DEF Open
  <2> QED BY <2>1, <2>2
<1>17. ASSUME NEW p \in Procs, Rehash(p) PROVE FileInv'
  <2> DEFINE f == proc[p].file
             R(table) == [proc[p] EXCEPT !.pc = "clear", !.clash = FALSE, !.table = table]
  <2>1. PICK image \in {content[f], Spoilt(content[f], "mixed")} :
          /\ content' = [content EXCEPT ![f] = image]
          /\ \/ \E table : proc' = [proc EXCEPT ![p].pc = "clear", ![p].clash = FALSE,
                                               ![p].table = table]
             \/ Exit(p)
    BY <1>17, ZenonT(60) DEF Rehash
  <2>2. proc[p].pc = "hash" /\ UNCHANGED <<flash, staging>>
    BY <1>17 DEF Rehash
  <2>3. staging # NoFile /\ content'[staging].state = "empty" => content[staging].state = "empty"
    <3> SUFFICES ASSUME staging \in Files, content'[staging].state = "empty"
                 PROVE  content[staging].state = "empty"
      BY <1>4
    <3>1. CASE staging = f
      <4>1. content[f] \in Images /\ content'[staging] = image
        BY <1>4, <2>1, <3>1
      <4> QED BY <2>1, <3>1, <4>1 DEF Spoilt, Images
    <3>2. CASE staging # f
      BY <1>4, <2>1, <3>2
    <3> QED BY <3>1, <3>2
  <2>4. CASE Exit(p)
    BY <1>1, <1>2, <1>6, <1>7, <1>9, <2>2, <2>3, <2>4, SMTT(60) DEF Exit
  <2>5. ASSUME NEW table, proc' = [proc EXCEPT ![p].pc = "clear", ![p].clash = FALSE,
                                               ![p].table = table]
        PROVE  FileInv'
    <3>1. proc' = [proc EXCEPT ![p] = R(table)]
      BY <2>5, ZenonT(30)
    <3>2. R(table).pc = "clear" /\ R(table).file = f
      BY <1>11 DEF Records
    <3> HIDE DEF R
    <3>3. Holds(R(table))
      BY <1>11, <2>2, <3>2 DEF Holds
    <3> QED BY <1>1, <1>2, <1>7, <1>9, <2>2, <2>3, <3>1, <3>3, SMTT(60)
  <2> QED BY <2>1, <2>4, <2>5
<1>18. ASSUME NEW p \in Procs, Clear(p) PROVE FileInv'
  <2> DEFINE table == Apply(proc[p].table, proc[p].op)
             r == [proc[p] EXCEPT !.pc = "write", !.table = table]
             f == proc[p].file
             image == [Spoilt(content[f], "mixed") EXCEPT !.hdr = Header(table)]
  <2>1. f \in Files
    BY <1>4, <1>11, <1>18 DEF Clear, Holds, Records
  <2>2. /\ proc[p].pc = "clear" /\ Enter(p, f, r) /\ UNCHANGED <<flash, staging>>
        /\ content' = [content EXCEPT ![f] = image]
    BY <1>18, <2>1, ZenonT(30) DEF Clear
  <2>3. image.state = "mixed"
    <3>1. content[f] \in Images
      BY <1>4, <2>1
    <3> HIDE DEF table
    <3> QED BY <3>1, ZenonT(30) DEF Spoilt, Images
  <2>4. r \in Records /\ r.pc = "write" /\ r.file = f
    <3>1. table \in Tables
      <4>1. proc'[p] = [r EXCEPT !.clash = AtWork(f) \ {p} # {}]
        BY <2>2 DEF Enter
      <4>2. proc'[p].table = table
        <5> HIDE DEF table
        <5> QED BY <1>11, <4>1 DEF Records
      <4>3. proc'[p] \in Records
        BY <1>5
      <4> QED BY <4>2, <4>3 DEF Records
    <3> HIDE DEF table
    <3> QED BY <1>11, <3>1, ZenonT(30) DEF Records, Pcs
  <2> HIDE DEF r, image
  <2>5. Holds(r)
    BY <1>11, <2>2, <2>4 DEF Holds
  <2>6. /\ \A q \in Procs : q # p => proc'[q].pc = proc[q].pc /\ proc'[q].file = proc[q].file
        /\ \A q \in Procs : Holds(proc'[q])
    BY <1>8, <2>2, <2>4, <2>5, ZenonT(30)
  <2>7. staging # NoFile /\ content'[staging].state = "empty" => content[staging].state = "empty"
    BY <1>4, <2>1, <2>2, <2>3
  <2> QED BY <1>1, <1>2, <1>9, <2>2, <2>6, <2>7, SMTT(60)
<1>19. ASSUME NEW p \in Procs, Write(p) PROVE FileInv'
  <2> DEFINE f == proc[p].file
             image == [Image(proc[p].table) EXCEPT !.hdr = content[f].hdr]
             r == [proc[p] EXCEPT !.pc = "save", !.file = NoFile, !.table = EmptyTable,
                                  !.clash = FALSE]
  <2>0. PICK written \in {image, Spoilt(image, "mixed")} :
          content' = [content EXCEPT ![f] = written]
    BY <1>19, ZenonT(30) DEF Write
  <2>1. proc[p].pc = "write" /\ UNCHANGED <<flash, staging>>
    BY <1>19 DEF Write
  <2>2. written.state # "empty"
    BY <2>0 DEF Image, Spoilt
  <2> HIDE DEF image
  <2>3. staging # NoFile /\ content'[staging].state = "empty" => content[staging].state = "empty"
    BY <1>4, <2>0, <2>1, <2>2, SMTT(60)
  <2>4. CASE proc[p].op.commit
    <3>1. proc' = [proc EXCEPT ![p] = r]
      BY <1>19, <2>4, ZenonT(30) DEF Write
    <3>2. r.pc = "save" /\ r.file = NoFile
      BY <1>11 DEF Records
    <3> HIDE DEF r
    <3>3. Holds(r)
      BY <3>2 DEF Holds
    <3> QED BY <1>1, <1>2, <1>7, <1>9, <2>1, <2>3, <3>1, <3>3, SMTT(60)
  <2>5. CASE ~proc[p].op.commit
    <3>1. Exit(p)
      BY <1>19, <2>5 DEF Write
    <3> QED BY <1>1, <1>2, <1>6, <1>7, <1>9, <2>1, <2>3, <3>1, SMTT(60) DEF Exit
  <2> QED BY <2>4, <2>5
<1>20. ASSUME NEW p \in Procs, SaveRead(p) PROVE FileInv'
  <2>1. CASE staging # NoFile /\ content[staging].state # "empty"
    <3>0. PICK image \in {content[staging], Spoilt(content[staging], "mixed")} :
            proc' = [proc EXCEPT ![p].pc = "flash", ![p].buf = image]
      BY <1>20, <2>1, ZenonT(30) DEF SaveRead, Found
    <3> DEFINE r == [proc[p] EXCEPT !.pc = "flash", !.buf = image]
    <3>1. /\ proc' = [proc EXCEPT ![p] = r] /\ proc[p].pc = "save"
          /\ UNCHANGED <<flash, staging, content>>
      BY <1>20, <3>0, ZenonT(30) DEF SaveRead
    <3>2. r.pc = "flash" /\ r.file = proc[p].file /\ r.buf = image
      BY <1>11 DEF Records
    <3>4. image.state # "empty"
      <4>1. content[staging] \in Images
        BY <1>4, <2>1
      <4> QED BY <2>1, <3>0, <4>1 DEF Spoilt, Images
    <3> HIDE DEF r
    <3>3. Holds(r)
      BY <1>11, <3>1, <3>2, <3>4 DEF Holds
    <3> QED BY <1>1, <1>2, <1>7, <1>9, <3>1, <3>3, SMTT(60)
  <2>2. CASE ~(staging # NoFile /\ content[staging].state # "empty")
    BY <1>10, <1>20, <2>2, SMTT(60) DEF SaveRead
  <2> QED BY <2>1, <2>2
<1>21. ASSUME NEW p \in Procs, SaveWrite(p) PROVE FileInv'
  <2> DEFINE r == [proc[p] EXCEPT !.pc = "unlink", !.buf = Blank("empty")]
  <2>1. /\ proc' = [proc EXCEPT ![p] = r] /\ proc[p].pc = "flash" /\ flash' = proc[p].buf
        /\ UNCHANGED <<staging, content>>
    BY <1>21, ZenonT(30) DEF SaveWrite
  <2>2. r.pc = "unlink" /\ r.file = proc[p].file
    BY <1>11 DEF Records
  <2> HIDE DEF r
  <2>3. Holds(r) /\ flash'.state # "empty"
    BY <1>11, <2>1, <2>2 DEF Holds
  <2> QED BY <1>2, <1>7, <1>9, <2>1, <2>3, ZenonT(30)
<1>22. ASSUME NEW p \in Procs, Unlink(p) PROVE FileInv'
  <2>1. staging' = NoFile /\ UNCHANGED flash /\ Exit(p)
    BY <1>22 DEF Unlink
  <2>2. Filler'
    BY <2>1 DEF Filler
  <2> QED BY <1>1, <1>2, <1>6, <1>7, <2>1, <2>2, SMTT(60) DEF Exit
<1>23. ASSUME PowerLoss PROVE FileInv'
  <2>1. \/ flash' = flash \/ flash' = Blank("torn")
        \/ \E p \in Procs : /\ proc[p].pc = "flash"
                            /\ flash' = proc[p].buf \/ flash' = Spoilt(proc[p].buf, "cut")
    BY <1>23, ZenonT(30) DEF PowerLoss
  <2>5. ASSUME NEW p \in Procs PROVE Spoilt(proc[p].buf, "cut").state = "cut"
    BY <1>11 DEF Spoilt, Records, Images
  <2>2. flash'.state # "empty"
    BY <1>1, <1>11, <2>1, <2>5, BlankSound, SMTT(60) DEF Holds
  <2>3. \A p \in Procs : Holds(proc'[p])
    BY <1>6, <1>23, SMTT(60) DEF PowerLoss
  <2>4. Filler'
    BY <1>23 DEF PowerLoss, Filler
  <2> QED BY <1>2, <2>2, <2>3, <2>4, SMTT(60)
<1>24. CASE UNCHANGED vars
  BY <1>24 DEF vars, FileInv
<1> QED BY <1>12, <1>13, <1>14, <1>15, <1>16, <1>17, <1>18, <1>19, <1>20, <1>21, <1>22, <1>23, <1>24, SMTT(60)
        DEF Next, Run, Step

\* A process holds a file while it fills or changes it, and an empty staging
\* file has a process that is going to fill it, with what it read from the
\* partition (nvram.c:485-502).
THEOREM FileHolds == Spec => []FileInv
<1>1. Init => FileInv
  BY FlashAssumption DEF Init, FileInv, Idle
<1> QED BY <1>1, FileStep, TypeCorrect, PTL DEF Spec

\* However many commands overlap, none leaves an empty staging file behind:
\* whoever creates the file fills it (nvram.c:496-498), even when another
\* process has used or removed it meanwhile.
THEOREM NoEmptyStagingHolds == Spec => []NoEmptyStaging
<1>1. FileInv => NoEmptyStaging
  BY SMTT(60) DEF FileInv, NoEmptyStaging
<1> QED BY <1>1, FileHolds, PTL

-------------------------------------------------------------------------------
(* One command at a time                                                   *)

\* what SoloInv says of the one process that may run
Alone(r) ==
  /\ r.pc \in {"load", "create"} => staging = NoFile
  /\ r.pc \in {"create", "fill", "flash"} => Whole(r.buf)
  /\ r.pc \in {"fill", "hash", "clear", "write"} => r.file = staging
  /\ ~r.clash

\* Every step keeps the run of a process that has the store to itself.
LEMMA SoloStep == TypeOK /\ TypeOK' /\ SoloInv /\ [Next]_vars => SoloInv'
<1> SUFFICES ASSUME TypeOK, TypeOK', SoloInv, [Next]_vars, solo' PROVE SoloInv'
  BY SMTT(60) DEF SoloInv
<1>0. solo
  BY ZenonT(30) DEF Next, Run, Step, Start, Load, Create, Fill, Open, Rehash, Clear, Write, SaveRead, SaveWrite,
         Unlink, PowerLoss, vars
<1>1. /\ Whole(flash)
      /\ \A p, q \in Procs : proc[p].pc # "idle" /\ proc[q].pc # "idle" => p = q
      /\ \A p \in Procs : Alone(proc[p])
      /\ staging = NoFile \/ (\E p \in Procs : proc[p].pc \in {"fill", "write"})
         \/ Whole(content[staging])
  BY <1>0, SMTT(60) DEF SoloInv, Alone
<1>2. /\ proc \in [Procs -> Records] /\ content \in [Files -> Images]
      /\ staging \in Files \cup {NoFile}
  BY DEF TypeOK, Records, Pcs, Tables, Pairs
<1>3. Idle.pc = "idle" /\ Idle.clash = FALSE
  BY DEF Idle
<1>4. ASSUME NEW p \in Procs
      PROVE  proc[p] \in Records /\ Alone(proc[p]) /\ proc[p].clash = FALSE
  <2>1. proc[p] \in Records /\ Alone(proc[p])
    BY <1>1, <1>2, SMTT(60)
  <2>2. proc[p].clash \in BOOLEAN
    BY <2>1 DEF Records
  <2> QED BY <2>1, <2>2, ZenonT(30) DEF Alone
\* the process that runs is the only one before and after its step
<1>5. ASSUME NEW p \in Procs, NEW r, proc'[p].pc = r.pc, proc'[p].buf = r.buf,
              proc'[p].file = r.file, ~proc'[p].clash,
              \A q \in Procs : q # p => proc'[q].pc = "idle" /\ ~proc'[q].clash,
              Whole(flash'), r.pc \in {"load", "create"} => staging' = NoFile,
              r.pc \in {"create", "fill", "flash"} => Whole(r.buf),
              r.pc \in {"fill", "hash", "clear", "write"} => r.file = staging',
              staging' = NoFile \/ r.pc \in {"fill", "write"} \/ Whole(content'[staging'])
       PROVE  SoloInv'
  <2>2. \A q, s \in Procs : proc'[q].pc # "idle" /\ proc'[s].pc # "idle" => q = s
    BY <1>5
  <2>3. ASSUME NEW q \in Procs
        PROVE  /\ proc'[q].pc \in {"load", "create"} => staging' = NoFile
               /\ proc'[q].pc \in {"create", "fill", "flash"} => Whole(proc'[q].buf)
               /\ proc'[q].pc \in {"fill", "hash", "clear", "write"} => proc'[q].file = staging'
               /\ ~proc'[q].clash
    <3>1. CASE q = p
      BY <1>5, <3>1, ZenonT(30)
    <3>2. CASE q # p
      BY <1>5, <3>2, ZenonT(30)
    <3> QED BY <3>1, <3>2, ZenonT(30)
  <2>4. \/ staging' = NoFile \/ (\E q \in Procs : proc'[q].pc \in {"fill", "write"})
        \/ Whole(content'[staging'])
    BY <1>5, ZenonT(30)
  <2> QED BY <1>5, <2>2, <2>3, <2>4, ZenonT(30) DEF SoloInv, Whole
<1>6. ASSUME NEW p \in Procs, NEW r, proc' = [proc EXCEPT ![p] = r], r.clash = FALSE,
             \A q \in Procs : q # p => proc[q].pc = "idle",
             Whole(flash'), r.pc \in {"load", "create"} => staging' = NoFile,
             r.pc \in {"create", "fill", "flash"} => Whole(r.buf),
             r.pc \in {"fill", "hash", "clear", "write"} => r.file = staging',
             staging' = NoFile \/ r.pc \in {"fill", "write"} \/ Whole(content'[staging'])
      PROVE  SoloInv'
  <2>1. proc'[p] = r /\ \A q \in Procs : q # p => proc'[q] = proc[q]
    BY <1>2, <1>6, ZenonT(30)
  <2>2. ~proc'[p].clash /\ \A q \in Procs : q # p => proc'[q].pc = "idle" /\ ~proc'[q].clash
    BY <1>4, <1>6, <2>1, ZenonT(30)
  <2> QED BY <1>6, <1>5, <2>1, <2>2, ZenonT(30)
<1>7. ASSUME NEW p \in Procs, NEW f, NEW r \in Records, Enter(p, f, r),
              \A q \in Procs : q # p => proc[q].pc = "idle",
              Whole(flash'), r.pc \in {"load", "create"} => staging' = NoFile,
              r.pc \in {"create", "fill", "flash"} => Whole(r.buf),
              r.pc \in {"fill", "hash", "clear", "write"} => r.file = staging',
              staging' = NoFile \/ r.pc \in {"fill", "write"} \/ Whole(content'[staging'])
       PROVE  SoloInv'
  <2>1. AtWork(f) \ {p} = {}
    BY <1>7 DEF AtWork
  <2>2. /\ Same(proc'[p], r) /\ ~proc'[p].clash
        /\ \A q \in Procs : q # p => Same(proc'[q], proc[q])
                                       /\ (proc'[q].clash => proc[q].clash \/ q \in AtWork(f))
    BY <1>2, <1>7, <2>1, Entered, ZenonT(30)
  <2>3. \A q \in Procs : q # p => proc'[q].pc = "idle" /\ ~proc'[q].clash
    BY <1>4, <1>7, <2>1, <2>2, ZenonT(30) DEF Same
  <2>4. proc'[p].pc = r.pc /\ proc'[p].buf = r.buf /\ proc'[p].file = r.file
    BY <2>2, ZenonT(30) DEF Same
  <2> QED BY <1>5, <1>7, <2>2, <2>3, <2>4, ZenonT(30)
<1>8. ASSUME NEW p \in Procs, proc[p].pc # "idle"
      PROVE  /\ \A q \in Procs : q # p => proc[q].pc = "idle"
             /\ proc[p].pc \notin {"fill", "write"} => staging = NoFile \/ Whole(content[staging])
  <2>1. \A q \in Procs : q # p => proc[q].pc = "idle"
    BY <1>1, <1>8, SMTT(60)
  <2> QED BY <1>1, <2>1, SMTT(60)
<1>9. ASSUME NEW p \in Procs, proc[p].pc # "idle", proc[p].pc \notin {"fill", "write"}, Exit(p),
             UNCHANGED <<flash, staging, content>>
      PROVE  SoloInv'
  BY <1>1, <1>3, <1>6, <1>8, <1>9, ZenonT(30) DEF Exit
<1>10. ASSUME NEW p \in Procs, NEW op \in Commands[solo][p], Start(p, op) PROVE SoloInv'
  <2> DEFINE pc == CASE op.kind = "get" -> "save"
                     [] op.kind # "get" /\ staging = NoFile -> "load"
                     [] OTHER -> "open"
             r == [proc[p] EXCEPT !.op = op, !.pc = pc]
  <2>1. pc \in {"save", "open"} \/ (pc = "load" /\ staging = NoFile)
    OBVIOUS
  <2>2. /\ proc' = [proc EXCEPT ![p] = r] /\ \A q \in Procs : proc[q].pc = "idle"
        /\ UNCHANGED <<flash, staging, content>>
    BY <1>0, <1>10, ZenonT(30) DEF Start
  <2> HIDE DEF pc
  <2>3. r.pc = pc /\ r.clash = FALSE
    BY <1>4 DEF Records
  <2> HIDE DEF r
  <2>4. staging = NoFile \/ Whole(content[staging])
    BY <1>1, <2>2
  <2> QED BY <1>1, <1>6, <2>1, <2>2, <2>3, <2>4, ZenonT(30)
<1>11. ASSUME NEW p \in Procs, Load(p) PROVE SoloInv'
  <2> DEFINE r == [proc[p] EXCEPT !.pc = "create", !.buf = flash]
  <2>1. /\ proc' = [proc EXCEPT ![p] = r] /\ proc[p].pc = "load"
        /\ UNCHANGED <<flash, staging, content>>
    BY <1>11, ZenonT(30) DEF Load
  <2>2. r.pc = "create" /\ r.buf = flash /\ r.clash = FALSE
    BY <1>4 DEF Records
  <2> HIDE DEF r
  <2>3. staging = NoFile
    BY <1>4, <2>1 DEF Alone
  <2> QED BY <1>1, <1>6, <1>8, <2>1, <2>2, <2>3, ZenonT(30)
<1>12. ASSUME NEW p \in Procs, Create(p) PROVE SoloInv'
  <2> DEFINE f == Min(Files \ {proc[q].file : q \in Procs})
             r == [proc[p] EXCEPT !.pc = "fill", !.file = f]
  <2>1. proc[p].pc = "create"
    BY <1>12 DEF Create
  <2>2. staging = NoFile /\ Whole(proc[p].buf)
    BY <1>4, <2>1 DEF Alone
  <2>3. proc' = [proc EXCEPT ![p] = r] /\ staging' = f /\ UNCHANGED flash
    BY <1>12, <2>2, ZenonT(30) DEF Create
  <2> HIDE DEF f
  <2>4. r.pc = "fill" /\ r.file = f /\ r.buf = proc[p].buf /\ r.clash = FALSE
    BY <1>4 DEF Records
  <2> HIDE DEF r
  <2> QED BY <1>1, <1>6, <1>8, <2>1, <2>2, <2>3, <2>4, ZenonT(30)
<1>13. ASSUME NEW p \in Procs, Fill(p) PROVE SoloInv'
  <2> DEFINE r == [proc[p] EXCEPT !.pc = "open", !.file = NoFile, !.buf = Blank("empty")]
             f == proc[p].file
  <2>1. Enter(p, f, r) /\ proc[p].pc = "fill" /\ UNCHANGED <<flash, staging>>
    BY <1>13, ZenonT(30) DEF Fill
  <2>2. r \in Records /\ r.pc = "open"
    BY <1>4, BlankSound, ZenonT(30) DEF Records, Pcs
  <2> HIDE DEF r
  <2>3. f = staging /\ Whole(proc[p].buf)
    BY <1>4, <2>1 DEF Alone
  <2>4. AtWork(f) = {}
    BY <1>8, <2>1 DEF AtWork
  <2>5. content' = [content EXCEPT ![f] = proc[p].buf]
    BY <1>13, <2>4 DEF Fill
  <2>6. staging = NoFile \/ Whole(content'[staging])
    BY <1>2, <2>3, <2>5
  <2> QED BY <1>1, <1>8, <1>7, <2>1, <2>2, <2>6, ZenonT(30)
<1>14. ASSUME NEW p \in Procs, Open(p) PROVE SoloInv'
  <2>0. proc[p].pc = "open" /\ UNCHANGED <<flash, staging, content>>
    BY <1>14, SMTT(60) DEF Open
  <2>1. CASE staging # NoFile /\ Opens(content[staging])
    <3> DEFINE r == [proc[p] EXCEPT !.pc = "hash", !.file = staging]
    <3>1. Enter(p, staging, r)
      BY <1>14, <2>1, ZenonT(30) DEF Open
    <3>2. r \in Records /\ r.pc = "hash" /\ r.file = staging
      BY <1>2, <1>4, ZenonT(30) DEF Records, Pcs
    <3> HIDE DEF r
    <3> QED BY <1>1, <1>8, <1>7, <2>0, <3>1, <3>2, ZenonT(30)
  <2>2. CASE ~(staging # NoFile /\ Opens(content[staging]))
    BY <1>9, <1>14, <2>0, <2>2 DEF Open
  <2> QED BY <2>1, <2>2
<1>15. ASSUME NEW p \in Procs, Rehash(p) PROVE SoloInv'
  <2> DEFINE R(table) == [proc[p] EXCEPT !.pc = "clear", !.clash = FALSE, !.table = table]
             f == proc[p].file
  <2>1. proc[p].pc = "hash" /\ UNCHANGED <<flash, staging>>
    BY <1>15 DEF Rehash
  <2>2. {proc[p].clash} \ {FALSE} = {}
    BY <1>4
  <2>3. /\ content' = [content EXCEPT ![f] = content[f]]
        /\ \/ \E table : proc' = [proc EXCEPT ![p].pc = "clear", ![p].clash = FALSE,
                                             ![p].table = table]
           \/ Exit(p)
    BY <1>15, <2>2, ZenonT(60) DEF Rehash
  <2>4. UNCHANGED content
    BY <1>2, <2>3, ZenonT(30)
  <2>5. f = staging
    BY <1>4, <2>1 DEF Alone
  <2>6. CASE Exit(p)
    BY <1>9, <2>1, <2>4, <2>6
  <2>7. ASSUME NEW table, proc' = [proc EXCEPT ![p].pc = "clear", ![p].clash = FALSE,
                                               ![p].table = table]
        PROVE  SoloInv'
    <3>1. proc' = [proc EXCEPT ![p] = R(table)]
      BY <2>7, ZenonT(30)
    <3>2. R(table).pc = "clear" /\ R(table).file = f /\ R(table).clash = FALSE
      BY <1>4 DEF Records
    <3> HIDE DEF R
    <3> QED BY <1>1, <1>6, <1>8, <2>1, <2>4, <2>5, <3>1, <3>2, ZenonT(30)
  <2> QED BY <2>3, <2>6, <2>7
<1>16. ASSUME NEW p \in Procs, Clear(p) PROVE SoloInv'
  <2> DEFINE table == Apply(proc[p].table, proc[p].op)
             r == [proc[p] EXCEPT !.pc = "write", !.table = table]
             f == proc[p].file
  <2>1. Enter(p, f, r) /\ proc[p].pc = "clear" /\ UNCHANGED <<flash, staging>>
    BY <1>16, ZenonT(30) DEF Clear
  <2>2. r \in Records /\ r.pc = "write" /\ r.file = f
    <3>1. table \in Tables
      <4>1. proc'[p] = [r EXCEPT !.clash = AtWork(f) \ {p} # {}]
        BY <2>1 DEF Enter
      <4>2. proc'[p].table = table
        <5> HIDE DEF table
        <5> QED BY <1>4, <4>1 DEF Records
      <4>3. proc'[p].table \in Tables
        BY DEF TypeOK, Tables, Pairs
      <4> QED BY <4>2, <4>3
    <3> HIDE DEF table
    <3> QED BY <1>4, <3>1, ZenonT(30) DEF Records, Pcs
  <2> HIDE DEF r
  <2>3. f = staging
    BY <1>4, <2>1 DEF Alone
  <2> QED BY <1>1, <1>8, <1>7, <2>1, <2>2, <2>3, ZenonT(30)
<1>17. ASSUME NEW p \in Procs, Write(p) PROVE SoloInv'
  <2> DEFINE f == proc[p].file
             image == [Image(proc[p].table) EXCEPT !.hdr = content[f].hdr]
             r == [proc[p] EXCEPT !.pc = "save", !.file = NoFile, !.table = EmptyTable,
                                  !.clash = FALSE]
  <2>0. {proc[p].clash} \ {FALSE} = {}
    BY <1>4
  <2>1. /\ proc[p].pc = "write" /\ content' = [content EXCEPT ![f] = image]
        /\ UNCHANGED <<flash, staging>>
    BY <1>17, <2>0 DEF Write
  <2>2. Whole(image)
    BY DEF Image, Whole
  <2> HIDE DEF image
  <2>3. f = staging
    BY <1>4, <2>1, ZenonT(30) DEF Alone
  <2>4. staging = NoFile \/ Whole(content'[staging])
    BY <1>2, <2>1, <2>2, <2>3, SMTT(60)
  <2>5. CASE proc[p].op.commit
    <3>1. proc' = [proc EXCEPT ![p] = r]
      BY <1>17, <2>5, ZenonT(30) DEF Write
    <3>2. r.pc = "save" /\ r.clash = FALSE
      BY <1>4 DEF Records
    <3> HIDE DEF r
    <3> QED BY <1>1, <1>6, <1>8, <2>1, <2>4, <3>1, <3>2, ZenonT(30)
  <2>6. CASE ~proc[p].op.commit
    <3>1. Exit(p)
      BY <1>17, <2>6 DEF Write
    <3> QED BY <1>1, <1>3, <1>6, <1>8, <2>1, <2>4, <3>1, ZenonT(30) DEF Exit
  <2> QED BY <2>5, <2>6
<1>18. ASSUME NEW p \in Procs, SaveRead(p) PROVE SoloInv'
  <2>1. CASE staging # NoFile /\ content[staging].state # "empty"
    <3> DEFINE r == [proc[p] EXCEPT !.pc = "flash", !.buf = content[staging]]
    <3>0. proc[p].pc = "save" /\ UNCHANGED <<flash, staging, content>>
      BY <1>18 DEF SaveRead
    <3>4. Found(p, staging) = {content[staging]}
      BY <1>8, <3>0 DEF Found, AtWork
    <3>1. /\ proc' = [proc EXCEPT ![p] = r] /\ proc[p].pc = "save"
          /\ UNCHANGED <<flash, staging, content>>
      BY <1>18, <2>1, <3>0, <3>4, ZenonT(30) DEF SaveRead
    <3>2. r.pc = "flash" /\ r.buf = content[staging] /\ r.clash = FALSE
      BY <1>4 DEF Records
    <3> HIDE DEF r
    <3>3. Whole(content[staging])
      BY <1>8, <2>1, <3>1
    <3> QED BY <1>1, <1>6, <1>8, <3>1, <3>2, <3>3, ZenonT(30)
  <2>2. CASE ~(staging # NoFile /\ content[staging].state # "empty")
    BY <1>9, <1>18, <2>2, SMTT(60) DEF SaveRead
  <2> QED BY <2>1, <2>2, SMTT(60)
<1>19. ASSUME NEW p \in Procs, SaveWrite(p) PROVE SoloInv'
  <2> DEFINE r == [proc[p] EXCEPT !.pc = "unlink", !.buf = Blank("empty")]
  <2>1. /\ proc' = [proc EXCEPT ![p] = r] /\ proc[p].pc = "flash" /\ flash' = proc[p].buf
        /\ UNCHANGED <<staging, content>>
    BY <1>19, ZenonT(30) DEF SaveWrite
  <2>2. r.pc = "unlink" /\ r.clash = FALSE
    BY <1>4 DEF Records
  <2> HIDE DEF r
  <2>3. Whole(flash')
    BY <1>4, <2>1 DEF Alone
  <2> QED BY <1>6, <1>8, <2>1, <2>2, <2>3, ZenonT(30)
<1>20. ASSUME NEW p \in Procs, Unlink(p) PROVE SoloInv'
  <2>1. staging' = NoFile /\ UNCHANGED flash /\ Exit(p) /\ proc[p].pc = "unlink"
    BY <1>20 DEF Unlink
  <2> QED BY <1>1, <1>3, <1>6, <1>8, <2>1, ZenonT(30) DEF Exit
<1>21. ASSUME PowerLoss PROVE SoloInv'
  <2>1. \/ flash' = flash \/ flash' = Blank("torn")
        \/ \E p \in Procs : /\ proc[p].pc = "flash"
                            /\ flash' = proc[p].buf \/ flash' = Spoilt(proc[p].buf, "cut")
    BY <1>21, ZenonT(30) DEF PowerLoss
  <2>5. ASSUME NEW p \in Procs PROVE Whole(Spoilt(proc[p].buf, "cut"))
    BY <1>4 DEF Spoilt, Records, Images, Whole
  <2>2. Whole(Blank("torn"))
    BY BlankSound, SMTT(60) DEF Whole
  <2>3. Whole(flash')
    BY <1>1, <1>4, <2>1, <2>2, <2>5, SMTT(60) DEF Alone
  <2>4. staging' = NoFile /\ \A p \in Procs : proc'[p].pc = "idle" /\ ~proc'[p].clash
    BY <1>3, <1>21, ZenonT(30) DEF PowerLoss
  <2> QED BY <2>3, <2>4, ZenonT(30) DEF SoloInv, Whole
<1>22. CASE UNCHANGED vars
  BY <1>22, ZenonT(30) DEF vars, SoloInv, Whole
<1> QED BY <1>10, <1>11, <1>12, <1>13, <1>14, <1>15, <1>16, <1>17, <1>18, <1>19, <1>20, <1>21, <1>22, SMTT(60)
        DEF Next, Run, Step

\* Where a command is on its way, when no other runs: it finds the staging
\* file as it left it, and the image it copies to the partition is whole.
THEOREM SoloHolds == Spec => []SoloInv
<1>1. Init => SoloInv
  BY FlashAssumption, SMTT(60) DEF Init, SoloInv, Idle, Whole
<1> QED BY <1>1, SoloStep, TypeCorrect, PTL DEF Spec

\* Commands that never overlap leave a whole image in the staging file and in
\* the partition, or what a power loss left: nobody reads the mapping between
\* memset and the tuples (nvram.c:293-306).
THEOREM WholeIfSoloHolds == Spec => []WholeIfSolo
<1>1. SoloInv => WholeIfSolo
  BY DEF SoloInv, WholeIfSolo, Whole
<1> QED BY <1>1, SoloHolds, PTL
===============================================================================
