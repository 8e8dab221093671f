-------------------------- MODULE Ag71xxRings_proof --------------------------
(***************************************************************************)
(* Proofs about the two DMA rings of the ag71xx driver, for rings,         *)
(* counters, packets and budgets of every size and on every chip:          *)
(*   - counters that run modulo CounterMod over a ring of RingSize slots,  *)
(*     the arithmetic behind "counter & ring_mask" and behind unsigned     *)
(*     differences, first for remainders in general and then for the       *)
(*     operators of RingCounters;                                          *)
(*   - the transmit ring and its restart work: type correctness needs no   *)
(*     assumption, the ring is proved sound for SafeConfig;                *)
(*   - the receive ring with its poll.                                     *)
(* The two rings share no variable: what is proved of one is a statement   *)
(* about its own specification.                                            *)
(***************************************************************************)
EXTENDS Ag71xxTxRestart, Ag71xxRxNapi, Sequences, TLAPS

-----------------------------------------------------------------------------
(* Remainders *)

\* Division with remainder, the definition of \div and %.
LEMMA DivMod ==
    ASSUME NEW x \in Int, NEW n \in Nat \ {0}
    PROVE  /\ x \div n \in Int /\ x % n \in 0 .. n - 1
           /\ x = n * (x \div n) + (x % n)
  BY Z3

\* A multiple of n that is not 0 is at least n away from 0.
LEMMA MultipleFar ==
    ASSUME NEW n \in Nat \ {0}, NEW q \in Int
    PROVE  /\ q >= 1 => n * q >= n
           /\ q <= -1 => n * q <= -n
<1>1. ASSUME q >= 1 PROVE n * q >= n
  BY <1>1, Z3
<1>2. ASSUME q <= -1 PROVE n * q <= -n
  BY <1>2, Z3
<1> QED BY <1>1, <1>2

\* Multiplication distributes over sum and difference.
LEMMA Distribute ==
    ASSUME NEW n \in Int, NEW p \in Int, NEW q \in Int
    PROVE  n * (p - q) = n * p - n * q /\ n * (p + q) = n * p + n * q
  BY Z3

\* The remainder is the only number below n that differs by a multiple of n.
LEMMA ModUnique ==
    ASSUME NEW n \in Nat \ {0}, NEW q \in Int, NEW r \in 0 .. n - 1
    PROVE  (n * q + r) % n = r
  BY Z3

\* Going round the ring k times ends in the same slot.
LEMMA ModAddMultiple ==
    ASSUME NEW n \in Nat \ {0}, NEW x \in Int, NEW k \in Int
    PROVE  (x + n * k) % n = x % n
<1> DEFINE q == (x \div n) + k
           r == x % n
<1>1. x = n * (x \div n) + r /\ r \in 0 .. n - 1 /\ x \div n \in Int
  BY DivMod
<1>2. x + n * k = n * q + r
  BY <1>1, Distribute
<1>3. q \in Int
  BY <1>1
<1> HIDE DEF q, r
<1>4. (n * q + r) % n = r
  BY <1>1, <1>3, ModUnique
<1> QED BY <1>2, <1>4 DEF r

\* Two counters less than a ring apart that fall on one slot are equal.
LEMMA SlotInjective ==
    ASSUME NEW n \in Nat \ {0}, NEW a \in Int, NEW b \in Int,
           a % n = b % n, a - b < n, b - a < n
    PROVE  a = b
<1> DEFINE qa == a \div n
           qb == b \div n
           d == qa - qb
<1>1. a = n * qa + (a % n) /\ b = n * qb + (b % n) /\ qa \in Int /\ qb \in Int
  BY DivMod
<1>2. a % n \in Int /\ b % n \in Int
  BY DivMod
<1> HIDE DEF qa, qb
<1>3. n * d = n * qa - n * qb
  BY <1>1, Distribute
<1>4. n * qa \in Int /\ n * qb \in Int
  BY <1>1
<1>5. a - b = n * d /\ d \in Int
  BY <1>1, <1>2, <1>3, <1>4
<1> HIDE DEF d
<1>6. n * d \in Int
  BY <1>5
<1>7. d >= 1 \/ d <= -1 \/ d = 0
  BY <1>5
<1>8. CASE d >= 1
  BY <1>8, <1>5, <1>6, MultipleFar
<1>9. CASE d <= -1
  BY <1>9, <1>5, <1>6, MultipleFar
<1>10. CASE d = 0
  BY <1>10, <1>5
<1> QED BY <1>7, <1>8, <1>9, <1>10

\* A number below n is its own remainder.
LEMMA ModSmall ==
    ASSUME NEW n \in Nat \ {0}, NEW x \in 0 .. n - 1
    PROVE  x % n = x
  BY Z3

\* The wrap of a counter does not change the slot it falls on, nor the slots
\* at a distance from it.
LEMMA SlotOfWrapped ==
    ASSUME NEW n \in Nat \ {0}, NEW w \in Nat \ {0}, w % n = 0,
           NEW x \in Int, NEW y \in Int
    PROVE  ((x % w) + y) % n = (x + y) % n
<1> DEFINE q == x \div w
           p == w \div n
           r == x % w
<1>1. x = w * q + r /\ q \in Int /\ r \in Int
  BY DivMod
<1>2. w = n * p /\ p \in Int
  BY DivMod
<1> HIDE DEF q, p
<1>3. w * q = n * (p * q) /\ p * q \in Int
  BY <1>1, <1>2
<1>4. x + y = (r + y) + n * (p * q)
  <2> HIDE DEF r
  <2>1. n * (p * q) \in Int
    BY <1>3
  <2> QED BY <1>1, <1>3, <2>1
<1>5. r + y \in Int
  BY <1>1
<1> HIDE DEF r
<1>6. ((r + y) + n * (p * q)) % n = (r + y) % n
  BY <1>3, <1>5, ModAddMultiple, ZenonT(30)
<1> QED BY <1>4, <1>6 DEF r

\* Moving the leading counter by k moves the difference by k, short of a wrap.
LEMMA AdvanceHead ==
    ASSUME NEW w \in Nat \ {0}, NEW c \in Int, NEW d \in Int, NEW k \in Int,
           ((c - d) % w) + k \in 0 .. w - 1
    PROVE  (((c + k) % w) - d) % w = ((c - d) % w) + k
<1> DEFINE x == c + k
           y == c - d
           z == -d
<1>1. x \in Int /\ y \in Int /\ z \in Int /\ x + z = y + k
  OBVIOUS
<1>2. w % w = 0
  BY Z3
<1>3. (y % w) + k \in 0 .. w - 1
  OBVIOUS
<1> HIDE DEF x, y, z
<1>4. ((x % w) + z) % w = (x + z) % w
  BY <1>1, <1>2, SlotOfWrapped, ZenonT(60)
<1>5. ((y % w) + k) % w = (y + k) % w
  BY <1>1, <1>2, SlotOfWrapped, ZenonT(60)
<1>6. ((y % w) + k) % w = (y % w) + k
  BY <1>3, ModSmall
<1>7. x % w \in Int
  BY <1>1, DivMod
<1>8. (x % w) + z = (x % w) - d
  BY <1>7 DEF z
<1> QED BY <1>1, <1>4, <1>5, <1>6, <1>8 DEF x, y

\* Moving the trailing counter by k takes k from the difference.
LEMMA AdvanceTail ==
    ASSUME NEW w \in Nat \ {0}, NEW c \in Int, NEW d \in Int,
           NEW k \in 0 .. ((c - d) % w)
    PROVE  (c - ((d + k) % w)) % w = ((c - d) % w) - k
<1> DEFINE e == (d + k) \div w
           r == (d + k) % w
           y == c - d
           z == -k
           x == y + z
<1>1. y \in Int /\ y % w \in 0 .. w - 1 /\ k \in Int /\ d + k \in Int
  BY DivMod
<1>2. d + k = w * e + r /\ e \in Int /\ r \in Int
  BY <1>1, DivMod
<1>3. w % w = 0
  BY Z3
<1>4. z \in Int /\ x \in Int /\ (y % w) + z \in 0 .. w - 1
  BY <1>1
<1>5. (y % w) + z = (y % w) - k
  BY <1>1
<1>6. c - r = x + w * e
  <2> HIDE DEF e, r
  <2>1. w * e \in Int
    BY <1>2
  <2> QED BY <1>1, <1>2, <2>1
<1>7. y \in Int /\ z \in Int
  BY <1>1
<1> HIDE DEF e, r, x, y, z
<1>8. ((y % w) + z) % w = (y + z) % w
  BY <1>3, <1>7, SlotOfWrapped, ZenonT(60)
<1>9. ((y % w) + z) % w = (y % w) + z
  BY <1>4, ModSmall
<1>10. (x + w * e) % w = x % w
  BY <1>2, <1>4, ModAddMultiple, ZenonT(30)
<1> QED BY <1>5, <1>6, <1>8, <1>9, <1>10 DEF r, x, y

-----------------------------------------------------------------------------
(* Counters and slots *)

\* A slot number is a slot, and unsigned sums and differences are counters.
LEMMA SlotType ==
    ASSUME NEW c \in Int, NEW d \in Int
    PROVE  Slot(c) \in Slots /\ Minus(c, d) \in Counters /\ Plus(c, d) \in Counters
<1>1. c % RingSize \in 0 .. RingSize - 1
  BY RingAssumption, DivMod
<1>2. c - d \in Int /\ c + d \in Int
  OBVIOUS
<1>3. (c - d) % CounterMod \in 0 .. CounterMod - 1
  BY <1>2, RingAssumption, DivMod
<1>4. (c + d) % CounterMod \in 0 .. CounterMod - 1
  BY <1>2, RingAssumption, DivMod
<1> QED BY <1>1, <1>3, <1>4 DEF Slot, Slots, Minus, Plus, Counters

\* Two counters less than a ring apart fall on different slots.
LEMMA SlotInj ==
    ASSUME NEW a \in Int, NEW b \in Int, Slot(a) = Slot(b),
           a - b < RingSize, b - a < RingSize
    PROVE  a = b
  BY RingAssumption, SlotInjective, ZenonT(30) DEF Slot

\* The wrap of a counter does not show in the slots counted from it.
LEMMA SlotWrap ==
    ASSUME NEW x \in Int, NEW y \in Int
    PROVE  Slot((x % CounterMod) + y) = Slot(x + y)
<1>1. ((x % CounterMod) + y) % RingSize = (x + y) % RingSize
  BY RingAssumption, SlotOfWrapped, ZenonT(30)
<1> QED BY <1>1 DEF Slot

\* The slot of a counter, counted from another one.
LEMMA SlotFrom ==
    ASSUME NEW c \in Int, NEW d \in Int, NEW y \in Int
    PROVE  Slot(c + y) = Slot(d + (Minus(c, d) + y))
<1> DEFINE x == c - d
           z == d + y
<1>1. x \in Int /\ z \in Int
  OBVIOUS
<1>2. x + z = c + y
  OBVIOUS
<1> HIDE DEF x, z
<1>3. Slot((x % CounterMod) + z) = Slot(x + z)
  BY <1>1, SlotWrap
<1>4. x % CounterMod \in Int
  BY <1>1, RingAssumption, DivMod
<1>5. (x % CounterMod) + z = d + ((x % CounterMod) + y)
  BY <1>4 DEF z
<1> QED BY <1>2, <1>3, <1>5 DEF Minus, x

\* The same with distance 0.
LEMMA SlotFromZero ==
    ASSUME NEW c \in Int, NEW d \in Int
    PROVE  Slot(c) = Slot(d + Minus(c, d))
<1>1. Slot(c + 0) = Slot(d + (Minus(c, d) + 0))
  BY SlotFrom
<1>2. Minus(c, d) \in Int
  BY SlotType DEF Counters
<1> QED BY <1>1, <1>2

\* The slots counted from a counter that has moved by m.
LEMMA SlotMoved ==
    ASSUME NEW d \in Int, NEW m \in Int, NEW k \in Int
    PROVE  Slot(Plus(d, m) + k) = Slot(d + (m + k))
<1> DEFINE x == d + m
<1>1. x \in Int
  OBVIOUS
<1> HIDE DEF x
<1>2. Slot((x % CounterMod) + k) = Slot(x + k)
  BY <1>1, SlotWrap
<1>3. x + k = d + (m + k)
  BY DEF x
<1> QED BY <1>2, <1>3 DEF x, Plus

\* A counter that moves ahead, and one that catches up.
LEMMA MinusAhead ==
    ASSUME NEW c \in Int, NEW d \in Int, NEW k \in Nat,
           Minus(c, d) + k < CounterMod
    PROVE  Minus(Plus(c, k), d) = Minus(c, d) + k
<1>1. Minus(c, d) \in 0 .. CounterMod - 1
  BY SlotType DEF Counters
<1>2. ((c - d) % CounterMod) + k \in 0 .. CounterMod - 1
  BY <1>1, RingAssumption DEF Minus
<1>3. (((c + k) % CounterMod) - d) % CounterMod = ((c - d) % CounterMod) + k
  <2>1. CounterMod \in Nat \ {0} /\ k \in Int
    BY RingAssumption
  <2> QED BY <1>2, <2>1, AdvanceHead, ZenonT(60)
<1> QED BY <1>3 DEF Minus, Plus

\* The distance to a counter that has moved closer.
LEMMA MinusBehind ==
    ASSUME NEW c \in Int, NEW d \in Int, NEW k \in Nat,
           k <= Minus(c, d)
    PROVE  Minus(c, Plus(d, k)) = Minus(c, d) - k
<1>1. Minus(c, d) \in 0 .. CounterMod - 1
  BY SlotType DEF Counters
<1>2. k \in 0 .. ((c - d) % CounterMod)
  BY <1>1 DEF Minus
<1> QED BY <1>2, RingAssumption, AdvanceTail, ZenonT(30) DEF Minus, Plus

\* A counter is at distance 0 from itself.
LEMMA MinusSelf ==
    ASSUME NEW c \in Int
    PROVE  Minus(c, c) = 0
<1>1. c - c = 0 /\ 0 \in 0 .. CounterMod - 1
  BY RingAssumption
<1>2. 0 % CounterMod = 0
  BY <1>1, RingAssumption, ModSmall
<1> QED BY <1>1, <1>2 DEF Minus

\* A difference that does not wrap is the plain one.
LEMMA MinusPlain ==
    ASSUME NEW a \in Int, NEW b \in Int, a - b \in 0 .. CounterMod - 1
    PROVE  Minus(a, b) = a - b
<1> DEFINE x == a - b
<1>1. x \in 0 .. CounterMod - 1
  OBVIOUS
<1> HIDE DEF x
<1>2. x % CounterMod = x
  BY <1>1, RingAssumption, ModSmall
<1> QED BY <1>2 DEF Minus, x

\* A counter is another one plus the distance between them.
LEMMA PlusMinus ==
    ASSUME NEW c \in Counters, NEW d \in Counters
    PROVE  c = Plus(d, Minus(c, d))
<1> DEFINE x == c - d
<1>1. c \in Int /\ d \in Int /\ x \in Int /\ CounterMod % CounterMod = 0
  BY RingAssumption, Z3 DEF Counters
<1>2. x + d = c
  BY <1>1
<1> HIDE DEF x
<1>3. ((x % CounterMod) + d) % CounterMod = (x + d) % CounterMod
  BY <1>1, RingAssumption, SlotOfWrapped, ZenonT(30)
<1>4. c % CounterMod = c
  BY RingAssumption, ModSmall DEF Counters
<1>5. x % CounterMod \in Int
  BY <1>1, RingAssumption, DivMod
<1>6. (x % CounterMod) + d = d + (x % CounterMod)
  BY <1>1, <1>5
<1> QED BY <1>2, <1>3, <1>4, <1>6 DEF Plus, Minus, x

\* Slots equal at two counters are equal at the same distance from both.
LEMMA SlotCong ==
    ASSUME NEW a \in Int, NEW b \in Int, NEW k \in Int, Slot(a) = Slot(b)
    PROVE  Slot(a + k) = Slot(b + k)
<1>1. RingSize % RingSize = 0
  BY RingAssumption, Z3
<1>2. ((a % RingSize) + k) % RingSize = (a + k) % RingSize
  BY <1>1, RingAssumption, SlotOfWrapped, ZenonT(30)
<1>3. ((b % RingSize) + k) % RingSize = (b + k) % RingSize
  BY <1>1, RingAssumption, SlotOfWrapped, ZenonT(30)
<1> QED BY <1>2, <1>3 DEF Slot

\* Once round the ring.
LEMMA SlotRound ==
    ASSUME NEW a \in Int
    PROVE  Slot(a + RingSize) = Slot(a)
<1>1. RingSize \in Nat \ {0} /\ 1 \in Int /\ RingSize * 1 = RingSize
  BY RingAssumption
<1>2. (a + RingSize * 1) % RingSize = a % RingSize
  BY <1>1, ModAddMultiple, Zenon
<1> QED BY <1>1, <1>2 DEF Slot

\* Runs from counters on the same slot are the same.
LEMMA RunCong ==
    ASSUME NEW a \in Int, NEW b \in Int, NEW n \in Int, Slot(a) = Slot(b)
    PROVE  Run(a, n) = Run(b, n)
<1>1. ASSUME NEW k \in 0 .. n - 1
      PROVE  Slot(a + k) = Slot(b + k)
  <2>1. k \in Int
    OBVIOUS
  <2> QED BY <2>1, SlotCong, Zenon
<1> QED BY <1>1 DEF Run

\* Two adjacent runs make one.
LEMMA RunJoin ==
    ASSUME NEW c \in Int, NEW m \in Nat, NEW n \in Nat
    PROVE  Run(c, m) \union Run(c + m, n) = Run(c, m + n)
<1>1. ASSUME NEW k \in 0 .. n - 1
      PROVE  m + k \in 0 .. m + n - 1 /\ (c + m) + k = c + (m + k)
  OBVIOUS
<1>2. ASSUME NEW k \in 0 .. m + n - 1, k \notin 0 .. m - 1
      PROVE  k - m \in 0 .. n - 1 /\ (c + m) + (k - m) = c + k
  BY <1>2
<1>3. 0 .. m - 1 \subseteq 0 .. m + n - 1
  OBVIOUS
<1>4. Run(c, m) \union Run(c + m, n) \subseteq Run(c, m + n)
  BY <1>1, <1>3 DEF Run
<1>5. Run(c, m + n) \subseteq Run(c, m) \union Run(c + m, n)
  BY <1>2 DEF Run
<1> QED BY <1>4, <1>5

\* A run no longer than the ring, without its first slot.
LEMMA RunRest ==
    ASSUME NEW c \in Int, NEW n \in 1 .. RingSize
    PROVE  /\ Slot(c) \in Run(c, n)
           /\ Run(c, n) \ {Slot(c)} = Run(c + 1, n - 1)
<1>1. 0 \in 0 .. n - 1 /\ c + 0 = c
  BY RingAssumption
<1>2. Slot(c) \in Run(c, n)
  BY <1>1 DEF Run
<1>3. ASSUME NEW k \in 0 .. n - 1, Slot(c + k) # Slot(c)
      PROVE  k - 1 \in 0 .. (n - 1) - 1 /\ (c + 1) + (k - 1) = c + k
  <2>1. k # 0
    BY <1>1, <1>3
  <2> QED BY <2>1
<1>4. ASSUME NEW k \in 0 .. (n - 1) - 1
      PROVE  /\ k + 1 \in 0 .. n - 1 /\ (c + 1) + k = c + (k + 1)
             /\ Slot(c + (k + 1)) # Slot(c)
  <2>1. k + 1 \in 0 .. n - 1 /\ (c + 1) + k = c + (k + 1)
    OBVIOUS
  <2> DEFINE e == c + (k + 1)
  <2>2. e \in Int /\ e # c /\ e - c < RingSize /\ c - e < RingSize
    BY <2>1, RingAssumption
  <2> HIDE DEF e
  <2>3. Slot(e) # Slot(c)
    BY <2>2, SlotInj
  <2> QED BY <2>1, <2>3 DEF e
<1>5. Run(c, n) \ {Slot(c)} \subseteq Run(c + 1, n - 1)
  BY <1>3 DEF Run
<1>6. Run(c + 1, n - 1) \subseteq Run(c, n) \ {Slot(c)}
  BY <1>4 DEF Run
<1> QED BY <1>2, <1>5, <1>6

\* Runs do not see the wrap of the counter they start from.
LEMMA RunPlus ==
    ASSUME NEW c \in Int, NEW m \in Int, NEW n \in Int
    PROVE  Run(Plus(c, m), n) = Run(c + m, n)
<1>1. \A k \in 0 .. n - 1 : Slot(Plus(c, m) + k) = Slot((c + m) + k)
  <2>1. \A k \in 0 .. n - 1 : Slot(Plus(c, m) + k) = Slot(c + (m + k))
    BY SlotMoved
  <2>2. \A k \in 0 .. n - 1 : c + (m + k) = (c + m) + k
    OBVIOUS
  <2> QED BY <2>1, <2>2
<1> QED BY <1>1 DEF Run

-----------------------------------------------------------------------------
(* The transmit ring: type correctness *)

\* A packet takes at least one descriptor.
LEMMA MaxDescType == MaxDesc \in Nat \ {0} /\ RingMin \in Nat
<1>1. CASE DescSplit
  BY <1>1, ChipAssumption DEF MaxDesc, RingMin
<1>2. CASE ~DescSplit
  BY <1>2 DEF MaxDesc, RingMin
<1> QED BY <1>1, <1>2

\* The initial state is of the right type.
LEMMA TypeInit == Init => TypeOK
  BY MaxDescType, RingAssumption DEF Init, TypeOK, Counters

\* Every step of driver, engine and stack keeps the types.
LEMMA TypeStep == TypeOK /\ [Next]_vars => TypeOK'
<1> SUFFICES ASSUME TypeOK, [Next]_vars
             PROVE  TypeOK'
  OBVIOUS
<1>1. ASSUME NEW n \in 1 .. MaxDesc, XmitBegin(n)
      PROVE  TypeOK'
  BY <1>1, MaxDescType DEF XmitBegin, TypeOK
<1>2. CASE FillDesc
  <2> DEFINE i == Slot(curr + ndesc)
  <2>1. need \in Nat /\ ndesc \in Nat /\ curr \in Int
    BY MaxDescType DEF TypeOK, Counters
  <2>2. i \in Slots
    BY <2>1, SlotType
  <2> HIDE DEF i
  <2>3. own' \subseteq Slots /\ more' \subseteq Slots
    BY <1>2, <2>2 DEF FillDesc, TypeOK, i
  <2>4. need' \in 0 .. MaxDesc /\ ndesc' \in 0 .. need'
    BY <1>2, <2>1, MaxDescType DEF FillDesc, TypeOK
  <2> QED BY <1>2, <2>3, <2>4 DEF FillDesc, TypeOK
<1>3. CASE XmitPublish
  <2>1. need \in Nat /\ curr \in Int /\ curr + need - 1 \in Int /\ curr + need \in Int
    BY MaxDescType DEF TypeOK, Counters
  <2>2. Slot(curr + need - 1) \in Slots /\ Slot(curr) \in Slots
        /\ Plus(curr, need) \in Counters
    BY <2>1, SlotType
  <2> QED BY <1>3, <2>2, MaxDescType DEF XmitPublish, TypeOK
<1>4. CASE TxPackets
  <2>1. PICK m \in 1 .. InFlight :
          /\ skb' = skb \ {At(k) : k \in 0 .. m - 1}
          /\ dirty' = Plus(dirty, m)
          /\ txps' = IF txps > m THEN txps - m ELSE 0
          /\ queue' \in {"awake", queue}
    BY <1>4 DEF TxPackets
  <2>2. InFlight \in Int /\ m \in Int
    BY SlotType DEF InFlight, TypeOK, Counters
  <2>3. dirty \in Int
    BY <2>2 DEF TypeOK, Counters
  <2>4. dirty' \in Counters
    BY <2>1, <2>2, <2>3, SlotType
  <2>5. txps' \in Nat
    BY <2>1, <2>2 DEF TypeOK
  <2> QED BY <1>4, <2>1, <2>4, <2>5 DEF TxPackets, TypeOK
<1>5. CASE HwSend
  <2>1. hw \in Int
    BY DEF TypeOK, Counters
  <2>2. Plus(hw, 1) \in Counters
    BY <2>1, SlotType
  <2> QED BY <1>5, <2>2 DEF HwSend, driverVars, TypeOK
<1>6. CASE HwHalt
  BY <1>6 DEF HwHalt, driverVars, TypeOK
<1>7. CASE LinkDown
  BY <1>7 DEF LinkDown, LinkLost, TypeOK
<1>8. CASE LinkUp
  BY <1>8, RingAssumption DEF LinkUp, LinkFound, FastReset, TypeOK, Counters
<1>9. CASE Linkwatch
  BY <1>9 DEF Linkwatch, TypeOK
<1>10. CASE Open
  BY <1>10, RingAssumption DEF Open, RingTxInit, TypeOK, Counters
<1>11. CASE Stop
  BY <1>11 DEF Stop, RingTxClean, TypeOK
<1>12. CASE UNCHANGED vars
  BY <1>12 DEF vars, TypeOK
<1> QED
  BY <1>1, <1>2, <1>3, <1>4, <1>5, <1>6, <1>7, <1>8, <1>9, <1>10, <1>11, <1>12
     DEF Next

\* The variables of the ring stay of the right type, for every configuration.
THEOREM TypeCorrect == Spec => []TypeOK
  BY TypeInit, TypeStep, PTL DEF Spec

-----------------------------------------------------------------------------
(* The inductive invariant *)

\* Slots counted from dirty: they are distinct within a ring's length, and the
\* driver's and the engine's next slots are the ones at InFlight and at Done.
LEMMA Positions ==
    ASSUME TypeOK
    PROVE  /\ InFlight \in Nat /\ Done \in Nat /\ InFlight < CounterMod
           /\ \A j \in Int, k \in Int :
                At(j) = At(k) /\ j - k < RingSize /\ k - j < RingSize => j = k
           /\ \A y \in Int : Slot(curr + y) = At(InFlight + y)
           /\ Slot(curr) = At(InFlight)
           /\ Slot(hw) = At(Done)
<1>1. curr \in Int /\ dirty \in Int /\ hw \in Int
  BY DEF TypeOK, Counters
<1>2. InFlight \in Nat /\ Done \in Nat /\ InFlight < CounterMod
  <2>1. Minus(curr, dirty) \in Counters /\ Minus(hw, dirty) \in Counters
    BY <1>1, SlotType
  <2> QED BY <2>1, RingAssumption DEF InFlight, Done, Counters
<1>3. ASSUME NEW j \in Int, NEW k \in Int, At(j) = At(k),
             j - k < RingSize, k - j < RingSize
      PROVE  j = k
  <2> DEFINE a == dirty + j
             b == dirty + k
  <2>1. a \in Int /\ b \in Int /\ a - b = j - k /\ b - a = k - j
    BY <1>1
  <2>2. Slot(a) = Slot(b)
    BY <1>3 DEF At
  <2> HIDE DEF a, b
  <2>3. a - b < RingSize /\ b - a < RingSize
    BY <2>1, <1>3
  <2>4. a = b
    BY <2>1, <2>2, <2>3, SlotInj
  <2> QED BY <2>4, <1>1 DEF a, b
<1>4. ASSUME NEW y \in Int
      PROVE  Slot(curr + y) = At(InFlight + y)
  BY <1>1, SlotFrom DEF At, InFlight
<1>5. Slot(curr) = At(InFlight)
  BY <1>1, SlotFromZero DEF At, InFlight
<1>6. Slot(hw) = At(Done)
  BY <1>1, SlotFromZero DEF At, Done
<1> QED BY <1>2, <1>3, <1>4, <1>5, <1>6

\* A step that moves none of the counters keeps the positions.
LEMMA SamePositions ==
    ASSUME UNCHANGED <<curr, dirty, hw>>
    PROVE  /\ InFlight' = InFlight /\ Done' = Done
           /\ \A k : At(k)' = At(k)
           /\ Window' = Window
  BY DEF InFlight, Done, At, Window

\* The stack only hands over a packet an awake queue has room for.
LEMMA XmitBeginInv ==
    ASSUME SafeConfig, TypeOK, RingInv, NEW n \in 1 .. MaxDesc, XmitBegin(n)
    PROVE  RingInv'
<1>1. UNCHANGED <<curr, dirty, hw>>
  BY DEF XmitBegin
<1>2. InFlight \in Nat /\ MaxDesc \in Nat
  BY Positions, MaxDescType
<1>3. ndesc = 0 /\ ndesc' = 0
  BY DEF XmitBegin, TypeOK
<1>4. InFlight' = InFlight /\ Done' = Done /\ \A k : At(k)' = At(k)
  BY <1>1, SamePositions
<1>5. Bounds'
  BY <1>2, <1>4, RingAssumption DEF XmitBegin, RingInv, Bounds
<1>6. Ownership'
  BY <1>2, <1>3, <1>4 DEF XmitBegin, RingInv, Ownership
<1>7. Packets'
  BY <1>1, <1>2, <1>3, <1>4, SamePositions DEF XmitBegin, RingInv, Packets
<1> QED BY <1>5, <1>6, <1>7 DEF XmitBegin, RingInv

\* fill_dma_desc writes the slots after those in flight, which nobody owns.
LEMMA FillDescInv ==
    ASSUME SafeConfig, TypeOK, RingInv, FillDesc
    PROVE  RingInv'
<1> DEFINE i == Slot(curr + ndesc)
<1>1. need \in Nat /\ ndesc \in Nat /\ ndesc < need
  BY MaxDescType DEF FillDesc, TypeOK
<1>2. rings = "alloc" /\ Bounds /\ Ownership /\ Packets
  BY <1>1 DEF RingInv, TypeOK
<1>3. InFlight \in Nat /\ Done \in Nat /\ InFlight + need <= RingSize /\ Done <= InFlight
  BY <1>2, Positions DEF Bounds
<1>4. i = At(InFlight + ndesc)
  BY <1>1, Positions
<1>5. ASSUME NEW k \in 0 .. RingSize - 1, At(k) = i
      PROVE  k = InFlight + ndesc
  BY <1>1, <1>3, <1>4, <1>5, Positions, RingAssumption
<1>6. i \notin own
  <2>1. ASSUME NEW k \in Done .. InFlight - 1, At(k) = i PROVE FALSE
    BY <2>1, <1>1, <1>3, <1>5, RingAssumption
  <2>2. ASSUME NEW k \in InFlight + 1 .. InFlight + ndesc - 1, At(k) = i PROVE FALSE
    BY <2>2, <1>1, <1>3, <1>5, RingAssumption
  <2> QED BY <1>2, <2>1, <2>2 DEF Ownership
<1>7. /\ more' = IF ndesc + 1 < need THEN more \union {i} ELSE more \ {i}
      /\ own' = IF ndesc = 0 THEN own ELSE own \union {i}
      /\ ndesc' = ndesc + 1 /\ need' = need
      /\ UNCHANGED <<curr, dirty, hw, skb, queue, rings, txps>>
  BY <1>6 DEF FillDesc
<1> HIDE DEF i
<1>8. InFlight' = InFlight /\ Done' = Done /\ (\A k : At(k)' = At(k)) /\ Window' = Window
  BY <1>7, SamePositions
<1>9. Bounds'
  BY <1>1, <1>2, <1>3, <1>7, <1>8, RingAssumption DEF Bounds
<1>10. Ownership'
  <2>1. CASE ndesc = 0
    BY <2>1, <1>2, <1>3, <1>7, <1>8 DEF Ownership
  <2>2. CASE ndesc > 0
    <3>1. InFlight + 1 .. InFlight + ndesc' - 1 =
            (InFlight + 1 .. InFlight + ndesc - 1) \union {InFlight + ndesc}
      BY <2>2, <1>1, <1>3, <1>7
    <3>2. own' = own \union {At(InFlight + ndesc)}
      BY <2>2, <1>1, <1>4, <1>7
    <3> QED BY <3>1, <3>2, <1>2, <1>8 DEF Ownership
  <2> QED BY <1>1, <2>1, <2>2
<1>11. Packets'
  <2>1. ASSUME NEW k \in 0 .. InFlight - 1
        PROVE  At(k) \in more' <=> At(k) \in more
    BY <1>1, <1>3, <1>5, <1>7, RingAssumption
  <2>2. ASSUME NEW j \in 0 .. ndesc - 1
        PROVE  At(InFlight + j) \in more' <=> At(InFlight + j) \in more
    BY <1>1, <1>3, <1>5, <1>7, RingAssumption
  <2>3. At(InFlight + ndesc) \in more' <=> ndesc + 1 < need
    BY <1>4, <1>7
  <2>4. ASSUME NEW j \in 0 .. ndesc' - 1
        PROVE  At(InFlight + j) \in more' <=> j + 1 < need
    <3>1. CASE j = ndesc
      BY <3>1, <2>3
    <3>2. CASE j \in 0 .. ndesc - 1
      BY <3>2, <2>2, <1>2 DEF Packets
    <3> QED BY <3>1, <3>2, <1>1, <1>7
  <2> QED BY <1>2, <1>7, <1>8, <2>1, <2>4 DEF Packets
<1> QED BY <1>2, <1>7, <1>9, <1>10, <1>11 DEF RingInv

\* Publishing closes the gap in front of the packet, and stops the queue when
\* another packet might not fit.
LEMMA XmitPublishInv ==
    ASSUME SafeConfig, TypeOK, RingInv, XmitPublish
    PROVE  RingInv'
<1>1. need \in Nat /\ ndesc = need /\ need > 0
  BY MaxDescType DEF XmitPublish, TypeOK
<1>2. rings = "alloc" /\ Bounds /\ Ownership /\ Packets
  BY <1>1 DEF RingInv, TypeOK
<1>3. InFlight \in Nat /\ Done \in Nat /\ InFlight + need <= RingSize /\ Done <= InFlight
  BY <1>2, Positions DEF Bounds
<1>4. ASSUME NEW j \in 0 .. RingSize - 1, NEW k \in 0 .. RingSize - 1, At(j) = At(k)
      PROVE  j = k
  BY <1>4, Positions, RingAssumption
<1>5. InFlight' = InFlight + need
  <2>1. curr \in Int /\ dirty \in Int
    BY DEF TypeOK, Counters
  <2>2. Minus(curr, dirty) + need < CounterMod
    BY <1>1, <1>3, RingAssumption DEF InFlight
  <2>3. Minus(Plus(curr, need), dirty) = Minus(curr, dirty) + need
    BY <1>1, <2>1, <2>2, MinusAhead
  <2> QED BY <2>3 DEF XmitPublish, InFlight
<1>6. Done' = Done /\ \A k : At(k)' = At(k)
  BY DEF XmitPublish, Done, At
<1>7. own' = own \union {At(InFlight)} /\ skb' = skb \union {At(InFlight + need - 1)}
  <2>1. curr + need - 1 = curr + (need - 1) /\ InFlight + need - 1 = InFlight + (need - 1)
    BY <1>1, <1>3 DEF TypeOK, Counters
  <2>2. Slot(curr + (need - 1)) = At(InFlight + (need - 1))
    BY <1>1, Positions
  <2> QED BY <2>1, <2>2, Positions DEF XmitPublish
<1>8. Bounds'
  <2>1. MaxDesc <= RingMin /\ RingMin \in Nat /\ MaxDesc \in Nat
    BY MaxDescType, RingAssumption DEF MaxDesc, RingMin
  <2>2. Minus(RingSize, RingMin) = RingSize - RingMin
    BY <2>1, RingAssumption, MinusPlain DEF SafeConfig
  <2>3. queue' = "awake" => InFlight + need < RingSize - RingMin
    <3>1. Minus(curr', dirty) = InFlight + need
      BY <1>5 DEF InFlight, XmitPublish
    <3> QED BY <3>1, <2>1, <2>2, <1>1, <1>3, RingAssumption DEF XmitPublish
  <2> QED BY <1>1, <1>2, <1>3, <1>5, <1>6, <2>1, <2>3, RingAssumption
          DEF Bounds, XmitPublish
<1>9. Ownership'
  <2>1. (Done .. InFlight - 1) \union {InFlight} \union (InFlight + 1 .. InFlight + need - 1)
          = Done .. InFlight + need - 1
    BY <1>1, <1>3
  <2>2. own' = {At(k) : k \in Done .. InFlight + need - 1}
    BY <1>1, <1>2, <1>7, <2>1 DEF Ownership
  <2>3. InFlight' + 1 .. InFlight' + ndesc' - 1 = {}
    BY <1>1, <1>3, <1>5 DEF XmitPublish
  <2>4. dirty' = dirty
    BY DEF XmitPublish
  <2>5. Done' .. InFlight' - 1 = Done .. InFlight + need - 1
    BY <1>1, <1>3, <1>5, <1>6
  <2>6. Ownership' <=> own' = {Slot(dirty' + k) : k \in Done' .. InFlight' - 1}
                         \union {Slot(dirty' + k) : k \in InFlight' + 1 .. InFlight' + ndesc' - 1}
    BY DEF Ownership, At
  <2> QED BY <2>2, <2>3, <2>4, <2>5, <2>6, ZenonT(30) DEF At
<1>10. Packets'
  <2>1. ASSUME NEW k \in 0 .. InFlight - 1
        PROVE  At(k) \in skb' <=> At(k) \notin more
    <3>1. At(k) # At(InFlight + need - 1)
      BY <1>1, <1>3, <1>4, RingAssumption
    <3> QED BY <3>1, <1>2, <1>7 DEF Packets
  <2>2. ASSUME NEW k \in InFlight .. InFlight + need - 1
        PROVE  At(k) \in skb' <=> At(k) \notin more
    <3> DEFINE j == k - InFlight
    <3>1. j \in 0 .. ndesc - 1 /\ k = InFlight + j
      BY <1>1, <1>3
    <3> HIDE DEF j
    <3>2. At(k) \notin skb
      <4>1. ASSUME NEW l \in 0 .. InFlight - 1, At(l) = At(k) PROVE FALSE
        BY <4>1, <1>1, <1>3, <1>4, RingAssumption
      <4> QED BY <4>1, <1>2 DEF Packets, Window
    <3>3. At(k) \in more <=> j + 1 < need
      BY <3>1, <1>2 DEF Packets
    <3>4. At(k) = At(InFlight + need - 1) <=> j + 1 = need
      <4>1. k \in 0 .. RingSize - 1 /\ InFlight + need - 1 \in 0 .. RingSize - 1
        BY <1>1, <1>3, RingAssumption
      <4>2. At(k) = At(InFlight + need - 1) => k = InFlight + need - 1
        BY <4>1, <1>4
      <4>3. k = InFlight + need - 1 <=> j + 1 = need
        BY <3>1, <1>1, <1>3
      <4> QED BY <4>2, <4>3
    <3> QED BY <3>1, <3>2, <3>3, <3>4, <1>1, <1>7
  <2>3. \A k \in 0 .. InFlight' - 1 : At(k) \in skb' <=> At(k) \notin more
    BY <2>1, <2>2, <1>1, <1>3, <1>5
  <2>4. Window' = {At(k) : k \in 0 .. InFlight + need - 1}
    <3>1. dirty' = dirty
      BY DEF XmitPublish
    <3>2. 0 .. InFlight' - 1 = 0 .. InFlight + need - 1
      BY <1>1, <1>3, <1>5
    <3>3. Window' = {Slot(dirty' + k) : k \in 0 .. InFlight' - 1}
      BY DEF Window, At
    <3> QED BY <3>1, <3>2, <3>3, ZenonT(30) DEF At
  <2>5. skb' \subseteq Window'
    <3>1. skb \subseteq {At(k) : k \in 0 .. InFlight - 1}
      BY <1>2 DEF Packets, Window
    <3>2. 0 .. InFlight - 1 \subseteq 0 .. InFlight + need - 1
          /\ InFlight + need - 1 \in 0 .. InFlight + need - 1
      BY <1>1, <1>3
    <3> QED BY <3>1, <3>2, <2>4, <1>7
  <2>6. more' = more /\ ndesc' = 0
    BY DEF XmitPublish
  <2> QED BY <2>3, <2>5, <2>6, <1>1, <1>3, <1>5, <1>6, <1>7 DEF Packets
<1> QED BY <1>2, <1>8, <1>9, <1>10 DEF RingInv, XmitPublish

\* tx_packets moves dirty past slots the engine has given back, at most to the
\* engine's own position.
LEMMA TxPacketsInv ==
    ASSUME SafeConfig, TypeOK, RingInv, TxPackets
    PROVE  RingInv'
<1>1. need = 0 /\ ndesc = 0 /\ rings = "alloc" /\ Bounds /\ Ownership /\ Packets
  BY DEF TxPackets, TypeOK, RingInv
<1>2. InFlight \in Nat /\ Done \in Nat /\ InFlight <= RingSize /\ Done <= InFlight
  BY <1>1, Positions, RingAssumption DEF Bounds
<1>3. PICK m \in 1 .. InFlight :
        /\ Reaped(m)
        /\ skb' = skb \ {At(k) : k \in 0 .. m - 1}
        /\ dirty' = Plus(dirty, m)
        /\ txps' = IF txps > m THEN txps - m ELSE 0
        /\ queue' = IF Minus(curr, dirty') < (RingSize * 3) \div 4
                    THEN "awake" ELSE queue
  BY DEF TxPackets
<1>4. m <= Done
  <2>1. \A j \in 0 .. m - 1 : At(j) \notin own
    BY <1>2, <1>3 DEF Reaped, Passed
  <2>2. SUFFICES ASSUME m > Done PROVE FALSE
    BY <1>2
  <2>3. Done \in 0 .. m - 1 /\ Done \in Done .. InFlight - 1
    BY <1>2, <2>2
  <2>4. At(Done) \in own
    BY <1>1, <2>3 DEF Ownership
  <2> QED BY <2>1, <2>3, <2>4
<1>5. InFlight' = InFlight - m /\ Done' = Done - m
  <2>1. curr \in Int /\ dirty \in Int /\ hw \in Int /\ m \in Nat
    BY <1>2 DEF TypeOK, Counters
  <2>2. m <= Minus(curr, dirty) /\ m <= Minus(hw, dirty)
    BY <1>2, <1>4 DEF InFlight, Done
  <2>3. Minus(curr, Plus(dirty, m)) = Minus(curr, dirty) - m
        /\ Minus(hw, Plus(dirty, m)) = Minus(hw, dirty) - m
    BY <2>1, <2>2, MinusBehind
  <2> QED BY <1>3, <2>3 DEF InFlight, Done, TxPackets
<1>6. \A k \in Int : At(k)' = At(m + k)
  <2>1. dirty \in Int /\ m \in Int
    BY <1>2 DEF TypeOK, Counters
  <2>2. \A k \in Int : Slot(Plus(dirty, m) + k) = Slot(dirty + (m + k))
    BY <2>1, SlotMoved
  <2> QED BY <1>3, <2>2 DEF At
<1>7. Bounds'
  <2>1. Minus(curr, dirty') = InFlight - m
    BY <1>5 DEF InFlight, TxPackets
  <2>2. txps' = Done - m
    BY <1>1, <1>2, <1>3, <1>4 DEF Bounds
  <2>3. MaxDesc \in Nat /\ need' = 0 /\ (RingSize * 3) \div 4 \in Int
    BY <1>1, MaxDescType, RingAssumption DEF TxPackets
  <2>4. queue' = "awake" => InFlight - m + MaxDesc <= RingSize
    <3>1. CASE InFlight - m < (RingSize * 3) \div 4
      BY <3>1, <1>2, <2>3, RingAssumption DEF SafeConfig
    <3>2. CASE ~(InFlight - m < (RingSize * 3) \div 4)
      BY <3>2, <1>1, <1>2, <1>3, <2>1, <2>3, RingAssumption DEF Bounds
    <3> QED BY <3>1, <3>2
  <2> QED BY <1>2, <1>4, <1>5, <2>2, <2>3, <2>4, RingAssumption DEF Bounds
<1>8. Ownership'
  <2>1. own' = own /\ own = {At(k) : k \in Done .. InFlight - 1} /\ ndesc' = 0
    <3>1. InFlight + 1 .. InFlight + ndesc - 1 = {}
      BY <1>1, <1>2
    <3> QED BY <1>1, <3>1 DEF TxPackets, Ownership
  <2>2. \A x : (\E k \in Done .. InFlight - 1 : x = At(k))
               <=> (\E k \in Done - m .. InFlight - m - 1 : x = At(m + k))
    <3>1. ASSUME NEW k \in Done .. InFlight - 1
          PROVE  k - m \in Done - m .. InFlight - m - 1 /\ At(k) = At(m + (k - m))
      BY <1>2
    <3>2. ASSUME NEW k \in Done - m .. InFlight - m - 1
          PROVE  m + k \in Done .. InFlight - 1
      BY <1>2
    <3> QED BY <3>1, <3>2
  <2>3. Done' .. InFlight' - 1 = Done - m .. InFlight - m - 1
        /\ InFlight' + 1 .. InFlight' + ndesc' - 1 = {}
    BY <1>2, <1>5, <2>1
  <2>4. \A k \in Done - m .. InFlight - m - 1 : At(k)' = At(m + k)
    BY <1>2, <1>6
  <2>5. own' = {At(m + k) : k \in Done - m .. InFlight - m - 1}
    BY <2>1, <2>2
  <2>6. {At(m + k) : k \in Done - m .. InFlight - m - 1}
          = {Slot(dirty' + k) : k \in Done - m .. InFlight - m - 1}
    BY <2>4 DEF At
  <2>7. Ownership' <=> own' = {Slot(dirty' + k) : k \in Done' .. InFlight' - 1}
                         \union {Slot(dirty' + k) : k \in InFlight' + 1 .. InFlight' + ndesc' - 1}
    BY DEF Ownership, At
  <2> QED BY <2>3, <2>5, <2>6, <2>7, ZenonT(30)
<1>9. Packets'
  <2>1. more' = more /\ ndesc' = 0
    BY <1>1 DEF TxPackets
  <2>2. ASSUME NEW k \in 0 .. InFlight - m - 1
        PROVE  At(m + k) \in skb' <=> At(m + k) \in skb
    <3>1. ASSUME NEW j \in 0 .. m - 1, At(j) = At(m + k) PROVE FALSE
      BY <3>1, <1>2, Positions, RingAssumption
    <3> QED BY <3>1, <1>3
  <2>3. ASSUME NEW k \in 0 .. InFlight - m - 1
        PROVE  m + k \in 0 .. InFlight - 1
    BY <1>2
  <2>4. \A k \in 0 .. InFlight' - 1 : At(k)' \in skb' <=> At(k)' \notin more
    <3>1. \A k \in 0 .. InFlight - m - 1 : At(m + k) \in skb' <=> At(m + k) \notin more
      BY <2>2, <2>3, <1>1 DEF Packets
    <3> QED BY <3>1, <1>2, <1>5, <1>6
  <2>5. skb' \subseteq Window'
    <3> SUFFICES ASSUME NEW x \in skb' PROVE x \in Window'
      OBVIOUS
    <3>1. PICK l \in 0 .. InFlight - 1 : x = At(l)
      BY <1>1, <1>3 DEF Packets, Window
    <3>2. l \notin 0 .. m - 1
      BY <3>1, <1>3
    <3> DEFINE k == l - m
    <3>3. k \in 0 .. InFlight - m - 1 /\ m + k = l
      BY <3>2, <1>2
    <3> HIDE DEF k
    <3>4. k \in 0 .. InFlight' - 1 /\ At(k)' = x
      BY <3>1, <3>3, <1>2, <1>5, <1>6
    <3>5. Window' = {Slot(dirty' + y) : y \in 0 .. InFlight' - 1} /\ Slot(dirty' + k) = x
      BY <3>4 DEF Window, At
    <3> QED BY <3>4, <3>5
  <2>6. (InFlight > 0 => At(InFlight - 1) \in skb)'
    <3> SUFFICES ASSUME InFlight' > 0 PROVE Slot(dirty' + (InFlight' - 1)) \in skb'
      BY DEF At
    <3>1. PICK k \in 0 .. InFlight - m - 1 : k = InFlight' - 1 /\ m + k = InFlight - 1
      BY <1>2, <1>5
    <3>2. At(m + k) \in skb'
      BY <3>1, <2>2, <1>1, <1>2 DEF Packets
    <3>3. At(k)' = At(m + k)
      BY <1>2, <1>6
    <3> QED BY <3>1, <3>2, <3>3 DEF At
  <2> QED BY <2>1, <2>4, <2>5, <2>6 DEF Packets
<1> QED BY <1>1, <1>7, <1>8, <1>9 DEF RingInv, TxPackets

\* The engine only ever stands at a published packet's descriptor or at the gap
\* in front of the packet being filled.
LEMMA EngineInWindow ==
    ASSUME SafeConfig, TypeOK, RingInv, Slot(hw) \in own
    PROVE  rings = "alloc" /\ Bounds /\ Ownership /\ Packets /\ Done < InFlight
<1>1. rings = "alloc" /\ Bounds /\ Ownership /\ Packets
  BY DEF RingInv, TypeOK
<1>2. InFlight \in Nat /\ Done \in Nat /\ InFlight + need <= RingSize /\ Done <= InFlight
      /\ need \in Nat /\ ndesc \in Nat /\ ndesc <= need
  BY <1>1, Positions, MaxDescType DEF Bounds, TypeOK
<1>3. At(Done) \in own
  BY Positions
<1>4. ASSUME NEW k \in InFlight + 1 .. InFlight + ndesc - 1, At(k) = At(Done) PROVE FALSE
  BY <1>2, <1>4, Positions, RingAssumption
<1>5. \E k \in Done .. InFlight - 1 : At(k) = At(Done)
  BY <1>1, <1>3, <1>4 DEF Ownership
<1> QED BY <1>1, <1>2, <1>5

\* The engine gives back the first descriptor it owns.
LEMMA HwSendInv ==
    ASSUME SafeConfig, TypeOK, RingInv, HwSend
    PROVE  RingInv'
<1>1. rings = "alloc" /\ Bounds /\ Ownership /\ Packets /\ Done < InFlight
  BY EngineInWindow DEF HwSend
<1>2. InFlight \in Nat /\ Done \in Nat /\ InFlight + need <= RingSize
      /\ InFlight < CounterMod /\ need \in Nat /\ ndesc \in Nat /\ ndesc <= need
  BY <1>1, Positions, MaxDescType DEF Bounds, TypeOK
<1>3. /\ own' = own \ {At(Done)} /\ txps' = txps + 1
      /\ UNCHANGED <<curr, dirty, skb, more, queue, rings, need, ndesc>>
  BY Positions DEF HwSend, driverVars
<1>4. InFlight' = InFlight /\ (\A k : At(k)' = At(k)) /\ Window' = Window
  BY <1>3 DEF InFlight, At, Window
<1>5. Done' = Done + 1
  <2>1. hw \in Int /\ dirty \in Int /\ Minus(hw, dirty) + 1 < CounterMod
    BY <1>1, <1>2, RingAssumption DEF TypeOK, Counters, Done
  <2>2. Minus(Plus(hw, 1), dirty) = Minus(hw, dirty) + 1
    BY <2>1, MinusAhead
  <2> QED BY <2>2, <1>3 DEF Done, HwSend
<1>6. Bounds'
  BY <1>1, <1>2, <1>3, <1>4, <1>5, RingAssumption DEF Bounds
<1>7. Ownership'
  <2>1. ASSUME NEW k \in (Done + 1 .. InFlight - 1) \union (InFlight + 1 .. InFlight + ndesc - 1)
        PROVE  At(k) # At(Done)
    BY <1>1, <1>2, Positions, RingAssumption
  <2>2. Done .. InFlight - 1 = {Done} \union (Done + 1 .. InFlight - 1)
    BY <1>1, <1>2
  <2>3. own' = {At(k) : k \in Done + 1 .. InFlight - 1}
                \union {At(k) : k \in InFlight + 1 .. InFlight + ndesc - 1}
    BY <1>1, <1>3, <2>1, <2>2 DEF Ownership
  <2> QED BY <2>3, <1>3, <1>4, <1>5 DEF Ownership
<1>8. Packets'
  BY <1>1, <1>3, <1>4 DEF Packets
<1> QED BY <1>1, <1>3, <1>6, <1>7, <1>8 DEF RingInv

\* Steps that touch neither the ring nor its counters.
LEMMA QuietInv ==
    ASSUME RingInv,
           UNCHANGED <<curr, dirty, own, more, skb, queue, rings, need, ndesc, hw, txps>>
    PROVE  RingInv'
<1>1. InFlight' = InFlight /\ Done' = Done /\ (\A k : At(k)' = At(k)) /\ Window' = Window
  BY SamePositions
<1> QED BY <1>1 DEF RingInv, Bounds, Ownership, Packets

\* A ring with both counters and the engine at its base, and nothing in it.
LEMMA FreshInv ==
    ASSUME SafeConfig, curr' = 0, dirty' = 0, hw' = 0, txps' = 0, need' = 0, ndesc' = 0,
           own' = {}, skb' = {}, rings' = "alloc"
    PROVE  RingInv'
<1>1. InFlight' = 0 /\ Done' = 0
  BY MinusSelf DEF InFlight, Done
<1>2. 0 .. InFlight' - 1 = {} /\ InFlight' + 1 .. InFlight' + ndesc' - 1 = {}
      /\ Done' .. InFlight' - 1 = {} /\ 0 .. ndesc' - 1 = {}
  BY <1>1
<1>3. Bounds'
  <2>1. MaxDesc <= RingSize /\ MaxDesc \in Nat
    BY RingAssumption, ChipAssumption DEF SafeConfig, MaxDesc, RingMin
  <2> QED BY <1>1, <2>1, RingAssumption DEF Bounds
<1>4. Ownership'
  BY <1>2 DEF Ownership
<1>5. Packets'
  BY <1>1, <1>2 DEF Packets
<1> QED BY <1>3, <1>4, <1>5 DEF RingInv

\* The AR724x resets the ring when the link comes up: what the engine owns or
\* the driver holds is in flight, so the flush leaves nothing behind.
LEMMA LinkUpInv ==
    ASSUME SafeConfig, TypeOK, RingInv, LinkUp
    PROVE  RingInv'
<1>1. IsAr724x /\ FastReset /\ need = 0 /\ ndesc = 0 /\ rings = "alloc"
  BY DEF LinkUp, LinkFound, SafeConfig, TypeOK
<1>2. InFlight \in Nat /\ Done \in Nat
  BY Positions
<1>3. own \subseteq Window
  <2>1. InFlight + 1 .. InFlight + ndesc - 1 = {}
    BY <1>1, <1>2
  <2>2. Done .. InFlight - 1 \subseteq 0 .. InFlight - 1
    BY <1>2
  <2> QED BY <1>1, <2>1, <2>2 DEF RingInv, Ownership, Window
<1>4. skb \subseteq Window
  BY <1>1 DEF RingInv, Packets
<1> QED BY <1>1, <1>3, <1>4, FreshInv DEF LinkUp, LinkFound, FastReset

\* Every step of driver, engine and stack keeps the invariant of the ring.
LEMMA RingStep == SafeConfig /\ TypeOK /\ RingInv /\ [Next]_vars => RingInv'
<1> SUFFICES ASSUME SafeConfig, TypeOK, RingInv, [Next]_vars
             PROVE  RingInv'
  OBVIOUS
<1>1. ASSUME NEW n \in 1 .. MaxDesc, XmitBegin(n)
      PROVE  RingInv'
  BY <1>1, XmitBeginInv
<1>2. CASE FillDesc
  BY <1>2, FillDescInv
<1>3. CASE XmitPublish
  BY <1>3, XmitPublishInv
<1>4. CASE TxPackets
  BY <1>4, TxPacketsInv
<1>5. CASE HwSend
  BY <1>5, HwSendInv
<1>6. CASE HwHalt
  BY <1>6, QuietInv DEF HwHalt, driverVars
<1>7. CASE LinkDown
  BY <1>7, QuietInv DEF LinkDown, LinkLost
<1>8. CASE LinkUp
  BY <1>8, LinkUpInv
<1>9. CASE Linkwatch
  BY <1>9, QuietInv DEF Linkwatch
<1>10. CASE Open
  <2>1. need = 0 /\ ndesc = 0 /\ txps = 0
    BY <1>10 DEF Open, RingTxInit, RingInv, TypeOK
  <2> QED BY <1>10, <2>1, FreshInv DEF Open, RingTxInit
<1>11. CASE Stop
  BY <1>11 DEF Stop, RingTxClean, RingInv
<1>12. CASE UNCHANGED vars
  BY <1>12, QuietInv DEF vars
<1> QED
  BY <1>1, <1>2, <1>3, <1>4, <1>5, <1>6, <1>7, <1>8, <1>9, <1>10, <1>11, <1>12
     DEF Next

\* The invariant of the ring holds in every state, for rings, counters and
\* packets of every size, when the link is fixed or the chip is an AR724x and
\* the ring is large enough for the thresholds of hard_start_xmit and
\* tx_packets.
THEOREM RingCorrect == SafeConfig => (Spec => []RingInv)
<1> SUFFICES ASSUME SafeConfig PROVE Spec => []RingInv
  OBVIOUS
<1>1. Init => RingInv
  BY DEF Init, RingInv
<1>2. TypeOK /\ RingInv /\ [Next]_vars => RingInv'
  BY RingStep
<1> QED BY <1>1, <1>2, TypeCorrect, PTL DEF Spec

-----------------------------------------------------------------------------
(* What the invariant says to the driver's users *)

\* A ring that is not allocated has nothing in flight.
LEMMA NoRing ==
    ASSUME TypeOK, RingInv, rings # "alloc"
    PROVE  InFlight = 0 /\ need = 0 /\ own = {}
<1>1. need = 0 /\ dirty = curr /\ own = {} /\ curr \in Int
  BY DEF RingInv, TypeOK, Counters
<1> QED BY <1>1, MinusSelf DEF InFlight

\* The properties of the ring follow from its invariant.
LEMMA RingImplies ==
    ASSUME SafeConfig, TypeOK, RingInv
    PROVE  /\ NoEarlyTx /\ FramesArePackets /\ HeldUntilSent
           /\ RoomForPacket /\ StatusCountsDone
<1>1. InFlight \in Nat /\ Done \in Nat /\ need \in Nat
  BY Positions, MaxDescType DEF TypeOK
<1>2. NoEarlyTx
  BY EngineInWindow DEF NoEarlyTx
<1>3. CASE rings # "alloc"
  BY <1>1, <1>2, <1>3, NoRing
     DEF FramesArePackets, HeldUntilSent, RoomForPacket, StatusCountsDone, Window
<1>4. CASE rings = "alloc"
  <2>1. Bounds /\ Ownership /\ Packets
    BY <1>4 DEF RingInv
  <2>2. FramesArePackets
    BY <2>1 DEF FramesArePackets, Packets, Window
  <2>3. HeldUntilSent
    <3> SUFFICES ASSUME NEW i \in own
                 PROVE  \/ \E k \in 0 .. InFlight - 1 :
                             At(k) = i /\ \E j \in k .. InFlight - 1 : At(j) \in skb
                        \/ \E j \in 1 .. ndesc - 1 : At(InFlight + j) = i
      BY DEF HeldUntilSent
    <3>1. CASE \E k \in Done .. InFlight - 1 : At(k) = i
      BY <1>1, <2>1, <3>1 DEF Packets
    <3>2. ASSUME NEW k \in InFlight + 1 .. InFlight + ndesc - 1, At(k) = i
          PROVE  k - InFlight \in 1 .. ndesc - 1 /\ At(InFlight + (k - InFlight)) = i
      BY <1>1, <3>2 DEF TypeOK
    <3> QED BY <2>1, <3>1, <3>2 DEF Ownership
  <2>4. RoomForPacket
    <3>1. ASSUME need > 0 PROVE InFlight + need <= RingSize
      BY <2>1 DEF Bounds
    <3>2. ASSUME need > 0, NEW k \in InFlight .. InFlight + need - 1, At(k) \in skb
          PROVE  FALSE
      <4>1. PICK j \in 0 .. InFlight - 1 : At(j) = At(k)
        BY <2>1, <3>2 DEF Packets, Window
      <4> QED BY <1>1, <3>1, <3>2, <4>1, Positions, RingAssumption
    <3> QED BY <3>1, <3>2 DEF RoomForPacket
  <2>5. StatusCountsDone
    BY <2>1 DEF StatusCountsDone, Bounds
  <2> QED BY <1>2, <2>2, <2>3, <2>4, <2>5
<1> QED BY <1>3, <1>4

\* fill_dma_desc's precaution works: the engine never sends a descriptor that
\* hard_start_xmit has not published.
THEOREM NoEarlyTxHolds == SafeConfig => (Spec => []NoEarlyTx)
<1> SUFFICES ASSUME SafeConfig PROVE Spec => []NoEarlyTx
  OBVIOUS
<1>1. TypeOK /\ RingInv => NoEarlyTx
  BY RingImplies
<1> QED BY <1>1, TypeCorrect, RingCorrect, PTL

\* The frames on the wire are the packets the stack handed over.
THEOREM FramesArePacketsHolds == SafeConfig => (Spec => []FramesArePackets)
<1> SUFFICES ASSUME SafeConfig PROVE Spec => []FramesArePackets
  OBVIOUS
<1>1. TypeOK /\ RingInv => FramesArePackets
  BY RingImplies
<1> QED BY <1>1, TypeCorrect, RingCorrect, PTL

\* tx_packets frees no packet the engine has yet to read.
THEOREM HeldUntilSentHolds == SafeConfig => (Spec => []HeldUntilSent)
<1> SUFFICES ASSUME SafeConfig PROVE Spec => []HeldUntilSent
  OBVIOUS
<1>1. TypeOK /\ RingInv => HeldUntilSent
  BY RingImplies
<1> QED BY <1>1, TypeCorrect, RingCorrect, PTL

\* A packet the stack may send always finds the slots it needs, so
\* fill_dma_desc never fails and no skb is overwritten.
THEOREM RoomForPacketHolds == SafeConfig => (Spec => []RoomForPacket)
<1> SUFFICES ASSUME SafeConfig PROVE Spec => []RoomForPacket
  OBVIOUS
<1>1. TypeOK /\ RingInv => RoomForPacket
  BY RingImplies
<1> QED BY <1>1, TypeCorrect, RingCorrect, PTL

\* TX_STATUS counts exactly the descriptors sent and not yet acknowledged.
THEOREM StatusCountsDoneHolds == SafeConfig => (Spec => []StatusCountsDone)
<1> SUFFICES ASSUME SafeConfig PROVE Spec => []StatusCountsDone
  OBVIOUS
<1>1. TypeOK /\ RingInv => StatusCountsDone
  BY RingImplies
<1> QED BY <1>1, TypeCorrect, RingCorrect, PTL

\* The ring sizes ag71xx_ethtool_set_ringparam should not go below: with a power
\* of two 4 * q, q one less than the largest packet, both thresholds are sound.
LEMMA SafeSizes ==
    ASSUME NEW q \in Nat, RingSize = 4 * q, MaxDesc - 1 <= q, RingMin <= RingSize,
           FixedLink \/ IsAr724x
    PROVE  SafeConfig
<1>1. (RingSize * 3) \div 4 = 3 * q
  OBVIOUS
<1> QED BY <1>1, MaxDescType DEF SafeConfig

-----------------------------------------------------------------------------
(* The restart work, with packets and link changes while it runs *)

\* A step of Ag71xxTxRing outside the work keeps types and ring.
LEMMA RingIdle ==
    ASSUME SafeConfig, RestartInv, Next
    PROVE  TypeOK' /\ (pc = "idle" /\ ~disturbed => RingInv')
  BY TypeStep, RingStep DEF RestartInv, Calm

\* A packet that is sent while the work runs marks the restart as disturbed.
LEMMA XmitKeeps ==
    ASSUME SafeConfig, RestartInv, Xmit
    PROVE  RestartInv'
<1>1. Next
  BY DEF Xmit, Next
<1>2. TypeOK' /\ (pc = "idle" /\ ~disturbed => RingInv')
  BY <1>1, RingIdle
<1>3. pc' = pc /\ at' = at /\ rings' = rings
  BY DEF Xmit, XmitBegin, FillDesc, XmitPublish
<1>4. need = 0 => \E n \in 1 .. MaxDesc : XmitBegin(n)
  BY MaxDescType DEF Xmit, FillDesc, XmitPublish, RestartInv, TypeOK
<1>5. pc # "enable"
  BY <1>4 DEF XmitBegin, RestartInv
<1>6. ~disturbed' => pc = "idle" /\ ~disturbed
  <2>1. CASE \E n \in 1 .. MaxDesc : XmitBegin(n)
    <3>1. ~FillDesc /\ ~XmitPublish
      BY <2>1, MaxDescType DEF XmitBegin, FillDesc, XmitPublish, RestartInv, TypeOK
    <3>2. disturbed' = (disturbed \/ pc # "idle")
      BY <3>1 DEF Xmit
    <3> QED BY <3>2
  <2>2. CASE ~\E n \in 1 .. MaxDesc : XmitBegin(n)
    BY <2>2, <1>4 DEF Xmit, RestartInv, Calm
  <2> QED BY <2>1, <2>2
<1> QED BY <1>2, <1>3, <1>5, <1>6 DEF RestartInv, Calm

\* The engine is off while the work runs, if no packet has started it.
LEMMA EngineKeeps ==
    ASSUME SafeConfig, RestartInv, Engine
    PROVE  RestartInv'
<1>1. Next
  BY DEF Engine, Next
<1>2. TypeOK' /\ (pc = "idle" /\ ~disturbed => RingInv')
  BY <1>1, RingIdle
<1>3. pc' = pc /\ at' = at /\ disturbed' = disturbed /\ txe = "run"
      /\ UNCHANGED <<rings, need, dirty, curr>> /\ own' \subseteq own
  BY DEF Engine, restartVars, HwSend, HwHalt, driverVars
<1>4. ~disturbed => pc = "idle"
  BY <1>3 DEF RestartInv, Calm
<1> QED BY <1>2, <1>3, <1>4 DEF RestartInv, Calm

\* The link may be lost, or found again, while the work sleeps.
LEMMA LinkKeeps ==
    ASSUME SafeConfig, RestartInv, Link
    PROVE  RestartInv'
<1>1. CASE pc = "idle"
  <2>1. Next /\ pc' = pc /\ at' = at /\ disturbed' = disturbed
    BY <1>1 DEF Link, PhyRuns, LinkDown, Next, restartVars
  <2>2. TypeOK' /\ (~disturbed => RingInv')
    BY <1>1, <2>1, RingIdle
  <2> QED BY <1>1, <2>1, <2>2 DEF RestartInv, Calm
<1>2. CASE pc # "idle"
  <2>1. LinkLost /\ UNCHANGED restartVars /\ pc \in {"disable", "enable"}
    BY <1>2 DEF Link, PhyRuns
  <2>2. TypeOK'
    BY <2>1 DEF LinkLost, RestartInv, TypeOK
  <2> QED BY <1>2, <2>1, <2>2 DEF LinkLost, restartVars, RestartInv, Calm
<1> QED BY <1>1, <1>2

\* The AR724x resets on a link it finds again, also a ring that is being freed.
LEMMA LinkResetKeeps ==
    ASSUME SafeConfig, RestartInv, LinkReset
    PROVE  RestartInv'
<1>1. CASE pc = "idle"
  <2>1. Next /\ pc' = pc /\ disturbed' = disturbed /\ (at = "ring" => at' = "ring")
    BY <1>1 DEF LinkReset, PhyRuns, LinkUp, Next
  <2>2. TypeOK' /\ (~disturbed => RingInv')
    BY <1>1, <2>1, RingIdle
  <2> QED BY <1>1, <2>1, <2>2 DEF RestartInv, Calm
<1>2. CASE pc # "idle"
  <2>1. LinkFound /\ pc' = pc /\ disturbed' = disturbed /\ pc \in {"disable", "enable"}
    BY <1>2 DEF LinkReset, PhyRuns
  <2>2. TypeOK'
    BY <2>1, RingAssumption DEF LinkFound, FastReset, RestartInv, TypeOK, Counters
  <2>3. /\ rings' = rings /\ need' = need /\ own' \subseteq own
        /\ dirty = curr => dirty' = curr'
        /\ txe = "halt" => txe' = "halt"
        /\ txps = 0 => txps' = 0
    BY <2>1 DEF LinkFound, FastReset
  <2> QED BY <1>2, <2>1, <2>2, <2>3 DEF RestartInv, Calm
<1> QED BY <1>1, <1>2

\* A poll finds nothing to reap in hw_enable's ring.
LEMMA ReapKeeps ==
    ASSUME SafeConfig, RestartInv, Reap
    PROVE  RestartInv'
<1>1. Next /\ pc' = pc /\ at' = at /\ disturbed' = disturbed
  BY DEF Reap, Next
<1>2. TypeOK' /\ (pc = "idle" /\ ~disturbed => RingInv')
  BY <1>1, RingIdle
<1>3. rings = "alloc" /\ need = 0 /\ UNCHANGED <<rings, need, txe>>
  BY DEF Reap, TxPackets
<1>4. txps = 0 => txps' = 0
  <2>1. PICK m \in 1 .. InFlight : txps' = IF txps > m THEN txps - m ELSE 0
    BY DEF Reap, TxPackets
  <2>2. InFlight \in Int
    BY SlotType DEF InFlight, RestartInv, TypeOK, Counters
  <2> QED BY <2>1, <2>2
<1>5. ~EmptyRing
  <2>1. EmptyRing => InFlight = 0
    BY MinusSelf DEF EmptyRing, InFlight
  <2>2. 1 .. InFlight # {}
    BY DEF Reap, TxPackets
  <2> QED BY <2>1, <2>2
<1>6. ~disturbed => pc \in {"idle", "disable"}
  BY <1>3, <1>5 DEF RestartInv, Calm
<1> QED BY <1>1, <1>2, <1>3, <1>4, <1>6 DEF RestartInv, Calm

\* What schedules the work, or makes the engine hang, does not touch the ring.
LEMMA SchedulingKeeps ==
    ASSUME SafeConfig, RestartInv, HwHang \/ DmaStuck \/ TxTimeout \/ UNCHANGED rvars
    PROVE  RestartInv'
<1>1. UNCHANGED vars /\ pc' = pc /\ at' = at /\ disturbed' = disturbed
  BY DEF HwHang, DmaStuck, TxTimeout, rvars, restartVars
<1>2. TypeOK' /\ (RingInv => RingInv')
  BY <1>1, TypeStep, RingStep DEF RestartInv
<1>3. EmptyRing => EmptyRing'
  BY <1>1 DEF EmptyRing, vars
<1> QED BY <1>1, <1>2, <1>3 DEF RestartInv, Calm, vars

\* hw_disable stops the engine, whatever the ring is like, and frees everything.
LEMMA DisableKeeps ==
    ASSUME SafeConfig, RestartInv, HwDisable \/ RingsCleanup
    PROVE  RestartInv'
<1>1. CASE HwDisable
  <2>1. TypeOK'
    BY <1>1 DEF HwDisable, Step, RestartInv, TypeOK
  <2> QED BY <1>1, <2>1 DEF HwDisable, Step, RestartInv, Calm
<1>2. CASE RingsCleanup
  <2>1. TypeOK'
    BY <1>2 DEF RingsCleanup, Step, RingTxClean, RestartInv, TypeOK
  <2> QED BY <1>2, <2>1 DEF RingsCleanup, RingTxClean, Step, RestartInv, Calm
<1> QED BY <1>1, <1>2

\* hw_enable starts with an empty ring.
LEMMA EnableKeeps ==
    ASSUME SafeConfig, RestartInv, HwEnable
    PROVE  RestartInv'
<1>1. pc = "enable" /\ need = 0 /\ ndesc = 0 /\ RingTxInit /\ at' = "ring"
      /\ pc' \in {"idle", "stop", "start"} /\ disturbed' = disturbed
  BY DEF HwEnable, Step, RestartInv, TypeOK
<1>2. TypeOK'
  BY <1>1, RingAssumption DEF HwEnable, RingTxInit, RestartInv, TypeOK, Counters
<1>3. ASSUME ~disturbed PROVE EmptyRing' /\ txe' = "halt"
  BY <1>1, <1>3 DEF HwEnable, RingTxInit, EmptyRing, RestartInv, Calm
<1>4. ~disturbed => RingInv'
  BY <1>3, FreshInv DEF EmptyRing
<1> QED BY <1>1, <1>2, <1>3, <1>4 DEF RestartInv, Calm, EmptyRing

\* The steps of the fast reset, and hw_start after it.
ResetStep ==
    \/ HwStop \/ Flush \/ MacReset \/ DmaResetStop \/ DmaResetClear
    \/ ResetCurr \/ ResetDirty \/ SetDesc \/ HwStart

\* They keep the types, also of a ring in use.
LEMMA ResetTypes ==
    ASSUME RestartInv, ResetStep
    PROVE  TypeOK'
<1>1. TypeOK
  BY DEF RestartInv
<1>2. CASE Flush
  <2>1. InFlight \in Nat
    BY <1>1, SlotType DEF InFlight, TypeOK, Counters
  <2>2. txps' \in Nat
    BY <1>1, <1>2, <2>1 DEF Flush, TypeOK
  <2> QED BY <1>1, <1>2, <2>2 DEF Flush, TypeOK
<1>3. CASE ResetCurr \/ ResetDirty \/ SetDesc
  BY <1>1, <1>3, RingAssumption DEF ResetCurr, ResetDirty, SetDesc, driverVars, TypeOK, Counters
<1>4. CASE HwStop \/ MacReset \/ DmaResetStop \/ DmaResetClear \/ HwStart
  BY <1>1, <1>4 DEF HwStop, MacReset, DmaResetStop, DmaResetClear, HwStart, driverVars, TypeOK
<1> QED BY <1>2, <1>3, <1>4 DEF ResetStep

\* They keep hw_enable's ring empty, and leave TX_DESC pointing at it.
LEMMA ResetKeeps ==
    ASSUME SafeConfig, RestartInv, ResetStep
    PROVE  RestartInv'
<1>1. /\ pc \notin {"idle", "disable", "enable"} /\ disturbed' = disturbed
      /\ pc' \notin {"disable", "enable"}
      /\ pc' = "idle" => pc = "start" /\ at' = at
      /\ pc' = "start" => at' = "ring"
  BY DEF ResetStep, HwStop, Flush, MacReset, DmaResetStop, DmaResetClear, ResetCurr,
         ResetDirty, SetDesc, HwStart, Step
<1>2. TypeOK'
  BY ResetTypes
<1>3. ASSUME ~disturbed PROVE EmptyRing' /\ txe' = "halt" /\ RingInv'
  <2>1. EmptyRing /\ txe = "halt"
    BY <1>1, <1>3 DEF RestartInv, Calm
  <2>2. InFlight = 0 /\ Window = {}
    BY <2>1, MinusSelf DEF EmptyRing, InFlight, Window
  <2>3. CASE Flush
    BY <2>1, <2>2, <2>3, FreshInv DEF Flush, EmptyRing
  <2>4. CASE ResetCurr \/ ResetDirty \/ SetDesc
    BY <2>1, <2>4, FreshInv DEF ResetCurr, ResetDirty, SetDesc, driverVars, EmptyRing
  <2>5. CASE HwStop \/ MacReset \/ DmaResetStop \/ DmaResetClear \/ HwStart
    BY <2>1, <2>5, FreshInv DEF HwStop, MacReset, DmaResetStop, DmaResetClear, HwStart,
                                driverVars, EmptyRing
  <2> QED BY <2>3, <2>4, <2>5 DEF ResetStep
<1>4. ~disturbed => at = "ring" \/ pc # "start"
  BY DEF RestartInv, Calm
<1> QED BY <1>1, <1>2, <1>3, <1>4 DEF RestartInv, Calm, EmptyRing

\* The invariant of the restart holds in every state of a safe configuration,
\* whatever the stack, the poll and the PHY layer do while the work runs.
THEOREM RestartCorrect == SafeConfig => (RSpec => []RestartInv)
<1> SUFFICES ASSUME SafeConfig
             PROVE  RSpec => []RestartInv
  OBVIOUS
<1>1. RInit => RestartInv
  <2>1. Init => RingInv
    BY DEF Init, RingInv
  <2> QED BY <2>1, TypeInit DEF RInit, RestartInv, Calm
<1>2. RestartInv /\ [RNext]_rvars => RestartInv'
  BY XmitKeeps, EngineKeeps, LinkKeeps, LinkResetKeeps, ReapKeeps, SchedulingKeeps,
     DisableKeeps, EnableKeeps, ResetKeeps DEF RNext, ResetStep
<1> QED BY <1>1, <1>2, PTL DEF RSpec

\* Every restart leaves a sound ring and TX_DESC pointing at it, also when an
\* earlier one was disturbed and has left a spoilt ring; only packets sent while
\* the work runs can keep it from that.
THEOREM SoundRingHolds == SafeConfig => (RSpec => []SoundRing)
<1> SUFFICES ASSUME SafeConfig
             PROVE  RSpec => []SoundRing
  OBVIOUS
<1>1. RestartInv => SoundRing
  BY DEF RestartInv, Calm, SoundRing
<1> QED BY <1>1, RestartCorrect, PTL

-----------------------------------------------------------------------------
(* The receive ring: type correctness *)

\* Distances are natural numbers below the width of the counters.
LEMMA Distances ==
    ASSUME RxTypeOK
    PROVE  /\ rx_curr \in Int /\ rx_dirty \in Int /\ rx_hw \in Int
           /\ Backlog \in Nat /\ Unfilled \in Nat
           /\ Backlog < CounterMod /\ Unfilled < CounterMod
<1>1. rx_curr \in Int /\ rx_dirty \in Int /\ rx_hw \in Int
  BY DEF RxTypeOK, Counters
<1>2. Backlog \in Counters /\ Unfilled \in Counters
  BY <1>1, SlotType DEF Backlog, Unfilled
<1> QED BY <1>1, <1>2, RingAssumption DEF Counters

\* The initial state is of the right type.
LEMMA RxTypeInit == RxInit => RxTypeOK
  BY RingAssumption, RxAssumption DEF RxInit, RxTypeOK, Counters

\* Every step of poll, engine and environment keeps the types.
LEMMA RxTypeStep == RxTypeOK /\ [RxNext]_rx_vars => RxTypeOK'
<1> SUFFICES ASSUME RxTypeOK, [RxNext]_rx_vars
             PROVE  RxTypeOK'
  OBVIOUS
<1> USE DEF ring, status, sched
<1>1. rx_curr \in Int /\ rx_dirty \in Int /\ rx_hw \in Int /\ Unfilled \in Nat
  BY Distances
<1>2. Plus(rx_hw, 1) \in Counters /\ Plus(rx_curr, 1) \in Counters
      /\ \A n \in Int : Plus(rx_dirty, n) \in Counters /\ Run(rx_dirty, n) \subseteq Slots
  BY <1>1, SlotType DEF Run
<1>3. ASSUME NEW d \in Payloads, HwReceive(d)
      PROVE  RxTypeOK'
  BY <1>2, <1>3 DEF HwReceive, RxTypeOK
<1>4. CASE HwOverflow \/ HwTxDone \/ Interrupt \/ OomTimer
  BY <1>4 DEF HwOverflow, HwTxDone, Interrupt, OomTimer, RxTypeOK
<1>5. CASE PollTx \/ PollRx \/ PollAssert \/ PollRxEnd
  BY <1>2, <1>5, RxAssumption DEF PollTx, PollRx, PollAssert, PollRxEnd, RxTypeOK
<1>6. CASE PollRefill
  <2>1. PICK n \in 0 .. Unfilled :
          /\ empty' = empty \union Run(rx_dirty, n) /\ buf' = buf \union Run(rx_dirty, n)
          /\ rx_dirty' = Plus(rx_dirty, n)
    BY <1>6 DEF PollRefill
  <2>2. n \in Int
    BY <1>1
  <2>3. rx_pc' \in {"status", "idle"} /\ timer' \in {timer, "armed"} /\ napi' \in {napi, "idle"}
    BY <1>6 DEF PollRefill
  <2> QED BY <1>2, <1>6, <2>1, <2>2, <2>3 DEF PollRefill, RxTypeOK
<1>7. CASE PollStatus \/ PollTxStatus \/ PollEnable
  BY <1>7 DEF PollStatus, PollTxStatus, PollEnable, RxTypeOK
<1>8. CASE RxLinkDown \/ RxLinkUp \/ MemChange
  BY <1>8 DEF RxLinkDown, RxLinkUp, MemChange, RxTypeOK
<1>9. CASE UNCHANGED rx_vars
  BY <1>9 DEF rx_vars, RxTypeOK
<1> QED BY <1>3, <1>4, <1>5, <1>6, <1>7, <1>8, <1>9 DEF RxNext

\* The variables of the receive side stay of the right type.
THEOREM RxTypeCorrect == RxSpec => []RxTypeOK
  BY RxTypeInit, RxTypeStep, PTL DEF RxSpec

-----------------------------------------------------------------------------
(* The stretches of the ring *)

\* The stretches fit in the ring.
LEMMA RxDistances ==
    ASSUME RxTypeOK, Stretches
    PROVE  /\ rx_curr \in Int /\ rx_dirty \in Int /\ rx_hw \in Int
           /\ Backlog \in Nat /\ Unfilled \in Nat
           /\ Backlog < CounterMod /\ Unfilled < CounterMod
           /\ Backlog + Unfilled <= RingSize /\ RingSize < CounterMod
<1>1. Unfilled + Backlog <= RingSize
  BY DEF Stretches
<1> QED BY <1>1, Distances, RingAssumption

\* The engine fills the first slot of its stretch.
LEMMA HwReceiveStretches ==
    ASSUME RxTypeOK, Stretches, NEW d \in Payloads, HwReceive(d)
    PROVE  Stretches' /\ Backlog' = Backlog + 1 /\ Unfilled' = Unfilled
           /\ Backlog + Unfilled < RingSize
<1> DEFINE e == RingSize - Unfilled - Backlog
<1>1. e \in Nat /\ rx_hw \in Int
  BY RxDistances, RingAssumption
<1>2. e # 0
  <2>1. 0 .. 0 - 1 = {}
    OBVIOUS
  <2>2. Run(rx_hw, 0) = {}
    BY <2>1 DEF Run
  <2> QED BY <2>2 DEF HwReceive, Stretches
<1>3. Backlog + 1 < CounterMod
  BY <1>1, <1>2, RxDistances, RingAssumption
<1>4. Backlog' = Backlog + 1
  BY <1>3, RxDistances, MinusAhead DEF HwReceive, Backlog
<1>5. Unfilled' = Unfilled /\ buf' = buf /\ rx_curr' = rx_curr
  BY DEF HwReceive, Unfilled
<1>6. empty' = Run(rx_hw', e - 1)
  <2>1. e \in 1 .. RingSize
    BY <1>1, <1>2, RxDistances, RingAssumption
  <2> HIDE DEF e
  <2>2. Run(rx_hw, e) \ {Slot(rx_hw)} = Run(rx_hw + 1, e - 1)
    BY <1>1, <2>1, RunRest
  <2>3. Run(Plus(rx_hw, 1), e - 1) = Run(rx_hw + 1, e - 1)
    BY <1>1, RunPlus
  <2>4. empty = Run(rx_hw, e)
    BY DEF Stretches, e
  <2> QED BY <2>2, <2>3, <2>4 DEF HwReceive
<1>7. e - 1 = RingSize - Unfilled' - Backlog' /\ Backlog + Unfilled < RingSize
      /\ Unfilled' + Backlog' <= RingSize
  BY <1>1, <1>2, <1>4, <1>5, RxDistances, RingAssumption
<1>8. buf' = Run(rx_curr', RingSize - Unfilled')
  BY <1>5 DEF Stretches
<1> QED BY <1>4, <1>5, <1>6, <1>7, <1>8 DEF Stretches

\* The poll takes the first slot of the backlog, which is not empty: an empty
\* backlog would make the slot the engine's, or the ring all unfilled.
LEMMA PollRxStretches ==
    ASSUME RxTypeOK, Stretches, PollRx
    PROVE  Stretches' /\ Backlog > 0 /\ Backlog' = Backlog - 1 /\ Unfilled' = Unfilled + 1
<1> DEFINE b == RingSize - Unfilled
<1>1. b \in Nat /\ rx_curr \in Int
  BY RxDistances, RingAssumption
<1>2. Unfilled # RingSize
  <2>1. rx_curr = Plus(rx_dirty, Unfilled)
    BY PlusMinus DEF RxTypeOK, Unfilled
  <2> QED BY <2>1 DEF PollRx
<1>3. b \in 1 .. RingSize
  BY <1>1, <1>2, RxDistances, RingAssumption
<1>4. Backlog > 0
  <2>1. SUFFICES ASSUME Backlog = 0 PROVE FALSE
    BY RxDistances
  <2>2. Slot(rx_hw) = Slot(rx_curr + 0)
    BY <2>1, RxDistances, SlotFromZero DEF Backlog
  <2>3. RingSize - Unfilled - Backlog = b /\ rx_curr + 0 = rx_curr
    BY <1>1, <2>1, RxDistances, RingAssumption
  <2>4. Slot(rx_hw) \in Run(rx_hw, b)
    BY <1>3, RxDistances, RunRest
  <2> QED BY <2>2, <2>3, <2>4 DEF Stretches, PollRx
<1>5. Backlog' = Backlog - 1
  BY <1>4, RxDistances, MinusBehind DEF PollRx, Backlog
<1>6. Unfilled' = Unfilled + 1
  <2>1. Unfilled + 1 < CounterMod
    BY <1>4, RxDistances, RingAssumption
  <2> QED BY <2>1, RxDistances, MinusAhead DEF PollRx, Unfilled
<1>7. buf' = Run(rx_curr', b - 1)
  <2> HIDE DEF b
  <2>1. Run(rx_curr, b) \ {Slot(rx_curr)} = Run(rx_curr + 1, b - 1)
    BY <1>1, <1>3, RunRest
  <2>2. Run(Plus(rx_curr, 1), b - 1) = Run(rx_curr + 1, b - 1)
    BY <1>1, RunPlus
  <2>3. buf = Run(rx_curr, b)
    BY DEF Stretches, b
  <2> QED BY <2>1, <2>2, <2>3 DEF PollRx
<1>8. b - 1 = RingSize - Unfilled'
      /\ RingSize - Unfilled' - Backlog' = RingSize - Unfilled - Backlog
      /\ Unfilled' + Backlog' <= RingSize
  BY <1>4, <1>5, <1>6, RxDistances, RingAssumption
<1>9. empty' = empty /\ rx_hw' = rx_hw
  BY DEF PollRx
<1> QED BY <1>4, <1>5, <1>6, <1>7, <1>8, <1>9 DEF Stretches

\* The refill extends the engine's stretch by the slots it fills: the slot
\* after that stretch is the one at dirty, once round the ring.
LEMMA PollRefillStretches ==
    ASSUME RxTypeOK, Stretches, PollRefill
    PROVE  Stretches' /\ Backlog' = Backlog
<1> DEFINE e == RingSize - Unfilled - Backlog
           b == RingSize - Unfilled
<1>1. e \in Nat /\ b \in Nat /\ rx_curr \in Int /\ rx_hw \in Int /\ rx_dirty \in Int
      /\ Backlog \in Nat /\ Unfilled \in Nat
  BY RxDistances, RingAssumption
<1>2. PICK n \in 0 .. Unfilled :
        /\ empty' = empty \union Run(rx_dirty, n) /\ buf' = buf \union Run(rx_dirty, n)
        /\ rx_dirty' = Plus(rx_dirty, n)
  BY DEF PollRefill
<1>3. n \in Nat /\ n <= Unfilled
  BY <1>1
<1>4. Unfilled' = Unfilled - n /\ Backlog' = Backlog /\ rx_hw' = rx_hw /\ rx_curr' = rx_curr
  <2>1. Unfilled' = Unfilled - n
    BY <1>1, <1>2, <1>3, MinusBehind DEF PollRefill, Unfilled
  <2> QED BY <2>1 DEF PollRefill, Backlog
<1>5. Slot(rx_curr + b) = Slot(rx_dirty)
  <2>1. Slot(rx_curr + b) = Slot(rx_dirty + (Unfilled + b))
    BY <1>1, SlotFrom DEF Unfilled
  <2>2. Unfilled + b = RingSize
    BY <1>1, RingAssumption
  <2> QED BY <1>1, <2>1, <2>2, SlotRound
<1>6. Slot(rx_hw + e) = Slot(rx_dirty)
  <2>1. Slot(rx_hw + e) = Slot(rx_curr + (Backlog + e))
    BY <1>1, SlotFrom DEF Backlog
  <2>2. Backlog + e = b
    BY <1>1, RingAssumption
  <2> QED BY <1>5, <2>1, <2>2
<1>7. empty = Run(rx_hw, e) /\ buf = Run(rx_curr, b)
  BY DEF Stretches
<1>8. RingSize - Unfilled' - Backlog' = e + n /\ RingSize - Unfilled' = b + n
      /\ Unfilled' + Backlog' <= RingSize
  BY <1>1, <1>3, <1>4, RxDistances, RingAssumption
<1> HIDE DEF e, b
<1>9. rx_hw + e \in Int /\ rx_curr + b \in Int /\ n \in Int
  BY <1>1, <1>3
<1>10. Run(rx_hw + e, n) = Run(rx_dirty, n) /\ Run(rx_curr + b, n) = Run(rx_dirty, n)
  BY <1>1, <1>5, <1>6, <1>9, RunCong
<1>11. empty' = Run(rx_hw, e + n)
  BY <1>1, <1>2, <1>3, <1>7, <1>10, RunJoin
<1>12. buf' = Run(rx_curr, b + n)
  BY <1>1, <1>2, <1>3, <1>7, <1>10, RunJoin
<1> QED BY <1>4, <1>8, <1>11, <1>12 DEF Stretches

\* A step that leaves the ring alone.
LEMMA QuietStretches ==
    ASSUME Stretches, UNCHANGED ring
    PROVE  Stretches' /\ Backlog' = Backlog
  BY DEF ring, Stretches, Backlog, Unfilled

\* Every step keeps the stretches and the count of the status register.
LEMMA RxStep == RxTypeOK /\ RxInv /\ [RxNext]_rx_vars => RxInv'
<1> SUFFICES ASSUME RxTypeOK, RxInv, [RxNext]_rx_vars
             PROVE  RxInv'
  OBVIOUS
<1> USE DEF RxInv, StatusCountsBacklog, PollScheduled, NoLostWakeup, status, sched
<1>1. Backlog \in Nat /\ pr \in Nat /\ Stretches
  BY Distances DEF RxTypeOK
<1>2. ASSUME NEW d \in Payloads, HwReceive(d)
      PROVE  RxInv'
  <2>1. Stretches' /\ Backlog' = Backlog + 1
    BY <1>1, <1>2, HwReceiveStretches
  <2> QED BY <1>1, <1>2, <2>1 DEF HwReceive
<1>3. CASE HwOverflow
  BY <1>1, <1>3, QuietStretches DEF HwOverflow
<1>4. CASE HwTxDone
  BY <1>1, <1>4, QuietStretches DEF HwTxDone
<1>5. CASE Interrupt
  BY <1>1, <1>5, QuietStretches DEF Interrupt
<1>6. CASE OomTimer
  BY <1>1, <1>6, QuietStretches DEF OomTimer
<1>7. CASE PollTx
  BY <1>1, <1>7, QuietStretches DEF PollTx
<1>8. CASE PollRx
  <2>1. Stretches' /\ Backlog > 0 /\ Backlog' = Backlog - 1
    BY <1>1, <1>8, PollRxStretches
  <2> QED BY <1>1, <1>8, <2>1 DEF PollRx
<1>9. CASE PollAssert
  BY <1>1, <1>9, QuietStretches DEF PollAssert
<1>10. CASE PollRxEnd
  BY <1>1, <1>10, QuietStretches DEF PollRxEnd
<1>11. CASE PollRefill
  <2>1. Stretches' /\ Backlog' = Backlog
    BY <1>1, <1>11, PollRefillStretches
  <2>2. CASE Slot(rx_dirty') \in buf'
    BY <1>1, <1>11, <2>1, <2>2 DEF PollRefill
  <2>3. CASE Slot(rx_dirty') \notin buf'
    BY <1>1, <1>11, <2>1, <2>3 DEF PollRefill
  <2> QED BY <2>2, <2>3
<1>12. CASE PollStatus
  <2>1. Stretches' /\ Backlog' = Backlog
    BY <1>1, <1>12, QuietStretches DEF PollStatus
  <2>2. CASE done < Limit /\ pr = 0
    BY <1>1, <1>12, <2>1, <2>2 DEF PollStatus
  <2>3. CASE ~(done < Limit /\ pr = 0)
    BY <1>1, <1>12, <2>1, <2>3 DEF PollStatus
  <2> QED BY <2>2, <2>3
<1>13. CASE PollTxStatus
  <2>1. Stretches' /\ Backlog' = Backlog
    BY <1>1, <1>13, QuietStretches DEF PollTxStatus
  <2>2. CASE ps = "set"
    BY <1>1, <1>13, <2>1, <2>2 DEF PollTxStatus
  <2>3. CASE ps # "set"
    BY <1>1, <1>13, <2>1, <2>3 DEF PollTxStatus
  <2> QED BY <2>2, <2>3
<1>14. CASE PollEnable
  BY <1>1, <1>14, QuietStretches DEF PollEnable
<1>15. CASE RxLinkDown
  BY <1>1, <1>15, QuietStretches DEF RxLinkDown
<1>16. CASE RxLinkUp
  BY <1>1, <1>16, QuietStretches DEF RxLinkUp
<1>17. CASE MemChange
  BY <1>1, <1>17, QuietStretches DEF MemChange
<1>18. CASE UNCHANGED rx_vars
  BY <1>1, <1>18, QuietStretches DEF rx_vars
<1> QED
  BY <1>2, <1>3, <1>4, <1>5, <1>6, <1>7, <1>8, <1>9, <1>10, <1>11, <1>12, <1>13,
     <1>14, <1>15, <1>16, <1>17, <1>18 DEF RxNext

\* The ring starts with every slot in the engine's stretch.
LEMMA RxInvInit == RxInit => RxInv
<1> SUFFICES ASSUME RxInit PROVE RxInv
  OBVIOUS
<1>1. Backlog = 0 /\ Unfilled = 0
  BY MinusSelf DEF RxInit, Backlog, Unfilled
<1>2. Run(0, RingSize) = Slots
  <2>1. \A k \in 0 .. RingSize - 1 : Slot(0 + k) = k
    BY RingAssumption, ModSmall DEF Slot
  <2> QED BY <2>1 DEF Run, Slots
<1>3. RingSize - 0 = RingSize /\ RingSize - 0 - 0 = RingSize
  BY RingAssumption
<1> QED BY <1>1, <1>2, <1>3, RingAssumption
        DEF RxInit, RxInv, Stretches, StatusCountsBacklog, PollScheduled, NoLostWakeup

\* The receive side's invariant: the ring is made of its three stretches,
\* RX_STATUS counts the backlog and no wakeup is lost.
THEOREM RxCorrect == RxSpec => []RxInv
  BY RxInvInit, RxStep, RxTypeCorrect, PTL DEF RxSpec

\* While the link is up, something can always start the poll.
THEOREM NoLostWakeupHolds == RxSpec => []NoLostWakeup
<1>1. RxInv => NoLostWakeup
  BY DEF RxInv
<1> QED BY <1>1, RxCorrect, PTL

\* The engine and build_skb only ever get slots that have a buffer, whatever
\* allocations fail.
THEOREM DmaTargetHolds == RxSpec => []DmaTarget
<1>1. RxTypeOK /\ RxInv => DmaTarget
  <2> SUFFICES ASSUME RxTypeOK, RxInv PROVE DmaTarget
    OBVIOUS
  <2> DEFINE e == RingSize - Unfilled - Backlog
  <2>1. Stretches
    BY DEF RxInv
  <2>2. e \in Nat /\ Backlog \in Nat /\ Backlog + e = RingSize - Unfilled
        /\ rx_curr \in Int /\ rx_hw \in Int
    BY <2>1, RxDistances, RingAssumption
  <2>3. empty = Run(rx_hw, e) /\ buf = Run(rx_curr, RingSize - Unfilled)
    BY <2>1 DEF Stretches
  <2> HIDE DEF e
  <2>4. Run(rx_curr, Backlog) \union Run(rx_curr + Backlog, e) = Run(rx_curr, Backlog + e)
    <3>1. e \in Nat /\ Backlog \in Nat /\ rx_curr \in Int
      BY <2>2
    <3> QED BY <3>1, RunJoin, ZenonT(30)
  <2>5. Slot(rx_hw) = Slot(rx_curr + Backlog)
    BY <2>2, SlotFromZero DEF Backlog
  <2>6. Run(rx_curr + Backlog, e) = Run(rx_hw, e)
    BY <2>2, <2>5, RunCong
  <2> QED BY <2>2, <2>3, <2>4, <2>6 DEF DmaTarget
<1> QED BY <1>1, RxCorrect, RxTypeCorrect, PTL

-----------------------------------------------------------------------------
(* The ring is a queue *)

\* What a run of slots holds, as a sequence.
LEMMA RunSeq ==
    ASSUME NEW c \in Int, NEW n \in Nat, NEW f \in [Slots -> Payloads]
    PROVE  /\ [k \in 1 .. n |-> f[Slot(c + k - 1)]] \in Seq(Payloads)
           /\ Len([k \in 1 .. n |-> f[Slot(c + k - 1)]]) = n
<1>1. ASSUME NEW k \in 1 .. n
      PROVE  f[Slot(c + k - 1)] \in Payloads
  <2>1. c + k - 1 \in Int
    OBVIOUS
  <2>2. Slot(c + k - 1) \in Slots
    BY <2>1, SlotType
  <2> QED BY <2>2
<1> QED BY <1>1

\* The backlog is a sequence, before and after a step.
LEMMA BacklogSeq ==
    /\ RxTypeOK => backlog \in Seq(Payloads) /\ Len(backlog) = Backlog
    /\ RxTypeOK' => backlog' \in Seq(Payloads) /\ Len(backlog') = Backlog'
<1>1. ASSUME RxTypeOK
      PROVE  backlog \in Seq(Payloads) /\ Len(backlog) = Backlog
  <2>1. Backlog \in Nat /\ rx_curr \in Int /\ data \in [Slots -> Payloads]
    BY <1>1, Distances DEF RxTypeOK
  <2> QED BY <2>1, RunSeq, ZenonT(30) DEF backlog
<1>2. ASSUME RxTypeOK'
      PROVE  backlog' \in Seq(Payloads) /\ Len(backlog') = Backlog'
  <2>1. rx_curr' \in Int /\ rx_hw' \in Int /\ data' \in [Slots -> Payloads]
    BY <1>2 DEF RxTypeOK, Counters
  <2>2. Backlog' \in Nat
    BY <2>1, SlotType, RingAssumption DEF Backlog, Counters
  <2> QED BY <2>1, <2>2, RunSeq, ZenonT(30) DEF backlog
<1> QED BY <1>1, <1>2

\* A queue is another one with an element behind it.
LEMMA Appended ==
    ASSUME NEW S, NEW a \in Seq(S), NEW b \in Seq(S), NEW x \in S,
           Len(b) = Len(a) + 1, b[Len(a) + 1] = x,
           \A k \in 1 .. Len(a) : b[k] = a[k]
    PROVE  b = Append(a, x)
  BY SMTT(30)

\* A received frame is appended to the queue.
LEMMA ReceivePuts ==
    ASSUME RxTypeOK, RxTypeOK', Stretches, NEW d \in Payloads, HwReceive(d)
    PROVE  Fifo!Put(d)
<1>1. Backlog' = Backlog + 1 /\ Backlog + Unfilled < RingSize
  BY HwReceiveStretches
<1>2. Backlog \in Nat /\ Unfilled \in Nat /\ rx_curr \in Int /\ rx_hw \in Int /\ rx_curr' = rx_curr
  BY Distances DEF HwReceive
<1>3. Len(backlog) < RingSize
  BY <1>1, <1>2, BacklogSeq, RingAssumption
<1>4. ASSUME NEW k \in 1 .. Backlog
      PROVE  backlog'[k] = backlog[k]
  <2> DEFINE a == rx_curr + k - 1
             z == rx_curr + Backlog
  <2>1. a \in Int /\ z \in Int /\ a # z /\ a - z < RingSize /\ z - a < RingSize
    BY <1>1, <1>2, RingAssumption
  <2>2. Slot(rx_hw) = Slot(z)
    BY <1>2, SlotFromZero DEF Backlog
  <2> HIDE DEF a, z
  <2>3. Slot(a) # Slot(rx_hw) /\ Slot(a) \in Slots
    BY <2>1, <2>2, SlotInj, SlotType
  <2>4. data'[Slot(a)] = data[Slot(a)]
    BY <2>3 DEF HwReceive, RxTypeOK
  <2>5. backlog'[k] = data'[Slot(a)] /\ backlog[k] = data[Slot(a)]
    <3>1. k \in 1 .. Backlog' /\ rx_curr' = rx_curr
      BY <1>1, <1>2
    <3>2. backlog'[k] = data'[Slot(rx_curr' + k - 1)]
      BY <3>1, Zenon DEF backlog
    <3>3. backlog[k] = data[Slot(rx_curr + k - 1)]
      BY Zenon DEF backlog
    <3> QED BY <3>1, <3>2, <3>3, Zenon DEF a
  <2> QED BY <2>4, <2>5
<1>5. backlog'[Backlog + 1] = d
  <2>1. rx_curr + (Backlog + 1) - 1 = rx_curr + Backlog
    BY <1>2
  <2>2. Slot(rx_hw) = Slot(rx_curr + Backlog) /\ Slot(rx_hw) \in Slots
    BY <1>2, SlotFromZero, SlotType DEF Backlog
  <2>3. data'[Slot(rx_hw)] = d
    BY <2>2 DEF HwReceive, RxTypeOK
  <2> QED BY <1>1, <1>2, <2>1, <2>2, <2>3 DEF backlog
<1>6. backlog' = Append(backlog, d)
  <2>1. backlog' \in Seq(Payloads) /\ Len(backlog') = Backlog + 1
    BY <1>1, BacklogSeq
  <2>2. backlog \in Seq(Payloads) /\ Len(backlog) = Backlog
    BY BacklogSeq
  <2>3. backlog'[Len(backlog) + 1] = d /\ Len(backlog') = Len(backlog) + 1
    BY <1>5, <2>1, <2>2
  <2>4. \A k \in 1 .. Len(backlog) : backlog'[k] = backlog[k]
    BY <1>4, <2>2
  <2> QED BY <2>1, <2>2, <2>3, <2>4, Appended
<1> QED BY <1>3, <1>6 DEF Fifo!Put

\* rx_packets takes the packet at the head of the queue.
LEMMA PollTakes ==
    ASSUME RxTypeOK, RxTypeOK', Stretches, PollRx
    PROVE  Fifo!Take
<1>1. Backlog' = Backlog - 1 /\ Backlog > 0
  BY PollRxStretches
<1>2. Backlog \in Nat /\ rx_curr \in Int /\ rx_curr' = Plus(rx_curr, 1) /\ data' = data
  BY Distances DEF PollRx
<1>3. backlog \in Seq(Payloads) /\ Len(backlog) = Backlog /\ backlog # <<>>
  BY <1>1, BacklogSeq
<1>4. backlog' \in Seq(Payloads) /\ Len(backlog') = Backlog - 1
  BY <1>1, BacklogSeq
<1>5. ASSUME NEW k \in 1 .. Backlog - 1
      PROVE  backlog'[k] = backlog[k + 1]
  <2> DEFINE j == k - 1
  <2>1. j \in Int /\ Plus(rx_curr, 1) \in Int
    BY <1>2, SlotType DEF Counters
  <2>2. Slot(Plus(rx_curr, 1) + j) = Slot(rx_curr + (1 + j))
    BY <1>2, <2>1, SlotMoved
  <2>3. Plus(rx_curr, 1) + k - 1 = Plus(rx_curr, 1) + j /\ rx_curr + (k + 1) - 1 = rx_curr + (1 + j)
    BY <1>2, <2>1
  <2>4. backlog'[k] = data[Slot(Plus(rx_curr, 1) + k - 1)]
        /\ backlog[k + 1] = data[Slot(rx_curr + (k + 1) - 1)]
    BY <1>1, <1>2 DEF backlog
  <2> QED BY <2>2, <2>3, <2>4
<1>6. backlog' = Tail(backlog)
  BY <1>1, <1>2, <1>3, <1>4, <1>5
<1> QED BY <1>3, <1>6 DEF Fifo!Take

\* A step that moves neither end of the backlog.
LEMMA QuietFifo ==
    ASSUME UNCHANGED <<rx_curr, rx_hw, data>>
    PROVE  UNCHANGED backlog
  BY DEF backlog, Backlog

\* Every step puts a packet, takes one or leaves the queue alone.
LEMMA FifoStep == RxTypeOK /\ RxTypeOK' /\ RxInv /\ [RxNext]_rx_vars => [Fifo!Next]_backlog
<1> SUFFICES ASSUME RxTypeOK, RxTypeOK', RxInv, [RxNext]_rx_vars
             PROVE  [Fifo!Next]_backlog
  OBVIOUS
<1>1. Stretches
  BY DEF RxInv
<1>2. ASSUME NEW d \in Payloads, HwReceive(d)
      PROVE  Fifo!Next
  BY <1>1, <1>2, ReceivePuts DEF Fifo!Next
<1>3. CASE PollRx
  BY <1>1, <1>3, PollTakes, SMTT(60) DEF Fifo!Next
<1>4. CASE HwOverflow \/ HwTxDone \/ Interrupt \/ OomTimer \/ PollTx \/ PollAssert
           \/ PollRxEnd \/ PollRefill \/ PollStatus \/ PollTxStatus \/ PollEnable
           \/ RxLinkDown \/ RxLinkUp \/ MemChange \/ UNCHANGED rx_vars
  BY <1>4, QuietFifo
     DEF HwOverflow, HwTxDone, Interrupt, OomTimer, PollTx, PollAssert, PollRxEnd,
         PollRefill, PollStatus, PollTxStatus, PollEnable, RxLinkDown, RxLinkUp,
         MemChange, rx_vars, ring
<1> QED BY <1>2, <1>3, <1>4 DEF RxNext

\* The receive ring implements a bounded FIFO queue: rx_packets hands over what
\* the engine received, in that order, each packet once and unchanged.
THEOREM RxImplementsFifo == RxSpec => ImplementsFifo
<1>1. RxInit => Fifo!Init
  <2> SUFFICES ASSUME RxInit PROVE backlog = <<>>
    BY DEF Fifo!Init
  <2>1. Backlog = 0
    BY MinusSelf DEF RxInit, Backlog
  <2> QED BY <2>1 DEF backlog
<1> QED
  BY <1>1, FifoStep, RxCorrect, RxTypeCorrect, PTL DEF RxSpec, ImplementsFifo, Fifo!Spec

\* RX_STATUS counts the packets in the ring: exactly, unless the fast reset of
\* the AR724x has cleared it.
THEOREM StatusCountsBacklogHolds == RxSpec => []StatusCountsBacklog
<1>1. RxInv => StatusCountsBacklog
  BY DEF RxInv
<1> QED BY <1>1, RxCorrect, PTL
=============================================================================
