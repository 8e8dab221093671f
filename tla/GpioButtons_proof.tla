-------------------------- MODULE GpioButtons_proof --------------------------
(***************************************************************************)
(* Debouncing, for any buttons, any threshold, any number of workers and   *)
(* any number of edges and failing allocations.                            *)
(***************************************************************************)
EXTENDS GpioButtons, FiniteSetTheorems, TLAPS

-------------------------------------------------------------------------------
(* Events                                                                  *)

\* The place of a button among those of B counts from 1 to the size of B.
LEMMA InTurnSeq ==
  ASSUME NEW B \in SUBSET Buttons
  PROVE  /\ Cardinality(B) \in Nat
         /\ InTurn(B) \in Seq(B)
         /\ Len(InTurn(B)) = Cardinality(B)
<1> DEFINE n == Cardinality(B)
           upto(b) == {c \in B : Index[c] <= Index[b]}
           f == [b \in B |-> Cardinality(upto(b))]
<1>1. IsFiniteSet(B) /\ n \in Nat
  BY ButtonsAssumption, FS_Subset, FS_CardinalityType
<1>2. \A b \in B : IsFiniteSet(upto(b)) /\ upto(b) \in SUBSET B
  BY <1>1, FS_Subset
<1>3. \A b \in B : Cardinality(upto(b)) \in 1 .. n
  <2> SUFFICES ASSUME NEW b \in B PROVE Cardinality(upto(b)) \in 1 .. n
    OBVIOUS
  <2>1. b \in upto(b)
    BY ButtonsAssumption
  <2>2. Cardinality(upto(b)) \in Nat /\ Cardinality(upto(b)) <= n
    BY <1>1, <1>2, FS_Subset, FS_CardinalityType
  <2>3. Cardinality(upto(b)) # 0
    BY <1>2, <2>1, FS_EmptySet
  <2> QED BY <1>1, <2>2, <2>3
<1>4. \A b, c \in B : f[b] = f[c] => b = c
  <2> SUFFICES ASSUME NEW b \in B, NEW c \in B, b # c,
                      Cardinality(upto(b)) = Cardinality(upto(c))
               PROVE  FALSE
    OBVIOUS
  <2>1. Index[b] \in Nat /\ Index[c] \in Nat /\ Index[b] # Index[c]
    BY ButtonsAssumption DEF IsInjective
  <2>2. ASSUME NEW x \in B, NEW y \in B, Index[x] < Index[y],
               Cardinality(upto(x)) = Cardinality(upto(y))
        PROVE  FALSE
    <3>1. upto(x) \in SUBSET upto(y)
      BY <2>2, ButtonsAssumption
    <3>2. y \in upto(y) /\ y \notin upto(x)
      BY <2>2, ButtonsAssumption
    <3>3. IsFiniteSet(upto(y))
      BY <1>2
    <3>4. upto(y) = upto(x)
      BY <2>2, <3>1, <3>3, FS_Subset
    <3> QED BY <3>2, <3>4
  <2> HIDE DEF upto
  <2> QED BY <2>1, <2>2
<1>5. f \in Injection(B, 1 .. n)
  BY <1>3, <1>4, ZenonT(30) DEF Injection, IsInjective
<1>6. IsFiniteSet(1 .. n) /\ Cardinality(1 .. n) = n
  BY <1>1, FS_Interval
<1>7. f \in Surjection(B, 1 .. n)
  BY <1>5, <1>6, FS_Injection
<1>8. \A i \in 1 .. n : \E b \in B : Cardinality(upto(b)) = i
  BY <1>7, ZenonT(30) DEF Surjection
<1>9. \A i \in 1 .. n : (CHOOSE b \in B : Cardinality(upto(b)) = i) \in B
  BY <1>8
<1>10. InTurn(B) = [i \in 1 .. n |-> CHOOSE b \in B : Cardinality(upto(b)) = i]
  BY DEF InTurn
<1> HIDE DEF n, upto
<1>11. InTurn(B) \in [1 .. n -> B]
  BY <1>9, <1>10
<1>12. InTurn(B) \in Seq(B) /\ Len(InTurn(B)) = n
  BY <1>1, <1>11
<1> QED BY <1>1, <1>12 DEF n

\* What creating events does: some are queued, numbered from next on.
LEMMA Created ==
  ASSUME TypeOK, NEW B \in SUBSET Buttons, NEW value, NEW failing,
         \A b \in B : value[b] \in Values,
         CreateEvents(B, value, failing)
  PROVE  /\ \E new \in Seq(Events) :
              /\ queue' = queue \o new
              /\ next' = next + Len(new)
              /\ \A i \in 1 .. Len(new) : new[i].id = next + i - 1
         /\ made' \in [Buttons -> Values \cup {-1}]
         /\ lost' \subseteq Buttons
         /\ fails' \in 0 .. MaxFails
<1> DEFINE K == (B \cap Mapped) \ failing
           kept == InTurn(K)
           new == [i \in DOMAIN kept |->
                     [button |-> kept[i], value |-> value[kept[i]], id |-> next + i - 1]]
<1>1. K \in SUBSET Buttons /\ B \cap Mapped \cap failing \in SUBSET Buttons
  OBVIOUS
<1>2. kept \in Seq(K)
  BY <1>1, InTurnSeq
<1>3. /\ queue' = queue \o new /\ next' = next + Len(kept)
      /\ made' = [b \in Buttons |-> IF b \in K THEN value[b] ELSE made[b]]
      /\ lost' = lost \cup (B \cap Mapped \cap failing)
      /\ fails' = fails + Cardinality(B \cap Mapped \cap failing) /\ fails' <= MaxFails
  BY DEF CreateEvents
<1>4. next \in Nat
  BY DEF TypeOK
<1>5. new \in Seq(Events) /\ Len(new) = Len(kept)
  <2> HIDE DEF kept
  <2>1. DOMAIN kept = 1 .. Len(kept) /\ Len(kept) \in Nat
    BY <1>2
  <2>2. \A i \in 1 .. Len(kept) : kept[i] \in K
    BY <1>2
  <2>3. ASSUME NEW i \in 1 .. Len(kept)
        PROVE  [button |-> kept[i], value |-> value[kept[i]], id |-> next + i - 1] \in Events
    <3>1. kept[i] \in Buttons /\ value[kept[i]] \in Values
      BY <2>2
    <3>2. next + i - 1 \in Nat
      BY <1>4, <2>1
    <3> QED BY <3>1, <3>2 DEF Events
  <2>4. new \in [1 .. Len(kept) -> Events]
    BY <2>1, <2>3
  <2> QED BY <2>1, <2>4
<1>6. \A i \in 1 .. Len(new) : new[i].id = next + i - 1
  BY <1>2, <1>5
<1>7. made' \in [Buttons -> Values \cup {-1}]
  BY <1>3 DEF TypeOK
<1>8. lost' \subseteq Buttons
  BY <1>1, <1>3 DEF TypeOK
<1>9. fails' \in 0 .. MaxFails
  <2>1. IsFiniteSet(B \cap Mapped \cap failing)
    BY <1>1, ButtonsAssumption, FS_Subset
  <2>2. Cardinality(B \cap Mapped \cap failing) \in Nat
    BY <2>1, FS_CardinalityType
  <2> QED BY <1>3, <2>2, BoardsAssumption DEF TypeOK
<1> HIDE DEF new, kept
<1> QED BY <1>3, <1>5, <1>6, <1>7, <1>8, <1>9, ZenonT(30)

-------------------------------------------------------------------------------
(* Type correctness                                                        *)

\* The types hold initially.
LEMMA TypeInit == Init => TypeOK
<1> SUFFICES ASSUME Init PROVE TypeOK
  OBVIOUS
<1> USE DEF Init
<1>1. /\ board \in Boards /\ input \in [Buttons -> Values] /\ edge \in [Buttons -> BOOLEAN]
      /\ setup \in [Buttons -> [pc : {"todo", "read", "value", "done"}, value : Values]]
      /\ handler \in [Buttons -> [pc : {"off", "idle", "value"}, value : Values]]
      /\ device \in {"probing", "up", "removed"}
  BY DEF Values
<1>2. /\ last_state \in [Buttons -> Values \cup {-1}]
      /\ count \in [Buttons -> 0 .. Threshold]
      /\ streak \in [Buttons -> [value : Values \cup {-1}, length : 0 .. Threshold + 1]]
      /\ made \in [Buttons -> Values \cup {-1}]
      /\ reported \in [Buttons -> [value : Values \cup {-1}, id : Nat]]
  BY ThresholdAssumption
<1>3. /\ queue \in Seq(Events) /\ lost \subseteq Buttons /\ raced \subseteq Buttons
      /\ buf \in Texts \cup {NoText}
      /\ changes \in Nat /\ fails \in 0 .. MaxFails /\ next \in Nat
  <2>1. MaxFails \in Nat
    BY BoardsAssumption
  <2>2. queue \in Seq(Events) /\ buf \in Texts \cup {NoText}
    OBVIOUS
  <2>3. lost \subseteq Buttons /\ raced \subseteq Buttons
    BY ZenonT(30)
  <2>4. changes \in Nat /\ fails \in 0 .. MaxFails /\ next \in Nat
    BY <2>1
  <2> QED BY <2>2, <2>3, <2>4
<1>4. /\ work \in [Workers -> [pc : Pcs, event : Events \cup {NoWork.event},
                               skb : Seq(Texts \cup {NoText})]]
      /\ \A w \in Workers : work[w].pc = "idle"
  BY DEF Pcs, NoWork
<1> QED BY <1>1, <1>2, <1>3, <1>4 DEF TypeOK

\* The parts of TypeOK that belong to the inputs and the two drivers, to the
\* events and to the workers.
DriverTypes ==
  /\ input \in [Buttons -> Values] /\ edge \in [Buttons -> BOOLEAN]
  /\ setup \in [Buttons -> [pc : {"todo", "read", "value", "done"}, value : Values]]
  /\ handler \in [Buttons -> [pc : {"off", "idle", "value"}, value : Values]]
  /\ device \in {"probing", "up", "removed"}
  /\ last_state \in [Buttons -> Values \cup {-1}]
  /\ count \in [Buttons -> 0 .. Threshold]
  /\ streak \in [Buttons -> [value : Values \cup {-1}, length : 0 .. Threshold + 1]]
  /\ changes \in Nat /\ raced \subseteq Buttons

EventTypes ==
  /\ queue \in Seq(Events) /\ next \in Nat
  /\ made \in [Buttons -> Values \cup {-1}]
  /\ lost \subseteq Buttons /\ fails \in 0 .. MaxFails

WorkTypes ==
  /\ work \in [Workers -> [pc : Pcs, event : Events \cup {NoWork.event},
                           skb : Seq(Texts \cup {NoText})]]
  /\ \A w \in Workers : work[w].pc # "idle" => work[w].event \in Events
  /\ buf \in Texts \cup {NoText}
  /\ reported \in [Buttons -> [value : Values \cup {-1}, id : Nat]]

\* The type invariant, in the parts that different actions change.
LEMMA Types == TypeOK <=> board \in Boards /\ DriverTypes /\ EventTypes /\ WorkTypes
  BY SMTT(60) DEF TypeOK, DriverTypes, EventTypes, WorkTypes

\* The same of the next state.
LEMMA TypesPrimed ==
  (board' \in Boards /\ DriverTypes' /\ EventTypes' /\ WorkTypes') => TypeOK'
  BY DEF TypeOK, DriverTypes, EventTypes, WorkTypes

\* The events a handler creates have their types.
LEMMA CreatedTypes ==
  ASSUME TypeOK, NEW B \in SUBSET Buttons, NEW value, NEW failing,
         \A b \in B : value[b] \in Values,
         CreateEvents(B, value, failing)
  PROVE  EventTypes'
<1>1. PICK new \in Seq(Events) : queue' = queue \o new /\ next' = next + Len(new)
  BY Created
<1>2. queue' \in Seq(Events) /\ next' \in Nat
  BY <1>1 DEF TypeOK
<1> QED BY <1>2, Created, ZenonT(30) DEF EventTypes

\* One poll.
LEMMA PollTypes ==
  ASSUME TypeOK, Poll
  PROVE  DriverTypes' /\ EventTypes'
<1>0. PICK failing \in SUBSET Buttons :
        CreateEvents({b \in Buttons : CheckState(b).event}, input, failing)
  BY ZenonT(30) DEF Poll
<1>1. EventTypes'
  <2>1. \A b \in Buttons : input[b] \in Values
    BY DEF TypeOK
  <2> QED BY <1>0, <2>1, CreatedTypes
<1>2. \A b \in Buttons : CheckState(b).state \in Values \cup {-1}
  BY DEF TypeOK, CheckState
<1>3. \A b \in Buttons : CheckState(b).count \in 0 .. Threshold
  BY ThresholdAssumption DEF TypeOK, CheckState, Counts
<1>4. \A b \in Buttons : Longer(b) \in [value : Values \cup {-1}, length : 0 .. Threshold + 1]
  <2>1. /\ streak \in [Buttons -> [value : Values \cup {-1}, length : 0 .. Threshold + 1]]
        /\ input \in [Buttons -> Values]
    BY DEF TypeOK
  <2> QED BY <2>1, ThresholdAssumption DEF Longer
<1>5. /\ last_state' = [b \in Buttons |-> CheckState(b).state]
      /\ count' = [b \in Buttons |-> CheckState(b).count]
      /\ streak' = [b \in Buttons |-> Longer(b)]
      /\ device' = "up" /\ UNCHANGED <<ins, irqs>>
  BY DEF Poll
<1>6. /\ last_state' \in [Buttons -> Values \cup {-1}]
      /\ count' \in [Buttons -> 0 .. Threshold]
      /\ streak' \in [Buttons -> [value : Values \cup {-1}, length : 0 .. Threshold + 1]]
  BY <1>2, <1>3, <1>4, <1>5
<1>7. DriverTypes'
  BY <1>5, <1>6 DEF TypeOK, DriverTypes, ins, irqs
<1> QED BY <1>1, <1>7

\* Moving the program counter of one button's handler keeps the types.
LEMMA SetPc ==
  ASSUME NEW P, NEW f \in [Buttons -> [pc : P, value : Values]], NEW b \in Buttons, NEW p \in P
  PROVE  [f EXCEPT ![b].pc = p] \in [Buttons -> [pc : P, value : Values]]
<1>1. f[b] \in [pc : P, value : Values]
  OBVIOUS
<1>2. [f[b] EXCEPT !.pc = p] \in [pc : P, value : Values]
  BY <1>1
<1> QED BY <1>2

\* The steps of the interrupt driver, and a changing input.
LEMMA IrqTypes ==
  ASSUME TypeOK, NEW b \in Buttons, Change(b) \/ Irq(b)
  PROVE  DriverTypes' /\ EventTypes'
<1> USE DEF TypeOK
<1>1. CASE Change(b)
  <2>1. 1 - input[b] \in Values
    <3>1. input[b] \in Values
      OBVIOUS
    <3> QED BY <3>1 DEF Values
  <2> QED BY <1>1, <2>1 DEF Change, DriverTypes, EventTypes, poll
<1>2. CASE RequestIrq(b)
  <2>1. PICK p \in {"idle", "off"}, q \in {"read", "done"} :
          /\ handler' = [handler EXCEPT ![b].pc = p]
          /\ setup' = [setup EXCEPT ![b].pc = q]
    <3> HIDE DEF TypeOK
    <3> QED BY <1>2, ZenonT(30) DEF RequestIrq
  <2>2. handler' \in [Buttons -> [pc : {"off", "idle", "value"}, value : Values]]
    <3> DEFINE P == {"off", "idle", "value"}
    <3>1. handler \in [Buttons -> [pc : P, value : Values]] /\ p \in P
      OBVIOUS
    <3> HIDE DEF TypeOK, P
    <3>2. [handler EXCEPT ![b].pc = p] \in [Buttons -> [pc : P, value : Values]]
      BY <3>1, SetPc
    <3> QED BY <2>1, <3>2 DEF P
  <2>3. setup' \in [Buttons -> [pc : {"todo", "read", "value", "done"}, value : Values]]
    <3> DEFINE P == {"todo", "read", "value", "done"}
    <3>1. setup \in [Buttons -> [pc : P, value : Values]] /\ q \in P
      OBVIOUS
    <3> HIDE DEF TypeOK, P
    <3>2. [setup EXCEPT ![b].pc = q] \in [Buttons -> [pc : P, value : Values]]
      BY <3>1, SetPc
    <3> QED BY <2>1, <3>2 DEF P
  <2> QED BY <1>2, <2>2, <2>3 DEF RequestIrq, DriverTypes, EventTypes, ins, poll
<1>3. CASE ProbeRead(b)
  BY <1>3 DEF ProbeRead, DriverTypes, EventTypes, ins, poll
<1>4. CASE ProbeEvent(b)
  <2>1. PICK failing : CreateEvents({b}, [c \in {b} |-> setup[b].value], failing)
    BY <1>4 DEF ProbeEvent
  <2>2. EventTypes'
    <3>1. setup[b].value \in Values
      OBVIOUS
    <3>2. \A x \in {b} : [c \in {b} |-> setup[b].value][x] \in Values
      BY <3>1
    <3> HIDE DEF TypeOK
    <3> QED BY <2>1, <3>2, CreatedTypes
  <2>3. DriverTypes'
    BY <1>4 DEF ProbeEvent, DriverTypes, ins, poll, Values
  <2> QED BY <2>2, <2>3
<1>5. CASE IrqRead(b)
  BY <1>5 DEF IrqRead, DriverTypes, EventTypes, ins, poll
<1>6. CASE IrqEvent(b)
  <2>1. PICK failing : CreateEvents({b}, [c \in {b} |-> handler[b].value], failing)
    BY <1>6 DEF IrqEvent
  <2>2. EventTypes'
    <3>1. handler[b].value \in Values
      OBVIOUS
    <3>2. \A x \in {b} : [c \in {b} |-> handler[b].value][x] \in Values
      BY <3>1
    <3> HIDE DEF TypeOK
    <3> QED BY <2>1, <3>2, CreatedTypes
  <2>3. DriverTypes'
    BY <1>6 DEF IrqEvent, DriverTypes, ins, poll, Values
  <2> QED BY <2>2, <2>3
<1> QED BY <1>1, <1>2, <1>3, <1>4, <1>5, <1>6 DEF Irq

\* The steps of the workers.
LEMMA WorkerTypes ==
  ASSUME TypeOK, NEW w \in Workers, Worker(w)
  PROVE  DriverTypes' /\ EventTypes' /\ WorkTypes'
<1> DEFINE Rec == [pc : Pcs, event : Events \cup {NoWork.event}, skb : Seq(Texts \cup {NoText})]
           Fine(x) == x \in Rec /\ (x.pc # "idle" => x.event \in Events)
<1>0. /\ work \in [Workers -> Rec] /\ \A v \in Workers : work[v].pc # "idle" => work[v].event \in Events
      /\ buf \in Texts \cup {NoText}
      /\ reported \in [Buttons -> [value : Values \cup {-1}, id : Nat]]
      /\ queue \in Seq(Events) /\ fails \in 0 .. MaxFails /\ lost \subseteq Buttons
  BY DEF TypeOK
<1>1. ASSUME NEW x, Fine(x), work' = [work EXCEPT ![w] = x]
      PROVE  /\ work' \in [Workers -> Rec]
             /\ \A v \in Workers : work'[v].pc # "idle" => work'[v].event \in Events
  <2> HIDE DEF Rec
  <2> QED BY <1>0, <1>1
<1>2. Fine(NoWork)
  BY DEF NoWork, Pcs
<1>3. Fine(work[w])
  BY <1>0
<1>4. work[w].pc # "idle" => Text(w) \in Texts
  BY <1>0 DEF Text, Texts, Events
<1>5. After(work[w].pc) \in {"button", "send"}
  BY DEF After
<1>6. ASSUME NEW p \in Pcs \ {"idle"}, NEW s \in Seq(Texts \cup {NoText}), work[w].pc # "idle"
      PROVE  Fine([work[w] EXCEPT !.pc = p, !.skb = s])
  BY <1>0, <1>6, ZenonT(30)
<1>7. work[w].skb \in Seq(Texts \cup {NoText})
  BY <1>3
<1>8. ASSUME UNCHANGED others PROVE DriverTypes'
  BY <1>8 DEF TypeOK, DriverTypes, others, ins, poll, irqs
<1> HIDE DEF Rec, Fine
<1>9. CASE Take(w)
  <2>1. Head(queue) \in Events /\ Tail(queue) \in Seq(Events)
    BY <1>0, <1>9 DEF Take
  <2>2. Fine([pc |-> "alloc", event |-> Head(queue), skb |-> <<>>])
    BY <2>1 DEF Fine, Rec, Pcs
  <2>3. WorkTypes'
    BY <1>0, <1>1, <1>9, <2>2, ZenonT(30) DEF Take, WorkTypes, Rec
  <2>4. EventTypes'
    BY <1>9, <2>1 DEF Take, EventTypes, TypeOK
  <2> QED BY <1>8, <1>9, <2>3, <2>4 DEF Take
<1>10. CASE AllocSkb(w)
  <2>1. CASE work' = [work EXCEPT ![w].pc = "action"] /\ UNCHANGED <<fails, lost>>
    <3>1. work' = [work EXCEPT ![w] = [work[w] EXCEPT !.pc = "action", !.skb = work[w].skb]]
      BY <1>0, <2>1, ZenonT(30) DEF Rec
    <3>2. WorkTypes'
      BY <1>0, <1>1, <1>6, <1>7, <1>10, <3>1, ZenonT(30) DEF AllocSkb, WorkTypes, Rec, Pcs
    <3>3. EventTypes'
      BY <1>10, <2>1 DEF AllocSkb, EventTypes, TypeOK
    <3> QED BY <1>8, <1>10, <3>2, <3>3 DEF AllocSkb
  <2>2. CASE /\ fails < MaxFails /\ fails' = fails + 1
             /\ lost' = lost \cup {work[w].event.button}
             /\ work' = [work EXCEPT ![w] = NoWork]
    <3>1. WorkTypes'
      BY <1>0, <1>1, <1>2, <1>10, <2>2, ZenonT(30) DEF AllocSkb, WorkTypes, Rec
    <3>2. work[w].event.button \in Buttons
      BY <1>0, <1>10 DEF AllocSkb, Events
    <3>3. fails' \in 0 .. MaxFails
      BY <1>0, <2>2, BoardsAssumption
    <3>4. EventTypes'
      BY <1>10, <2>2, <3>2, <3>3 DEF AllocSkb, EventTypes, TypeOK
    <3> QED BY <1>8, <1>10, <3>1, <3>4 DEF AllocSkb
  <2> QED BY <1>10, <2>1, <2>2 DEF AllocSkb
<1>11. ASSUME NEW p \in Pcs \ {"idle"}, NEW s \in Seq(Texts \cup {NoText}), work[w].pc # "idle",
              work' = [work EXCEPT ![w].pc = p, ![w].skb = s],
              buf' \in Texts \cup {NoText},
              UNCHANGED <<others, reported, queue, fails, next, made, lost>>
       PROVE  DriverTypes' /\ EventTypes' /\ WorkTypes'
  <2>1. work' = [work EXCEPT ![w] = [work[w] EXCEPT !.pc = p, !.skb = s]]
    BY <1>0, <1>11, ZenonT(30) DEF Rec
  <2>2. WorkTypes'
    BY <1>0, <1>1, <1>6, <1>11, <2>1, ZenonT(30) DEF WorkTypes, Rec
  <2>3. EventTypes'
    BY <1>11, SMTT(60) DEF EventTypes, TypeOK
  <2> QED BY <1>8, <1>11, <2>2, <2>3
<1>12. CASE AddVar(w)
  <2>1. Append(work[w].skb, Text(w)) \in Seq(Texts \cup {NoText})
    BY <1>4, <1>7, <1>12, SMTT(60) DEF AddVar
  <2> QED BY <1>0, <1>4, <1>5, <1>11, <1>12, <2>1, ZenonT(30) DEF AddVar, Pcs
<1>13. CASE Format(w)
  <2>1. work' = [work EXCEPT ![w].pc = IF work[w].pc = "action" THEN "action_copy" ELSE "button_copy",
                             ![w].skb = work[w].skb]
    BY <1>0, <1>13, ZenonT(30) DEF Format, Rec
  <2> QED BY <1>0, <1>4, <1>7, <1>11, <1>13, <2>1, ZenonT(30) DEF Format, Pcs
<1>14. CASE Copy(w)
  <2>1. Append(work[w].skb, buf) \in Seq(Texts \cup {NoText})
    BY <1>0, <1>7
  <2> QED BY <1>0, <1>5, <1>11, <1>14, <2>1, ZenonT(30) DEF Copy, Pcs
<1>15. CASE Send(w)
  <2> DEFINE event == work[w].event
             skb == work[w].skb
             named == {b \in Buttons : Says(skb, b) # {}}
             heard(b) == CHOOSE value \in Says(skb, b) : TRUE
  <2>1. event.button \in Buttons /\ event.id \in Nat
    BY <1>0, <1>15 DEF Send, Events
  <2>2. \A b \in named : heard(b) \in Values
    BY DEF Says, Values
  <2>3. /\ reported' = [b \in Buttons |-> IF b \in named THEN [value |-> heard(b), id |-> event.id]
                                         ELSE reported[b]]
        /\ lost' = lost \/ lost' = lost \cup named \cup {event.button}
        /\ raced' = raced \cup {b \in named : reported[b].id > event.id}
        /\ work' = [work EXCEPT ![w] = NoWork]
        /\ UNCHANGED <<ins, poll, edge, setup, handler, device, buf, queue, fails, next, made>>
    BY <1>15, ZenonT(30) DEF Send
  <2>4. named \subseteq Buttons
    OBVIOUS
  <2> HIDE DEF heard, named
  <2>5. reported' \in [Buttons -> [value : Values \cup {-1}, id : Nat]]
    BY <1>0, <2>1, <2>2, <2>3
  <2>6. WorkTypes'
    BY <1>0, <1>1, <1>2, <2>3, <2>5, ZenonT(30) DEF WorkTypes, Rec
  <2>7. EventTypes'
    BY <1>0, <2>1, <2>3, <2>4 DEF EventTypes, TypeOK
  <2>8. DriverTypes'
    BY <2>3, <2>4 DEF DriverTypes, TypeOK, ins, poll
  <2> QED BY <2>6, <2>7, <2>8
<1> QED BY <1>9, <1>10, <1>12, <1>13, <1>14, <1>15 DEF Worker

\* Every step keeps the types.
LEMMA TypeStep == TypeOK /\ [Next]_vars => TypeOK'
<1> SUFFICES ASSUME TypeOK, [Next]_vars PROVE TypeOK'
  OBVIOUS
<1>1. DriverTypes /\ EventTypes /\ WorkTypes /\ board \in Boards
  BY Types
<1>2. CASE UNCHANGED vars
  BY <1>2 DEF vars, TypeOK, ins, poll, irqs, wq
<1>3. ASSUME UNCHANGED board, UNCHANGED wq, DriverTypes', EventTypes' PROVE TypeOK'
  <2>1. WorkTypes'
    BY <1>1, <1>3 DEF WorkTypes, wq
  <2> QED BY <1>1, <1>3, <2>1, TypesPrimed, SMTT(60)
<1>4. ASSUME Next PROVE TypeOK'
  <2>0. UNCHANGED board
    BY <1>4 DEF Next
  <2>1. CASE \E b \in Buttons : Change(b) \/ Irq(b)
    <3>1. PICK b \in Buttons : Change(b) \/ Irq(b)
      BY <2>1
    <3>2. UNCHANGED wq
      BY <3>1 DEF Change, Irq, RequestIrq, ProbeRead, ProbeEvent, IrqRead, IrqEvent
    <3> QED BY <1>3, <2>0, <3>1, <3>2, IrqTypes
  <2>2. CASE Poll
    BY <1>3, <2>0, <2>2, PollTypes, ZenonT(30) DEF Poll
  <2>3. CASE Probed
    <3>1. EventTypes' /\ DriverTypes'
      BY <1>1, <2>3 DEF Probed, EventTypes, DriverTypes, ins, poll, irqs
    <3> QED BY <1>3, <2>0, <2>3, <3>1 DEF Probed
  <2>4. CASE gpio_keys_remove
    <3>1. EventTypes'
      BY <1>1, <2>4 DEF gpio_keys_remove, EventTypes
    <3>2. DriverTypes'
      BY <1>1, <2>4 DEF gpio_keys_remove, DriverTypes, ins, poll, Values
    <3> QED BY <1>3, <2>0, <2>4, <3>1, <3>2 DEF gpio_keys_remove
  <2>5. CASE \E w \in board.workers : Worker(w)
    <3>1. PICK w \in Workers : Worker(w)
      BY <1>1, <2>5, BoardsAssumption
    <3> QED BY <1>1, <2>0, <3>1, WorkerTypes, TypesPrimed
  <2> QED BY <1>4, <2>1, <2>2, <2>3, <2>4, <2>5 DEF Next
<1> QED BY <1>2, <1>4

\* The variables of the button driver keep their types; in particular the
\* debounce count of gpio_keys_polled_check_state never passes the threshold.
THEOREM TypeCorrect == Spec => []TypeOK
<1> QED BY TypeInit, TypeStep, PTL DEF Spec

-------------------------------------------------------------------------------
(* Debouncing                                                              *)

\* A poll keeps the counts in step with the readings, and takes over a state
\* only after Threshold + 1 of them.
LEMMA PollStreak ==
  ASSUME TypeOK, StreakInv, Poll
  PROVE  /\ StreakInv'
         /\ \A b \in Buttons :
              /\ last_state[b] # -1 /\ last_state'[b] # last_state[b] =>
                   streak'[b].length > Threshold
              /\ streak'[b].length > Threshold => last_state'[b] = streak'[b].value
<1>1. Threshold \in Nat /\ Threshold > 0
  BY ThresholdAssumption
<1>2. SUFFICES ASSUME NEW b \in Buttons
               PROVE  /\ streak'[b].value = -1 => last_state'[b] = -1
                      /\ last_state'[b] # -1 /\ count'[b] > 0 =>
                           streak'[b].value # last_state'[b] /\ count'[b] <= streak'[b].length
                      /\ streak'[b].value # last_state'[b] => streak'[b].length <= count'[b]
                      /\ last_state[b] # -1 /\ last_state'[b] # last_state[b] =>
                           streak'[b].length > Threshold
                      /\ streak'[b].length > Threshold => last_state'[b] = streak'[b].value
  BY DEF StreakInv
<1>3. /\ input[b] \in {0, 1} /\ last_state[b] \in {0, 1, -1} /\ count[b] \in 0 .. Threshold
      /\ streak[b] \in [value : {0, 1, -1}, length : 0 .. Threshold + 1]
  BY SMTT(60) DEF TypeOK, Values
<1>4. /\ last_state'[b] = IF Differs(b) /\ ~Counts(b) THEN input[b] ELSE last_state[b]
      /\ count'[b] = IF Differs(b) /\ Counts(b) THEN count[b] + 1 ELSE 0
      /\ streak'[b] = Longer(b)
  BY ZenonT(30) DEF Poll, CheckState
<1>5. /\ streak'[b].value = input[b]
      /\ streak'[b].length = IF streak[b].value = input[b]
                               THEN IF streak[b].length > Threshold THEN streak[b].length
                                                                    ELSE streak[b].length + 1
                               ELSE 1
  BY <1>3, <1>4 DEF Longer
<1>6. /\ streak[b].value = -1 => last_state[b] = -1
      /\ last_state[b] # -1 /\ count[b] > 0 =>
           streak[b].value # last_state[b] /\ count[b] <= streak[b].length
      /\ streak[b].value # last_state[b] => streak[b].length <= count[b]
  BY SMTT(60) DEF StreakInv
<1>7. streak[b].length \in 0 .. Threshold + 1 /\ streak[b].value \in {0, 1, -1}
  BY <1>3, ZenonT(30)
<1>8. CASE ~Differs(b)
  BY <1>1, <1>3, <1>4, <1>5, <1>6, <1>7, <1>8, SMTT(60) DEF Differs
<1>9. CASE Differs(b) /\ Counts(b)
  BY <1>1, <1>3, <1>4, <1>5, <1>6, <1>7, <1>9, SMTT(60) DEF Differs, Counts
<1>10. CASE Differs(b) /\ ~Counts(b)
  BY <1>1, <1>3, <1>4, <1>5, <1>6, <1>7, <1>10 DEF Differs, Counts
<1> QED BY <1>8, <1>9, <1>10

\* Every other step leaves the readings alone.
LEMMA NoPoll ==
  ASSUME TypeOK, [Next]_vars, ~Poll
  PROVE  UNCHANGED poll
<1>1. CASE UNCHANGED vars
  BY <1>1, SMTT(60) DEF vars
<1>2. CASE Next
  BY <1>2, ZenonT(30) DEF Next, Change, Irq, RequestIrq, ProbeRead, ProbeEvent, IrqRead, IrqEvent,
              Probed, gpio_keys_remove, Worker, Take, AllocSkb, AddVar, Format, Copy, Send, others
<1> QED BY <1>1, <1>2

\* No streak is counted initially.
LEMMA StreakInit == Init => StreakInv
  BY DEF Init, StreakInv

\* Every step keeps the streak of equal samples.
LEMMA StreakStep == TypeOK /\ StreakInv /\ [Next]_vars => StreakInv'
<1> SUFFICES ASSUME TypeOK, StreakInv, [Next]_vars, ~Poll PROVE StreakInv'
  BY PollStreak
<1>1. UNCHANGED poll
  BY NoPoll
<1> QED BY <1>1 DEF StreakInv, poll

\* The debounce counters of gpio_keys_polled_check_state agree with the
\* readings: they count the polls in a row that read the other state.
THEOREM StreakHolds == Spec => []StreakInv
<1> QED BY StreakInit, StreakStep, TypeCorrect, PTL DEF Spec

\* A state is taken over only after Threshold + 1 equal readings, and then
\* always, for every threshold and any number of buttons.
THEOREM DebouncedHolds == Spec => Debounced
<1>1. ASSUME TypeOK, StreakInv, [Next]_vars
      PROVE  [\A b \in Buttons :
                /\ last_state[b] # -1 /\ last_state'[b] # last_state[b] =>
                     streak'[b].length > Threshold
                /\ streak'[b].length > Threshold => last_state'[b] = streak'[b].value]_vars
  <2>1. CASE Poll
    BY <1>1, <2>1, PollStreak
  <2>2. CASE ~Poll
    <3>1. UNCHANGED poll
      BY <1>1, <2>2, NoPoll
    <3>2. \A b \in Buttons : last_state'[b] = last_state[b] /\ streak'[b] = streak[b] /\ count'[b] = count[b]
      BY <3>1 DEF poll
    <3>3. \A b \in Buttons : streak[b].length > Threshold => last_state[b] = streak[b].value
      BY <1>1, ThresholdAssumption DEF StreakInv, TypeOK
    <3> QED BY <3>2, <3>3
  <2> QED BY <2>1, <2>2
<1> QED BY <1>1, TypeCorrect, StreakHolds, PTL DEF Spec, Debounced

===============================================================================
