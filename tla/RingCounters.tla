---------------------------- MODULE RingCounters ----------------------------
(***************************************************************************)
(* The counters of an ag71xx descriptor ring (struct ag71xx_ring): curr    *)
(* and dirty are unsigned ints that run freely and wrap at their width; a  *)
(* counter is masked with ring_size - 1 only to pick a slot.               *)
(***************************************************************************)
EXTENDS Integers

CONSTANTS
    RingSize,     \* BIT(ring->order)
    CounterMod    \* 2^32 in the code

\* The ring is a power of two, so its size divides the range of the counters.
ASSUME RingAssumption ==
    /\ RingSize \in Nat \ {0}
    /\ CounterMod \in Nat \ {0}
    /\ CounterMod % RingSize = 0
    /\ RingSize < CounterMod

Slots == 0 .. RingSize - 1
Counters == 0 .. CounterMod - 1

\* counter & ring_mask
Slot(c) == c % RingSize

\* Unsigned subtraction of two counters.
Minus(a, b) == (a - b) % CounterMod

\* Unsigned addition.
Plus(c, k) == (c + k) % CounterMod

\* The n slots from a counter on.
Run(c, n) == {Slot(c + k) : k \in 0 .. n - 1}
=============================================================================
