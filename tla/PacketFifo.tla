----------------------------- MODULE PacketFifo -----------------------------
(***************************************************************************)
(* What a descriptor ring promises its users: a bounded queue of packets,  *)
(* handed over in the order they came, none lost, doubled or changed.      *)
(***************************************************************************)
EXTENDS Naturals, Sequences

CONSTANTS Payloads, Capacity

VARIABLE q

Init == q = <<>>

Put(d) == Len(q) < Capacity /\ q' = Append(q, d)

Take == q # <<>> /\ q' = Tail(q)

Next == (\E d \in Payloads : Put(d)) \/ Take

Spec == Init /\ [][Next]_q
=============================================================================
