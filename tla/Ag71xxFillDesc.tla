--------------------------- MODULE Ag71xxFillDesc ---------------------------
(***************************************************************************)
(* How ag71xx_fill_dma_desc cuts a packet into DMA segments.  Chips that   *)
(* are neither AR724x nor AR91xx cannot send more than desc_split bytes    *)
(* from one descriptor, and hang on segments of four bytes or less.        *)
(*                                                                         *)
(* Ag71xxTxRing abstracts a packet to the number of descriptors it takes;  *)
(* this module is where that number comes from.                            *)
(***************************************************************************)
EXTENDS Integers

CONSTANTS
    Splits,       \* values of tx_ring.desc_split: 0 (no limit), 512
    MaxLen,       \* AG71XX_TX_MTU_LEN
    DsPerPkt,     \* AG71XX_TX_RING_DS_PER_PKT
    MinDma        \* the longest transfer that hangs the engine: 4

\* DsPerPkt is DIV_ROUND_UP(MTU_LEN, SPLIT), and a segment shortened by MinDma
\* is still long enough.
ASSUME SplitAssumption ==
    /\ MaxLen \in Nat /\ MinDma \in Nat /\ DsPerPkt \in Nat \ {0}
    /\ \A s \in Splits : /\ s \in Nat
                         /\ s = 0 \/ (s > 2 * MinDma /\ MaxLen <= DsPerPkt * s)

VARIABLES
    descSplit,    \* ring->desc_split
    skbLen,       \* skb->len
    len,          \* bytes not yet in a segment
    addr,         \* where they start, as an offset in the packet
    segs,         \* the segments written: [at, len, more]
    ndesc

fillVars == <<descSplit, skbLen, len, addr, segs, ndesc>>

\* hard_start_xmit drops packets of MinDma bytes or less.
FillBegin ==
    /\ descSplit \in Splits
    /\ skbLen \in MinDma + 1 .. MaxLen
    /\ len = skbLen /\ addr = 0 /\ segs = {} /\ ndesc = 0

\* Mutant of split: half of what the chip can send.
splitHalf == IF descSplit = 0 THEN skbLen ELSE descSplit \div 2

split == IF descSplit = 0 THEN skbLen ELSE descSplit

\* Mutant of CurLen: the next segment may become too short.
CurLenGreedy == IF len > split THEN split ELSE len

\* The length of the next segment: one that would leave MinDma bytes or less
\* for the last is shortened.
CurLen ==
    IF len > split
    THEN IF len <= split + MinDma THEN split - MinDma ELSE split
    ELSE len

\* One iteration of the loop, with the descriptor free.
FillDesc ==
    /\ len > 0
    /\ segs' = segs \union {[at |-> addr, len |-> CurLen, more |-> len - CurLen > 0]}
    /\ addr' = addr + CurLen
    /\ len' = len - CurLen
    /\ ndesc' = ndesc + 1
    /\ UNCHANGED <<descSplit, skbLen>>

FillNext == FillDesc

FillSpec == FillBegin /\ [][FillNext]_fillVars

-----------------------------------------------------------------------------
FillTypeOK ==
    /\ descSplit \in Splits /\ skbLen \in MinDma + 1 .. MaxLen
    /\ len \in Nat /\ addr \in Nat /\ ndesc \in Nat
    /\ \A s \in segs : /\ s.at \in Nat /\ s.len \in Nat /\ s.more \in BOOLEAN

\* "TX will hang if DMA transfers <= 4 bytes, make sure next segment is more
\* than 4 bytes long" (ag71xx_main.c:764): every segment written is longer
\* than that and no longer than the chip can send, and so will the next be.
SafeSegments ==
    /\ \A s \in segs : s.len > MinDma /\ s.len <= split
    /\ len = 0 \/ len > MinDma

\* The packet never takes more descriptors than the flow control of
\* hard_start_xmit reserves for one.
EnoughDescs == ndesc <= IF descSplit = 0 THEN 1 ELSE DsPerPkt

\* The segments tile the packet in order: each starts where the one before it
\* ended, and DESC_MORE is clear exactly on the one that ends the packet.
Tiling ==
    /\ addr + len = skbLen
    /\ \A s \in segs :
        /\ s.at + s.len <= addr
        /\ s.at = 0 \/ \E p \in segs : p.at + p.len = s.at
        /\ s.more <=> s.at + s.len < skbLen
    /\ addr = 0 \/ \E p \in segs : p.at + p.len = addr

\* What the descriptors left must be able to hold.
Room == descSplit # 0 => ndesc <= DsPerPkt /\ len <= (DsPerPkt - ndesc) * descSplit
Single == descSplit = 0 => (ndesc = 0 /\ len = skbLen) \/ (ndesc = 1 /\ len = 0)

\* The inductive invariant of the loop.
FillInv == SafeSegments /\ Tiling /\ Room /\ Single
=============================================================================
