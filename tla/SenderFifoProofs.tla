-------------------------- MODULE SenderFifoProofs --------------------------
(***************************************************************************)
(* The sender's buffer is a sliding window, for every size of the buffer   *)
(* and every number of packets.                                            *)
(*                                                                         *)
(* HoldsLatest says what get() returns, which depends on every slot and    *)
(* on all three marks; it is not inductive.  The inductive invariant says  *)
(* where each number is, with RingAfter.                                   *)
(***************************************************************************)
EXTENDS SenderFifo, FifoProofs

IInv ==
  /\ SenderFifoTypeOK
  /\ IF next = 0 THEN fifo = EmptyFifo ELSE RingAfter(fifo, next)

-----------------------------------------------------------------------------
\* The window, seen from a state of the sender.
LEMMA FindsWindow ==
  ASSUME IInv, NEW n \in Nat
  PROVE  IF n < next /\ n >= next - Size
         THEN Get(fifo, n) # -1 /\ fifo.num[Get(fifo, n)] = n
         ELSE Get(fifo, n) = -1
<1>1. next \in Nat
  BY PacketsAssumption DEF IInv, SenderFifoTypeOK
<1>2. CASE next = 0
  BY <1>2, EmptyFinds DEF IInv
<1>3. CASE next # 0
  BY <1>1, <1>3, RingFinds DEF IInv
<1> QED
  BY <1>2, <1>3

\* The main sender always gets a slot.
LEMMA SlotForNext ==
  ASSUME IInv
  PROVE  InsertIdx(fifo, next) # -1
<1>0. Size \in Nat \ {0}
  BY SizeAssumption
<1>1. next \in Nat
  BY PacketsAssumption DEF IInv, SenderFifoTypeOK
<1>2. CASE next = 0
  BY <1>2 DEF IInv, InsertIdx, EmptyFifo
<1>3. CASE next # 0
  <2>1. next \in Nat \ {0} /\ RingAfter(fifo, next)
    BY <1>1, <1>3 DEF IInv
  <2>2. InsertIdx(fifo, next) = IdxPlus(fifo.last) /\ fifo.last \in Slots
    BY <2>1, NextSlot, RingNumbers
  <2> QED
    BY <1>0, <2>2 DEF IdxPlus, Slots
<1> QED
  BY <1>2, <1>3

-----------------------------------------------------------------------------
\* The invariant holds when the sender starts.
LEMMA InitIInv == SenderFifoInit => IInv
<1> SUFFICES ASSUME SenderFifoInit PROVE IInv
  OBVIOUS
<1>1. EmptyFifo \in Fifos
  BY DEF EmptyFifo, Fifos
<1> QED
  BY <1>1, PacketsAssumption DEF SenderFifoInit, IInv, SenderFifoTypeOK

\* Reserving a slot keeps it.
LEMMA ReserveKeepsIInv == IInv /\ Reserve => IInv'
<1> SUFFICES ASSUME IInv, Reserve PROVE IInv'
  OBVIOUS
<1>1. next \in 0 .. Packets /\ next' = next + 1 /\ next' # 0
  BY PacketsAssumption DEF IInv, SenderFifoTypeOK, Reserve
<1>2. RingAfter(fifo', next')
  <2>1. CASE next = 0
    BY <1>1, <2>1, FirstPut DEF IInv, Reserve
  <2>2. CASE next # 0
    <3>1. next \in Nat \ {0} /\ RingAfter(fifo, next)
      BY <1>1, <2>2, PacketsAssumption DEF IInv
    <3> QED
      BY <1>1, <3>1, NextPut DEF Reserve
  <2> QED
    BY <2>1, <2>2
<1>3. fifo' \in Fifos
  BY <1>2 DEF RingAfter
<1>4. next' \in 0 .. Packets + 1
  BY <1>1, PacketsAssumption
<1>5. found' \in [asked : {-1} \cup (0 .. Packets), got : {-1} \cup (0 .. Packets)]
  BY DEF Reserve, IInv, SenderFifoTypeOK
<1> QED
  BY <1>1, <1>2, <1>3, <1>4, <1>5 DEF IInv, SenderFifoTypeOK

\* So does looking up a packet.
LEMMA LookUpKeepsIInv ==
  ASSUME IInv, NEW n \in 0 .. Packets, LookUp(n)
  PROVE  IInv'
<1>1. found' \in [asked : {-1} \cup (0 .. Packets), got : {-1} \cup (0 .. Packets)]
  BY DEF LookUp
<1>2. UNCHANGED <<fifo, next>>
  BY DEF LookUp
<1> QED
  BY <1>1, <1>2 DEF IInv, SenderFifoTypeOK

\* In every reachable state the ring holds the latest numbers in order.
THEOREM IInvIsInvariant == SenderFifoSpec => []IInv
<1>1. IInv /\ [SenderFifoNext]_senderVars => IInv'
  <2> SUFFICES ASSUME IInv, [SenderFifoNext]_senderVars PROVE IInv'
    OBVIOUS
  <2>1. CASE Reserve
    BY <2>1, ReserveKeepsIInv
  <2>2. ASSUME NEW n \in 0 .. Packets, LookUp(n) PROVE IInv'
    BY <2>2, LookUpKeepsIInv
  <2>3. CASE UNCHANGED senderVars
    BY <2>3 DEF IInv, SenderFifoTypeOK, senderVars
  <2> QED
    BY <2>1, <2>2, <2>3 DEF SenderFifoNext
<1> QED
  BY <1>1, InitIInv, PTL DEF SenderFifoSpec

\* The marks of the ring stay within it: every index is that of a slot.
THEOREM RingTypeOK == SenderFifoSpec => []SenderFifoTypeOK
<1>1. IInv => SenderFifoTypeOK
  BY DEF IInv
<1> QED
  BY <1>1, IInvIsInvariant, PTL

\* The rexmiter can find the last Size packets of the main sender, and only
\* those, for every size of the ring; the main sender always gets a slot.
THEOREM RingHoldsLatest == SenderFifoSpec => []HoldsLatest
<1>1. IInv => HoldsLatest
  <2> SUFFICES ASSUME IInv PROVE HoldsLatest
    OBVIOUS
  <2>1. InsertIdx(fifo, next) # -1
    BY SlotForNext
  <2>2. \A n \in 0 .. Packets : n \in Nat
    BY PacketsAssumption
  <2> QED
    BY <2>1, <2>2, FindsWindow DEF HoldsLatest
<1> QED
  BY <1>1, IInvIsInvariant, PTL

\* The ring of slots implements the sliding window.
THEOREM RingImplementsWindow == SenderFifoSpec => ImplementsWindow
<1>1. SenderFifoInit => WindowOfFifo!Init
  BY DEF SenderFifoInit, WindowOfFifo!Init
<1>2. IInv /\ [SenderFifoNext]_senderVars
        => [WindowOfFifo!Next]_<<next, found>>
  <2> SUFFICES ASSUME IInv, [SenderFifoNext]_senderVars
               PROVE  [WindowOfFifo!Next]_<<next, found>>
    OBVIOUS
  <2>1. CASE Reserve
    BY <2>1 DEF Reserve, WindowOfFifo!Next, WindowOfFifo!Put
  <2>2. ASSUME NEW n \in 0 .. Packets, LookUp(n)
        PROVE  WindowOfFifo!Look(n)
    <3>1. n \in Nat /\ next \in Nat
      BY PacketsAssumption DEF IInv, SenderFifoTypeOK
    <3>2. n \in WindowOfFifo!Window <=> n < next /\ n >= next - Size
      BY <3>1, SizeAssumption DEF WindowOfFifo!Window
    <3>3. Get(fifo, n) # -1 /\ fifo.num[Get(fifo, n)] = n
            <=> n < next /\ n >= next - Size
      BY <3>1, FindsWindow
    <3>4. found' = [asked |-> n,
                    got |-> IF Get(fifo, n) # -1 /\ fifo.num[Get(fifo, n)] = n
                            THEN n ELSE -1]
      BY <2>2 DEF LookUp
    <3>5. found' = [asked |-> n,
                    got |-> IF n \in WindowOfFifo!Window THEN n ELSE -1]
      BY <3>2, <3>3, <3>4, Zenon
    <3>6. UNCHANGED next
      BY <2>2 DEF LookUp
    <3> QED
      BY <3>5, <3>6 DEF WindowOfFifo!Look
  <2>3. CASE UNCHANGED senderVars
    BY <2>3 DEF senderVars
  <2> QED
    BY <2>1, <2>2, <2>3 DEF SenderFifoNext, WindowOfFifo!Next
<1> QED
  BY <1>1, <1>2, IInvIsInvariant, PTL
     DEF SenderFifoSpec, ImplementsWindow, WindowOfFifo!Spec
=============================================================================
