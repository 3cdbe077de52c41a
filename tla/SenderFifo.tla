----------------------------- MODULE SenderFifo -----------------------------
(***************************************************************************)
(* The buffer of the sender between its two users: the main sender         *)
(* reserves a slot for one packet after the other, the rexmiter looks up   *)
(* the packets that receivers asked for.  Each takes the lock of the       *)
(* buffer for its operation, and here the lock is taken to work.           *)
(***************************************************************************)
EXTENDS Fifo

CONSTANT Packets   \* the number of whole packets on the standard input

ASSUME PacketsAssumption == Packets \in Nat

VARIABLES
  fifo,
  next,    \* dt_num of the next get_to_set
  found    \* the last look of the rexmiter: the number asked for, and the
           \* number found or -1

senderVars == <<fifo, next, found>>

SenderFifoTypeOK ==
  /\ fifo \in Fifos
  /\ next \in 0 .. Packets + 1
  /\ found \in [asked : {-1} \cup (0 .. Packets), got : {-1} \cup (0 .. Packets)]

SenderFifoInit ==
  /\ fifo = EmptyFifo
  /\ next = 0
  /\ found = [asked |-> -1, got |-> -1]

\* The main sender reserves the slot of the next packet; the one after the
\* last whole packet is reserved too, and never sent.
Reserve ==
  /\ next <= Packets
  /\ fifo' = GetToSet(fifo, next)
  /\ next' = next + 1
  /\ UNCHANGED found

\* The rexmiter takes what get() returns only if it has the right number.
LookUp(n) ==
  /\ found' = [asked |-> n,
                got |-> IF Get(fifo, n) # -1 /\ fifo.num[Get(fifo, n)] = n
                        THEN n ELSE -1]
  /\ UNCHANGED <<fifo, next>>

SenderFifoNext == Reserve \/ \E n \in 0 .. Packets : LookUp(n)

SenderFifoSpec == SenderFifoInit /\ [][SenderFifoNext]_senderVars

-----------------------------------------------------------------------------
\* The main sender never fails to get a slot (it would throw), and get()
\* yields the slots of the last Size numbers and of no others: neither the
\* start, nor the first turn of the ring, nor a ring of one slot loses one.
HoldsLatest ==
  /\ InsertIdx(fifo, next) # -1
  /\ \A n \in 0 .. Packets :
       IF n < next /\ n >= next - Size
       THEN Get(fifo, n) # -1 /\ fifo.num[Get(fifo, n)] = n
       ELSE Get(fifo, n) = -1

\* The ring of slots with its three marks implements the sliding window.
WindowOfFifo == INSTANCE SlidingWindow
ImplementsWindow == WindowOfFifo!Spec
=============================================================================
