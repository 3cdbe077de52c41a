--------------------------- MODULE SlidingWindow ---------------------------
(***************************************************************************)
(* What the sender promises about old packets: the last Size packets that  *)
(* were put into its buffer can be found, under their own numbers, and no  *)
(* others.                                                                 *)
(***************************************************************************)
EXTENDS Integers

CONSTANTS Size, Packets

VARIABLES
  next,    \* the number of the next packet
  found    \* the last look: the number asked for, and what it got, or -1

Window == {n \in 0 .. next - 1 : n >= next - Size}

Init == next = 0 /\ found = [asked |-> -1, got |-> -1]

Put ==
  /\ next <= Packets
  /\ next' = next + 1
  /\ UNCHANGED found

Look(n) ==
  /\ found' = [asked |-> n, got |-> IF n \in Window THEN n ELSE -1]
  /\ UNCHANGED next

Next == Put \/ \E n \in 0 .. Packets : Look(n)

Spec == Init /\ [][Next]_<<next, found>>
=============================================================================
