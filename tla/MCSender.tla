------------------------------ MODULE MCSender ------------------------------
(***************************************************************************)
(* Model checking of the sender with a buffer of a few slots.              *)
(***************************************************************************)
EXTENDS Sender

BothSenders == {"main", "rexmit"}
Indices == Slots

\* The memory of the two atomics holds zero.
Zero == {0}

\* What the proofs take of the reading of a list, for the numbers of the runs.
ASSUME ReadsAssumption == ReadsNoLater
=============================================================================
