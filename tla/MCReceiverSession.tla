------------------------- MODULE MCReceiverSession -------------------------
(* Model checking of the receiver's sessions: the three workers of the      *)
(* program and two stations.  In the run with both the second one carries   *)
(* the name given by -n, which moves the choice down the list, and the user *)
(* moves it up again, so that sessions change in both directions.           *)
EXTENDS ReceiverSession

Up == {-1}
=============================================================================
