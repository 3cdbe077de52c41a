---------------------------- MODULE MCSenderFifo ----------------------------
(* Model checking of the sender's buffer over several turns of the ring.    *)
EXTENDS SenderFifo
=============================================================================
