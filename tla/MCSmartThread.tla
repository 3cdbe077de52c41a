---------------------------- MODULE MCSmartThread ----------------------------
(* Model checking of the lives of the threads in the trees of both programs. *)
EXTENDS Programs

Trees == {UserInterface, Session, Sending}
=============================================================================
