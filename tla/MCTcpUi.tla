------------------------------- MODULE MCTcpUi -------------------------------
(* Model checking of the text interface with up to three clients one after  *)
(* another, of whom two may be there at a time.                             *)
EXTENDS TcpUi

Empty == [channels |-> <<>>, chosen |-> 0]
List(n, chosen) == [channels |-> [i \in 1 .. n |-> i], chosen |-> chosen]
TwoLists == {List(1, 1), List(2, 2)}
=============================================================================
