------------------------------ MODULE Programs ------------------------------
(***************************************************************************)
(* The trees of threads that the two programs make, for SmartThread.  The  *)
(* receiver's tree is cut in two branches, and the one with the users of   *)
(* the text interface begins at the manager: the root above it does no     *)
(* more than in the other branch.  Threads that have a twin in the tree,   *)
(* with the same release function and the same waits, are left out.        *)
(***************************************************************************)
EXTENDS SmartThread, TLC

CONSTANTS first, second, third, fourth, fifth

\* Roles of the threads in the trees.
manager == first
listener == second
handler == third
codes == fourth
main == first
requester == second
mainsender == second
sender == third
control == fourth
rexmiter == fifth

Nothing == [t \in Threads |-> <<>>]
Nobody == [t \in Threads |-> None]

\* TCPmanager, its listener, and a client with its handler and codes receiver.
UserInterface ==
  LET children == (manager :> <<listener>> @@ handler :> <<codes>>) @@ Nothing
  IN [root |-> manager,
      kind |-> [t \in Threads |->
                  IF t \in {listener, codes} THEN "reads" ELSE "waits"],
      starts |-> children, releases |-> children,
      closes |-> {listener},
      makes |-> (listener :> handler) @@ Nobody,
      list |-> (listener :> manager) @@ Nobody,
      joins |-> Nobody,
      stops |-> (codes :> handler) @@ Nobody]

\* MainThread of the receiver, with the requester and its message sender.
Session ==
  LET children == (main :> <<requester>>) @@ Nothing
  IN [root |-> main,
      kind |-> [t \in Threads |-> "waits"],
      starts |-> children, releases |-> children,
      closes |-> {},
      makes |-> (requester :> sender) @@ Nobody,
      list |-> (requester :> requester) @@ Nobody,
      joins |-> Nobody, stops |-> Nobody]

\* MainThread of the sender.
Sending ==
  LET children == (main :> <<control, mainsender, rexmiter>>
                     @@ mainsender :> <<sender>>) @@ Nothing
  IN [root |-> main,
      kind |-> [t \in Threads |-> CASE t = main -> "joins"
                                    [] t = mainsender -> "input"
                                    [] t = control -> "reads"
                                    [] OTHER -> "waits"],
      starts |-> children, releases |-> children,
      closes |-> {control},
      makes |-> Nobody, list |-> Nobody,
      joins |-> (main :> mainsender @@ mainsender :> sender) @@ Nobody,
      stops |-> Nobody]
=============================================================================
