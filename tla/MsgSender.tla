----------------------------- MODULE MsgSender -----------------------------
(***************************************************************************)
(* The threads of class MsgSender: each sends the messages of its queue    *)
(* over its socket, sleeps when the queue is empty, gives a message up     *)
(* after some failed attempts, and ends once it is told to and its queue   *)
(* is empty.  The sleep is on a condition variable: a notify sets a flag   *)
(* under the mutex that the sleeper tests, so it may come before the wait. *)
(*                                                                         *)
(* The actions here leave the user's variables alone; the user of the      *)
(* senders conjoins what a message does where it arrives.                  *)
(***************************************************************************)
EXTENDS Integers, Sequences

CONSTANTS
  Senders,         \* the MsgSender threads of a program
  Messages,        \* what is queued
  Attempts,        \* attempts of send_msg(), 10 in the code
  NetworkMayFail   \* whether sock->send_msg() may throw

ASSUME MsgSenderAssumption ==
  /\ Attempts \in Nat \ {0}
  /\ NetworkMayFail \in BOOLEAN

VARIABLES
  queue,  \* queue[x] is the queue of x; qsize is its length
  out     \* out[x] is where x is in run(), with its flags and counter

msgSenderVars == <<queue, out>>

\* testing:  the condition of the outer loop      waiting: wait_until_notifying
\* draining: the condition of the inner loop      sending: the attempts
\* popping:  after the attempts                   ended:   run() has returned
MsgSenderTypeOK ==
  /\ queue \in [Senders -> Seq(Messages)]
  /\ out \in [Senders ->
       [pc : {"testing", "waiting", "draining", "sending", "popping", "ended"},
        notified : BOOLEAN, ending : BOOLEAN, attempts : 0 .. Attempts]]

MsgSenderInit ==
  /\ queue = [x \in Senders |-> <<>>]
  /\ out = [x \in Senders |-> [pc |-> "testing", notified |-> FALSE,
                               ending |-> FALSE, attempts |-> 0]]

Goes(x, pc) == out' = [out EXCEPT ![x].pc = pc]

-----------------------------------------------------------------------------
\* What other threads call.  add_msg() pushes and notifies under cv_m.
AddMsg(x, m) ==
  /\ queue' = [queue EXCEPT ![x] = Append(@, m)]
  /\ out' = [out EXCEPT ![x].notified = TRUE]

\* end_when_all_msgs_sent(): the flag first, the notify in a step of its own.
SetEnding(x) ==
  /\ out' = [out EXCEPT ![x].ending = TRUE]
  /\ UNCHANGED queue

NotifySender(x) ==
  /\ out' = [out EXCEPT ![x].notified = TRUE]
  /\ UNCHANGED queue

-----------------------------------------------------------------------------
\* run(): the two tests read qsize without the mutex.
MayEndAtOnce(x) == out[x].ending
MayEnd(x) == out[x].ending /\ queue[x] = <<>>

TestEnd(x) ==
  /\ out[x].pc = "testing"
  /\ Goes(x, IF MayEnd(x) THEN "ended" ELSE "waiting")
  /\ UNCHANGED queue

MayWakeForMessages(x) == out[x].notified /\ queue[x] # <<>>
MayWake(x) == out[x].notified /\ (queue[x] # <<>> \/ out[x].ending)

Wake(x) ==
  /\ out[x].pc = "waiting"
  /\ MayWake(x)
  /\ out' = [out EXCEPT ![x].pc = "draining", ![x].notified = FALSE]
  /\ UNCHANGED queue

Drained(x) ==
  /\ out[x].pc = "draining"
  /\ queue[x] = <<>>
  /\ Goes(x, "testing")
  /\ UNCHANGED queue

TakeFront(x) ==
  /\ out[x].pc = "draining"
  /\ queue[x] # <<>>
  /\ out' = [out EXCEPT ![x].pc = "sending", ![x].attempts = Attempts]
  /\ UNCHANGED queue

Sends(x) ==
  /\ out[x].pc = "sending"
  /\ Goes(x, "popping")
  /\ UNCHANGED queue

\* The message is given up when no attempt is left.
Fails(x) ==
  /\ NetworkMayFail
  /\ out[x].pc = "sending"
  /\ out' = [out EXCEPT
       ![x].attempts = @ - 1,
       ![x].pc = IF out[x].attempts = 1 THEN "popping" ELSE "sending"]
  /\ UNCHANGED queue

Pop(x) ==
  /\ out[x].pc = "popping"
  /\ queue' = [queue EXCEPT ![x] = Tail(@)]
  /\ Goes(x, "draining")
=============================================================================
