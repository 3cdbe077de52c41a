---------------------------- MODULE SenderProofs ----------------------------
(***************************************************************************)
(* Safety of the sender, for every size of the buffer, every number of     *)
(* packets and every number of requests.                                   *)
(***************************************************************************)
EXTENDS Sender, FifoProofs, WellFoundedInduction

\* The slots and the main sender.
PartsOK ==
  /\ slots \in [Slots -> [head : 0 .. Packets, body : {Torn} \cup (0 .. Packets)]]
  /\ reader \in {"reserve", "number", "header", "fill", "add", "last",
                 "earliest", "eof", "notify", "join", "ended"}
  /\ next \in 0 .. Packets
  /\ reader \in {"add", "last", "earliest"} => next < Packets

\* The queues are sequences; what is in that of the rexmiter is not said.
QueuesOK == \E S : queue \in [Senders -> Seq(S)]

\* Where a message sender is goes with its queue and its flags: it tests
\* and sleeps without a notify only while its queue is empty.
OutInv(x) ==
  /\ out[x].pc \in {"sending", "popping"} => queue[x] # <<>>
  /\ out[x].pc = "sending" => out[x].attempts > 0
  /\ out[x].pc \in {"testing", "waiting"} /\ queue[x] # <<>> => out[x].notified

\* Where a message sender can be.
OutStates ==
  [pc : {"testing", "waiting", "draining", "sending", "popping", "ended"},
   notified : BOOLEAN, ending : BOOLEAN, attempts : 0 .. Attempts]

SendersOK ==
  /\ queue["main"] \in Seq(Slots)
  /\ out \in [Senders -> OutStates]
  /\ QueuesOK
  /\ \A x \in Senders : OutInv(x)

\* The end of the main sender and of its message sender.
EndInv ==
  /\ out["main"].ending <=> reader \in {"notify", "join", "ended"}
  /\ reader = "join" /\ out["main"].pc = "waiting" => out["main"].notified
  /\ out["main"].pc = "ended" => queue["main"] = <<>> /\ out["main"].ending
  /\ reader = "ended" => out["main"].pc = "ended"

\* The ring holds the numbers below next, and next as soon as it was set.
RingInv ==
  IF reader = "reserve" THEN RingBefore(fifo, next)
  ELSE IF reader = "number"
  THEN /\ fifo \in Fifos /\ fifo.last \in Slots
       /\ fifo.num[fifo.last] \in {-1, next - Size}
       /\ RingAfter([fifo EXCEPT !.num[fifo.last] = next], next + 1)
  ELSE RingAfter(fifo, next + 1)

\* A number that is kept is in its slot with its data, and in the queue in its
\* order, before and behind the step in which it is queued.
Filled(i, n) == slots[i] = [head |-> n, body |-> n]

WholeInv ==
  /\ \A i \in Slots :
       fifo.num[i] \in Nat /\ fifo.num[i] > next - Size /\ fifo.num[i] < Queued
         => Filled(i, fifo.num[i])
  /\ reader = "fill" => slots[fifo.last].head = next
  /\ reader = "add" => Filled(fifo.last, next)

QueueInv ==
  /\ Len(queue["main"]) <= Queued
  /\ \A i \in 1 .. Len(queue["main"]) :
       Queued - Len(queue["main"]) + i - 1 > next - Size
         => fifo.num[queue["main"][i]] = Queued - Len(queue["main"]) + i - 1

\* The bounds that are written behind the packets trail behind the window.
BoundsInv ==
  /\ earliest \in Nat /\ (earliest = 0 \/ earliest < next - Size)
  /\ next > 0 => last \in Nat /\ last >= next - 1
  /\ reader = "earliest" => last = next

\* What the two other threads hold; the rexmiter counts with an empty batch.
BatchInv ==
  /\ control = [pc |-> control.pc, asked |-> control.asked,
                uneven |-> control.uneven, accepted |-> control.accepted]
  /\ rexmiter = [pc |-> rexmiter.pc, batch |-> rexmiter.batch,
                 num |-> rexmiter.num, idx |-> rexmiter.idx]
  /\ rexmiter.pc \in {"count", "take"} => rexmiter.batch = {}

\* The packets that the other threads speak of: none that was not begun.
Controls == [pc : {"receive", "check", "insert"}, asked : SUBSET (0 .. Packets),
             uneven : {None} \cup (0 .. Packets), accepted : SUBSET (0 .. Packets)]
Rexmiters == [pc : {"count", "take", "pick", "lookup", "queue"},
              batch : SUBSET (0 .. Packets), num : {None} \cup (0 .. Packets),
              idx : {-1} \cup Slots]

NumsInv ==
  /\ {last, earliest} \subseteq Uninitialised \cup (0 .. Packets)
  /\ heard \in {None} \cup (0 .. Packets) /\ heard <= next
  /\ \A i \in Slots : slots[i].head <= next
  /\ nums_to_rexmit \subseteq 0 .. Packets
  /\ requests \in 0 .. MaxRequests
  /\ control \in Controls
  /\ rexmiter \in Rexmiters
  /\ rexmiter.pc = "lookup" => rexmiter.num # None
  /\ queue["rexmit"] \in Seq(Slots)
  /\ control.pc = "check" => \A n \in control.asked : n < next

\* What was asked for and is kept, or will be, was accepted.
AcceptedInv ==
  control.pc = "insert" =>
    \A n \in control.asked : n > next - Size => n \in control.accepted

SenderInv ==
  /\ PartsOK /\ SendersOK /\ EndInv
  /\ RingInv /\ WholeInv /\ QueueInv

-----------------------------------------------------------------------------
(* The constants and the marks of the ring.                                *)

\* The assumption on the constants, without the parts that no proof needs.
LEMMA TheSenders == Senders = {"main", "rexmit"} /\ Packets \in Nat
BY SenderAssumption DEF SenderAssumption

\* Behind "reserve" the main sender has a slot.
LEMMA LastIsSlot ==
  ASSUME RingInv, next \in Nat
  PROVE  /\ fifo \in Fifos
         /\ reader # "reserve" => fifo.last \in Slots
         /\ reader \notin {"reserve", "number"} => fifo.num[fifo.last] = next
<1>1. EmptyFifo \in Fifos
  BY DEF EmptyFifo, Fifos
<1>2. ASSUME NEW k \in Nat, RingAfter(fifo, k + 1)
      PROVE  fifo \in Fifos /\ fifo.last \in Slots /\ fifo.num[fifo.last] = k
  <2>1. fifo \in Fifos /\ fifo.last \in Slots
    BY <1>2 DEF RingAfter
  <2>. QED
    BY <1>2, <2>1, NewestSlot
<1>3. CASE reader = "reserve"
  BY <1>1, <1>3 DEF RingInv, RingBefore, RingAfter
<1>4. CASE reader = "number"
  BY <1>4 DEF RingInv
<1>5. CASE reader \notin {"reserve", "number"}
  BY <1>2, <1>5 DEF RingInv
<1>. QED
  BY <1>3, <1>4, <1>5

-----------------------------------------------------------------------------
(* The message senders.                                                    *)

\* What a step does to the queues and to the main sender: a message is added, a
\* message sender goes on, the main sender ends, or nothing.
LEMMA WhatStepsDo ==
  ASSUME [Next]_vars
  PROVE  \/ reader = "add" /\ reader' = "last" /\ AddMsg("main", fifo.last)
         \/ \E m : AddMsg("rexmit", m) /\ UNCHANGED readerVars
         \/ reader = "eof" /\ reader' = "notify" /\ SetEnding("main")
         \/ reader = "notify" /\ reader' = "join" /\ NotifySender("main")
         \/ /\ reader = "join" /\ reader' = "ended" /\ out["main"].pc = "ended"
            /\ UNCHANGED msgSenderVars
         \/ /\ reader \in {"reserve", "number", "header", "fill", "last", "earliest"}
            /\ reader' \in {"reserve", "number", "header", "fill", "add",
                            "earliest", "eof"}
            /\ UNCHANGED msgSenderVars
         \/ UNCHANGED readerVars /\ UNCHANGED msgSenderVars
         \/ /\ UNCHANGED readerVars
            /\ \E x \in Senders :
                 \/ TestEnd(x) \/ Wake(x) \/ Drained(x) \/ TakeFront(x)
                 \/ Fails(x) \/ Pop(x) \/ Sends(x)
<1>1. CASE ReaderStep \/ Fill \/ Eof
  BY <1>1 DEF ReaderStep, MoveMarks, SetNumber, WriteHeader, QueuePacket, SetLast,
     SetEarliest, TellSenderToEnd, NotifyOfEnd, JoinSender, Fill, Eof
<1>2. CASE \/ \E lacking \in SUBSET (0 .. heard - 1) \ {{}} : Receive(lacking)
           \/ ControlStep
  BY <1>2 DEF Receive, ControlStep, Check, InsertNums
<1>3. CASE RexmiterStep
  BY <1>3 DEF RexmiterStep, AlarmRings, TakeNums, PickNum, LookUp, QueueRexmit
<1>4. CASE \E x \in Senders : SenderStep(x)
  BY <1>4 DEF SenderStep, SendFront, SenderKeepsOn, Unsent
<1>5. CASE UNCHANGED vars
  BY <1>5 DEF vars
<1>. QED
  BY <1>1, <1>2, <1>3, <1>4, <1>5 DEF Next

\* A longer alphabet has the same sequences and more.
LEMMA SeqOfMore ==
  ASSUME NEW S, NEW T, S \subseteq T PROVE Seq(S) \subseteq Seq(T)
<1>. SUFFICES ASSUME NEW s \in Seq(S) PROVE s \in Seq(T)
  OBVIOUS
<1>1. s \in [1 .. Len(s) -> S] /\ Len(s) \in Nat
  OBVIOUS
<1>. QED
  BY <1>1

\* A message that is added leaves the queue in use, and its sender notified.
LEMMA AddKeepsSenders ==
  ASSUME SendersOK, NEW x \in Senders, NEW m, x = "main" => m \in Slots,
         AddMsg(x, m)
  PROVE  /\ SendersOK'
         /\ queue'[x] = Append(queue[x], m)
         /\ \A y \in Senders \ {x} : queue'[y] = queue[y] /\ out'[y] = out[y]
         /\ out'[x] = [out[x] EXCEPT !.notified = TRUE]
<1>1. PICK S : queue \in [Senders -> Seq(S)]
  BY DEF SendersOK, QueuesOK
<1>2. queue[x] \in Seq(S) /\ queue[x] \in Seq(S \cup {m})
  BY <1>1, SeqOfMore
<1>3. Append(queue[x], m) \in Seq(S \cup {m}) /\ Append(queue[x], m) # <<>>
  BY <1>2
<1>4. queue \in [Senders -> Seq(S \cup {m})]
  BY <1>1, SeqOfMore
<1>5. queue' \in [Senders -> Seq(S \cup {m})]
  BY <1>3, <1>4 DEF AddMsg
<1>6. QueuesOK'
  BY <1>5 DEF QueuesOK
<1>7. /\ queue'[x] = Append(queue[x], m)
      /\ \A y \in Senders \ {x} : queue'[y] = queue[y] /\ out'[y] = out[y]
      /\ out'[x] = [out[x] EXCEPT !.notified = TRUE]
  BY <1>1 DEF AddMsg, SendersOK
<1>8. queue'["main"] \in Seq(Slots)
  <2>1. CASE x = "main"
    <3>. DEFINE s == queue["main"]
    <3>1. s \in Seq(Slots) /\ m \in Slots
      BY <2>1 DEF SendersOK
    <3>. HIDE DEF s
    <3>2. Append(s, m) \in Seq(Slots)
      BY <3>1
    <3>. QED
      BY <1>7, <2>1, <3>2 DEF s
  <2>2. CASE x # "main"
    BY <1>7, <2>2, TheSenders DEF SendersOK
  <2>. QED
    BY <2>1, <2>2
<1>9. out' \in [Senders -> OutStates]
  <2>1. [out[x] EXCEPT !.notified = TRUE] \in OutStates
    BY DEF SendersOK, OutStates
  <2>. QED
    BY <2>1 DEF AddMsg, SendersOK
<1>10. ASSUME NEW y \in Senders PROVE OutInv(y)'
  <2>1. CASE y = x
    <3>1. /\ out'[y].pc = out[y].pc /\ out'[y].attempts = out[y].attempts
          /\ out'[y].notified
      BY <1>7, <2>1 DEF SendersOK, OutStates
    <3>. QED
      BY <1>3, <1>7, <2>1, <3>1 DEF SendersOK, OutInv
  <2>2. CASE y # x
    BY <1>7, <2>2 DEF SendersOK, OutInv
  <2>. QED
    BY <2>1, <2>2
<1>. QED
  BY <1>6, <1>7, <1>8, <1>9, <1>10 DEF SendersOK

\* A message sender goes on: only Pop changes its queue.
LEMMA GoingOnKeepsSenders ==
  ASSUME SendersOK, NEW x \in Senders,
         \/ TestEnd(x) \/ Wake(x) \/ Drained(x) \/ TakeFront(x)
         \/ Fails(x) \/ Pop(x) \/ Sends(x)
  PROVE  /\ SendersOK'
         /\ queue'[x] = queue[x]
              \/ (queue[x] # <<>> /\ queue'[x] = Tail(queue[x])
                  /\ out'[x].pc = "draining")
         /\ \A y \in Senders \ {x} : queue'[y] = queue[y] /\ out'[y] = out[y]
         /\ out'[x].ending = out[x].ending
         /\ out'[x].pc = "waiting" =>
              /\ out'[x].notified = out[x].notified
              /\ \/ out[x].pc = "waiting"
                 \/ out[x].pc = "testing" /\ ~MayEnd(x)
         /\ out'[x].pc = "ended" => MayEnd(x)
         /\ out[x].pc # "ended"
<1>1. PICK S : queue \in [Senders -> Seq(S)]
  BY DEF SendersOK, QueuesOK
<1>2. out \in [Senders -> OutStates] /\ out[x] \in OutStates
  BY DEF SendersOK
<1>3. OutInv(x) /\ Attempts \in Nat \ {0}
  BY MsgSenderAssumption DEF SendersOK, MsgSenderAssumption
<1>4. ASSUME queue[x] # <<>> PROVE Tail(queue[x]) \in Seq(S)
  BY <1>1, <1>4
<1>5. queue' \in [Senders -> Seq(S)] /\ QueuesOK'
  <2>1. queue' \in [Senders -> Seq(S)]
    BY <1>1, <1>3, <1>4 DEF TestEnd, Wake, Drained, TakeFront, Fails, Pop,
       Sends, OutInv
  <2>. QED
    BY <2>1 DEF QueuesOK
\* What the step does to the queue and the record of the sender.
<1>. DEFINE
  Keeps(r, rr) == rr.notified = r.notified /\ rr.ending = r.ending
  Does(r, rr, s, ss) ==
    \/ /\ r.pc = "testing" /\ ss = s /\ Keeps(r, rr)
       /\ \/ rr.pc = "ended" /\ r.ending /\ s = <<>>
          \/ rr.pc = "waiting" /\ ~(r.ending /\ s = <<>>)
    \/ /\ r.pc = "waiting" /\ ss = s
       /\ rr.pc = "draining" /\ rr.ending = r.ending
    \/ /\ r.pc = "draining" /\ s = <<>> /\ ss = s /\ Keeps(r, rr)
       /\ rr.pc = "testing"
    \/ /\ r.pc = "draining" /\ s # <<>> /\ ss = s /\ Keeps(r, rr)
       /\ rr.pc = "sending" /\ rr.attempts > 0
    \/ /\ r.pc = "sending" /\ ss = s /\ Keeps(r, rr)
       /\ rr.pc = "popping" \/ (rr.pc = "sending" /\ rr.attempts > 0)
    \/ /\ r.pc = "popping" /\ ss = Tail(s) /\ Keeps(r, rr)
       /\ rr.pc = "draining"
<1>6. /\ out' = [out EXCEPT ![x] = out'[x]]
      /\ out'[x] \in OutStates
      /\ Does(out[x], out'[x], queue[x], queue'[x])
  <2>1. CASE TestEnd(x)
    <3>. DEFINE e == [out[x] EXCEPT !.pc = IF MayEnd(x) THEN "ended" ELSE "waiting"]
    <3>1. e \in OutStates /\ out' = [out EXCEPT ![x] = e]
      BY <1>2, <1>3, <2>1 DEF TestEnd, Goes, OutStates, OutInv
    <3>2. out[x].pc = "testing" /\ queue'[x] = queue[x]
      BY <1>1, <2>1 DEF TestEnd
    <3>3. out'[x] = e
      BY <1>2, <3>1
    <3>. QED
      BY <1>2, <1>3, <3>1, <3>2, <3>3 DEF OutStates, OutInv, MayEnd
  <2>2. CASE Wake(x)
    <3>. DEFINE e == [out[x] EXCEPT !.pc = "draining", !.notified = FALSE]
    <3>1. e \in OutStates /\ out' = [out EXCEPT ![x] = e]
      BY <1>2, <1>3, <2>2 DEF Wake, OutStates, OutInv
    <3>2. out[x].pc = "waiting" /\ MayWake(x) /\ queue'[x] = queue[x]
      BY <1>1, <2>2 DEF Wake
    <3>3. out'[x] = e
      BY <1>2, <3>1
    <3>. QED
      BY <1>2, <1>3, <3>1, <3>2, <3>3 DEF OutStates, OutInv
  <2>3. CASE Drained(x)
    <3>. DEFINE e == [out[x] EXCEPT !.pc = "testing"]
    <3>1. e \in OutStates /\ out' = [out EXCEPT ![x] = e]
      BY <1>2, <1>3, <2>3 DEF Drained, Goes, OutStates, OutInv
    <3>2. out[x].pc = "draining" /\ queue[x] = <<>> /\ queue'[x] = queue[x]
      BY <1>1, <2>3 DEF Drained
    <3>3. out'[x] = e
      BY <1>2, <3>1
    <3>. QED
      BY <1>2, <1>3, <3>1, <3>2, <3>3 DEF OutStates, OutInv
  <2>4. CASE TakeFront(x)
    <3>. DEFINE e == [out[x] EXCEPT !.pc = "sending", !.attempts = Attempts]
    <3>c. Attempts \in 0 .. Attempts
      BY <1>2, <1>3, <2>4 DEF TakeFront, OutStates, OutInv
    <3>d. DOMAIN out[x] = {"pc", "notified", "ending", "attempts"}
      BY <1>2 DEF OutStates
    <3>a. e \in OutStates
      BY <1>2, <3>c, <3>d DEF OutStates
    <3>b. out' = [out EXCEPT ![x] = e]
      BY <1>2, <2>4 DEF TakeFront
    <3>1. e \in OutStates /\ out' = [out EXCEPT ![x] = e]
      BY <3>a, <3>b
    <3>2. out[x].pc = "draining" /\ queue[x] # <<>> /\ queue'[x] = queue[x]
      BY <1>1, <2>4 DEF TakeFront
    <3>3. out'[x] = e
      BY <1>2, <3>1
    <3>. QED
      BY <1>2, <1>3, <3>1, <3>2, <3>3 DEF OutStates, OutInv
  <2>5. CASE Fails(x)
    <3>. DEFINE e == [out[x] EXCEPT !.attempts = @ - 1,
                           !.pc = IF out[x].attempts = 1 THEN "popping"
                                  ELSE "sending"]
    <3>c. out[x].attempts - 1 \in 0 .. Attempts
      BY <1>2, <1>3, <2>5 DEF Fails, OutStates, OutInv
    <3>d. DOMAIN out[x] = {"pc", "notified", "ending", "attempts"}
      BY <1>2 DEF OutStates
    <3>a. e \in OutStates
      BY <1>2, <3>c, <3>d DEF OutStates
    <3>b. out' = [out EXCEPT ![x] = e]
      BY <1>2, <2>5 DEF Fails
    <3>1. e \in OutStates /\ out' = [out EXCEPT ![x] = e]
      BY <3>a, <3>b
    <3>2. out[x].pc = "sending" /\ queue'[x] = queue[x]
      BY <1>1, <2>5 DEF Fails
    <3>3. out'[x] = e
      BY <1>2, <3>1
    <3>. QED
      BY <1>2, <1>3, <3>1, <3>2, <3>3 DEF OutStates, OutInv
  <2>6. CASE Pop(x)
    <3>. DEFINE e == [out[x] EXCEPT !.pc = "draining"]
    <3>1. e \in OutStates /\ out' = [out EXCEPT ![x] = e]
      BY <1>2, <1>3, <2>6 DEF Pop, Goes, OutStates, OutInv
    <3>2. out[x].pc = "popping" /\ queue'[x] = Tail(queue[x])
      BY <1>1, <2>6 DEF Pop
    <3>3. out'[x] = e
      BY <1>2, <3>1
    <3>. QED
      BY <1>2, <1>3, <3>1, <3>2, <3>3 DEF OutStates, OutInv
  <2>7. CASE Sends(x)
    <3>. DEFINE e == [out[x] EXCEPT !.pc = "popping"]
    <3>1. e \in OutStates /\ out' = [out EXCEPT ![x] = e]
      BY <1>2, <1>3, <2>7 DEF Sends, Goes, OutStates, OutInv
    <3>2. out[x].pc = "sending" /\ queue'[x] = queue[x]
      BY <1>1, <2>7 DEF Sends
    <3>3. out'[x] = e
      BY <1>2, <3>1
    <3>. QED
      BY <1>2, <1>3, <3>1, <3>2, <3>3 DEF OutStates, OutInv
  <2>. QED
    BY <2>1, <2>2, <2>3, <2>4, <2>5, <2>6, <2>7
<1>7. \A y \in Senders \ {x} : queue'[y] = queue[y] /\ out'[y] = out[y]
  <2>1. \A y \in Senders \ {x} : queue'[y] = queue[y]
    BY <1>1 DEF TestEnd, Wake, Drained, TakeFront, Fails, Pop, Sends
  <2>. QED
    BY <1>2, <1>6, <2>1
<1>8. /\ queue'[x] = queue[x]
           \/ (queue[x] # <<>> /\ queue'[x] = Tail(queue[x])
               /\ out'[x].pc = "draining")
      /\ out'[x].ending = out[x].ending
      /\ out'[x].pc = "waiting" =>
           /\ out'[x].notified = out[x].notified
           /\ \/ out[x].pc = "waiting"
              \/ out[x].pc = "testing" /\ ~MayEnd(x)
      /\ out'[x].pc = "ended" => MayEnd(x)
      /\ out[x].pc # "ended"
      /\ out'[x].pc \in {"sending", "popping"} => queue'[x] # <<>>
      /\ out'[x].pc = "sending" => out'[x].attempts > 0
      /\ out'[x].pc \in {"testing", "waiting"} /\ queue'[x] # <<>>
           => out'[x].notified
  <2>. DEFINE r == out[x]  rr == out'[x]  s == queue[x]  ss == queue'[x]
  <2>1. r \in OutStates /\ rr \in OutStates /\ Does(r, rr, s, ss)
    BY <1>2, <1>6
  <2>2. /\ r.pc \in {"sending", "popping"} => s # <<>>
        /\ r.pc = "sending" => r.attempts > 0
        /\ r.pc \in {"testing", "waiting"} /\ s # <<>> => r.notified
    BY <1>3 DEF OutInv
  <2>3. MayEnd(x) <=> r.ending /\ s = <<>>
    BY DEF MayEnd
  <2>. HIDE DEF r, rr, s, ss
  <2>4. /\ ss = s \/ (s # <<>> /\ ss = Tail(s) /\ rr.pc = "draining")
        /\ rr.ending = r.ending
        /\ rr.pc = "waiting" =>
             /\ rr.notified = r.notified
             /\ \/ r.pc = "waiting"
                \/ r.pc = "testing" /\ ~(r.ending /\ s = <<>>)
        /\ rr.pc = "ended" => r.ending /\ s = <<>>
        /\ r.pc # "ended"
        /\ rr.pc \in {"sending", "popping"} => ss # <<>>
        /\ rr.pc = "sending" => rr.attempts > 0
        /\ rr.pc \in {"testing", "waiting"} /\ ss # <<>> => rr.notified
    <3>2. /\ ss = s \/ (s # <<>> /\ ss = Tail(s) /\ rr.pc = "draining")
          /\ rr.ending = r.ending
          /\ r.pc # "ended"
      BY <2>1, <2>2 DEF OutStates
    <3>3. /\ rr.pc = "waiting" =>
               /\ rr.notified = r.notified
               /\ \/ r.pc = "waiting"
                  \/ r.pc = "testing" /\ ~(r.ending /\ s = <<>>)
          /\ rr.pc = "ended" => r.ending /\ s = <<>>
      BY <2>1, <2>2 DEF OutStates
    <3>4. /\ rr.pc \in {"sending", "popping"} => ss # <<>>
          /\ rr.pc = "sending" => rr.attempts > 0
      BY <1>3, <2>1, <2>2 DEF OutStates
    <3>5. rr.pc \in {"testing", "waiting"} /\ ss # <<>> => rr.notified
      BY <2>1, <2>2 DEF OutStates
    <3>. QED
      BY <3>2, <3>3, <3>4, <3>5
  <2>. QED
    BY <2>3, <2>4 DEF r, rr, s, ss
<1>9. queue'["main"] \in Seq(Slots)
  <2>1. CASE x = "main"
    <3>. DEFINE s == queue["main"]
    <3>1. s \in Seq(Slots)
      BY DEF SendersOK
    <3>. HIDE DEF s
    <3>2. s # <<>> => Tail(s) \in Seq(Slots)
      BY <3>1
    <3>. QED
      BY <1>8, <2>1, <3>1, <3>2 DEF s
  <2>2. CASE x # "main"
    BY <1>7, <2>2, TheSenders DEF SendersOK
  <2>. QED
    BY <2>1, <2>2
<1>10. OutInv(x)' /\ out' \in [Senders -> OutStates]
  BY <1>2, <1>6, <1>8 DEF OutInv
<1>11. ASSUME NEW y \in Senders PROVE OutInv(y)'
  BY <1>7, <1>10 DEF OutInv, SendersOK
<1>. QED
  BY <1>5, <1>7, <1>8, <1>9, <1>10, <1>11 DEF SendersOK

\* The flags of a sender that is told to end, or notified of it.
LEMMA EndKeepsSenders ==
  ASSUME SendersOK, SetEnding("main") \/ NotifySender("main")
  PROVE  SendersOK' /\ queue' = queue
<1>. USE TheSenders
<1>1. queue' = queue /\ QueuesOK'
  BY DEF SetEnding, NotifySender, SendersOK, QueuesOK
<1>2. out' \in [Senders -> OutStates]
  <2>1. /\ [out["main"] EXCEPT !.ending = TRUE] \in OutStates
        /\ [out["main"] EXCEPT !.notified = TRUE] \in OutStates
    BY DEF SendersOK, OutStates
  <2>. QED
    BY <2>1 DEF SetEnding, NotifySender, SendersOK
<1>3. ASSUME NEW y \in Senders PROVE OutInv(y)'
  BY <1>1 DEF SetEnding, NotifySender, SendersOK, OutInv, OutStates
<1>. QED
  BY <1>1, <1>2, <1>3 DEF SendersOK

-----------------------------------------------------------------------------
(* The parts of the invariant, step by step.                               *)

\* The first half: the threads and the message senders.
LEMMA StepsKeepSenders ==
  ASSUME PartsOK, SendersOK, EndInv, RingInv, [Next]_vars
  PROVE  SendersOK' /\ EndInv'
<1>. USE TheSenders
<1>0. "main" \in Senders /\ "rexmit" \in Senders
  OBVIOUS
<1>1. out["main"] \in OutStates
  BY DEF SendersOK
<1>2. CASE reader = "add" /\ reader' = "last" /\ AddMsg("main", fifo.last)
  <2>1. fifo.last \in Slots
    BY <1>2, LastIsSlot DEF PartsOK
  <2>2. SendersOK' /\ out'["main"] = [out["main"] EXCEPT !.notified = TRUE]
    BY <1>0, <1>2, <2>1, AddKeepsSenders
  <2>3. out'["main"].pc = out["main"].pc /\ out'["main"].ending = out["main"].ending
    BY <1>1, <2>2 DEF OutStates
  <2>. QED
    BY <1>2, <2>2, <2>3 DEF EndInv
<1>3. ASSUME NEW m, AddMsg("rexmit", m), UNCHANGED readerVars
      PROVE  SendersOK' /\ EndInv'
  <2>1. SendersOK' /\ queue'["main"] = queue["main"] /\ out'["main"] = out["main"]
    BY <1>0, <1>3, AddKeepsSenders
  <2>. QED
    BY <1>3, <2>1 DEF EndInv, readerVars
<1>4. CASE reader = "eof" /\ reader' = "notify" /\ SetEnding("main")
  <2>1. SendersOK' /\ queue' = queue
    BY <1>4, EndKeepsSenders
  <2>2. out'["main"].ending = TRUE /\ out'["main"].pc = out["main"].pc
    BY <1>1, <1>4 DEF SetEnding, SendersOK, OutStates
  <2>. QED
    BY <1>4, <2>1, <2>2 DEF EndInv
<1>5. CASE reader = "notify" /\ reader' = "join" /\ NotifySender("main")
  <2>1. SendersOK' /\ queue' = queue
    BY <1>5, EndKeepsSenders
  <2>2. /\ out'["main"].notified = TRUE /\ out'["main"].pc = out["main"].pc
        /\ out'["main"].ending = out["main"].ending
    BY <1>1, <1>5 DEF NotifySender, SendersOK, OutStates
  <2>. QED
    BY <1>5, <2>1, <2>2 DEF EndInv
<1>6. ASSUME UNCHANGED msgSenderVars PROVE SendersOK'
  BY <1>6 DEF SendersOK, QueuesOK, OutInv, msgSenderVars
<1>7. CASE /\ reader = "join" /\ reader' = "ended" /\ out["main"].pc = "ended"
           /\ UNCHANGED msgSenderVars
  BY <1>6, <1>7 DEF EndInv, msgSenderVars
<1>8. CASE /\ reader \in {"reserve", "number", "header", "fill", "last",
                          "earliest"}
           /\ reader' \in {"reserve", "number", "header", "fill", "add",
                           "earliest", "eof"}
           /\ UNCHANGED msgSenderVars
  BY <1>6, <1>8 DEF EndInv, msgSenderVars
<1>9. CASE UNCHANGED readerVars /\ UNCHANGED msgSenderVars
  BY <1>6, <1>9 DEF EndInv, msgSenderVars, readerVars
<1>10. ASSUME UNCHANGED readerVars, NEW x \in Senders,
              \/ TestEnd(x) \/ Wake(x) \/ Drained(x) \/ TakeFront(x)
              \/ Fails(x) \/ Pop(x) \/ Sends(x)
       PROVE  SendersOK' /\ EndInv'
  <2>1. /\ SendersOK'
        /\ queue'[x] = queue[x]
             \/ (queue[x] # <<>> /\ queue'[x] = Tail(queue[x])
                 /\ out'[x].pc = "draining")
        /\ \A y \in Senders \ {x} : queue'[y] = queue[y] /\ out'[y] = out[y]
        /\ out'[x].ending = out[x].ending
        /\ out'[x].pc = "waiting" =>
             /\ out'[x].notified = out[x].notified
             /\ \/ out[x].pc = "waiting"
                \/ out[x].pc = "testing" /\ ~MayEnd(x)
        /\ out'[x].pc = "ended" => MayEnd(x)
        /\ out[x].pc # "ended"
    BY <1>10, GoingOnKeepsSenders, Zenon
  <2>2. CASE x # "main"
    BY <1>10, <2>1, <2>2 DEF EndInv, readerVars
  <2>3. CASE x = "main"
    <3>1. /\ out'["main"].ending <=> reader' \in {"notify", "join", "ended"}
          /\ out'["main"].pc = "ended" =>
               queue'["main"] = <<>> /\ out'["main"].ending
          /\ reader' # "ended"
      BY <1>10, <2>1, <2>3 DEF EndInv, readerVars, MayEnd
    <3>2. ASSUME reader' = "join", out'["main"].pc = "waiting"
          PROVE  out'["main"].notified
      <4>1. CASE out["main"].pc = "waiting"
        BY <1>10, <2>1, <2>3, <3>2, <4>1 DEF EndInv, readerVars
      <4>2. CASE out["main"].pc # "waiting"
        <5>1. ~MayEnd("main") /\ out["main"].pc = "testing"
          BY <2>1, <2>3, <3>2, <4>2
        <5>2. OutInv("main") /\ out["main"].ending
          BY <1>10, <3>2 DEF SendersOK, EndInv, readerVars
        <5>. QED
          BY <2>1, <2>3, <3>2, <5>1, <5>2 DEF OutInv, MayEnd
      <4>. QED
        BY <4>1, <4>2
    <3>. QED
      BY <2>1, <3>1, <3>2 DEF EndInv
  <2>. QED
    BY <2>2, <2>3
<1>11. ASSUME \E m : AddMsg("rexmit", m) /\ UNCHANGED readerVars
       PROVE  SendersOK' /\ EndInv'
  BY <1>3, <1>11
<1>12. ASSUME UNCHANGED readerVars,
              \E x \in Senders :
                \/ TestEnd(x) \/ Wake(x) \/ Drained(x) \/ TakeFront(x)
                \/ Fails(x) \/ Pop(x) \/ Sends(x)
       PROVE  SendersOK' /\ EndInv'
  BY <1>10, <1>12
<1>. QED
  BY <1>2, <1>4, <1>5, <1>6, <1>7, <1>8, <1>9, <1>11, <1>12,
     WhatStepsDo

\* A step that leaves the buffer and dt_num alone, and takes at most the front
\* of the queue of the main sender away.
QuietStep ==
  /\ UNCHANGED <<fifo, slots, next>>
  /\ \/ reader' = reader
     \/ reader = "fill" /\ reader' = "eof"
     \/ reader = "last" /\ reader' = "earliest"
     \/ {reader, reader'} \subseteq {"eof", "notify", "join", "ended"}
  /\ \/ queue'["main"] = queue["main"]
     \/ queue["main"] # <<>> /\ queue'["main"] = Tail(queue["main"])

\* The steps that do something to the buffer are those of the main sender.
LEMMA BufferSteps ==
  ASSUME SendersOK, [Next]_vars
  PROVE  \/ MoveMarks \/ SetNumber \/ WriteHeader \/ Fill \/ QueuePacket
         \/ SetEarliest \/ QuietStep
<1>. USE TheSenders
<1>0. "main" \in Senders /\ "rexmit" \in Senders
  OBVIOUS
<1>1. CASE SetLast \/ TellSenderToEnd \/ NotifyOfEnd \/ JoinSender \/ Eof
  BY <1>1 DEF SetLast, TellSenderToEnd, NotifyOfEnd, JoinSender, Eof, SetEnding,
     NotifySender, QuietStep, bufferVars, msgSenderVars
<1>2. CASE \/ \E lacking \in SUBSET (0 .. heard - 1) \ {{}} : Receive(lacking)
           \/ ControlStep \/ UNCHANGED vars
  BY <1>2 DEF Receive, ControlStep, Check, InsertNums, vars, QuietStep,
     readerVars, bufferVars, msgSenderVars
<1>3. CASE RexmiterStep
  <2>1. CASE AddMsg("rexmit", rexmiter.idx)
    <3>1. queue'["main"] = queue["main"]
      BY <1>0, <2>1, AddKeepsSenders
    <3>. QED
      BY <1>3, <3>1 DEF RexmiterStep, AlarmRings, TakeNums, PickNum, LookUp,
         QueueRexmit, QuietStep, readerVars, bufferVars
  <2>2. CASE UNCHANGED msgSenderVars
    BY <1>3, <2>2 DEF RexmiterStep, AlarmRings, TakeNums, PickNum, LookUp,
       QueueRexmit, QuietStep, readerVars, bufferVars, msgSenderVars
  <2>. QED
    BY <1>3, <2>1, <2>2 DEF RexmiterStep, AlarmRings, TakeNums, PickNum, LookUp,
       QueueRexmit
<1>4. ASSUME NEW x \in Senders, SenderStep(x) PROVE QuietStep
  <2>1. UNCHANGED <<bufferVars, readerVars>>
    BY <1>4 DEF SenderStep, SendFront, SenderKeepsOn, Unsent
  <2>2. \/ TestEnd(x) \/ Wake(x) \/ Drained(x) \/ TakeFront(x)
        \/ Fails(x) \/ Pop(x) \/ Sends(x)
    BY <1>4 DEF SenderStep, SendFront, SenderKeepsOn
  <2>3. /\ queue'[x] = queue[x]
             \/ (queue[x] # <<>> /\ queue'[x] = Tail(queue[x])
                 /\ out'[x].pc = "draining")
        /\ \A y \in Senders \ {x} : queue'[y] = queue[y] /\ out'[y] = out[y]
    BY <2>2, GoingOnKeepsSenders, Zenon
  <2>4. \/ queue'["main"] = queue["main"]
        \/ queue["main"] # <<>> /\ queue'["main"] = Tail(queue["main"])
    BY <1>0, <2>3
  <2>. QED
    BY <2>1, <2>4 DEF QuietStep, readerVars, bufferVars
<1>. QED
  BY <1>1, <1>2, <1>3, <1>4 DEF Next, ReaderStep

\* The ring and the main sender.
LEMMA StepsKeepRing ==
  ASSUME PartsOK, SendersOK, RingInv, [Next]_vars
  PROVE  PartsOK' /\ RingInv'
<1>0. next \in Nat /\ Packets \in Nat
  BY TheSenders DEF PartsOK
<1>1. /\ fifo \in Fifos
      /\ reader # "reserve" => fifo.last \in Slots
      /\ reader \notin {"reserve", "number"} => fifo.num[fifo.last] = next
  BY <1>0, LastIsSlot
<1>2. PartsOK'
  <2>1. slots' \in [Slots -> [head : 0 .. Packets,
                              body : {Torn} \cup (0 .. Packets)]]
    BY <1>1, BufferSteps DEF PartsOK, MoveMarks, SetNumber, WriteHeader, Fill,
       QueuePacket, SetEarliest, QuietStep, bufferVars
  <2>. QED
    BY <1>0, <2>1, BufferSteps DEF PartsOK, MoveMarks, SetNumber, WriteHeader,
       Fill, QueuePacket, SetEarliest, QuietStep, bufferVars
<1>3. CASE MoveMarks
  <2>1. RingBefore(fifo, next)
    BY <1>3 DEF MoveMarks, RingInv
  <2>2. fifo' = Insert(fifo, next) /\ reader' = "number" /\ next' = next
    BY <1>3 DEF MoveMarks
  <2>3. /\ fifo' \in Fifos /\ fifo'.num = fifo.num /\ fifo'.last \in Slots
        /\ fifo.num[fifo'.last] \in {-1, next - Size}
        /\ RingAfter([fifo' EXCEPT !.num[fifo'.last] = next], next + 1)
    BY <1>0, <2>1, <2>2, MarksMoved
  <2>. QED
    BY <1>2, <2>2, <2>3 DEF RingInv
<1>4. CASE SetNumber
  BY <1>2, <1>4 DEF SetNumber, RingInv
<1>5. CASE WriteHeader \/ Fill \/ QueuePacket
  BY <1>2, <1>5 DEF WriteHeader, Fill, QueuePacket, RingInv, bufferVars
<1>6. CASE SetEarliest
  <2>1. RingAfter(fifo, next + 1) /\ next + 1 # 0
    BY <1>0, <1>6 DEF SetEarliest, RingInv
  <2>2. RingBefore(fifo, next + 1)
    BY <2>1 DEF RingBefore
  <2>. QED
    BY <1>2, <1>6, <2>2 DEF SetEarliest, RingInv, bufferVars
<1>7. CASE QuietStep
  BY <1>2, <1>7 DEF QuietStep, RingInv
<1>. QED
  BY <1>3, <1>4, <1>5, <1>6, <1>7, BufferSteps

\* What is kept is whole.
LEMMA StepsKeepWhole ==
  ASSUME PartsOK, SendersOK, RingInv, WholeInv, [Next]_vars
  PROVE  WholeInv'
<1>0. next \in Nat /\ Size \in Nat \ {0} /\ Torn = -1
  BY TheSenders, SizeAssumption DEF PartsOK, Torn
<1>1. /\ fifo \in Fifos /\ fifo.num \in [Slots -> Int]
      /\ reader # "reserve" => fifo.last \in Slots
      /\ reader \notin {"reserve", "number"} => fifo.num[fifo.last] = next
  BY <1>0, LastIsSlot DEF Fifos
<1>2. CASE MoveMarks
  <2>1. fifo'.num = fifo.num
    BY <1>0, <1>1, <1>2, InsertMovesMarks DEF MoveMarks
  <2>. QED
    BY <1>2, <2>1 DEF MoveMarks, WholeInv, Filled, Queued
<1>3. CASE SetNumber
  <2>1. fifo'.num = [fifo.num EXCEPT ![fifo.last] = next] /\ fifo.last \in Slots
    BY <1>1, <1>3 DEF SetNumber, Fifos
  <2>2. /\ reader' = "header" /\ next' = next /\ Queued' = next /\ Queued = next
        /\ slots' = slots
    BY <1>3 DEF SetNumber, Queued
  <2>3. ASSUME NEW i \in Slots, fifo'.num[i] \in Nat,
               fifo'.num[i] > next - Size, fifo'.num[i] < next
        PROVE  slots[i] = [head |-> fifo'.num[i], body |-> fifo'.num[i]]
    BY <1>0, <1>1, <2>1, <2>2, <2>3 DEF WholeInv, Filled
  <2>. QED
    BY <2>2, <2>3 DEF WholeInv, Filled
<1>4. CASE WriteHeader
  <2>1. /\ slots' = [slots EXCEPT ![fifo.last] = [head |-> next, body |-> Torn]]
        /\ reader' = "fill" /\ fifo' = fifo /\ next' = next /\ Queued' = next
        /\ Queued = next /\ fifo.last \in Slots /\ fifo.num[fifo.last] = next
    BY <1>1, <1>4 DEF WriteHeader, Queued
  <2>2. slots'[fifo.last].head = next
    BY <2>1 DEF PartsOK
  <2>3. ASSUME NEW i \in Slots, fifo.num[i] \in Nat,
               fifo.num[i] > next - Size, fifo.num[i] < next
        PROVE  slots'[i] = [head |-> fifo.num[i], body |-> fifo.num[i]]
    BY <1>0, <1>1, <2>1, <2>3 DEF WholeInv, Filled, PartsOK
  <2>. QED
    BY <2>1, <2>2, <2>3 DEF WholeInv, Filled
<1>5. CASE Fill
  <2>1. /\ slots' = [slots EXCEPT ![fifo.last].body = next]
        /\ reader' = "add" /\ fifo' = fifo /\ next' = next /\ Queued' = next
        /\ Queued = next /\ fifo.last \in Slots /\ fifo.num[fifo.last] = next
        /\ slots[fifo.last].head = next
    BY <1>1, <1>5 DEF Fill, Queued, WholeInv
  <2>2. slots'[fifo.last] = [head |-> next, body |-> next]
    BY <2>1 DEF PartsOK
  <2>3. ASSUME NEW i \in Slots, fifo.num[i] \in Nat,
               fifo.num[i] > next - Size, fifo.num[i] < next
        PROVE  slots'[i] = [head |-> fifo.num[i], body |-> fifo.num[i]]
    BY <1>0, <1>1, <2>1, <2>3 DEF WholeInv, Filled, PartsOK
  <2>. QED
    BY <2>1, <2>2, <2>3 DEF WholeInv, Filled
<1>6. CASE QueuePacket
  <2>1. /\ slots' = slots /\ reader' = "last" /\ fifo' = fifo /\ next' = next
        /\ Queued' = next + 1 /\ Queued = next /\ fifo.last \in Slots
        /\ Filled(fifo.last, next) /\ RingAfter(fifo, next + 1)
    BY <1>1, <1>6 DEF QueuePacket, Queued, WholeInv, RingInv, bufferVars
  <2>2. ASSUME NEW i \in Slots, fifo.num[i] \in Nat,
               fifo.num[i] > next - Size, fifo.num[i] < next + 1
        PROVE  slots[i] = [head |-> fifo.num[i], body |-> fifo.num[i]]
    <3>1. CASE fifo.num[i] = next
      <4>1. i = fifo.last
        BY <1>0, <2>1, <3>1, NewestSlot
      <4>. QED
        BY <2>1, <3>1, <4>1 DEF Filled
    <3>2. CASE fifo.num[i] # next
      <4>1. fifo.num[i] < next
        BY <1>0, <2>2, <3>2
      <4>2. Filled(i, fifo.num[i])
        BY <2>1, <2>2, <4>1 DEF WholeInv
      <4>. QED
        BY <4>2 DEF Filled
    <3>. QED
      BY <3>1, <3>2
  <2>. QED
    BY <2>1, <2>2 DEF WholeInv, Filled
<1>7. CASE SetEarliest
  <2>1. /\ slots' = slots /\ reader' = "reserve" /\ fifo' = fifo
        /\ next' = next + 1 /\ Queued' = next + 1 /\ Queued = next + 1
    BY <1>7 DEF SetEarliest, Queued, bufferVars
  <2>2. ASSUME NEW i \in Slots, fifo.num[i] \in Nat,
               fifo.num[i] > next + 1 - Size, fifo.num[i] < next + 1
        PROVE  slots[i] = [head |-> fifo.num[i], body |-> fifo.num[i]]
    BY <1>0, <2>1, <2>2 DEF WholeInv, Filled
  <2>3. ASSUME NEW i \in Slots, fifo'.num[i] \in Nat,
               fifo'.num[i] > next' - Size, fifo'.num[i] < Queued'
        PROVE  slots'[i] = [head |-> fifo'.num[i], body |-> fifo'.num[i]]
    BY <1>0, <2>1, <2>2, <2>3
  <2>. QED
    BY <2>1, <2>3 DEF WholeInv, Filled
<1>8. CASE QuietStep
  BY <1>8 DEF QuietStep, WholeInv, Filled, Queued
<1>. QED
  BY <1>2, <1>3, <1>4, <1>5, <1>6, <1>7, <1>8, BufferSteps

\* The queue holds the slots of the packets in their order.
LEMMA StepsKeepQueue ==
  ASSUME PartsOK, SendersOK, RingInv, QueueInv, [Next]_vars
  PROVE  QueueInv'
<1>0. next \in Nat /\ Size \in Nat \ {0} /\ "main" \in Senders
  BY TheSenders, SizeAssumption DEF PartsOK
<1>1. /\ fifo \in Fifos /\ fifo.num \in [Slots -> Int]
      /\ reader # "reserve" => fifo.last \in Slots
      /\ reader \notin {"reserve", "number"} => fifo.num[fifo.last] = next
  BY <1>0, LastIsSlot DEF Fifos
<1>. DEFINE s == queue["main"]  ss == queue'["main"]
<1>2. s \in Seq(Slots) /\ Queued \in Nat
  BY <1>0 DEF SendersOK, Queued
<1>3. /\ Len(s) \in Nat /\ Len(s) <= Queued
      /\ \A i \in 1 .. Len(s) :
           /\ s[i] \in Slots
           /\ Queued - Len(s) + i - 1 > next - Size
                => fifo.num[s[i]] = Queued - Len(s) + i - 1
  <2>1. Len(s) \in Nat /\ \A i \in 1 .. Len(s) : s[i] \in Slots
    BY <1>2
  <2>. QED
    BY <2>1 DEF QueueInv
<1>4. ASSUME ss = s, Queued' = Queued, next' >= next, next' \in Nat,
             fifo'.num = fifo.num
      PROVE  QueueInv'
  <2>. HIDE DEF s, ss
  <2>1. Len(ss) <= Queued'
    BY <1>3, <1>4
  <2>2. ASSUME NEW i \in 1 .. Len(ss), Queued' - Len(ss) + i - 1 > next' - Size
        PROVE  fifo'.num[ss[i]] = Queued' - Len(ss) + i - 1
    BY <1>0, <1>2, <1>3, <1>4, <2>2
  <2>. QED
    BY <2>1, <2>2 DEF QueueInv, s, ss
<1>5. CASE MoveMarks
  <2>1. fifo'.num = fifo.num
    BY <1>0, <1>1, <1>5, InsertMovesMarks DEF MoveMarks
  <2>. QED
    BY <1>0, <1>4, <1>5, <2>1 DEF MoveMarks, Queued, msgSenderVars
<1>6. CASE SetNumber
  <2>1. fifo'.num = [fifo.num EXCEPT ![fifo.last] = next] /\ fifo.last \in Slots
        /\ fifo.num[fifo.last] \in {-1, next - Size}
    BY <1>1, <1>6 DEF SetNumber, Fifos, RingInv
  <2>2. /\ ss = s /\ next' = next /\ Queued' = Queued
    BY <1>6 DEF SetNumber, Queued, msgSenderVars
  <2>3. ASSUME NEW i \in 1 .. Len(s), Queued - Len(s) + i - 1 > next - Size
        PROVE  fifo'.num[s[i]] = Queued - Len(s) + i - 1
    <3>1. fifo.num[s[i]] = Queued - Len(s) + i - 1 /\ s[i] \in Slots
      BY <1>3, <2>3
    <3>2. s[i] # fifo.last
      <4>. DEFINE n == Queued - Len(s) + i - 1
      <4>1. n \in Nat
        BY <1>2, <1>3
      <4>2. fifo.num[s[i]] = n /\ n > next - Size
        BY <2>3, <3>1
      <4>. HIDE DEF n
      <4>. QED
        BY <1>0, <2>1, <4>1, <4>2
    <3>. QED
      BY <1>1, <2>1, <3>1, <3>2
  <2>. QED
    BY <1>3, <2>2, <2>3 DEF QueueInv
<1>7. CASE WriteHeader \/ Fill
  BY <1>0, <1>4, <1>7 DEF WriteHeader, Fill, Queued, msgSenderVars
<1>8. CASE QueuePacket
  <2>1. /\ fifo' = fifo /\ next' = next /\ Queued' = next + 1 /\ Queued = next
        /\ AddMsg("main", fifo.last) /\ fifo.last \in Slots
        /\ fifo.num[fifo.last] = next
    BY <1>1, <1>8 DEF QueuePacket, Queued, bufferVars
  <2>2. ss = Append(s, fifo.last)
    BY <1>0, <2>1, AddKeepsSenders
  <2>. HIDE DEF s, ss
  <2>3. Len(ss) = Len(s) + 1 /\ \A i \in 1 .. Len(s) : ss[i] = s[i]
    BY <1>2, <2>1, <2>2
  <2>4. ss[Len(s) + 1] = fifo.last
    BY <1>2, <2>1, <2>2
  <2>5. ASSUME NEW i \in 1 .. Len(ss), Queued' - Len(ss) + i - 1 > next - Size
        PROVE  fifo.num[ss[i]] = Queued' - Len(ss) + i - 1
    BY <1>0, <1>3, <2>1, <2>3, <2>4, <2>5
  <2>6. Len(ss) <= Queued'
    BY <1>0, <1>3, <2>1, <2>3
  <2>. QED
    BY <2>1, <2>5, <2>6 DEF QueueInv, s, ss
<1>9. CASE SetEarliest
  BY <1>0, <1>4, <1>9 DEF SetEarliest, Queued, msgSenderVars, bufferVars
<1>10. CASE QuietStep
  <2>1. fifo' = fifo /\ next' = next /\ Queued' = Queued
    BY <1>10 DEF QuietStep, Queued
  <2>2. CASE ss = s
    BY <1>0, <1>4, <2>1, <2>2
  <2>3. CASE s # <<>> /\ ss = Tail(s)
    <3>. HIDE DEF s, ss
    <3>1. /\ Len(ss) = Len(s) - 1 /\ Len(s) > 0
          /\ \A i \in 1 .. Len(ss) : ss[i] = s[i + 1]
      BY <1>2, <2>3
    <3>2. ASSUME NEW i \in 1 .. Len(ss), Queued - Len(ss) + i - 1 > next - Size
          PROVE  fifo.num[ss[i]] = Queued - Len(ss) + i - 1
      <4>1. /\ i + 1 \in 1 .. Len(s) /\ ss[i] = s[i + 1]
            /\ Queued - Len(ss) + i - 1 = Queued - Len(s) + (i + 1) - 1
        BY <1>2, <1>3, <3>1
      <4>. QED
        BY <1>3, <3>2, <4>1
    <3>3. Len(ss) <= Queued
      BY <1>2, <1>3, <3>1
    <3>. QED
      BY <2>1, <3>2, <3>3 DEF QueueInv, s, ss
  <2>. QED
    BY <1>10, <2>2, <2>3 DEF QuietStep
<1>. QED
  BY <1>5, <1>6, <1>7, <1>8, <1>9, <1>10, BufferSteps

-----------------------------------------------------------------------------
(* The invariant, and what it says of the queues.                          *)

\* The invariant holds at the start.
LEMMA InitKeepsSenderInv == SenderInit => SenderInv
<1>. SUFFICES ASSUME SenderInit PROVE SenderInv
  OBVIOUS
<1>0. Packets \in Nat /\ Size \in Nat \ {0} /\ "main" \in Senders
  BY TheSenders, SizeAssumption
<1>. USE DEF SenderInit
<1>1. PartsOK
  <2>1. [head |-> 0, body |-> Torn] \in
          [head : 0 .. Packets, body : {Torn} \cup (0 .. Packets)]
    BY <1>0
  <2>. QED
    BY <1>0, <2>1 DEF PartsOK
<1>2. SendersOK
  <2>1. queue = [x \in Senders |-> <<>>] /\ \A S : <<>> \in Seq(S)
    BY DEF MsgSenderInit
  <2>2. [pc |-> "testing", notified |-> FALSE, ending |-> FALSE,
         attempts |-> 0] \in OutStates
    BY MsgSenderAssumption DEF OutStates, MsgSenderAssumption
  <2>3. QueuesOK /\ queue["main"] \in Seq(Slots)
    BY <1>0, <2>1 DEF QueuesOK
  <2>4. out \in [Senders -> OutStates]
    BY <2>2 DEF MsgSenderInit
  <2>. QED
    BY <2>1, <2>3, <2>4 DEF SendersOK, OutInv, MsgSenderInit
<1>3. EndInv
  BY <1>0 DEF EndInv, MsgSenderInit
<1>4. RingInv
  BY DEF RingInv, RingBefore
<1>5. WholeInv
  BY <1>0 DEF WholeInv, EmptyFifo
<1>6. QueueInv
  BY <1>0 DEF QueueInv, MsgSenderInit, Queued
<1>. QED
  BY <1>1, <1>2, <1>3, <1>4, <1>5, <1>6 DEF SenderInv

\* Every step keeps it.
LEMMA StepsKeepSenderInv == SenderInv /\ [Next]_vars => SenderInv'
<1>. SUFFICES ASSUME SenderInv, [Next]_vars PROVE SenderInv'
  OBVIOUS
<1>1. PartsOK /\ SendersOK /\ EndInv /\ RingInv /\ WholeInv /\ QueueInv
  BY DEF SenderInv
<1>2. SendersOK' /\ EndInv'
  BY <1>1, StepsKeepSenders
<1>3. PartsOK' /\ RingInv'
  BY <1>1, StepsKeepRing
<1>4. WholeInv'
  BY <1>1, StepsKeepWhole
<1>5. QueueInv'
  BY <1>1, StepsKeepQueue
<1>. QED
  BY <1>2, <1>3, <1>4, <1>5 DEF SenderInv

\* The inductive invariant of the sender.
THEOREM SenderInvIsInvariant == Spec => []SenderInv
BY InitKeepsSenderInv, StepsKeepSenderInv, PTL DEF Spec

\* The program ends with an empty queue: main waits for the message sender,
\* which ends only when it finds its queue empty.
THEOREM AllIsSentAtTheEnd == Spec => []EndsWhenAllIsSent
<1>1. SenderInv => EndsWhenAllIsSent
  BY DEF SenderInv, EndInv, EndsWhenAllIsSent
<1>. QED
  BY <1>1, SenderInvIsInvariant, PTL

\* A message sender that sleeps while it has a message, or while main waits
\* for its end, was notified: no notify of add_msg() and of
\* end_when_all_msgs_sent() comes to nothing.
THEOREM WakeupsAreNotLost == Spec => []NoWakeupIsLost
<1>1. ASSUME SenderInv PROVE NoWakeupIsLost
  <2>1. ASSUME NEW x \in Senders, out[x].pc = "waiting",
               queue[x] # <<>> \/ (x = "main" /\ reader = "join")
        PROVE  MayWake(x)
    <3>1. OutInv(x) /\ EndInv
      BY <1>1 DEF SenderInv, SendersOK
    <3>. QED
      BY <2>1, <3>1 DEF OutInv, EndInv, MayWake
  <2>. QED
    BY <2>1 DEF NoWakeupIsLost
<1>. QED
  BY <1>1, SenderInvIsInvariant, PTL

\* A queued packet that the buffer keeps is whole in its slot, with the number
\* of its place in the queue.
THEOREM QueueIsWhole == Spec => []QueuedIsWholeWhileKept
<1>1. ASSUME SenderInv PROVE QueuedIsWholeWhileKept
  <2>. DEFINE s == queue["main"]
  <2>1. s \in Seq(Slots) /\ next \in Nat /\ Queued \in Nat
    BY <1>1, TheSenders DEF SenderInv, SendersOK, PartsOK, Queued
  <2>2. Len(s) <= Queued /\ Len(s) \in Nat
    BY <1>1, <2>1 DEF SenderInv, QueueInv
  <2>3. ASSUME NEW i \in 1 .. Len(s), Queued - Len(s) + i - 1 > next - Size
        PROVE  slots[s[i]] = [head |-> Queued - Len(s) + i - 1,
                              body |-> Queued - Len(s) + i - 1]
    <3>1. fifo.num[s[i]] = Queued - Len(s) + i - 1 /\ s[i] \in Slots
      BY <1>1, <2>1, <2>3 DEF SenderInv, QueueInv
    <3>2. /\ Queued - Len(s) + i - 1 \in Nat
          /\ Queued - Len(s) + i - 1 < Queued
      <4>. DEFINE l == Len(s)
      <4>1. l \in Nat /\ l <= Queued /\ i \in 1 .. l
        BY <2>2
      <4>. HIDE DEF l
      <4>2. Queued - l + i - 1 \in Nat /\ Queued - l + i - 1 < Queued
        BY <2>1, <4>1
      <4>. QED
        BY <4>2 DEF l
    <3>. QED
      BY <1>1, <2>3, <3>1, <3>2 DEF SenderInv, WholeInv, Filled
  <2>. QED
    BY <2>3 DEF QueuedIsWholeWhileKept
<1>. QED
  BY <1>1, SenderInvIsInvariant, PTL

-----------------------------------------------------------------------------
(* The way of a request, when the memory of the two atomics held zero.     *)

\* The bounds that the other threads compare with, and what those threads have.
LEMMA StepsKeepBounds ==
  ASSUME PartsOK, BoundsInv, BatchInv, SendersOK, [Next]_vars
  PROVE  BoundsInv' /\ BatchInv'
<1>0. next \in Nat /\ Size \in Nat \ {0}
  BY TheSenders, SizeAssumption DEF PartsOK
<1>1. CASE SetLast
  BY <1>0, <1>1 DEF SetLast, BoundsInv, BatchInv, controlVars
<1>2. CASE SetEarliest
  BY <1>0, <1>2 DEF SetEarliest, EarliestAfter, BoundsInv, BatchInv, controlVars
<1>3. CASE \/ MoveMarks \/ SetNumber \/ WriteHeader \/ QueuePacket
           \/ TellSenderToEnd \/ NotifyOfEnd \/ JoinSender \/ Fill \/ Eof
  BY <1>3 DEF MoveMarks, SetNumber, WriteHeader, QueuePacket, TellSenderToEnd,
     NotifyOfEnd, JoinSender, Fill, Eof, BoundsInv, BatchInv, controlVars
<1>4. CASE \/ \E lacking \in SUBSET (0 .. heard - 1) \ {{}} : Receive(lacking)
           \/ ControlStep
  <2>1. BoundsInv'
    BY <1>4 DEF Receive, ControlStep, Check, InsertNums, BoundsInv, readerVars
  <2>2. rexmiter' = rexmiter
    BY <1>4 DEF Receive, ControlStep, Check, InsertNums
  <2>3. control' = [pc |-> control'.pc, asked |-> control'.asked,
                    uneven |-> control'.uneven, accepted |-> control'.accepted]
    <3>1. CASE \E lacking \in SUBSET (0 .. heard - 1) \ {{}} : Receive(lacking)
      BY <3>1 DEF Receive
    <3>2. CASE Check
      BY <3>2 DEF Check, BatchInv
    <3>3. CASE InsertNums
      BY <3>3 DEF InsertNums, BatchInv
    <3>. QED
      BY <1>4, <3>1, <3>2, <3>3 DEF ControlStep
  <2>. QED
    BY <2>1, <2>2, <2>3 DEF BatchInv
<1>5. CASE RexmiterStep
  <2>1. BoundsInv' /\ control' = control
    BY <1>5 DEF RexmiterStep, AlarmRings, TakeNums, PickNum, LookUp, QueueRexmit,
       BoundsInv, readerVars, controlVars
  <2>2. /\ rexmiter' = [pc |-> rexmiter'.pc, batch |-> rexmiter'.batch,
                        num |-> rexmiter'.num, idx |-> rexmiter'.idx]
        /\ rexmiter'.pc \in {"count", "take"} => rexmiter'.batch = {}
    BY <1>5 DEF RexmiterStep, AlarmRings, TakeNums, PickNum, LookUp, QueueRexmit,
       BatchInv
  <2>. QED
    BY <2>1, <2>2 DEF BatchInv
<1>6. CASE \E x \in Senders : SenderStep(x)
  BY <1>6 DEF SenderStep, SendFront, SenderKeepsOn, Unsent, BoundsInv, BatchInv,
     readerVars, controlVars
<1>7. CASE UNCHANGED vars
  BY <1>7 DEF vars, BoundsInv, BatchInv, readerVars, controlVars
<1>. QED
  BY <1>1, <1>2, <1>3, <1>4, <1>5, <1>6, <1>7 DEF Next, ReaderStep

\* The bounds hold once the atomics start with zero.
THEOREM BoundsHold ==
  ASSUME Uninitialised = {0} PROVE Spec => [](BoundsInv /\ BatchInv)
<1>1. SenderInit => BoundsInv /\ BatchInv
  BY DEF SenderInit, BoundsInv, BatchInv
<1>2. SenderInv /\ BoundsInv /\ BatchInv /\ [Next]_vars => BoundsInv' /\ BatchInv'
  BY StepsKeepBounds DEF SenderInv
<1>. QED
  BY <1>1, <1>2, SenderInvIsInvariant, PTL DEF Spec

\* A number in the window passes both comparisons.
LEMMA KeptIsInWindow ==
  ASSUME PartsOK, BoundsInv, NEW n \in Nat, Kept(n)
  PROVE  earliest <= n /\ n <= last
BY TheSenders, SizeAssumption DEF PartsOK, BoundsInv, Kept

\* From the request to the look into the buffer, no number of a kept packet is
\* lost: it goes from the list to the set, from the set to the batch, and from
\* the batch to the look, whatever the other threads do meanwhile.
THEOREM RequestsAreNotLost ==
  ASSUME Uninitialised = {0} PROVE Spec => RequestIsNotLost
<1>1. ASSUME SenderInv, BoundsInv, BatchInv, [Next]_vars, NEW n \in 0 .. Packets,
             Pending(n), Kept(n), ~LooksUp(n)
      PROVE  Pending(n)'
  <2>1. earliest <= n /\ n <= last
    BY <1>1, TheSenders, KeptIsInWindow DEF SenderInv
  <2>2. CASE RexmiterStep
    <3>1. UNCHANGED control
      BY <2>2 DEF RexmiterStep, AlarmRings, TakeNums, PickNum, LookUp,
         QueueRexmit, controlVars
    <3>2. CASE n \in nums_to_rexmit \/ n \in rexmiter.batch
               \/ (rexmiter.pc = "lookup" /\ rexmiter.num = n)
      <4>1. CASE TakeNums
        <5>1. rexmiter'.batch = NotTooOld /\ rexmiter.batch = {}
          BY <1>1, <4>1 DEF TakeNums, BatchInv
        <5>. QED
          BY <2>1, <3>2, <4>1, <5>1 DEF TakeNums, Pending, NotTooOld
      <4>2. CASE PickNum
        <5>1. CASE n \in nums_to_rexmit
          BY <4>2, <5>1 DEF PickNum, Pending
        <5>2. CASE n \in rexmiter.batch /\ n = Min(rexmiter.batch)
          <6>1. rexmiter'.pc = "lookup" /\ rexmiter'.num = n
            BY <1>1, <2>1, <4>2, <5>2 DEF PickNum, BatchInv
          <6>. QED
            BY <6>1 DEF Pending
        <5>3. CASE n \in rexmiter.batch /\ n # Min(rexmiter.batch)
          <6>1. n \in rexmiter'.batch
            BY <1>1, <4>2, <5>3 DEF PickNum, BatchInv
          <6>. QED
            BY <6>1 DEF Pending
        <5>. QED
          BY <3>2, <4>2, <5>1, <5>2, <5>3 DEF PickNum
      <4>3. CASE AlarmRings \/ QueueRexmit
        BY <1>1, <3>2, <4>3 DEF AlarmRings, QueueRexmit, Pending, BatchInv
      <4>4. CASE LookUp
        BY <1>1, <3>2, <4>4 DEF LookUp, Pending, LooksUp, BatchInv
      <4>. QED
        BY <2>2, <4>1, <4>2, <4>3, <4>4 DEF RexmiterStep
    <3>. QED
      BY <1>1, <3>1, <3>2 DEF Pending
  <2>3. CASE Check
    BY <1>1, <2>1, <2>3 DEF Check, Pending, UnevenInWindow, InWindow, BatchInv
  <2>4. CASE InsertNums
    BY <1>1, <2>4 DEF InsertNums, Pending, NumsAfter, BatchInv
  <2>5. CASE \E lacking \in SUBSET (0 .. heard - 1) \ {{}} : Receive(lacking)
    BY <1>1, <2>5 DEF Receive, Pending
  <2>6. CASE ReaderStep \/ Fill \/ Eof \/ UNCHANGED vars
    BY <1>1, <2>6 DEF ReaderStep, MoveMarks, SetNumber, WriteHeader, QueuePacket,
       SetLast, SetEarliest, TellSenderToEnd, NotifyOfEnd, JoinSender, Fill, Eof,
       Pending, controlVars, vars
  <2>7. CASE \E x \in Senders : SenderStep(x)
    BY <1>1, <2>7 DEF SenderStep, SendFront, SenderKeepsOn, Unsent, Pending,
       controlVars
  <2>. QED
    BY <1>1, <2>2, <2>3, <2>4, <2>5, <2>6, <2>7 DEF Next, ControlStep
<1>2. SenderInv /\ BoundsInv /\ BatchInv /\ [Next]_vars
        => [\A n \in 0 .. Packets :
              Pending(n) /\ Kept(n) => Pending(n)' \/ LooksUp(n)]_vars
  BY <1>1
<1>. QED
  BY <1>2, SenderInvIsInvariant, BoundsHold, PTL DEF Spec, RequestIsNotLost

-----------------------------------------------------------------------------
(* The numbers of the packets, when a list that is cut short, or not, tells *)
(* of no later byte than it was written for.                                *)

\* A set of numbers has a least one.
LEMMA LeastOf ==
  ASSUME NEW S \in SUBSET Nat, S # {} PROVE \E x \in S : \A y \in S : x <= y
<1>1. \A x, y \in Nat : y < x => <<y, x>> \in OpToRel(<, Nat)
  <2>. TAKE x, y \in Nat
  <2>. HAVE y < x
  <2>. DEFINE p == <<y, x>>
  <2>1. p \in Nat \X Nat /\ p[1] < p[2]
    OBVIOUS
  <2>. HIDE DEF p
  <2>2. p \in OpToRel(<, Nat)
    BY <2>1 DEF OpToRel
  <2>. QED
    BY <2>2 DEF p
<1>2. \E x \in S : \A y \in S : ~(<<y, x>> \in OpToRel(<, Nat))
  BY NatLessThanWellFounded, WFMin
<1>3. PICK x \in S : \A y \in S : ~(<<y, x>> \in OpToRel(<, Nat))
  BY <1>2
<1>4. ASSUME NEW y \in S PROVE x <= y
  <2>1. x \in Nat /\ y \in Nat /\ ~(y < x)
    BY <1>1, <1>3
  <2>. QED
    BY <2>1
<1>. QED
  BY <1>4

\* The smallest number of a set is in it.
LEMMA SmallestIsIn ==
  ASSUME NEW S \in SUBSET Nat, S # {} PROVE Min(S) \in S
BY LeastOf DEF Min

\* The largest number of a bounded set is in it.
LEMMA LargestIsIn ==
  ASSUME NEW k \in Nat, NEW S \in SUBSET (0 .. k), S # {} PROVE Max(S) \in S
<1>. DEFINE T == {n \in Nat : \E x \in S : n = k - x}
<1>1. T \in SUBSET Nat /\ T # {}
  <2>1. PICK x \in S : TRUE
    OBVIOUS
  <2>2. k - x \in T
    OBVIOUS
  <2>. QED
    BY <2>2
<1>2. PICK t \in T : \A u \in T : t <= u
  BY <1>1, LeastOf
<1>3. PICK x \in S : t = k - x
  OBVIOUS
<1>4. ASSUME NEW y \in S PROVE x >= y
  <2>1. k - y \in T
    OBVIOUS
  <2>2. t <= k - y
    BY <1>2, <2>1
  <2>. QED
    BY <1>3, <2>2
<1>. QED
  BY <1>4 DEF Max

\* Packets and bytes.
LEMMA DivisionBelow ==
  ASSUME NEW b \in Nat, NEW n \in Nat, NEW p \in Nat \ {0}, b <= n * p
  PROVE  b \div p \in Nat /\ b \div p <= n
<1>1. /\ b = p * (b \div p) + (b % p)
      /\ b % p \in 0 .. p - 1 /\ b \div p \in Nat
  OBVIOUS
<1>2. ASSUME b \div p >= n + 1 PROVE FALSE
  <2>. DEFINE d == b \div p  r == b % p
  <2>1. d \in Nat /\ d >= n + 1 /\ b = p * d + r /\ r >= 0
    BY <1>1, <1>2
  <2>. HIDE DEF d, r
  <2>2. p * d >= p * (n + 1)
    BY <2>1
  <2>3. p * (n + 1) = n * p + p
    OBVIOUS
  <2>. QED
    <3>. DEFINE x == n * p  y == p * d  z == p * (n + 1)
    <3>1. x \in Nat /\ y \in Nat /\ z \in Nat /\ r \in Nat
      BY <1>1, <2>1 DEF r
    <3>2. y >= z /\ z = x + p /\ b = y + r /\ b <= x
      BY <2>1, <2>2, <2>3
    <3>. HIDE DEF x, y, z
    <3>. QED
      BY <3>1, <3>2
<1>. QED
  BY <1>1, <1>2

\* Of two numbers of packets the larger one has no fewer bytes.
LEMMA ProductsBelow ==
  ASSUME NEW m \in Nat, NEW n \in Nat, NEW p \in Nat, m <= n
  PROVE  m * p <= n * p /\ m * p \in Nat
OBVIOUS

\* What is received is of packets below the largest one that was heard.
LEMMA RequestIsOfHeard ==
  ASSUME ReadsNoLater, heard \in {None} \cup (0 .. Packets),
         control \in Controls, requests \in 0 .. MaxRequests,
         NEW lacking \in SUBSET (0 .. heard - 1), Receive(lacking)
  PROVE  /\ control' \in Controls /\ control'.pc = "check"
         /\ \A n \in control'.asked : n < heard
         /\ requests' \in 0 .. MaxRequests
<1>0. Packets \in Nat /\ psize \in Nat \ {0} /\ MaxRequests \in Nat
  BY SenderAssumption, RequestsAssumption DEF SenderAssumption,
     RequestsAssumption
<1>. DEFINE read == Asks[lacking]
            unevens == {b \in read : b % psize # 0}
            packets == {b \div psize : b \in read \ unevens}
<1>1. lacking \in SUBSET (0 .. Packets) /\ heard - 1 \in Int
  BY <1>0 DEF None
<1>2. ASSUME NEW b \in read
      PROVE  b \in Nat /\ b \div psize \in 0 .. Packets /\ b \div psize < heard
  <2>1. PICK n \in lacking : b \in Nat /\ b <= n * psize
    BY <1>1 DEF ReadsNoLater
  <2>2. n \in Nat /\ n < heard /\ n <= Packets
    BY <1>0, <1>1, <2>1 DEF None
  <2>3. b \div psize <= n /\ b \div psize \in Nat
    BY <1>0, <2>1, <2>2, DivisionBelow
  <2>. QED
    BY <1>0, <2>1, <2>2, <2>3 DEF None
<1>3. packets \in SUBSET (0 .. Packets) /\ \A n \in packets : n < heard
  BY <1>2
<1>4. ASSUME unevens # {} PROVE Max(unevens) \div psize \in 0 .. Packets
  <2>1. PICK n \in lacking : TRUE
    BY <1>1, <1>4 DEF ReadsNoLater
  <2>2. unevens \in SUBSET (0 .. Packets * psize)
    <3>1. ASSUME NEW b \in read PROVE b \in 0 .. Packets * psize
      <4>1. PICK m \in lacking : b \in Nat /\ b <= m * psize
        BY <1>1 DEF ReadsNoLater
      <4>2. m * psize <= Packets * psize /\ m * psize \in Nat
        BY <1>0, <1>1, <4>1, ProductsBelow
      <4>. QED
        BY <1>0, <4>1, <4>2
    <3>. QED
      BY <3>1
  <2>3. Max(unevens) \in unevens
    <3>1. Packets * psize \in Nat
      BY <1>0
    <3>. HIDE DEF unevens
    <3>. QED
      BY <1>4, <2>2, <3>1, LargestIsIn
  <2>. QED
    BY <1>2, <2>3
<1>5. control' = [pc |-> "check", accepted |-> {}, asked |-> packets,
                  uneven |-> IF unevens = {} THEN None
                             ELSE Max(unevens) \div psize]
  BY DEF Receive
<1>6. requests' \in 0 .. MaxRequests
  BY <1>0 DEF Receive
<1>. HIDE DEF read, unevens, packets
<1>. QED
  BY <1>3, <1>4, <1>5, <1>6 DEF Controls

\* Every number stays below what was begun.
LEMMA StepsKeepNums ==
  ASSUME ReadsNoLater, PartsOK, SendersOK, RingInv, NumsInv, [Next]_vars
  PROVE  NumsInv'
<1>0. /\ next \in 0 .. Packets /\ Packets \in Nat /\ None = -1 /\ Torn = -1
      /\ "main" \in Senders /\ "rexmit" \in Senders
  BY TheSenders DEF PartsOK, None, Torn
<1>1. /\ fifo \in Fifos
      /\ reader # "reserve" => fifo.last \in Slots
  BY <1>0, LastIsSlot
<1>. USE DEF NumsInv
<1>2. CASE ReaderStep \/ Fill \/ Eof
  <2>1. /\ UNCHANGED <<nums_to_rexmit, controlVars, rexmiter, heard>>
        /\ next' >= next /\ next' \in 0 .. Packets
    BY <1>0, <1>2 DEF ReaderStep, MoveMarks, SetNumber, WriteHeader, QueuePacket,
       SetLast, SetEarliest, TellSenderToEnd, NotifyOfEnd, JoinSender, Fill, Eof,
       PartsOK
  <2>2. queue'["rexmit"] = queue["rexmit"]
    <3>1. CASE QueuePacket
      <4>1. AddMsg("main", fifo.last) /\ fifo.last \in Slots
        BY <1>1, <3>1 DEF QueuePacket
      <4>. QED
        BY <1>0, <4>1, AddKeepsSenders
    <3>2. CASE queue' = queue
      BY <3>2
    <3>. QED
      BY <1>2, <3>1, <3>2 DEF ReaderStep, MoveMarks, SetNumber, WriteHeader,
         SetLast, SetEarliest, TellSenderToEnd, NotifyOfEnd, JoinSender, Fill,
         Eof, SetEnding, NotifySender, msgSenderVars
  <2>3. \A i \in Slots : slots'[i].head <= next'
    <3>1. CASE WriteHeader
      BY <1>0, <1>1, <3>1 DEF WriteHeader, PartsOK
    <3>2. CASE Fill
      <4>1. slots' = [slots EXCEPT ![fifo.last].body = next] /\ next' = next
        BY <3>2 DEF Fill
      <4>2. \A i \in Slots : slots'[i].head = slots[i].head
        BY <4>1 DEF PartsOK
      <4>. QED
        BY <4>1, <4>2
    <3>3. CASE slots' = slots
      <4>1. \A i \in Slots : slots[i].head \in Nat
        BY DEF PartsOK
      <4>. QED
        BY <1>0, <2>1, <3>3, <4>1
    <3>. QED
      BY <1>2, <3>1, <3>2, <3>3 DEF ReaderStep, MoveMarks, SetNumber, QueuePacket,
         SetLast, SetEarliest, TellSenderToEnd, NotifyOfEnd, JoinSender, Eof,
         bufferVars
  <2>4. {last', earliest'} \subseteq Uninitialised \cup (0 .. Packets)
    <3>1. ASSUME next > Size PROVE next - Size \in 0 .. Packets
      BY <1>0, <3>1, SizeAssumption
    <3>2. last' \in {last, next}
      BY <1>2 DEF ReaderStep, MoveMarks, SetNumber, WriteHeader, QueuePacket,
         SetLast, SetEarliest, TellSenderToEnd, NotifyOfEnd, JoinSender, Fill, Eof
    <3>3. earliest' \in {earliest, EarliestAfter}
      BY <1>2 DEF ReaderStep, MoveMarks, SetNumber, WriteHeader, QueuePacket,
         SetLast, SetEarliest, TellSenderToEnd, NotifyOfEnd, JoinSender, Fill, Eof
    <3>. QED
      BY <1>0, <3>1, <3>2, <3>3 DEF EarliestAfter
  <2>5. control'.pc = "check" => \A n \in control'.asked : n < next'
    <3>1. control' = control /\ \A n \in control.asked : n \in Nat
      BY <2>1 DEF controlVars, Controls
    <3>. QED
      BY <1>0, <2>1, <3>1
  <2>. QED
    BY <1>0, <2>1, <2>2, <2>3, <2>4, <2>5 DEF controlVars
<1>3. ASSUME NEW lacking \in SUBSET (0 .. heard - 1), Receive(lacking)
      PROVE  NumsInv'
  <2>1. /\ control' \in Controls /\ control'.pc = "check"
        /\ \A n \in control'.asked : n < heard
        /\ requests' \in 0 .. MaxRequests
    BY <1>3, RequestIsOfHeard
  <2>2. UNCHANGED <<bufferVars, readerVars, nums_to_rexmit, rexmiter, heard,
                    msgSenderVars>>
    BY <1>3 DEF Receive
  <2>3. \A n \in control'.asked : n < next
    <3>1. ASSUME NEW n \in control'.asked PROVE n < next
      <4>1. n \in Nat /\ n < heard
        BY <2>1, <3>1 DEF Controls
      <4>. QED
        BY <1>0, <4>1
    <3>. QED
      BY <3>1
  <2>. QED
    BY <2>1, <2>2, <2>3 DEF bufferVars, readerVars, msgSenderVars
<1>4. CASE Check
  <2>1. {n \in control.asked : InWindow(n)} \in SUBSET (0 .. Packets)
    BY DEF Controls
  <2>2. control' \in Controls /\ control'.pc # "check"
    BY <1>4, <2>1 DEF Check, Controls
  <2>. QED
    BY <1>4, <2>2 DEF Check, bufferVars, readerVars, msgSenderVars
<1>5. CASE InsertNums
  <2>1. control' \in Controls /\ control'.pc # "check"
    BY <1>5 DEF InsertNums, Controls
  <2>2. nums_to_rexmit' \subseteq 0 .. Packets
    BY <1>5 DEF InsertNums, NumsAfter, Controls
  <2>. QED
    BY <1>5, <2>1, <2>2 DEF InsertNums, bufferVars, readerVars, msgSenderVars
<1>6. CASE RexmiterStep
  <2>1. UNCHANGED <<bufferVars, readerVars, controlVars, heard>>
    BY <1>6 DEF RexmiterStep, AlarmRings, TakeNums, PickNum, LookUp, QueueRexmit
  <2>2. nums_to_rexmit' \subseteq 0 .. Packets
    BY <1>6 DEF RexmiterStep, AlarmRings, TakeNums, PickNum, LookUp, QueueRexmit
  <2>3. /\ rexmiter' \in Rexmiters
        /\ rexmiter'.pc = "lookup" => rexmiter'.num # None
    <3>1. CASE AlarmRings \/ QueueRexmit
      BY <3>1 DEF AlarmRings, QueueRexmit, Rexmiters
    <3>2. CASE TakeNums
      <4>1. NotTooOld \in SUBSET (0 .. Packets)
        BY DEF NotTooOld
      <4>. QED
        BY <3>2, <4>1 DEF TakeNums, Rexmiters
    <3>3. CASE PickNum
      <4>1. rexmiter.batch \in SUBSET (0 .. Packets)
        BY DEF Rexmiters
      <4>2. ASSUME rexmiter.batch # {} PROVE Min(rexmiter.batch) \in 0 .. Packets
        BY <1>0, <4>1, <4>2, SmallestIsIn
      <4>3. CASE rexmiter.batch = {}
        BY <3>3, <4>3 DEF PickNum, Rexmiters
      <4>4. CASE rexmiter.batch # {}
        <5>. DEFINE m == Min(rexmiter.batch)
        <5>1. m \in 0 .. Packets /\ m # None
          BY <1>0, <4>2, <4>4
        <5>2. rexmiter' = [rexmiter EXCEPT !.batch = @ \ {m}, !.num = m,
                             !.pc = IF m >= earliest THEN "lookup" ELSE "pick"]
          BY <3>3, <4>4 DEF PickNum
        <5>. HIDE DEF m
        <5>. QED
          BY <5>1, <5>2 DEF Rexmiters
      <4>. QED
        BY <4>3, <4>4
    <3>4. CASE LookUp
      <4>1. Get(fifo, rexmiter.num) \in {-1} \cup Slots
        <5>1. rexmiter.num \in Int
          BY <1>0 DEF Rexmiters
        <5>. QED
          BY <1>1, <5>1, IdxIsSlot DEF Get
      <4>. QED
        BY <3>4, <4>1 DEF LookUp, Rexmiters
    <3>. QED
      BY <1>6, <3>1, <3>2, <3>3, <3>4 DEF RexmiterStep
  <2>4. queue'["rexmit"] \in Seq(Slots)
    <3>1. CASE /\ rexmiter.idx # -1
               /\ AddMsg("rexmit", rexmiter.idx)
      <4>1. queue'["rexmit"] = Append(queue["rexmit"], rexmiter.idx)
        BY <1>0, <3>1, AddKeepsSenders
      <4>2. rexmiter.idx \in Slots
        BY <3>1 DEF Rexmiters
      <4>. DEFINE s == queue["rexmit"]
      <4>3. s \in Seq(Slots)
        OBVIOUS
      <4>. HIDE DEF s
      <4>4. Append(s, rexmiter.idx) \in Seq(Slots)
        BY <4>2, <4>3
      <4>. QED
        BY <4>1, <4>4 DEF s
    <3>2. CASE UNCHANGED msgSenderVars
      BY <3>2 DEF msgSenderVars
    <3>. QED
      BY <1>6, <3>1, <3>2 DEF RexmiterStep, AlarmRings, TakeNums, PickNum, LookUp,
         QueueRexmit
  <2>. QED
    BY <2>1, <2>2, <2>3, <2>4 DEF bufferVars, readerVars, controlVars
<1>7. ASSUME NEW x \in Senders, SenderStep(x) PROVE NumsInv'
  <2>1. UNCHANGED Unsent
    BY <1>7 DEF SenderStep, SendFront, SenderKeepsOn
  <2>2. /\ \/ TestEnd(x) \/ Wake(x) \/ Drained(x) \/ TakeFront(x)
           \/ Fails(x) \/ Pop(x) \/ Sends(x)
        /\ \/ heard' = heard
           \/ /\ out[x].pc = "sending"
              /\ heard' = Larger(heard, slots[Head(queue[x])].head)
    BY <1>7 DEF SenderStep, SendFront, SenderKeepsOn, Sends
  <2>3. /\ queue'[x] = queue[x]
             \/ (queue[x] # <<>> /\ queue'[x] = Tail(queue[x])
                 /\ out'[x].pc = "draining")
        /\ \A y \in Senders \ {x} : queue'[y] = queue[y] /\ out'[y] = out[y]
    BY <2>2, GoingOnKeepsSenders, Zenon
  <2>4. queue[x] \in Seq(Slots)
    BY TheSenders DEF SendersOK
  <2>5. heard' \in {None} \cup (0 .. Packets) /\ heard' <= next
    <3>1. CASE /\ out[x].pc = "sending"
               /\ heard' = Larger(heard, slots[Head(queue[x])].head)
      <4>1. queue[x] # <<>>
        BY <3>1 DEF SendersOK, OutInv
      <4>. DEFINE s == queue[x]
      <4>2. s \in Seq(Slots) /\ s # <<>>
        BY <2>4, <4>1
      <4>. HIDE DEF s
      <4>3. Head(s) \in Slots
        BY <4>2
      <4>4. slots[Head(s)].head \in 0 .. Packets /\ slots[Head(s)].head <= next
        BY <4>3 DEF PartsOK
      <4>. QED
        BY <3>1, <4>4 DEF Larger, s
    <3>. QED
      BY <2>2, <3>1
  <2>6. queue'["rexmit"] \in Seq(Slots)
    <3>1. CASE x = "rexmit"
      <4>. DEFINE s == queue[x]
      <4>1. s \in Seq(Slots)
        BY <2>4
      <4>. HIDE DEF s
      <4>2. s # <<>> => Tail(s) \in Seq(Slots)
        BY <4>1
      <4>. QED
        BY <2>3, <3>1, <4>1, <4>2 DEF s
    <3>2. CASE x # "rexmit"
      BY <1>0, <2>3, <3>2
    <3>. QED
      BY <3>1, <3>2
  <2>. QED
    BY <2>1, <2>5, <2>6 DEF Unsent, bufferVars, readerVars, controlVars
<1>8. CASE UNCHANGED vars
  BY <1>8 DEF vars, bufferVars, readerVars, controlVars, msgSenderVars
<1>. QED
  BY <1>2, <1>3, <1>4, <1>5, <1>6, <1>7, <1>8 DEF Next, ControlStep

\* That every number stays below what was begun.
LEMMA NumsHold == ASSUME ReadsNoLater PROVE Spec => []NumsInv
<1>1. SenderInit => NumsInv
  BY SenderAssumption DEF SenderInit, NumsInv, SenderAssumption, MsgSenderInit,
     Controls, Rexmiters, None
<1>2. SenderInv /\ NumsInv /\ [Next]_vars => NumsInv'
  BY StepsKeepNums DEF SenderInv
<1>. QED
  BY <1>1, <1>2, SenderInvIsInvariant, PTL DEF Spec

\* The types hold: no packet number is larger than what was begun, and every
\* index is that of a slot.
THEOREM SenderIsTyped == ASSUME ReadsNoLater PROVE Spec => []SenderTypeOK
<1>1. ASSUME SenderInv, NumsInv PROVE SenderTypeOK
  <2>1. fifo \in Fifos
    BY <1>1, TheSenders, LastIsSlot DEF SenderInv, PartsOK
  <2>2. queue \in [Senders -> Seq(Messages)]
    <3>1. PICK S : queue \in [Senders -> Seq(S)]
      BY <1>1 DEF SenderInv, SendersOK, QueuesOK
    <3>2. \A x \in Senders : queue[x] \in Seq(Slots)
      BY <1>1, TheSenders DEF SenderInv, SendersOK, NumsInv
    <3>. QED
      BY <3>1, <3>2, SenderAssumption DEF SenderAssumption
  <2>3. MsgSenderTypeOK
    BY <1>1, <2>2 DEF SenderInv, SendersOK, OutStates, MsgSenderTypeOK
  <2>. QED
    BY <1>1, <2>1, <2>3 DEF SenderInv, PartsOK, NumsInv, Controls, Rexmiters,
       SenderTypeOK
<1>. QED
  BY <1>1, NumsHold, SenderInvIsInvariant, PTL

\* A number that is asked for and is kept passes the comparisons with the two
\* atomics, though they trail behind: by the time that it is compared, last is
\* that of a packet that was heard, and earliest not above the window.
THEOREM KeptIsAccepted ==
  ASSUME ReadsNoLater, Uninitialised = {0} PROVE Spec => []InWindowIsAccepted
<1>0. Packets \in Nat /\ Size \in Nat \ {0}
  BY TheSenders, SizeAssumption
<1>1. SenderInit => AcceptedInv
  BY DEF SenderInit, AcceptedInv
<1>2. ASSUME SenderInv, BoundsInv, NumsInv, AcceptedInv, [Next]_vars
      PROVE  AcceptedInv'
  <2>1. next \in Nat /\ next' \in Nat /\ next' >= next
    BY <1>0, <1>2, BufferSteps DEF SenderInv, PartsOK, MoveMarks, SetNumber,
       WriteHeader, Fill, QueuePacket, SetEarliest, QuietStep
  <2>2. CASE Check
    <3>1. next' = next /\ control \in Controls
      BY <1>2, <2>2 DEF Check, readerVars, NumsInv
    <3>2. ASSUME NEW n \in control.asked, n > next - Size PROVE InWindow(n)
      <4>1. n \in Nat /\ n < next
        BY <1>2, <2>2, <3>1, <3>2 DEF NumsInv, Check, Controls
      <4>2. Kept(n)
        BY <3>2, <4>1 DEF Kept
      <4>. QED
        BY <1>2, <4>1, <4>2, KeptIsInWindow DEF SenderInv, InWindow
    <3>. QED
      BY <2>2, <3>1, <3>2 DEF Check, AcceptedInv, Controls
  <2>3. CASE control' = control
    <3>1. \A n \in control.asked : n \in Nat
      BY <1>2 DEF NumsInv, Controls
    <3>. QED
      BY <1>0, <1>2, <2>1, <2>3, <3>1 DEF AcceptedInv
  <2>4. CASE control'.pc # "insert"
    BY <2>4 DEF AcceptedInv
  <2>5. Check \/ control' = control \/ control'.pc # "insert"
    <3>1. CASE InsertNums
      BY <1>2, <3>1 DEF InsertNums, NumsInv, Controls
    <3>2. CASE \E lacking \in SUBSET (0 .. heard - 1) \ {{}} : Receive(lacking)
      BY <3>2 DEF Receive
    <3>3. CASE ReaderStep \/ Fill \/ Eof \/ UNCHANGED vars
      BY <3>3 DEF ReaderStep, MoveMarks, SetNumber, WriteHeader, QueuePacket,
         SetLast, SetEarliest, TellSenderToEnd, NotifyOfEnd, JoinSender, Fill,
         Eof, controlVars, vars
    <3>4. CASE RexmiterStep
      BY <3>4 DEF RexmiterStep, AlarmRings, TakeNums, PickNum, LookUp,
         QueueRexmit, controlVars
    <3>5. CASE \E x \in Senders : SenderStep(x)
      BY <3>5 DEF SenderStep, SendFront, SenderKeepsOn, Unsent, controlVars
    <3>. QED
      BY <1>2, <3>1, <3>2, <3>3, <3>4, <3>5 DEF Next, ControlStep
  <2>. QED
    BY <2>2, <2>3, <2>4, <2>5
<1>3. AcceptedInv => InWindowIsAccepted
  BY DEF AcceptedInv, InWindowIsAccepted, Kept
<1>. QED
  BY <1>1, <1>2, <1>3, NumsHold, BoundsHold, SenderInvIsInvariant, PTL DEF Spec

\* What is kept is found: the marks and the numbers of the ring, as another
\* thread sees them between any two writes of the main sender, lead to its slot,
\* unless the marks were just moved and the number is not yet written.
THEOREM KeptIsAlwaysFound == ASSUME ReadsNoLater PROVE Spec => KeptIsFound
<1>0. Packets \in Nat /\ Size \in Nat \ {0}
  BY TheSenders, SizeAssumption
<1>1. ASSUME SenderInv, NumsInv, [Next]_vars, rexmiter.pc = "lookup",
             rexmiter'.pc = "queue", Kept(rexmiter.num), reader # "number"
      PROVE  rexmiter'.idx # -1
  <2>1. LookUp
    <3>1. CASE RexmiterStep
      BY <1>1, <3>1 DEF RexmiterStep, AlarmRings, TakeNums, PickNum, QueueRexmit
    <3>2. CASE rexmiter' = rexmiter
      BY <1>1, <3>2
    <3>. QED
      BY <1>1, <3>1, <3>2 DEF Next, ReaderStep, MoveMarks, SetNumber, WriteHeader,
         QueuePacket, SetLast, SetEarliest, TellSenderToEnd, NotifyOfEnd,
         JoinSender, Fill, Eof, Receive, ControlStep, Check, InsertNums,
         SenderStep, SendFront, SenderKeepsOn, Unsent, vars
  <2>2. rexmiter'.idx = Get(fifo, rexmiter.num) /\ rexmiter.num \in 0 .. Packets
    BY <1>1, <2>1 DEF LookUp, NumsInv, Rexmiters
  <2>3. rexmiter.num < next /\ rexmiter.num > next - Size /\ next \in Nat
    BY <1>1, <1>0 DEF Kept, SenderInv, PartsOK
  <2>4. CASE reader = "reserve"
    <3>1. RingAfter(fifo, next) /\ next \in Nat \ {0}
      BY <1>0, <1>1, <2>2, <2>3, <2>4 DEF SenderInv, RingInv, RingBefore
    <3>. QED
      BY <1>0, <2>2, <2>3, <3>1, RingFinds
  <2>5. CASE reader # "reserve"
    <3>1. RingAfter(fifo, next + 1) /\ next + 1 \in Nat \ {0}
      BY <1>1, <2>3, <2>5 DEF SenderInv, RingInv
    <3>2. rexmiter.num >= (next + 1) - Size /\ rexmiter.num < next + 1
      BY <1>0, <2>2, <2>3
    <3>. QED
      BY <2>2, <3>1, <3>2, RingFinds
  <2>. QED
    BY <2>4, <2>5
<1>2. SenderInv /\ NumsInv /\ [Next]_vars
        => [rexmiter.pc = "lookup" /\ rexmiter'.pc = "queue" /\ Kept(rexmiter.num)
              => rexmiter'.idx # -1 \/ reader = "number"]_vars
  BY <1>1
<1>. QED
  BY <1>2, NumsHold, SenderInvIsInvariant, PTL DEF Spec, KeptIsFound
=============================================================================
