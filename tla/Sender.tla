------------------------------- MODULE Sender -------------------------------
(***************************************************************************)
(* The sender: the main sender, which reads packets from the standard      *)
(* input into the ring buffer and queues them; the control port service,   *)
(* which collects the numbers that receivers ask for; the rexmiter, which  *)
(* takes them after RTIME and queues what it finds in the buffer; and the  *)
(* message sender of each of the two queues.                               *)
(*                                                                         *)
(* Packets are numbered 0, 1, ... (first_byte_num / PSIZE).  A slot of the *)
(* buffer carries the number in its header and what its audio data are.  A *)
(* queued message is the slot itself: a copy of a Msg shares its bytes.    *)
(* The lock of the buffer does not exclude anybody (compare_exchange_weak  *)
(* stores true in "expected", and the next attempt succeeds), so the two   *)
(* writes of get_to_set are steps of their own.                            *)
(***************************************************************************)
EXTENDS Fifo, FiniteSetsExt, MsgSender, Requests

CONSTANTS
  Packets,        \* bound: whole packets on the standard input
  MaxRequests,    \* bound: REXMIT messages handled
  Uninitialised   \* what last_byte_num and earliest_byte_num start with

ASSUME SenderAssumption ==
  /\ Packets \in Nat
  /\ MaxRequests \in Nat
  /\ Uninitialised \subseteq Nat
  /\ Senders = {"main", "rexmit"}
  /\ Messages = Slots

\* Audio data that are not, or not all, those of the packet in the header.
Torn == -1
None == -1

VARIABLES
  fifo, slots,            \* the buffer, and the bytes of its slots
  reader, next,           \* main sender: where it is, and dt_num
  last, earliest,         \* last_byte_num, earliest_byte_num, in packets
  nums_to_rexmit,
  control, requests,      \* control port service, and how many more requests
  rexmiter,               \* where the rexmiter is, with its locals
  heard                   \* the largest number a receiver may have seen

readerVars == <<reader, next, last, earliest>>
controlVars == <<control, requests>>
bufferVars == <<fifo, slots>>
vars == <<bufferVars, readerVars, controlVars, nums_to_rexmit, rexmiter, heard,
          msgSenderVars>>

SenderTypeOK ==
  /\ fifo \in Fifos
  /\ slots \in [Slots -> [head : 0 .. Packets, body : {Torn} \cup (0 .. Packets)]]
  /\ reader \in {"reserve", "number", "header", "fill", "add", "last",
                 "earliest", "eof", "notify", "join", "ended"}
  /\ next \in 0 .. Packets
  /\ {last, earliest} \subseteq Uninitialised \cup (0 .. Packets)
  /\ nums_to_rexmit \subseteq 0 .. Packets
  /\ control \in [pc : {"receive", "check", "insert"},
                  asked : SUBSET (0 .. Packets),
                  uneven : {None} \cup (0 .. Packets),
                  accepted : SUBSET (0 .. Packets)]
  /\ requests \in 0 .. MaxRequests
  /\ rexmiter \in [pc : {"count", "take", "pick", "lookup", "queue"},
                   batch : SUBSET (0 .. Packets), num : {None} \cup (0 .. Packets),
                   idx : {-1} \cup Slots]
  /\ heard \in {None} \cup (0 .. Packets)
  /\ MsgSenderTypeOK

SenderInit ==
  /\ fifo = EmptyFifo
  /\ slots = [i \in Slots |-> [head |-> 0, body |-> Torn]]
  /\ reader = "reserve"
  /\ next = 0
  /\ last \in Uninitialised
  /\ earliest \in Uninitialised
  /\ nums_to_rexmit = {}
  /\ control = [pc |-> "receive", asked |-> {}, uneven |-> None, accepted |-> {}]
  /\ requests = MaxRequests
  /\ rexmiter = [pc |-> "count", batch |-> {}, num |-> None, idx |-> -1]
  /\ heard = None
  /\ MsgSenderInit

-----------------------------------------------------------------------------
\* MainAudioSender::run().  get_to_set moves the marks, then sets the number.
MoveMarks ==
  /\ reader = "reserve"
  /\ fifo' = Insert(fifo, next)
  /\ reader' = "number"
  /\ UNCHANGED <<slots, next, last, earliest, controlVars, nums_to_rexmit,
                 rexmiter, heard, msgSenderVars>>

SetNumber ==
  /\ reader = "number"
  /\ fifo' = [fifo EXCEPT !.num[fifo.last] = next]
  /\ reader' = "header"
  /\ UNCHANGED <<slots, next, last, earliest, controlVars, nums_to_rexmit,
                 rexmiter, heard, msgSenderVars>>

\* From here on the slot has the new header, and older or partial data.
WriteHeader ==
  /\ reader = "header"
  /\ slots' = [slots EXCEPT ![fifo.last] = [head |-> next, body |-> Torn]]
  /\ reader' = "fill"
  /\ UNCHANGED <<fifo, next, last, earliest, controlVars, nums_to_rexmit,
                 rexmiter, heard, msgSenderVars>>

\* The last byte of the packet arrives.
Fill ==
  /\ reader = "fill"
  /\ next < Packets
  /\ slots' = [slots EXCEPT ![fifo.last].body = next]
  /\ reader' = "add"
  /\ UNCHANGED <<fifo, next, last, earliest, controlVars, nums_to_rexmit,
                 rexmiter, heard, msgSenderVars>>

\* The input ends in the packet or before it: what was read is not sent.
EofSendsRest ==
  /\ reader = "fill"
  /\ AddMsg("main", fifo.last)
  /\ reader' = "eof"
  /\ UNCHANGED <<bufferVars, next, last, earliest, controlVars,
                 nums_to_rexmit, rexmiter, heard>>
Eof ==
  /\ reader = "fill"
  /\ reader' = "eof"
  /\ UNCHANGED <<bufferVars, next, last, earliest, controlVars,
                 nums_to_rexmit, rexmiter, heard, msgSenderVars>>

QueuePacket ==
  /\ reader = "add"
  /\ AddMsg("main", fifo.last)
  /\ reader' = "last"
  /\ UNCHANGED <<bufferVars, next, last, earliest, controlVars,
                 nums_to_rexmit, rexmiter, heard>>

SetLast ==
  /\ reader = "last"
  /\ last' = next
  /\ reader' = "earliest"
  /\ UNCHANGED <<bufferVars, next, earliest, controlVars, nums_to_rexmit,
                 rexmiter, heard, msgSenderVars>>

\* An unsigned subtraction: below zero it would be larger than any number.
EarliestAfterUnguarded == IF next < Size THEN Packets + 1 ELSE next - Size
EarliestAfter == IF next > Size THEN next - Size ELSE earliest

SetEarliest ==
  /\ reader = "earliest"
  /\ earliest' = EarliestAfter
  /\ next' = next + 1
  /\ reader' = "reserve"
  /\ UNCHANGED <<bufferVars, last, controlVars, nums_to_rexmit, rexmiter,
                 heard, msgSenderVars>>

\* After the input: the message sender is told to end, and waited for.
TellSenderToEnd ==
  /\ reader = "eof"
  /\ SetEnding("main")
  /\ reader' = "notify"
  /\ UNCHANGED <<bufferVars, next, last, earliest, controlVars,
                 nums_to_rexmit, rexmiter, heard>>

NotifyOfEnd ==
  /\ reader = "notify"
  /\ NotifySender("main")
  /\ reader' = "join"
  /\ UNCHANGED <<bufferVars, next, last, earliest, controlVars,
                 nums_to_rexmit, rexmiter, heard>>

JoinSender ==
  /\ reader = "join"
  /\ out["main"].pc = "ended"
  /\ reader' = "ended"
  /\ UNCHANGED <<bufferVars, next, last, earliest, controlVars,
                 nums_to_rexmit, rexmiter, heard, msgSenderVars>>

ReaderStep ==
  \/ MoveMarks \/ SetNumber \/ WriteHeader \/ QueuePacket \/ SetLast
  \/ SetEarliest \/ TellSenderToEnd \/ NotifyOfEnd \/ JoinSender

-----------------------------------------------------------------------------
\* ControlPortService::run().  A receiver asks for packets below one that it
\* has seen.  If its list is cut, the last byte number read may not be a
\* multiple of PSIZE, and is then between packet "uneven" and the next one.
Asks == [lacking \in SUBSET (0 .. Packets) |-> Conveyed(lacking)]

\* Cut or not, a list tells of no byte behind the packets it was written for.
ReadsNoLater ==
  \A lacking \in SUBSET (0 .. Packets) :
    \A b \in Asks[lacking] : b \in Nat /\ \E n \in lacking : b <= n * psize

Receive(lacking) ==
  /\ control.pc = "receive"
  /\ requests > 0
  /\ requests' = requests - 1
  /\ LET uneven == {b \in Asks[lacking] : b % psize # 0}
     IN control' = [pc |-> "check", accepted |-> {},
                    asked |-> {b \div psize : b \in Asks[lacking] \ uneven},
                    uneven |-> IF uneven = {} THEN None
                               ELSE Max(uneven) \div psize]
  /\ UNCHANGED <<bufferVars, readerVars, nums_to_rexmit, rexmiter, heard,
                 msgSenderVars>>

\* The comparisons with the two bounds, for a packet and for an uneven number.
InWindowExcludingLast(n) == earliest <= n /\ n < last
InWindow(n) == earliest <= n /\ n <= last
UnevenInWindow == control.uneven # None /\ earliest <= control.uneven
                                        /\ control.uneven < last

\* The list of the request is read.  A number that is in the window and not
\* divisible by PSIZE drops the whole list.
Check ==
  /\ control.pc = "check"
  /\ control' = IF UnevenInWindow
                THEN [control EXCEPT !.pc = "receive"]
                ELSE [control EXCEPT !.pc = "insert",
                        !.accepted = {n \in control.asked : InWindow(n)}]
  /\ UNCHANGED <<requests, bufferVars, readerVars, nums_to_rexmit, rexmiter,
                 heard, msgSenderVars>>

NumsAfter == nums_to_rexmit \cup control.accepted

InsertNums ==
  /\ control.pc = "insert"
  /\ nums_to_rexmit' = NumsAfter
  /\ control' = [control EXCEPT !.pc = "receive"]
  /\ UNCHANGED <<requests, bufferVars, readerVars, rexmiter, heard,
                 msgSenderVars>>

ControlStep == Check \/ InsertNums

-----------------------------------------------------------------------------
\* Rexmiter::run().  The alarm rings after RTIME.
AlarmRings ==
  /\ rexmiter.pc = "count"
  /\ rexmiter' = [rexmiter EXCEPT !.pc = "take"]
  /\ UNCHANGED <<bufferVars, readerVars, controlVars, nums_to_rexmit, heard,
                 msgSenderVars>>

\* Under rexmit_mutex: the numbers that are not too old, all are cleared.
NotTooOldStrictly == {n \in nums_to_rexmit : n > earliest}
NotTooOld == {n \in nums_to_rexmit : n >= earliest}

TakeNums ==
  /\ rexmiter.pc = "take"
  /\ rexmiter' = [rexmiter EXCEPT !.pc = "pick", !.batch = NotTooOld]
  /\ nums_to_rexmit' = {}
  /\ UNCHANGED <<bufferVars, readerVars, controlVars, heard, msgSenderVars>>

\* The loop over the batch, in the order of the numbers.
PickNum ==
  /\ rexmiter.pc = "pick"
  /\ IF rexmiter.batch = {}
     THEN rexmiter' = [rexmiter EXCEPT !.pc = "count"]
     ELSE LET n == Min(rexmiter.batch)
          IN rexmiter' = [rexmiter EXCEPT !.batch = @ \ {n}, !.num = n,
                            !.pc = IF n >= earliest THEN "lookup" ELSE "pick"]
  /\ UNCHANGED <<bufferVars, readerVars, controlVars, nums_to_rexmit, heard,
                 msgSenderVars>>

LookUp ==
  /\ rexmiter.pc = "lookup"
  /\ rexmiter' = [rexmiter EXCEPT !.pc = "queue", !.idx = Get(fifo, rexmiter.num)]
  /\ UNCHANGED <<bufferVars, readerVars, controlVars, nums_to_rexmit, heard,
                 msgSenderVars>>

\* The slot is queued if it has the number that was asked for, now.
QueueRexmit ==
  /\ rexmiter.pc = "queue"
  /\ rexmiter' = [rexmiter EXCEPT !.pc = "pick"]
  /\ IF rexmiter.idx # -1 /\ fifo.num[rexmiter.idx] = rexmiter.num
     THEN AddMsg("rexmit", rexmiter.idx)
     ELSE UNCHANGED msgSenderVars
  /\ UNCHANGED <<bufferVars, readerVars, controlVars, nums_to_rexmit, heard>>

RexmiterStep == AlarmRings \/ TakeNums \/ PickNum \/ LookUp \/ QueueRexmit

-----------------------------------------------------------------------------
\* The message senders.  What is sent is what the slot holds at that time.
Unsent == <<bufferVars, readerVars, controlVars, nums_to_rexmit, rexmiter>>

SendFront(x) ==
  /\ Sends(x)
  /\ heard' = Larger(heard, slots[Head(queue[x])].head)
  /\ UNCHANGED Unsent

SenderKeepsOn(x) ==
  /\ \/ TestEnd(x)   \/ Wake(x)  \/ Drained(x)
     \/ TakeFront(x) \/ Fails(x) \/ Pop(x)
  /\ UNCHANGED <<Unsent, heard>>

SenderStep(x) == SendFront(x) \/ SenderKeepsOn(x)

Next ==
  \/ ReaderStep \/ Fill \/ Eof
  \/ \E lacking \in SUBSET (0 .. heard - 1) \ {{}} : Receive(lacking)
  \/ ControlStep
  \/ RexmiterStep
  \/ \E x \in Senders : SenderStep(x)

Spec == SenderInit /\ [][Next]_vars

-----------------------------------------------------------------------------
\* The packets that are in the window from the moment they are sent until the
\* slot is reserved again, whatever step the main sender is at.
Kept(n) == next - Size < n /\ n < next

\* A number that is asked for in time is accepted: the control port service
\* compares with two atomics that trail behind what is sent and what is kept,
\* and neither may refuse a packet that a receiver can miss.
InWindowIsAccepted ==
  control.pc = "insert" =>
    \A n \in control.asked : Kept(n) => n \in control.accepted

\* From the request over the collected numbers, which two threads change, to
\* the look into the buffer no number of a kept packet is lost.
Pending(n) ==
  \/ control.pc = "check" /\ control.uneven = None /\ n \in control.asked
  \/ control.pc = "insert" /\ n \in control.accepted
  \/ n \in nums_to_rexmit
  \/ n \in rexmiter.batch
  \/ rexmiter.pc = "lookup" /\ rexmiter.num = n

LooksUp(n) == rexmiter.pc = "lookup" /\ rexmiter.num = n /\ LookUp

RequestIsNotLost ==
  [][\A n \in 0 .. Packets :
       Pending(n) /\ Kept(n) => Pending(n)' \/ LooksUp(n)]_vars

\* The program does not end before everything it has read was sent or given
\* up after ten attempts.
EndsWhenAllIsSent == reader = "ended" => queue["main"] = <<>>

\* No message waits for a sender that sleeps and was not woken, and the thread
\* that main joins at the end does not sleep for ever: the notify of a message
\* may come before the wait, between the two tests of the queue, or after the
\* flag of end_when_all_msgs_sent() was read.
NoWakeupIsLost ==
  \A x \in Senders :
    /\ out[x].pc = "waiting"
    /\ queue[x] # <<>> \/ (x = "main" /\ reader = "join")
    => MayWake(x)

\* Main's packets are queued in order, and those that the buffer still keeps
\* have all of their data, though the queue holds slots that the main sender
\* goes on to fill: what is in the queue is right unless it is a whole buffer
\* behind.
Queued == IF reader \in {"last", "earliest"} THEN next + 1 ELSE next

QueuedIsWholeWhileKept ==
  \A i \in 1 .. Len(queue["main"]) :
    LET n == Queued - Len(queue["main"]) + i - 1
    IN n > next - Size
         => slots[queue["main"][i]] = [head |-> n, body |-> n]

\* Whatever is sent has the data of the number in its header.
SentIsWhole ==
  \A x \in Senders :
    out[x].pc = "sending"
      => slots[Head(queue[x])].body = slots[Head(queue[x])].head

\* A packet that is kept is found when the rexmiter looks for it, although
\* the spin lock does not keep it out, but for a look between the two writes
\* of get_to_set (reader = "number").
KeptIsFound ==
  [][rexmiter.pc = "lookup" /\ rexmiter'.pc = "queue" /\ Kept(rexmiter.num)
       => rexmiter'.idx # -1 \/ reader = "number"]_vars
=============================================================================
