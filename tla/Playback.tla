------------------------------ MODULE Playback ------------------------------
(***************************************************************************)
(* One session of the receiver on its buffer, by packet number: the audio  *)
(* receiver stores what comes in any order, the audio player writes one    *)
(* packet after the other to the standard output, and the rexmit requester *)
(* scans the buffer once per RTIME and asks for what is missing.  None of  *)
(* them excludes another: save_datagram takes no lock, and the spin lock   *)
(* that the others take is none.  ReceiverSession has what comes before    *)
(* and after: a session ends here when the player misses its packet.       *)
(*                                                                         *)
(* Packets are numbered first_byte_num / PSIZE.  A slot has its number in  *)
(* fifo and the packet whose audio data it holds in data.  The session has *)
(* one session_id; datagrams of others change nothing here.                *)
(*                                                                         *)
(* A definition that stands directly before another one and has its name   *)
(* with a word more is a mutant of it, a plausible slip in the code.       *)
(***************************************************************************)
EXTENDS Fifo, FiniteSets

CONSTANTS
  psize,             \* PSIZE; BSIZE is Size * psize
  LastPacket,        \* bound: the largest number that is sent
  FirstPacket        \* the number of the first packet that comes

ASSUME PlaybackAssumption ==
  /\ psize \in Nat \ {0}
  /\ LastPacket \in Nat
  /\ FirstPacket \in 0 .. LastPacket

Numbers == 0 .. LastPacket
None == -1

VARIABLES
  fifo, data,          \* the buffer, and what its slots hold
  first, last, curr,   \* first_byte_num, last_byte_num, curr_byte_num
  audio_playing,
  receiver, player, requester,   \* where each thread is, with its locals
  arrived, saved, asked,         \* numbers that came, were stored, were asked for
  clashed            \* a packet exactly Size behind the last one was accepted

marks == <<first, last, curr>>
log == <<arrived, saved, asked, clashed>>
vars == <<fifo, data, marks, audio_playing, receiver, player, requester, log>>

PlaybackTypeOK ==
  /\ fifo \in Fifos
  /\ data \in [Slots -> Numbers \cup {None}]
  /\ {first, last} \subseteq Numbers \cup {None}
  /\ curr \in Numbers \cup {None, LastPacket + 1}
  /\ audio_playing \in BOOLEAN
  /\ receiver \in [pc : {"first", "read", "mark", "number", "data", "commit",
                         "threshold"},
                   num : Numbers \cup {None}, idx : Slots \cup {None}]
  /\ player \in [pc : {"wait", "test", "begin", "end", "missing"},
                 num : Numbers \cup {None, LastPacket + 1},
                 idx : Slots \cup {None}, out : Slots \cup {None},
                 raced : BOOLEAN]
  /\ requester.pc \in {"wait", "round", "scan", "ask", "nap"}
  /\ {requester.idx, requester.last_idx} \subseteq Slots \cup {None}
  /\ requester.upto \in Numbers \cup {None}
  /\ requester.lacking \subseteq 0 .. requester.start
  /\ requester.start <= LastPacket + Size
  /\ saved \subseteq arrived /\ arrived \subseteq Numbers

PlaybackInit ==
  /\ fifo = EmptyFifo
  /\ data = [i \in Slots |-> None]
  /\ first = None /\ last = None /\ curr = None
  /\ audio_playing = FALSE
  /\ receiver = [pc |-> "first", num |-> None, idx |-> None]
  /\ player = [pc |-> "wait", num |-> None, idx |-> None, out |-> None,
               raced |-> FALSE]
  /\ requester = [pc |-> "wait", start |-> 0, idx |-> None,
                  last_idx |-> None, upto |-> None, lacking |-> {}]
  /\ arrived = {} /\ saved = {} /\ asked = {} /\ clashed = FALSE

\* The player has told main of a missing packet: the threads leave their loops.
Over == player.pc = "missing"

-----------------------------------------------------------------------------
(* The audio receiver.                                                     *)

\* check_first_audio_msg_and_save: the first datagram of the session.
ArriveFirst ==
  /\ receiver.pc = "first"
  /\ receiver' = [receiver EXCEPT !.pc = "mark", !.num = FirstPacket]
  /\ arrived' = {FirstPacket}
  /\ UNCHANGED <<fifo, data, marks, audio_playing, player, requester, saved,
                 asked, clashed>>

\* check_audio_msg_and_save: what is new for the player, and not too far
\* behind the last one.
Accepted(n) == n > curr /\ (n >= last \/ last - n <= Size)

LastAfterNewest(n) == n
LastAfter(n) == Larger(last, n)

\* Packets come in any order, some never, some twice.
Arrive(n) ==
  /\ receiver.pc = "read" /\ ~Over
  /\ arrived' = arrived \cup {n}
  /\ clashed' = (clashed \/ (Accepted(n) /\ n = last - Size))
  /\ IF Accepted(n)
     THEN /\ last' = LastAfter(n)
          /\ receiver' = [receiver EXCEPT !.pc = "mark", !.num = n]
     ELSE /\ receiver' = [receiver EXCEPT !.pc = "threshold"]
          /\ UNCHANGED last
  /\ UNCHANGED <<fifo, data, first, curr, audio_playing, player, requester,
                 saved, asked>>

\* save_datagram: get_to_set moves the marks of the buffer, or refuses.
NextAfterSave == IF first = None THEN "commit" ELSE "threshold"

MoveMarks ==
  /\ receiver.pc = "mark"
  /\ fifo' = Insert(fifo, receiver.num)
  /\ receiver' =
       [receiver EXCEPT
         !.idx = InsertIdx(fifo, receiver.num),
         !.pc = IF InsertIdx(fifo, receiver.num) = None THEN NextAfterSave
                ELSE "number"]
  /\ UNCHANGED <<data, marks, audio_playing, player, requester, log>>

\* It sets the number of the slot, and the data are copied after that.
SetNumber ==
  /\ receiver.pc = "number"
  /\ fifo' = [fifo EXCEPT !.num[receiver.idx] = receiver.num]
  /\ receiver' = [receiver EXCEPT !.pc = "data"]
  /\ saved' = saved \cup {receiver.num}
  /\ UNCHANGED <<data, marks, audio_playing, player, requester, arrived,
                 asked, clashed>>

CopyDataToLast ==
  /\ receiver.pc = "data"
  /\ data' = [data EXCEPT ![fifo.last] = receiver.num]
  /\ receiver' = [receiver EXCEPT !.pc = NextAfterSave]
  /\ UNCHANGED <<fifo, marks, audio_playing, player, requester, log>>
CopyData ==
  /\ receiver.pc = "data"
  /\ data' = [data EXCEPT ![receiver.idx] = receiver.num]
  /\ receiver' = [receiver EXCEPT !.pc = NextAfterSave]
  /\ UNCHANGED <<fifo, marks, audio_playing, player, requester, log>>

\* Under channels_mutex: the numbers of the session start with this packet.
CommitFirst ==
  /\ receiver.pc = "commit"
  /\ first' = receiver.num /\ last' = receiver.num /\ curr' = receiver.num
  /\ receiver' = [receiver EXCEPT !.pc = "read"]
  /\ UNCHANGED <<fifo, data, audio_playing, player, requester, log>>

\* The byte BYTE0 + 3/4 BSIZE was received: the player may start.
Filled ==
  4 * (last * psize + psize - first * psize - 1) >= 3 * Size * psize

TestThreshold ==
  /\ receiver.pc = "threshold"
  /\ audio_playing' = (audio_playing \/ Filled)
  /\ receiver' = [receiver EXCEPT !.pc = "read"]
  /\ UNCHANGED <<fifo, data, marks, player, requester, log>>

ReceiverStep ==
  \/ MoveMarks \/ SetNumber \/ CopyData \/ CommitFirst \/ TestThreshold

-----------------------------------------------------------------------------
(* The audio player.                                                       *)

\* The slot is computed from the marks of the buffer as they are just now.
StartPlaying ==
  /\ player.pc = "wait" /\ audio_playing
  /\ player' = [pc |-> "test", num |-> curr, idx |-> IdxForNum(fifo, curr),
                out |-> None, raced |-> receiver.pc = "number"]
  /\ UNCHANGED <<fifo, data, marks, audio_playing, receiver, requester, log>>

\* The packet is there: from now on the next one is wanted.
TakePacket ==
  /\ player.pc = "test"
  /\ fifo.num[player.idx] = player.num
  /\ curr' = player.num + 1
  /\ player' = [player EXCEPT !.pc = "begin", !.num = @ + 1,
                  !.idx = IdxPlus(@), !.out = player.idx]
  /\ UNCHANGED <<fifo, data, first, last, audio_playing, receiver, requester,
                 log>>

MissPacket ==
  /\ player.pc = "test"
  /\ fifo.num[player.idx] # player.num
  /\ player' = [player EXCEPT !.pc = "missing"]
  /\ UNCHANGED <<fifo, data, marks, audio_playing, receiver, requester, log>>

\* The first and the last byte of the packet are written to the output.
WriteOut ==
  /\ player.pc \in {"begin", "end"}
  /\ player' = [player EXCEPT !.pc = IF @ = "begin" THEN "end" ELSE "test"]
  /\ UNCHANGED <<fifo, data, marks, audio_playing, receiver, requester, log>>

PlayerStep == StartPlaying \/ TakePacket \/ MissPacket \/ WriteOut

-----------------------------------------------------------------------------
(* The rexmit requester.                                                   *)

\* It waits for the first packet.
BeginRequests ==
  /\ requester.pc = "wait" /\ first # None
  /\ requester' = [requester EXCEPT !.pc = "round"]
  /\ UNCHANGED <<fifo, data, marks, audio_playing, receiver, player, log>>

\* Where the scan starts and where it ends.
StartAfterLast == Larger(requester.start, last)
StartAfter == Larger(requester.start, curr)

BeginRound ==
  /\ requester.pc = "round"
  /\ requester' = [pc |-> "scan", start |-> StartAfter,
                   idx |-> IdxForNum(fifo, StartAfter),
                   last_idx |-> IdxForNum(fifo, last),
                   upto |-> last, lacking |-> {}]
  /\ UNCHANGED <<fifo, data, marks, audio_playing, receiver, player, log>>

\* One slot after the other, until the index of the last one.
IsLacking == fifo.num[requester.idx] # requester.start

ScanSlot ==
  /\ requester.pc = "scan"
  /\ IF requester.idx = requester.last_idx
     THEN requester' = [requester EXCEPT !.pc = "ask"]
     ELSE requester' = [requester EXCEPT
            !.start = @ + 1, !.idx = IdxPlus(@),
            !.lacking = @ \cup (IF IsLacking THEN {requester.start} ELSE {})]
  /\ UNCHANGED <<fifo, data, marks, audio_playing, receiver, player, log>>

\* One REXMIT with all numbers; then sleep until the alarm.
Ask ==
  /\ requester.pc = "ask"
  /\ asked' = asked \cup requester.lacking
  /\ requester' = [requester EXCEPT !.pc = "nap"]
  /\ UNCHANGED <<fifo, data, marks, audio_playing, receiver, player, arrived,
                 saved, clashed>>

AlarmRings ==
  /\ requester.pc = "nap" /\ ~Over
  /\ requester' = [requester EXCEPT !.pc = "round", !.lacking = {}]
  /\ UNCHANGED <<fifo, data, marks, audio_playing, receiver, player, log>>

RequesterStep == BeginRequests \/ BeginRound \/ ScanSlot \/ Ask \/ AlarmRings

-----------------------------------------------------------------------------
PlaybackNext ==
  \/ ArriveFirst
  \/ \E n \in Numbers : Arrive(n)
  \/ ReceiverStep
  \/ PlayerStep
  \/ RequesterStep

PlaybackSpec == PlaybackInit /\ [][PlaybackNext]_vars

-----------------------------------------------------------------------------
\* The newest packet that came is the one the buffer is counted from, however
\* late others come and wherever their slots are: every index is computed
\* from it.  The exception, here and below, is a packet exactly Size behind it,
\* which is accepted and can be stored in its slot.
NewestIsKept ==
  receiver.pc = "read" /\ ~clashed => LastNum(fifo) = last

\* A packet that was stored stays where it is looked for until the newest is
\* a whole buffer ahead: no late or repeated packet, no gap, no restart of the
\* buffer and no turn of the ring takes it away.
HoldsSaved ==
  receiver.pc = "read" /\ ~clashed =>
    \A n \in saved : n > last - Size => fifo.num[IdxForNum(fifo, n)] = n

\* What is being written to the output are the data of the packet whose turn
\* it is, with two exceptions: the slot was given to a newer packet after the
\* player had tested it, or the number was found before its data were copied.
PlayedIsThatPacket ==
  player.pc \in {"begin", "end"} =>
    \/ data[player.out] = player.num - 1
    \/ fifo.num[player.out] # player.num - 1
    \/ receiver.pc = "data" /\ receiver.idx = player.out

\* The player gives the session up only for a packet that is not in the
\* buffer just then, or when it computed its slot while the marks had been
\* moved and the number was not yet set.
MissingIsReal ==
  [][~Over /\ Over' => \/ player.raced
                       \/ player.num \notin saved
                       \/ player.num <= last - Size
                       \/ clashed]_vars

\* The scan leaves no packet behind that neither came nor was asked for,
\* although slots change under it and it never returns to a number.
NothingIsSkipped ==
  first # None =>
    \A n \in curr .. requester.start - 1 :
      n \in arrived \cup asked \cup requester.lacking
=============================================================================
