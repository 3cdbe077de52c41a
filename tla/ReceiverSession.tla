--------------------------- MODULE ReceiverSession ---------------------------
(***************************************************************************)
(* The life of a playing session in the receiver: the main thread of       *)
(* Stations stops and starts the audio receiver, the audio player and the  *)
(* rexmit requester, which meet at the Barrier between two sessions.  The  *)
(* control point "session" of Barrier is refined here into the body of the *)
(* loop of each thread (at), with every test of the shared flags at its    *)
(* place, the socket of the audio receiver and the contents of the buffer. *)
(*                                                                         *)
(* Audio data is abstracted to the station it came from; which datagram    *)
(* arrives, and whether the player finds its packet, is nondeterministic.  *)
(* A flag is set together with the notify that follows it: the notified    *)
(* thread tests the flag under the mutex that the notify takes.            *)
(*                                                                         *)
(* A definition that stands directly before another one and has its name   *)
(* with a word more is a mutant of it, a plausible slip in the code.       *)
(***************************************************************************)
EXTENDS Barrier, Stations

CONSTANTS
  AudioReceiver, AudioPlayer, RexmitRequester,
  SocketMayFail   \* whether the calls that set up a socket may throw

ASSUME SessionAssumption ==
  /\ Threads = {AudioReceiver, AudioPlayer, RexmitRequester}
  /\ barrier_size = 3
  /\ SocketMayFail \in BOOLEAN

VARIABLES
  at,                      \* where a worker in a session is in its loop
  audio_receiving,
  audio_playing,
  first_byte_num_was_set,
  audio_playing_error,
  audio_receiving_should_be_initialized,
  audio_addr,              \* the station whose addresses were set last
  audio_sock,              \* the station its socket listens to, or None
  datagram,                \* the station of the datagram just received
  buffered                 \* the stations that have data in the buffer

playFlags == <<audio_receiving, audio_playing, first_byte_num_was_set,
               audio_playing_error, audio_receiving_should_be_initialized>>
audioVars == <<audio_addr, audio_sock, datagram, buffered>>
sessionVars == <<barrierVars, stationsVars, at, playFlags, audioVars>>

SessionPoints ==
  {"wait", "setup", "dead", "first", "read1", "save1", "commit1", "notify1",
   "error", "rest", "read2", "save2", "newer", "threshold", "playing",
   "missing", "scan", "nap"}

SessionTypeOK ==
  /\ TypeOK /\ StationsTypeOK
  /\ at \in [Threads -> SessionPoints]
  /\ {audio_receiving, audio_playing, first_byte_num_was_set,
      audio_playing_error, audio_receiving_should_be_initialized}
       \subseteq BOOLEAN
  /\ {audio_addr, audio_sock, datagram} \subseteq Radios \cup {None}
  /\ buffered \subseteq Radios \cup {None}

SessionInit ==
  /\ Init /\ StationsInit
  /\ at = [t \in Threads |-> "wait"]
  /\ audio_receiving = FALSE /\ audio_playing = FALSE
  /\ first_byte_num_was_set = FALSE /\ audio_playing_error = FALSE
  /\ audio_receiving_should_be_initialized = FALSE
  /\ audio_addr = None /\ audio_sock = None /\ datagram = None
  /\ buffered = {}

-----------------------------------------------------------------------------
\* The steps of the barrier, where Complete takes channels_mutex as well and
\* tells main.
PassBarrier(t) ==
  /\ BarrierStep(t)
  /\ IF pc[t] = "complete"
     THEN /\ ChannelsMutexFree
          /\ NotifyMain
          /\ UNCHANGED <<listVars, curr_channel_change, signalVars, mpc>>
     ELSE UNCHANGED stationsVars
  /\ UNCHANGED <<at, playFlags, audioVars>>

InSession(t, point) == pc[t] = "session" /\ at[t] = point

Move(t, point) == at' = [at EXCEPT ![t] = point]

\* A step within the session that leaves the barrier and main alone.
Inside(t, point) ==
  /\ Move(t, point)
  /\ UNCHANGED <<barrierVars, stationsVars>>

BackToBarrier(t) ==
  /\ ReturnToBarrier(t)
  /\ Move(t, "wait")
  /\ UNCHANGED <<stationsVars, playFlags, audioVars>>

\* wait_until(barrier_should_be_reached || condition) and the test behind it.
AwaitInSession(t, condition, next) ==
  \/ /\ awake[t] /\ barrier_should_be_reached
     /\ BackToBarrier(t)
  \/ /\ awake[t] /\ ~barrier_should_be_reached /\ condition
     /\ Inside(t, next)
     /\ UNCHANGED <<playFlags, audioVars>>
  \/ /\ awake[t] /\ ~barrier_should_be_reached /\ ~condition
     /\ awake' = [awake EXCEPT ![t] = FALSE]
     /\ UNCHANGED <<pc, counters, flags, stationsVars, at, playFlags,
                    audioVars>>

\* The head of a loop that runs while running holds.
LoopHead(t, running, next) ==
  IF running /\ ~barrier_should_be_reached
  THEN Inside(t, next) /\ UNCHANGED <<playFlags, audioVars>>
  ELSE BackToBarrier(t)

\* Under channels_mutex: the session cannot go on, main has to restart it.
AskForRestart(t, next) ==
  /\ ChannelsMutexFree
  /\ RaiseError(t)
  /\ audio_playing_error' = TRUE
  /\ NotifyMain
  /\ Move(t, next)
  /\ UNCHANGED <<listVars, curr_channel_change, signalVars, mpc,
                 audio_receiving, audio_playing, first_byte_num_was_set,
                 audio_receiving_should_be_initialized, audioVars>>

\* The datagram just read goes to the buffer.
SaveDatagram(t, next) ==
  /\ Inside(t, next)
  /\ buffered' = buffered \cup {datagram}
  /\ datagram' = None
  /\ UNCHANGED <<playFlags, audio_addr, audio_sock>>

NotifyWorker(t) == awake' = [awake EXCEPT ![t] = TRUE]

-----------------------------------------------------------------------------
(* The audio receiver.                                                     *)

ReceiverWaits(t) ==
  /\ InSession(t, "wait")
  /\ AwaitInSession(t, audio_receiving, "setup")

\* update_sock, under channels_mutex: a new socket only for a new station.
UpdateSockOnce(t) ==
  /\ InSession(t, "setup") /\ ChannelsMutexFree
  /\ audio_sock' = IF audio_sock = None THEN audio_addr ELSE audio_sock
  /\ Inside(t, "first")
  /\ UNCHANGED <<playFlags, audio_addr, datagram, buffered>>
UpdateSock(t) ==
  /\ InSession(t, "setup") /\ ChannelsMutexFree
  /\ audio_sock' = audio_addr
  /\ Inside(t, "first")
  /\ UNCHANGED <<playFlags, audio_addr, datagram, buffered>>

\* An exception of update_sock leaves run() and ends the thread.
UpdateSockThrows(t) ==
  /\ InSession(t, "setup") /\ ChannelsMutexFree
  /\ SocketMayFail /\ audio_sock # audio_addr
  /\ audio_sock' = None
  /\ Inside(t, "dead")
  /\ UNCHANGED <<playFlags, audio_addr, datagram, buffered>>

FirstLoop(t) ==
  /\ InSession(t, "first")
  /\ IF first_byte_num_was_set /\ audio_receiving /\ ~barrier_should_be_reached
     THEN Inside(t, "rest") /\ UNCHANGED <<playFlags, audioVars>>
     ELSE LoopHead(t, audio_receiving, "read1")

RestLoop(t) ==
  /\ InSession(t, "rest")
  /\ LoopHead(t, audio_receiving, "read2")

\* A read that returns because the socket was shut down: a datagram of no
\* bytes, or an error.
ReadOfClosedSock(t) ==
  /\ audio_sock = None
  /\ \/ /\ InSession(t, "read1")
        /\ \E next \in {"notify1", "error"} : Inside(t, next)
     \/ /\ InSession(t, "read2")
        /\ \E next \in {"threshold", "rest"} : Inside(t, next)
  /\ UNCHANGED <<playFlags, audioVars>>

\* A datagram of the station arrives that will be saved.
ReadDatagram(t) ==
  /\ audio_sock # None
  /\ \/ InSession(t, "read1") /\ Inside(t, "save1")
     \/ InSession(t, "read2") /\ Inside(t, "save2")
  /\ datagram' = audio_sock
  /\ UNCHANGED <<playFlags, audio_addr, audio_sock, buffered>>

\* A datagram of the wrong size arrives; in the second loop also one that is
\* old, or of a newer session of the station.
ReadUnwanted(t) ==
  /\ audio_sock # None
  /\ \/ InSession(t, "read1") /\ Inside(t, "notify1")
     \/ /\ InSession(t, "read2")
        /\ \E next \in {"threshold", "newer"} : Inside(t, next)
  /\ UNCHANGED <<playFlags, audioVars>>

SaveFirst(t) == InSession(t, "save1") /\ SaveDatagram(t, "commit1")

\* Under channels_mutex: the session gets its id and its first byte.
CommitFirst(t) ==
  /\ InSession(t, "commit1") /\ ChannelsMutexFree
  /\ first_byte_num_was_set' = TRUE
  /\ Inside(t, "notify1")
  /\ UNCHANGED <<audio_receiving, audio_playing, audio_playing_error,
                 audio_receiving_should_be_initialized, audioVars>>

NotifyRequester(t) ==
  /\ InSession(t, "notify1")
  /\ NotifyWorker(RexmitRequester)
  /\ Move(t, "first")
  /\ UNCHANGED <<pc, counters, flags, stationsVars, playFlags, audioVars>>

SaveNext(t) == InSession(t, "save2") /\ SaveDatagram(t, "threshold")

\* The error in the first loop, and the newer session in the second one.
ReceiverGivesUp(t) ==
  \/ InSession(t, "error") /\ AskForRestart(t, "rest")
  \/ InSession(t, "newer") /\ AskForRestart(t, "threshold")

\* Three quarters of the buffer are filled: let the player start.
StartPlaying(t) ==
  /\ InSession(t, "threshold") /\ ~audio_playing
  /\ audio_playing' = TRUE
  /\ NotifyWorker(AudioPlayer)
  /\ Move(t, "rest")
  /\ UNCHANGED <<pc, counters, flags, stationsVars, audio_receiving,
                 first_byte_num_was_set, audio_playing_error,
                 audio_receiving_should_be_initialized, audioVars>>

NotYetPlaying(t) ==
  /\ InSession(t, "threshold")
  /\ Inside(t, "rest")
  /\ UNCHANGED <<playFlags, audioVars>>

\* Everything that needs no datagram from the network.
ReceiverStep(t) ==
  \/ ReceiverWaits(t)
  \/ UpdateSock(t)
  \/ UpdateSockThrows(t)
  \/ FirstLoop(t)
  \/ RestLoop(t)
  \/ ReadOfClosedSock(t)
  \/ SaveFirst(t)
  \/ CommitFirst(t)
  \/ NotifyRequester(t)
  \/ SaveNext(t)
  \/ ReceiverGivesUp(t)
  \/ StartPlaying(t)
  \/ NotYetPlaying(t)

-----------------------------------------------------------------------------
(* The audio player.                                                       *)

PlayerWaits(t) ==
  /\ InSession(t, "wait")
  /\ AwaitInSession(t, audio_playing, "playing")

\* The head of the loop; a packet that is there is written and nothing that
\* is modelled changes, a packet that is not there ends the session.
PlayLoop(t) ==
  /\ InSession(t, "playing")
  /\ audio_playing /\ ~barrier_should_be_reached
  /\ Inside(t, "missing")
  /\ UNCHANGED <<playFlags, audioVars>>

PlayerStops(t) ==
  /\ InSession(t, "playing")
  /\ ~audio_playing \/ barrier_should_be_reached
  /\ BackToBarrier(t)

PlayerGivesUp(t) == InSession(t, "missing") /\ AskForRestart(t, "playing")

PlayerStep(t) ==
  \/ PlayerWaits(t)
  \/ PlayerStops(t)
  \/ PlayerGivesUp(t)

-----------------------------------------------------------------------------
(* The rexmit requester.                                                   *)

RequesterWaits(t) ==
  /\ InSession(t, "wait")
  /\ AwaitInSession(t, audio_receiving, "setup")

\* update_sock and the start of a MsgSender, under channels_mutex.
RequesterSetsUp(t) ==
  /\ InSession(t, "setup") /\ ChannelsMutexFree
  /\ \/ Inside(t, "first")
     \/ SocketMayFail /\ Inside(t, "dead")
  /\ UNCHANGED <<playFlags, audioVars>>

RequesterWaitsForFirst(t) ==
  /\ InSession(t, "first")
  /\ AwaitInSession(t, audio_receiving /\ first_byte_num_was_set, "scan")

\* Scan the buffer, ask for what is missing and sleep until the alarm.
RequestLoop(t) ==
  /\ InSession(t, "scan")
  /\ LoopHead(t, audio_receiving, "nap")

AlarmWakes(t) ==
  /\ InSession(t, "nap")
  /\ Inside(t, "scan")
  /\ UNCHANGED <<playFlags, audioVars>>

RequesterStep(t) ==
  \/ RequesterWaits(t)
  \/ RequesterSetsUp(t)
  \/ RequesterWaitsForFirst(t)
  \/ RequestLoop(t)
  \/ AlarmWakes(t)

-----------------------------------------------------------------------------
(* The main thread.                                                        *)

\* What the audio threads have to tell main.
AudioNeedsMain ==
  \/ audio_playing_error
  \/ audio_receiving_should_be_initialized /\ ready_for_audio_receiving

\* The lists are checked; what follows in this iteration is decided.
MainLooks(recent) ==
  /\ MainChecks(recent, AudioNeedsMain,
       IF Changed \/ audio_playing_error THEN "stop"
       ELSE IF AudioNeedsMain THEN "init"
       ELSE "finish")
  /\ UNCHANGED <<barrierVars, at, playFlags, audioVars>>

\* The first half of stop_receiving_and_playing: the flags and the socket.
MainStops ==
  /\ mpc = "stop" /\ mpc' = "request"
  /\ audio_receiving' = FALSE /\ audio_playing' = FALSE
  /\ first_byte_num_was_set' = FALSE /\ audio_playing_error' = FALSE
  /\ audio_sock' = None
  /\ UNCHANGED <<barrierVars, listVars, curr_channel_change, signalVars,
                 main_signal, at, audio_addr, datagram,
                 buffered, audio_receiving_should_be_initialized>>

\* Its second half: the barrier, and the next session if there is a station.
MainRequestsAlways ==
  /\ mpc = "request"
  /\ barrier_should_be_reached' = TRUE
  /\ NotifyThreads
  /\ audio_receiving_should_be_initialized' =
       (audio_receiving_should_be_initialized \/ chosen_channel # None)
  /\ mpc' = IF audio_receiving_should_be_initialized'
               /\ ready_for_audio_receiving THEN "init" ELSE "finish"
  /\ UNCHANGED <<pc, counters, ready_for_audio_receiving,
                 resources_for_receiving_ready, listVars, curr_channel_change,
                 signalVars, main_signal, at, audioVars,
                 audio_receiving, audio_playing, first_byte_num_was_set,
                 audio_playing_error>>
MainRequestsBarrierOnly ==
  /\ mpc = "request"
  /\ StopSession
  /\ mpc' = IF audio_receiving_should_be_initialized
               /\ ready_for_audio_receiving THEN "init" ELSE "finish"
  /\ UNCHANGED <<listVars, curr_channel_change, signalVars, main_signal, at,
                 audioVars, playFlags>>
MainRequests ==
  /\ mpc = "request"
  /\ StopSession
  /\ audio_receiving_should_be_initialized' =
       (audio_receiving_should_be_initialized \/ chosen_channel # None)
  /\ mpc' = IF audio_receiving_should_be_initialized'
               /\ ready_for_audio_receiving THEN "init" ELSE "finish"
  /\ UNCHANGED <<listVars, curr_channel_change, signalVars, main_signal, at,
                 audioVars, audio_receiving, audio_playing,
                 first_byte_num_was_set, audio_playing_error>>

MainInitsKeepingPlaying ==
  /\ mpc = "init" /\ mpc' = "finish"
  /\ InitSession
  /\ audio_receiving_should_be_initialized' = FALSE
  /\ audio_addr' = chosen_channel
  /\ buffered' = {}
  /\ audio_playing_error' = FALSE /\ first_byte_num_was_set' = FALSE
  /\ audio_receiving' = TRUE
  /\ UNCHANGED <<listVars, curr_channel_change, signalVars, main_signal,
                 audio_playing, at, audio_sock, datagram>>
\* init_audio_receiving: the addresses of the chosen station (none at all if
\* chosen_channel is channels.end()), an empty buffer, and the gate opens.
MainInits ==
  /\ mpc = "init" /\ mpc' = "finish"
  /\ InitSession
  /\ audio_receiving_should_be_initialized' = FALSE
  /\ audio_addr' = chosen_channel
  /\ buffered' = {}
  /\ audio_playing_error' = FALSE /\ first_byte_num_was_set' = FALSE
  /\ audio_playing' = FALSE /\ audio_receiving' = TRUE
  /\ UNCHANGED <<listVars, curr_channel_change, signalVars, main_signal, at,
                 audio_sock, datagram>>

MainEnds ==
  /\ MainFinishes
  /\ UNCHANGED <<barrierVars, at, playFlags, audioVars>>

MainWorks == MainLooks(FALSE) \/ MainStops \/ MainRequests \/ MainInits
             \/ MainEnds

-----------------------------------------------------------------------------
\* What a worker does by itself, without news from the network.
WorkerStep(t) ==
  \/ PassBarrier(t)
  \/ t = AudioReceiver /\ ReceiverStep(t)
  \/ t = AudioPlayer /\ PlayerStep(t)
  \/ t = RexmitRequester /\ RequesterStep(t)

Network ==
  \/ ReadDatagram(AudioReceiver)
  \/ ReadUnwanted(AudioReceiver)
  \/ PlayLoop(AudioPlayer)

SessionNext ==
  \/ \E t \in Threads : WorkerStep(t)
  \/ Network
  \/ MainWorks
  \/ MainLooks(TRUE)
  \/ \E recent \in BOOLEAN :
       /\ MainSleeps(recent, AudioNeedsMain)
       /\ UNCHANGED <<barrierVars, at, playFlags, audioVars>>
  \/ Surroundings /\ UNCHANGED <<barrierVars, at, playFlags, audioVars>>

SessionSpec == SessionInit /\ [][SessionNext]_sessionVars

\* A thread that can go on does, and gets a mutex it asks for again and again.
\* The alarm and the network owe nothing.
SessionFairness ==
  /\ \A t \in Threads : SF_sessionVars(WorkerStep(t))
  /\ WF_sessionVars(MainWorks)

FairSessionSpec == SessionSpec /\ SessionFairness

-----------------------------------------------------------------------------
\* The control of the session implements the barrier: every step of the
\* threads between two barriers, sleeping included, is a step of Barrier at
\* its point "session", or no step of it.
BarrierOfSession ==
  INSTANCE Barrier WITH
    awake <- [t \in Threads |-> awake[t] \/ pc[t] = "session"]
ImplementsBarrier == BarrierOfSession!Spec

\* The buffer never mixes stations: what is in it was sent by the station
\* whose session it is, however late a datagram of the one before is saved.
BufferHoldsOneStation == buffered \subseteq {audio_addr}

\* Nobody plays or asks for data of a session that has no first byte yet: the
\* numbers they start from are those of the session before.
PlaysAfterFirstByte ==
  /\ audio_receiving /\ audio_playing => first_byte_num_was_set
  /\ \A t \in Threads : InSession(t, "scan") /\ audio_receiving
                          => first_byte_num_was_set

\* A chosen station is received in the end, whatever errors, restarts and
\* changes of station come between.
ChosenIsReceived ==
  chosen_channel # None ~> audio_receiving \/ chosen_channel = None
=============================================================================
