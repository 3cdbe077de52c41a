----------------------- MODULE ReceiverSessionProofs -----------------------
(***************************************************************************)
(* The sessions of the receiver, for every list of stations: the threads   *)
(* implement the barrier, and what the barrier promises keeps the data and *)
(* the flags of one session out of the next.                               *)
(***************************************************************************)
EXTENDS ReceiverSession, ReceiverPartsProofs

\* A thread that is not in a session is at the beginning of its loop when it
\* enters the next one, and only a thread that waits can be asleep.
MaySleep(t) ==
  \/ pc[t] \in {"broken_wait", "ready_wait", "gate"}
  \/ /\ pc[t] = "session"
     /\ at[t] = "wait" \/ (t = RexmitRequester /\ at[t] = "first")

PointsOf(t) == IF t = RexmitRequester THEN SessionPoints
               ELSE SessionPoints \ {"scan"}

AtInv ==
  /\ at \in [Threads -> SessionPoints]
  /\ \A t \in Threads : at[t] \in PointsOf(t)
  /\ \A t \in Threads : pc[t] # "session" => at[t] = "wait"

SleepInv == \A t \in Threads : awake[t] \/ MaySleep(t)

\* The threads that are in a session behind the setting up of their sockets.
Receiving == pc[AudioReceiver] = "session"
             /\ at[AudioReceiver] \notin {"wait", "setup"}

\* A receiver that reads listens to the station of the session, and what it
\* has read, and not saved yet, is of that station.
SockInv ==
  /\ Receiving => audio_sock \in {None, audio_addr}
  /\ datagram # None =>
       /\ Receiving /\ at[AudioReceiver] \in {"save1", "save2"}
       /\ datagram = audio_addr
  /\ InSession(AudioReceiver, "save1") \/ InSession(AudioReceiver, "save2")
       => datagram # None

BufferInv == SockInv /\ BufferHoldsOneStation

\* The receiver is past the first datagram: the session has its first byte,
\* or is over.
FirstByteInv ==
  /\ audio_playing \/ (\E p \in {"read2", "save2", "newer", "threshold"} :
                         InSession(AudioReceiver, p))
       => first_byte_num_was_set \/ ~audio_receiving
  /\ InSession(AudioReceiver, "rest")
       => \/ first_byte_num_was_set \/ ~audio_receiving
          \/ barrier_should_be_reached
  /\ InSession(RexmitRequester, "scan") \/ InSession(RexmitRequester, "nap")
       => first_byte_num_was_set \/ ~audio_receiving

-----------------------------------------------------------------------------
(* The barrier within the session.                                         *)

\* A worker that goes to sleep in a session.
FallsAsleep(t) ==
  /\ awake' = [awake EXCEPT ![t] = FALSE]
  /\ InSession(t, "wait") \/ (t = RexmitRequester /\ InSession(t, "first"))
  /\ UNCHANGED <<pc, counters, flags, at>>

\* What a step of a thread in its session is to the barrier.
SessionStepOf(t) ==
  \/ ReturnToBarrier(t) /\ Move(t, "wait") /\ awake[t]
  \/ RaiseError(t) /\ \E point \in PointsOf(t) : Move(t, point)
  \/ FallsAsleep(t)
  \/ \E u \in Threads, point \in PointsOf(t) : StrayNotify(u) /\ Move(t, point)
  \/ UNCHANGED barrierVars /\ \E point \in PointsOf(t) : Move(t, point)

\* The three workers are three.
LEMMA ThreeWorkers ==
  /\ AudioReceiver \in Threads /\ AudioPlayer \in Threads
  /\ RexmitRequester \in Threads
  /\ AudioReceiver # AudioPlayer /\ AudioReceiver # RexmitRequester
  /\ AudioPlayer # RexmitRequester
<1>1. Threads = {AudioReceiver, AudioPlayer, RexmitRequester}
      /\ Cardinality(Threads) = 3
  BY SessionAssumption DEF SessionAssumption, barrier_size
<1>2. \A x, y : Cardinality({x, y}) <= 2
  <2>. TAKE x, y
  <2>1. Cardinality({x}) = 1 /\ IsFiniteSet({x})
    BY FS_Singleton
  <2>2. {x, y} = {x} \cup {y}
    OBVIOUS
  <2>. QED
    BY <2>1, <2>2, FS_AddElement
<1>3. ~ 3 <= 2
  OBVIOUS
<1>. QED
  BY <1>1, <1>2, <1>3

\* What a worker does in its session, the network included.
WorkerInSession(t) ==
  /\ pc[t] = "session"
  /\ \/ t = AudioReceiver /\ (ReceiverStep(t) \/ ReadDatagram(t) \/ ReadUnwanted(t))
     \/ t = AudioPlayer /\ (PlayerStep(t) \/ PlayLoop(t))
     \/ t = RexmitRequester /\ RequesterStep(t)

\* The head of a loop.
LEMMA LoopIsSessionStep ==
  ASSUME SleepInv, NEW t \in Threads, NEW running, NEW next \in PointsOf(t),
         LoopHead(t, running, next), pc[t] = "session",
         at[t] # "wait", t # RexmitRequester \/ at[t] # "first"
  PROVE  SessionStepOf(t)
BY DEF LoopHead, SessionStepOf, BackToBarrier, Inside, SleepInv, MaySleep

\* A step of a session, as the barrier sees it.
LEMMA SessionSteps ==
  ASSUME SleepInv, NEW t \in Threads, WorkerInSession(t)
  PROVE  SessionStepOf(t)
<1>1. {"setup", "dead", "first", "read1", "save1", "commit1", "notify1",
       "error", "rest", "read2", "save2", "newer", "threshold", "playing",
       "missing", "nap"} \subseteq PointsOf(t)
      /\ (t = RexmitRequester => "scan" \in PointsOf(t))
  BY DEF PointsOf, SessionPoints
<1>2. \A point \in PointsOf(t) : Inside(t, point) => SessionStepOf(t)
  BY DEF Inside, SessionStepOf
<1>3. \A point \in PointsOf(t) : AskForRestart(t, point) => SessionStepOf(t)
  BY DEF AskForRestart, SessionStepOf
<1>4. CASE t = AudioReceiver /\ (ReceiverStep(t) \/ ReadDatagram(t) \/ ReadUnwanted(t))
  <2>1. t # RexmitRequester
    BY <1>4, ThreeWorkers
  <2>2. CASE ReceiverWaits(t)
    BY <1>1, <2>2 DEF ReceiverWaits, InSession, AwaitInSession, SessionStepOf,
                      BackToBarrier, Inside, FallsAsleep
  <2>3. CASE UpdateSock(t) \/ UpdateSockThrows(t)
    BY <1>1, <1>2, <2>3 DEF UpdateSock, UpdateSockThrows
  <2>4. CASE FirstLoop(t)
    BY <1>1, <1>2, <2>1, <2>4, LoopIsSessionStep DEF FirstLoop, InSession
  <2>5. CASE RestLoop(t)
    BY <1>1, <2>1, <2>5, LoopIsSessionStep DEF RestLoop, InSession
  <2>6. CASE ReadOfClosedSock(t) \/ ReadDatagram(t) \/ ReadUnwanted(t)
    BY <1>1, <1>2, <2>6 DEF ReadOfClosedSock, ReadDatagram, ReadUnwanted
  <2>7. CASE SaveFirst(t) \/ SaveNext(t) \/ CommitFirst(t) \/ NotYetPlaying(t)
    BY <1>1, <1>2, <2>7
       DEF SaveFirst, SaveNext, SaveDatagram, CommitFirst, NotYetPlaying
  <2>8. CASE NotifyRequester(t) \/ StartPlaying(t)
    <3>1. PICK u \in Threads : NotifyWorker(u)
      BY <2>8, ThreeWorkers DEF NotifyRequester, StartPlaying
    <3>2. StrayNotify(u)
      BY <2>8, <3>1 DEF NotifyRequester, StartPlaying, NotifyWorker, StrayNotify
    <3>3. \E point \in PointsOf(t) : Move(t, point)
      BY <1>1, <2>8 DEF NotifyRequester, StartPlaying
    <3>. QED
      BY <3>2, <3>3 DEF SessionStepOf
  <2>9. CASE ReceiverGivesUp(t)
    BY <1>1, <1>3, <2>9 DEF ReceiverGivesUp
  <2>. QED
    BY <1>4, <2>2, <2>3, <2>4, <2>5, <2>6, <2>7, <2>8, <2>9 DEF ReceiverStep
<1>5. CASE t = AudioPlayer /\ (PlayerStep(t) \/ PlayLoop(t))
  <2>1. CASE PlayerWaits(t)
    BY <1>1, <2>1 DEF PlayerWaits, InSession, AwaitInSession, SessionStepOf,
                      BackToBarrier, Inside, FallsAsleep
  <2>2. CASE PlayerStops(t)
    BY <1>5, <2>2, ThreeWorkers
       DEF PlayerStops, BackToBarrier, SessionStepOf, SleepInv, MaySleep, InSession
  <2>3. CASE PlayLoop(t)
    BY <1>1, <1>2, <2>3 DEF PlayLoop
  <2>4. CASE PlayerGivesUp(t)
    BY <1>1, <1>3, <2>4 DEF PlayerGivesUp
  <2>. QED
    BY <1>5, <2>1, <2>2, <2>3, <2>4 DEF PlayerStep
<1>6. CASE t = RexmitRequester /\ RequesterStep(t)
  <2>1. CASE RequesterWaits(t) \/ RequesterWaitsForFirst(t)
    BY <1>1, <1>6, <2>1
       DEF RequesterWaits, RequesterWaitsForFirst, InSession, AwaitInSession,
           SessionStepOf, BackToBarrier, Inside, FallsAsleep
  <2>2. CASE RequesterSetsUp(t) \/ AlarmWakes(t)
    BY <1>1, <1>2, <1>6, <2>2 DEF RequesterSetsUp, AlarmWakes
  <2>3. CASE RequestLoop(t)
    BY <1>1, <2>3, LoopIsSessionStep DEF RequestLoop, InSession
  <2>. QED
    BY <1>6, <2>1, <2>2, <2>3 DEF RequesterStep
<1>. QED
  BY <1>4, <1>5, <1>6 DEF WorkerInSession

\* Only a thread that is awake takes a step of its session.
LEMMA WorkerIsAwake ==
  ASSUME SleepInv, NEW t \in Threads, WorkerInSession(t)
  PROVE  awake[t]
<1>1. CASE ~(at[t] = "wait" \/ (t = RexmitRequester /\ at[t] = "first"))
  BY <1>1 DEF WorkerInSession, SleepInv, MaySleep
<1>2. CASE /\ at[t] = "wait" \/ (t = RexmitRequester /\ at[t] = "first")
           /\ t # RexmitRequester
  BY <1>2 DEF WorkerInSession, ReceiverStep, ReceiverWaits, UpdateSock,
         UpdateSockThrows, FirstLoop, RestLoop, ReadOfClosedSock, SaveFirst,
         CommitFirst, NotifyRequester, SaveNext, ReceiverGivesUp, StartPlaying,
         NotYetPlaying, ReadDatagram, ReadUnwanted, InSession, AwaitInSession,
         PlayerStep, PlayerWaits, PlayerStops, PlayerGivesUp, PlayLoop
<1>3. CASE t = RexmitRequester /\ (at[t] = "wait" \/ at[t] = "first")
  BY <1>3, ThreeWorkers DEF WorkerInSession, RequesterStep, RequesterWaits,
         RequesterSetsUp, RequestLoop, RequesterWaitsForFirst, AlarmWakes,
         InSession, AwaitInSession
<1>. QED
  BY <1>1, <1>2, <1>3

\* What main, the alarm, the users and the stations do to the barrier.
OthersStep ==
  \/ MainStops \/ MainRequests \/ MainInits \/ MainEnds
  \/ \E recent \in BOOLEAN :
       \/ MainLooks(recent)
       \/ /\ MainSleeps(recent, AudioNeedsMain)
          /\ UNCHANGED <<barrierVars, at, playFlags, audioVars>>
  \/ Surroundings /\ UNCHANGED <<barrierVars, at, playFlags, audioVars>>

\* Every step is one of a worker in the barrier or in its session, or of others.
LEMMA WhoseStep ==
  ASSUME SessionNext
  PROVE  \/ \E t \in Threads : PassBarrier(t) \/ WorkerInSession(t)
         \/ OthersStep
<1>1. \A t : ReceiverStep(t) \/ ReadDatagram(t) \/ ReadUnwanted(t) => pc[t] = "session"
  BY DEF ReceiverStep, ReceiverWaits, UpdateSock, UpdateSockThrows, FirstLoop,
         RestLoop, ReadOfClosedSock, SaveFirst, CommitFirst, NotifyRequester,
         SaveNext, ReceiverGivesUp, StartPlaying, NotYetPlaying, ReadDatagram,
         ReadUnwanted, InSession
<1>2. \A t : PlayerStep(t) \/ PlayLoop(t) => pc[t] = "session"
  BY DEF PlayerStep, PlayerWaits, PlayerStops, PlayerGivesUp, PlayLoop, InSession
<1>3. \A t : RequesterStep(t) => pc[t] = "session"
  BY DEF RequesterStep, RequesterWaits, RequesterSetsUp, RequestLoop,
         RequesterWaitsForFirst, AlarmWakes, InSession
<1>4. CASE \E t \in Threads : WorkerStep(t)
  BY <1>1, <1>2, <1>3, <1>4 DEF WorkerStep, WorkerInSession
<1>5. CASE Network
  BY <1>1, <1>2, <1>5, ThreeWorkers DEF Network, WorkerInSession
<1>6. CASE MainWorks \/ MainLooks(TRUE)
  BY <1>6 DEF MainWorks, OthersStep
<1>. QED
  BY <1>4, <1>5, <1>6 DEF SessionNext, OthersStep

\* The others stop and start sessions, or leave the barrier alone.
LEMMA OthersAndBarrier ==
  ASSUME OthersStep
  PROVE  /\ StopSession \/ InitSession \/ UNCHANGED barrierVars
         /\ UNCHANGED <<pc, at>>
BY DEF OthersStep, MainStops, MainRequests, MainInits, MainEnds, MainLooks,
       StopSession, InitSession, barrierVars

\* The positions in the barrier and in the session go together.
LEMMA StepKeepsAtInv ==
  ASSUME TypeOK, AtInv, SleepInv, [SessionNext]_sessionVars
  PROVE  AtInv' /\ SleepInv'
<1>. USE DEF AtInv, SleepInv, PointsOf
<1>0. AtInv /\ SleepInv /\ pc \in [Threads -> Points] /\ awake \in [Threads -> BOOLEAN]
  BY DEF TypeOK
<1>1. ASSUME NEW t \in Threads, PassBarrier(t) PROVE AtInv' /\ SleepInv'
  <2>1. BarrierStep(t) /\ at' = at
    BY <1>1 DEF PassBarrier
  <2>2. CASE AwaitBroken(t) \/ AwaitReady(t) \/ PassGate(t)
    <3>1. pc[t] \in {"broken_wait", "ready_wait", "gate"}
      BY <2>2 DEF AwaitBroken, AwaitReady, PassGate
    <3>2. \/ /\ awake' = awake /\ awake[t]
             /\ \E point \in Points : pc' = [pc EXCEPT ![t] = point]
          \/ awake' = [awake EXCEPT ![t] = FALSE] /\ pc' = pc
      BY <2>2 DEF AwaitBroken, AwaitReady, PassGate, WaitUntil, Goto, Points
    <3>. QED
      BY <1>0, <2>1, <3>1, <3>2 DEF MaySleep
  <2>3. CASE EnterEarly(t) \/ EnterLast(t) \/ Complete(t) \/ Open(t) \/ Leave(t)
    <3>1. pc[t] \in {"enter", "complete", "open", "leave"}
      BY <2>3 DEF EnterEarly, EnterLast, Complete, Open, Leave
    <3>2. \E point \in Points : pc' = [pc EXCEPT ![t] = point] /\ point # "session"
      BY <2>3 DEF EnterEarly, EnterLast, Complete, Open, Leave, Goto, Points
    <3>3. awake' = awake \/ awake' = [u \in Threads |-> TRUE]
      BY <2>3 DEF EnterEarly, EnterLast, Complete, Open, Leave, NotifyThreads
    <3>4. awake[t]
      BY <1>0, <3>1 DEF MaySleep
    <3>. QED
      BY <1>0, <2>1, <3>1, <3>2, <3>3, <3>4 DEF MaySleep
  <2>. QED
    BY <2>1, <2>2, <2>3 DEF BarrierStep
<1>2. ASSUME NEW t \in Threads, WorkerInSession(t) PROVE AtInv' /\ SleepInv'
  <2>1. SessionStepOf(t) /\ pc[t] = "session"
    BY <1>2, SessionSteps DEF WorkerInSession
  <2>0. awake[t]
    BY <1>2, WorkerIsAwake
  <2>2. CASE ReturnToBarrier(t) /\ Move(t, "wait") /\ awake[t]
    BY <1>0, <2>1, <2>2 DEF ReturnToBarrier, Goto, Move, MaySleep, SessionPoints
  <2>3. CASE RaiseError(t) /\ \E point \in PointsOf(t) : Move(t, point)
    <3>1. PICK point \in PointsOf(t) : at' = [at EXCEPT ![t] = point]
      BY <2>3 DEF Move
    <3>2. UNCHANGED <<pc, awake>>
      BY <2>3 DEF RaiseError
    <3>. QED
      BY <1>0, <2>0, <2>1, <3>1, <3>2 DEF MaySleep
  <2>4. CASE FallsAsleep(t)
    <3>1. awake' = [awake EXCEPT ![t] = FALSE] /\ UNCHANGED <<pc, at>>
      BY <2>4 DEF FallsAsleep
    <3>2. MaySleep(t)
      BY <2>4 DEF FallsAsleep, InSession, MaySleep
    <3>. QED
      BY <1>0, <3>1, <3>2 DEF MaySleep
  <2>5. CASE \E u \in Threads, point \in PointsOf(t) :
               StrayNotify(u) /\ Move(t, point)
    <3>1. PICK u \in Threads, point \in PointsOf(t) :
            StrayNotify(u) /\ Move(t, point)
      BY <2>5
    <3>2. /\ awake' = [awake EXCEPT ![u] = TRUE] /\ UNCHANGED pc
          /\ at' = [at EXCEPT ![t] = point]
      BY <3>1 DEF StrayNotify, Move
    <3>. QED
      BY <1>0, <2>0, <2>1, <3>2 DEF MaySleep
  <2>6. CASE UNCHANGED barrierVars /\ \E point \in PointsOf(t) : Move(t, point)
    BY <1>0, <2>0, <2>1, <2>6 DEF barrierVars, Move, MaySleep
  <2>. QED
    BY <2>1, <2>2, <2>3, <2>4, <2>5, <2>6 DEF SessionStepOf
<1>3. CASE OthersStep
  <2>1. UNCHANGED <<pc, at>>
    BY <1>3, OthersAndBarrier
  <2>2. awake' = awake \/ awake' = [u \in Threads |-> TRUE]
    BY <1>3, OthersAndBarrier DEF StopSession, InitSession, NotifyThreads, barrierVars
  <2>. QED
    BY <1>0, <2>1, <2>2 DEF MaySleep
<1>4. CASE UNCHANGED sessionVars
  BY <1>0, <1>4 DEF sessionVars, barrierVars, MaySleep
<1>. QED
  BY <1>1, <1>2, <1>3, <1>4, WhoseStep

\* Who sleeps and who is awake is nothing to the rounds of the barrier.
LEMMA SleepKeepsIInv ==
  ASSUME IInv, UNCHANGED <<pc, counters, flags>>, awake' \in [Threads -> BOOLEAN]
  PROVE  IInv'
<1>1. TypeOK'
  BY DEF IInv, TypeOK, counters, flags, barrier_size
<1>2. Gathering' \/ Scattering'
  BY KeepPhase DEF IInv
<1>. QED
  BY <1>1, <1>2 DEF IInv, ReadyMeansParked, Parked, flags

\* The invariant of the barrier, with the positions and the sleep of the
\* sessions, which it needs to know that a thread comes back awake.
BarrierInv == IInv /\ AtInv /\ SleepInv

\* Every step of the sessions keeps it.
LEMMA StepKeepsBarrierInv ==
  ASSUME BarrierInv, [SessionNext]_sessionVars
  PROVE  BarrierInv'
<1>. USE DEF BarrierInv
<1>1. AtInv' /\ SleepInv'
  BY StepKeepsAtInv DEF IInv
<1>2. awake \in [Threads -> BOOLEAN]
  BY DEF IInv, TypeOK
<1>3. ASSUME NEW t \in Threads, PassBarrier(t) PROVE IInv'
  <2>1. BarrierStep(t)
    BY <1>3 DEF PassBarrier
  <2>. QED
    BY <2>1, QuietStepKeepsIInv, EnterEarlyKeepsIInv, EnterLastKeepsIInv,
       CompleteKeepsIInv, OpenKeepsIInv, AwaitReadyKeepsIInv, LeaveKeepsIInv
       DEF BarrierStep
<1>4. ASSUME NEW t \in Threads, WorkerInSession(t) PROVE IInv'
  <2>1. SessionStepOf(t)
    BY <1>4, SessionSteps
  <2>2. CASE FallsAsleep(t)
    <3>1. awake' \in [Threads -> BOOLEAN]
      BY <1>2, <2>2 DEF FallsAsleep
    <3>. QED
      BY <2>2, <3>1, SleepKeepsIInv DEF FallsAsleep
  <2>3. CASE UNCHANGED barrierVars
    BY <1>2, <2>3, SleepKeepsIInv DEF barrierVars
  <2>4. CASE \E u \in Threads : ReturnToBarrier(u) \/ RaiseError(u) \/ StrayNotify(u)
    BY <2>4, QuietStepKeepsIInv
  <2>. QED
    BY <2>1, <2>2, <2>3, <2>4 DEF SessionStepOf
<1>5. ASSUME OthersStep PROVE IInv'
  <2>1. CASE StopSession \/ InitSession
    BY <2>1, MainKeepsIInv
  <2>2. CASE UNCHANGED barrierVars
    BY <1>2, <2>2, SleepKeepsIInv DEF barrierVars
  <2>. QED
    BY <1>5, <2>1, <2>2, OthersAndBarrier
<1>6. ASSUME UNCHANGED sessionVars PROVE IInv'
  BY <1>2, <1>6, SleepKeepsIInv DEF sessionVars, barrierVars
<1>. QED
  BY <1>1, <1>3, <1>4, <1>5, <1>6, WhoseStep

\* The barrier's invariant holds while sessions come and go.
THEOREM BarrierInvIsInvariant == SessionSpec => []BarrierInv
<1>1. SessionInit => BarrierInv
  <2>. SUFFICES ASSUME SessionInit PROVE BarrierInv
    OBVIOUS
  <2>1. IInv
    BY InitIInv DEF SessionInit
  <2>2. AtInv /\ SleepInv
    BY DEF SessionInit, Init, AtInv, SleepInv, PointsOf, SessionPoints
  <2>. QED
    BY <2>1, <2>2 DEF BarrierInv
<1>. QED
  BY <1>1, StepKeepsBarrierInv, PTL DEF SessionSpec

\* While main clears the buffer and changes the addresses, every worker is
\* parked, with all that the workers do in their sessions.
THEOREM SessionReadyMeansParked == SessionSpec => []ReadyMeansParked
<1>1. BarrierInv => ReadyMeansParked
  BY DEF BarrierInv, IInv
<1>. QED
  BY <1>1, BarrierInvIsInvariant, PTL

\* The rounds of the barrier stay apart in the sessions as well.
THEOREM SessionRoundsDoNotMix == SessionSpec => []RoundsDoNotMix
<1>1. BarrierInv => RoundsDoNotMix
  BY DEF BarrierInv, IInv, Gathering, Scattering, RoundsDoNotMix
<1>. QED
  BY <1>1, BarrierInvIsInvariant, PTL

-----------------------------------------------------------------------------
(* The refinement.                                                         *)

awakeBar == [t \in Threads |-> awake[t] \/ pc[t] = "session"]

\* Both barriers count the same threads.
LEMMA SameSize == BarrierOfSession!barrier_size = barrier_size
BY DEF barrier_size, Cardinality, IsFiniteSet, BarrierOfSession!barrier_size,
       BarrierOfSession!Cardinality, BarrierOfSession!IsFiniteSet

\* A step of a worker in the barrier is the same step of the abstract one.
LEMMA BarrierStepMaps ==
  ASSUME pc \in [Threads -> Points], awake \in [Threads -> BOOLEAN],
         NEW t \in Threads, BarrierStep(t)
  PROVE  BarrierOfSession!BarrierStep(t)
<1>. USE DEF awakeBar
<1>1. CASE AwaitBroken(t)
  <2>1. awakeBar' = IF broken_cnt = barrier_size THEN awakeBar
                    ELSE [awakeBar EXCEPT ![t] = FALSE]
    BY <1>1 DEF AwaitBroken, WaitUntil, Goto
  <2>. QED
    BY <1>1, <2>1, SameSize DEF AwaitBroken, WaitUntil, Goto, counters, flags,
         BarrierOfSession!BarrierStep, BarrierOfSession!AwaitBroken,
         BarrierOfSession!WaitUntil, BarrierOfSession!Goto,
         BarrierOfSession!counters, BarrierOfSession!flags
<1>2. CASE AwaitReady(t)
  <2>1. awakeBar' = IF ready_cnt = barrier_size THEN awakeBar
                    ELSE [awakeBar EXCEPT ![t] = FALSE]
    BY <1>2 DEF AwaitReady, WaitUntil, Goto
  <2>. QED
    BY <1>2, <2>1, SameSize DEF AwaitReady, WaitUntil, Goto, counters, flags,
         BarrierOfSession!BarrierStep, BarrierOfSession!AwaitReady,
         BarrierOfSession!WaitUntil, BarrierOfSession!Goto,
         BarrierOfSession!counters, BarrierOfSession!flags
<1>3. CASE PassGate(t)
  <2>1. awakeBar' = IF barrier_should_be_reached \/ resources_for_receiving_ready
                    THEN awakeBar ELSE [awakeBar EXCEPT ![t] = FALSE]
    BY <1>3 DEF PassGate, WaitUntil, Goto
  <2>. QED
    BY <1>3, <2>1 DEF PassGate, WaitUntil, Goto, counters, flags,
         BarrierOfSession!BarrierStep, BarrierOfSession!PassGate,
         BarrierOfSession!WaitUntil, BarrierOfSession!Goto,
         BarrierOfSession!counters, BarrierOfSession!flags
<1>4. CASE EnterEarly(t) \/ EnterLast(t) \/ Complete(t)
  <2>1. awakeBar' = awakeBar
    BY <1>4 DEF EnterEarly, EnterLast, Complete, Goto
  <2>. QED
    BY <1>4, <2>1, SameSize DEF EnterEarly, EnterLast, Complete, Goto, counters, flags,
         BarrierMutexFree,
         BarrierOfSession!BarrierStep, BarrierOfSession!EnterEarly,
         BarrierOfSession!EnterLast, BarrierOfSession!Complete,
         BarrierOfSession!Goto, BarrierOfSession!counters,
         BarrierOfSession!flags,
         BarrierOfSession!BarrierMutexFree
<1>5. CASE Open(t)
  <2>1. awakeBar' = [u \in Threads |-> TRUE]
    BY <1>5 DEF Open, NotifyThreads
  <2>. QED
    BY <1>5, <2>1 DEF Open, Goto, flags, BarrierOfSession!BarrierStep,
         BarrierOfSession!Open, BarrierOfSession!Goto,
         BarrierOfSession!NotifyThreads, BarrierOfSession!flags
<1>6. CASE Leave(t)
  <2>1. awakeBar' = IF broken_cnt + 1 = barrier_size
                    THEN [u \in Threads |-> TRUE] ELSE awakeBar
    BY <1>6 DEF Leave, NotifyThreads, Goto
  <2>. QED
    BY <1>6, <2>1, SameSize DEF Leave, Goto, flags, BarrierMutexFree,
         BarrierOfSession!BarrierStep, BarrierOfSession!Leave,
         BarrierOfSession!Goto, BarrierOfSession!NotifyThreads,
         BarrierOfSession!flags,
         BarrierOfSession!BarrierMutexFree
<1>. QED
  BY <1>1, <1>2, <1>3, <1>4, <1>5, <1>6 DEF BarrierStep

\* A step that only tells who sleeps in a session is none of the barrier.
LEMMA SleepMapsToStutter ==
  ASSUME UNCHANGED <<pc, counters, flags>>, awakeBar' = awakeBar
  PROVE  UNCHANGED BarrierOfSession!barrierVars
BY DEF counters, flags, awakeBar, BarrierOfSession!barrierVars,
       BarrierOfSession!counters, BarrierOfSession!flags

\* Every step of the sessions is a step of the barrier, or none of it.
LEMMA SessionStepMaps ==
  ASSUME BarrierInv, [SessionNext]_sessionVars
  PROVE  [BarrierOfSession!Next]_(BarrierOfSession!barrierVars)
<1>0. pc \in [Threads -> Points] /\ awake \in [Threads -> BOOLEAN]
  BY DEF BarrierInv, IInv, TypeOK
<1>1. ASSUME NEW t \in Threads, PassBarrier(t) PROVE BarrierOfSession!Next
  BY <1>0, <1>1, BarrierStepMaps DEF PassBarrier, BarrierOfSession!Next
<1>2. ASSUME NEW t \in Threads, WorkerInSession(t)
      PROVE  [BarrierOfSession!Next]_(BarrierOfSession!barrierVars)
  <2>1. SessionStepOf(t)
    BY <1>2, SessionSteps DEF BarrierInv
  <2>2. CASE FallsAsleep(t)
    <3>1. awakeBar' = awakeBar
      BY <1>0, <2>2 DEF FallsAsleep, InSession, awakeBar
    <3>. QED
      BY <2>2, <3>1, SleepMapsToStutter DEF FallsAsleep
  <2>3. CASE UNCHANGED barrierVars
    BY <2>3, SleepMapsToStutter DEF barrierVars, awakeBar
  <2>4. CASE ReturnToBarrier(t) /\ awake[t]
    <3>1. awakeBar' = awakeBar
      BY <1>0, <2>4 DEF ReturnToBarrier, Goto, awakeBar
    <3>. QED
      BY <2>4, <3>1 DEF ReturnToBarrier, Goto, counters, flags, awakeBar,
           BarrierOfSession!Next, BarrierOfSession!ReturnToBarrier,
           BarrierOfSession!Goto, BarrierOfSession!counters,
           BarrierOfSession!flags
  <2>5. CASE RaiseError(t)
    <3>1. awakeBar' = awakeBar
      BY <2>5 DEF RaiseError, awakeBar
    <3>. QED
      BY <2>5, <3>1 DEF RaiseError, counters, awakeBar,
           BarrierOfSession!Next, BarrierOfSession!RaiseError,
           BarrierOfSession!counters
  <2>6. ASSUME NEW u \in Threads, StrayNotify(u) PROVE BarrierOfSession!Next
    <3>1. awakeBar' = [awakeBar EXCEPT ![u] = TRUE]
      BY <1>0, <2>6 DEF StrayNotify, awakeBar
    <3>. QED
      BY <2>6, <3>1 DEF StrayNotify, counters, flags, awakeBar,
           BarrierOfSession!Next, BarrierOfSession!StrayNotify,
           BarrierOfSession!counters, BarrierOfSession!flags
  <2>. QED
    BY <2>1, <2>2, <2>3, <2>4, <2>5, <2>6 DEF SessionStepOf
<1>3. ASSUME OthersStep
      PROVE  [BarrierOfSession!Next]_(BarrierOfSession!barrierVars)
  <2>1. CASE UNCHANGED barrierVars
    BY <2>1, SleepMapsToStutter DEF barrierVars, awakeBar
  <2>2. CASE StopSession \/ InitSession
    <3>1. awakeBar' = [u \in Threads |-> TRUE]
      BY <2>2 DEF StopSession, InitSession, NotifyThreads, awakeBar
    <3>. QED
      BY <2>2, <3>1 DEF StopSession, InitSession, counters, awakeBar,
           BarrierOfSession!Next, BarrierOfSession!StopSession,
           BarrierOfSession!InitSession, BarrierOfSession!NotifyThreads,
           BarrierOfSession!counters
  <2>. QED
    BY <1>3, <2>1, <2>2, OthersAndBarrier
<1>4. ASSUME UNCHANGED sessionVars
      PROVE  UNCHANGED BarrierOfSession!barrierVars
  BY <1>4, SleepMapsToStutter DEF sessionVars, barrierVars, awakeBar
<1>. QED
  BY <1>1, <1>2, <1>3, <1>4, WhoseStep

\* Whatever the workers do between two barriers, whoever sleeps and whoever is
\* notified there, the barrier is the one of Barrier.
THEOREM SessionImplementsBarrier == SessionSpec => ImplementsBarrier
<1>1. SessionInit => BarrierOfSession!Init
  BY SameSize DEF SessionInit, Init, BarrierOfSession!Init
<1>. QED
  BY <1>1, SessionStepMaps, BarrierInvIsInvariant, PTL
     DEF SessionSpec, ImplementsBarrier, BarrierOfSession!Spec

-----------------------------------------------------------------------------
(* What the stations have sent.                                            *)

\* A worker moves nobody but itself.
LEMMA OthersKeepTheirPlace ==
  ASSUME BarrierInv, NEW t \in Threads, WorkerInSession(t), NEW u \in Threads \ {t}
  PROVE  pc'[u] = pc[u] /\ at'[u] = at[u]
<1>1. SessionStepOf(t)
  BY SessionSteps DEF BarrierInv
<1>2. pc'[u] = pc[u]
  BY <1>1 DEF SessionStepOf, ReturnToBarrier, Goto, RaiseError, FallsAsleep,
     StrayNotify, barrierVars, BarrierInv, IInv, TypeOK
<1>3. at'[u] = at[u]
  BY <1>1 DEF SessionStepOf, Move, FallsAsleep, BarrierInv, AtInv
<1>. QED
  BY <1>2, <1>3

\* A thread that passes the barrier is at the beginning of its loop.
LEMMA PassingMoves ==
  ASSUME BarrierInv, NEW t \in Threads, PassBarrier(t)
  PROVE  /\ UNCHANGED <<at, playFlags, audioVars>>
         /\ pc[t] # "session" /\ at[t] = "wait"
         /\ \A u \in Threads \ {t} : pc'[u] = pc[u]
<1>0. pc \in [Threads -> Points] /\ AtInv
  BY DEF BarrierInv, IInv, TypeOK
<1>1. pc[t] # "session" /\ UNCHANGED <<at, playFlags, audioVars>>
  BY DEF PassBarrier, BarrierStep, AwaitBroken, EnterEarly, EnterLast,
         Complete, Open, AwaitReady, Leave, PassGate
<1>2. pc' = pc \/ \E point : pc' = [pc EXCEPT ![t] = point]
  BY DEF PassBarrier, BarrierStep, AwaitBroken, EnterEarly, EnterLast,
     Complete, Open, AwaitReady, Leave, PassGate, WaitUntil, Goto
<1>. QED
  BY <1>0, <1>1, <1>2 DEF AtInv

\* A worker that is not the audio receiver has nothing to do with the buffer.
LEMMA OtherWorkersKeepAudio ==
  ASSUME NEW t \in Threads, WorkerInSession(t), t # AudioReceiver
  PROVE  UNCHANGED audioVars
BY DEF WorkerInSession, PlayerStep, PlayerWaits, PlayerStops, PlayerGivesUp,
       PlayLoop, RequesterStep, RequesterWaits, RequesterSetsUp, RequestLoop,
       RequesterWaitsForFirst, AlarmWakes, AwaitInSession, BackToBarrier,
       AskForRestart, LoopHead

\* Where the audio receiver is after a step of its session.
LEMMA ReceiverMoves ==
  ASSUME NEW t \in Threads, NEW point, AtInv, pc \in [Threads -> Points]
  PROVE  /\ Move(t, point) => at'[t] = point
         /\ Inside(t, point) => at'[t] = point /\ pc'[t] = pc[t]
         /\ BackToBarrier(t) => pc'[t] = "broken_wait"
BY DEF Move, Inside, BackToBarrier, ReturnToBarrier, Goto, AtInv, barrierVars

\* A step of the audio receiver reads and saves only what its station sends.
LEMMA ReceiverKeepsBufferInv ==
  ASSUME BufferInv, AtInv, pc \in [Threads -> Points],
         NEW t \in Threads, t = AudioReceiver, WorkerInSession(t)
  PROVE  BufferInv'
<1>. USE ReceiverMoves
<1>. USE DEF BufferInv, SockInv, Receiving, BufferHoldsOneStation, InSession
<1>1. CASE ReceiverWaits(t)
  <2>. QED
    BY <1>1 DEF ReceiverWaits, AwaitInSession, audioVars, BackToBarrier
<1>2. CASE UpdateSock(t) \/ UpdateSockThrows(t)
  BY <1>2 DEF UpdateSock, UpdateSockThrows
<1>3. CASE FirstLoop(t) \/ RestLoop(t)
  BY <1>3 DEF FirstLoop, RestLoop, LoopHead, audioVars, BackToBarrier
<1>4. CASE ReadOfClosedSock(t) \/ ReadUnwanted(t)
  BY <1>4 DEF ReadOfClosedSock, ReadUnwanted, audioVars
<1>5. CASE ReadDatagram(t)
  BY <1>5 DEF ReadDatagram
<1>6. CASE SaveFirst(t) \/ SaveNext(t)
  BY <1>6 DEF SaveFirst, SaveNext, SaveDatagram
<1>7. CASE CommitFirst(t) \/ NotYetPlaying(t)
  BY <1>7 DEF CommitFirst, NotYetPlaying, audioVars
<1>8. CASE NotifyRequester(t) \/ StartPlaying(t)
  BY <1>8 DEF NotifyRequester, StartPlaying, audioVars
<1>9. CASE ReceiverGivesUp(t)
  BY <1>9 DEF ReceiverGivesUp, AskForRestart, RaiseError, audioVars
<1>. QED
  BY <1>1, <1>2, <1>3, <1>4, <1>5, <1>6, <1>7, <1>8, <1>9, ThreeWorkers
     DEF WorkerInSession, ReceiverStep

\* Main changes the station only while the receiver is parked.
LEMMA StepKeepsBufferInv ==
  ASSUME BarrierInv, BufferInv, [SessionNext]_sessionVars
  PROVE  BufferInv'
<1>0. /\ pc \in [Threads -> Points] /\ AtInv /\ SleepInv /\ ReadyMeansParked
      /\ AudioReceiver \in Threads
  BY ThreeWorkers DEF BarrierInv, IInv, TypeOK
<1>1. ASSUME NEW t \in Threads, PassBarrier(t) PROVE BufferInv'
  BY <1>1, <1>0, PassingMoves DEF BufferInv, SockInv, Receiving, InSession,
     audioVars, BufferHoldsOneStation
<1>2. ASSUME NEW t \in Threads, WorkerInSession(t) PROVE BufferInv'
  <2>1. CASE t = AudioReceiver
    BY <1>0, <1>2, <2>1, ReceiverKeepsBufferInv
  <2>2. CASE t # AudioReceiver
    <3>1. /\ UNCHANGED audioVars
          /\ pc'[AudioReceiver] = pc[AudioReceiver]
          /\ at'[AudioReceiver] = at[AudioReceiver]
      BY <1>0, <1>2, <2>2, OtherWorkersKeepAudio, OthersKeepTheirPlace
    <3>. QED
      BY <3>1 DEF BufferInv, SockInv, Receiving, InSession, audioVars,
         BufferHoldsOneStation
  <2>. QED
    BY <2>1, <2>2
<1>3. CASE OthersStep
  <2>0. UNCHANGED <<pc, at>>
    BY <1>3, OthersAndBarrier
  <2>1. CASE UNCHANGED audioVars
    BY <2>0, <2>1 DEF BufferInv, SockInv, Receiving, InSession, audioVars,
       BufferHoldsOneStation
  <2>2. CASE MainStops
    BY <2>0, <2>2 DEF MainStops, BufferInv, SockInv, Receiving, InSession,
       BufferHoldsOneStation
  <2>3. CASE MainInits
    <3>1. Parked(AudioReceiver)
      BY <1>0, <2>3 DEF MainInits, InitSession, ReadyMeansParked
    <3>2. ~Receiving /\ pc[AudioReceiver] # "session"
      BY <3>1 DEF Parked, Receiving
    <3>. QED
      BY <2>0, <2>3, <3>2 DEF MainInits, BufferInv, SockInv, Receiving,
         InSession, BufferHoldsOneStation
  <2>. QED
    BY <1>3, <2>1, <2>2, <2>3 DEF OthersStep, MainRequests, MainEnds, MainLooks
<1>4. CASE UNCHANGED sessionVars
  BY <1>4 DEF sessionVars, barrierVars, BufferInv, SockInv, Receiving,
     InSession, audioVars, BufferHoldsOneStation
<1>. QED
  BY <1>1, <1>2, <1>3, <1>4, WhoseStep

\* The buffer holds data of the session's station alone, for every list of
\* stations and every choice of the user.
THEOREM BufferStaysOfOneStation == SessionSpec => []BufferHoldsOneStation
<1>1. SessionInit => BufferInv
  BY ThreeWorkers DEF SessionInit, Init, BufferInv, SockInv, Receiving, InSession,
         BufferHoldsOneStation
<1>2. BufferInv => BufferHoldsOneStation
  BY DEF BufferInv
<1>. QED
  BY <1>1, <1>2, StepKeepsBufferInv, BarrierInvIsInvariant, PTL DEF SessionSpec

-----------------------------------------------------------------------------
(* The first byte of the session.                                          *)

\* The receiver keeps to the first byte, which it alone announces.
LEMMA ReceiverKeepsFirstByteInv ==
  ASSUME FirstByteInv, BarrierInv, pc \in [Threads -> Points],
         NEW t \in Threads, t = AudioReceiver, WorkerInSession(t)
  PROVE  FirstByteInv'
<1>0. AtInv
  BY DEF BarrierInv
<1>00. pc'[RexmitRequester] = pc[RexmitRequester]
       /\ at'[RexmitRequester] = at[RexmitRequester]
  BY ThreeWorkers, OthersKeepTheirPlace
<1>. USE <1>0, <1>00, ReceiverMoves
<1>. USE DEF FirstByteInv, InSession, playFlags
<1>1. CASE ReceiverWaits(t)
  BY <1>1 DEF ReceiverWaits, AwaitInSession, BackToBarrier
<1>2. CASE UpdateSock(t) \/ UpdateSockThrows(t)
  BY <1>2 DEF UpdateSock, UpdateSockThrows
<1>3. CASE FirstLoop(t)
  BY <1>3 DEF FirstLoop, LoopHead, BackToBarrier
<1>31. CASE RestLoop(t)
  BY <1>31 DEF RestLoop, LoopHead, BackToBarrier
<1>4. CASE ReadOfClosedSock(t) \/ ReadUnwanted(t)
  BY <1>4 DEF ReadOfClosedSock, ReadUnwanted
<1>5. CASE ReadDatagram(t)
  BY <1>5 DEF ReadDatagram
<1>6. CASE SaveFirst(t) \/ SaveNext(t)
  BY <1>6 DEF SaveFirst, SaveNext, SaveDatagram
<1>7. CASE CommitFirst(t) \/ NotYetPlaying(t)
  BY <1>7 DEF CommitFirst, NotYetPlaying
<1>8. CASE NotifyRequester(t) \/ StartPlaying(t)
  BY <1>8 DEF NotifyRequester, StartPlaying
<1>9. CASE ReceiverGivesUp(t)
  BY <1>9 DEF ReceiverGivesUp, AskForRestart, RaiseError
<1>. QED
  BY <1>1, <1>2, <1>3, <1>31, <1>4, <1>5, <1>6, <1>7, <1>8, <1>9, ThreeWorkers
     DEF WorkerInSession, ReceiverStep

\* The requester starts to scan behind the first byte, the player leaves the
\* flags alone, and a barrier that is asked for stays so until all are there.
LEMMA StepKeepsFirstByteInv ==
  ASSUME BarrierInv, FirstByteInv, [SessionNext]_sessionVars
  PROVE  FirstByteInv'
<1>. USE ThreeWorkers DEF FirstByteInv, InSession, playFlags
<1>0. pc \in [Threads -> Points] /\ AtInv /\ ReadyMeansParked
  BY DEF BarrierInv, IInv, TypeOK
<1>1. ASSUME NEW t \in Threads, PassBarrier(t) PROVE FirstByteInv'
  <2>1. /\ UNCHANGED <<at, playFlags>> /\ at[t] = "wait" /\ pc[t] # "session"
        /\ \A u \in Threads \ {t} : pc'[u] = pc[u]
    BY <1>1, PassingMoves
  <2>2. barrier_should_be_reached' = barrier_should_be_reached
        \/ pc[AudioReceiver] # "session"
    <3>1. CASE Complete(t)
      BY <1>0, <2>1, <3>1 DEF Complete, BarrierInv, IInv, Gathering, Scattering
    <3>2. CASE ~Complete(t)
      BY <1>1, <3>2 DEF PassBarrier, BarrierStep, AwaitBroken, EnterEarly,
         EnterLast, Open, AwaitReady, Leave, PassGate, WaitUntil, flags
    <3>. QED
      BY <3>1, <3>2
  <2>. QED
    BY <2>1, <2>2
<1>2. ASSUME NEW t \in Threads, WorkerInSession(t) PROVE FirstByteInv'
  <2>1. CASE t = AudioReceiver
    BY <1>0, <1>2, <2>1, ReceiverKeepsFirstByteInv
  <2>2. CASE t = AudioPlayer
    <3>1. \A u \in Threads \ {t} : pc'[u] = pc[u] /\ at'[u] = at[u]
      BY <1>2, OthersKeepTheirPlace
    <3>2. /\ UNCHANGED <<audio_receiving, audio_playing, first_byte_num_was_set>>
          /\ barrier_should_be_reached => barrier_should_be_reached'
      BY <1>2, <2>2 DEF WorkerInSession, PlayerStep, PlayerWaits, PlayerStops,
         PlayerGivesUp, PlayLoop, AwaitInSession, BackToBarrier, AskForRestart,
         ReturnToBarrier, RaiseError, Inside, barrierVars, flags
    <3>. QED
      BY <2>2, <3>1, <3>2
  <2>3. CASE t = RexmitRequester
    <3>1. \A u \in Threads \ {t} : pc'[u] = pc[u] /\ at'[u] = at[u]
      BY <1>2, OthersKeepTheirPlace
    <3>2. /\ UNCHANGED playFlags
          /\ barrier_should_be_reached => barrier_should_be_reached'
      BY <1>2, <2>3 DEF WorkerInSession, RequesterStep, RequesterWaits,
         RequesterSetsUp, RequestLoop, RequesterWaitsForFirst, AlarmWakes,
         AwaitInSession, BackToBarrier, LoopHead, ReturnToBarrier, Inside,
         barrierVars, flags
    <3>3. InSession(t, "scan")' \/ InSession(t, "nap")' =>
            \/ InSession(t, "scan") \/ InSession(t, "nap")
            \/ first_byte_num_was_set
      BY <1>0, <1>2, <2>3, ReceiverMoves DEF WorkerInSession, RequesterStep, RequesterWaits,
         RequesterSetsUp, RequestLoop, RequesterWaitsForFirst, AlarmWakes,
         AwaitInSession, LoopHead
    <3>. QED
      BY <2>3, <3>1, <3>2, <3>3
  <2>. QED
    BY <1>2, <2>1, <2>2, <2>3 DEF WorkerInSession
<1>3. CASE OthersStep
  <2>0. UNCHANGED <<pc, at>>
    BY <1>3, OthersAndBarrier
  <2>1. CASE MainStops
    BY <2>0, <2>1 DEF MainStops, barrierVars, flags
  <2>2. CASE MainInits
    <3>1. \A t \in Threads : pc[t] # "session"
      BY <1>0, <2>2 DEF MainInits, InitSession, ReadyMeansParked, Parked
    <3>. QED
      BY <2>0, <2>2, <3>1 DEF MainInits
  <2>3. CASE ~MainStops /\ ~MainInits
    <3>1. /\ UNCHANGED <<audio_receiving, audio_playing, first_byte_num_was_set>>
          /\ barrier_should_be_reached => barrier_should_be_reached'
      <4>1. CASE MainRequests
        BY <4>1 DEF MainRequests, StopSession
      <4>2. CASE ~MainRequests
        BY <1>3, <2>3, <4>2 DEF OthersStep, MainEnds, MainLooks, barrierVars,
           flags
      <4>. QED
        BY <4>1, <4>2
    <3>. QED
      BY <2>0, <3>1
  <2>. QED
    BY <2>1, <2>2, <2>3
<1>4. CASE UNCHANGED sessionVars
  BY <1>4 DEF sessionVars, barrierVars, flags
<1>. QED
  BY <1>1, <1>2, <1>3, <1>4, WhoseStep

\* Nobody plays or asks for data of a session without its first byte, however
\* errors, restarts and changes of the station fall together.
THEOREM PlayingHasFirstByte == SessionSpec => []PlaysAfterFirstByte
<1>1. SessionInit => FirstByteInv
  BY ThreeWorkers DEF SessionInit, Init, FirstByteInv, InSession
<1>2. FirstByteInv /\ BarrierInv => PlaysAfterFirstByte
  <2>. SUFFICES ASSUME FirstByteInv, BarrierInv PROVE PlaysAfterFirstByte
    OBVIOUS
  <2>. QED
    BY DEF FirstByteInv, PlaysAfterFirstByte, BarrierInv, AtInv, PointsOf,
       InSession
<1>. QED
  BY <1>1, <1>2, StepKeepsFirstByteInv, BarrierInvIsInvariant, PTL DEF SessionSpec

-----------------------------------------------------------------------------
(* The types, and the choice of the station within the sessions.           *)

AudioTypeOK ==
  /\ {audio_receiving, audio_playing, first_byte_num_was_set,
      audio_playing_error, audio_receiving_should_be_initialized}
       \subseteq BOOLEAN
  /\ {audio_addr, audio_sock, datagram} \subseteq Radios \cup {None}
  /\ buffered \subseteq Radios \cup {None}

DataInv == ListInv /\ AudioTypeOK

\* What a worker tells main is a notify, and its data is of listed kinds.
LEMMA WorkersKeepDataInv ==
  ASSUME DataInv, NEW t \in Threads, PassBarrier(t) \/ WorkerInSession(t)
  PROVE  DataInv'
<1>. USE DEF DataInv
<1>1. /\ UNCHANGED <<listVars, curr_channel_change, signalVars, mpc>>
      /\ main_signal' \in {main_signal, "notified"}
  <2>. USE DEF stationsVars, mainVars, NotifyMain
  <2>1. CASE PassBarrier(t)
    BY <2>1 DEF PassBarrier
  <2>2. CASE WorkerInSession(t) /\ t = AudioReceiver
    BY <2>2, ThreeWorkers DEF WorkerInSession, ReceiverStep, ReceiverWaits,
       UpdateSock, UpdateSockThrows, FirstLoop, RestLoop, ReadOfClosedSock,
       SaveFirst, CommitFirst, NotifyRequester, SaveNext, SaveDatagram,
       ReceiverGivesUp, StartPlaying, NotYetPlaying, ReadDatagram, ReadUnwanted,
       Inside, BackToBarrier, AwaitInSession, LoopHead, AskForRestart
  <2>3. CASE WorkerInSession(t) /\ t # AudioReceiver
    BY <2>3 DEF WorkerInSession, PlayerStep, PlayerWaits, PlayerStops,
       PlayerGivesUp, PlayLoop, RequesterStep, RequesterWaits, RequesterSetsUp,
       RequestLoop, RequesterWaitsForFirst, AlarmWakes, Inside, BackToBarrier,
       AwaitInSession, LoopHead, AskForRestart
  <2>. QED
    BY <2>1, <2>2, <2>3
<1>2. ListInv'
  BY <1>1, QuietStepKeepsListInv DEF ListInv, StationsTypeOK, signalVars
<1>3. AudioTypeOK'
  <2>. USE DEF AudioTypeOK, playFlags, audioVars
  <2>1. CASE PassBarrier(t)
    BY <2>1 DEF PassBarrier
  <2>2. CASE WorkerInSession(t) /\ t = AudioReceiver
    BY <2>2, ThreeWorkers DEF WorkerInSession, ReceiverStep, ReceiverWaits,
       UpdateSock, UpdateSockThrows, FirstLoop, RestLoop, ReadOfClosedSock,
       SaveFirst, CommitFirst, NotifyRequester, SaveNext, SaveDatagram,
       ReceiverGivesUp, StartPlaying, NotYetPlaying, ReadDatagram, ReadUnwanted,
       BackToBarrier, AwaitInSession, LoopHead, AskForRestart
  <2>3. CASE WorkerInSession(t) /\ t # AudioReceiver
    BY <2>3 DEF WorkerInSession, PlayerStep, PlayerWaits, PlayerStops,
       PlayerGivesUp, PlayLoop, RequesterStep, RequesterWaits, RequesterSetsUp,
       RequestLoop, RequesterWaitsForFirst, AlarmWakes, BackToBarrier,
       AwaitInSession, LoopHead, AskForRestart
  <2>. QED
    BY <2>1, <2>2, <2>3
<1>. QED
  BY <1>2, <1>3

\* An iteration of main, in its steps.
LEMMA OthersKeepDataInv ==
  ASSUME DataInv, OthersStep
  PROVE  DataInv'
<1>. USE DEF DataInv
<1>1. ListInv'
  <2>1. CASE MainStops \/ MainRequests \/ MainInits \/ MainEnds
    <3>1. UNCHANGED <<listVars, curr_channel_change, main_signal>>
          /\ mpc' \in {"request", "init", "finish", "wait"}
      BY <2>1 DEF MainStops, MainRequests, MainInits, MainEnds, MainFinishes
    <3>2. {is_new_channel, was_alarm, alarm_counts}' \subseteq BOOLEAN
      BY <2>1 DEF MainStops, MainRequests, MainInits, MainEnds, MainFinishes,
         ListInv, StationsTypeOK, signalVars
    <3>. QED
      BY <3>1, <3>2, QuietStepKeepsListInv DEF ListInv, StationsTypeOK
  <2>2. ASSUME NEW recent \in BOOLEAN, MainLooks(recent) PROVE ListInv'
    BY <2>2, ChecksKeepListInv DEF MainLooks
  <2>3. ASSUME NEW recent \in BOOLEAN, MainSleeps(recent, AudioNeedsMain)
        PROVE  ListInv'
    BY <2>3, QuietStepKeepsListInv DEF MainSleeps, ListInv, StationsTypeOK,
       signalVars
  <2>4. CASE Surroundings
    BY <2>4, SurroundingsKeepListInv
  <2>. QED
    BY <2>1, <2>2, <2>3, <2>4 DEF OthersStep
<1>2. AudioTypeOK'
  <2>. USE DEF AudioTypeOK, playFlags, audioVars
  <2>1. CASE MainStops
    BY <2>1 DEF MainStops
  <2>2. CASE MainRequests
    BY <2>2 DEF MainRequests
  <2>3. CASE MainInits
    BY <2>3 DEF MainInits, ListInv, StationsTypeOK
  <2>. QED
    BY <2>1, <2>2, <2>3 DEF OthersStep, MainEnds, MainLooks
<1>. QED
  BY <1>1, <1>2

\* The data invariant holds through all sessions.
THEOREM DataInvIsInvariant == SessionSpec => []DataInv
<1>1. SessionInit => DataInv
  BY DEF SessionInit, StationsInit, DataInv, ListInv, StationsTypeOK,
     ChosenIsListed, AudioTypeOK
<1>2. DataInv /\ [SessionNext]_sessionVars => DataInv'
  <2>. SUFFICES ASSUME DataInv, [SessionNext]_sessionVars PROVE DataInv'
    OBVIOUS
  <2>1. CASE UNCHANGED sessionVars
    BY <2>1 DEF sessionVars, stationsVars, listVars, signalVars, mainVars,
       playFlags, audioVars, DataInv, ListInv, StationsTypeOK, ChosenIsListed,
       AudioTypeOK
  <2>. QED
    BY <2>1, WhoseStep, WorkersKeepDataInv, OthersKeepDataInv
<1>. QED
  BY <1>1, <1>2, PTL DEF SessionSpec

\* Threads, flags and stations keep their kinds through all sessions.
THEOREM SessionIsTyped == SessionSpec => []SessionTypeOK
<1>1. BarrierInv /\ DataInv => SessionTypeOK
  BY DEF BarrierInv, IInv, AtInv, DataInv, ListInv, AudioTypeOK, SessionTypeOK
<1>. QED
  BY <1>1, BarrierInvIsInvariant, DataInvIsInvariant, PTL

\* The station that is received is on the list when main looks, with all that
\* the audio threads make it do.
THEOREM SessionChosenIsListed == SessionSpec => []ChosenIsListed
<1>1. DataInv => ChosenIsListed
  BY DEF DataInv, ListInv
<1>. QED
  BY <1>1, DataInvIsInvariant, PTL
=============================================================================
