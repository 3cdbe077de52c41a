------------------------------ MODULE Barrier ------------------------------
(***************************************************************************)
(* The restart barrier of the receiver: ServerThread::reach_barrier, as    *)
(* every worker thread runs it, and the two things the main thread does to *)
(* it (asking for the barrier, opening the gate behind it).  What a worker *)
(* does between two barriers is the single control point "session".        *)
(*                                                                         *)
(* A wait on a condition variable is modelled with awake: a thread whose   *)
(* predicate is false falls asleep and evaluates it again only after a     *)
(* notify, so a wakeup that the code loses is lost in the model too.       *)
(* barrier_mutex is held exactly by the thread at "complete" or "open".    *)
(***************************************************************************)
EXTENDS Integers, FiniteSets

CONSTANT Threads   \* the worker threads that meet at the barrier

ASSUME ThreadsAssumption == IsFiniteSet(Threads) /\ Threads # {}

VARIABLES
  pc,         \* where each worker is in reach_barrier, "session" outside it
  awake,      \* FALSE: asleep in cv.wait until the next notify
  ready_cnt,
  broken_cnt,
  barrier_should_be_reached,
  ready_for_audio_receiving,
  resources_for_receiving_ready

counters == <<ready_cnt, broken_cnt>>
flags == <<barrier_should_be_reached, ready_for_audio_receiving,
           resources_for_receiving_ready>>
barrierVars == <<pc, awake, counters, flags>>

barrier_size == Cardinality(Threads)

Points == {"session", "broken_wait", "enter", "complete", "open",
           "ready_wait", "leave", "gate"}

TypeOK ==
  /\ pc \in [Threads -> Points]
  /\ awake \in [Threads -> BOOLEAN]
  /\ ready_cnt \in 0 .. barrier_size
  /\ broken_cnt \in 0 .. barrier_size
  /\ barrier_should_be_reached \in BOOLEAN
  /\ ready_for_audio_receiving \in BOOLEAN
  /\ resources_for_receiving_ready \in BOOLEAN

\* The threads start at the top of run(), on their way into reach_barrier.
Init ==
  /\ pc = [t \in Threads |-> "broken_wait"]
  /\ awake = [t \in Threads |-> TRUE]
  /\ ready_cnt = 0
  /\ broken_cnt = barrier_size
  /\ barrier_should_be_reached = TRUE
  /\ ready_for_audio_receiving = FALSE
  /\ resources_for_receiving_ready = FALSE

-----------------------------------------------------------------------------
NotifyThreads == awake' = [t \in Threads |-> TRUE]

Goto(t, point) == pc' = [pc EXCEPT ![t] = point]

BarrierMutexFree == \A t \in Threads : pc[t] \notin {"complete", "open"}

\* wait_until(predicate): pass, or fall asleep until notified.
WaitUntil(t, predicate, next) ==
  /\ awake[t]
  /\ \/ /\ predicate
        /\ Goto(t, next)
        /\ UNCHANGED awake
     \/ /\ ~predicate
        /\ awake' = [awake EXCEPT ![t] = FALSE]
        /\ UNCHANGED pc
  /\ UNCHANGED <<counters, flags>>

\* Mutants of the actions below, each a plausible slip in the code.
AwaitBrokenIgnored(t) ==
  pc[t] = "broken_wait" /\ WaitUntil(t, TRUE, "enter")
LeaveSilently(t) ==
  /\ pc[t] = "leave" /\ BarrierMutexFree
  /\ broken_cnt' = broken_cnt + 1
  /\ ready_cnt' = IF broken_cnt + 1 = barrier_size THEN 0 ELSE ready_cnt
  /\ Goto(t, "gate")
  /\ UNCHANGED <<awake, flags>>
OpenKeepingBroken(t) ==
  /\ pc[t] = "open"
  /\ ready_cnt' = ready_cnt + 1
  /\ NotifyThreads
  /\ Goto(t, "leave")
  /\ UNCHANGED <<broken_cnt, flags>>
CompleteKeepingResources(t) ==
  /\ pc[t] = "complete"
  /\ ready_for_audio_receiving' = TRUE
  /\ barrier_should_be_reached' = FALSE
  /\ Goto(t, "open")
  /\ UNCHANGED <<awake, counters, resources_for_receiving_ready>>
StopSessionAlways ==
  /\ barrier_should_be_reached' = TRUE
  /\ NotifyThreads
  /\ UNCHANGED <<pc, counters, ready_for_audio_receiving,
                 resources_for_receiving_ready>>

-----------------------------------------------------------------------------
\* The worker's loop ends or continues: back to the top, into the barrier.
ReturnToBarrier(t) ==
  /\ pc[t] = "session"
  /\ Goto(t, "broken_wait")
  /\ UNCHANGED <<awake, counters, flags>>

\* A worker that cannot go on playing asks for a restart.
RaiseError(t) ==
  /\ pc[t] = "session"
  /\ barrier_should_be_reached' = TRUE
  /\ UNCHANGED <<pc, awake, counters, ready_for_audio_receiving,
                 resources_for_receiving_ready>>

\* A notify meant for another wait of the thread: of the alarm, of a worker.
StrayNotify(t) ==
  /\ awake' = [awake EXCEPT ![t] = TRUE]
  /\ UNCHANGED <<pc, counters, flags>>

AwaitBroken(t) ==
  /\ pc[t] = "broken_wait"
  /\ WaitUntil(t, broken_cnt = barrier_size, "enter")

\* Lock barrier_mutex; not the last one: count oneself and go to wait.
EnterEarly(t) ==
  /\ pc[t] = "enter"
  /\ BarrierMutexFree
  /\ ready_cnt + 1 # barrier_size
  /\ ready_cnt' = ready_cnt + 1
  /\ Goto(t, "ready_wait")
  /\ UNCHANGED <<awake, broken_cnt, flags>>

\* Lock barrier_mutex; the last one keeps it and goes for channels_mutex.
EnterLast(t) ==
  /\ pc[t] = "enter"
  /\ BarrierMutexFree
  /\ ready_cnt + 1 = barrier_size
  /\ Goto(t, "complete")
  /\ UNCHANGED <<awake, counters, flags>>

\* Under channels_mutex: the workers are parked, main may prepare a session.
Complete(t) ==
  /\ pc[t] = "complete"
  /\ resources_for_receiving_ready' = FALSE
  /\ ready_for_audio_receiving' = TRUE
  /\ barrier_should_be_reached' = FALSE
  /\ Goto(t, "open")
  /\ UNCHANGED <<awake, counters>>

\* Release the round: everyone counted may leave; unlock barrier_mutex.
Open(t) ==
  /\ pc[t] = "open"
  /\ ready_cnt' = ready_cnt + 1
  /\ broken_cnt' = 0
  /\ NotifyThreads
  /\ Goto(t, "leave")
  /\ UNCHANGED flags

AwaitReady(t) ==
  /\ pc[t] = "ready_wait"
  /\ WaitUntil(t, ready_cnt = barrier_size, "leave")

\* Under barrier_mutex: the last one to leave resets the barrier.
Leave(t) ==
  /\ pc[t] = "leave"
  /\ BarrierMutexFree
  /\ broken_cnt' = broken_cnt + 1
  /\ IF broken_cnt + 1 = barrier_size
     THEN ready_cnt' = 0 /\ NotifyThreads
     ELSE UNCHANGED <<ready_cnt, awake>>
  /\ Goto(t, "gate")
  /\ UNCHANGED flags

PassGate(t) ==
  /\ pc[t] = "gate"
  /\ WaitUntil(t, \/ barrier_should_be_reached
                  \/ resources_for_receiving_ready, "session")

BarrierStep(t) ==
  \/ AwaitBroken(t)
  \/ EnterEarly(t)
  \/ EnterLast(t)
  \/ Complete(t)
  \/ Open(t)
  \/ AwaitReady(t)
  \/ Leave(t)
  \/ PassGate(t)

\* Main, stop_receiving_and_playing: ask for the barrier unless it is done.
StopSession ==
  /\ barrier_should_be_reached' = (barrier_should_be_reached
                                   \/ ~ready_for_audio_receiving)
  /\ NotifyThreads
  /\ UNCHANGED <<pc, counters, ready_for_audio_receiving,
                 resources_for_receiving_ready>>

\* Main, init_audio_receiving: clear the buffer, then open the gate.
InitSession ==
  /\ ready_for_audio_receiving
  /\ ready_for_audio_receiving' = FALSE
  /\ resources_for_receiving_ready' = TRUE
  /\ NotifyThreads
  /\ UNCHANGED <<pc, counters, barrier_should_be_reached>>

Next ==
  \/ \E t \in Threads :
       BarrierStep(t) \/ ReturnToBarrier(t) \/ RaiseError(t) \/ StrayNotify(t)
  \/ StopSession
  \/ InitSession

Spec == Init /\ [][Next]_barrierVars

\* A thread that can run does run, and a session that is asked to end ends.
Fairness ==
  \A t \in Threads :
    /\ WF_barrierVars(BarrierStep(t))
    /\ WF_barrierVars(barrier_should_be_reached /\ ReturnToBarrier(t))

FairSpec == Spec /\ Fairness

-----------------------------------------------------------------------------
\* A worker that may not touch the buffer, the sockets or the session data.
Parked(t) == pc[t] \in {"open", "ready_wait", "leave", "gate"}

\* While main may clear the buffer and move the sockets to another station
\* (it does so when ready_for_audio_receiving holds) every worker is parked
\* in the barrier and the gate behind it is shut.
ReadyMeansParked ==
  ready_for_audio_receiving =>
    /\ \A t \in Threads : Parked(t)
    /\ ~barrier_should_be_reached
    /\ ~resources_for_receiving_ready

\* The barrier is cyclic: nobody is counted into a new round while another
\* thread still has to be counted out of the previous one.
RoundsDoNotMix ==
  \A t, u \in Threads :
    pc[t] \in {"enter", "complete", "open"} => pc[u] # "leave"

\* A barrier that was asked for is reached by all and handed to main: no
\* worker waits for a wakeup that nobody sends.
BarrierCompletes ==
  barrier_should_be_reached ~> ready_for_audio_receiving
=============================================================================
