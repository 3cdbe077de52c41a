----------------------------- MODULE SmartThread -----------------------------
(***************************************************************************)
(* The life of the threads, class SmartThread, in the trees that the two   *)
(* programs make of them: start, terminate with the release functions that *)
(* terminate the threads further down, join, and the way each run() comes  *)
(* to see that it has to end.  SIGINT terminates the root of the tree from *)
(* a signal handler, which runs in the thread of main() while that waits   *)
(* for the root; the program ends when main() has joined the root.         *)
(*                                                                         *)
(* What a run() does is reduced to where it waits: for a notify, in a      *)
(* blocking read that a closed socket ends, or for the standard input.     *)
(* Every mutex is the cv_m of one thread.                                  *)
(*                                                                         *)
(* A definition that stands directly before another one and has its name   *)
(* with a word more is a mutant of it, a plausible slip in the code.       *)
(***************************************************************************)
EXTENDS Integers, Sequences

CONSTANTS
  Threads,       \* the threads of both programs
  Programs,      \* the trees, records as in ProgramAssumption
  Main,          \* the thread of main()
  None

Names == Threads \cup {None}
Actors == Threads \cup {Main}

\* A tree: what run() waits for, what it starts first, what the release
\* function terminates, the threads whose release function closes the socket
\* they read from, what is created later and in whose list, who is joined
\* before the end, and who is terminated at the end.
ASSUME ProgramAssumption ==
  /\ Main \notin Names /\ None \notin Threads
  /\ \A p \in Programs :
       /\ p.root \in Threads /\ p.closes \subseteq Threads
       /\ p.kind \in [Threads -> {"waits", "reads", "input", "joins"}]
       /\ p.starts \in [Threads -> Seq(Threads)]
       /\ p.releases \in [Threads -> Seq(Threads)]
       /\ \A t \in Threads :
            {p.makes[t], p.list[t], p.joins[t], p.stops[t]} \subseteq Names

\* The threads that the release function of t terminates, now or later.
Below(p, t) ==
  {p.releases[t][i] : i \in 1 .. Len(p.releases[t])}
    \cup {p.makes[u] : u \in {v \in Threads : p.list[v] = t /\ p.makes[v] # None}}

\* It is a tree: no thread is below itself, and what is created later is
\* created by one thread, into a list, and started by no other.
ASSUME TreeAssumption ==
  \A p \in Programs :
    /\ \A S \in (SUBSET Threads) \ {{}} : \E t \in S : Below(p, t) \cap S = {}
    /\ \A t \in Threads : p.makes[t] # None =>
         /\ p.list[t] # None /\ p.makes[t] # p.root
         /\ \A u \in Threads :
              /\ p.makes[u] = p.makes[t] => u = t
              /\ \A i \in 1 .. Len(p.starts[u]) : p.starts[u][i] # p.makes[t]

VARIABLES
  program,                                      \* the tree
  running, terminating, released, terminated,   \* the flags of each thread
  kids,                    \* what the release function terminates
  late,                    \* created after their creator had been released
  cv_m,                    \* the owner of each mutex
  at, started,             \* where each thread is, and how many it started
  calls,                   \* its calls of terminate, the innermost first
  send_all_and_end,
  signalled, input         \* whether SIGINT came, and the input goes on

flags == <<running, terminating, released, terminated>>
events == <<send_all_and_end, signalled, input>>
vars == <<program, flags, kids, late, cv_m, at, started, calls, events>>

SmartThreadTypeOK ==
  /\ flags \in [1 .. 4 -> [Threads -> BOOLEAN]]
  /\ cv_m \in [Threads -> Actors \cup {None}]
  /\ at \in [Actors ->
       {"none", "start", "loop", "woken", "asleep", "read", "make", "input",
        "tell", "join", "joining", "stop", "end", "gone"}]
  /\ \A a \in Actors : \A i \in 1 .. Len(calls[a]) :
       /\ calls[a][i].pc \in {"test", "lock", "release", "notify"}
       /\ calls[a][i].pc \in {"release", "notify"} => cv_m[calls[a][i].of] = a
  /\ late \subseteq Threads

SmartThreadInit ==
  /\ program \in Programs
  /\ running = [t \in Threads |-> FALSE]
  /\ terminating = running /\ released = running /\ terminated = running
  /\ kids = program.releases
  /\ late = {}
  /\ cv_m = [t \in Threads |-> None]
  /\ at = [a \in Actors |-> IF a = Main THEN "start" ELSE "none"]
  /\ started = [a \in Actors |-> 0]
  /\ calls = [a \in Actors |-> <<>>]
  /\ send_all_and_end = running
  /\ signalled = FALSE /\ input = TRUE

Starts(a) == IF a = Main THEN <<program.root>> ELSE program.starts[a]
Joined(a) == IF a = Main THEN program.root ELSE program.joins[a]

-----------------------------------------------------------------------------
\* a is at pc, and no call of terminate is under way on its stack.
Free(a, pc) == at[a] = pc /\ calls[a] = <<>>

Go(a, pc) == at' = [at EXCEPT ![a] = pc]

\* notify_all() on the condition variable of t: t itself may sleep on it, and
\* whoever joins t.
Notified(t) ==
  [a \in Actors |->
    IF a = t /\ at[a] = "asleep" THEN "loop"
    ELSE IF at[a] = "joining" /\ Joined(a) = t THEN "join"
    ELSE at[a]]

\* What run() begins with, once it has started others.
Body(t) ==
  CASE program.kind[t] \in {"waits", "reads"} -> "loop"
    [] program.kind[t] = "input" -> "input"
    [] program.kind[t] = "joins" -> "join"

FirstStep(t) == IF program.starts[t] = <<>> THEN Body(t) ELSE "start"

-----------------------------------------------------------------------------
(* start()                                                                 *)

\* A thread that was told to end already is not created any more.
StartsNow(t) == at[t] = "none" /\ ~terminating[t]

Start(a) ==
  /\ Free(a, "start")
  /\ LET t == Starts(a)[started[a] + 1]
         after == IF started[a] + 1 < Len(Starts(a)) THEN "start"
                  ELSE IF a = Main THEN "join" ELSE Body(a)
     IN /\ cv_m[t] = None
        /\ running' = [running EXCEPT ![t] = @ \/ StartsNow(t)]
        /\ at' = [at EXCEPT ![a] = after,
                            ![t] = IF StartsNow(t) THEN FirstStep(t) ELSE @]
  /\ started' = [started EXCEPT ![a] = @ + 1]
  /\ UNCHANGED <<program, terminating, released, terminated, kids, late, cv_m,
                 calls, events>>

\* The listener creates the handler of a client, under the mutex of the
\* manager and into its list; the requester a message sender of its own.
Make(t) ==
  /\ Free(t, "make")
  /\ LET x == program.makes[t]
         l == program.list[t]
     IN /\ l = t \/ cv_m[l] = None
        /\ kids' = [kids EXCEPT ![l] = Append(@, x)]
        /\ late' = IF released[l] THEN late \cup {x} ELSE late
        /\ running' = [running EXCEPT ![x] = TRUE]
        /\ at' = [at EXCEPT ![t] = "loop", ![x] = FirstStep(x)]
  /\ UNCHANGED <<program, terminating, released, terminated, cv_m, started,
                 calls, events>>

-----------------------------------------------------------------------------
(* run(), as far as it waits.                                              *)

Leave(t) == Go(t, IF program.stops[t] # None THEN "stop" ELSE "end")

\* What follows a wait or a read: the loop again, or first something new.
AfterWork(t) ==
  {"loop"} \cup IF program.makes[t] # None /\ at[program.makes[t]] = "none"
                THEN {"make"} ELSE {}

\* The head of the loop, and the exception of wait_until.
LeaveLoopKeepingMutex(t) ==
  /\ Free(t, "loop")
  /\ terminating[t] \/ send_all_and_end[t]
  /\ cv_m[t] = None /\ cv_m' = [cv_m EXCEPT ![t] = t]
  /\ Leave(t)
  /\ UNCHANGED <<program, flags, kids, late, started, calls, events>>
LeaveLoop(t) ==
  /\ Free(t, "loop")
  /\ terminating[t] \/ send_all_and_end[t]
  /\ Leave(t)
  /\ UNCHANGED <<program, flags, kids, late, cv_m, started, calls, events>>

\* wait_until: what it waits for is there, and it goes on with the mutex, or
\* it sleeps.  The flag terminating is tested under the mutex.
MayWaitUntested(t) == TRUE
MayWait(t) == ~terminating[t] /\ ~send_all_and_end[t]

Wait(t) ==
  /\ Free(t, "loop") /\ program.kind[t] = "waits"
  /\ MayWait(t) /\ cv_m[t] = None
  /\ \/ Go(t, "woken") /\ cv_m' = [cv_m EXCEPT ![t] = t]
     \/ Go(t, "asleep") /\ UNCHANGED cv_m
  /\ UNCHANGED <<program, flags, kids, late, started, calls, events>>

Unlock(t) ==
  /\ Free(t, "woken")
  /\ cv_m' = [cv_m EXCEPT ![t] = None]
  /\ \E pc \in AfterWork(t) : Go(t, pc)
  /\ UNCHANGED <<program, flags, kids, late, started, calls, events>>

Read(t) ==
  /\ Free(t, "loop") /\ program.kind[t] = "reads"
  /\ ~terminating[t]
  /\ Go(t, "read")
  /\ UNCHANGED <<program, flags, kids, late, cv_m, started, calls, events>>

\* Something comes, or the other side closes the connection.
ReadReturns(t) ==
  /\ Free(t, "read")
  /\ \/ \E pc \in AfterWork(t) : Go(t, pc)
     \/ program.stops[t] # None /\ Leave(t)
  /\ UNCHANGED <<program, flags, kids, late, cv_m, started, calls, events>>

ReadFails(t) ==
  /\ Free(t, "read")
  /\ released[t] /\ t \in program.closes
  /\ Go(t, "loop")
  /\ UNCHANGED <<program, flags, kids, late, cv_m, started, calls, events>>

\* The main audio sender: it does not look at terminating while it reads.
InputEnds(t) ==
  /\ Free(t, "input")
  /\ input' = FALSE
  /\ Go(t, "tell")
  /\ UNCHANGED <<program, flags, kids, late, cv_m, started, calls,
                 send_all_and_end, signalled>>

\* end_when_all_msgs_sent() and join.
TellSender(t) ==
  /\ Free(t, "tell") /\ cv_m[Joined(t)] = None
  /\ send_all_and_end' = [send_all_and_end EXCEPT ![Joined(t)] = TRUE]
  /\ at' = [Notified(Joined(t)) EXCEPT ![t] = "join"]
  /\ UNCHANGED <<program, flags, kids, late, cv_m, started, calls, signalled,
                 input>>

\* join(): the flag terminated is tested under the mutex of the other thread.
Join(a) ==
  /\ Free(a, "join") /\ cv_m[Joined(a)] = None
  /\ Go(a, IF ~terminated[Joined(a)] THEN "joining"
           ELSE IF a = Main THEN "gone" ELSE "end")
  /\ UNCHANGED <<program, flags, kids, late, cv_m, started, calls, events>>

-----------------------------------------------------------------------------
(* terminate() and terminate_helper()                                      *)

Call(a, frame) == calls' = [calls EXCEPT ![a] = <<frame>> \o @]
Top(a) == calls[a][1]
At(a, pc) == calls[a] # <<>> /\ Top(a).pc = pc
SetTop(a, frame) == calls' = [calls EXCEPT ![a][1] = frame]

Terminate(t) == [of |-> t, pc |-> "test", next |-> 1, last |-> FALSE]
TerminateHelper(t) == [of |-> t, pc |-> "lock", next |-> 1, last |-> TRUE]

\* The codes receiver terminates its handler, and then every thread itself.
StopOther(t) ==
  /\ Free(t, "stop")
  /\ Call(t, Terminate(program.stops[t]))
  /\ Go(t, "end")
  /\ UNCHANGED <<program, flags, kids, late, cv_m, started, events>>

EndOfRun(t) ==
  /\ Free(t, "end")
  /\ Call(t, TerminateHelper(t))
  /\ Go(t, "gone")
  /\ UNCHANGED <<program, flags, kids, late, cv_m, started, events>>

\* The test of terminating is made without the mutex.
Test(a) ==
  /\ At(a, "test")
  /\ IF terminating[Top(a).of]
     THEN calls' = [calls EXCEPT ![a] = Tail(@)]
     ELSE SetTop(a, [Top(a) EXCEPT !.pc = "lock"])
  /\ UNCHANGED <<program, flags, kids, late, cv_m, at, started, events>>

\* The release functions run once.
TakenByNobody(t, a) == cv_m
Taken(t, a) == [cv_m EXCEPT ![t] = a]

Lock(a) ==
  /\ At(a, "lock")
  /\ LET t == Top(a).of
     IN /\ cv_m[t] = None
        /\ cv_m' = Taken(t, a)
        /\ terminating' = [terminating EXCEPT ![t] = @ \/ ~Top(a).last]
        /\ released' = [released EXCEPT ![t] = TRUE]
        /\ SetTop(a, [Top(a) EXCEPT !.pc = IF released[t] THEN "notify"
                                           ELSE "release"])
  /\ UNCHANGED <<program, running, terminated, kids, late, at, started,
                 events>>

\* One of the calls in the release functions, under the mutex.
Release(a) ==
  /\ At(a, "release") /\ Top(a).next <= Len(kids[Top(a).of])
  /\ calls' = [calls EXCEPT ![a] =
       <<Terminate(kids[Top(a).of][Top(a).next]),
         [Top(a) EXCEPT !.next = @ + 1]>> \o Tail(@)]
  /\ UNCHANGED <<program, flags, kids, late, cv_m, at, started, events>>

AllReleasedButLast(a) ==
  Top(a).pc = "notify" \/ Top(a).next >= Len(kids[Top(a).of])
AllReleased(a) ==
  Top(a).pc = "notify" \/ Top(a).next > Len(kids[Top(a).of])

Notify(a) ==
  /\ calls[a] # <<>> /\ Top(a).pc \in {"release", "notify"}
  /\ AllReleased(a)
  /\ LET t == Top(a).of
     IN /\ at' = Notified(t)
        /\ terminated' = [terminated EXCEPT ![t] = @ \/ Top(a).last]
        /\ cv_m' = [cv_m EXCEPT ![t] = None]
  /\ calls' = [calls EXCEPT ![a] = Tail(@)]
  /\ UNCHANGED <<program, running, terminating, released, kids, late, started,
                 events>>

-----------------------------------------------------------------------------
\* SIGINT comes before main() starts the root, or while it sleeps in join():
\* not while it holds a mutex, which the signal handler would wait for.
Signal ==
  /\ ~signalled
  /\ calls[Main] = <<>> /\ at[Main] \in {"start", "joining"}
  /\ signalled' = TRUE
  /\ Call(Main, Terminate(program.root))
  /\ UNCHANGED <<program, flags, kids, late, cv_m, at, started,
                 send_all_and_end, input>>

MainStep ==
  Start(Main) \/ Join(Main) \/ Lock(Main) \/ Test(Main) \/ Release(Main)
    \/ Notify(Main)

ThreadStep(t) ==
  \/ Start(t) \/ Make(t) \/ LeaveLoop(t) \/ Wait(t) \/ Unlock(t) \/ Read(t)
  \/ ReadFails(t) \/ TellSender(t) \/ Join(t) \/ StopOther(t) \/ EndOfRun(t)
  \/ Test(t) \/ Lock(t) \/ Release(t) \/ Notify(t)

Exited == at[Main] = "gone"

SmartThreadNext ==
  \/ /\ ~Exited
     /\ \/ MainStep \/ Signal
        \/ \E t \in Threads : ThreadStep(t) \/ ReadReturns(t) \/ InputEnds(t)
  \/ Exited /\ UNCHANGED vars

\* Threads are scheduled, and one that waits for a mutex gets it if that is
\* free again and again.  Nothing is assumed of the network, the user and the
\* input.
SmartThreadSpec ==
  /\ SmartThreadInit /\ [][SmartThreadNext]_vars
  /\ SF_vars(~Exited /\ MainStep)
  /\ \A t \in Threads : SF_vars(~Exited /\ ThreadStep(t))

-----------------------------------------------------------------------------
\* Who holds the mutex that a waits for, if anybody does.
Needs(a) ==
  IF calls[a] # <<>> THEN IF At(a, "lock") THEN Top(a).of ELSE None
  ELSE CASE at[a] = "start" -> Starts(a)[started[a] + 1]
         [] at[a] = "make" -> program.list[a]
         [] at[a] \in {"join", "tell"} -> Joined(a)
         [] at[a] = "loop" -> a
         [] OTHER -> None

HeldBy(a) == IF Needs(a) = None THEN None ELSE cv_m[Needs(a)]
Waiting == {a \in Actors : HeldBy(a) # None}

\* Threads that terminate each other, up and down the tree and while the
\* others end by themselves, never wait for each other's mutexes in a circle,
\* nor one for itself.
NoWaitCycle ==
  \A S \in (SUBSET Waiting) \ {{}} : \E a \in S : HeldBy(a) \notin S

\* Once the release functions of a thread were run, everybody whom it had
\* created until then has been told to end.
Releasing(t) ==
  \E a \in Actors : \E i \in 1 .. Len(calls[a]) :
    calls[a][i].of = t /\ calls[a][i].pc = "release"

NoOrphans ==
  \A t \in Threads : released[t] /\ ~Releasing(t) =>
    \A i \in 1 .. Len(kids[t]) :
      terminating[kids[t][i]] \/ kids[t][i] \in late

\* The receiver ends after SIGINT, the sender at the end of its input (and
\* after SIGINT not before that): no wakeup is lost between the flags and the
\* waits of so many threads, and none waits for one that never comes.  But for
\* a thread that was told to end before it was started: it never runs, and
\* whoever joins it waits for ever.
ReadsInput == program.joins[program.root] # None

SomeIsStillborn ==
  \E a \in Actors : /\ Joined(a) # None
                    /\ terminating[Joined(a)] /\ ~running[Joined(a)]
                    /\ ~terminated[Joined(a)]

ProgramEnds ==
  ~input \/ (signalled /\ ~ReadsInput) ~> Exited \/ SomeIsStillborn
=============================================================================
