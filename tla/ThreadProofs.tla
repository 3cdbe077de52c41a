----------------------------- MODULE ThreadProofs -----------------------------
(***************************************************************************)
(* Safety of the two parts of the library of threads: the lives of the     *)
(* threads, for every tree of threads, and the time alarm with its client, *)
(* for every duration and every number of stray notifies.                  *)
(*                                                                         *)
(* What holds of the mutexes is read off the stacks of the calls of        *)
(* terminate: a mutex is held by the call that runs the release functions  *)
(* of its thread, or by that thread between a wait and its unlock, when it *)
(* calls nobody.  Each call is made for a thread below that of the call    *)
(* before.  So a circle of waits would be a set of threads each of which   *)
(* has another of the set below it.                                        *)
(***************************************************************************)
EXTENDS SmartThread, Alarm, TLAPS

Frames == [of : Threads, pc : {"test", "lock", "release", "notify"},
           next : Nat \ {0}, last : BOOLEAN]

Places == {"none", "start", "loop", "woken", "asleep", "read", "make", "input",
           "tell", "join", "joining", "stop", "end", "gone"}

\* The variables that the mutexes depend on.
TypesInv ==
  /\ program \in Programs
  /\ running \in [Threads -> BOOLEAN] /\ terminating \in [Threads -> BOOLEAN]
  /\ released \in [Threads -> BOOLEAN] /\ terminated \in [Threads -> BOOLEAN]
  /\ kids \in [Threads -> Seq(Threads)]
  /\ late \subseteq Threads
  /\ cv_m \in [Threads -> Actors \cup {None}]
  /\ at \in [Actors -> Places]
  /\ started \in [Actors -> Nat]
  /\ calls \in [Actors -> Seq(Frames)]

\* A thread starts those of its list one after the other, and creates only
\* what nobody has created.
PlaceInv ==
  /\ at[Main] \in {"start", "join", "joining", "gone"}
  /\ \A a \in Actors : at[a] = "start" => started[a] < Len(Starts(a))
  /\ \A t \in Threads :
       /\ at[t] = "none" => started[t] = 0
       /\ at[t] = "make" => /\ program.makes[t] \in Threads
                            /\ at[program.makes[t]] = "none"
       /\ at[t] = "stop" => program.stops[t] \in Threads

\* What a holds by a call, and who holds the mutexes.
Holds(frame) == frame.pc \in {"release", "notify"}

CallsHold ==
  \A a \in Actors : \A i \in 1 .. Len(calls[a]) :
    Holds(calls[a][i]) => cv_m[calls[a][i].of] = a

CallsDiffer ==
  \A a \in Actors : \A i, j \in 1 .. Len(calls[a]) :
    Holds(calls[a][i]) /\ Holds(calls[a][j]) /\ i # j
      => calls[a][i].of # calls[a][j].of

HoldersCall ==
  \A t \in Threads : \A a \in Actors :
    cv_m[t] = a => \/ a = t /\ at[t] = "woken"
                   \/ \E i \in 1 .. Len(calls[a]) :
                        calls[a][i].of = t /\ Holds(calls[a][i])

WokenHold ==
  \A t \in Threads : at[t] = "woken" => calls[t] = <<>> /\ cv_m[t] = t

LockInv == CallsHold /\ CallsDiffer /\ HoldersCall /\ WokenHold

\* A call that has made another one releases the threads below its own.
KidsBelow ==
  \A t \in Threads : \A i \in 1 .. Len(kids[t]) : kids[t][i] \in Below(program, t)

CallsGoDown ==
  \A a \in Actors : \A i \in 2 .. Len(calls[a]) :
    /\ calls[a][i].pc = "release"
    /\ calls[a][i - 1].of \in Below(program, calls[a][i].of)

StackInv == KidsBelow /\ CallsGoDown

ThreadInv == TypesInv /\ PlaceInv /\ LockInv /\ StackInv

-----------------------------------------------------------------------------
(* The trees and the stacks.                                               *)

\* What a tree is made of.
LEMMA TreeTypes ==
  ASSUME TypesInv
  PROVE  /\ Main \notin Names /\ None \notin Threads
         /\ program.root \in Threads /\ program.closes \subseteq Threads
         /\ \A t \in Threads :
              /\ program.kind[t] \in {"waits", "reads", "input", "joins"}
              /\ program.starts[t] \in Seq(Threads)
              /\ program.releases[t] \in Seq(Threads)
              /\ program.makes[t] \in Names /\ program.list[t] \in Names
              /\ program.joins[t] \in Names /\ program.stops[t] \in Names
         /\ \A t \in Threads : FirstStep(t) \in {"start", "loop", "input", "join"}
         /\ \A t \in Threads : FirstStep(t) = "start" => 0 < Len(Starts(t))
         /\ \A t \in Threads : Body(t) \in {"loop", "input", "join"}
<1>1. program \in Programs
  BY DEF TypesInv
<1>2. /\ Main \notin Names /\ None \notin Threads
      /\ program.root \in Threads /\ program.closes \subseteq Threads
      /\ program.kind \in [Threads -> {"waits", "reads", "input", "joins"}]
      /\ \A t \in Threads :
           /\ program.starts[t] \in Seq(Threads)
           /\ program.releases[t] \in Seq(Threads)
           /\ program.makes[t] \in Names /\ program.list[t] \in Names
           /\ program.joins[t] \in Names /\ program.stops[t] \in Names
  BY <1>1, ProgramAssumption DEF ProgramAssumption
<1>3. \A t \in Threads : Body(t) \in {"loop", "input", "join"}
  BY <1>2 DEF Body
<1>4. ASSUME NEW t \in Threads, FirstStep(t) = "start"
      PROVE  0 < Len(Starts(t))
  <2>1. program.starts[t] # <<>> /\ Starts(t) = program.starts[t]
    BY <1>2, <1>3, <1>4 DEF FirstStep, Starts, Names
  <2>2. program.starts[t] \in Seq(Threads)
    BY <1>2
  <2>. QED
    BY <2>1, <2>2
<1>. QED
  BY <1>2, <1>3, <1>4 DEF FirstStep

\* The stack with a call more.
LEMMA Pushed ==
  ASSUME NEW s \in Seq(Frames), NEW f \in Frames, NEW r, r = <<f>> \o s
  PROVE  /\ r \in Seq(Frames) /\ Len(r) = Len(s) + 1 /\ r[1] = f
         /\ \A i \in 1 .. Len(s) : r[i + 1] = s[i]
OBVIOUS

\* The stack with a call less.
LEMMA Popped ==
  ASSUME NEW s \in Seq(Frames), s # <<>>, NEW r, r = Tail(s)
  PROVE  /\ r \in Seq(Frames) /\ Len(r) = Len(s) - 1 /\ Len(s) > 0
         /\ \A i \in 1 .. Len(r) : r[i] = s[i + 1]
OBVIOUS

\* The stack with another innermost call.
LEMMA Replaced ==
  ASSUME NEW s \in Seq(Frames), Len(s) > 0, NEW f \in Frames,
         NEW r, r = [s EXCEPT ![1] = f]
  PROVE  /\ r \in Seq(Frames) /\ Len(r) = Len(s) /\ r[1] = f
         /\ \A i \in 2 .. Len(s) : r[i] = s[i]
OBVIOUS

-----------------------------------------------------------------------------
(* The steps.                                                              *)

\* The steps that make no call and end none: where a thread is, and what it
\* starts and creates.
RunStep(t) ==
  \/ LeaveLoop(t) \/ Wait(t) \/ Unlock(t) \/ Read(t) \/ ReadReturns(t)
  \/ ReadFails(t) \/ InputEnds(t) \/ TellSender(t)

\* Every step is one of these.
LEMMA WhatStepsAre ==
  ASSUME [SmartThreadNext]_vars
  PROVE  \/ \E a \in Actors : Start(a) \/ Join(a) \/ Test(a) \/ Lock(a)
                                \/ Release(a) \/ Notify(a)
         \/ \E t \in Threads : Make(t) \/ RunStep(t) \/ StopOther(t) \/ EndOfRun(t)
         \/ Signal
         \/ UNCHANGED vars
BY DEF SmartThreadNext, MainStep, ThreadStep, RunStep, Actors

\* A notify moves who sleeps or joins, to the loop or to the join.
LEMMA NotifiedMoves ==
  ASSUME TypesInv, NEW t
  PROVE  /\ Notified(t) \in [Actors -> Places]
         /\ \A a \in Actors :
              Notified(t)[a] # at[a] =>
                \/ at[a] = "asleep" /\ Notified(t)[a] = "loop"
                \/ at[a] = "joining" /\ Notified(t)[a] = "join"
BY DEF Notified, TypesInv, Places

\* What a start does, and where it leads.
LEMMA StartDoes ==
  ASSUME TypesInv, PlaceInv, NEW a \in Actors, Start(a)
  PROVE  \E t \in Threads :
           /\ at[a] = "start" /\ calls[a] = <<>>
           /\ \/ a = Main /\ t = program.root
              \/ /\ a \in Threads /\ started[a] + 1 \in 1 .. Len(program.starts[a])
                 /\ t = program.starts[a][started[a] + 1]
           /\ \E after \in {"start", "join", "loop", "input"} :
                /\ after = "start" => started[a] + 1 < Len(Starts(a))
                /\ a = Main => after \in {"start", "join"}
                /\ at' = [at EXCEPT ![a] = after,
                           ![t] = IF StartsNow(t) THEN FirstStep(t) ELSE @]
           /\ cv_m[t] = None
           /\ running' = [running EXCEPT ![t] = @ \/ StartsNow(t)]
           /\ started' = [started EXCEPT ![a] = @ + 1]
<1>1. /\ Main \notin Names /\ program.root \in Threads
      /\ \A t \in Threads : program.starts[t] \in Seq(Threads)
      /\ \A t \in Threads : Body(t) \in {"loop", "input", "join"}
  BY TreeTypes
<1>2. at[a] = "start" /\ calls[a] = <<>> /\ started[a] < Len(Starts(a))
      /\ started[a] \in Nat
  BY DEF Start, Free, PlaceInv, TypesInv
<1>. DEFINE t == Starts(a)[started[a] + 1]
            after == IF started[a] + 1 < Len(Starts(a)) THEN "start"
                     ELSE IF a = Main THEN "join" ELSE Body(a)
<1>3. CASE a = Main
  <2>1. Starts(a) = <<program.root>> /\ t = program.root
    BY <1>2, <1>3 DEF Starts
  <2>2. after \in {"start", "join"}
    BY <1>3
  <2>3. /\ at' = [at EXCEPT ![a] = after,
                           ![t] = IF StartsNow(t) THEN FirstStep(t) ELSE @]
        /\ cv_m[t] = None
        /\ running' = [running EXCEPT ![t] = @ \/ StartsNow(t)]
        /\ started' = [started EXCEPT ![a] = @ + 1]
    BY DEF Start
  <2>. QED
    BY <1>1, <1>2, <1>3, <2>1, <2>2, <2>3
<1>4. CASE a # Main
  <2>1. a \in Threads /\ Starts(a) = program.starts[a]
    BY <1>4 DEF Actors, Starts
  <2>2. started[a] + 1 \in 1 .. Len(program.starts[a]) /\ t \in Threads
    BY <1>1, <1>2, <2>1
  <2>3. after \in {"start", "join", "loop", "input"}
        /\ (after = "start" => started[a] + 1 < Len(Starts(a)))
    BY <1>1, <1>4, <2>1
  <2>4. /\ at' = [at EXCEPT ![a] = after,
                           ![t] = IF StartsNow(t) THEN FirstStep(t) ELSE @]
        /\ cv_m[t] = None
        /\ running' = [running EXCEPT ![t] = @ \/ StartsNow(t)]
        /\ started' = [started EXCEPT ![a] = @ + 1]
    BY DEF Start
  <2>. QED
    BY <1>2, <1>4, <2>1, <2>2, <2>3, <2>4
<1>. QED
  BY <1>3, <1>4

\* A thread that is not yet there may be started, or created by the one that is
\* about to.
LEMMA MakeDoes ==
  ASSUME TypesInv, PlaceInv, NEW t \in Threads, Make(t)
  PROVE  \E x \in Threads, l \in Threads :
           /\ x = program.makes[t] /\ l = program.list[t] /\ x # t
           /\ at[t] = "make" /\ calls[t] = <<>> /\ at[x] = "none"
           /\ at' = [at EXCEPT ![t] = "loop", ![x] = FirstStep(x)]
           /\ kids' = [kids EXCEPT ![l] = Append(@, x)]
           /\ late' = IF released[l] THEN late \cup {x} ELSE late
           /\ running' = [running EXCEPT ![x] = TRUE]
<1>1. at[t] = "make" /\ calls[t] = <<>>
  BY DEF Make, Free
<1>2. program.makes[t] \in Threads /\ at[program.makes[t]] = "none"
  BY <1>1 DEF PlaceInv
<1>3. program.list[t] \in Threads
  <2>1. program.list[t] # None
    BY <1>2, TreeAssumption, TreeTypes DEF TreeAssumption, TypesInv
  <2>. QED
    BY <2>1, TreeTypes DEF Names
<1>. QED
  BY <1>1, <1>2, <1>3 DEF Make

\* What a step of one thread does to the others: at most a notify.
OthersStay(a) ==
  \A b \in Actors \ {a} :
    \/ at'[b] = at[b]
    \/ at[b] = "asleep" /\ at'[b] = "loop"
    \/ at[b] = "joining" /\ at'[b] = "join"

\* Where a thread may go on to.
GoesTo(t) ==
  /\ at'[t] \in Places \ {"none", "start"}
  /\ at'[t] = "make" => /\ program.makes[t] \in Threads
                        /\ at[program.makes[t]] = "none"
  /\ at'[t] = "stop" => program.stops[t] \in Threads

\* What a step between the calls does.
LEMMA RunDoes ==
  ASSUME TypesInv, NEW t \in Threads, RunStep(t)
  PROVE  /\ calls[t] = <<>> /\ at[t] \in {"loop", "woken", "read", "input", "tell"}
         /\ at' \in [Actors -> Places] /\ OthersStay(t) /\ GoesTo(t)
         /\ \/ cv_m' = cv_m /\ at[t] # "woken" /\ at'[t] # "woken"
            \/ /\ cv_m[t] = None /\ cv_m' = [cv_m EXCEPT ![t] = t]
               /\ at[t] # "woken" /\ at'[t] = "woken"
            \/ /\ at[t] = "woken" /\ at'[t] # "woken"
               /\ cv_m' = [cv_m EXCEPT ![t] = None]
         /\ UNCHANGED <<program, flags, kids, late, started, calls>>
<1>. USE DEF Places, Free, Go, OthersStay, GoesTo
<1>0. /\ program.makes[t] \in Names /\ program.stops[t] \in Names
      /\ None \notin Threads /\ t \in Actors /\ at \in [Actors -> Places]
      /\ cv_m \in [Threads -> Actors \cup {None}]
  BY TreeTypes DEF Actors, TypesInv
<1>1. /\ "loop" \in AfterWork(t)
      /\ \A pc \in AfterWork(t) :
           pc = "loop" \/ /\ pc = "make" /\ program.makes[t] \in Threads
                          /\ at[program.makes[t]] = "none"
  BY <1>0 DEF AfterWork, Names
<1>2. CASE LeaveLoop(t)
  BY <1>0, <1>2 DEF LeaveLoop, Leave, Names
<1>3. CASE Wait(t)
  BY <1>0, <1>3 DEF Wait
<1>4. CASE Unlock(t)
  BY <1>0, <1>1, <1>4 DEF Unlock
<1>5. CASE Read(t)
  BY <1>0, <1>5 DEF Read
<1>6. CASE ReadReturns(t)
  BY <1>0, <1>1, <1>6 DEF ReadReturns, Leave, Names
<1>7. CASE ReadFails(t)
  BY <1>0, <1>7 DEF ReadFails
<1>8. CASE InputEnds(t)
  BY <1>0, <1>8 DEF InputEnds
<1>9. CASE TellSender(t)
  <2>1. /\ Notified(Joined(t)) \in [Actors -> Places]
        /\ \A a \in Actors :
             Notified(Joined(t))[a] # at[a] =>
               \/ at[a] = "asleep" /\ Notified(Joined(t))[a] = "loop"
               \/ at[a] = "joining" /\ Notified(Joined(t))[a] = "join"
    BY NotifiedMoves
  <2>2. at' = [Notified(Joined(t)) EXCEPT ![t] = "join"]
    BY <1>9 DEF TellSender
  <2>. QED
    BY <1>0, <1>9, <2>1, <2>2 DEF TellSender
<1>. QED
  BY <1>2, <1>3, <1>4, <1>5, <1>6, <1>7, <1>8, <1>9 DEF RunStep

\* A join, which waits, or goes on when the other thread has ended.
LEMMA JoinDoes ==
  ASSUME TypesInv, NEW a \in Actors, Join(a)
  PROVE  /\ calls[a] = <<>> /\ at[a] = "join"
         /\ at' \in [Actors -> Places] /\ OthersStay(a)
         /\ at'[a] \in {"joining", "gone", "end"}
         /\ a = Main => at'[a] # "end"
         /\ UNCHANGED <<program, flags, kids, late, started, calls, cv_m>>
BY DEF Join, Free, Go, OthersStay, Places, TypesInv

\* The calls that are made with no other under way.
LEMMA CallDoes ==
  ASSUME TypesInv, PlaceInv, NEW a \in Actors,
         \/ a \in Threads /\ (StopOther(a) \/ EndOfRun(a))
         \/ a = Main /\ Signal
  PROVE  \E f \in Frames :
           /\ calls[a] = <<>> /\ calls' = [calls EXCEPT ![a] = <<f>>]
           /\ f.pc \in {"test", "lock"} /\ f.next = 1
           /\ at[a] \in {"stop", "end", "start", "joining"}
           /\ at' \in [Actors -> Places] /\ OthersStay(a)
           /\ at'[a] = at[a] \/ (a \in Threads /\ at'[a] \in {"end", "gone"})
           /\ UNCHANGED <<program, flags, kids, late, started, cv_m>>
<1>1. /\ program.root \in Threads /\ Main \notin Threads
      /\ at \in [Actors -> Places] /\ calls \in [Actors -> Seq(Frames)]
  BY TreeTypes DEF TypesInv, Names
<1>2. \A t \in Threads : Terminate(t) \in Frames /\ TerminateHelper(t) \in Frames
  BY DEF Terminate, TerminateHelper, Frames
<1>3. \A f \in Frames : <<f>> \o <<>> = <<f>>
  OBVIOUS
<1>4. CASE a \in Threads /\ StopOther(a)
  <2>1. program.stops[a] \in Threads
    BY <1>4 DEF StopOther, Free, PlaceInv
  <2>. QED
    BY <1>1, <1>2, <1>3, <1>4, <2>1 DEF StopOther, Free, Call, Go, OthersStay,
       Places, Terminate
<1>5. CASE a \in Threads /\ EndOfRun(a)
  BY <1>1, <1>2, <1>3, <1>5 DEF EndOfRun, Free, Call, Go, OthersStay, Places,
     TerminateHelper
<1>6. CASE a = Main /\ Signal
  BY <1>1, <1>2, <1>3, <1>6 DEF Signal, Call, OthersStay, Terminate
<1>. QED
  BY <1>4, <1>5, <1>6

\* The steps of the innermost call, on the stack s that becomes r.
Same(s, r) == Len(r) = Len(s) /\ \A i \in 2 .. Len(s) : r[i] = s[i]
Fields(f, pc, g) ==
  g.of = f.of /\ g.pc = pc /\ g.next = f.next /\ g.last = f.last
Shorter(s, r) == Len(r) = Len(s) - 1 /\ \A i \in 1 .. Len(r) : r[i] = s[i + 1]

\* The test of terminating: the call returns, or goes on to the mutex.
LEMMA TestDoes ==
  ASSUME TypesInv, NEW a \in Actors, Test(a)
  PROVE  \E s, r \in Seq(Frames) :
           /\ s = calls[a] /\ calls' = [calls EXCEPT ![a] = r] /\ Len(s) > 0
           /\ s[1].pc = "test"
           /\ \/ terminating[s[1].of] /\ Shorter(s, r)
              \/ Same(s, r) /\ Fields(s[1], "lock", r[1])
           /\ UNCHANGED <<program, flags, kids, late, cv_m, at, started>>
<1>. DEFINE s == calls[a]  r == calls'[a]
<1>1. calls \in [Actors -> Seq(Frames)] /\ s \in Seq(Frames) /\ s # <<>>
      /\ Len(s) > 0 /\ s[1] \in Frames /\ s[1].pc = "test"
  BY DEF TypesInv, Test, At, Top
<1>2. /\ UNCHANGED <<program, flags, kids, late, cv_m, at, started>>
      /\ \/ terminating[s[1].of] /\ calls' = [calls EXCEPT ![a] = Tail(@)]
         \/ calls' = [calls EXCEPT ![a][1] = [s[1] EXCEPT !.pc = "lock"]]
  BY DEF Test, Top, SetTop
<1>3. CASE terminating[s[1].of] /\ calls' = [calls EXCEPT ![a] = Tail(@)]
  <2>1. r = Tail(s) /\ calls' = [calls EXCEPT ![a] = r]
    BY <1>1, <1>3
  <2>2. r \in Seq(Frames) /\ Shorter(s, r)
    BY <1>1, <2>1, Popped DEF Shorter
  <2>. QED
    BY <1>1, <1>2, <1>3, <2>1, <2>2
<1>4. CASE calls' = [calls EXCEPT ![a][1] = [s[1] EXCEPT !.pc = "lock"]]
  <2>. DEFINE f == [s[1] EXCEPT !.pc = "lock"]
  <2>1. f \in Frames /\ Fields(s[1], "lock", f)
    BY <1>1 DEF Frames, Fields
  <2>2. r = [s EXCEPT ![1] = f] /\ calls' = [calls EXCEPT ![a] = r]
    BY <1>1, <1>4
  <2>3. r \in Seq(Frames) /\ Same(s, r) /\ r[1] = f
    <3>. HIDE DEF s, r, f
    <3>. QED
      BY <1>1, <2>1, <2>2, Replaced DEF Same
  <2>4. Fields(s[1], "lock", r[1])
    BY <2>1, <2>3
  <2>. HIDE DEF f
  <2>. QED
    BY <1>1, <1>2, <2>2, <2>3, <2>4
<1>. QED
  BY <1>2, <1>3, <1>4

\* The mutex is taken; the release functions follow, or only the notify.
LEMMA LockDoes ==
  ASSUME TypesInv, NEW a \in Actors, Lock(a)
  PROVE  \E s, r \in Seq(Frames), t \in Threads :
           /\ s = calls[a] /\ calls' = [calls EXCEPT ![a] = r] /\ Len(s) > 0
           /\ s[1].pc = "lock" /\ s[1].of = t
           /\ Same(s, r)
           /\ Fields(s[1], IF released[t] THEN "notify" ELSE "release", r[1])
           /\ cv_m[t] = None /\ cv_m' = [cv_m EXCEPT ![t] = a]
           /\ terminating' = [terminating EXCEPT ![t] = @ \/ ~s[1].last]
           /\ released' = [released EXCEPT ![t] = TRUE]
           /\ UNCHANGED <<program, running, terminated, kids, late, at, started>>
<1>. DEFINE s == calls[a]  r == calls'[a]  t == s[1].of
            f == [s[1] EXCEPT !.pc = IF released[t] THEN "notify" ELSE "release"]
<1>1. calls \in [Actors -> Seq(Frames)] /\ s \in Seq(Frames) /\ s # <<>>
      /\ Len(s) > 0 /\ s[1] \in Frames /\ s[1].pc = "lock"
  BY DEF TypesInv, Lock, At, Top
<1>2. calls' = [calls EXCEPT ![a][1] = f]
  BY DEF Lock, Top, SetTop
<1>3. /\ f \in Frames /\ t \in Threads
      /\ Fields(s[1], IF released[t] THEN "notify" ELSE "release", f)
  BY <1>1 DEF Frames, Fields
<1>4. r = [s EXCEPT ![1] = f] /\ calls' = [calls EXCEPT ![a] = r]
  BY <1>1, <1>2
<1>5. r \in Seq(Frames) /\ Same(s, r) /\ r[1] = f
  <2>. HIDE DEF s, r, f
  <2>. QED
    BY <1>1, <1>3, <1>4, Replaced DEF Same
<1>6. /\ cv_m[t] = None /\ cv_m' = [cv_m EXCEPT ![t] = a]
      /\ terminating' = [terminating EXCEPT ![t] = @ \/ ~s[1].last]
      /\ released' = [released EXCEPT ![t] = TRUE]
      /\ UNCHANGED <<program, running, terminated, kids, late, at, started>>
  BY DEF Lock, Top, Taken
<1>7. Fields(s[1], IF released[t] THEN "notify" ELSE "release", r[1])
  BY <1>3, <1>5
<1>. HIDE DEF f
<1>. QED
  BY <1>1, <1>3, <1>4, <1>5, <1>6, <1>7

\* The release functions terminate the next thread.
LEMMA ReleaseDoes ==
  ASSUME TypesInv, NEW a \in Actors, Release(a)
  PROVE  \E s, r \in Seq(Frames) :
           /\ s = calls[a] /\ calls' = [calls EXCEPT ![a] = r] /\ Len(s) > 0
           /\ s[1].pc = "release"
           /\ s[1].next \in 1 .. Len(kids[s[1].of])
           /\ Len(r) = Len(s) + 1
           /\ r[1] = Terminate(kids[s[1].of][s[1].next])
           /\ r[2].of = s[1].of /\ r[2].pc = "release"
           /\ r[2].next = s[1].next + 1
           /\ \A i \in 2 .. Len(s) : r[i + 1] = s[i]
           /\ UNCHANGED <<program, flags, kids, late, cv_m, at, started>>
<1>. DEFINE s == calls[a]  r == calls'[a]
            f == Terminate(kids[s[1].of][s[1].next])
            g == [s[1] EXCEPT !.next = @ + 1]
<1>1. calls \in [Actors -> Seq(Frames)] /\ s \in Seq(Frames) /\ s # <<>>
      /\ Len(s) > 0 /\ s[1] \in Frames /\ s[1].pc = "release"
      /\ kids \in [Threads -> Seq(Threads)]
  BY DEF TypesInv, Release, At, Top
<1>2. /\ calls' = [calls EXCEPT ![a] = <<f, g>> \o Tail(@)]
      /\ s[1].next <= Len(kids[s[1].of])
  BY DEF Release, Top
<1>3. s[1].next \in 1 .. Len(kids[s[1].of])
  BY <1>1, <1>2 DEF Frames
<1>4. f \in Frames /\ g \in Frames
  <2>1. kids[s[1].of][s[1].next] \in Threads
    BY <1>1, <1>3 DEF Frames
  <2>2. f \in Frames
    BY <2>1 DEF Frames, Terminate
  <2>3. s[1].next + 1 \in Nat \ {0}
    BY <1>1 DEF Frames
  <2>4. g \in Frames
    BY <1>1, <2>3 DEF Frames
  <2>. QED
    BY <2>2, <2>4
<1>5. r = <<f, g>> \o Tail(s) /\ calls' = [calls EXCEPT ![a] = r]
  BY <1>1, <1>2
<1>6. /\ r \in Seq(Frames) /\ Len(r) = Len(s) + 1 /\ r[1] = f /\ r[2] = g
      /\ \A i \in 2 .. Len(s) : r[i + 1] = s[i]
  <2>. HIDE DEF s, r, f, g
  <2>. DEFINE u == Tail(s)
  <2>1. /\ u \in Seq(Frames) /\ Len(u) = Len(s) - 1
        /\ \A i \in 1 .. Len(u) : u[i] = s[i + 1]
    BY <1>1, Popped
  <2>2. \A i \in 2 .. Len(s) : u[i - 1] = s[i]
    BY <1>1, <2>1
  <2>. HIDE DEF u
  <2>3. /\ r \in Seq(Frames) /\ Len(r) = Len(u) + 2 /\ r[1] = f /\ r[2] = g
        /\ \A i \in 1 .. Len(u) : r[i + 2] = u[i]
    BY <1>4, <1>5, <2>1 DEF u
  <2>. QED
    BY <1>1, <2>1, <2>2, <2>3
<1>7. r[2].of = s[1].of /\ r[2].pc = "release" /\ r[2].next = s[1].next + 1
  BY <1>1, <1>6 DEF Frames
<1>8. UNCHANGED <<program, flags, kids, late, cv_m, at, started>>
  BY DEF Release
<1>. QED
  BY <1>1, <1>3, <1>5, <1>6, <1>7, <1>8

\* The last of the call: the notify, and the mutex is free.
LEMMA NotifyDoes ==
  ASSUME TypesInv, NEW a \in Actors, Notify(a)
  PROVE  \E s, r \in Seq(Frames), t \in Threads :
           /\ s = calls[a] /\ calls' = [calls EXCEPT ![a] = r] /\ Len(s) > 0
           /\ s[1].of = t
           /\ \/ s[1].pc = "notify"
              \/ s[1].pc = "release" /\ s[1].next > Len(kids[t])
           /\ Shorter(s, r)
           /\ cv_m' = [cv_m EXCEPT ![t] = None]
           /\ at' \in [Actors -> Places] /\ OthersStay(a)
           /\ \/ at'[a] = at[a]
              \/ at[a] = "asleep" /\ at'[a] = "loop"
              \/ at[a] = "joining" /\ at'[a] = "join"
           /\ terminated' = [terminated EXCEPT ![t] = @ \/ s[1].last]
           /\ UNCHANGED <<program, running, terminating, released, kids, late,
                          started>>
<1>. DEFINE s == calls[a]  r == calls'[a]  t == s[1].of
<1>1. calls \in [Actors -> Seq(Frames)] /\ s \in Seq(Frames) /\ s # <<>>
      /\ Len(s) > 0 /\ s[1] \in Frames /\ t \in Threads
  <2>1. calls \in [Actors -> Seq(Frames)] /\ s \in Seq(Frames) /\ s # <<>>
    BY DEF TypesInv, Notify
  <2>2. Len(s) > 0 /\ s[1] \in Frames
    BY <2>1
  <2>. QED
    BY <2>1, <2>2 DEF Frames
<1>2. calls' = [calls EXCEPT ![a] = Tail(@)] /\ at' = Notified(t)
  BY DEF Notify, Top
<1>3. r = Tail(s) /\ calls' = [calls EXCEPT ![a] = r]
  BY <1>1, <1>2
<1>4. r \in Seq(Frames) /\ Shorter(s, r)
  BY <1>1, <1>3, Popped DEF Shorter
<1>5. /\ at' \in [Actors -> Places] /\ OthersStay(a)
      /\ \/ at'[a] = at[a]
         \/ at[a] = "asleep" /\ at'[a] = "loop"
         \/ at[a] = "joining" /\ at'[a] = "join"
  BY <1>2, NotifiedMoves DEF OthersStay
<1>6. /\ \/ s[1].pc = "notify"
         \/ s[1].pc = "release" /\ s[1].next > Len(kids[t])
      /\ cv_m' = [cv_m EXCEPT ![t] = None]
      /\ terminated' = [terminated EXCEPT ![t] = @ \/ s[1].last]
      /\ UNCHANGED <<program, running, terminating, released, kids, late,
                     started>>
  BY DEF Notify, AllReleased, Top
<1>. QED
  BY <1>1, <1>3, <1>4, <1>5, <1>6
-----------------------------------------------------------------------------
(* What the steps keep: the types and the places.                          *)

\* One stack changes, the others stay.
LEMMA StackOf ==
  ASSUME TypesInv, NEW a \in Actors, NEW r \in Seq(Frames),
         calls' = [calls EXCEPT ![a] = r]
  PROVE  /\ calls' \in [Actors -> Seq(Frames)] /\ calls'[a] = r
         /\ \A b \in Actors \ {a} : calls'[b] = calls[b]
BY DEF TypesInv

\* Where the others are does not matter to a notify.
LEMMA PlaceStays ==
  ASSUME TypesInv, PlaceInv, NEW a \in Actors, OthersStay(a),
         at' \in [Actors -> Places], UNCHANGED <<program, started>>,
         \/ at'[a] = at[a]
         \/ /\ at[a] # "none" /\ at'[a] \notin {"none", "start"}
            /\ a = Main => at'[a] \in {"join", "joining", "gone"}
            /\ a \in Threads => GoesTo(a)
  PROVE  PlaceInv'
<1>1. Main \in Actors /\ Main \notin Threads /\ at \in [Actors -> Places]
      /\ \A t \in Threads : t \in Actors
  BY TreeTypes DEF Actors, TypesInv, Names
<1>2. at'[Main] \in {"start", "join", "joining", "gone"}
  BY <1>1 DEF PlaceInv, OthersStay
<1>3. \A b \in Actors : at'[b] = "start" => at[b] = "start"
  BY DEF OthersStay
<1>4. \A b \in Actors : at'[b] = "none" <=> at[b] = "none"
  BY <1>1 DEF OthersStay
<1>6. \A b \in Actors : at'[b] = "start" => started'[b] < Len(Starts(b))'
  BY <1>3 DEF PlaceInv, Starts
<1>7. \A t \in Threads : at'[t] = "none" => started'[t] = 0
  BY <1>1, <1>4 DEF PlaceInv
<1>8. \A t \in Threads : at'[t] = "make" =>
        program.makes[t] \in Threads /\ at[program.makes[t]] = "none"
  BY <1>1 DEF PlaceInv, OthersStay, GoesTo
<1>9. \A t \in Threads : at'[t] = "stop" => program.stops[t] \in Threads
  BY <1>1 DEF PlaceInv, OthersStay, GoesTo
<1>. QED
  BY <1>1, <1>2, <1>4, <1>6, <1>7, <1>8, <1>9 DEF PlaceInv

\* A start keeps the places: nobody starts a thread that another will create.
LEMMA StartKeepsPlaces ==
  ASSUME TypesInv, PlaceInv, NEW a \in Actors, Start(a)
  PROVE  PlaceInv'
<1>1. PICK t \in Threads :
        /\ at[a] = "start" /\ calls[a] = <<>>
        /\ \/ a = Main /\ t = program.root
           \/ /\ a \in Threads /\ started[a] + 1 \in 1 .. Len(program.starts[a])
              /\ t = program.starts[a][started[a] + 1]
        /\ \E after \in {"start", "join", "loop", "input"} :
             /\ after = "start" => started[a] + 1 < Len(Starts(a))
             /\ a = Main => after \in {"start", "join"}
             /\ at' = [at EXCEPT ![a] = after,
                        ![t] = IF StartsNow(t) THEN FirstStep(t) ELSE @]
        /\ started' = [started EXCEPT ![a] = @ + 1]
  BY StartDoes
<1>2. PICK after \in {"start", "join", "loop", "input"} :
        /\ after = "start" => started[a] + 1 < Len(Starts(a))
        /\ a = Main => after \in {"start", "join"}
        /\ at' = [at EXCEPT ![a] = after,
                   ![t] = IF StartsNow(t) THEN FirstStep(t) ELSE @]
  BY <1>1
<1>3. /\ Main \in Actors /\ Main \notin Threads /\ at \in [Actors -> Places]
      /\ \A u \in Threads : u \in Actors
      /\ started \in [Actors -> Nat] /\ program' = program
  BY TreeTypes DEF Actors, TypesInv, Names, Start
<1>4. /\ FirstStep(t) \in {"start", "loop", "input", "join"}
      /\ program.starts[t] \in Seq(Threads)
  BY TreeTypes
<1>5. /\ at'[a] = after
      /\ t # a => at'[t] = IF StartsNow(t) THEN FirstStep(t) ELSE at[t]
      /\ \A b \in Actors \ {a, t} : at'[b] = at[b]
      /\ t = a => ~StartsNow(t)
  BY <1>1, <1>2, <1>3 DEF StartsNow
<1>6. /\ started'[a] = started[a] + 1
      /\ \A b \in Actors \ {a} : started'[b] = started[b]
  BY <1>1, <1>3
<1>7. FirstStep(t) = "start" => 0 < Len(Starts(t))
  BY TreeTypes
<1>8. at'[Main] \in {"start", "join", "joining", "gone"}
  BY <1>2, <1>3, <1>5 DEF PlaceInv
<1>9. \A b \in Actors : at'[b] = "start" => started'[b] < Len(Starts(b))'
  <2>. SUFFICES ASSUME NEW b \in Actors, at'[b] = "start"
                PROVE  started'[b] < Len(Starts(b))
    BY <1>3 DEF Starts
  <2>1. CASE b = a
    BY <2>1, <1>2, <1>5, <1>6
  <2>2. CASE b # a /\ b = t
    <3>1. CASE StartsNow(t)
      <4>1. started[t] = 0
        BY <3>1 DEF StartsNow, PlaceInv
      <4>. QED
        BY <2>2, <3>1, <4>1, <1>5, <1>6, <1>7
    <3>2. CASE ~StartsNow(t)
      BY <2>2, <3>2, <1>5, <1>6 DEF PlaceInv
    <3>. QED
      BY <3>1, <3>2
  <2>3. CASE b # a /\ b # t
    BY <2>3, <1>5, <1>6 DEF PlaceInv
  <2>. QED
    BY <2>1, <2>2, <2>3
<1>10. \A b \in Actors : at'[b] = "none" => at[b] = "none" /\ b # a
  BY <1>1, <1>2, <1>4, <1>5
<1>11. \A b \in Threads : at'[b] = "none" => started'[b] = 0
  BY <1>3, <1>6, <1>10 DEF PlaceInv
<1>12. \A b \in Threads : at'[b] \in {"make", "stop"} => b # a /\ at[b] = at'[b]
  BY <1>2, <1>3, <1>4, <1>5
<1>13. \A b \in Threads : at'[b] = "make" =>
         program.makes[b] \in Threads /\ at'[program.makes[b]] = "none"
  <2>. SUFFICES ASSUME NEW b \in Threads, at'[b] = "make"
                PROVE  program.makes[b] \in Threads /\ at'[program.makes[b]] = "none"
    OBVIOUS
  <2>1. program.makes[b] \in Threads /\ at[program.makes[b]] = "none"
    BY <1>12 DEF PlaceInv
  <2>2. program.makes[b] # None
    BY <2>1, TreeTypes
  <2>3. /\ program.makes[b] # program.root
        /\ \A u \in Threads : \A i \in 1 .. Len(program.starts[u]) :
             program.starts[u][i] # program.makes[b]
    BY <2>2, TreeAssumption DEF TreeAssumption, TypesInv
  <2>4. program.makes[b] # t /\ program.makes[b] # a
    BY <1>1, <2>1, <2>3
  <2>. QED
    BY <2>1, <2>4, <1>3, <1>5
<1>14. \A b \in Threads : at'[b] = "stop" => program.stops[b] \in Threads
  BY <1>12 DEF PlaceInv
<1>. QED
  BY <1>3, <1>8, <1>9, <1>11, <1>13, <1>14 DEF PlaceInv

\* So does the creation of a thread, which no other creates.
LEMMA MakeKeepsPlaces ==
  ASSUME TypesInv, PlaceInv, NEW t \in Threads, Make(t)
  PROVE  PlaceInv'
<1>1. PICK x \in Threads :
        /\ x = program.makes[t] /\ x # t /\ at[t] = "make" /\ at[x] = "none"
        /\ at' = [at EXCEPT ![t] = "loop", ![x] = FirstStep(x)]
  BY MakeDoes
<1>2. /\ Main \in Actors /\ Main \notin Threads /\ at \in [Actors -> Places]
      /\ \A u \in Threads : u \in Actors
      /\ program' = program /\ started' = started
  BY TreeTypes DEF Actors, TypesInv, Names, Make
<1>3. /\ FirstStep(x) \in {"start", "loop", "input", "join"}
      /\ program.starts[x] \in Seq(Threads)
  BY TreeTypes
<1>4. /\ at'[t] = "loop" /\ at'[x] = FirstStep(x)
      /\ \A b \in Actors \ {t, x} : at'[b] = at[b]
  BY <1>1, <1>2
<1>5. FirstStep(x) = "start" => 0 < Len(Starts(x))
  BY TreeTypes
<1>6. \A b \in Actors : at'[b] = "start" => started'[b] < Len(Starts(b))'
  BY <1>1, <1>2, <1>4, <1>5 DEF PlaceInv, Starts
<1>7. \A b \in Threads : at'[b] = "none" => started'[b] = 0
  BY <1>1, <1>2, <1>3, <1>4 DEF PlaceInv
<1>8. \A b \in Threads : at'[b] \in {"make", "stop"} =>
        b # t /\ b # x /\ at[b] = at'[b]
  BY <1>2, <1>3, <1>4
<1>9. \A b \in Threads : at'[b] = "make" =>
        program.makes[b] \in Threads /\ at'[program.makes[b]] = "none"
  <2>. SUFFICES ASSUME NEW b \in Threads, at'[b] = "make"
                PROVE  program.makes[b] \in Threads /\ at'[program.makes[b]] = "none"
    OBVIOUS
  <2>1. program.makes[b] \in Threads /\ at[program.makes[b]] = "none" /\ b # t
    BY <1>8 DEF PlaceInv
  <2>2. program.makes[b] # None
    BY <2>1, TreeTypes
  <2>3. program.makes[t] # program.makes[b]
    BY <2>1, <2>2, TreeAssumption DEF TreeAssumption, TypesInv
  <2>. QED
    BY <1>1, <1>2, <1>4, <2>1, <2>3
<1>10. \A b \in Threads : at'[b] = "stop" => program.stops[b] \in Threads
  BY <1>8 DEF PlaceInv
<1>11. at'[Main] \in {"start", "join", "joining", "gone"}
  BY <1>2, <1>4, <1>1 DEF PlaceInv
<1>. QED
  BY <1>2, <1>6, <1>7, <1>9, <1>10, <1>11 DEF PlaceInv
\* Every step keeps the types.
LEMMA StepKeepsTypes ==
  ASSUME TypesInv, PlaceInv, [SmartThreadNext]_vars
  PROVE  TypesInv'
<1>1. ASSUME NEW a \in Actors, Start(a) PROVE TypesInv'
  <2>1. PICK t \in Threads :
          /\ \E after \in {"start", "join", "loop", "input"} :
               at' = [at EXCEPT ![a] = after,
                          ![t] = IF StartsNow(t) THEN FirstStep(t) ELSE @]
          /\ running' = [running EXCEPT ![t] = @ \/ StartsNow(t)]
          /\ started' = [started EXCEPT ![a] = @ + 1]
    BY <1>1, StartDoes
  <2>2. FirstStep(t) \in {"start", "loop", "input", "join"}
    BY TreeTypes
  <2>3. at' \in [Actors -> Places]
    BY <2>1, <2>2 DEF Places, TypesInv
  <2>4. running' \in [Threads -> BOOLEAN] /\ started' \in [Actors -> Nat]
    BY <2>1 DEF TypesInv
  <2>. QED
    BY <1>1, <2>3, <2>4 DEF Start, TypesInv
<1>2. ASSUME NEW t \in Threads, Make(t) PROVE TypesInv'
  <2>1. PICK x \in Threads, l \in Threads :
          /\ at' = [at EXCEPT ![t] = "loop", ![x] = FirstStep(x)]
          /\ kids' = [kids EXCEPT ![l] = Append(@, x)]
          /\ late' = IF released[l] THEN late \cup {x} ELSE late
          /\ running' = [running EXCEPT ![x] = TRUE]
    BY <1>2, MakeDoes
  <2>2. FirstStep(x) \in {"start", "loop", "input", "join"}
    BY TreeTypes
  <2>3. at' \in [Actors -> Places]
    BY <2>1, <2>2 DEF Places, TypesInv
  <2>4. Append(kids[l], x) \in Seq(Threads)
    BY DEF TypesInv
  <2>5. kids' \in [Threads -> Seq(Threads)]
    BY <2>1, <2>4 DEF TypesInv
  <2>. QED
    BY <1>2, <2>1, <2>3, <2>5 DEF Make, TypesInv
<1>3. ASSUME NEW t \in Threads, RunStep(t) PROVE TypesInv'
  <2>1. /\ at' \in [Actors -> Places]
        /\ \/ cv_m' = cv_m
           \/ cv_m' = [cv_m EXCEPT ![t] = t]
           \/ cv_m' = [cv_m EXCEPT ![t] = None]
        /\ UNCHANGED <<program, flags, kids, late, started, calls>>
    BY <1>3, RunDoes
  <2>. QED
    BY <2>1 DEF flags, Actors, TypesInv
<1>4. ASSUME NEW a \in Actors, Join(a) PROVE TypesInv'
  BY <1>4, JoinDoes DEF flags, TypesInv
<1>5. ASSUME NEW a \in Actors,
             \/ a \in Threads /\ (StopOther(a) \/ EndOfRun(a))
             \/ a = Main /\ Signal
      PROVE  TypesInv'
  <2>1. PICK f \in Frames :
          /\ calls' = [calls EXCEPT ![a] = <<f>>]
          /\ at' \in [Actors -> Places]
          /\ UNCHANGED <<program, flags, kids, late, started, cv_m>>
    BY <1>5, CallDoes
  <2>. QED
    BY <2>1 DEF flags, TypesInv
<1>6. ASSUME NEW a \in Actors, Test(a) PROVE TypesInv'
  <2>1. PICK r \in Seq(Frames) :
          /\ calls' = [calls EXCEPT ![a] = r]
          /\ UNCHANGED <<program, flags, kids, late, cv_m, at, started>>
    BY <1>6, TestDoes
  <2>. QED
    BY <2>1 DEF flags, TypesInv
<1>7. ASSUME NEW a \in Actors, Lock(a) PROVE TypesInv'
  <2>1. PICK s \in Seq(Frames), r \in Seq(Frames), t \in Threads :
          /\ calls' = [calls EXCEPT ![a] = r]
          /\ cv_m' = [cv_m EXCEPT ![t] = a]
          /\ terminating' = [terminating EXCEPT ![t] = @ \/ ~s[1].last]
          /\ released' = [released EXCEPT ![t] = TRUE]
          /\ UNCHANGED <<program, running, terminated, kids, late, at, started>>
    BY <1>7, LockDoes
  <2>. QED
    BY <2>1 DEF TypesInv
<1>8. ASSUME NEW a \in Actors, Release(a) PROVE TypesInv'
  <2>1. PICK r \in Seq(Frames) :
          /\ calls' = [calls EXCEPT ![a] = r]
          /\ UNCHANGED <<program, flags, kids, late, cv_m, at, started>>
    BY <1>8, ReleaseDoes
  <2>. QED
    BY <2>1 DEF flags, TypesInv
<1>9. ASSUME NEW a \in Actors, Notify(a) PROVE TypesInv'
  <2>1. PICK s \in Seq(Frames), r \in Seq(Frames), t \in Threads :
          /\ calls' = [calls EXCEPT ![a] = r]
          /\ cv_m' = [cv_m EXCEPT ![t] = None]
          /\ at' \in [Actors -> Places]
          /\ terminated' = [terminated EXCEPT ![t] = @ \/ s[1].last]
          /\ UNCHANGED <<program, running, terminating, released, kids, late,
                         started>>
    BY <1>9, NotifyDoes
  <2>. QED
    BY <2>1 DEF TypesInv
<1>10. CASE UNCHANGED vars
  BY <1>10 DEF vars, flags, TypesInv
<1>. QED
  BY <1>1, <1>2, <1>3, <1>4, <1>5, <1>6, <1>7, <1>8, <1>9, <1>10, WhatStepsAre
     DEF Actors

\* Every step keeps the places.
LEMMA StepKeepsPlaces ==
  ASSUME TypesInv, PlaceInv, [SmartThreadNext]_vars
  PROVE  PlaceInv'
<1>0. Main \notin Threads /\ Main \in Actors
  BY TreeTypes DEF Names, Actors
<1>1. ASSUME NEW t \in Threads, RunStep(t) PROVE PlaceInv'
  BY <1>1, <1>0, RunDoes, PlaceStays DEF GoesTo, Actors
<1>2. ASSUME NEW a \in Actors, Join(a) PROVE PlaceInv'
  <2>1. /\ calls[a] = <<>> /\ at[a] = "join"
        /\ at' \in [Actors -> Places] /\ OthersStay(a)
        /\ at'[a] \in {"joining", "gone", "end"}
        /\ a = Main => at'[a] # "end"
        /\ UNCHANGED <<program, started>>
    BY <1>2, JoinDoes
  <2>. QED
    BY <2>1, PlaceStays DEF GoesTo, Places
<1>3. ASSUME NEW a \in Actors,
             \/ a \in Threads /\ (StopOther(a) \/ EndOfRun(a))
             \/ a = Main /\ Signal
      PROVE  PlaceInv'
  <2>1. /\ at[a] \in {"stop", "end", "start", "joining"}
        /\ at' \in [Actors -> Places] /\ OthersStay(a)
        /\ at'[a] = at[a] \/ (a \in Threads /\ at'[a] \in {"end", "gone"})
        /\ UNCHANGED <<program, started>>
    BY <1>3, CallDoes
  <2>. QED
    BY <2>1, <1>0, PlaceStays DEF GoesTo, Places
<1>4. ASSUME NEW a \in Actors, Test(a) \/ Lock(a) \/ Release(a) PROVE PlaceInv'
  <2>1. UNCHANGED <<program, at, started>>
    BY <1>4 DEF Test, Lock, Release
  <2>. QED
    BY <2>1 DEF PlaceInv, Starts
<1>5. ASSUME NEW a \in Actors, Notify(a) PROVE PlaceInv'
  <2>1. /\ at' \in [Actors -> Places] /\ OthersStay(a)
        /\ \/ at'[a] = at[a]
           \/ at[a] = "asleep" /\ at'[a] = "loop"
           \/ at[a] = "joining" /\ at'[a] = "join"
        /\ UNCHANGED <<program, started>>
    BY <1>5, NotifyDoes
  <2>2. a = Main => at[a] # "asleep"
    BY DEF PlaceInv
  <2>. QED
    BY <2>1, <2>2, PlaceStays DEF GoesTo, Places
<1>6. CASE UNCHANGED vars
  BY <1>6 DEF vars, PlaceInv, Starts
<1>. QED
  BY <1>0, <1>1, <1>2, <1>3, <1>4, <1>5, <1>6, StartKeepsPlaces, MakeKeepsPlaces,
     WhatStepsAre DEF Actors
-----------------------------------------------------------------------------
(* What the steps keep: the mutexes.                                       *)

\* Steps that take no mutex, make no call and wake nobody.
LEMMA LockStays ==
  ASSUME LockInv, UNCHANGED <<calls, cv_m>>,
         \A t \in Threads : at'[t] = "woken" <=> at[t] = "woken"
  PROVE  LockInv'
<1>1. CallsHold' /\ CallsDiffer'
  BY DEF LockInv, CallsHold, CallsDiffer
<1>2. HoldersCall' /\ WokenHold'
  BY DEF LockInv, HoldersCall, WokenHold
<1>. QED
  BY <1>1, <1>2 DEF LockInv

\* A thread that wakes up takes its mutex, and gives it back.
LEMMA WakeKeepsLocks ==
  ASSUME TypesInv, LockInv, NEW t \in Threads, calls[t] = <<>>,
         UNCHANGED calls, OthersStay(t),
         \/ /\ cv_m[t] = None /\ cv_m' = [cv_m EXCEPT ![t] = t]
            /\ at[t] # "woken" /\ at'[t] = "woken"
         \/ /\ at[t] = "woken" /\ at'[t] # "woken"
            /\ cv_m' = [cv_m EXCEPT ![t] = None]
  PROVE  LockInv'
<1>1. /\ None \notin Actors /\ t \in Actors
      /\ cv_m \in [Threads -> Actors \cup {None}]
      /\ calls \in [Actors -> Seq(Frames)]
      /\ \A u \in Threads : u \in Actors
  BY TreeTypes DEF TypesInv, Actors, Names
<1>2. \A u \in Threads \ {t} : /\ cv_m'[u] = cv_m[u]
                               /\ at'[u] = "woken" <=> at[u] = "woken"
  BY <1>1 DEF OthersStay
<1>3. \A a \in Actors : \A i \in 1 .. Len(calls[a]) :
        Holds(calls[a][i]) => calls[a][i].of # t /\ calls[a][i].of \in Threads
  <2>1. cv_m[t] \in {t, None}
    BY DEF LockInv, WokenHold
  <2>. SUFFICES ASSUME NEW a \in Actors, NEW i \in 1 .. Len(calls[a]),
                       Holds(calls[a][i])
                PROVE  calls[a][i].of # t /\ calls[a][i].of \in Threads
    OBVIOUS
  <2>2. cv_m[calls[a][i].of] = a
    BY DEF LockInv, CallsHold
  <2>3. a # t
    OBVIOUS
  <2>4. calls[a][i] \in Frames
    BY <1>1
  <2>. QED
    BY <1>1, <2>1, <2>2, <2>3, <2>4 DEF Frames
<1>4. CallsHold' /\ CallsDiffer'
  BY <1>2, <1>3 DEF LockInv, CallsHold, CallsDiffer
<1>5. HoldersCall'
  <2>. SUFFICES ASSUME NEW u \in Threads, NEW a \in Actors, cv_m'[u] = a
                PROVE  \/ a = u /\ at'[u] = "woken"
                       \/ \E i \in 1 .. Len(calls[a]) :
                            calls[a][i].of = u /\ Holds(calls[a][i])
    BY DEF HoldersCall
  <2>1. CASE u = t
    BY <1>1, <2>1
  <2>2. CASE u # t
    BY <1>2, <2>2 DEF LockInv, HoldersCall
  <2>. QED
    BY <2>1, <2>2
<1>6. WokenHold'
  BY <1>1, <1>2 DEF LockInv, WokenHold
<1>. QED
  BY <1>4, <1>5, <1>6 DEF LockInv

\* The frames of s after the first, at their places or the next ones, and the
\* others' stacks.
LEMMA CallKeepsLocks ==
  ASSUME TypesInv, LockInv, NEW a \in Actors, NEW f \in Frames,
         calls[a] = <<>>, calls' = [calls EXCEPT ![a] = <<f>>],
         f.pc \in {"test", "lock"}, UNCHANGED cv_m, OthersStay(a),
         at[a] # "woken", at'[a] # "woken"
  PROVE  LockInv'
<1>1. /\ calls'[a] = <<f>> /\ \A b \in Actors \ {a} : calls'[b] = calls[b]
      /\ \A u \in Threads : u \in Actors
  BY DEF TypesInv, Actors
<1>2. Len(<<f>>) = 1 /\ <<f>>[1] = f /\ ~Holds(f)
  BY DEF Holds
<1>3. \A b \in Actors : \A i \in 1 .. Len(calls'[b]) :
        Holds(calls'[b][i]) => b # a
  BY <1>1, <1>2
<1>4. CallsHold' /\ CallsDiffer'
  BY <1>1, <1>3 DEF LockInv, CallsHold, CallsDiffer
<1>5. \A u \in Threads : at'[u] = "woken" <=> at[u] = "woken" /\ u # a
  BY <1>1 DEF OthersStay
<1>6. HoldersCall' /\ WokenHold'
  <2>1. Len(calls[a]) = 0
    OBVIOUS
  <2>. QED
    BY <1>1, <1>5, <2>1 DEF LockInv, HoldersCall, WokenHold
<1>. QED
  BY <1>4, <1>6 DEF LockInv
\* The holding calls of the stack s are those of r, d places further.
Moved(s, r, d) ==
  /\ \A i \in 1 .. Len(r) : Holds(r[i]) =>
       i - d \in 1 .. Len(s) /\ Holds(s[i - d]) /\ r[i].of = s[i - d].of
  /\ \A i \in 1 .. Len(s) : Holds(s[i]) =>
       i + d \in 1 .. Len(r) /\ Holds(r[i + d]) /\ r[i + d].of = s[i].of

\* Steps after which the same calls hold the same mutexes.
LEMMA MovedKeepsLocks ==
  ASSUME TypesInv, LockInv, NEW a \in Actors, NEW r \in Seq(Frames),
         calls' = [calls EXCEPT ![a] = r], Len(calls[a]) > 0,
         NEW d \in Int, Moved(calls[a], r, d), UNCHANGED <<cv_m, at>>
  PROVE  LockInv'
<1>1. /\ calls'[a] = r /\ \A b \in Actors \ {a} : calls'[b] = calls[b]
      /\ \A u \in Threads : u \in Actors
  BY DEF TypesInv, Actors
<1>2. CallsHold'
  <2>. SUFFICES ASSUME NEW b \in Actors, NEW i \in 1 .. Len(calls'[b]),
                       Holds(calls'[b][i])
                PROVE  cv_m[calls'[b][i].of] = b
    BY DEF CallsHold
  <2>1. CASE b = a
    BY <1>1, <2>1 DEF Moved, LockInv, CallsHold
  <2>2. CASE b # a
    BY <1>1, <2>2 DEF LockInv, CallsHold
  <2>. QED
    BY <2>1, <2>2
<1>3. CallsDiffer'
  <2>. SUFFICES ASSUME NEW b \in Actors, NEW i \in 1 .. Len(calls'[b]),
                       NEW j \in 1 .. Len(calls'[b]), i # j,
                       Holds(calls'[b][i]), Holds(calls'[b][j])
                PROVE  calls'[b][i].of # calls'[b][j].of
    BY DEF CallsDiffer
  <2>1. CASE b = a
    <3>1. /\ i - d \in 1 .. Len(calls[a]) /\ j - d \in 1 .. Len(calls[a])
          /\ Holds(calls[a][i - d]) /\ Holds(calls[a][j - d])
          /\ r[i].of = calls[a][i - d].of /\ r[j].of = calls[a][j - d].of
      BY <1>1, <2>1 DEF Moved
    <3>2. i - d # j - d
      OBVIOUS
    <3>3. calls[a][i - d].of # calls[a][j - d].of
      BY <3>1, <3>2 DEF LockInv, CallsDiffer
    <3>. QED
      BY <1>1, <2>1, <3>1, <3>3
  <2>2. CASE b # a
    BY <1>1, <2>2 DEF LockInv, CallsDiffer
  <2>. QED
    BY <2>1, <2>2
<1>4. HoldersCall'
  <2>. SUFFICES ASSUME NEW u \in Threads, NEW b \in Actors, cv_m[u] = b,
                       ~(b = u /\ at[u] = "woken")
                PROVE  \E i \in 1 .. Len(calls'[b]) :
                         calls'[b][i].of = u /\ Holds(calls'[b][i])
    BY DEF HoldersCall
  <2>1. PICK i \in 1 .. Len(calls[b]) : calls[b][i].of = u /\ Holds(calls[b][i])
    BY DEF LockInv, HoldersCall
  <2>2. CASE b = a
    BY <1>1, <2>1, <2>2 DEF Moved
  <2>3. CASE b # a
    BY <1>1, <2>1, <2>3
  <2>. QED
    BY <2>2, <2>3
<1>5. WokenHold'
  <2>1. calls[a] # <<>>
    OBVIOUS
  <2>. QED
    BY <1>1, <2>1 DEF LockInv, WokenHold
<1>. QED
  BY <1>2, <1>3, <1>4, <1>5 DEF LockInv

\* The test does not touch a mutex.
LEMMA TestKeepsLocks ==
  ASSUME TypesInv, LockInv, NEW a \in Actors, Test(a)
  PROVE  LockInv'
<1>1. PICK s \in Seq(Frames), r \in Seq(Frames) :
        /\ s = calls[a] /\ calls' = [calls EXCEPT ![a] = r] /\ Len(s) > 0
        /\ s[1].pc = "test"
        /\ Shorter(s, r) \/ (Same(s, r) /\ Fields(s[1], "lock", r[1]))
        /\ UNCHANGED <<cv_m, at>>
  BY TestDoes
<1>2. CASE Shorter(s, r)
  <2>1. Moved(calls[a], r, -1)
    BY <1>1, <1>2 DEF Moved, Shorter, Holds
  <2>2. Len(calls[a]) > 0 /\ -1 \in Int
    BY <1>1
  <2>. QED
    BY <1>1, <2>1, <2>2, MovedKeepsLocks
<1>3. CASE Same(s, r) /\ Fields(s[1], "lock", r[1])
  <2>1. Moved(calls[a], r, 0)
    BY <1>1, <1>3 DEF Moved, Same, Holds, Fields
  <2>2. Len(calls[a]) > 0 /\ 0 \in Int
    BY <1>1
  <2>. QED
    BY <1>1, <2>1, <2>2, MovedKeepsLocks
<1>. QED
  BY <1>1, <1>2, <1>3

\* The call that releases calls on, and keeps its mutex.
LEMMA ReleaseKeepsLocks ==
  ASSUME TypesInv, LockInv, NEW a \in Actors, Release(a)
  PROVE  LockInv'
<1>1. PICK s \in Seq(Frames), r \in Seq(Frames) :
        /\ s = calls[a] /\ calls' = [calls EXCEPT ![a] = r] /\ Len(s) > 0
        /\ s[1].pc = "release" /\ Len(r) = Len(s) + 1
        /\ r[1] = Terminate(kids[s[1].of][s[1].next])
        /\ r[2].of = s[1].of /\ r[2].pc = "release"
        /\ \A i \in 2 .. Len(s) : r[i + 1] = s[i]
        /\ UNCHANGED <<cv_m, at>>
  BY ReleaseDoes
<1>2. r[1].pc = "test"
  BY <1>1 DEF Terminate
<1>3. ASSUME NEW i \in 1 .. Len(r), Holds(r[i])
      PROVE  i - 1 \in 1 .. Len(s) /\ Holds(s[i - 1]) /\ r[i].of = s[i - 1].of
  <2>1. i # 1
    BY <1>2, <1>3 DEF Holds
  <2>2. CASE i = 2
    BY <1>1, <2>2 DEF Holds
  <2>3. CASE i > 2
    <3>1. i - 1 \in 2 .. Len(s) /\ (i - 1) + 1 = i
      BY <1>1, <2>3
    <3>2. r[i] = s[i - 1]
      BY <1>1, <3>1
    <3>. QED
      BY <1>3, <3>1, <3>2
  <2>. QED
    BY <2>1, <2>2, <2>3
<1>4. ASSUME NEW i \in 1 .. Len(s), Holds(s[i])
      PROVE  i + 1 \in 1 .. Len(r) /\ Holds(r[i + 1]) /\ r[i + 1].of = s[i].of
  <2>1. CASE i = 1
    BY <1>1, <2>1 DEF Holds
  <2>2. CASE i > 1
    BY <1>1, <1>4, <2>2
  <2>. QED
    BY <2>1, <2>2
<1>5. Moved(calls[a], r, 1)
  BY <1>1, <1>3, <1>4 DEF Moved
<1>6. Len(calls[a]) > 0 /\ 1 \in Int
  BY <1>1
<1>. QED
  BY <1>1, <1>5, <1>6, MovedKeepsLocks

\* The call that takes a mutex is the first that holds it.
LEMMA LockKeepsLocks ==
  ASSUME TypesInv, LockInv, NEW a \in Actors, Lock(a)
  PROVE  LockInv'
<1>1. PICK s \in Seq(Frames), r \in Seq(Frames), t \in Threads :
        /\ s = calls[a] /\ calls' = [calls EXCEPT ![a] = r] /\ Len(s) > 0
        /\ s[1].pc = "lock" /\ s[1].of = t
        /\ Same(s, r)
        /\ Fields(s[1], IF released[t] THEN "notify" ELSE "release", r[1])
        /\ cv_m[t] = None /\ cv_m' = [cv_m EXCEPT ![t] = a]
        /\ at' = at
  BY LockDoes
<1>2. /\ None \notin Actors
      /\ calls'[a] = r /\ \A b \in Actors \ {a} : calls'[b] = calls[b]
      /\ \A u \in Threads : u \in Actors
      /\ cv_m'[t] = a /\ \A u \in Threads \ {t} : cv_m'[u] = cv_m[u]
      /\ calls \in [Actors -> Seq(Frames)]
  BY <1>1, TreeTypes DEF TypesInv, Actors, Names
<1>3. \A b \in Actors : \A i \in 1 .. Len(calls[b]) :
        Holds(calls[b][i]) => calls[b][i].of # t /\ calls[b][i].of \in Threads
  <2>. SUFFICES ASSUME NEW b \in Actors, NEW i \in 1 .. Len(calls[b]),
                       Holds(calls[b][i])
                PROVE  calls[b][i].of # t /\ calls[b][i].of \in Threads
    OBVIOUS
  <2>1. cv_m[calls[b][i].of] = b
    BY DEF LockInv, CallsHold
  <2>2. calls[b][i] \in Frames
    BY <1>2
  <2>. QED
    BY <1>1, <1>2, <2>1, <2>2 DEF Frames
<1>4. /\ Len(r) = Len(s) /\ r[1].of = t /\ Holds(r[1])
      /\ \A i \in 1 .. Len(r) : i # 1 => r[i] = s[i]
  BY <1>1 DEF Same, Fields, Holds
<1>5. CallsHold'
  <2>. SUFFICES ASSUME NEW b \in Actors, NEW i \in 1 .. Len(calls'[b]),
                       Holds(calls'[b][i])
                PROVE  cv_m'[calls'[b][i].of] = b
    BY DEF CallsHold
  <2>1. CASE b = a /\ i = 1
    BY <1>2, <1>4, <2>1
  <2>2. CASE ~(b = a /\ i = 1)
    <3>1. i \in 1 .. Len(calls[b]) /\ calls'[b][i] = calls[b][i]
      BY <1>1, <1>2, <1>4, <2>2
    <3>2. cv_m[calls[b][i].of] = b
      BY <3>1 DEF LockInv, CallsHold
    <3>. QED
      BY <1>2, <1>3, <3>1, <3>2
  <2>. QED
    BY <2>1, <2>2
<1>6. CallsDiffer'
  <2>. SUFFICES ASSUME NEW b \in Actors, NEW i \in 1 .. Len(calls'[b]),
                       NEW j \in 1 .. Len(calls'[b]), i # j,
                       Holds(calls'[b][i]), Holds(calls'[b][j])
                PROVE  calls'[b][i].of # calls'[b][j].of
    BY DEF CallsDiffer
  <2>1. \A k \in 1 .. Len(calls'[b]) : ~(b = a /\ k = 1) =>
          k \in 1 .. Len(calls[b]) /\ calls'[b][k] = calls[b][k]
    BY <1>1, <1>2, <1>4
  <2>2. CASE b = a /\ i = 1
    <3>1. j \in 1 .. Len(calls[a]) /\ calls'[a][j] = calls[a][j]
      BY <2>1, <2>2
    <3>2. calls[a][j].of # t
      BY <1>3, <2>2, <3>1
    <3>. QED
      BY <1>2, <1>4, <2>2, <3>1, <3>2
  <2>3. CASE b = a /\ j = 1
    <3>1. i \in 1 .. Len(calls[a]) /\ calls'[a][i] = calls[a][i]
      BY <2>1, <2>3
    <3>2. calls[a][i].of # t
      BY <1>3, <2>3, <3>1
    <3>. QED
      BY <1>2, <1>4, <2>3, <3>1, <3>2
  <2>4. CASE b # a \/ (i # 1 /\ j # 1)
    <3>1. /\ i \in 1 .. Len(calls[b]) /\ calls'[b][i] = calls[b][i]
          /\ j \in 1 .. Len(calls[b]) /\ calls'[b][j] = calls[b][j]
      BY <2>1, <2>4
    <3>2. Holds(calls[b][i]) /\ Holds(calls[b][j])
      BY <3>1
    <3>3. calls[b][i].of # calls[b][j].of
      BY <3>1, <3>2 DEF LockInv, CallsDiffer
    <3>. QED
      BY <3>1, <3>3
  <2>. QED
    BY <2>2, <2>3, <2>4
<1>7. HoldersCall'
  <2>. SUFFICES ASSUME NEW u \in Threads, NEW b \in Actors, cv_m'[u] = b,
                       ~(b = u /\ at[u] = "woken")
                PROVE  \E i \in 1 .. Len(calls'[b]) :
                         calls'[b][i].of = u /\ Holds(calls'[b][i])
    BY <1>1 DEF HoldersCall
  <2>1. CASE u = t
    <3>1. b = a /\ 1 \in 1 .. Len(calls'[a])
      BY <1>1, <1>2, <1>4, <2>1
    <3>. QED
      BY <1>2, <1>4, <2>1, <3>1
  <2>2. CASE u # t
    <3>1. PICK i \in 1 .. Len(calls[b]) : calls[b][i].of = u /\ Holds(calls[b][i])
      BY <1>2, <2>2 DEF LockInv, HoldersCall
    <3>2. ~(b = a /\ i = 1)
      BY <1>1, <3>1 DEF Holds
    <3>3. i \in 1 .. Len(calls'[b]) /\ calls'[b][i] = calls[b][i]
      BY <1>1, <1>2, <1>4, <3>2
    <3>. QED
      BY <3>1, <3>3
  <2>. QED
    BY <2>1, <2>2
<1>8. WokenHold'
  <2>1. calls[a] # <<>>
    BY <1>1
  <2>2. \A u \in Threads : at[u] = "woken" => u # a /\ u # t
    BY <1>1, <1>2, <2>1 DEF LockInv, WokenHold
  <2>. QED
    BY <1>1, <1>2, <2>2 DEF LockInv, WokenHold
<1>. QED
  BY <1>5, <1>6, <1>7, <1>8 DEF LockInv

\* The call that gives a mutex back was the only one that held it.
LEMMA NotifyKeepsLocks ==
  ASSUME TypesInv, LockInv, NEW a \in Actors, Notify(a)
  PROVE  LockInv'
<1>1. PICK s \in Seq(Frames), r \in Seq(Frames), t \in Threads :
        /\ s = calls[a] /\ calls' = [calls EXCEPT ![a] = r] /\ Len(s) > 0
        /\ s[1].of = t /\ s[1].pc \in {"notify", "release"}
        /\ Shorter(s, r)
        /\ cv_m' = [cv_m EXCEPT ![t] = None]
        /\ OthersStay(a)
        /\ \/ at'[a] = at[a]
           \/ at[a] = "asleep" /\ at'[a] = "loop"
           \/ at[a] = "joining" /\ at'[a] = "join"
  BY NotifyDoes
<1>2. /\ None \notin Actors
      /\ calls'[a] = r /\ \A b \in Actors \ {a} : calls'[b] = calls[b]
      /\ \A u \in Threads : u \in Actors
      /\ cv_m'[t] = None /\ \A u \in Threads \ {t} : cv_m'[u] = cv_m[u]
      /\ calls \in [Actors -> Seq(Frames)] /\ s # <<>>
  BY <1>1, TreeTypes DEF TypesInv, Actors, Names
<1>3. Holds(s[1]) /\ cv_m[t] = a
  BY <1>1 DEF LockInv, CallsHold, Holds
<1>4. \A u \in Threads : at'[u] = "woken" <=> at[u] = "woken"
  BY <1>1, <1>2 DEF OthersStay
<1>5. \A u \in Threads : at[u] = "woken" => u # a /\ u # t
  BY <1>1, <1>2, <1>3 DEF LockInv, WokenHold
<1>6. \A i \in 1 .. Len(r) : i + 1 \in 1 .. Len(s) /\ r[i] = s[i + 1]
  BY <1>1 DEF Shorter
<1>7. CallsHold'
  <2>. SUFFICES ASSUME NEW b \in Actors, NEW i \in 1 .. Len(calls'[b]),
                       Holds(calls'[b][i])
                PROVE  cv_m'[calls'[b][i].of] = b
    BY DEF CallsHold
  <2>1. CASE b = a
    <3>1. i + 1 \in 1 .. Len(s) /\ r[i] = s[i + 1] /\ i + 1 # 1
      BY <1>2, <1>6, <2>1
    <3>2. s[i + 1].of # s[1].of
      <4>1. Holds(s[i + 1]) /\ 1 \in 1 .. Len(s)
        BY <1>1, <1>2, <2>1, <3>1
      <4>2. \A j, k \in 1 .. Len(s) :
              Holds(s[j]) /\ Holds(s[k]) /\ j # k => s[j].of # s[k].of
        BY <1>1 DEF LockInv, CallsDiffer
      <4>. QED
        BY <1>3, <3>1, <4>1, <4>2
    <3>3. cv_m[s[i + 1].of] = a
      BY <1>1, <1>2, <2>1, <3>1 DEF LockInv, CallsHold
    <3>4. s[i + 1] \in Frames
      BY <3>1
    <3>5. s[i + 1].of \in Threads
      BY <3>4 DEF Frames
    <3>. QED
      BY <1>1, <1>2, <2>1, <3>1, <3>2, <3>3, <3>5
  <2>2. CASE b # a
    <3>1. calls'[b] = calls[b] /\ cv_m[calls[b][i].of] = b
      BY <1>2, <2>2 DEF LockInv, CallsHold
    <3>2. calls[b][i] \in Frames
      BY <1>2, <3>1
    <3>3. calls[b][i].of \in Threads
      BY <3>2 DEF Frames
    <3>. QED
      BY <1>2, <1>3, <2>2, <3>1, <3>3
  <2>. QED
    BY <2>1, <2>2
<1>8. CallsDiffer'
  <2>. SUFFICES ASSUME NEW b \in Actors, NEW i \in 1 .. Len(calls'[b]),
                       NEW j \in 1 .. Len(calls'[b]), i # j,
                       Holds(calls'[b][i]), Holds(calls'[b][j])
                PROVE  calls'[b][i].of # calls'[b][j].of
    BY DEF CallsDiffer
  <2>1. CASE b = a
    <3>0. i \in 1 .. Len(r) /\ j \in 1 .. Len(r)
      BY <1>2, <2>1
    <3>1. /\ i + 1 \in 1 .. Len(s) /\ r[i] = s[i + 1]
          /\ j + 1 \in 1 .. Len(s) /\ r[j] = s[j + 1] /\ i + 1 # j + 1
      BY <1>6, <3>0
    <3>2. Holds(s[i + 1]) /\ Holds(s[j + 1])
      BY <1>2, <2>1, <3>1
    <3>3. s[i + 1].of # s[j + 1].of
      BY <1>1, <3>1, <3>2 DEF LockInv, CallsDiffer
    <3>. QED
      BY <1>2, <2>1, <3>1, <3>3
  <2>2. CASE b # a
    <3>1. calls'[b] = calls[b]
      BY <1>2, <2>2
    <3>. QED
      BY <3>1 DEF LockInv, CallsDiffer
  <2>. QED
    BY <2>1, <2>2
<1>9. HoldersCall'
  <2>. SUFFICES ASSUME NEW u \in Threads, NEW b \in Actors, cv_m'[u] = b,
                       ~(b = u /\ at[u] = "woken")
                PROVE  \E i \in 1 .. Len(calls'[b]) :
                         calls'[b][i].of = u /\ Holds(calls'[b][i])
    BY <1>4 DEF HoldersCall
  <2>1. u # t /\ cv_m[u] = b
    BY <1>2
  <2>2. PICK i \in 1 .. Len(calls[b]) : calls[b][i].of = u /\ Holds(calls[b][i])
    BY <2>1 DEF LockInv, HoldersCall
  <2>3. CASE b = a
    <3>1. i # 1
      BY <1>1, <2>1, <2>2, <2>3
    <3>2. i - 1 \in 1 .. Len(r) /\ (i - 1) + 1 = i
      BY <1>1, <2>2, <2>3, <3>1 DEF Shorter
    <3>3. r[i - 1] = s[i]
      BY <1>6, <3>2
    <3>. QED
      BY <1>1, <1>2, <2>2, <2>3, <3>2, <3>3
  <2>4. CASE b # a
    BY <1>2, <2>2, <2>4
  <2>. QED
    BY <2>3, <2>4
<1>10. WokenHold'
  BY <1>2, <1>4, <1>5 DEF LockInv, WokenHold
<1>. QED
  BY <1>7, <1>8, <1>9, <1>10 DEF LockInv
\* Every step keeps what holds of the mutexes.
LEMMA StepKeepsLocks ==
  ASSUME TypesInv, PlaceInv, LockInv, [SmartThreadNext]_vars
  PROVE  LockInv'
<1>0. Main \notin Threads /\ \A t \in Threads : t \in Actors
  BY TreeTypes DEF Names, Actors
<1>1. ASSUME NEW a \in Actors, Start(a) PROVE LockInv'
  <2>1. PICK t \in Threads :
          /\ at[a] = "start"
          /\ \E after \in {"start", "join", "loop", "input"} :
               at' = [at EXCEPT ![a] = after,
                          ![t] = IF StartsNow(t) THEN FirstStep(t) ELSE @]
    BY <1>1, StartDoes
  <2>2. FirstStep(t) \in {"start", "loop", "input", "join"}
    BY TreeTypes
  <2>3. \A u \in Threads : at'[u] = "woken" <=> at[u] = "woken"
    BY <1>0, <2>1, <2>2 DEF TypesInv, StartsNow
  <2>4. UNCHANGED <<calls, cv_m>>
    BY <1>1 DEF Start
  <2>. QED
    BY <2>3, <2>4, LockStays
<1>2. ASSUME NEW t \in Threads, Make(t) PROVE LockInv'
  <2>1. PICK x \in Threads :
          /\ x # t /\ at[t] = "make" /\ at[x] = "none"
          /\ at' = [at EXCEPT ![t] = "loop", ![x] = FirstStep(x)]
    BY <1>2, MakeDoes
  <2>2. FirstStep(x) \in {"start", "loop", "input", "join"}
    BY TreeTypes
  <2>3. \A u \in Threads : at'[u] = "woken" <=> at[u] = "woken"
    BY <1>0, <2>1, <2>2 DEF TypesInv
  <2>4. UNCHANGED <<calls, cv_m>>
    BY <1>2 DEF Make
  <2>. QED
    BY <2>3, <2>4, LockStays
<1>3. ASSUME NEW t \in Threads, RunStep(t) PROVE LockInv'
  <2>1. /\ calls[t] = <<>> /\ OthersStay(t)
        /\ \/ cv_m' = cv_m /\ at[t] # "woken" /\ at'[t] # "woken"
           \/ /\ cv_m[t] = None /\ cv_m' = [cv_m EXCEPT ![t] = t]
              /\ at[t] # "woken" /\ at'[t] = "woken"
           \/ /\ at[t] = "woken" /\ at'[t] # "woken"
              /\ cv_m' = [cv_m EXCEPT ![t] = None]
        /\ UNCHANGED calls
    BY <1>3, RunDoes
  <2>2. CASE cv_m' = cv_m /\ at[t] # "woken" /\ at'[t] # "woken"
    <3>1. \A u \in Threads : at'[u] = "woken" <=> at[u] = "woken"
      BY <1>0, <2>1, <2>2 DEF OthersStay
    <3>. QED
      BY <2>1, <2>2, <3>1, LockStays
  <2>3. CASE ~(cv_m' = cv_m /\ at[t] # "woken" /\ at'[t] # "woken")
    BY <2>1, <2>3, WakeKeepsLocks
  <2>. QED
    BY <2>2, <2>3
<1>4. ASSUME NEW a \in Actors, Join(a) PROVE LockInv'
  <2>1. /\ at[a] = "join" /\ OthersStay(a) /\ at'[a] \in {"joining", "gone", "end"}
        /\ UNCHANGED <<calls, cv_m>>
    BY <1>4, JoinDoes
  <2>2. \A u \in Threads : at'[u] = "woken" <=> at[u] = "woken"
    BY <1>0, <2>1 DEF OthersStay
  <2>. QED
    BY <2>1, <2>2, LockStays
<1>5. ASSUME NEW a \in Actors,
             \/ a \in Threads /\ (StopOther(a) \/ EndOfRun(a))
             \/ a = Main /\ Signal
      PROVE  LockInv'
  <2>1. PICK f \in Frames :
          /\ calls[a] = <<>> /\ calls' = [calls EXCEPT ![a] = <<f>>]
          /\ f.pc \in {"test", "lock"}
          /\ at[a] \in {"stop", "end", "start", "joining"} /\ OthersStay(a)
          /\ at'[a] = at[a] \/ (a \in Threads /\ at'[a] \in {"end", "gone"})
          /\ UNCHANGED cv_m
    BY <1>5, CallDoes
  <2>. QED
    BY <2>1, CallKeepsLocks
<1>6. CASE UNCHANGED vars
  BY <1>6, LockStays DEF vars
<1>. QED
  BY <1>0, <1>1, <1>2, <1>3, <1>4, <1>5, <1>6, TestKeepsLocks, ReleaseKeepsLocks,
     LockKeepsLocks, NotifyKeepsLocks, WhatStepsAre DEF Actors

-----------------------------------------------------------------------------
(* What the steps keep: the way down.                                      *)

\* Every step keeps that calls go down the tree.
LEMMA StepKeepsStacks ==
  ASSUME TypesInv, PlaceInv, StackInv, [SmartThreadNext]_vars
  PROVE  StackInv'
<1>1. ASSUME NEW t \in Threads, Make(t) PROVE StackInv'
  <2>1. PICK x \in Threads, l \in Threads :
          /\ x = program.makes[t] /\ l = program.list[t]
          /\ kids' = [kids EXCEPT ![l] = Append(@, x)]
    BY <1>1, MakeDoes
  <2>2. UNCHANGED <<program, calls>>
    BY <1>1 DEF Make
  <2>3. x \in Below(program, l)
    <3>1. x # None
      BY TreeTypes
    <3>. QED
      BY <2>1, <3>1 DEF Below
  <2>4. KidsBelow'
    <3>. SUFFICES ASSUME NEW u \in Threads, NEW i \in 1 .. Len(kids'[u])
                  PROVE  kids'[u][i] \in Below(program, u)
      BY <2>2 DEF KidsBelow
    <3>1. CASE u = l
      <4>. DEFINE k == kids[l]
      <4>1. k \in Seq(Threads) /\ kids'[l] = Append(k, x)
        BY <2>1 DEF TypesInv
      <4>2. \A j \in 1 .. Len(k) : k[j] \in Below(program, l)
        BY DEF StackInv, KidsBelow
      <4>. HIDE DEF k
      <4>. QED
        BY <2>3, <3>1, <4>1, <4>2
    <3>2. CASE u # l
      <4>1. kids'[u] = kids[u]
        BY <2>1, <3>2 DEF TypesInv
      <4>. QED
        BY <4>1 DEF StackInv, KidsBelow
    <3>. QED
      BY <3>1, <3>2
  <2>5. CallsGoDown'
    BY <2>2 DEF StackInv, CallsGoDown
  <2>. QED
    BY <2>4, <2>5 DEF StackInv
<1>2. ASSUME UNCHANGED <<program, kids>> PROVE KidsBelow'
  BY <1>2 DEF StackInv, KidsBelow
<1>3. ASSUME UNCHANGED <<program, kids>>, NEW a \in Actors, NEW r \in Seq(Frames),
             calls' = [calls EXCEPT ![a] = r],
             \A i \in 2 .. Len(r) : /\ r[i].pc = "release"
                                    /\ r[i - 1].of \in Below(program, r[i].of)
      PROVE  StackInv'
  <2>1. calls'[a] = r /\ \A b \in Actors \ {a} : calls'[b] = calls[b]
    BY <1>3 DEF TypesInv
  <2>. SUFFICES ASSUME NEW b \in Actors, NEW i \in 2 .. Len(calls'[b])
                PROVE  /\ calls'[b][i].pc = "release"
                       /\ calls'[b][i - 1].of \in Below(program, calls'[b][i].of)
    BY <1>2, <1>3 DEF StackInv, CallsGoDown
  <2>2. CASE b = a
    BY <1>3, <2>1, <2>2
  <2>3. CASE b # a
    BY <2>1, <2>3 DEF StackInv, CallsGoDown
  <2>. QED
    BY <2>2, <2>3
<1>4. ASSUME NEW a \in Actors
      PROVE  \A i \in 2 .. Len(calls[a]) :
               /\ calls[a][i].pc = "release"
               /\ calls[a][i - 1].of \in Below(program, calls[a][i].of)
  BY DEF StackInv, CallsGoDown
<1>5. ASSUME NEW s \in Seq(Frames), NEW r \in Seq(Frames), Len(s) > 0,
             \/ Shorter(s, r)
             \/ Same(s, r) /\ r[1].of = s[1].of,
             \A i \in 2 .. Len(s) : /\ s[i].pc = "release"
                                    /\ s[i - 1].of \in Below(program, s[i].of)
      PROVE  \A i \in 2 .. Len(r) : /\ r[i].pc = "release"
                                    /\ r[i - 1].of \in Below(program, r[i].of)
  <2>. SUFFICES ASSUME NEW i \in 2 .. Len(r)
                PROVE  /\ r[i].pc = "release"
                       /\ r[i - 1].of \in Below(program, r[i].of)
    OBVIOUS
  <2>1. CASE Shorter(s, r)
    <3>1. /\ i + 1 \in 2 .. Len(s) /\ r[i] = s[i + 1]
          /\ r[i - 1] = s[(i - 1) + 1] /\ (i - 1) + 1 = (i + 1) - 1
      BY <2>1 DEF Shorter
    <3>. QED
      BY <1>5, <3>1
  <2>2. CASE Same(s, r) /\ r[1].of = s[1].of
    <3>1. i \in 2 .. Len(s) /\ r[i] = s[i] /\ r[i - 1].of = s[i - 1].of
      BY <2>2 DEF Same
    <3>. QED
      BY <1>5, <3>1
  <2>. QED
    BY <1>5, <2>1, <2>2
<1>6. ASSUME NEW a \in Actors, Test(a) \/ Lock(a) \/ Notify(a) PROVE StackInv'
  <2>1. UNCHANGED <<program, kids>>
    BY <1>6 DEF Test, Lock, Notify
  <2>2. PICK s \in Seq(Frames), r \in Seq(Frames) :
          /\ s = calls[a] /\ calls' = [calls EXCEPT ![a] = r] /\ Len(s) > 0
          /\ \/ Shorter(s, r)
             \/ Same(s, r) /\ r[1].of = s[1].of
    <3>1. CASE Test(a)
      BY <3>1, TestDoes DEF Fields
    <3>2. CASE Lock(a)
      BY <3>2, LockDoes DEF Fields
    <3>3. CASE Notify(a)
      BY <3>3, NotifyDoes
    <3>. QED
      BY <1>6, <3>1, <3>2, <3>3
  <2>3. \A i \in 2 .. Len(r) : /\ r[i].pc = "release"
                               /\ r[i - 1].of \in Below(program, r[i].of)
    BY <1>4, <1>5, <2>2
  <2>. QED
    BY <1>3, <2>1, <2>2, <2>3
<1>7. ASSUME NEW a \in Actors, Release(a) PROVE StackInv'
  <2>1. PICK s \in Seq(Frames), r \in Seq(Frames) :
          /\ s = calls[a] /\ calls' = [calls EXCEPT ![a] = r] /\ Len(s) > 0
          /\ s[1].next \in 1 .. Len(kids[s[1].of])
          /\ Len(r) = Len(s) + 1
          /\ r[1] = Terminate(kids[s[1].of][s[1].next])
          /\ r[2].of = s[1].of /\ r[2].pc = "release"
          /\ \A i \in 2 .. Len(s) : r[i + 1] = s[i]
    <3>1. PICK s \in Seq(Frames), r \in Seq(Frames) :
            /\ s = calls[a] /\ calls' = [calls EXCEPT ![a] = r] /\ Len(s) > 0
            /\ s[1].pc = "release"
            /\ s[1].next \in 1 .. Len(kids[s[1].of])
            /\ Len(r) = Len(s) + 1
            /\ r[1] = Terminate(kids[s[1].of][s[1].next])
            /\ r[2].of = s[1].of /\ r[2].pc = "release"
            /\ r[2].next = s[1].next + 1
            /\ \A i \in 2 .. Len(s) : r[i + 1] = s[i]
      BY <1>7, ReleaseDoes
    <3>. QED
      BY <3>1
  <2>2. UNCHANGED <<program, kids>>
    BY <1>7 DEF Release
  <2>3. s[1] \in Frames /\ s[1].of \in Threads
    <3>1. s[1] \in Frames
      BY <2>1
    <3>. QED
      BY <3>1 DEF Frames
  <2>4. r[1].of \in Below(program, r[2].of)
    BY <2>1, <2>3 DEF Terminate, StackInv, KidsBelow
  <2>5. ASSUME NEW i \in 2 .. Len(r)
        PROVE  /\ r[i].pc = "release" /\ r[i - 1].of \in Below(program, r[i].of)
    <3>1. CASE i = 2
      BY <2>1, <2>4, <3>1
    <3>2. CASE i = 3
      <4>1. 2 \in 2 .. Len(s) /\ r[3] = s[2]
        BY <2>1, <3>2
      <4>. QED
        BY <1>4, <2>1, <3>2, <4>1
    <3>3. CASE i > 3
      <4>1. /\ i - 1 \in 2 .. Len(s) /\ r[i] = s[i - 1]
            /\ (i - 1) - 1 \in 2 .. Len(s) /\ r[i - 1] = s[(i - 1) - 1]
        <5>1. i - 1 \in 2 .. Len(s) /\ i - 2 \in 2 .. Len(s)
          BY <2>1, <3>3
        <5>2. r[(i - 1) + 1] = s[i - 1] /\ r[(i - 2) + 1] = s[i - 2]
          BY <2>1, <5>1
        <5>. QED
          BY <5>1, <5>2
      <4>. QED
        BY <1>4, <2>1, <4>1
    <3>. QED
      BY <3>1, <3>2, <3>3
  <2>. QED
    BY <1>3, <2>1, <2>2, <2>5
<1>8. ASSUME NEW a \in Actors,
             \/ a \in Threads /\ (StopOther(a) \/ EndOfRun(a))
             \/ a = Main /\ Signal
      PROVE  StackInv'
  <2>1. PICK f \in Frames : /\ calls' = [calls EXCEPT ![a] = <<f>>]
                            /\ UNCHANGED <<program, kids>>
    BY <1>8, CallDoes
  <2>. DEFINE r == <<f>>
  <2>2. r \in Seq(Frames) /\ Len(r) = 1
    OBVIOUS
  <2>3. calls' = [calls EXCEPT ![a] = r] /\ UNCHANGED <<program, kids>>
    BY <2>1
  <2>. HIDE DEF r
  <2>4. \A i \in 2 .. Len(r) : FALSE
    BY <2>2
  <2>. QED
    BY <1>3, <2>2, <2>3, <2>4
<1>9. ASSUME UNCHANGED <<program, kids, calls>> PROVE StackInv'
  BY <1>9, <1>2 DEF StackInv, CallsGoDown
<1>10. ASSUME NEW a \in Actors, Start(a) \/ Join(a) PROVE StackInv'
  BY <1>9, <1>10 DEF Start, Join
<1>11. ASSUME NEW t \in Threads, RunStep(t) PROVE StackInv'
  BY <1>9, <1>11, RunDoes
<1>12. CASE UNCHANGED vars
  BY <1>9, <1>12 DEF vars
<1>. QED
  BY <1>1, <1>6, <1>7, <1>8, <1>10, <1>11, <1>12, WhatStepsAre DEF Actors
-----------------------------------------------------------------------------
(* The types and the mutexes, at every step.                               *)

\* The programs begin with no thread but main() and no call.
LEMMA InitIsGood ==
  ASSUME SmartThreadInit
  PROVE  ThreadInv
<1>. USE DEF SmartThreadInit
<1>0. /\ Main \in Actors /\ Main \notin Threads /\ program \in Programs
      /\ None \notin Actors /\ \A t \in Threads : t \in Actors
      /\ \A t \in Threads : program.releases[t] \in Seq(Threads)
  BY ProgramAssumption DEF ProgramAssumption, Actors, Names
<1>1. kids \in [Threads -> Seq(Threads)]
  BY <1>0, ProgramAssumption DEF ProgramAssumption
<1>2. TypesInv
  BY <1>0, <1>1 DEF TypesInv, Places
<1>3. PlaceInv
  <2>1. Starts(Main) = <<program.root>> /\ Len(Starts(Main)) = 1
    BY DEF Starts
  <2>2. /\ at[Main] = "start" /\ started[Main] = 0
        /\ \A t \in Threads : at[t] = "none" /\ started[t] = 0
    BY <1>0
  <2>3. \A a \in Actors : at[a] = "start" => a = Main
    BY DEF Actors
  <2>. HIDE DEF SmartThreadInit
  <2>4. ASSUME NEW a \in Actors, at[a] = "start"
        PROVE  started[a] < Len(Starts(a))
    <3>1. a = Main
      BY <2>3, <2>4
    <3>2. started[Main] < Len(Starts(Main))
      BY <2>1, <2>2
    <3>. QED
      BY <3>1, <3>2
  <2>. QED
    BY <2>2, <2>4 DEF PlaceInv
<1>4. \A a \in Actors : calls[a] = <<>> /\ Len(calls[a]) = 0
  OBVIOUS
<1>5. LockInv
  BY <1>0, <1>4 DEF LockInv, CallsHold, CallsDiffer, HoldersCall, WokenHold
<1>6. KidsBelow
  BY DEF KidsBelow, Below
<1>7. CallsGoDown
  BY <1>4 DEF CallsGoDown
<1>. QED
  BY <1>2, <1>3, <1>5, <1>6, <1>7 DEF ThreadInv, StackInv

\* The inductive invariant of the threads, their mutexes and their calls.
THEOREM ThreadInvIsInvariant == SmartThreadSpec => []ThreadInv
<1>1. SmartThreadInit => ThreadInv
  BY InitIsGood
<1>2. ThreadInv /\ [SmartThreadNext]_vars => ThreadInv'
  BY StepKeepsTypes, StepKeepsPlaces, StepKeepsLocks, StepKeepsStacks DEF ThreadInv
<1>. QED
  BY <1>1, <1>2, PTL DEF SmartThreadSpec

\* The variables keep their types, and a call that runs release functions or
\* notifies has the mutex of its thread.
THEOREM SmartThreadIsTyped == SmartThreadSpec => []SmartThreadTypeOK
<1>1. ThreadInv => SmartThreadTypeOK
  <2>. SUFFICES ASSUME ThreadInv PROVE SmartThreadTypeOK
    OBVIOUS
  <2>. USE DEF ThreadInv, TypesInv
  <2>1. flags \in [1 .. 4 -> [Threads -> BOOLEAN]]
    BY DEF flags
  <2>2. at \in [Actors ->
          {"none", "start", "loop", "woken", "asleep", "read", "make", "input",
           "tell", "join", "joining", "stop", "end", "gone"}]
    BY DEF Places
  <2>3. \A a \in Actors : \A i \in 1 .. Len(calls[a]) :
          /\ calls[a][i].pc \in {"test", "lock", "release", "notify"}
          /\ calls[a][i].pc \in {"release", "notify"} => cv_m[calls[a][i].of] = a
    <3>. SUFFICES ASSUME NEW a \in Actors, NEW i \in 1 .. Len(calls[a])
                  PROVE  /\ calls[a][i].pc \in {"test", "lock", "release", "notify"}
                         /\ calls[a][i].pc \in {"release", "notify"}
                              => cv_m[calls[a][i].of] = a
      OBVIOUS
    <3>1. calls[a][i] \in Frames
      OBVIOUS
    <3>2. calls[a][i].pc \in {"test", "lock", "release", "notify"}
      BY <3>1 DEF Frames
    <3>3. calls[a][i].pc \in {"release", "notify"} => cv_m[calls[a][i].of] = a
      BY DEF LockInv, CallsHold, Holds
    <3>. QED
      BY <3>2, <3>3
  <2>. QED
    BY <2>1, <2>2, <2>3 DEF SmartThreadTypeOK
<1>. QED
  BY <1>1, ThreadInvIsInvariant, PTL

-----------------------------------------------------------------------------
(* Nobody waits in a circle.                                               *)

\* What a thread needs is the mutex of a thread.
LEMMA NeedsAThread ==
  ASSUME TypesInv, PlaceInv, NEW a \in Actors
  PROVE  Needs(a) \in Names
<1>1. /\ program.root \in Threads /\ Main \notin Threads
      /\ \A t \in Threads : /\ program.starts[t] \in Seq(Threads)
                            /\ program.list[t] \in Names /\ program.joins[t] \in Names
      /\ calls[a] \in Seq(Frames) /\ started[a] \in Nat
  BY TreeTypes DEF Names, TypesInv
<1>2. Joined(a) \in Names
  BY <1>1 DEF Joined, Actors, Names
<1>3. CASE calls[a] # <<>>
  <2>1. calls[a][1] \in Frames
    BY <1>1, <1>3
  <2>2. Top(a).of \in Threads
    BY <2>1 DEF Top, Frames
  <2>. QED
    BY <1>3, <2>2 DEF Needs, Names
<1>4. CASE calls[a] = <<>>
  <2>1. CASE at[a] = "start"
    <3>1. started[a] + 1 \in 1 .. Len(Starts(a))
      BY <1>1, <2>1 DEF PlaceInv
    <3>2. CASE a = Main
      BY <1>1, <1>4, <2>1, <3>1, <3>2 DEF Needs, Starts, Names
    <3>3. CASE a # Main
      BY <1>1, <1>4, <2>1, <3>1, <3>3 DEF Needs, Starts, Names, Actors
    <3>. QED
      BY <3>2, <3>3
  <2>2. CASE at[a] = "make"
    <3>1. a \in Threads
      BY <2>2 DEF PlaceInv, Actors
    <3>. QED
      BY <1>1, <1>4, <2>2, <3>1 DEF Needs
  <2>3. CASE at[a] \in {"join", "tell"}
    BY <1>2, <1>4, <2>3 DEF Needs
  <2>4. CASE at[a] = "loop"
    <3>1. a \in Threads
      BY <2>4 DEF PlaceInv, Actors
    <3>. QED
      BY <1>4, <2>4, <3>1 DEF Needs, Names
  <2>5. CASE at[a] \notin {"start", "make", "join", "tell", "loop"}
    BY <1>4, <2>5 DEF Needs, Names
  <2>. QED
    BY <2>1, <2>2, <2>3, <2>4, <2>5
<1>. QED
  BY <1>3, <1>4

\* Threads that terminate each other never wait for each other's mutexes in a
\* circle, nor one for itself: in such a circle everybody would be in a call of
\* terminate, and below each of these calls there would be another.
THEOREM NobodyWaitsInACircle == SmartThreadSpec => []NoWaitCycle
<1>1. ThreadInv => NoWaitCycle
  <2>. SUFFICES ASSUME ThreadInv, NEW S \in (SUBSET Waiting) \ {{}},
                       \A a \in S : HeldBy(a) \in S
                PROVE  FALSE
    BY DEF NoWaitCycle
  <2>. USE DEF ThreadInv
  <2>1. /\ None \notin Actors /\ None \notin Threads /\ program \in Programs
        /\ \A t \in Threads : t \in Actors
        /\ calls \in [Actors -> Seq(Frames)]
    BY TreeTypes DEF Actors, Names, TypesInv
  <2>2. ASSUME NEW a \in S
        PROVE  /\ a \in Actors /\ HeldBy(a) \in S /\ Needs(a) \in Threads
               /\ HeldBy(a) = cv_m[Needs(a)]
    <3>1. a \in Actors /\ HeldBy(a) # None /\ HeldBy(a) \in S
      BY DEF Waiting
    <3>2. Needs(a) # None /\ HeldBy(a) = cv_m[Needs(a)]
      BY <3>1 DEF HeldBy
    <3>. QED
      BY <3>1, <3>2, NeedsAThread DEF Names
  <2>3. ASSUME NEW a \in S
        PROVE  \E i \in 1 .. Len(calls[HeldBy(a)]) :
                 /\ calls[HeldBy(a)][i].of = Needs(a)
                 /\ Holds(calls[HeldBy(a)][i])
    <3>. DEFINE b == HeldBy(a)
    <3>1. b \in S /\ b \in Actors /\ cv_m[Needs(a)] = b /\ Needs(a) \in Threads
      BY <2>2
    <3>2. CASE b = Needs(a) /\ at[b] = "woken"
      <4>1. calls[b] = <<>>
        BY <3>1, <3>2 DEF LockInv, WokenHold
      <4>2. Needs(b) = None
        BY <3>2, <4>1 DEF Needs
      <4>. QED
        BY <2>1, <2>2, <3>1, <4>2
    <3>3. CASE ~(b = Needs(a) /\ at[b] = "woken")
      BY <3>1, <3>3 DEF LockInv, HoldersCall
    <3>. QED
      BY <3>2, <3>3
  <2>4. ASSUME NEW b \in S, calls[b] # <<>>
        PROVE  /\ Len(calls[b]) > 0 /\ calls[b][1].pc = "lock"
               /\ Needs(b) = calls[b][1].of
    <3>1. Needs(b) # None /\ b \in Actors
      BY <2>1, <2>2
    <3>2. At(b, "lock") /\ Needs(b) = Top(b).of
      BY <2>4, <3>1 DEF Needs
    <3>3. calls[b] \in Seq(Frames)
      BY <2>1, <3>1
    <3>. QED
      BY <2>4, <3>2, <3>3 DEF At, Top
  <2>. DEFINE D == {t \in Threads : \E b \in S : \E i \in 1 .. Len(calls[b]) :
                                      calls[b][i].of = t}
  <2>5. ASSUME NEW b \in S, NEW i \in 1 .. Len(calls[b])
        PROVE  calls[b][i].of \in D
    <3>1. calls[b][i] \in Frames
      BY <2>1, <2>2
    <3>. QED
      BY <3>1 DEF Frames
  <2>6. ASSUME NEW a \in S
        PROVE  \E d \in D : d \in Below(program, Needs(a))
    <3>. DEFINE b == HeldBy(a)
    <3>1. b \in S /\ b \in Actors
      BY <2>2
    <3>2. PICK i \in 1 .. Len(calls[b]) :
            calls[b][i].of = Needs(a) /\ Holds(calls[b][i])
      BY <2>3
    <3>3. calls[b] \in Seq(Frames) /\ calls[b] # <<>>
      BY <2>1, <3>1, <3>2
    <3>4. i # 1
      BY <2>4, <3>1, <3>2, <3>3 DEF Holds
    <3>5. i \in 2 .. Len(calls[b]) /\ i - 1 \in 1 .. Len(calls[b])
      BY <3>3, <3>4
    <3>6. calls[b][i - 1].of \in Below(program, Needs(a))
      BY <3>1, <3>2, <3>5 DEF StackInv, CallsGoDown
    <3>7. calls[b][i - 1].of \in D
      BY <2>5, <3>1, <3>5
    <3>. QED
      BY <3>6, <3>7
  <2>7. ASSUME NEW t \in D
        PROVE  Below(program, t) \cap D # {}
    <3>0. PICK b \in S : \E i \in 1 .. Len(calls[b]) : calls[b][i].of = t
      OBVIOUS
    <3>1. PICK i \in 1 .. Len(calls[b]) : calls[b][i].of = t
      BY <3>0
    <3>2. b \in Actors /\ calls[b] \in Seq(Frames)
      BY <2>1, <2>2
    <3>3. CASE i = 1
      <4>1. calls[b] # <<>>
        BY <3>2
      <4>2. Needs(b) = t
        BY <2>4, <3>1, <3>3, <4>1
      <4>. QED
        BY <2>6, <4>2
    <3>4. CASE i # 1
      <4>1. i \in 2 .. Len(calls[b]) /\ i - 1 \in 1 .. Len(calls[b])
        BY <3>2, <3>4
      <4>2. calls[b][i - 1].of \in Below(program, t)
        BY <3>1, <3>2, <4>1 DEF StackInv, CallsGoDown
      <4>3. calls[b][i - 1].of \in D
        BY <2>5, <4>1
      <4>. QED
        BY <4>2, <4>3
    <3>. QED
      BY <3>3, <3>4
  <2>8. D \in (SUBSET Threads) \ {{}}
    <3>1. PICK a \in S : TRUE
      OBVIOUS
    <3>2. D # {}
      BY <2>6, <3>1
    <3>. QED
      BY <3>2
  <2>. HIDE DEF D
  <2>. QED
    BY <2>1, <2>7, <2>8, TreeAssumption DEF TreeAssumption
<1>. QED
  BY <1>1, ThreadInvIsInvariant, PTL
-----------------------------------------------------------------------------
(* Nobody is forgotten.                                                    *)

\* A call of the stack s has still to terminate k, the i-th of those of t, or is
\* about to.
Coming(s, t, i, k) ==
  \E j \in 1 .. Len(s) :
    /\ s[j].of = t /\ s[j].pc = "release"
    /\ \/ s[j].next <= i
       \/ /\ j > 1 /\ s[j - 1].of = k
          /\ s[j - 1].pc \in {"test", "lock"} /\ ~s[j - 1].last

Covered(t, i) ==
  \/ terminating[kids[t][i]] \/ kids[t][i] \in late
  \/ \E a \in Actors : Coming(calls[a], t, i, kids[t][i])

\* Once the release functions of a thread were begun, each of those that they
\* terminate was told to end, came too late, or is still coming.
CallsBegin ==
  \A a \in Actors : \A i \in 1 .. Len(calls[a]) :
    calls[a][i].pc \in {"test", "lock"} => calls[a][i].next = 1

AllCovered ==
  \A t \in Threads : released[t] => \A i \in 1 .. Len(kids[t]) : Covered(t, i)

OrphanInv == CallsBegin /\ AllCovered

\* The calls of a move on, those of the others do not.
LEMMA CoverStays ==
  ASSUME TypesInv, AllCovered, NEW a \in Actors, NEW r \in Seq(Frames),
         calls' = [calls EXCEPT ![a] = r], UNCHANGED <<kids, late>>,
         \A t \in Threads : terminating[t] => terminating'[t],
         NEW t \in Threads, released[t], NEW i \in 1 .. Len(kids[t]),
         Coming(calls[a], t, i, kids[t][i])
           => Coming(r, t, i, kids[t][i]) \/ terminating'[kids[t][i]]
  PROVE  Covered(t, i)'
<1>. DEFINE k == kids[t][i]
<1>1. /\ k \in Threads /\ calls'[a] = r
      /\ \A b \in Actors \ {a} : calls'[b] = calls[b]
      /\ kids'[t][i] = k /\ late' = late
  BY DEF TypesInv
<1>2. \/ terminating[k] \/ k \in late \/ \E b \in Actors : Coming(calls[b], t, i, k)
  BY DEF AllCovered, Covered
<1>3. ASSUME NEW b \in Actors, Coming(calls[b], t, i, k)
      PROVE  terminating'[k] \/ \E c \in Actors : Coming(calls'[c], t, i, k)
  <2>1. CASE b = a
    BY <1>1, <1>3, <2>1
  <2>2. CASE b # a
    <3>1. calls'[b] = calls[b]
      BY <1>1, <2>2
    <3>2. Coming(calls'[b], t, i, k)
      BY <1>3, <3>1
    <3>. QED
      BY <3>2
  <2>. QED
    BY <2>1, <2>2
<1>4. terminating'[k] \/ k \in late \/ \E c \in Actors : Coming(calls'[c], t, i, k)
  BY <1>1, <1>2, <1>3
<1>5. Covered(t, i)' <=> \/ terminating'[k] \/ k \in late
                         \/ \E c \in Actors : Coming(calls'[c], t, i, k)
  BY <1>1 DEF Covered, Coming
<1>. QED
  BY <1>4, <1>5

\* When the innermost call returns, the calls below it stay, and what it was to
\* tell has been told.
LEMMA ShorterKeepsComing ==
  ASSUME NEW s \in Seq(Frames), NEW r \in Seq(Frames), Len(s) > 0, Shorter(s, r),
         NEW t, NEW i, NEW k, Coming(s, t, i, k),
         s[1].of = t /\ s[1].pc = "release" => ~(s[1].next <= i)
  PROVE  \/ Coming(r, t, i, k)
         \/ s[1].of = k /\ s[1].pc \in {"test", "lock"} /\ ~s[1].last
<1>1. PICK j \in 1 .. Len(s) :
        /\ s[j].of = t /\ s[j].pc = "release"
        /\ \/ s[j].next <= i
           \/ /\ j > 1 /\ s[j - 1].of = k
              /\ s[j - 1].pc \in {"test", "lock"} /\ ~s[j - 1].last
  BY DEF Coming
<1>2. j > 1
  BY <1>1
<1>3. /\ j - 1 \in 1 .. Len(r) /\ r[j - 1] = s[j]
  <2>1. j - 1 \in 1 .. Len(r) /\ (j - 1) + 1 = j
    BY <1>2 DEF Shorter
  <2>2. r[j - 1] = s[(j - 1) + 1]
    BY <2>1 DEF Shorter
  <2>. QED
    BY <2>1, <2>2
<1>4. CASE s[j].next <= i
  BY <1>1, <1>3, <1>4 DEF Coming
<1>5. CASE /\ s[j - 1].of = k /\ s[j - 1].pc \in {"test", "lock"}
           /\ ~s[j - 1].last
  <2>1. CASE j = 2
    BY <1>5, <2>1
  <2>2. CASE j > 2
    <3>1. (j - 1) - 1 \in 1 .. Len(r) /\ ((j - 1) - 1) + 1 = j - 1 /\ j - 1 > 1
      BY <1>3, <2>2
    <3>2. r[(j - 1) - 1] = s[j - 1]
      <4>1. r[(j - 1) - 1] = s[((j - 1) - 1) + 1]
        BY <3>1 DEF Shorter
      <4>. QED
        BY <3>1, <4>1
    <3>. QED
      BY <1>1, <1>3, <1>5, <3>1, <3>2 DEF Coming
  <2>. QED
    BY <1>2, <2>1, <2>2
<1>. QED
  BY <1>1, <1>4, <1>5

\* When the innermost call goes on, the others stay; only its lock tells.
LEMMA SameKeepsComing ==
  ASSUME NEW s \in Seq(Frames), NEW r \in Seq(Frames), Len(s) > 0, Same(s, r),
         s[1].pc \in {"test", "lock"},
         NEW t, NEW i, NEW k, Coming(s, t, i, k)
  PROVE  \/ /\ Coming(r, t, i, k)
         \/ s[1].of = k /\ ~s[1].last /\ ~Fields(s[1], "lock", r[1])
<1>1. PICK j \in 1 .. Len(s) :
        /\ s[j].of = t /\ s[j].pc = "release"
        /\ \/ s[j].next <= i
           \/ /\ j > 1 /\ s[j - 1].of = k
              /\ s[j - 1].pc \in {"test", "lock"} /\ ~s[j - 1].last
  BY DEF Coming
<1>2. j > 1 /\ j \in 1 .. Len(r) /\ r[j] = s[j]
  BY <1>1 DEF Same
<1>3. CASE s[j].next <= i
  BY <1>1, <1>2, <1>3 DEF Coming
<1>4. CASE /\ s[j - 1].of = k /\ s[j - 1].pc \in {"test", "lock"}
           /\ ~s[j - 1].last
  <2>1. CASE j = 2
    <3>1. CASE Fields(s[1], "lock", r[1])
      BY <1>1, <1>2, <1>4, <2>1, <3>1 DEF Coming, Fields
    <3>2. CASE ~Fields(s[1], "lock", r[1])
      BY <1>4, <2>1, <3>2
    <3>. QED
      BY <3>1, <3>2
  <2>2. CASE j > 2
    <3>1. j - 1 \in 2 .. Len(s) /\ r[j - 1] = s[j - 1]
      BY <1>2, <2>2 DEF Same
    <3>. QED
      BY <1>1, <1>2, <1>4, <3>1 DEF Coming
  <2>. QED
    BY <1>2, <2>1, <2>2
<1>. QED
  BY <1>1, <1>3, <1>4
\* One stack changes: how its calls in test and lock have begun.
LEMMA BeginStays ==
  ASSUME TypesInv, CallsBegin, NEW a \in Actors, NEW r \in Seq(Frames),
         calls' = [calls EXCEPT ![a] = r],
         \A i \in 1 .. Len(r) : r[i].pc \in {"test", "lock"} => r[i].next = 1
  PROVE  CallsBegin'
<1>1. calls'[a] = r /\ \A b \in Actors \ {a} : calls'[b] = calls[b]
  BY DEF TypesInv
<1>. SUFFICES ASSUME NEW b \in Actors, NEW i \in 1 .. Len(calls'[b]),
                     calls'[b][i].pc \in {"test", "lock"}
              PROVE  calls'[b][i].next = 1
  BY DEF CallsBegin
<1>2. CASE b = a
  BY <1>1, <1>2
<1>3. CASE b # a
  BY <1>1, <1>3 DEF CallsBegin
<1>. QED
  BY <1>2, <1>3

\* A test that finds the flag set has nobody to tell.
LEMMA TestKeepsCover ==
  ASSUME TypesInv, OrphanInv, NEW a \in Actors, Test(a)
  PROVE  OrphanInv'
<1>1. PICK s \in Seq(Frames), r \in Seq(Frames) :
        /\ s = calls[a] /\ calls' = [calls EXCEPT ![a] = r] /\ Len(s) > 0
        /\ s[1].pc = "test"
        /\ \/ terminating[s[1].of] /\ Shorter(s, r)
           \/ Same(s, r) /\ Fields(s[1], "lock", r[1])
        /\ UNCHANGED <<kids, late, terminating, released>>
  BY TestDoes DEF flags
<1>2. \A i \in 1 .. Len(s) : s[i].pc \in {"test", "lock"} => s[i].next = 1
  BY <1>1 DEF OrphanInv, CallsBegin
<1>3. \A i \in 1 .. Len(r) : r[i].pc \in {"test", "lock"} => r[i].next = 1
  <2>1. CASE Shorter(s, r)
    BY <1>1, <1>2, <2>1 DEF Shorter
  <2>2. CASE Same(s, r) /\ Fields(s[1], "lock", r[1])
    BY <1>1, <1>2, <2>2 DEF Same, Fields
  <2>. QED
    BY <1>1, <2>1, <2>2
<1>4. ASSUME NEW t \in Threads, released[t], NEW i \in 1 .. Len(kids[t])
      PROVE  Covered(t, i)'
  <2>1. ASSUME Coming(s, t, i, kids[t][i])
        PROVE  Coming(r, t, i, kids[t][i]) \/ terminating[kids[t][i]]
    <3>1. CASE terminating[s[1].of] /\ Shorter(s, r)
      BY <1>1, <2>1, <3>1, ShorterKeepsComing
    <3>2. CASE Same(s, r) /\ Fields(s[1], "lock", r[1])
      BY <1>1, <2>1, <3>2, SameKeepsComing
    <3>. QED
      BY <1>1, <3>1, <3>2
  <2>. QED
    BY <1>1, <1>4, <2>1, CoverStays DEF OrphanInv
<1>5. CallsBegin'
  BY <1>1, <1>3, BeginStays DEF OrphanInv
<1>6. AllCovered'
  BY <1>1, <1>4 DEF AllCovered
<1>. QED
  BY <1>5, <1>6 DEF OrphanInv

\* The lock tells the thread to end, and begins its release functions.
LEMMA LockKeepsCover ==
  ASSUME TypesInv, OrphanInv, NEW a \in Actors, Lock(a)
  PROVE  OrphanInv'
<1>1. PICK s \in Seq(Frames), r \in Seq(Frames), u \in Threads :
        /\ s = calls[a] /\ calls' = [calls EXCEPT ![a] = r] /\ Len(s) > 0
        /\ s[1].pc = "lock" /\ s[1].of = u
        /\ Same(s, r)
        /\ Fields(s[1], IF released[u] THEN "notify" ELSE "release", r[1])
        /\ terminating' = [terminating EXCEPT ![u] = @ \/ ~s[1].last]
        /\ released' = [released EXCEPT ![u] = TRUE]
        /\ UNCHANGED <<kids, late>>
  BY LockDoes
<1>2. \A i \in 1 .. Len(s) : s[i].pc \in {"test", "lock"} => s[i].next = 1
  BY <1>1 DEF OrphanInv, CallsBegin
<1>3. \A i \in 1 .. Len(r) : r[i].pc \in {"test", "lock"} => r[i].next = 1
  BY <1>1, <1>2 DEF Same, Fields
<1>4. /\ \A t \in Threads : terminating[t] => terminating'[t]
      /\ ~s[1].last => terminating'[u]
      /\ \A t \in Threads : released'[t] => released[t] \/ t = u
      /\ calls'[a] = r
  BY <1>1 DEF TypesInv
<1>5. ASSUME NEW t \in Threads, released[t], NEW i \in 1 .. Len(kids[t])
      PROVE  Covered(t, i)'
  <2>1. ASSUME Coming(s, t, i, kids[t][i])
        PROVE  Coming(r, t, i, kids[t][i]) \/ terminating'[kids[t][i]]
    BY <1>1, <1>4, <2>1, SameKeepsComing
  <2>. QED
    BY <1>1, <1>4, <1>5, <2>1, CoverStays DEF OrphanInv
<1>6. ASSUME ~released[u], NEW i \in 1 .. Len(kids[u])
      PROVE  Covered(u, i)'
  <2>1. r[1].of = u /\ r[1].pc = "release" /\ r[1].next = 1 /\ 1 \in 1 .. Len(r)
    BY <1>1, <1>2, <1>6 DEF Same, Fields
  <2>2. r[1].next <= i
    BY <2>1
  <2>3. Coming(r, u, i, kids[u][i])'
    BY <2>1, <2>2 DEF Coming
  <2>4. Coming(calls[a], u, i, kids[u][i])'
    BY <1>1, <1>4, <2>1, <2>2 DEF Coming
  <2>. QED
    BY <2>4 DEF Covered
<1>7. CallsBegin'
  BY <1>1, <1>3, BeginStays DEF OrphanInv
<1>8. AllCovered'
  <2>. SUFFICES ASSUME NEW t \in Threads, released'[t], NEW i \in 1 .. Len(kids[t])
                PROVE  Covered(t, i)'
    BY <1>1 DEF AllCovered
  <2>1. CASE released[t]
    BY <1>5, <2>1
  <2>2. CASE ~released[t]
    BY <1>4, <1>6, <2>2
  <2>. QED
    BY <2>1, <2>2
<1>. QED
  BY <1>7, <1>8 DEF OrphanInv

\* The next of the release functions is about to tell its thread.
LEMMA ReleaseKeepsCover ==
  ASSUME TypesInv, OrphanInv, NEW a \in Actors, Release(a)
  PROVE  OrphanInv'
<1>1. PICK s \in Seq(Frames), r \in Seq(Frames) :
        /\ s = calls[a] /\ calls' = [calls EXCEPT ![a] = r] /\ Len(s) > 0
        /\ s[1].pc = "release"
        /\ s[1].next \in 1 .. Len(kids[s[1].of])
        /\ Len(r) = Len(s) + 1
        /\ r[1] = Terminate(kids[s[1].of][s[1].next])
        /\ r[2].of = s[1].of /\ r[2].pc = "release"
        /\ r[2].next = s[1].next + 1
        /\ \A i \in 2 .. Len(s) : r[i + 1] = s[i]
        /\ UNCHANGED <<flags, kids, late>>
  BY ReleaseDoes
<1>2. UNCHANGED <<terminating, released, kids, late>>
  BY <1>1 DEF flags
<1>3. \A i \in 1 .. Len(s) : s[i].pc \in {"test", "lock"} => s[i].next = 1
  BY <1>1 DEF OrphanInv, CallsBegin
<1>4. /\ r[1].of = kids[s[1].of][s[1].next] /\ r[1].pc = "test"
      /\ r[1].next = 1 /\ ~r[1].last
  BY <1>1 DEF Terminate
<1>5. ASSUME NEW i \in 1 .. Len(r), i > 2
      PROVE  i - 1 \in 2 .. Len(s) /\ r[i] = s[i - 1]
  <2>1. i - 1 \in 2 .. Len(s)
    BY <1>1, <1>5
  <2>2. r[(i - 1) + 1] = s[i - 1]
    BY <1>1, <2>1
  <2>. QED
    BY <2>1, <2>2
<1>6. ASSUME NEW i \in 1 .. Len(r), r[i].pc \in {"test", "lock"}
      PROVE  r[i].next = 1
  <2>1. CASE i = 1
    BY <1>4, <2>1
  <2>2. CASE i = 2
    BY <1>1, <1>6, <2>2
  <2>3. CASE i > 2
    BY <1>3, <1>5, <1>6, <2>3
  <2>. QED
    BY <2>1, <2>2, <2>3
<1>7. ASSUME NEW t \in Threads, NEW i \in 1 .. Len(kids[t]),
             Coming(s, t, i, kids[t][i])
      PROVE  Coming(r, t, i, kids[t][i])
  <2>. DEFINE k == kids[t][i]
  <2>1. PICK j \in 1 .. Len(s) :
          /\ s[j].of = t /\ s[j].pc = "release"
          /\ \/ s[j].next <= i
             \/ /\ j > 1 /\ s[j - 1].of = k
                /\ s[j - 1].pc \in {"test", "lock"} /\ ~s[j - 1].last
    BY <1>7 DEF Coming
  <2>2. CASE j = 1
    <3>1. s[1].next <= i /\ s[1].of = t
      BY <2>1, <2>2
    <3>2. CASE s[1].next = i
      <4>1. r[1].of = k
        BY <1>4, <3>1, <3>2
      <4>2. /\ 2 \in 1 .. Len(r) /\ r[2].of = t /\ r[2].pc = "release"
            /\ 2 > 1 /\ r[2 - 1].of = k /\ r[2 - 1].pc \in {"test", "lock"}
            /\ ~r[2 - 1].last
        BY <1>1, <1>4, <3>1, <4>1
      <4>. QED
        BY <4>2 DEF Coming
    <3>3. CASE s[1].next < i
      <4>1. /\ 2 \in 1 .. Len(r) /\ r[2].of = t /\ r[2].pc = "release"
            /\ r[2].next <= i
        BY <1>1, <3>1, <3>3
      <4>. QED
        BY <4>1 DEF Coming
    <3>. QED
      BY <1>1, <3>1, <3>2, <3>3
  <2>3. CASE j > 1
    <3>1. j + 1 \in 1 .. Len(r) /\ r[j + 1] = s[j] /\ j + 1 > 1
      BY <1>1, <2>3
    <3>2. CASE s[j].next <= i
      BY <2>1, <3>1, <3>2 DEF Coming
    <3>3. CASE /\ s[j - 1].of = k /\ s[j - 1].pc \in {"test", "lock"}
               /\ ~s[j - 1].last
      <4>1. ASSUME j = 2 PROVE FALSE
        <5>1. s[j - 1] = s[1]
          BY <4>1
        <5>. QED
          BY <1>1, <3>3, <5>1
      <4>2. j - 1 \in 2 .. Len(s) /\ (j - 1) + 1 = j /\ (j + 1) - 1 = j
        BY <2>3, <4>1
      <4>3. r[(j + 1) - 1] = s[j - 1]
        BY <1>1, <4>2
      <4>. QED
        BY <2>1, <3>1, <3>3, <4>3 DEF Coming
    <3>. QED
      BY <2>1, <3>2, <3>3
  <2>. QED
    BY <2>2, <2>3
<1>8. ASSUME NEW t \in Threads, released[t], NEW i \in 1 .. Len(kids[t])
      PROVE  Covered(t, i)'
  BY <1>1, <1>2, <1>7, <1>8, CoverStays DEF OrphanInv
<1>9. CallsBegin'
  BY <1>1, <1>6, BeginStays DEF OrphanInv
<1>10. AllCovered'
  BY <1>2, <1>8 DEF AllCovered
<1>. QED
  BY <1>9, <1>10 DEF OrphanInv

\* The notify comes after the last of the release functions.
LEMMA NotifyKeepsCover ==
  ASSUME TypesInv, OrphanInv, NEW a \in Actors, Notify(a)
  PROVE  OrphanInv'
<1>1. PICK s \in Seq(Frames), r \in Seq(Frames), u \in Threads :
        /\ s = calls[a] /\ calls' = [calls EXCEPT ![a] = r] /\ Len(s) > 0
        /\ s[1].of = u
        /\ \/ s[1].pc = "notify"
           \/ s[1].pc = "release" /\ s[1].next > Len(kids[u])
        /\ Shorter(s, r)
        /\ UNCHANGED <<terminating, released, kids, late>>
  BY NotifyDoes
<1>2. \A i \in 1 .. Len(r) : r[i].pc \in {"test", "lock"} => r[i].next = 1
  BY <1>1 DEF OrphanInv, CallsBegin, Shorter
<1>3. s[1].next \in Nat
  <2>1. s[1] \in Frames
    BY <1>1
  <2>. QED
    BY <2>1 DEF Frames
<1>4. ASSUME NEW t \in Threads, released[t], NEW i \in 1 .. Len(kids[t])
      PROVE  Covered(t, i)'
  <2>1. s[1].of = t /\ s[1].pc = "release" => ~(s[1].next <= i)
    BY <1>1, <1>3 DEF TypesInv
  <2>2. ASSUME Coming(s, t, i, kids[t][i])
        PROVE  Coming(r, t, i, kids[t][i])
    BY <1>1, <2>1, <2>2, ShorterKeepsComing
  <2>. QED
    BY <1>1, <1>4, <2>2, CoverStays DEF OrphanInv
<1>5. CallsBegin'
  BY <1>1, <1>2, BeginStays DEF OrphanInv
<1>6. AllCovered'
  BY <1>1, <1>4 DEF AllCovered
<1>. QED
  BY <1>5, <1>6 DEF OrphanInv
\* Who is created for a thread that was released is counted as late.
LEMMA MakeKeepsCover ==
  ASSUME TypesInv, PlaceInv, OrphanInv, NEW t \in Threads, Make(t)
  PROVE  OrphanInv'
<1>1. PICK x \in Threads, l \in Threads :
        /\ kids' = [kids EXCEPT ![l] = Append(@, x)]
        /\ late' = IF released[l] THEN late \cup {x} ELSE late
  BY MakeDoes
<1>2. UNCHANGED <<terminating, released, calls>>
  BY DEF Make
<1>3. ASSUME NEW u \in Threads, released[u], NEW i \in 1 .. Len(kids'[u])
      PROVE  Covered(u, i)'
  <2>. DEFINE k == kids[u]
  <2>1. k \in Seq(Threads) /\ kids'[u] = IF u = l THEN Append(k, x) ELSE k
    BY <1>1 DEF TypesInv
  <2>2. CASE i \in 1 .. Len(k)
    <3>1. kids'[u][i] = k[i]
      <4>. HIDE DEF k
      <4>. QED
        BY <2>1, <2>2
    <3>2. Covered(u, i)
      BY <1>3, <2>2 DEF OrphanInv, AllCovered
    <3>3. late \subseteq late'
      BY <1>1
    <3>. QED
      BY <1>2, <3>1, <3>2, <3>3 DEF Covered, Coming
  <2>3. CASE i \notin 1 .. Len(k)
    <3>1. u = l /\ kids'[u][i] = x
      <4>. HIDE DEF k
      <4>. QED
        BY <2>1, <2>3
    <3>2. x \in late'
      BY <1>1, <1>3, <3>1
    <3>. QED
      BY <3>1, <3>2 DEF Covered
  <2>. QED
    BY <2>2, <2>3
<1>4. CallsBegin' /\ AllCovered'
  BY <1>2, <1>3 DEF OrphanInv, CallsBegin, AllCovered
<1>. QED
  BY <1>4 DEF OrphanInv

\* Every step keeps that nobody is forgotten.
LEMMA StepKeepsCover ==
  ASSUME TypesInv, PlaceInv, OrphanInv, [SmartThreadNext]_vars
  PROVE  OrphanInv'
<1>1. ASSUME UNCHANGED <<terminating, released, kids, late, calls>>
      PROVE  OrphanInv'
  BY <1>1, SMTT(30) DEF OrphanInv, CallsBegin, AllCovered, Covered, Coming
<1>2. ASSUME NEW a \in Actors, Start(a) \/ Join(a) PROVE OrphanInv'
  <2>1. UNCHANGED <<terminating, released, kids, late, calls>>
    BY <1>2 DEF Start, Join, flags
  <2>. QED
    BY <1>1, <2>1
<1>3. ASSUME NEW t \in Threads, RunStep(t) PROVE OrphanInv'
  <2>1. UNCHANGED <<program, flags, kids, late, started, calls>>
    BY <1>3, RunDoes
  <2>. QED
    BY <1>1, <2>1 DEF flags
<1>4. CASE UNCHANGED vars
  BY <1>1, <1>4 DEF vars, flags
<1>5. ASSUME NEW a \in Actors,
             \/ a \in Threads /\ (StopOther(a) \/ EndOfRun(a))
             \/ a = Main /\ Signal
      PROVE  OrphanInv'
  <2>1. PICK f \in Frames :
          /\ calls[a] = <<>> /\ calls' = [calls EXCEPT ![a] = <<f>>]
          /\ f.next = 1
          /\ UNCHANGED <<program, flags, kids, late, started, cv_m>>
    BY <1>5, CallDoes
  <2>. DEFINE r == <<f>>
  <2>2. r \in Seq(Frames) /\ Len(r) = 1 /\ r[1] = f
    OBVIOUS
  <2>3. UNCHANGED <<terminating, released, kids, late>>
    BY <2>1 DEF flags
  <2>4. calls' = [calls EXCEPT ![a] = r]
    BY <2>1
  <2>. HIDE DEF r
  <2>5. CallsBegin'
    <3>1. \A i \in 1 .. Len(r) : r[i].pc \in {"test", "lock"} => r[i].next = 1
      BY <2>1, <2>2
    <3>. QED
      BY <2>2, <2>4, <3>1, BeginStays DEF OrphanInv
  <2>6. ASSUME NEW t \in Threads, released[t], NEW i \in 1 .. Len(kids[t])
        PROVE  Covered(t, i)'
    <3>1. ~Coming(calls[a], t, i, kids[t][i])
      BY <2>1 DEF Coming
    <3>. QED
      BY <2>2, <2>3, <2>4, <2>6, <3>1, CoverStays DEF OrphanInv
  <2>7. AllCovered'
    BY <2>3, <2>6 DEF AllCovered
  <2>. QED
    BY <2>5, <2>7 DEF OrphanInv
<1>. QED
  BY <1>2, <1>3, <1>4, <1>5, MakeKeepsCover, TestKeepsCover, LockKeepsCover,
     ReleaseKeepsCover, NotifyKeepsCover, WhatStepsAre DEF Actors

\* Once the release functions of a thread were run, everybody whom it had
\* created until then has been told to end.
THEOREM NobodyIsForgotten == SmartThreadSpec => []NoOrphans
<1>1. SmartThreadInit => ThreadInv /\ OrphanInv
  <2>1. ASSUME SmartThreadInit PROVE OrphanInv
    <3>1. /\ \A a \in Actors : calls[a] = <<>> /\ Len(calls[a]) = 0
          /\ \A t \in Threads : ~released[t]
      BY <2>1 DEF SmartThreadInit
    <3>. QED
      BY <3>1 DEF OrphanInv, CallsBegin, AllCovered
  <2>. QED
    BY <2>1, InitIsGood
<1>2. ThreadInv /\ OrphanInv /\ [SmartThreadNext]_vars => OrphanInv'
  BY StepKeepsCover DEF ThreadInv
<1>3. OrphanInv => NoOrphans
  <2>. SUFFICES ASSUME OrphanInv, NEW t \in Threads, released[t], ~Releasing(t),
                       NEW i \in 1 .. Len(kids[t])
                PROVE  terminating[kids[t][i]] \/ kids[t][i] \in late
    BY DEF NoOrphans
  <2>1. Covered(t, i)
    BY DEF OrphanInv, AllCovered
  <2>2. \A a \in Actors : ~Coming(calls[a], t, i, kids[t][i])
    BY DEF Coming, Releasing
  <2>. QED
    BY <2>1, <2>2 DEF Covered
<1>. QED
  BY <1>1, <1>2, <1>3, ThreadInvIsInvariant, PTL DEF SmartThreadSpec

-----------------------------------------------------------------------------
(* The time alarm.                                                         *)

\* The flags and positions of both threads and the two clocks keep their
\* types: neither sleep_for nor the clock of the rounds runs out of range.
THEOREM AlarmIsTyped == AlarmSpec => []AlarmTypeOK
<1>. USE AlarmAssumption DEF AlarmAssumption
<1>1. AlarmInit => AlarmTypeOK
  BY DEF AlarmInit, AlarmTypeOK
<1>2. AlarmTypeOK /\ [AlarmNext]_alarmVars => AlarmTypeOK'
  <2>. SUFFICES ASSUME AlarmTypeOK, [AlarmNext]_alarmVars PROVE AlarmTypeOK'
    OBVIOUS
  <2>. USE DEF AlarmTypeOK
  <2>1. CASE StartCounting
    <3>1. client' = [client EXCEPT !.pc = "work"] /\ since' = 0
      BY <2>1 DEF StartCounting
    <3>2. UNCHANGED <<left, strays>>
      BY <2>1 DEF StartCounting
    <3>3. Woken(alarm) \in {"wait", "asleep", "begin", "sleep", "ring"}
      BY DEF Woken
    <3>4. alarm' = [alarm EXCEPT !.is_new_request = TRUE, !.notified = TRUE,
                                 !.sleeping = FALSE, !.pc = Woken(alarm)]
      BY <2>1 DEF StartCounting
    <3>5. alarm' \in [pc : {"wait", "asleep", "begin", "sleep", "ring"},
                      notified : BOOLEAN, is_new_request : BOOLEAN,
                      sleeping : BOOLEAN]
      BY <3>3, <3>4
    <3>. QED
      BY <3>1, <3>2, <3>5
  <2>2. CASE Work BY <2>2 DEF Work
  <2>3. CASE WaitForAlarm BY <2>3 DEF WaitForAlarm
  <2>4. CASE StrayNotify BY <2>4 DEF StrayNotify, Woken
  <2>5. CASE TakeRequest BY <2>5 DEF TakeRequest
  <2>6. CASE BeginSleep
    <3>1. left' = duration /\ UNCHANGED <<client, strays, since>>
      BY <2>6 DEF BeginSleep
    <3>2. alarm' = [alarm EXCEPT !.pc = "sleep", !.sleeping = TRUE]
      BY <2>6 DEF BeginSleep
    <3>3. alarm' \in [pc : {"wait", "asleep", "begin", "sleep", "ring"},
                      notified : BOOLEAN, is_new_request : BOOLEAN,
                      sleeping : BOOLEAN]
      BY <3>2
    <3>. QED
      BY <3>1, <3>3
  <2>7. CASE EndSleep
    <3>1. left' = 0 /\ UNCHANGED <<client, strays, since>>
      BY <2>7 DEF EndSleep
    <3>2. alarm' = [alarm EXCEPT !.pc = "ring", !.sleeping = FALSE]
      BY <2>7 DEF EndSleep
    <3>3. alarm' \in [pc : {"wait", "asleep", "begin", "sleep", "ring"},
                      notified : BOOLEAN, is_new_request : BOOLEAN,
                      sleeping : BOOLEAN]
      BY <3>2
    <3>. QED
      BY <3>1, <3>3
  <2>8. CASE Ring BY <2>8 DEF Ring, Woken
  <2>9. CASE Tick BY <2>9 DEF Tick, Remaining
  <2>10. CASE UNCHANGED alarmVars BY <2>10 DEF alarmVars
  <2>. QED
    BY <2>1, <2>2, <2>3, <2>4, <2>5, <2>6, <2>7, <2>8, <2>9, <2>10
    DEF AlarmNext, ClientStep, AlarmStep
<1>. QED
  BY <1>1, <1>2, PTL DEF AlarmSpec

\* The steps of the two threads hand the round on.
LEMMA OneRoundStep ==
  ASSUME AlarmTypeOK, OneRoundIsUnderWay, [AlarmNext]_alarmVars
  PROVE  OneRoundIsUnderWay'
<1>. USE AlarmAssumption DEF AlarmAssumption, AlarmTypeOK,
                                OneRoundIsUnderWay, Rounds, One
<1>1. CASE StartCounting BY <1>1 DEF StartCounting, Woken
<1>2. CASE Work BY <1>2 DEF Work
<1>3. CASE WaitForAlarm BY <1>3 DEF WaitForAlarm
<1>4. CASE StrayNotify BY <1>4 DEF StrayNotify, Woken
<1>5. CASE TakeRequest BY <1>5 DEF TakeRequest, Requested
<1>6. CASE BeginSleep BY <1>6 DEF BeginSleep
<1>7. CASE EndSleep BY <1>7 DEF EndSleep
<1>8. CASE Ring BY <1>8 DEF Ring, Woken
<1>9. CASE Tick BY <1>9 DEF Tick
<1>10. CASE UNCHANGED alarmVars BY <1>10 DEF alarmVars
<1>. QED
  BY <1>1, <1>2, <1>3, <1>4, <1>5, <1>6, <1>7, <1>8, <1>9, <1>10
  DEF AlarmNext, ClientStep, AlarmStep

\* A round is always under way, and but for stray notifies only one: neither
\* the alarm nor its client can come to wait for a notify given already.
THEOREM RoundIsUnderWay == AlarmSpec => []OneRoundIsUnderWay
<1>1. AlarmInit => OneRoundIsUnderWay
  BY AlarmAssumption DEF AlarmAssumption, AlarmInit, OneRoundIsUnderWay, Rounds, One
<1>2. AlarmTypeOK /\ OneRoundIsUnderWay /\ [AlarmNext]_alarmVars
        => OneRoundIsUnderWay'
  BY OneRoundStep
<1>. QED
  BY <1>1, <1>2, AlarmIsTyped, PTL DEF AlarmSpec

\* While no stray notify came: the alarm sleeps with its flag set until the end
\* point, the clock of the round keeps up with what is left of the sleep, and
\* from the end of the sleep to the next start_counting the clock stands at its
\* end.
QuietInv ==
  strays = Strays =>
    /\ alarm.pc = "sleep" => alarm.sleeping /\ since >= duration - left
    /\ alarm.pc = "ring" \/ client.notified \/ client.pc = "count"
         => since >= duration

\* The steps keep it: a start_counting that could end a sleep is a second round.
LEMMA QuietStep ==
  ASSUME AlarmTypeOK, OneRoundIsUnderWay, QuietInv, [AlarmNext]_alarmVars
  PROVE  QuietInv'
<1>. USE AlarmAssumption DEF AlarmAssumption, AlarmTypeOK, OneRoundIsUnderWay,
                             Rounds, One, QuietInv
<1>1. CASE StartCounting BY <1>1 DEF StartCounting, Woken
<1>2. CASE Work BY <1>2 DEF Work
<1>3. CASE WaitForAlarm BY <1>3 DEF WaitForAlarm
<1>4. CASE StrayNotify BY <1>4 DEF StrayNotify, Woken
<1>5. CASE TakeRequest BY <1>5 DEF TakeRequest, Requested
<1>6. CASE BeginSleep BY <1>6 DEF BeginSleep
<1>7. CASE EndSleep BY <1>7 DEF EndSleep
<1>8. CASE Ring BY <1>8 DEF Ring, Woken
<1>9. CASE Tick BY <1>9 DEF Tick, Remaining
<1>10. CASE UNCHANGED alarmVars BY <1>10 DEF alarmVars
<1>. QED
  BY <1>1, <1>2, <1>3, <1>4, <1>5, <1>6, <1>7, <1>8, <1>9, <1>10
  DEF AlarmNext, ClientStep, AlarmStep

\* Two rounds begin at least RTIME apart, for every RTIME and every timing of the
\* steps, until a stray notify comes.
THEOREM RoundsAreApart == AlarmSpec => QuietRoundsAreApart
<1>1. AlarmInit => QuietInv
  BY AlarmAssumption DEF AlarmAssumption, AlarmInit, QuietInv
<1>2. AlarmTypeOK /\ OneRoundIsUnderWay /\ QuietInv /\ [AlarmNext]_alarmVars => QuietInv'
  BY QuietStep
<1>3. QuietInv /\ [AlarmNext]_alarmVars
        => [strays = Strays /\ client.pc = "count" /\ client'.pc = "work"
              => since >= duration]_alarmVars
  BY DEF QuietInv
<1>. QED
  BY <1>1, <1>2, <1>3, AlarmIsTyped, RoundIsUnderWay, PTL
  DEF AlarmSpec, QuietRoundsAreApart
===============================================================================
