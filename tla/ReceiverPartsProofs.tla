------------------------- MODULE ReceiverPartsProofs -------------------------
(***************************************************************************)
(* Safety of the two parts that the sessions of the receiver are made of:  *)
(* of the restart barrier for every finite set of threads, and of the      *)
(* station list and the choice of the station for every finite set of      *)
(* stations.                                                               *)
(*                                                                         *)
(* Of the barrier, ReadyMeansParked is not inductive: it says nothing of   *)
(* the counters, so it cannot exclude a state in which ready_cnt is wrong  *)
(* and the barrier completes with a thread outside.  The inductive         *)
(* invariant ties the two counters to the positions of the threads.  A     *)
(* round has two phases: the threads gather, and ready_cnt is the number   *)
(* of those that wait; then they scatter, and broken_cnt is the number of  *)
(* those that are out.                                                     *)
(***************************************************************************)
EXTENDS Barrier, Stations, FiniteSetTheorems, WellFoundedInduction, TLAPS

-----------------------------------------------------------------------------
(* The barrier.                                                            *)

Waiting == {t \in Threads : pc[t] = "ready_wait"}
Outside == {t \in Threads : pc[t] \in {"gate", "session", "broken_wait"}}

\* broken_cnt is full: threads come in and are counted by ready_cnt.
Gathering ==
  /\ broken_cnt = barrier_size
  /\ ready_cnt = Cardinality(Waiting)
  /\ ready_cnt < barrier_size
  /\ \A t \in Threads : pc[t] # "leave"
  /\ \A t \in Threads : pc[t] \in {"complete", "open"} =>
       \A u \in Threads \ {t} : pc[u] = "ready_wait"

\* ready_cnt is full: threads leave and are counted by broken_cnt.
Scattering ==
  /\ ready_cnt = barrier_size
  /\ broken_cnt = Cardinality(Outside)
  /\ broken_cnt < barrier_size
  /\ \A t \in Threads : pc[t] \notin {"enter", "complete", "open"}

IInv == TypeOK /\ (Gathering \/ Scattering) /\ ReadyMeansParked

-----------------------------------------------------------------------------
\* The number of threads, and of the threads in a part of them.
LEMMA Counting ==
  /\ barrier_size \in Nat \ {0}
  /\ \A T \in SUBSET Threads :
       /\ IsFiniteSet(T)
       /\ Cardinality(T) \in 0 .. barrier_size
       /\ Cardinality(T) = barrier_size => T = Threads
  /\ \A t \in Threads : Cardinality(Threads \ {t}) = barrier_size - 1
<1>1. barrier_size \in Nat \ {0}
  BY ThreadsAssumption, FS_CardinalityType, FS_EmptySet DEF barrier_size
<1>2. ASSUME NEW T \in SUBSET Threads
      PROVE  /\ IsFiniteSet(T)
             /\ Cardinality(T) \in 0 .. barrier_size
             /\ Cardinality(T) = barrier_size => T = Threads
  <2>1. IsFiniteSet(T) /\ Cardinality(T) <= barrier_size
        /\ (Cardinality(T) = barrier_size => T = Threads)
    BY ThreadsAssumption, FS_Subset DEF barrier_size
  <2>2. Cardinality(T) \in Nat
    BY <2>1, FS_CardinalityType
  <2> QED
    BY <1>1, <2>1, <2>2
<1>3. ASSUME NEW t \in Threads
      PROVE  Cardinality(Threads \ {t}) = barrier_size - 1
  BY ThreadsAssumption, FS_RemoveElement DEF barrier_size
<1> QED
  BY <1>1, <1>2, <1>3

\* A set of threads that gains one thread gains one in number.
LEMMA CountOneMore ==
  ASSUME NEW S \in SUBSET Threads, NEW t \in Threads \ S
  PROVE  Cardinality(S \cup {t}) = Cardinality(S) + 1
BY Counting, FS_AddElement

\* The invariant holds when the receiver starts.
LEMMA InitIInv == Init => IInv
<1> SUFFICES ASSUME Init PROVE IInv
  OBVIOUS
<1>0. barrier_size \in Nat \ {0}
  BY Counting
<1>1. TypeOK
  <2>1. pc \in [Threads -> Points] /\ awake \in [Threads -> BOOLEAN]
    BY DEF Init, Points
  <2>2. ready_cnt \in 0 .. barrier_size /\ broken_cnt \in 0 .. barrier_size
    BY <1>0 DEF Init
  <2>3. /\ barrier_should_be_reached \in BOOLEAN
        /\ ready_for_audio_receiving \in BOOLEAN
        /\ resources_for_receiving_ready \in BOOLEAN
    BY Zenon DEF Init
  <2> QED
    BY <2>1, <2>2, <2>3 DEF TypeOK
<1>2. Waiting = {}
  BY DEF Init, Waiting
<1>3. Gathering
  BY <1>2, Counting, FS_EmptySet DEF Init, Gathering
<1>4. ReadyMeansParked
  BY DEF Init, ReadyMeansParked
<1> QED
  BY <1>1, <1>3, <1>4 DEF IInv

-----------------------------------------------------------------------------
\* A step that leaves the counters alone and moves a thread at most within
\* the outside of the barrier, or into "enter" while threads gather, keeps
\* the phase of the round.
LEMMA KeepPhase ==
  ASSUME TypeOK, Gathering \/ Scattering, UNCHANGED counters,
         \/ UNCHANGED pc
         \/ \E t \in Threads :
              \/ /\ pc[t] \in {"gate", "session"}
                 /\ pc' \in {[pc EXCEPT ![t] = "session"],
                            [pc EXCEPT ![t] = "broken_wait"]}
              \/ /\ pc[t] = "broken_wait" /\ broken_cnt = barrier_size
                 /\ pc' = [pc EXCEPT ![t] = "enter"]
  PROVE  Gathering' \/ Scattering'
<1>1. barrier_size \in Nat \ {0}
  BY Counting
<1>2. Waiting' = Waiting
  BY DEF Waiting, TypeOK
<1>3. CASE Gathering
  BY <1>1, <1>2, <1>3 DEF Gathering, counters, TypeOK, barrier_size
<1>4. CASE Scattering
  <2>1. Outside' = Outside
    BY <1>1, <1>4 DEF Outside, Scattering, TypeOK
  <2>2. Scattering'
    BY <1>1, <1>4, <2>1 DEF Scattering, counters, TypeOK, barrier_size
  <2> QED
    BY <2>2
<1> QED
  BY <1>3, <1>4

\* Main opens and shuts the barrier without touching its counters.
LEMMA MainKeepsIInv == IInv /\ (StopSession \/ InitSession) => IInv'
<1> SUFFICES ASSUME IInv, StopSession \/ InitSession PROVE IInv'
  OBVIOUS
<1> USE DEF IInv
<1>1. UNCHANGED <<pc, counters>>
  BY DEF StopSession, InitSession
<1>2. TypeOK'
  BY <1>1 DEF TypeOK, StopSession, InitSession, NotifyThreads, counters,
              barrier_size
<1>3. Gathering' \/ Scattering'
  BY <1>1, KeepPhase
<1>4. ReadyMeansParked'
  BY <1>1 DEF ReadyMeansParked, Parked, StopSession, InitSession, TypeOK
<1> QED
  BY <1>2, <1>3, <1>4

-----------------------------------------------------------------------------
\* The steps of a thread that leave both counters as they are.
LEMMA QuietStepKeepsIInv ==
  ASSUME IInv, NEW t \in Threads,
         \/ ReturnToBarrier(t) \/ RaiseError(t) \/ StrayNotify(t)
         \/ AwaitBroken(t) \/ PassGate(t)
  PROVE  IInv'
<1> USE DEF IInv
<1>1. TypeOK'
  BY DEF TypeOK, ReturnToBarrier, RaiseError, StrayNotify, AwaitBroken,
         PassGate, WaitUntil, Goto, counters, flags, Points, barrier_size
<1>2. Gathering' \/ Scattering'
  <2>1. UNCHANGED counters
    BY DEF ReturnToBarrier, RaiseError, StrayNotify, AwaitBroken, PassGate,
           WaitUntil, counters
  <2>2. \/ UNCHANGED pc
        \/ pc[t] = "session" /\ pc' = [pc EXCEPT ![t] = "broken_wait"]
        \/ pc[t] = "gate" /\ pc' = [pc EXCEPT ![t] = "session"]
        \/ /\ pc[t] = "broken_wait" /\ broken_cnt = barrier_size
           /\ pc' = [pc EXCEPT ![t] = "enter"]
    BY DEF ReturnToBarrier, RaiseError, StrayNotify, AwaitBroken, PassGate,
           WaitUntil, Goto
  <2> QED
    BY <2>1, <2>2, KeepPhase
<1>3. ReadyMeansParked'
  <2>1. CASE ~ready_for_audio_receiving
    BY <2>1 DEF ReadyMeansParked, ReturnToBarrier, RaiseError, StrayNotify,
                AwaitBroken, PassGate, WaitUntil, flags
  <2>2. CASE ready_for_audio_receiving
    <3>1. Parked(t) /\ ~barrier_should_be_reached
          /\ ~resources_for_receiving_ready
      BY <2>2 DEF ReadyMeansParked
    <3>2. UNCHANGED <<pc, flags>>
      BY <3>1 DEF Parked, ReturnToBarrier, RaiseError, StrayNotify, AwaitBroken,
                  PassGate, WaitUntil
    <3> QED
      BY <2>2, <3>2 DEF ReadyMeansParked, Parked, flags
  <2> QED
    BY <2>1, <2>2
<1> QED
  BY <1>1, <1>2, <1>3

\* A thread that enters before the others is counted among the waiting.
LEMMA EnterEarlyKeepsIInv ==
  ASSUME IInv, NEW t \in Threads, EnterEarly(t)
  PROVE  IInv'
<1> USE DEF IInv
<1>1. barrier_size \in Nat \ {0}
  BY Counting
<1>2. Gathering /\ t \in Threads \ Waiting
  BY DEF Scattering, EnterEarly, Waiting
<1>3. Waiting' = Waiting \cup {t}
  BY DEF Waiting, EnterEarly, Goto, TypeOK
<1>4. ready_cnt' = Cardinality(Waiting')
  BY <1>2, <1>3, CountOneMore DEF Gathering, EnterEarly, Waiting
<1>5. TypeOK'
  BY <1>1, <1>2 DEF TypeOK, Gathering, EnterEarly, Goto, flags, Points,
                    barrier_size
<1>6. Gathering'
  BY <1>1, <1>2, <1>4 DEF Gathering, EnterEarly, Goto, TypeOK,
                          BarrierMutexFree, barrier_size
<1>7. ReadyMeansParked'
  BY DEF ReadyMeansParked, Parked, EnterEarly, flags
<1> QED
  BY <1>5, <1>6, <1>7

\* The last thread to enter finds all others waiting.
LEMMA EnterLastKeepsIInv ==
  ASSUME IInv, NEW t \in Threads, EnterLast(t)
  PROVE  IInv'
<1> USE DEF IInv
<1>1. barrier_size \in Nat \ {0}
  BY Counting
<1>2. Gathering
  BY DEF Scattering, EnterLast
<1>3. Waiting = Threads \ {t}
  <2>1. Waiting \in SUBSET (Threads \ {t})
    BY DEF Waiting, EnterLast
  <2>2. IsFiniteSet(Threads \ {t})
    BY Counting
  <2>3. Cardinality(Waiting) = Cardinality(Threads \ {t})
    BY <1>1, <1>2, Counting DEF Gathering, EnterLast, TypeOK
  <2> QED
    BY <2>1, <2>2, <2>3, FS_Subset
<1>4. Waiting' = Waiting
  BY DEF Waiting, EnterLast, Goto, TypeOK
<1>5. TypeOK'
  BY DEF TypeOK, EnterLast, Goto, counters, flags, Points, barrier_size
<1>6. Gathering'
  BY <1>1, <1>2, <1>3, <1>4 DEF Gathering, EnterLast, Goto, TypeOK, counters,
                                Waiting, barrier_size
<1>7. ReadyMeansParked'
  BY DEF ReadyMeansParked, Parked, EnterLast, flags
<1> QED
  BY <1>5, <1>6, <1>7

\* The last thread hands the barrier to main while all others wait.
LEMMA CompleteKeepsIInv ==
  ASSUME IInv, NEW t \in Threads, Complete(t)
  PROVE  IInv'
<1> USE DEF IInv
<1>1. Gathering
  BY DEF Scattering, Complete
<1>2. Waiting' = Waiting
  BY DEF Waiting, Complete, Goto, TypeOK
<1>3. \A u \in Threads \ {t} : pc[u] = "ready_wait"
  BY <1>1 DEF Gathering, Complete
<1>4. pc' \in [Threads -> Points] /\ pc' = [pc EXCEPT ![t] = "open"]
  BY DEF TypeOK, Complete, Goto, Points
<1>5. TypeOK'
  BY <1>4 DEF TypeOK, Complete, counters, barrier_size
<1>6. Gathering'
  BY <1>1, <1>2, <1>3, <1>4 DEF Gathering, Complete, TypeOK, counters,
                                barrier_size
<1>7. ReadyMeansParked'
  <2>1. \A u \in Threads : Parked(u)'
    BY <1>3, <1>4 DEF Parked, TypeOK
  <2> QED
    BY <2>1 DEF ReadyMeansParked, Complete
<1> QED
  BY <1>5, <1>6, <1>7

\* The release turns the round around: nobody is out yet.
LEMMA OpenKeepsIInv ==
  ASSUME IInv, NEW t \in Threads, Open(t)
  PROVE  IInv'
<1> USE DEF IInv
<1>1. barrier_size \in Nat \ {0}
  BY Counting
<1>2. Gathering
  BY DEF Scattering, Open
<1>3. \A u \in Threads \ {t} : pc[u] = "ready_wait"
  BY <1>2 DEF Gathering, Open
<1>4. pc' \in [Threads -> Points] /\ pc' = [pc EXCEPT ![t] = "leave"]
  BY DEF TypeOK, Open, Goto, Points
<1>5. ready_cnt' = barrier_size
  <2>1. Waiting = Threads \ {t}
    BY <1>3 DEF Waiting, Open
  <2> QED
    BY <1>1, <1>2, <2>1, Counting DEF Gathering, Open
<1>6. Outside' = {}
  BY <1>3, <1>4 DEF Outside, TypeOK
<1>7. TypeOK'
  BY <1>1, <1>4, <1>5 DEF TypeOK, Open, NotifyThreads, flags, barrier_size
<1>8. Scattering'
  <2>1. broken_cnt' = Cardinality(Outside') /\ broken_cnt' < barrier_size
    BY <1>1, <1>6, FS_EmptySet DEF Open
  <2>2. \A u \in Threads : pc'[u] \notin {"enter", "complete", "open"}
    BY <1>3, <1>4 DEF TypeOK
  <2> QED
    BY <1>5, <2>1, <2>2 DEF Scattering, barrier_size
<1>9. ReadyMeansParked'
  BY <1>4 DEF ReadyMeansParked, Parked, Open, flags, TypeOK
<1> QED
  BY <1>7, <1>8, <1>9

\* A waiting thread is let go only while threads scatter.
LEMMA AwaitReadyKeepsIInv ==
  ASSUME IInv, NEW t \in Threads, AwaitReady(t)
  PROVE  IInv'
<1> USE DEF IInv
<1>1. TypeOK'
  BY DEF TypeOK, AwaitReady, WaitUntil, Goto, counters, flags, Points,
         barrier_size
<1>2. UNCHANGED <<counters, flags>>
  BY DEF AwaitReady, WaitUntil
<1>3. CASE UNCHANGED pc
  <2>1. Gathering' \/ Scattering'
    BY <1>2, <1>3, KeepPhase
  <2> QED
    BY <1>1, <1>2, <1>3, <2>1 DEF ReadyMeansParked, Parked, flags
<1>4. CASE ready_cnt = barrier_size /\ pc' = [pc EXCEPT ![t] = "leave"]
  <2>1. barrier_size \in Nat \ {0}
    BY Counting
  <2>2. Scattering
    BY <1>4, <2>1 DEF Gathering, TypeOK
  <2>3. Outside' = Outside
    BY <1>4 DEF Outside, AwaitReady, TypeOK
  <2>4. Scattering'
    BY <1>2, <1>4, <2>2, <2>3 DEF Scattering, TypeOK, counters, barrier_size
  <2>5. ReadyMeansParked'
    BY <1>2, <1>4 DEF ReadyMeansParked, Parked, flags, TypeOK
  <2> QED
    BY <1>1, <2>4, <2>5
<1> QED
  BY <1>3, <1>4 DEF AwaitReady, WaitUntil, Goto

\* The last thread out turns the round around again.
LEMMA LeaveKeepsIInv ==
  ASSUME IInv, NEW t \in Threads, Leave(t)
  PROVE  IInv'
<1> USE DEF IInv
<1>1. barrier_size \in Nat \ {0}
  BY Counting
<1>2. Scattering /\ t \in Threads \ Outside
  BY DEF Gathering, Leave, Outside
<1>3. pc' \in [Threads -> Points] /\ pc' = [pc EXCEPT ![t] = "gate"]
  BY DEF TypeOK, Leave, Goto, Points
<1>4. Outside' = Outside \cup {t}
  BY <1>3 DEF Outside, TypeOK
<1>5. broken_cnt' = Cardinality(Outside') /\ broken_cnt' \in 0 .. barrier_size
  <2>1. Outside \in SUBSET Threads /\ Outside \cup {t} \in SUBSET Threads
    BY DEF Outside
  <2>2. broken_cnt' = broken_cnt + 1
    BY DEF Leave
  <2> QED
    BY <1>2, <1>4, <2>1, <2>2, CountOneMore, Counting DEF Scattering
<1>6. ready_cnt' = IF broken_cnt' = barrier_size THEN 0 ELSE barrier_size
  BY <1>2 DEF Scattering, Leave
<1>7. TypeOK'
  <2>1. awake' \in [Threads -> BOOLEAN]
    BY Zenon DEF TypeOK, Leave, NotifyThreads
  <2>2. ready_cnt' \in 0 .. barrier_size
    BY <1>1, <1>6
  <2> QED
    BY <1>3, <1>5, <2>1, <2>2 DEF TypeOK, Leave, flags, barrier_size
<1>8. ASSUME broken_cnt' = barrier_size PROVE Gathering'
  <2>1. Outside' = Threads
    <3>1. Outside' \in SUBSET Threads
      BY DEF Outside
    <3> QED
      BY <1>5, <1>8, <3>1, Counting
  <2>2. \A u \in Threads : pc'[u] \in {"gate", "session", "broken_wait"}
    BY <2>1 DEF Outside
  <2>3. Waiting' = {}
    BY <2>2 DEF Waiting
  <2>4. ready_cnt' = Cardinality(Waiting')
    BY <1>6, <1>8, <2>3, FS_EmptySet
  <2> QED
    BY <1>1, <1>6, <1>8, <2>2, <2>4 DEF Gathering, barrier_size
<1>9. ASSUME broken_cnt' # barrier_size PROVE Scattering'
  BY <1>1, <1>2, <1>3, <1>5, <1>6, <1>9 DEF Scattering, TypeOK, barrier_size
<1>10. ReadyMeansParked'
  BY <1>3 DEF ReadyMeansParked, Parked, Leave, flags, TypeOK
<1> QED
  BY <1>7, <1>8, <1>9, <1>10

-----------------------------------------------------------------------------
\* The invariant of the barrier is inductive.
THEOREM IInvIsInvariant == Spec => []IInv
<1>1. IInv /\ [Next]_barrierVars => IInv'
  <2> SUFFICES ASSUME IInv, [Next]_barrierVars PROVE IInv'
    OBVIOUS
  <2>1. CASE UNCHANGED barrierVars
    BY <2>1 DEF IInv, TypeOK, Gathering, Scattering, Waiting, Outside,
                ReadyMeansParked, Parked, barrierVars, counters, flags,
                barrier_size
  <2>2. ASSUME NEW t \in Threads,
               \/ BarrierStep(t) \/ ReturnToBarrier(t) \/ RaiseError(t)
               \/ StrayNotify(t)
        PROVE  IInv'
    BY <2>2, QuietStepKeepsIInv, EnterEarlyKeepsIInv, EnterLastKeepsIInv,
       CompleteKeepsIInv, OpenKeepsIInv, AwaitReadyKeepsIInv, LeaveKeepsIInv
       DEF BarrierStep
  <2>3. CASE StopSession \/ InitSession
    BY <2>3, MainKeepsIInv
  <2> QED
    BY <2>1, <2>2, <2>3 DEF Next
<1> QED
  BY <1>1, InitIInv, PTL DEF Spec

\* The two counters of reach_barrier never leave 0 .. barrier_size and every
\* thread is at one of the points of the code, however many threads meet.
THEOREM BarrierTypeOK == Spec => []TypeOK
<1>1. IInv => TypeOK
  BY DEF IInv
<1> QED
  BY <1>1, IInvIsInvariant, PTL

\* While main may clear the buffer and move the sockets, every worker is in
\* the barrier and the gate is shut, however many threads meet.
THEOREM BarrierReadyMeansParked == Spec => []ReadyMeansParked
<1>1. IInv => ReadyMeansParked
  BY DEF IInv
<1> QED
  BY <1>1, IInvIsInvariant, PTL

\* No thread is counted into a round while another has to leave the one
\* before, however many threads meet.
THEOREM BarrierRoundsDoNotMix == Spec => []RoundsDoNotMix
<1>1. IInv => RoundsDoNotMix
  BY DEF IInv, Gathering, Scattering, RoundsDoNotMix
<1> QED
  BY <1>1, IInvIsInvariant, PTL

-----------------------------------------------------------------------------
(* The list of the stations and its ends.                                  *)

\* An order on a finite set has a least element: the one with the smallest
\* set of others below it.
LEMMA HasLeast ==
  ASSUME NEW S, IsFiniteSet(S), S # {}, NEW less,
         \A s \in S : <<s, s>> \notin less,
         \A q, r, s \in S :
           <<q, r>> \in less /\ <<r, s>> \in less => <<q, s>> \in less
  PROVE  \E s \in S : \A r \in S : <<r, s>> \notin less
<1>. DEFINE R == StrictSubsetOrdering(S)
            Below(s) == {r \in S : <<r, s>> \in less}
            T == {Below(s) : s \in S}
<1>1. IsWellFoundedOn(R, SUBSET S)
  BY FS_StrictSubsetOrderingWellFounded, FS_FiniteSubsetsOfFinite
<1>2. ASSUME NEW s \in S, NEW r \in S, <<r, s>> \in less
      PROVE  <<Below(r), Below(s)>> \in R
  <2>1. Below(r) \subseteq Below(s)
    BY <1>2
  <2>2. r \in Below(s) /\ r \notin Below(r)
    BY <1>2
  <2>. QED
    BY <2>1, <2>2 DEF StrictSubsetOrdering
<1>3. T \subseteq SUBSET S /\ T # {}
  <2>1. \A s \in S : Below(s) \in SUBSET S
    OBVIOUS
  <2>. HIDE DEF Below
  <2>. QED
    BY <2>1
<1>4. PICK x \in T : \A y \in T : <<y, x>> \notin R
  <2>. HIDE DEF R, T
  <2>. QED
    BY <1>1, <1>3, WFMin
<1>5. PICK s \in S : x = Below(s)
  OBVIOUS
<1>6. \A r \in S : Below(r) \in T
  OBVIOUS
<1>. HIDE DEF R, T, Below
<1>7. \A r \in S : <<r, s>> \notin less
  BY <1>2, <1>4, <1>5, <1>6
<1>. QED
  BY <1>7

\* A list that is not empty has a first and a last element.
LEMMA ListHasEnds ==
  ASSUME NEW S \in SUBSET Radios, S # {}
  PROVE  /\ First(S) \in S
         /\ Last(S) \in S
<1>. DEFINE before == {p \in S \X S : p[1] < p[2]}
            behind == {p \in S \X S : p[2] < p[1]}
<1>1. S \subseteq Nat /\ IsFiniteSet(S)
  BY StationsAssumption, FS_Subset DEF StationsAssumption
<1>2. \A r, s \in S : /\ <<r, s>> \in before <=> r < s
                      /\ <<r, s>> \in behind <=> s < r
  OBVIOUS
<1>3. \E s \in S : \A r \in S : <<r, s>> \notin before
  <2>. HIDE DEF before
  <2>1. \A q, r, s \in S :
          <<q, r>> \in before /\ <<r, s>> \in before => <<q, s>> \in before
    BY <1>1, <1>2
  <2>2. \A s \in S : <<s, s>> \notin before
    BY <1>1, <1>2
  <2>. QED
    BY <1>1, <2>1, <2>2, HasLeast
<1>4. \E s \in S : \A r \in S : <<r, s>> \notin behind
  <2>. HIDE DEF behind
  <2>1. \A q, r, s \in S :
          <<q, r>> \in behind /\ <<r, s>> \in behind => <<q, s>> \in behind
    BY <1>1, <1>2
  <2>2. \A s \in S : <<s, s>> \notin behind
    BY <1>1, <1>2
  <2>. QED
    BY <1>1, <2>1, <2>2, HasLeast
<1>. HIDE DEF before, behind
<1>5. \A r, s \in S : (~(r < s) <=> s <= r)
  BY <1>1
<1>6. \E s \in S : \A r \in S : s <= r
  BY <1>2, <1>3, <1>5
<1>7. \E s \in S : \A r \in S : r <= s
  BY <1>2, <1>4, <1>5
<1>. QED
  BY <1>6, <1>7 DEF First, Last

\* The neighbour of a listed station is listed.
LEMMA NeighbourIsListed ==
  ASSUME NEW S \in SUBSET Radios, NEW s \in S, NEW move
  PROVE  Neighbour(S, s, move) \in S
<1>. DEFINE beyond == {r \in S : (r - s) * move > 0}
<1>1. CASE beyond = {}
  BY <1>1 DEF Neighbour
<1>2. CASE beyond # {}
  <2>1. First(beyond) \in beyond /\ Last(beyond) \in beyond
    <3>1. beyond \in SUBSET Radios
      OBVIOUS
    <3>. HIDE DEF beyond
    <3>. QED
      BY <1>2, <3>1, ListHasEnds
  <2>. QED
    BY <1>2, <2>1 DEF Neighbour
<1>. QED
  BY <1>1, <1>2

-----------------------------------------------------------------------------
(* The choice that an iteration of main makes.                             *)

ListInv == StationsTypeOK /\ ChosenIsListed

\* What the iteration leaves chosen is on the list that it leaves.
LEMMA ChoiceIsListed ==
  ASSUME StationsTypeOK
  PROVE  AfterUser = None \/ AfterUser \in Kept
<1>1. Kept \in SUBSET Radios /\ Noticed \in SUBSET Radios /\ Noticed \subseteq Kept
  BY DEF StationsTypeOK, Kept, Noticed
<1>2. Noticed # {} => Last(Noticed) \in Kept
  BY <1>1, ListHasEnds
<1>3. Kept # {} => First(Kept) \in Kept
  BY <1>1, ListHasEnds
<1>4. ~AnyNeeded => AfterExpected \in Kept
  BY <1>2 DEF AnyNeeded, AfterExpected
<1>5. AfterAny = None \/ AfterAny \in Kept
  BY <1>3, <1>4 DEF AfterAny, Begin
<1>. QED
  BY <1>1, <1>5, NeighbourIsListed DEF AfterUser

\* An iteration of main keeps the list and the choice in order.
LEMMA ChecksKeepListInv ==
  ASSUME ListInv, NEW recent, NEW other, NEW next, MainChecks(recent, other, next),
         next \in {"stop", "init", "finish"}
  PROVE  ListInv'
<1>. USE DEF ListInv, StationsTypeOK
<1>1. Kept \subseteq channels
  BY DEF Kept
<1>2. /\ channels' = Kept /\ silent' = silent \cap Kept
      /\ fresh' = (fresh \cap Kept) \ LookedAt
      /\ chosen_channel' = AfterUser
      /\ curr_channel_change' = IF AfterAny = None THEN curr_channel_change ELSE 0
      /\ main_signal' = "none" /\ mpc' = next
      /\ UNCHANGED signalVars
  BY DEF MainChecks
<1>3. AfterUser = None \/ AfterUser \in Kept
  BY ChoiceIsListed
<1>4. ChosenIsListed'
  BY <1>2, <1>3 DEF ChosenIsListed
<1>5. channels' \subseteq Radios /\ silent' \subseteq channels'
  BY <1>1, <1>2
<1>6. fresh' \subseteq channels' \cap Expected
  BY <1>1, <1>2
<1>7. chosen_channel' \in Radios \cup {None}
  BY <1>1, <1>2, <1>3
<1>8. curr_channel_change' \in {-1, 0, 1} /\ mpc' \in {"stop", "init", "finish"}
  BY <1>2
<1>9. {is_new_channel, was_alarm, alarm_counts}' \subseteq BOOLEAN
  BY <1>2 DEF signalVars
<1>. QED
  BY <1>2, <1>4, <1>5, <1>6, <1>7, <1>8, <1>9

\* Replies, silence, keys and the alarm do not touch the choice.
LEMMA SurroundingsKeepListInv ==
  ASSUME ListInv, Surroundings
  PROVE  ListInv'
<1>. USE StationsAssumption DEF StationsAssumption
<1>. USE DEF ListInv, StationsTypeOK, ChosenIsListed
<1>1. ASSUME NEW s \in Radios, Reply(s) PROVE ListInv'
  <2>1. CASE s \in channels
    BY <1>1, <2>1 DEF Reply, mainVars
  <2>2. CASE s \notin channels
    BY <1>1, <2>2 DEF Reply, NotifyMain
  <2>. QED
    BY <2>1, <2>2
<1>2. ASSUME NEW s \in Radios, FallSilent(s) PROVE ListInv'
  BY <1>2 DEF FallSilent, signalVars, mainVars
<1>3. ASSUME NEW move \in Moves, ChangeChannel(move) PROVE ListInv'
  BY <1>3 DEF ChangeChannel, NotifyMain, listVars, signalVars
<1>4. CASE AlarmRings
  BY <1>4 DEF AlarmRings, NotifyMain, listVars
<1>. QED
  BY <1>1, <1>2, <1>3, <1>4 DEF Surroundings

\* A step of main that leaves the list and the choice as they are.
LEMMA QuietStepKeepsListInv ==
  ASSUME ListInv, UNCHANGED <<listVars, curr_channel_change>>,
         {is_new_channel, was_alarm, alarm_counts}' \subseteq BOOLEAN,
         main_signal' \in {"none", "notified", "slept"},
         mpc' \in {"wait", "stop", "request", "init", "finish", "crashed"}
  PROVE  ListInv'
BY DEF ListInv, StationsTypeOK, ChosenIsListed, listVars

\* The list with the choice in order is an invariant.
THEOREM ListInvIsInvariant == StationsSpec => []ListInv
<1>1. StationsInit => ListInv
  BY DEF StationsInit, ListInv, StationsTypeOK, ChosenIsListed
<1>2. ListInv /\ [StationsNext]_stationsVars => ListInv'
  <2>. SUFFICES ASSUME ListInv, [StationsNext]_stationsVars PROVE ListInv'
    OBVIOUS
  <2>1. CASE Surroundings
    BY <2>1, SurroundingsKeepListInv
  <2>. USE DEF ListInv, StationsTypeOK, ChosenIsListed
  <2>2. ASSUME NEW recent \in BOOLEAN, MainSleeps(recent, FALSE) PROVE ListInv'
    BY <2>2 DEF MainSleeps, listVars, signalVars
  <2>3. ASSUME NEW recent \in BOOLEAN, MainChecks(recent, FALSE, "finish")
        PROVE  ListInv'
    BY <2>3, ChecksKeepListInv
  <2>4. ASSUME NEW recent \in BOOLEAN, MainFaults(recent, FALSE) PROVE ListInv'
    BY <2>4 DEF MainFaults, listVars, signalVars
  <2>5. CASE MainFinishes
    BY <2>5 DEF MainFinishes, listVars
  <2>6. CASE UNCHANGED stationsVars
    BY <2>6 DEF stationsVars, listVars, signalVars, mainVars
  <2>. QED
    BY <2>1, <2>2, <2>3, <2>4, <2>5, <2>6 DEF StationsNext
<1>. QED
  BY <1>1, <1>2, PTL DEF StationsSpec

\* The marks of the list belong to listed stations, whatever comes and goes.
THEOREM StationsAreTyped == StationsSpec => []StationsTypeOK
<1>1. ListInv => StationsTypeOK
  BY DEF ListInv
<1>. QED
  BY <1>1, ListInvIsInvariant, PTL

\* The chosen station is on the list: chosen_channel never points to an
\* element that was erased.
THEOREM ChosenStaysListed == StationsSpec => []ChosenIsListed
<1>1. ListInv => ChosenIsListed
  BY DEF ListInv
<1>. QED
  BY <1>1, ListInvIsInvariant, PTL

\* Nothing but the user, a new station with the name of -n, or its own silence
\* takes a station away that plays.
THEOREM PlayingStaysUndisturbed == StationsSpec => PlayingIsNotDisturbed
<1>. DEFINE Undisturbed == chosen_channel # chosen_channel' =>
                             \/ chosen_channel \notin channels'
                             \/ curr_channel_change # 0
                             \/ fresh # {}
<1>1. [StationsNext]_stationsVars => Undisturbed
  <2>. SUFFICES ASSUME [StationsNext]_stationsVars,
                       chosen_channel # chosen_channel',
                       chosen_channel \in channels',
                       curr_channel_change = 0, fresh = {}
                PROVE  FALSE
    OBVIOUS
  <2>1. PICK recent \in BOOLEAN : MainChecks(recent, FALSE, "finish")
    BY DEF StationsNext, Surroundings, Reply, FallSilent, ChangeChannel,
           AlarmRings, MainSleeps, MainFaults, MainFinishes, stationsVars,
           listVars
  <2>2. ~AnyNeeded /\ chosen_channel' = AfterUser
    BY <2>1 DEF MainChecks, AnyNeeded
  <2>3. AfterExpected = chosen_channel
    BY DEF AfterExpected, Noticed
  <2>. QED
    BY <2>2, <2>3 DEF AfterUser, AfterAny
<1>. QED
  BY <1>1, PTL DEF StationsSpec, PlayingIsNotDisturbed
==============================================================================
