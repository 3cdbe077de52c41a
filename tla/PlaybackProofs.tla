--------------------------- MODULE PlaybackProofs ---------------------------
(***************************************************************************)
(* The buffer of the receiver within one session, for every size and every *)
(* order in which packets come: what the player writes out, what the ring  *)
(* keeps and what the requester has seen to.                               *)
(*                                                                         *)
(* What is played follows from what each slot holds.  That packets stay    *)
(* needs more: every stored number that is less than a whole buffer behind *)
(* the newest is in the slot where idx_for_num looks for it, also while    *)
(* the marks have been moved and the number is not written yet.  The scan  *)
(* of the requester runs while slots change; what it has passed came, was  *)
(* asked for, or will be asked for at the end of the round.                *)
(***************************************************************************)
EXTENDS Playback, FifoProofs

\* The parts of the threads that tell whose slot is whose.
LocalsOK ==
  /\ fifo \in Fifos
  /\ data \in [Slots -> Int]
  /\ first # None => curr \in Nat
  /\ audio_playing \in BOOLEAN
  /\ audio_playing \/ player.pc # "wait" => first # None
  /\ receiver \in [pc : {"first", "read", "mark", "number", "data", "commit",
                         "threshold"},
                   num : Numbers \cup {None}, idx : Slots \cup {None}]
  /\ receiver.pc # "first" => receiver.num \in Numbers
  /\ receiver.pc \in {"number", "data"} => receiver.idx \in Slots
  /\ receiver.pc \in {"read", "threshold"} => first # None
  /\ player \in [pc : {"wait", "test", "begin", "end", "missing"},
                 num : Nat \cup {None}, idx : Slots \cup {None},
                 out : Slots \cup {None}, raced : BOOLEAN]
  /\ player.pc \in {"test", "begin", "end"} =>
       player.num \in Nat /\ player.idx \in Slots
  /\ player.pc \in {"begin", "end"} => player.out \in Slots /\ player.num > 0

\* A slot with a number holds the data of that packet, but for the one into
\* which the receiver is just copying them.
SlotsInv ==
  /\ receiver.pc = "data" => fifo.num[receiver.idx] = receiver.num
  /\ \A i \in Slots :
       \/ fifo.num[i] = None
       \/ data[i] = fifo.num[i]
       \/ receiver.pc = "data" /\ receiver.idx = i

PlayInv == LocalsOK /\ SlotsInv

-----------------------------------------------------------------------------
\* The invariant says more than the property: the slot that is written out has
\* the data of its number, be it that of the packet or a newer one.
LEMMA PlayInvImplies == PlayInv => PlayedIsThatPacket
BY DEF PlayInv, LocalsOK, SlotsInv, PlayedIsThatPacket, None

-----------------------------------------------------------------------------
\* At the beginning the buffer is empty; every step keeps the invariant.
THEOREM PlayInvIsInvariant == PlaybackSpec => []PlayInv
<1>1. PlaybackInit => PlayInv
  <2>. SUFFICES ASSUME PlaybackInit PROVE PlayInv
    OBVIOUS
  <2>1. fifo \in Fifos /\ \A i \in Slots : fifo.num[i] = None
    BY DEF PlaybackInit, EmptyFifo, Fifos, None
  <2>2. /\ first = None /\ audio_playing = FALSE /\ receiver.pc = "first"
        /\ player.pc = "wait" /\ data \in [Slots -> Int]
    BY DEF PlaybackInit, None
  <2>3. receiver \in [pc : {"first", "read", "mark", "number", "data", "commit",
                         "threshold"},
                    num : Numbers \cup {None}, idx : Slots \cup {None}]
    BY DEF PlaybackInit
  <2>4. player \in [pc : {"wait", "test", "begin", "end", "missing"},
                  num : Nat \cup {None}, idx : Slots \cup {None},
                  out : Slots \cup {None}, raced : BOOLEAN]
    BY DEF PlaybackInit
  <2>5. LocalsOK
    BY <2>1, <2>2, <2>3, <2>4 DEF LocalsOK
  <2>6. SlotsInv
    BY <2>1, <2>2 DEF SlotsInv
  <2>. QED
    BY <2>5, <2>6 DEF PlayInv
<1>2. PlayInv /\ [PlaybackNext]_vars => PlayInv'
  <2>. SUFFICES ASSUME PlayInv, [PlaybackNext]_vars PROVE PlayInv'
    OBVIOUS
  <2>. USE DEF PlayInv
  <2>1. CASE ArriveFirst
    BY <2>1, PlaybackAssumption
       DEF ArriveFirst, LocalsOK, SlotsInv, marks, PlaybackAssumption, Numbers
  <2>2. ASSUME NEW n \in Numbers, Arrive(n) PROVE PlayInv'
    <3>1. /\ UNCHANGED <<fifo, data, first, curr, audio_playing, player>>
          /\ receiver.pc = "read"
          /\ \/ receiver' = [receiver EXCEPT !.pc = "mark", !.num = n]
             \/ receiver' = [receiver EXCEPT !.pc = "threshold"]
      BY <2>2 DEF Arrive
    <3>2. receiver' \in [pc : {"first", "read", "mark", "number", "data", "commit",
                             "threshold"},
                       num : Numbers \cup {None}, idx : Slots \cup {None}]
      BY <3>1 DEF LocalsOK
    <3>3. /\ receiver'.pc \in {"mark", "threshold"}
          /\ receiver'.num \in {n, receiver.num} /\ receiver.num \in Numbers
      BY <3>1 DEF LocalsOK
    <3>4. LocalsOK'
      BY <3>1, <3>2, <3>3 DEF LocalsOK
    <3>5. SlotsInv'
      BY <3>1, <3>3 DEF SlotsInv
    <3>. QED
      BY <3>4, <3>5
  <2>3. CASE MoveMarks
    <3>. DEFINE n == receiver.num
    <3>1. receiver.pc = "mark" /\ n \in Int
      BY <2>3 DEF MoveMarks, LocalsOK, Numbers
    <3>2. /\ UNCHANGED <<data, first, curr, audio_playing, player>>
          /\ fifo' = Insert(fifo, n)
          /\ receiver' = [receiver EXCEPT !.idx = InsertIdx(fifo, n),
                            !.pc = IF InsertIdx(fifo, n) = None
                                   THEN NextAfterSave ELSE "number"]
      BY <2>3 DEF MoveMarks, marks
    <3>3. /\ fifo' \in Fifos /\ fifo'.num = fifo.num
          /\ InsertIdx(fifo, n) \in Slots \cup {None}
      BY <3>1, <3>2, InsertMovesMarks DEF LocalsOK, None
    <3>4. NextAfterSave \in {"commit", "threshold"}
          /\ (NextAfterSave = "threshold" => first # None)
      BY DEF NextAfterSave
    <3>5. LocalsOK'
      <4>1. receiver' \in [pc : {"first", "read", "mark", "number", "data", "commit",
                               "threshold"},
                         num : Numbers \cup {None}, idx : Slots \cup {None}]
        BY <3>2, <3>3, <3>4 DEF LocalsOK
      <4>2. /\ receiver'.pc \in {"commit", "threshold", "number"}
            /\ receiver'.pc = "threshold" => first # None
            /\ receiver'.pc = "number" => receiver'.idx \in Slots
            /\ receiver'.num = receiver.num /\ receiver.num \in Numbers
        BY <3>1, <3>2, <3>3, <3>4 DEF LocalsOK
      <4>. QED
        BY <3>2, <3>3, <4>1, <4>2 DEF LocalsOK
    <3>6. SlotsInv'
      BY <3>1, <3>2, <3>3, <3>4 DEF LocalsOK, SlotsInv
    <3>. QED
      BY <3>5, <3>6
  <2>4. CASE SetNumber
    <3>1. /\ receiver.pc = "number"
          /\ UNCHANGED <<data, first, curr, audio_playing, player>>
          /\ fifo' = [fifo EXCEPT !.num[receiver.idx] = receiver.num]
          /\ receiver' = [receiver EXCEPT !.pc = "data"]
      BY <2>4 DEF SetNumber, marks
    <3>2. receiver.idx \in Slots /\ receiver.num \in Int
      BY <3>1 DEF LocalsOK, Numbers
    <3>3. /\ fifo' \in Fifos
          /\ \A i \in Slots : fifo'.num[i] =
               IF i = receiver.idx THEN receiver.num ELSE fifo.num[i]
      BY <3>1, <3>2 DEF LocalsOK, Fifos
    <3>4. LocalsOK'
      BY <3>1, <3>2, <3>3 DEF LocalsOK
    <3>5. SlotsInv'
      BY <3>1, <3>2, <3>3 DEF LocalsOK, SlotsInv
    <3>. QED
      BY <3>4, <3>5
  <2>5. CASE CopyData
    <3>1. /\ receiver.pc = "data"
          /\ UNCHANGED <<fifo, first, curr, audio_playing, player>>
          /\ data' = [data EXCEPT ![receiver.idx] = receiver.num]
          /\ receiver' = [receiver EXCEPT !.pc = NextAfterSave]
      BY <2>5 DEF CopyData, marks
    <3>2. receiver.idx \in Slots /\ receiver.num \in Int
      BY <3>1 DEF LocalsOK, Numbers
    <3>3. NextAfterSave \in {"commit", "threshold"}
          /\ (NextAfterSave = "threshold" => first # None)
      BY DEF NextAfterSave
    <3>4. LocalsOK'
      BY <3>1, <3>2, <3>3 DEF LocalsOK
    <3>5. SlotsInv'
      BY <3>1, <3>2, <3>3 DEF LocalsOK, SlotsInv
    <3>. QED
      BY <3>4, <3>5
  <2>6. CASE CommitFirst
    BY <2>6 DEF CommitFirst, LocalsOK, SlotsInv, Numbers, None
  <2>7. CASE TestThreshold
    BY <2>7 DEF TestThreshold, LocalsOK, SlotsInv, marks
  <2>8. CASE StartPlaying
    <3>1. IdxForNum(fifo, curr) \in Slots /\ curr \in Nat /\ first # None
      BY <2>8, IdxIsSlot DEF StartPlaying, LocalsOK
    <3>2. /\ UNCHANGED <<fifo, data, first, curr, audio_playing, receiver>>
          /\ player' = [pc |-> "test", num |-> curr,
                        idx |-> IdxForNum(fifo, curr), out |-> None,
                        raced |-> receiver.pc = "number"]
      BY <2>8 DEF StartPlaying, marks
    <3>3. /\ player'.pc = "test" /\ player'.num = curr
          /\ player'.idx = IdxForNum(fifo, curr) /\ player'.out = None
          /\ player'.raced \in BOOLEAN
      BY <3>2
    <3>4. player' \in [pc : {"wait", "test", "begin", "end", "missing"},
                       num : Nat \cup {None}, idx : Slots \cup {None},
                       out : Slots \cup {None}, raced : BOOLEAN]
      BY <3>1, <3>2
    <3>5. LocalsOK'
      BY <3>1, <3>2, <3>3, <3>4 DEF LocalsOK
    <3>6. SlotsInv'
      BY <3>2 DEF SlotsInv
    <3>. QED
      BY <3>5, <3>6
  <2>9. CASE TakePacket
    <3>1. /\ player.pc = "test" /\ curr' = player.num + 1
          /\ UNCHANGED <<fifo, data, first, audio_playing, receiver>>
          /\ player' = [player EXCEPT !.pc = "begin", !.num = @ + 1,
                          !.idx = IdxPlus(@), !.out = player.idx]
      BY <2>9 DEF TakePacket
    <3>2. player.num \in Nat /\ player.idx \in Slots
      BY <3>1 DEF LocalsOK
    <3>3. IdxPlus(player.idx) \in Slots /\ player.num + 1 \in Nat \ {0}
      BY <3>2, IdxPlusIsSlot
    <3>4. LocalsOK'
      <4>1. /\ player'.pc = "begin" /\ player'.num = player.num + 1
            /\ player'.idx = IdxPlus(player.idx) /\ player'.out = player.idx
        BY <3>1 DEF LocalsOK
      <4>2. player' \in [pc : {"wait", "test", "begin", "end", "missing"},
                         num : Nat \cup {None}, idx : Slots \cup {None},
                         out : Slots \cup {None}, raced : BOOLEAN]
        BY <3>1, <3>2, <3>3 DEF LocalsOK
      <4>. QED
        BY <3>1, <3>2, <3>3, <4>1, <4>2 DEF LocalsOK
    <3>5. SlotsInv'
      BY <3>1 DEF SlotsInv
    <3>. QED
      BY <3>4, <3>5
  <2>10. CASE MissPacket
    BY <2>10 DEF MissPacket, LocalsOK, SlotsInv, marks
  <2>11. CASE WriteOut
    BY <2>11 DEF WriteOut, LocalsOK, SlotsInv, marks
  <2>12. CASE RequesterStep
    BY <2>12 DEF RequesterStep, BeginRequests, BeginRound, ScanSlot, Ask,
                 AlarmRings, LocalsOK, SlotsInv, marks
  <2>13. CASE UNCHANGED vars
    BY <2>13 DEF vars, marks, LocalsOK, SlotsInv
  <2>. QED
    BY <2>1, <2>2, <2>3, <2>4, <2>5, <2>6, <2>7, <2>8, <2>9, <2>10, <2>11,
       <2>12, <2>13 DEF PlaybackNext, ReceiverStep, PlayerStep
<1>. QED
  BY <1>1, <1>2, PTL DEF PlaybackSpec

\* Whatever comes in whatever order, and however the threads interleave: the
\* player writes the data of the packet whose turn it is, or the slot was
\* given away meanwhile, or the data are just being copied.
THEOREM PlayedIsRight == PlaybackSpec => []PlayedIsThatPacket
BY PlayInvIsInvariant, PlayInvImplies, PTL

-----------------------------------------------------------------------------
(* A buffer whose numbers come in any order.                               *)

\* Of the stored numbers S the buffer q has its newest in the slot last, and
\* each that is less than a whole buffer older where idx_for_num looks for it.
\* b is the number with which the buffer began, at first or when it started
\* anew: until a whole buffer came after it, first is its slot, and nothing
\* older is let in.
Keeps(q, S, b) ==
  /\ q \in Fifos /\ q.last \in Slots /\ q.first \in Slots
  /\ LastNum(q) \in S /\ b \in S
  /\ \A i \in Slots : q.num[i] \in S \cup {None}
  /\ \A m \in S : m <= LastNum(q)
  /\ \A m \in S : m > LastNum(q) - Size =>
                    m >= b /\ q.num[IdxForNum(q, m)] = m
  /\ \A m \in S : m >= b \/ m <= b - Size
  /\ LastNum(q) - Size < b => q.first = 0 /\ IdxForNum(q, b) = 0 /\ ~q.cycled

\* The newest number is a number.
LEMMA NewestIsNumber ==
  ASSUME NEW q \in Fifos
  PROVE  LastNum(q) \in Int
<1>1. q.num \in [Slots -> Int] /\ q.last \in {-1} \cup Slots
  BY DEF Fifos
<1>. QED
  BY <1>1 DEF LastNum

\* Where idx_for_num looks, up to a whole buffer before or after the newest.
LEMMA IndexNearNewest ==
  ASSUME NEW q \in Fifos, q.last \in Slots, NEW n \in Int,
         n >= LastNum(q) - Size, n < LastNum(q) + Size
  PROVE  /\ LastNum(q) \in Int
         /\ IdxForNum(q, n) \in Slots
         /\ \/ IdxForNum(q, n) = q.last + n - LastNum(q)
            \/ IdxForNum(q, n) = q.last + n - LastNum(q) - Size
            \/ IdxForNum(q, n) = q.last + n - LastNum(q) + Size
<1>0. Size \in Nat \ {0}
  BY SizeAssumption
<1>1. LastNum(q) \in Int /\ q.last \in 0 .. Size - 1
  BY NewestIsNumber DEF Slots
<1>. DEFINE a == q.last + (n - LastNum(q))
<1>2. a \in Int /\ 0 - Size <= a /\ a < 2 * Size
  BY <1>0, <1>1
<1>3. IdxForNum(q, n) = a % Size /\ IdxForNum(q, n) \in Slots
  BY IdxIsSlot DEF IdxForNum
<1>4. a = q.last + n - LastNum(q)
  BY <1>1
<1>. HIDE DEF a
<1>5. a % Size = a \/ a % Size = a - Size \/ a % Size = a + Size
  <2>1. CASE a < 0
    BY <1>2, <2>1, Remainders
  <2>2. CASE a >= Size
    BY <1>2, <2>2, Remainders
  <2>3. CASE a >= 0 /\ a < Size
    <3>1. a \in Slots
      BY <1>0, <1>2, <2>3 DEF Slots
    <3>. QED
      BY <1>2, <3>1, Remainders
  <2>. QED
    BY <1>0, <1>2, <2>1, <2>2, <2>3
<1>. QED
  BY <1>0, <1>1, <1>3, <1>4, <1>5

\* A number is Size times something, and its remainder.
LEMMA Quotient ==
  ASSUME NEW a \in Int
  PROVE  \E d \in Int : a = Size * d + (a % Size)
<1>0. Size \in Nat \ {0}
  BY SizeAssumption
<1>1. a = Size * (a \div Size) + (a % Size) /\ a \div Size \in Int
  BY <1>0
<1>. QED
  BY <1>1

\* There is one remainder only.
LEMMA OneRemainder ==
  ASSUME NEW x \in Slots, NEW y \in Slots, NEW d \in Int, NEW e \in Int,
         Size * d + x = Size * e + y
  PROVE  x = y
<1>0. Size \in Nat \ {0}
  BY SizeAssumption
<1>1. ASSUME d >= e + 1 PROVE FALSE
  <2>1. Size * d >= Size * e + Size
    BY <1>0, <1>1
  <2>. QED
    BY <1>0, <2>1 DEF Slots
<1>2. ASSUME e >= d + 1 PROVE FALSE
  <2>1. Size * e >= Size * d + Size
    BY <1>0, <1>2
  <2>. QED
    BY <1>0, <2>1 DEF Slots
<1>3. d = e
  BY <1>1, <1>2
<1>. QED
  BY <1>0, <1>3 DEF Slots

\* Going on from a remainder is going on from the number.
LEMMA RemainderOfSum ==
  ASSUME NEW a \in Int, NEW b \in Int
  PROVE  ((a % Size) + b) % Size = (a + b) % Size
<1>0. Size \in Nat \ {0}
  BY SizeAssumption
<1>. DEFINE x == a % Size
<1>1. PICK d \in Int : a = Size * d + x
  BY Quotient
<1>2. x \in Int
  BY <1>0
<1>. HIDE DEF x
<1>3. PICK e \in Int : x + b = Size * e + ((x + b) % Size)
  BY <1>2, Quotient
<1>4. PICK f \in Int : a + b = Size * f + ((a + b) % Size)
  BY Quotient
<1>. DEFINE y == (x + b) % Size  z == (a + b) % Size
<1>5. y \in Slots /\ z \in Slots
  BY <1>0, <1>2 DEF Slots
<1>. HIDE DEF y, z
<1>6. Size * (d + e) + y = Size * f + z
  <2>1. Size * (d + e) = Size * d + Size * e
    BY <1>0
  <2>2. Size * d \in Int /\ Size * e \in Int /\ Size * f \in Int
    BY <1>0
  <2>3. y \in Int /\ z \in Int
    BY <1>5 DEF Slots
  <2>. QED
    BY <1>1, <1>2, <1>3, <1>4, <2>1, <2>2, <2>3 DEF y, z
<1>7. y = z
  BY <1>5, <1>6, OneRemainder
<1>. QED
  BY <1>7 DEF x, y, z

\* The index does not depend on which of two newest numbers it is counted from.
LEMMA IndexStays ==
  ASSUME NEW q \in Fifos, q.last \in Slots, NEW r \in Fifos, NEW n \in Int,
         r.last = IdxForNum(q, LastNum(r))
  PROVE  IdxForNum(r, n) = IdxForNum(q, n)
<1>. DEFINE l == q.last  M == LastNum(q)  N == LastNum(r)
<1>1. l \in Int /\ M \in Int /\ N \in Int
  BY NewestIsNumber, SizeAssumption DEF Slots
<1>2. r.last = (l + (N - M)) % Size
  BY DEF IdxForNum
<1>3. IdxForNum(r, n) = (r.last + (n - N)) % Size
  BY DEF IdxForNum
<1>4. IdxForNum(q, n) = (l + (n - M)) % Size
  BY DEF IdxForNum
<1>. HIDE DEF l, M, N
<1>5. (((l + (N - M)) % Size) + (n - N)) % Size = (l + (N - M) + (n - N)) % Size
  BY <1>1, RemainderOfSum
<1>6. l + (N - M) + (n - N) = l + (n - M)
  BY <1>1
<1>. QED
  BY <1>2, <1>3, <1>4, <1>5, <1>6

\* The next number is looked for in the next slot.
LEMMA IndexOfNext ==
  ASSUME NEW q \in Fifos, q.last \in Slots, NEW n \in Int
  PROVE  IdxPlus(IdxForNum(q, n)) = IdxForNum(q, n + 1)
<1>0. Size \in Nat \ {0}
  BY SizeAssumption
<1>. DEFINE x == IdxForNum(q, n)  a == q.last + (n - LastNum(q))
<1>1. a \in Int /\ q.last + ((n + 1) - LastNum(q)) = a + 1
  BY <1>0, NewestIsNumber DEF Slots
<1>2. x = a % Size /\ x \in Slots
  BY IdxIsSlot DEF IdxForNum
<1>3. IdxForNum(q, n + 1) = (a + 1) % Size
  BY <1>1 DEF IdxForNum
<1>. HIDE DEF x, a
<1>4. (x + 1) % Size = (a + 1) % Size
  BY <1>1, <1>2, RemainderOfSum
<1>5. IdxPlus(x) = (x + 1) % Size
  <2>1. CASE x + 1 >= Size
    <3>1. x + 1 \in Int /\ Size <= x + 1 /\ x + 1 < 2 * Size
      BY <1>0, <1>2, <2>1 DEF Slots
    <3>2. (x + 1) % Size = (x + 1) - Size
      BY <3>1, Remainders
    <3>3. IdxPlus(x) = (x + 1) - Size
      BY <1>0, <1>2, <2>1, <3>1 DEF IdxPlus, Slots
    <3>. QED
      BY <3>2, <3>3
  <2>2. CASE ~(x + 1 >= Size)
    <3>1. x + 1 \in Int /\ x + 1 \in Slots
      BY <1>0, <1>2, <2>2 DEF Slots
    <3>. QED
      BY <2>2, <3>1, Remainders DEF IdxPlus
  <2>. QED
    BY <2>1, <2>2
<1>. QED
  BY <1>3, <1>4, <1>5 DEF x

\* Two numbers less than a whole buffer apart have different slots.
LEMMA IndexesDiffer ==
  ASSUME NEW q \in Fifos, q.last \in Slots, NEW m \in Int, NEW n \in Int,
         m >= LastNum(q) - Size, m < LastNum(q) + Size,
         n >= LastNum(q) - Size, n < LastNum(q) + Size,
         m < n, n - m < Size
  PROVE  IdxForNum(q, m) # IdxForNum(q, n)
<1>0. Size \in Nat \ {0}
  BY SizeAssumption
<1>. DEFINE x == IdxForNum(q, m)  y == IdxForNum(q, n)  l == q.last
            M == LastNum(q)
<1>1. /\ M \in Int
      /\ x = l + m - M \/ x = l + m - M - Size \/ x = l + m - M + Size
  BY IndexNearNewest
<1>2. y = l + n - M \/ y = l + n - M - Size \/ y = l + n - M + Size
  BY IndexNearNewest
<1>3. l \in 0 .. Size - 1
  BY DEF Slots
<1>4. x \in Slots /\ y \in Slots
  BY IndexNearNewest
<1>. HIDE DEF x, y, l, M
<1>5. x # y
  BY <1>0, <1>1, <1>2, <1>3, <1>4 DEF Slots
<1>. QED
  BY <1>5 DEF x, y

\* The newest number is where idx_for_num looks for it.
LEMMA IndexOfNewest ==
  ASSUME NEW q \in Fifos, q.last \in Slots
  PROVE  IdxForNum(q, LastNum(q)) = q.last
<1>1. LastNum(q) \in Int /\ q.last \in Int
  BY NewestIsNumber, SizeAssumption DEF Slots, SizeAssumption
<1>2. q.last + (LastNum(q) - LastNum(q)) = q.last
  BY <1>1
<1>. QED
  BY <1>1, <1>2, Remainders DEF IdxForNum

\* What a buffer that keeps S says of its marks.
LEMMA KeepsMarks ==
  ASSUME NEW S \in SUBSET Nat, NEW q, NEW b, Keeps(q, S, b)
  PROVE  /\ LastNum(q) \in Nat /\ b \in Nat /\ b <= LastNum(q)
         /\ FirstNum(q) \in Int /\ FirstNum(q) <= LastNum(q)
         /\ FirstNum(q) = q.num[q.first] /\ LastNum(q) = q.num[q.last]
         /\ LastNum(q) - Size < b => FirstNum(q) = b
<1>0. Size \in Nat \ {0} /\ -1 \notin Slots
  BY SizeAssumption DEF Slots
<1>1. FirstNum(q) = q.num[q.first] /\ LastNum(q) = q.num[q.last]
  BY <1>0 DEF Keeps, FirstNum, LastNum
<1>2. FirstNum(q) \in S \cup {-1} /\ LastNum(q) \in S /\ b \in S
  BY <1>1 DEF Keeps, None
<1>3. LastNum(q) - Size < b => q.num[0] = b /\ q.first = 0
  <2>. HAVE LastNum(q) - Size < b
  <2>1. b > LastNum(q) - Size
    BY <1>0, NewestIsNumber DEF Keeps
  <2>. QED
    BY <1>2, <2>1 DEF Keeps
<1>4. \A m \in S : m \in Nat /\ m <= LastNum(q)
  BY DEF Keeps
<1>5. LastNum(q) \in Nat /\ b \in Nat /\ b <= LastNum(q)
  BY <1>2, <1>4
<1>6. FirstNum(q) \in Int /\ FirstNum(q) <= LastNum(q)
  <2>1. CASE FirstNum(q) \in S
    <3>1. FirstNum(q) \in Nat /\ FirstNum(q) <= LastNum(q)
      BY <1>4, <2>1, Zenon
    <3>. QED
      BY <3>1
  <2>2. CASE FirstNum(q) = -1
    BY <1>5, <2>2
  <2>. QED
    BY <1>2, <2>1, <2>2
<1>7. LastNum(q) - Size < b => FirstNum(q) = b
  BY <1>1, <1>3
<1>. QED
  BY <1>1, <1>5, <1>6, <1>7

\* A late or repeated number of the window, if it is not refused.
LEMMA LateKeeps ==
  ASSUME NEW S \in SUBSET Nat, NEW q, NEW b, Keeps(q, S, b), NEW n \in Nat,
         n <= LastNum(q), n > LastNum(q) - Size, InsertIdx(q, n) # None
  PROVE  /\ Keeps(GetToSet(q, n), S \cup {n}, b)
         /\ LastNum(GetToSet(q, n)) = LastNum(q)
         /\ \A m \in Int : IdxForNum(GetToSet(q, n), m) = IdxForNum(q, m)
         /\ n \in S => q.num[InsertIdx(q, n)] = n
<1>. DEFINE i == InsertIdx(q, n)  r == [Insert(q, n) EXCEPT !.num[i] = n]
<1>b. r = GetToSet(q, n) \/ i = -1
  BY DEF GetToSet
<1>a. i = InsertIdx(q, n) /\ r = [Insert(q, n) EXCEPT !.num[i] = n]
  OBVIOUS
<1>. HIDE DEF i, r
<1>0. Size \in Nat \ {0} /\ -1 \notin Slots
  BY SizeAssumption DEF Slots
<1>1. /\ LastNum(q) \in Nat /\ b \in Nat /\ b <= LastNum(q)
      /\ FirstNum(q) \in Int /\ LastNum(q) = q.num[q.last]
      /\ LastNum(q) - Size < b => FirstNum(q) = b
  BY KeepsMarks
<1>2. q \in Fifos /\ q.last \in Slots /\ q.first \in Slots
  BY DEF Keeps
<1>3. Insert(q, n) = q /\ FirstNum(q) <= n /\ i = IdxForNum(q, n)
  BY <1>0, <1>a, <1>1, <1>2 DEF Insert, InsertIdx, None
<1>4. i \in Slots
  BY <1>2, <1>3, IdxIsSlot
<1>5. /\ r \in Fifos /\ r.last = q.last
      /\ r.first = q.first /\ r.cycled = q.cycled
      /\ \A j \in Slots : r.num[j] = IF j = i THEN n ELSE q.num[j]
  BY <1>a, <1>2, <1>3, <1>4 DEF Fifos
<1>6. ASSUME NEW m \in Int, m # n, m <= LastNum(q), m > LastNum(q) - Size
      PROVE  IdxForNum(q, m) # i
  <2>1. CASE m < n
    BY <1>0, <1>1, <1>2, <1>3, <1>6, <2>1, IndexesDiffer
  <2>2. CASE n < m
    BY <1>0, <1>1, <1>2, <1>3, <1>6, <2>2, IndexesDiffer
  <2>. QED
    BY <1>6, <2>1, <2>2
<1>7. LastNum(r) = LastNum(q)
  <2>1. LastNum(r) = r.num[q.last]
    BY <1>0, <1>2, <1>5 DEF LastNum
  <2>2. CASE n = LastNum(q)
    BY <1>1, <1>2, <1>5, <2>1, <2>2
  <2>3. CASE n # LastNum(q)
    <3>1. IdxForNum(q, LastNum(q)) # i
      BY <1>0, <1>1, <1>6, <2>3
    <3>2. q.last # i
      BY <1>2, <3>1, IndexOfNewest
    <3>. QED
      BY <1>1, <1>2, <1>5, <2>1, <3>2
  <2>. QED
    BY <2>2, <2>3
<1>8. \A m \in Int : IdxForNum(r, m) = IdxForNum(q, m)
  BY <1>5, <1>7 DEF IdxForNum
<1>9. \A j \in Slots : r.num[j] \in (S \cup {n}) \cup {None}
  BY <1>5 DEF Keeps
<1>10. n >= b
  BY <1>0, <1>1, <1>3
<1>11. ASSUME NEW m \in S \cup {n}, m > LastNum(q) - Size
       PROVE  m >= b /\ r.num[IdxForNum(r, m)] = m
  <2>1. CASE m = n
    BY <1>3, <1>4, <1>5, <1>8, <1>10, <2>1
  <2>2. CASE m # n
    <3>1. m \in S /\ m <= LastNum(q) /\ m \in Int
      BY <2>2 DEF Keeps
    <3>2. m >= b /\ q.num[IdxForNum(q, m)] = m
      BY <1>11, <3>1 DEF Keeps
    <3>3. IdxForNum(q, m) \in Slots /\ IdxForNum(q, m) # i
      BY <1>2, <1>6, <1>11, <2>2, <3>1, IdxIsSlot
    <3>. QED
      BY <1>5, <1>8, <3>1, <3>2, <3>3
  <2>. QED
    BY <2>1, <2>2
<1>12. Keeps(r, S \cup {n}, b)
  <2>1. \A m \in S \cup {n} : m <= LastNum(r)
    BY <1>7 DEF Keeps
  <2>2. LastNum(r) - Size < b => r.first = 0 /\ IdxForNum(r, b) = 0 /\ ~r.cycled
    BY <1>1, <1>5, <1>7, <1>8 DEF Keeps
  <2>3. LastNum(r) \in S \cup {n} /\ b \in S \cup {n}
    BY <1>7 DEF Keeps
  <2>4. \A m \in S \cup {n} : m >= b \/ m <= b - Size
    BY <1>10 DEF Keeps
  <2>. QED
    BY <1>2, <1>5, <1>7, <1>9, <1>11, <2>1, <2>2, <2>3, <2>4 DEF Keeps
<1>13. n \in S => q.num[i] = n
  BY <1>3 DEF Keeps
<1>. QED
  <2>1. r = GetToSet(q, n)
    BY <1>0, <1>b, <1>4
  <2>. QED
    BY <1>a, <1>7, <1>8, <1>12, <1>13, <2>1

\* A newer number, less than a whole buffer ahead.
LEMMA NewerKeeps ==
  ASSUME NEW S \in SUBSET Nat, NEW q, NEW b, Keeps(q, S, b), NEW n \in Nat,
         n > LastNum(q), n < LastNum(q) + Size
  PROVE  /\ InsertIdx(q, n) \in Slots
         /\ Keeps(GetToSet(q, n), S \cup {n}, b) /\ LastNum(GetToSet(q, n)) = n
         /\ \A m \in Int : IdxForNum(GetToSet(q, n), m) = IdxForNum(q, m)
<1>. DEFINE i == InsertIdx(q, n)  r == [Insert(q, n) EXCEPT !.num[i] = n]
<1>b. r = GetToSet(q, n) \/ i = -1
  BY DEF GetToSet
<1>a. i = InsertIdx(q, n) /\ r = [Insert(q, n) EXCEPT !.num[i] = n]
  OBVIOUS
<1>. HIDE DEF i, r
<1>0. Size \in Nat \ {0} /\ -1 \notin Slots
  BY SizeAssumption DEF Slots
<1>1. /\ LastNum(q) \in Nat /\ b \in Nat /\ b <= LastNum(q)
      /\ FirstNum(q) \in Int /\ FirstNum(q) <= LastNum(q)
      /\ LastNum(q) - Size < b => FirstNum(q) = b
  BY KeepsMarks
<1>2. q \in Fifos /\ q.last \in Slots /\ q.first \in Slots
  BY DEF Keeps
<1>3. /\ ~FarAhead(q, n)
      /\ Insert(q, n) = InsertLater(q, n) /\ i = Insert(q, n).last
  BY <1>0, <1>a, <1>1, <1>2 DEF FarAhead, Insert, InsertIdx
<1>. DEFINE f == FirstAfter(q, n)
<1>4. Insert(q, n) = [q EXCEPT !.first = f, !.last = IdxForNum(q, n),
                               !.cycled = q.cycled \/ q.first > f]
  BY <1>3 DEF InsertLater
<1>5. IdxForNum(q, n) \in Slots /\ f \in Slots
  <2>1. Larger(FirstNum(q), n - Size + 1) \in Int
    BY <1>0, <1>1 DEF Larger
  <2>. QED
    BY <1>2, <2>1, IdxIsSlot, IdxPlusIsSlot DEF FirstAfter
<1>. HIDE DEF f
<1>6. /\ i = IdxForNum(q, n) /\ i \in Slots
      /\ Insert(q, n).num = q.num /\ Insert(q, n) \in Fifos
  BY <1>2, <1>3, <1>4, <1>5 DEF Fifos
<1>7. /\ r \in Fifos /\ r.last = i /\ r.first = f
      /\ r.cycled = (q.cycled \/ q.first > f)
      /\ \A j \in Slots : r.num[j] = IF j = i THEN n ELSE q.num[j]
  <2>1. r \in Fifos /\ \A j \in Slots : r.num[j] = IF j = i THEN n ELSE q.num[j]
    BY <1>a, <1>6 DEF Fifos
  <2>2. /\ r.last = Insert(q, n).last /\ r.first = Insert(q, n).first
        /\ r.cycled = Insert(q, n).cycled
    BY <1>a, <1>6 DEF Fifos
  <2>3. /\ Insert(q, n).last = i /\ Insert(q, n).first = f
        /\ Insert(q, n).cycled = (q.cycled \/ q.first > f)
    BY <1>2, <1>4, <1>6 DEF Fifos
  <2>. QED
    BY <2>1, <2>2, <2>3
<1>8. LastNum(r) = n
  BY <1>0, <1>6, <1>7 DEF LastNum
<1>9. \A m \in Int : IdxForNum(r, m) = IdxForNum(q, m)
  <2>1. r.last = IdxForNum(q, LastNum(r))
    BY <1>6, <1>7, <1>8
  <2>. QED
    BY <1>2, <1>7, <2>1, IndexStays
<1>10. ASSUME NEW m \in S \cup {n}, m > n - Size
       PROVE  m >= b /\ r.num[IdxForNum(r, m)] = m
  <2>1. CASE m = n
    <3>1. IdxForNum(r, n) = i
      BY <1>6, <1>7, <1>8, IndexOfNewest
    <3>. QED
      BY <1>0, <1>1, <1>6, <1>7, <2>1, <3>1
  <2>2. CASE m # n
    <3>1. m \in S /\ m <= LastNum(q) /\ m \in Int /\ m > LastNum(q) - Size
      BY <1>0, <1>1, <1>10, <2>2 DEF Keeps
    <3>2. m >= b /\ q.num[IdxForNum(q, m)] = m
      BY <3>1 DEF Keeps
    <3>3. IdxForNum(r, m) = IdxForNum(q, m)
      BY <1>0, <1>1, <1>9, <1>10, <3>1
    <3>4. IdxForNum(q, m) \in Slots /\ IdxForNum(q, m) # i
      BY <1>0, <1>1, <1>2, <1>6, <1>10, <3>1, IndexesDiffer, IdxIsSlot
    <3>. QED
      BY <1>7, <3>2, <3>3, <3>4
  <2>. QED
    BY <2>1, <2>2
<1>11. n - Size < b => r.first = 0 /\ IdxForNum(r, b) = 0 /\ ~r.cycled
  <2>. SUFFICES ASSUME n - Size < b
                PROVE  r.first = 0 /\ IdxForNum(r, b) = 0 /\ ~r.cycled
    OBVIOUS
  <2>1. LastNum(q) - Size < b
    BY <1>0, <1>1
  <2>2. q.first = 0 /\ IdxForNum(q, b) = 0 /\ ~q.cycled /\ FirstNum(q) = b
    BY <1>1, <2>1 DEF Keeps
  <2>3. Larger(FirstNum(q), n - Size + 1) = b
    BY <1>0, <1>1, <2>2 DEF Larger
  <2>4. f = 0
    BY <2>2, <2>3 DEF f, FirstAfter
  <2>5. IdxForNum(r, b) = IdxForNum(q, b)
    BY <1>0, <1>1, <1>9
  <2>6. r.first = 0 /\ ~r.cycled
    <3>1. ~(q.first > f)
      BY <2>2, <2>4
    <3>. QED
      BY <1>7, <2>2, <2>4, <3>1
  <2>. QED
    BY <2>2, <2>5, <2>6
<1>12. Keeps(r, S \cup {n}, b)
  <2>1. \A m \in S \cup {n} : m <= n
    BY <1>1 DEF Keeps
  <2>2. \A j \in Slots : r.num[j] \in (S \cup {n}) \cup {None}
    BY <1>7 DEF Keeps
  <2>3. b \in S \cup {n}
    BY DEF Keeps
  <2>4. \A m \in S \cup {n} : m >= b \/ m <= b - Size
    BY <1>1 DEF Keeps
  <2>. QED
    BY <1>5, <1>6, <1>7, <1>8, <1>10, <1>11, <2>1, <2>2, <2>3, <2>4 DEF Keeps
<1>. QED
  <2>1. r = GetToSet(q, n)
    BY <1>0, <1>b, <1>6
  <2>. QED
    BY <1>a, <1>6, <1>8, <1>9, <1>12, <2>1

\* A number a whole buffer ahead or more: the buffer begins with it.
LEMMA FarKeeps ==
  ASSUME NEW S \in SUBSET Nat, NEW q, NEW b, Keeps(q, S, b), NEW n \in Nat,
         n >= LastNum(q) + Size
  PROVE  /\ InsertIdx(q, n) \in Slots
         /\ Keeps(GetToSet(q, n), S \cup {n}, n) /\ LastNum(GetToSet(q, n)) = n
<1>. DEFINE i == InsertIdx(q, n)  r == [Insert(q, n) EXCEPT !.num[i] = n]
<1>b. r = GetToSet(q, n) \/ i = -1
  BY DEF GetToSet
<1>a. i = InsertIdx(q, n) /\ r = [Insert(q, n) EXCEPT !.num[i] = n]
  OBVIOUS
<1>. HIDE DEF i, r
<1>0. Size \in Nat \ {0} /\ -1 \notin Slots /\ 0 \in Slots
  BY SizeAssumption DEF Slots
<1>1. LastNum(q) \in Nat /\ FirstNum(q) \in Int /\ FirstNum(q) <= LastNum(q)
  BY KeepsMarks
<1>2. q \in Fifos /\ q.last \in Slots /\ q.first \in Slots
  BY DEF Keeps
<1>3. FarAhead(q, n) /\ Insert(q, n) = InsertLater(q, n) /\ i = Insert(q, n).last
  BY <1>0, <1>a, <1>1, <1>2 DEF FarAhead, Insert, InsertIdx
<1>4. Insert(q, n) = [q EXCEPT !.first = 0, !.last = 0, !.cycled = FALSE]
  BY <1>3 DEF InsertLater
<1>5. i = 0 /\ i \in Slots
  BY <1>0, <1>2, <1>3, <1>4 DEF Fifos
<1>6. /\ r \in Fifos /\ r.last = 0 /\ r.first = 0 /\ ~r.cycled
      /\ \A j \in Slots : r.num[j] = IF j = i THEN n ELSE q.num[j]
  <2>1. Insert(q, n) \in Fifos /\ Insert(q, n).num = q.num
    BY <1>2, InsertMovesMarks
  <2>2. /\ Insert(q, n).last = 0 /\ Insert(q, n).first = 0
        /\ Insert(q, n).cycled = FALSE
    BY <1>2, <1>4 DEF Fifos
  <2>3. r \in Fifos /\ \A j \in Slots : r.num[j] = IF j = i THEN n ELSE q.num[j]
    BY <1>a, <1>5, <2>1 DEF Fifos
  <2>4. /\ r.last = Insert(q, n).last /\ r.first = Insert(q, n).first
        /\ r.cycled = Insert(q, n).cycled
    BY <1>a, <2>1 DEF Fifos
  <2>. QED
    BY <2>2, <2>3, <2>4
<1>7. LastNum(r) = n
  BY <1>0, <1>5, <1>6 DEF LastNum
<1>8. IdxForNum(r, n) = 0
  BY <1>0, <1>6, <1>7, IndexOfNewest
<1>9. \A m \in S : m <= n - Size /\ m <= n
  BY <1>0, <1>1 DEF Keeps
<1>10. \A m \in S \cup {n} : m > n - Size => m = n
  BY <1>0, <1>9
<1>11. \A j \in Slots : r.num[j] \in (S \cup {n}) \cup {None}
  BY <1>6 DEF Keeps
<1>. QED
  <2>1. Keeps(r, S \cup {n}, n)
    BY <1>0, <1>5, <1>6, <1>7, <1>8, <1>9, <1>10, <1>11 DEF Keeps
  <2>2. r = GetToSet(q, n)
    BY <1>0, <1>b, <1>5
  <2>. QED
    BY <1>a, <1>5, <1>7, <2>1, <2>2

\* The first number of all.
LEMMA FirstKeeps ==
  ASSUME NEW n \in Nat
  PROVE  /\ InsertIdx(EmptyFifo, n) \in Slots
         /\ Keeps(GetToSet(EmptyFifo, n), {n}, n)
         /\ LastNum(GetToSet(EmptyFifo, n)) = n
<1>. DEFINE i == InsertIdx(EmptyFifo, n)
            r == [Insert(EmptyFifo, n) EXCEPT !.num[i] = n]
<1>b. r = GetToSet(EmptyFifo, n) \/ i = -1
  BY DEF GetToSet
<1>a. i = InsertIdx(EmptyFifo, n) /\ r = [Insert(EmptyFifo, n) EXCEPT !.num[i] = n]
  OBVIOUS
<1>. HIDE DEF i, r
<1>0. Size \in Nat \ {0} /\ -1 \notin Slots /\ 0 \in Slots
  BY SizeAssumption DEF Slots
<1>1. EmptyFifo \in Fifos /\ EmptyFifo.last = -1
  BY DEF EmptyFifo, Fifos
<1>2. Insert(EmptyFifo, n) = [EmptyFifo EXCEPT !.first = 0, !.last = 0] /\ i = 0
  BY <1>a, <1>1 DEF Insert, InsertIdx
<1>3. /\ r \in Fifos /\ r.last = 0 /\ r.first = 0 /\ ~r.cycled
      /\ \A j \in Slots : r.num[j] = IF j = 0 THEN n ELSE -1
  <2>1. /\ Insert(EmptyFifo, n) \in Fifos
        /\ \A j \in Slots : Insert(EmptyFifo, n).num[j] = -1
    <3>1. \A j \in Slots : EmptyFifo.num[j] = -1
      BY DEF EmptyFifo
    <3>. QED
      BY <1>1, <3>1, InsertMovesMarks
  <2>2. /\ Insert(EmptyFifo, n).last = 0 /\ Insert(EmptyFifo, n).first = 0
        /\ Insert(EmptyFifo, n).cycled = FALSE
    BY <1>2 DEF EmptyFifo
  <2>3. r \in Fifos /\ \A j \in Slots : r.num[j] = IF j = 0 THEN n ELSE -1
    <3>1. i = 0 /\ i \in Slots
      BY <1>0, <1>2
    <3>. QED
      BY <1>a, <2>1, <3>1 DEF Fifos
  <2>4. /\ r.last = Insert(EmptyFifo, n).last
        /\ r.first = Insert(EmptyFifo, n).first
        /\ r.cycled = Insert(EmptyFifo, n).cycled
    BY <1>a, <2>1 DEF Fifos
  <2>. QED
    BY <2>2, <2>3, <2>4
<1>4. LastNum(r) = n
  BY <1>0, <1>3 DEF LastNum
<1>5. IdxForNum(r, n) = 0
  BY <1>0, <1>3, <1>4, IndexOfNewest
<1>. QED
  <2>1. Keeps(r, {n}, n)
    BY <1>0, <1>2, <1>3, <1>4, <1>5 DEF Keeps, None
  <2>2. r = GetToSet(EmptyFifo, n)
    BY <1>b, <1>2
  <2>. QED
    BY <1>0, <1>a, <1>2, <1>4, <2>1, <2>2
-----------------------------------------------------------------------------
(* The receiver and the player on such a buffer.                           *)

\* The buffer and the stored numbers as they are when the number of the slot
\* that the receiver was given is set.
Settled ==
  IF receiver.pc = "number"
  THEN [fifo EXCEPT !.num[receiver.idx] = receiver.num] ELSE fifo
Stored ==
  IF receiver.pc = "number" THEN saved \cup {receiver.num} ELSE saved
Newest == LastNum(Settled)

\* last_byte_num is the newest number, or that of the packet that came just
\* now, for which the marks are still to be moved.
ReceiverInv ==
  /\ first = None =>
       receiver.pc \in {"number", "data", "commit"} /\ Newest = receiver.num
  /\ first # None =>
       /\ receiver.pc \notin {"first", "commit"}
       /\ receiver.pc # "mark" => last = Newest
       /\ receiver.pc = "mark" =>
            \/ last = Newest /\ receiver.num \in (last - Size + 1) .. last
            \/ last = receiver.num /\ Newest < last
  /\ receiver.pc = "number" /\ receiver.num \in saved =>
       fifo.num[receiver.idx] = receiver.num

\* The player goes on from slot to slot and is always where idx_for_num would
\* look, although it computed its slot once only.
PlayerInv(b) ==
  /\ player.pc = "wait" /\ first # None => curr \in saved
  /\ player.pc \in {"test", "begin", "end"} =>
       /\ player.num <= Newest + 1
       /\ ~player.raced /\ player.num >= b =>
            player.idx = IdxForNum(Settled, player.num)

\* Before the first packet is stored.
Fresh ==
  /\ fifo = EmptyFifo /\ saved = {} /\ first = None
  /\ receiver.pc \in {"first", "mark"} /\ player.pc = "wait"

InUse ==
  /\ ReceiverInv
  /\ \E b \in Nat : Keeps(Settled, Stored, b) /\ PlayerInv(b)

SavedInv ==
  /\ saved \subseteq Numbers
  /\ \A i \in Slots : fifo.num[i] \in saved \cup {None}

WindowInv == SavedInv /\ (clashed \/ Fresh \/ InUse)

\* Of the numbers nothing is left but that they are natural numbers.
LEMMA NumbersAreNat == Numbers \subseteq Nat
BY PlaybackAssumption DEF Numbers, PlaybackAssumption

\* What is stored are natural numbers.
LEMMA StoredIsNat ==
  ASSUME PlayInv, SavedInv
  PROVE  Stored \in SUBSET Nat
BY NumbersAreNat DEF PlayInv, LocalsOK, SavedInv, Stored

\* A step that changes neither the buffer nor what is stored.
LEMMA StaysInUse ==
  ASSUME InUse, Settled' = Settled, Stored' = Stored, ReceiverInv',
         \A b \in Nat : PlayerInv(b) => PlayerInv(b)'
  PROVE  InUse'
<1>1. PICK b \in Nat : Keeps(Settled, Stored, b) /\ PlayerInv(b)
  BY DEF InUse
<1>2. Keeps(Settled, Stored, b)'
  BY <1>1
<1>. QED
  BY <1>1, <1>2 DEF InUse

\* A packet came.
LEMMA ArriveWindow ==
  ASSUME PlayInv, InUse, NEW n \in Numbers, Arrive(n), ~clashed'
  PROVE  InUse'
<1>0. Size \in Nat \ {0}
  BY SizeAssumption
<1>1. /\ receiver.pc = "read" /\ first # None /\ n \in Nat /\ curr \in Nat
      /\ receiver.num \in Numbers
  BY NumbersAreNat DEF Arrive, PlayInv, LocalsOK
<1>2. last = Newest
  BY <1>1 DEF InUse, ReceiverInv
<1>3. /\ UNCHANGED <<fifo, first, curr, player, saved>>
      /\ receiver' \in {[receiver EXCEPT !.pc = "mark", !.num = n],
                        [receiver EXCEPT !.pc = "threshold"]}
  BY DEF Arrive
<1>4. receiver'.pc \in {"mark", "threshold"}
  BY <1>3 DEF PlayInv, LocalsOK
<1>5. Settled' = Settled /\ Stored' = Stored /\ Newest' = Newest
  BY <1>1, <1>3, <1>4 DEF Settled, Stored, Newest
<1>6. Newest \in Int
  BY <1>1, NewestIsNumber DEF Newest, Settled, PlayInv, LocalsOK
<1>7. ReceiverInv'
  <2>1. CASE Accepted(n)
    <3>1. /\ last' = Larger(last, n) /\ n # last - Size
          /\ receiver'.pc = "mark" /\ receiver'.num = n
      BY <2>1 DEF Arrive, LastAfter, PlayInv, LocalsOK
    <3>2. n >= last \/ last - n <= Size
      BY <2>1 DEF Accepted
    <3>. QED
      BY <1>0, <1>1, <1>2, <1>3, <1>5, <1>6, <3>1, <3>2 DEF ReceiverInv, Larger
  <2>2. CASE ~Accepted(n)
    <3>1. last' = last /\ receiver'.pc = "threshold"
      BY <2>2 DEF Arrive, PlayInv, LocalsOK
    <3>. QED
      BY <1>1, <1>2, <1>3, <1>5, <3>1 DEF ReceiverInv
  <2>. QED
    BY <2>1, <2>2
<1>8. \A b \in Nat : PlayerInv(b) => PlayerInv(b)'
  BY <1>3, <1>5 DEF PlayerInv
<1>. QED
  BY <1>5, <1>7, <1>8, StaysInUse

\* Moving the marks for the first packet of all.
LEMMA MoveFirstWindow ==
  ASSUME PlayInv, Fresh, MoveMarks
  PROVE  InUse'
<1>0. PICK n \in Nat : n = receiver.num
  BY NumbersAreNat DEF MoveMarks, Fresh, PlayInv, LocalsOK
<1>. DEFINE i == InsertIdx(EmptyFifo, n)  r == GetToSet(EmptyFifo, n)
<1>1. /\ receiver.pc = "mark" /\ fifo' = Insert(EmptyFifo, n)
      /\ first' = None /\ saved' = {} /\ player' = player /\ player.pc = "wait"
  BY <1>0 DEF MoveMarks, Fresh, PlayInv, LocalsOK, marks, log
<1>2. i \in Slots /\ Keeps(r, {n}, n) /\ LastNum(r) = n
  BY <1>1, FirstKeeps
<1>3. i # None
  BY <1>2, SizeAssumption DEF Slots, None
<1>4. receiver'.pc = "number" /\ receiver'.idx = i /\ receiver'.num = n
  BY <1>0, <1>1, <1>3 DEF MoveMarks, Fresh, PlayInv, LocalsOK
<1>5. Settled' = r /\ Stored' = {n} /\ Newest' = n
  BY <1>1, <1>2, <1>3, <1>4 DEF Settled, Stored, Newest, GetToSet, None
<1>6. Keeps(Settled, Stored, n)'
  <2>1. Keeps(Settled', Stored', n)
    BY <1>2, <1>5
  <2>. QED
    BY <2>1
<1>7. ReceiverInv'
  BY <1>1, <1>4, <1>5 DEF ReceiverInv
<1>8. PlayerInv(n)'
  BY <1>1 DEF PlayerInv
<1>. QED
  BY <1>6, <1>7, <1>8 DEF InUse

\* Moving the marks later: the number is refused, late, newer, or too far ahead.
LEMMA MoveWindow ==
  ASSUME PlayInv, SavedInv, InUse, MoveMarks
  PROVE  InUse'
<1>0. Size \in Nat \ {0} /\ -1 \notin Slots
  BY SizeAssumption DEF Slots
<1>. DEFINE n == receiver.num  i == InsertIdx(fifo, n)
            r == GetToSet(fifo, n)
<1>1. /\ receiver.pc = "mark" /\ n \in Nat /\ fifo \in Fifos
      /\ fifo' = Insert(fifo, n) /\ saved' = saved /\ last' = last
      /\ player' = player /\ first' = first /\ curr' = curr
  BY NumbersAreNat DEF MoveMarks, PlayInv, LocalsOK, marks, log
<1>2. /\ first # None /\ Settled = fifo /\ Stored = saved
      /\ saved \in SUBSET Nat
  BY <1>1, NumbersAreNat DEF InUse, ReceiverInv, Settled, Stored, SavedInv
<1>3. PICK b \in Nat : Keeps(fifo, saved, b) /\ PlayerInv(b)
  BY <1>2 DEF InUse
<1>4. \/ last = LastNum(fifo) /\ n \in (last - Size + 1) .. last
      \/ last = n /\ LastNum(fifo) < last
  BY <1>1, <1>2 DEF InUse, ReceiverInv, Newest
<1>5. /\ LastNum(fifo) \in Nat /\ fifo.last \in Slots
      /\ FirstNum(fifo) \in Int /\ FirstNum(fifo) <= LastNum(fifo)
  BY <1>2, <1>3, KeepsMarks DEF Keeps
<1>6. CASE i = None
  <2>1. n <= LastNum(fifo)
    <3>. HIDE DEF n, i, r
    <3>1. CASE n > LastNum(fifo) /\ n < LastNum(fifo) + Size
      <4>1. i \in Slots
        BY <1>1, <1>2, <1>3, <3>1, NewerKeeps DEF i, r
      <4>. QED
        BY <1>0, <1>6, <4>1 DEF None
    <3>2. CASE n >= LastNum(fifo) + Size
      <4>1. i \in Slots
        BY <1>1, <1>2, <1>3, <3>2, FarKeeps DEF i, r
      <4>. QED
        BY <1>0, <1>6, <4>1 DEF None
    <3>. QED
      BY <1>0, <1>1, <1>5, <3>1, <3>2
  <2>2. fifo' = fifo /\ last = LastNum(fifo)
    <3>1. Insert(fifo, n) = fifo
      BY <1>0, <1>1, <1>5, <2>1 DEF Insert
    <3>. QED
      BY <1>1, <1>4, <1>5, <2>1, <3>1
  <2>3. receiver'.pc = "threshold"
    BY <1>2, <1>6 DEF MoveMarks, NextAfterSave, PlayInv, LocalsOK
  <2>4. Settled' = Settled /\ Stored' = Stored /\ Newest' = Newest
    BY <1>1, <1>2, <2>2, <2>3 DEF Settled, Stored, Newest
  <2>5. ReceiverInv'
    BY <1>1, <1>2, <2>2, <2>3, <2>4 DEF ReceiverInv, Newest
  <2>6. \A c \in Nat : PlayerInv(c) => PlayerInv(c)'
    BY <1>1, <2>4 DEF PlayerInv
  <2>. QED
    BY <2>4, <2>5, <2>6, StaysInUse
<1>7. CASE i # None
  <2>1. receiver'.pc = "number" /\ receiver'.idx = i /\ receiver'.num = n
    BY <1>7 DEF MoveMarks, PlayInv, LocalsOK
  <2>2. Settled' = r /\ Stored' = saved \cup {n} /\ Newest' = LastNum(r)
    BY <1>1, <1>7, <2>1 DEF Settled, Stored, Newest, GetToSet, None
  <2>3. fifo'.num = fifo.num
    BY <1>1, InsertMovesMarks
  <2>4. /\ player.pc = "wait" => curr \in saved
        /\ player.pc \in {"test", "begin", "end"} =>
             /\ player.num \in Nat /\ player.idx \in Slots
             /\ player.num <= LastNum(fifo) + 1
             /\ ~player.raced /\ player.num >= b =>
                  player.idx = IdxForNum(fifo, player.num)
    BY <1>2, <1>3 DEF PlayerInv, Newest, PlayInv, LocalsOK
  <2>. HIDE DEF n, i, r
  <2>. SUFFICES ASSUME NEW c \in Nat, Keeps(r, saved \cup {n}, c),
                       LastNum(r) = last, LastNum(fifo) <= last,
                       n \in saved => fifo.num[i] = n,
                       \A m \in Int : m >= c /\ m <= LastNum(fifo) + 1 =>
                         /\ m >= b
                         /\ \/ IdxForNum(r, m) = IdxForNum(fifo, m)
                            \/ Slots = {0} /\ IdxForNum(r, m) \in Slots
                PROVE  InUse'
    <3>1. CASE n <= LastNum(fifo)
      <4>1. n > LastNum(fifo) - Size /\ last = LastNum(fifo)
        BY <1>0, <1>1, <1>4, <1>5, <3>1
      <4>2. /\ Keeps(r, saved \cup {n}, b) /\ LastNum(r) = LastNum(fifo)
            /\ \A m \in Int : IdxForNum(r, m) = IdxForNum(fifo, m)
            /\ n \in saved => fifo.num[i] = n
        BY <1>1, <1>2, <1>3, <1>7, <3>1, <4>1, LateKeeps DEF i, r
      <4>. QED
        BY <1>5, <4>1, <4>2
    <3>2. CASE n > LastNum(fifo) /\ n < LastNum(fifo) + Size
      <4>1. last = n
        BY <1>1, <1>4, <1>5, <3>2
      <4>2. /\ i \in Slots /\ Keeps(r, saved \cup {n}, b) /\ LastNum(r) = n
            /\ \A m \in Int : IdxForNum(r, m) = IdxForNum(fifo, m)
        BY <1>1, <1>2, <1>3, <3>2, NewerKeeps DEF i, r
      <4>3. n \notin saved
        BY <1>1, <1>3, <1>5, <3>2 DEF Keeps
      <4>. QED
        BY <1>1, <1>5, <3>2, <4>1, <4>2, <4>3
    <3>3. CASE n >= LastNum(fifo) + Size
      <4>1. last = n /\ n > LastNum(fifo)
        BY <1>0, <1>1, <1>4, <1>5, <3>3
      <4>2. i \in Slots /\ Keeps(r, saved \cup {n}, n) /\ LastNum(r) = n
        BY <1>1, <1>2, <1>3, <3>3, FarKeeps DEF i, r
      <4>3. n \notin saved
        BY <1>1, <1>3, <1>5, <4>1 DEF Keeps
      <4>4. ASSUME NEW m \in Int, m >= n, m <= LastNum(fifo) + 1
            PROVE  m >= b /\ Slots = {0} /\ IdxForNum(r, m) \in Slots
        <5>1. Slots = {0}
          BY <1>0, <1>1, <1>5, <3>3, <4>4 DEF Slots
        <5>2. r \in Fifos /\ b <= LastNum(fifo)
          BY <1>2, <1>3, <4>2, KeepsMarks DEF Keeps
        <5>. QED
          BY <1>1, <1>3, <1>5, <4>1, <4>4, <5>1, <5>2, IdxIsSlot
      <4>. QED
        BY <1>1, <1>5, <4>1, <4>2, <4>3, <4>4
    <3>. QED
      BY <1>0, <1>1, <1>5, <3>1, <3>2, <3>3
  <2>5. ReceiverInv'
    BY <1>1, <1>2, <2>1, <2>2, <2>3 DEF ReceiverInv
  <2>6. PlayerInv(c)'
    <3>1. player.pc \in {"test", "begin", "end"} =>
            /\ player.num <= LastNum(r) + 1
            /\ ~player.raced /\ player.num >= c =>
                 player.idx = IdxForNum(r, player.num)
      <4>. SUFFICES ASSUME player.pc \in {"test", "begin", "end"}
                    PROVE  /\ player.num <= LastNum(r) + 1
                           /\ ~player.raced /\ player.num >= c =>
                                player.idx = IdxForNum(r, player.num)
        OBVIOUS
      <4>1. player.num \in Int /\ player.num <= LastNum(fifo) + 1 /\ last \in Int
        BY <1>1, <1>4, <1>5, <2>4
      <4>2. player.num <= LastNum(r) + 1
        BY <1>5, <4>1
      <4>3. ASSUME ~player.raced, player.num >= c
            PROVE  player.idx = IdxForNum(r, player.num)
        <5>1. /\ player.num >= b
              /\ \/ IdxForNum(r, player.num) = IdxForNum(fifo, player.num)
                 \/ Slots = {0} /\ IdxForNum(r, player.num) \in Slots
          BY <4>1, <4>3
        <5>2. player.idx \in Slots /\ player.idx = IdxForNum(fifo, player.num)
          BY <2>4, <4>3, <5>1
        <5>. QED
          BY <5>1, <5>2
      <4>. QED
        BY <4>2, <4>3
    <3>. QED
      BY <1>1, <1>2, <2>2, <2>4, <3>1 DEF PlayerInv
  <2>7. Keeps(Settled, Stored, c)'
    <3>1. Keeps(Settled', Stored', c')
      BY <2>2
    <3>. QED
      BY <3>1
  <2>. QED
    BY <2>5, <2>6, <2>7 DEF InUse
<1>. QED
  BY <1>6, <1>7

\* The number is set: the buffer is what it was going to be.
LEMMA SetNumberWindow ==
  ASSUME PlayInv, InUse, SetNumber
  PROVE  InUse'
<1>1. /\ receiver.pc = "number" /\ receiver'.pc = "data"
      /\ receiver'.num = receiver.num
      /\ fifo' = [fifo EXCEPT !.num[receiver.idx] = receiver.num]
      /\ saved' = saved \cup {receiver.num}
      /\ UNCHANGED <<first, last, curr, player>>
  BY DEF SetNumber, marks, PlayInv, LocalsOK
<1>2. Settled' = Settled /\ Stored' = Stored /\ Newest' = Newest
  BY <1>1 DEF Settled, Stored, Newest
<1>3. ReceiverInv'
  BY <1>1, <1>2 DEF InUse, ReceiverInv
<1>4. \A b \in Nat : PlayerInv(b) => PlayerInv(b)'
  BY <1>1, <1>2 DEF PlayerInv
<1>. QED
  BY <1>2, <1>3, <1>4, StaysInUse

\* The receiver goes on after the data are copied, or with the next packet.
LEMMA GoOnWindow ==
  ASSUME PlayInv, InUse, CopyData \/ TestThreshold
  PROVE  InUse'
<1>1. /\ \/ receiver.pc = "data" /\ receiver'.pc = NextAfterSave
         \/ receiver.pc = "threshold" /\ receiver'.pc = "read"
      /\ receiver'.num = receiver.num
      /\ UNCHANGED <<fifo, saved, first, last, curr, player>>
  BY DEF CopyData, TestThreshold, marks, log, PlayInv, LocalsOK
<1>2. /\ NextAfterSave = IF first = None THEN "commit" ELSE "threshold"
      /\ receiver.pc = "threshold" => first # None
  BY DEF NextAfterSave, PlayInv, LocalsOK
<1>3. Settled' = Settled /\ Stored' = Stored /\ Newest' = Newest
  BY <1>1, <1>2 DEF Settled, Stored, Newest
<1>4. ReceiverInv'
  <2>1. first = None => /\ receiver.pc = "data" /\ receiver'.pc = "commit"
                        /\ Newest = receiver.num
    BY <1>1, <1>2 DEF InUse, ReceiverInv
  <2>2. first # None => last = Newest
    BY <1>1 DEF InUse, ReceiverInv
  <2>3. first # None => receiver'.pc \in {"threshold", "read"}
    BY <1>1, <1>2
  <2>. QED
    BY <1>1, <1>3, <2>1, <2>2, <2>3 DEF ReceiverInv
<1>5. \A b \in Nat : PlayerInv(b) => PlayerInv(b)'
  BY <1>1, <1>3 DEF PlayerInv
<1>. QED
  BY <1>3, <1>4, <1>5, StaysInUse

\* The numbers of the session start with the packet that was stored first.
LEMMA CommitWindow ==
  ASSUME PlayInv, InUse, CommitFirst
  PROVE  InUse'
<1>1. /\ receiver.pc = "commit" /\ receiver'.pc = "read"
      /\ receiver.num \in Nat /\ receiver'.num = receiver.num
      /\ first' = receiver.num /\ last' = receiver.num /\ curr' = receiver.num
      /\ UNCHANGED <<fifo, saved, player>>
  BY NumbersAreNat DEF CommitFirst, log, PlayInv, LocalsOK
<1>2. Settled' = Settled /\ Stored' = Stored /\ Newest' = Newest
  BY <1>1 DEF Settled, Stored, Newest
<1>3. Newest = receiver.num /\ first' # None
  BY <1>1 DEF InUse, ReceiverInv, None
<1>4. ReceiverInv'
  BY <1>1, <1>2, <1>3 DEF ReceiverInv
<1>5. receiver.num \in saved
  BY <1>1, <1>3 DEF InUse, Keeps, Settled, Stored, Newest
<1>6. \A b \in Nat : PlayerInv(b) => PlayerInv(b)'
  BY <1>1, <1>2, <1>5 DEF PlayerInv
<1>. QED
  BY <1>2, <1>4, <1>6, StaysInUse

\* The player computes its first slot.
LEMMA StartWindow ==
  ASSUME PlayInv, InUse, StartPlaying
  PROVE  InUse'
<1>1. /\ player.pc = "wait" /\ first # None /\ curr \in Nat
      /\ player' = [pc |-> "test", num |-> curr, idx |-> IdxForNum(fifo, curr),
                    out |-> None, raced |-> receiver.pc = "number"]
      /\ UNCHANGED <<fifo, saved, first, last, curr, receiver>>
  BY DEF StartPlaying, marks, log, PlayInv, LocalsOK
<1>2. /\ player'.pc = "test" /\ player'.num = curr
      /\ player'.idx = IdxForNum(fifo, curr)
      /\ player'.raced = (receiver.pc = "number")
  BY <1>1
<1>3. Settled' = Settled /\ Stored' = Stored /\ Newest' = Newest
  BY <1>1 DEF Settled, Stored, Newest
<1>4. ReceiverInv'
  BY <1>1, <1>3 DEF InUse, ReceiverInv
<1>5. ~player'.raced => Settled = fifo
  BY <1>2 DEF Settled
<1>6. Newest \in Int /\ \A m \in saved : m <= Newest
  <2>1. \A m \in Stored : m <= Newest
    BY DEF InUse, Keeps, Newest
  <2>2. Newest \in Int
    BY NewestIsNumber DEF InUse, Keeps, Newest
  <2>. QED
    BY <2>1, <2>2 DEF Stored
<1>7. ASSUME NEW b \in Nat, PlayerInv(b) PROVE PlayerInv(b)'
  <2>1. curr \in saved
    BY <1>1, <1>7 DEF PlayerInv
  <2>2. curr <= Newest + 1
    BY <1>1, <1>6, <2>1
  <2>. QED
    BY <1>2, <1>3, <1>5, <2>2 DEF PlayerInv
<1>. QED
  BY <1>3, <1>4, <1>7, StaysInUse

\* The player goes one slot on.
LEMMA TakeWindow ==
  ASSUME PlayInv, SavedInv, InUse, TakePacket
  PROVE  InUse'
<1>0. Size \in Nat \ {0}
  BY SizeAssumption
<1>1. /\ player.pc = "test" /\ player'.pc = "begin"
      /\ fifo.num[player.idx] = player.num
      /\ player'.num = player.num + 1 /\ player'.idx = IdxPlus(player.idx)
      /\ player'.raced = player.raced
      /\ UNCHANGED <<fifo, saved, first, last, receiver>>
  BY DEF TakePacket, log, PlayInv, LocalsOK
<1>2. player.num \in Nat /\ player.idx \in Slots
  BY <1>1 DEF PlayInv, LocalsOK
<1>3. Settled' = Settled /\ Stored' = Stored /\ Newest' = Newest
  BY <1>1 DEF Settled, Stored, Newest
<1>4. ReceiverInv'
  BY <1>1, <1>3 DEF InUse, ReceiverInv
<1>5. player.num \in saved /\ player.num \in Stored
  BY <1>1, <1>2 DEF SavedInv, None, Stored
<1>6. PICK b \in Nat : Keeps(Settled, Stored, b) /\ PlayerInv(b)
  BY DEF InUse
<1>7. /\ Settled \in Fifos /\ Settled.last \in Slots
      /\ player.num <= Newest /\ Newest \in Int
      /\ player.num >= b \/ player.num <= b - Size
  BY <1>5, <1>6, NewestIsNumber DEF Keeps, Newest
<1>8. ASSUME ~player.raced, player.num + 1 >= b
      PROVE  IdxPlus(player.idx) = IdxForNum(Settled, player.num + 1)
  <2>1. CASE player.num >= b
    <3>1. player.idx = IdxForNum(Settled, player.num)
      BY <1>1, <1>6, <1>8, <2>1 DEF PlayerInv
    <3>. QED
      BY <1>2, <1>7, <3>1, IndexOfNext
  <2>2. CASE player.num <= b - Size
    <3>1. Slots = {0}
      BY <1>0, <1>2, <1>8, <2>2 DEF Slots
    <3>2. IdxPlus(player.idx) \in Slots
      BY <1>2, IdxPlusIsSlot
    <3>3. IdxForNum(Settled, player.num + 1) \in Slots
      <4>1. player.num + 1 \in Int
        BY <1>2
      <4>. QED
        BY <1>7, <4>1, IdxIsSlot
    <3>. QED
      BY <3>1, <3>2, <3>3
  <2>. QED
    BY <1>7, <2>1, <2>2
<1>9. PlayerInv(b)'
  BY <1>1, <1>2, <1>3, <1>7, <1>8 DEF PlayerInv
<1>10. Keeps(Settled, Stored, b)'
  BY <1>3, <1>6
<1>. QED
  BY <1>4, <1>9, <1>10 DEF InUse

\* Writing out, missing the packet, and what the requester does.
LEMMA OtherWindow ==
  ASSUME PlayInv, InUse,
         WriteOut \/ MissPacket \/ RequesterStep \/ UNCHANGED vars
  PROVE  InUse'
<1>1. UNCHANGED <<fifo, saved, first, last, curr, receiver>>
  BY DEF WriteOut, MissPacket, RequesterStep, BeginRequests, BeginRound,
         ScanSlot, Ask, AlarmRings, vars, marks, log
<1>2. \/ player' = player
      \/ /\ player'.pc = "missing"
      \/ /\ player'.pc \in {"end", "test"} /\ player.pc \in {"begin", "end"}
         /\ player'.num = player.num /\ player'.idx = player.idx
         /\ player'.raced = player.raced
  BY DEF WriteOut, MissPacket, RequesterStep, BeginRequests, BeginRound,
         ScanSlot, Ask, AlarmRings, vars, PlayInv, LocalsOK
<1>3. Settled' = Settled /\ Stored' = Stored /\ Newest' = Newest
  BY <1>1 DEF Settled, Stored, Newest
<1>4. ReceiverInv'
  BY <1>1, <1>3 DEF InUse, ReceiverInv
<1>5. \A b \in Nat : PlayerInv(b) => PlayerInv(b)'
  BY <1>1, <1>2, <1>3 DEF PlayerInv
<1>. QED
  BY <1>3, <1>4, <1>5, StaysInUse

\* What is in the slots was stored, and what was stored is a number.
LEMMA SavedStays ==
  ASSUME PlayInv, SavedInv, [PlaybackNext]_vars
  PROVE  SavedInv'
<1>1. CASE SetNumber
  <2>1. /\ receiver.idx \in Slots /\ receiver.num \in Numbers
        /\ fifo' = [fifo EXCEPT !.num[receiver.idx] = receiver.num]
        /\ saved' = saved \cup {receiver.num} /\ fifo \in Fifos
    BY <1>1 DEF SetNumber, PlayInv, LocalsOK
  <2>2. \A i \in Slots : fifo'.num[i] =
          IF i = receiver.idx THEN receiver.num ELSE fifo.num[i]
    BY <2>1 DEF Fifos
  <2>. QED
    BY <2>1, <2>2 DEF SavedInv
<1>2. CASE MoveMarks
  <2>1. fifo' = Insert(fifo, receiver.num) /\ saved' = saved
    BY <1>2 DEF MoveMarks, log
  <2>2. fifo \in Fifos /\ receiver.num \in Int
    BY <1>2, NumbersAreNat DEF MoveMarks, PlayInv, LocalsOK
  <2>3. fifo'.num = fifo.num
    BY <2>1, <2>2, InsertMovesMarks
  <2>. QED
    BY <2>1, <2>3 DEF SavedInv
<1>3. CASE UNCHANGED <<fifo, saved>>
  BY <1>3 DEF SavedInv
<1>4. SetNumber \/ MoveMarks \/ UNCHANGED <<fifo, saved>>
  BY DEF PlaybackNext, ArriveFirst, Arrive, ReceiverStep, CopyData, CommitFirst,
         TestThreshold, PlayerStep, StartPlaying, TakePacket, MissPacket, WriteOut,
         RequesterStep, BeginRequests, BeginRound, ScanSlot, Ask, AlarmRings,
         vars, log
<1>. QED
  BY <1>1, <1>2, <1>3, <1>4

\* Nothing but the marks changes before the first packet is stored.
LEMMA FreshGoesOn ==
  ASSUME PlayInv, Fresh, [PlaybackNext]_vars
  PROVE  Fresh' \/ InUse'
<1>1. CASE MoveMarks
  BY <1>1, MoveFirstWindow
<1>2. CASE ArriveFirst
  BY <1>2 DEF ArriveFirst, Fresh, PlayInv, LocalsOK, marks
<1>3. CASE RequesterStep \/ UNCHANGED vars
  BY <1>3 DEF RequesterStep, BeginRequests, BeginRound, ScanSlot, Ask, AlarmRings,
              vars, marks, log, Fresh
<1>4. MoveMarks \/ ArriveFirst \/ RequesterStep \/ UNCHANGED vars
  BY DEF PlaybackNext, Arrive, ReceiverStep, SetNumber, CopyData, CommitFirst,
         TestThreshold, PlayerStep, StartPlaying, TakePacket, MissPacket, WriteOut,
         Fresh, PlayInv, LocalsOK
<1>. QED
  BY <1>1, <1>2, <1>3, <1>4

\* Once a packet was stored, every step keeps the window.
LEMMA UseGoesOn ==
  ASSUME PlayInv, SavedInv, InUse, [PlaybackNext]_vars
  PROVE  clashed' \/ InUse'
<1>1. CASE ArriveFirst
  BY <1>1 DEF ArriveFirst, InUse, ReceiverInv
<1>2. ASSUME NEW n \in Numbers, Arrive(n) PROVE clashed' \/ InUse'
  BY <1>2, ArriveWindow
<1>3. CASE ReceiverStep
  BY <1>3, MoveWindow, SetNumberWindow, GoOnWindow, CommitWindow DEF ReceiverStep
<1>4. CASE StartPlaying \/ TakePacket
  BY <1>4, StartWindow, TakeWindow
<1>5. CASE WriteOut \/ MissPacket \/ RequesterStep \/ UNCHANGED vars
  BY <1>5, OtherWindow
<1>. QED
  BY <1>1, <1>2, <1>3, <1>4, <1>5 DEF PlaybackNext, PlayerStep

\* Whether a packet of the forbidden distance came is never forgotten.
LEMMA ClashedStays ==
  ASSUME clashed, [PlaybackNext]_vars
  PROVE  clashed'
BY DEF PlaybackNext, ArriveFirst, Arrive, ReceiverStep, MoveMarks, SetNumber,
       CopyData, CommitFirst, TestThreshold, PlayerStep, StartPlaying, TakePacket,
       MissPacket, WriteOut, RequesterStep, BeginRequests, BeginRound, ScanSlot,
       Ask, AlarmRings, vars, log

\* The window is kept in every order in which packets come.
THEOREM WindowInvIsInvariant == PlaybackSpec => []WindowInv
<1>1. PlaybackInit => WindowInv
  <2>. SUFFICES ASSUME PlaybackInit PROVE WindowInv
    OBVIOUS
  <2>1. \A i \in Slots : fifo.num[i] = None
    BY DEF PlaybackInit, EmptyFifo, None
  <2>. QED
    BY <2>1 DEF PlaybackInit, WindowInv, SavedInv, Fresh
<1>2. PlayInv /\ WindowInv /\ [PlaybackNext]_vars => WindowInv'
  BY SavedStays, FreshGoesOn, UseGoesOn, ClashedStays DEF WindowInv
<1>. QED
  BY <1>1, <1>2, PlayInvIsInvariant, PTL DEF PlaybackSpec

\* The newest packet is the one from which the buffer is counted, however late
\* others come, wherever their slots are, and however often the buffer starts
\* anew.
THEOREM NewestStays == PlaybackSpec => []NewestIsKept
<1>1. PlayInv /\ WindowInv => NewestIsKept
  BY DEF PlayInv, LocalsOK, WindowInv, Fresh, InUse, ReceiverInv, Newest, Settled,
         NewestIsKept
<1>. QED
  BY <1>1, PlayInvIsInvariant, WindowInvIsInvariant, PTL

\* A stored packet is where it is looked for until the newest is a whole buffer
\* ahead, for every size of the buffer.
THEOREM StoredIsHeld == PlaybackSpec => []HoldsSaved
<1>1. PlayInv /\ WindowInv => HoldsSaved
  <2>. SUFFICES ASSUME PlayInv, WindowInv, receiver.pc = "read", ~clashed,
                       NEW n \in saved, n > last - Size
                PROVE  fifo.num[IdxForNum(fifo, n)] = n
    BY DEF HoldsSaved
  <2>1. InUse /\ first # None
    BY DEF PlayInv, LocalsOK, WindowInv, Fresh
  <2>2. Settled = fifo /\ Stored = saved /\ last = LastNum(fifo)
    BY <2>1 DEF InUse, ReceiverInv, Settled, Stored, Newest
  <2>. QED
    BY <2>1, <2>2 DEF InUse, Keeps
<1>. QED
  BY <1>1, PlayInvIsInvariant, WindowInvIsInvariant, PTL

\* The player ends the session for a packet that it really has not, unless it
\* began between the moving of the marks and the setting of the number.
THEOREM MissedIsReal == PlaybackSpec => MissingIsReal
<1>1. PlayInv /\ WindowInv /\ [PlaybackNext]_vars =>
        [~Over /\ Over' => \/ player.raced
                           \/ player.num \notin saved
                           \/ player.num <= last - Size
                           \/ clashed]_vars
  <2>. SUFFICES ASSUME PlayInv, WindowInv, [PlaybackNext]_vars, ~Over, Over',
                       ~player.raced, player.num \in saved, ~clashed
                PROVE  player.num <= last - Size
    OBVIOUS
  <2>0. Size \in Nat \ {0}
    BY SizeAssumption
  <2>1. MissPacket
    <3>1. player' # player
      BY DEF Over
    <3>2. PlayerStep
      BY <3>1 DEF PlaybackNext, ArriveFirst, Arrive, ReceiverStep, MoveMarks,
         SetNumber, CopyData, CommitFirst, TestThreshold, RequesterStep,
         BeginRequests, BeginRound, ScanSlot, Ask, AlarmRings, vars
    <3>3. player'.pc = "missing" /\ player \in [
            pc : {"wait", "test", "begin", "end", "missing"},
            num : Nat \cup {None}, idx : Slots \cup {None},
            out : Slots \cup {None}, raced : BOOLEAN]
      BY DEF Over, PlayInv, LocalsOK
    <3>4. ~StartPlaying
      BY <3>3 DEF StartPlaying
    <3>5. ~TakePacket
      <4>1. TakePacket => player'.pc = "begin"
        BY <3>3 DEF TakePacket
      <4>. QED
        BY <3>3, <4>1
    <3>6. ~WriteOut
      <4>1. WriteOut => player'.pc \in {"end", "test"}
        BY <3>3 DEF WriteOut
      <4>. QED
        BY <3>3, <4>1
    <3>. QED
      BY <3>2, <3>4, <3>5, <3>6 DEF PlayerStep
  <2>2. /\ player.pc = "test" /\ fifo.num[player.idx] # player.num
        /\ player.num \in Nat /\ player.idx \in Slots
    BY <2>1 DEF MissPacket, PlayInv, LocalsOK
  <2>3. InUse
    BY <2>2 DEF WindowInv, Fresh
  <2>4. PICK b \in Nat : Keeps(Settled, Stored, b) /\ PlayerInv(b)
    BY <2>3 DEF InUse
  <2>5. player.num \in Stored
    BY DEF Stored
  <2>6. Newest \in Int /\ last \in Int /\ last >= Newest
    <3>1. Newest \in Int
      BY <2>4, NewestIsNumber DEF Keeps, Newest
    <3>2. first # None
      BY <2>2 DEF PlayInv, LocalsOK
    <3>3. CASE last = Newest
      BY <3>1, <3>3
    <3>4. CASE last # Newest
      <4>1. receiver.pc = "mark" /\ last = receiver.num /\ Newest < last
        BY <2>3, <3>2, <3>4 DEF InUse, ReceiverInv
      <4>2. last \in Nat
        BY <4>1, NumbersAreNat DEF PlayInv, LocalsOK
      <4>. QED
        BY <3>1, <4>1, <4>2
    <3>. QED
      BY <3>3, <3>4
  <2>7. CASE player.num > Newest - Size
    <3>1. player.num >= b /\ Settled.num[IdxForNum(Settled, player.num)] = player.num
      BY <2>4, <2>5, <2>7 DEF Keeps, Newest
    <3>2. player.idx = IdxForNum(Settled, player.num)
      BY <2>2, <2>4, <3>1 DEF PlayerInv
    <3>3. fifo.num[player.idx] = player.num
      <4>1. CASE receiver.pc = "number"
        <5>1. Settled = [fifo EXCEPT !.num[receiver.idx] = receiver.num]
          BY <4>1 DEF Settled
        <5>2. CASE player.idx = receiver.idx
          <6>1. receiver.num = player.num
            BY <2>2, <3>1, <3>2, <5>1, <5>2 DEF PlayInv, LocalsOK, Fifos
          <6>. QED
            BY <2>3, <4>1, <5>2, <6>1 DEF InUse, ReceiverInv
        <5>3. CASE player.idx # receiver.idx
          BY <3>1, <3>2, <5>1, <5>3 DEF PlayInv, LocalsOK, Fifos
        <5>. QED
          BY <5>2, <5>3
      <4>2. CASE receiver.pc # "number"
        BY <3>1, <3>2, <4>2 DEF Settled
      <4>. QED
        BY <4>1, <4>2
    <3>. QED
      BY <2>2, <3>3
  <2>8. CASE player.num <= Newest - Size
    BY <2>0, <2>2, <2>6, <2>8
  <2>. QED
    BY <2>2, <2>0, <2>6, <2>7, <2>8
<1>. QED
  BY <1>1, PlayInvIsInvariant, WindowInvIsInvariant, PTL
     DEF PlaybackSpec, MissingIsReal

-----------------------------------------------------------------------------
(* The scan of the requester.                                              *)

\* Where the threads and the marks can be.
ScanLocals ==
  /\ {first, last} \subseteq Numbers \cup {None}
  /\ first # None => last # None
  /\ {curr, player.num} \subseteq Numbers \cup {None, LastPacket + 1}
  /\ data \in [Slots -> Numbers \cup {None}]
  /\ requester \in [pc : {"wait", "round", "scan", "ask", "nap"}, start : Nat,
                    idx : Slots \cup {None}, last_idx : Slots \cup {None},
                    upto : Numbers \cup {None}, lacking : SUBSET Nat]
  /\ requester.lacking \subseteq 0 .. requester.start
  /\ requester.pc = "scan" =>
       /\ requester.idx \in Slots /\ requester.last_idx \in Slots
       /\ requester.upto \in Numbers

\* A number that the scan passed came, was asked for, or will be asked for.
ScanCovers ==
  /\ saved \subseteq arrived /\ arrived \subseteq Numbers
  /\ receiver.pc # "first" => receiver.num \in arrived
  /\ receiver.pc = "first" => saved = {}
  /\ receiver.pc \in {"first", "commit"} => first = None
  /\ player.pc \in {"test", "begin", "end"} => curr = player.num
  /\ first = None => requester.pc = "wait" /\ requester.start = 0
  /\ requester.pc \in {"wait", "round"} => requester.lacking = {}
  /\ requester.pc = "nap" => requester.lacking \subseteq asked
  /\ NothingIsSkipped

\* How many slots are scanned from slot i to slot j.
Ahead(i, j) == IF j >= i THEN j - i ELSE j - i + Size

\* The scan ends, at the latest, a whole buffer after the last packet.
ScanEnds ==
  /\ first = None => saved \subseteq {receiver.num}
  /\ first # None =>
       /\ receiver.num <= last /\ \A m \in saved : m <= last
       /\ curr <= last + 1 /\ requester.start <= last + Size
  /\ requester.pc = "scan" =>
       /\ first # None /\ requester.upto <= last
       /\ requester.start + Ahead(requester.idx, requester.last_idx)
            <= requester.upto + Size

\* The last packet is a number as soon as there was one.
LEMMA LastIsNumber ==
  ASSUME PlayInv, ScanLocals, first # None
  PROVE  last \in Numbers /\ last \in Nat /\ curr \in Nat
<1>1. last \in Numbers
  BY DEF ScanLocals
<1>. QED
  BY <1>1, NumbersAreNat DEF PlayInv, LocalsOK

\* Where the requester is after one of its steps.
LEMMA RequesterLocals ==
  ASSUME PlayInv, ScanLocals, ScanCovers, RequesterStep
  PROVE  ScanLocals'
<1>0. Size \in Nat \ {0}
  BY SizeAssumption
<1>1. UNCHANGED <<first, last, curr, player, data>>
  BY DEF RequesterStep, BeginRequests, BeginRound, ScanSlot, Ask, AlarmRings, marks
<1>. DEFINE RequesterOK ==
       /\ requester \in [pc : {"wait", "round", "scan", "ask", "nap"}, start : Nat,
                         idx : Slots \cup {None}, last_idx : Slots \cup {None},
                         upto : Numbers \cup {None}, lacking : SUBSET Nat]
       /\ requester.lacking \subseteq 0 .. requester.start
       /\ requester.pc = "scan" =>
            /\ requester.idx \in Slots /\ requester.last_idx \in Slots
            /\ requester.upto \in Numbers
<1>2. RequesterOK
  BY DEF ScanLocals
<1>3. CASE BeginRequests
  <2>1. RequesterOK'
    BY <1>2, <1>3 DEF BeginRequests
  <2>. QED
    BY <1>1, <2>1 DEF ScanLocals
<1>4. CASE BeginRound
  <2>1. first # None
    BY <1>4 DEF BeginRound, ScanCovers
  <2>2. last \in Numbers /\ last \in Nat /\ curr \in Nat
    BY <2>1, LastIsNumber
  <2>3. StartAfter \in Nat
    BY <1>2, <2>2 DEF StartAfter, Larger
  <2>4. IdxForNum(fifo, StartAfter) \in Slots /\ IdxForNum(fifo, last) \in Slots
    BY <2>2, <2>3, IdxIsSlot DEF PlayInv, LocalsOK
  <2>5. requester' = [pc |-> "scan", start |-> StartAfter,
                      idx |-> IdxForNum(fifo, StartAfter),
                      last_idx |-> IdxForNum(fifo, last), upto |-> last,
                      lacking |-> {}]
    BY <1>4 DEF BeginRound
  <2>6. RequesterOK'
    BY <2>2, <2>3, <2>4, <2>5
  <2>. QED
    BY <1>1, <2>6 DEF ScanLocals
<1>5. CASE ScanSlot
  <2>1. CASE requester.idx = requester.last_idx
    <3>1. requester' = [requester EXCEPT !.pc = "ask"]
      BY <1>5, <2>1 DEF ScanSlot
    <3>2. RequesterOK'
      BY <1>2, <3>1
    <3>. QED
      BY <1>1, <3>2 DEF ScanLocals
  <2>2. CASE requester.idx # requester.last_idx
    <3>. DEFINE new == IF IsLacking THEN {requester.start} ELSE {}
    <3>1. requester' = [requester EXCEPT
            !.start = @ + 1, !.idx = IdxPlus(@), !.lacking = @ \cup new]
      BY <1>5, <2>2 DEF ScanSlot
    <3>2. requester.pc = "scan" /\ requester.start \in Nat /\ requester.idx \in Slots
      BY <1>2, <1>5 DEF ScanSlot
    <3>3. new \subseteq {requester.start}
      OBVIOUS
    <3>. HIDE DEF new
    <3>4. IdxPlus(requester.idx) \in Slots
      BY <3>2, IdxPlusIsSlot
    <3>5. /\ requester'.pc = "scan" /\ requester'.start = requester.start + 1
          /\ requester'.idx \in Slots /\ requester'.last_idx = requester.last_idx
          /\ requester'.upto = requester.upto
          /\ requester'.lacking = requester.lacking \cup new
      BY <1>2, <3>1, <3>2, <3>4
    <3>6. requester'.lacking \in SUBSET Nat
          /\ requester'.lacking \subseteq 0 .. requester'.start
      BY <1>2, <3>2, <3>3, <3>5
    <3>7. requester' \in [
            pc : {"wait", "round", "scan", "ask", "nap"}, start : Nat,
            idx : Slots \cup {None}, last_idx : Slots \cup {None},
            upto : Numbers \cup {None}, lacking : SUBSET Nat]
      <4>1. requester.start + 1 \in Nat
        BY <3>2
      <4>2. requester.lacking \cup new \in SUBSET Nat
        BY <3>5, <3>6
      <4>. QED
        BY <1>2, <3>1, <3>2, <3>4, <4>1, <4>2
    <3>8. RequesterOK'
      BY <1>2, <3>2, <3>5, <3>6, <3>7
    <3>. QED
      BY <1>1, <3>8 DEF ScanLocals
  <2>. QED
    BY <2>1, <2>2
<1>6. CASE Ask
  <2>1. RequesterOK'
    BY <1>2, <1>6 DEF Ask
  <2>. QED
    BY <1>1, <2>1 DEF ScanLocals
<1>7. CASE AlarmRings
  <2>1. /\ requester'.pc = "round" /\ requester'.lacking = {}
        /\ requester' = [requester EXCEPT !.pc = "round", !.lacking = {}]
        /\ requester'.start = requester.start
    BY <1>2, <1>7 DEF AlarmRings
  <2>2. {} \in SUBSET Nat /\ {} \subseteq 0 .. requester'.start
    OBVIOUS
  <2>3. requester' \in [
          pc : {"wait", "round", "scan", "ask", "nap"}, start : Nat,
          idx : Slots \cup {None}, last_idx : Slots \cup {None},
          upto : Numbers \cup {None}, lacking : SUBSET Nat]
    BY <1>2, <2>1, <2>2
  <2>4. RequesterOK'
    BY <2>1, <2>2, <2>3
  <2>. QED
    BY <1>1, <2>4 DEF ScanLocals
<1>. QED
  BY <1>3, <1>4, <1>5, <1>6, <1>7 DEF RequesterStep

\* Where the receiver and the player are, and the marks.
LEMMA OtherLocals ==
  ASSUME PlayInv, SavedInv, ScanLocals, PlaybackNext, ~RequesterStep
  PROVE  ScanLocals'
<1>0. LastPacket \in Nat /\ Numbers = 0 .. LastPacket /\ None = -1
  BY PlaybackAssumption DEF PlaybackAssumption, Numbers, None
<1>1. CASE ArriveFirst
  BY <1>1 DEF ArriveFirst, marks, ScanLocals
<1>2. ASSUME NEW n \in Numbers, Arrive(n) PROVE ScanLocals'
  <2>1. last' = last \/ last' = Larger(last, n)
    BY <1>2 DEF Arrive, LastAfter
  <2>2. last' = last \/ last' = n
    BY <2>1 DEF Larger
  <2>3. n # None
    BY <1>0
  <2>. QED
    BY <1>2, <2>2, <2>3 DEF Arrive, ScanLocals
<1>3. CASE MoveMarks \/ SetNumber \/ TestThreshold \/ MissPacket \/ WriteOut
  <2>1. UNCHANGED <<first, last, curr, data, requester>>
    BY <1>3 DEF MoveMarks, SetNumber, TestThreshold, MissPacket, WriteOut, marks
  <2>2. player'.num = player.num
    BY <1>3 DEF MoveMarks, SetNumber, TestThreshold, MissPacket, WriteOut, PlayInv,
                LocalsOK
  <2>. QED
    BY <2>1, <2>2 DEF ScanLocals
<1>4. CASE CopyData
  <2>1. receiver.num \in Numbers
    BY <1>4 DEF CopyData, PlayInv, LocalsOK
  <2>. QED
    BY <1>4, <2>1 DEF CopyData, marks, ScanLocals
<1>5. CASE CommitFirst
  <2>1. receiver.num \in Numbers
    BY <1>5 DEF CommitFirst, PlayInv, LocalsOK
  <2>2. receiver.num # None
    BY <1>0, <2>1
  <2>. QED
    BY <1>5, <2>1, <2>2 DEF CommitFirst, ScanLocals
<1>6. CASE StartPlaying
  <2>1. player'.num = curr /\ UNCHANGED <<first, last, curr, data, requester>>
    BY <1>6 DEF StartPlaying, marks
  <2>. QED
    BY <2>1 DEF ScanLocals
<1>7. CASE TakePacket
  <2>1. /\ player'.num = player.num + 1 /\ curr' = player.num + 1
        /\ UNCHANGED <<first, last, data, requester>>
    BY <1>7 DEF TakePacket, PlayInv, LocalsOK
  <2>2. player.num \in Numbers
    BY <1>7 DEF TakePacket, PlayInv, LocalsOK, SavedInv, None
  <2>3. player.num + 1 \in Numbers \cup {None, LastPacket + 1}
    BY <1>0, <2>2
  <2>. QED
    BY <2>1, <2>3 DEF ScanLocals
<1>. QED
  BY <1>1, <1>2, <1>3, <1>4, <1>5, <1>6, <1>7
     DEF PlaybackNext, ReceiverStep, PlayerStep

\* The requester's steps: a number that is passed is found, or is lacking, and
\* what is lacking is asked for before it is forgotten.
LEMMA RequesterCovers ==
  ASSUME PlayInv, SavedInv, ScanLocals, ScanCovers, RequesterStep
  PROVE  ScanCovers'
<1>1. /\ UNCHANGED <<first, last, curr, player, receiver, saved, arrived>>
      /\ asked' = asked \/ asked' = asked \cup requester.lacking
  BY DEF RequesterStep, BeginRequests, BeginRound, ScanSlot, Ask, AlarmRings,
         marks, log
<1>2. /\ requester.start \in Nat /\ requester.lacking \in SUBSET Nat
      /\ first # None => last \in Nat /\ curr \in Nat
  BY LastIsNumber DEF ScanLocals
<1>3. first # None
  BY DEF RequesterStep, BeginRequests, BeginRound, ScanSlot, Ask, AlarmRings,
         ScanCovers
<1>4. \A n \in curr .. requester.start - 1 :
        n \in arrived \cup asked \cup requester.lacking
  BY <1>3 DEF ScanCovers, NothingIsSkipped
<1>. SUFFICES ASSUME TRUE
              PROVE  /\ requester'.pc \in {"wait", "round"} =>
                          requester'.lacking = {}
                     /\ requester'.pc = "nap" => requester'.lacking \subseteq asked'
                     /\ \A n \in curr .. requester'.start - 1 :
                          n \in arrived \cup asked' \cup requester'.lacking
  BY <1>1, <1>3 DEF ScanCovers, NothingIsSkipped
<1>5. CASE BeginRequests
  <2>1. /\ requester.pc = "wait" /\ requester'.pc = "round" /\ asked' = asked
        /\ requester'.start = requester.start
        /\ requester'.lacking = requester.lacking
    BY <1>5 DEF BeginRequests, log, ScanLocals
  <2>. QED
    BY <1>4, <2>1 DEF ScanCovers
<1>6. CASE BeginRound
  <2>1. /\ requester.pc = "round" /\ requester'.pc = "scan" /\ asked' = asked
        /\ requester'.start = Larger(requester.start, curr)
        /\ requester'.lacking = {} /\ requester.lacking = {}
    BY <1>6 DEF BeginRound, StartAfter, log, ScanCovers
  <2>2. curr \in Nat
    BY <1>2, <1>3
  <2>3. \A n \in curr .. requester'.start - 1 :
          n \in curr .. requester.start - 1
    BY <1>2, <2>1, <2>2 DEF Larger
  <2>. QED
    BY <1>4, <2>1, <2>3
<1>7. CASE ScanSlot
  <2>1. CASE requester.idx = requester.last_idx
    <3>1. /\ requester'.pc = "ask" /\ asked' = asked
          /\ requester'.start = requester.start
          /\ requester'.lacking = requester.lacking
      BY <1>7, <2>1 DEF ScanSlot, log, ScanLocals
    <3>. QED
      BY <1>4, <3>1
  <2>2. CASE requester.idx # requester.last_idx
    <3>1. /\ requester.pc = "scan" /\ requester'.pc = "scan" /\ asked' = asked
          /\ requester'.start = requester.start + 1
          /\ requester'.lacking =
               requester.lacking \cup (IF IsLacking THEN {requester.start} ELSE {})
      BY <1>7, <2>2 DEF ScanSlot, log, ScanLocals
    <3>2. requester.start \in arrived \cup requester'.lacking
      <4>1. CASE IsLacking
        BY <3>1, <4>1
      <4>2. CASE ~IsLacking
        <5>1. fifo.num[requester.idx] = requester.start /\ requester.idx \in Slots
          BY <3>1, <4>2 DEF IsLacking, ScanLocals
        <5>2. requester.start # None
          BY <1>2 DEF None
        <5>. QED
          BY <5>1, <5>2 DEF SavedInv, ScanCovers
      <4>. QED
        BY <4>1, <4>2
    <3>3. ASSUME NEW n \in curr .. requester'.start - 1
          PROVE  n \in curr .. requester.start - 1 \/ n = requester.start
      BY <1>2, <1>3, <3>1
    <3>. QED
      BY <1>4, <3>1, <3>2, <3>3
  <2>. QED
    BY <2>1, <2>2
<1>8. CASE Ask
  <2>1. /\ requester'.pc = "nap" /\ asked' = asked \cup requester.lacking
        /\ requester'.start = requester.start
        /\ requester'.lacking = requester.lacking
    BY <1>8 DEF Ask, ScanLocals
  <2>. QED
    BY <1>4, <2>1
<1>9. CASE AlarmRings
  <2>1. /\ requester.pc = "nap" /\ requester'.pc = "round" /\ asked' = asked
        /\ requester'.start = requester.start /\ requester'.lacking = {}
    BY <1>9 DEF AlarmRings, log, ScanLocals
  <2>2. requester.lacking \subseteq asked
    BY <2>1 DEF ScanCovers
  <2>. QED
    BY <1>4, <2>1, <2>2
<1>. QED
  BY <1>5, <1>6, <1>7, <1>8, <1>9 DEF RequesterStep

\* The other threads: what came is never forgotten, and the player only goes on.
LEMMA OtherCovers ==
  ASSUME PlayInv, SavedInv, ScanLocals, ScanCovers, PlaybackNext, ~RequesterStep
  PROVE  ScanCovers'
<1>1. CASE ArriveFirst
  <2>1. /\ receiver.pc = "first" /\ receiver'.pc = "mark"
        /\ receiver'.num = FirstPacket /\ arrived' = {FirstPacket}
        /\ FirstPacket \in Numbers /\ first' = None /\ first = None
        /\ UNCHANGED <<curr, requester, saved, asked, player>>
    BY <1>1, PlaybackAssumption
       DEF ArriveFirst, marks, ScanCovers, PlayInv, LocalsOK, PlaybackAssumption,
           Numbers
  <2>2. saved = {}
    BY <2>1 DEF ScanCovers
  <2>. QED
    BY <2>1, <2>2 DEF ScanCovers, NothingIsSkipped
<1>2. ASSUME NEW n \in Numbers, Arrive(n) PROVE ScanCovers'
  <2>1. /\ receiver.pc = "read" /\ arrived' = arrived \cup {n}
        /\ UNCHANGED <<first, curr, requester, saved, asked, player>>
        /\ receiver'.pc \in {"mark", "threshold"}
        /\ receiver'.num \in {receiver.num, n}
    BY <1>2 DEF Arrive, PlayInv, LocalsOK
  <2>. QED
    BY <2>1 DEF ScanCovers, NothingIsSkipped
<1>3. CASE MoveMarks \/ CopyData \/ TestThreshold
  <2>1. /\ UNCHANGED <<first, curr, requester, saved, asked, arrived, player>>
        /\ receiver.pc # "first" /\ receiver'.num = receiver.num
        /\ receiver'.pc # "first"
        /\ receiver'.pc = "commit" => first = None
    BY <1>3 DEF MoveMarks, CopyData, TestThreshold, NextAfterSave, marks, log, PlayInv,
                LocalsOK
  <2>. QED
    BY <2>1 DEF ScanCovers, NothingIsSkipped
<1>4. CASE SetNumber
  <2>1. /\ UNCHANGED <<first, curr, requester, asked, arrived, player>>
        /\ receiver.pc = "number" /\ receiver'.num = receiver.num
        /\ receiver'.pc = "data" /\ saved' = saved \cup {receiver.num}
    BY <1>4 DEF SetNumber, marks, PlayInv, LocalsOK
  <2>. QED
    BY <2>1 DEF ScanCovers, NothingIsSkipped
<1>5. CASE CommitFirst
  <2>1. /\ UNCHANGED <<requester, saved, asked, arrived, player>>
        /\ receiver.pc = "commit" /\ receiver'.num = receiver.num
        /\ receiver'.pc = "read" /\ curr' = receiver.num
        /\ receiver.num \in Nat /\ first = None /\ first' # None
    BY <1>5, NumbersAreNat DEF CommitFirst, log, PlayInv, LocalsOK, ScanCovers, None
  <2>2. requester.start = 0
    BY <2>1 DEF ScanCovers
  <2>3. player.pc = "wait" \/ player.pc = "missing"
    BY <2>1 DEF PlayInv, LocalsOK
  <2>. QED
    BY <2>1, <2>2, <2>3 DEF ScanCovers, NothingIsSkipped
<1>6. CASE StartPlaying \/ MissPacket \/ WriteOut
  <2>1. /\ UNCHANGED <<first, curr, requester, saved, asked, arrived, receiver>>
        /\ player'.pc \in {"test", "begin", "end"} => curr = player'.num
    BY <1>6 DEF StartPlaying, MissPacket, WriteOut, marks, log, PlayInv, LocalsOK,
                ScanCovers
  <2>. QED
    BY <2>1 DEF ScanCovers, NothingIsSkipped
<1>7. CASE TakePacket
  <2>1. /\ UNCHANGED <<first, requester, saved, asked, arrived, receiver>>
        /\ player'.num = player.num + 1 /\ curr' = player.num + 1
        /\ player.num = curr /\ player.num \in Nat /\ first # None
    BY <1>7 DEF TakePacket, log, PlayInv, LocalsOK, ScanCovers
  <2>2. requester.start \in Nat
    BY DEF ScanLocals
  <2>3. \A n \in curr' .. requester.start - 1 : n \in curr .. requester.start - 1
    BY <2>1, <2>2
  <2>4. NothingIsSkipped'
    BY <2>1, <2>3 DEF ScanCovers, NothingIsSkipped
  <2>. QED
    BY <2>1, <2>4 DEF ScanCovers
<1>. QED
  BY <1>1, <1>2, <1>3, <1>4, <1>5, <1>6, <1>7
     DEF PlaybackNext, ReceiverStep, PlayerStep

\* From slot i there are at most as many slots to scan as are missing to a
\* whole buffer, when i is that of a number up to a whole buffer after the
\* number of slot j.
LEMMA AheadOfNumber ==
  ASSUME NEW q \in Fifos, NEW m \in Int, NEW n \in Int, n <= m + Size
  PROVE  n + Ahead(IdxForNum(q, n), IdxForNum(q, m)) <= m + Size
<1>0. Size \in Nat \ {0}
  BY SizeAssumption
<1>. DEFINE x == IdxForNum(q, n)  y == IdxForNum(q, m)  e == n - m
            a == q.last + (m - LastNum(q))
<1>1. x \in Slots /\ y \in Slots
  BY IdxIsSlot
<1>2. q.last \in Int /\ LastNum(q) \in Int
  BY <1>0, NewestIsNumber DEF Fifos, Slots
<1>3. a \in Int /\ a + e = q.last + (n - LastNum(q)) /\ e \in Int /\ e <= Size
  BY <1>0, <1>2
<1>4. y = a % Size /\ x = (a + e) % Size
  BY <1>3 DEF IdxForNum
<1>5. n = m + e
  OBVIOUS
<1>. HIDE DEF x, y, e, a
<1>6. x = (y + e) % Size
  BY <1>3, <1>4, RemainderOfSum
<1>7. CASE e <= 0
  <2>1. Ahead(x, y) \in Int /\ Ahead(x, y) <= Size - 1
    BY <1>0, <1>1 DEF Ahead, Slots
  <2>. QED
    BY <1>0, <1>3, <1>5, <1>7, <2>1 DEF x, y
<1>8. CASE e > 0
  <2>1. x = y + e \/ x = y + e - Size
    <3>1. y + e \in Int /\ 0 <= y + e /\ y + e < 2 * Size
      BY <1>0, <1>1, <1>3, <1>8 DEF Slots
    <3>2. CASE y + e < Size
      <4>1. y + e \in Slots
        BY <1>0, <3>1, <3>2 DEF Slots
      <4>. QED
        BY <1>6, <3>1, <4>1, Remainders
    <3>3. CASE y + e >= Size
      <4>1. (y + e) % Size = (y + e) - Size
        BY <1>0, <3>1, <3>3, Remainders
      <4>. QED
        BY <1>0, <1>1, <1>3, <1>6, <4>1 DEF Slots
    <3>. QED
      BY <1>0, <3>1, <3>2, <3>3
  <2>. QED
    BY <1>0, <1>1, <1>3, <1>5, <1>8, <2>1 DEF Ahead, Slots, x, y
<1>. QED
  BY <1>3, <1>7, <1>8

\* One slot less to scan.
LEMMA AheadOfNext ==
  ASSUME NEW i \in Slots, NEW j \in Slots, i # j
  PROVE  Ahead(IdxPlus(i), j) = Ahead(i, j) - 1
BY SizeAssumption DEF Ahead, IdxPlus, Slots

\* The requester never scans further than a whole buffer after the last packet.
LEMMA RequesterEnds ==
  ASSUME PlayInv, ScanLocals, ScanCovers, ScanEnds, RequesterStep
  PROVE  ScanEnds'
<1>0. Size \in Nat \ {0}
  BY SizeAssumption
<1>1. UNCHANGED <<first, last, curr, receiver, saved>>
  BY DEF RequesterStep, BeginRequests, BeginRound, ScanSlot, Ask, AlarmRings,
         marks, log
<1>2. first # None /\ requester.start \in Nat
  BY DEF RequesterStep, BeginRequests, BeginRound, ScanSlot, Ask, AlarmRings,
         ScanCovers, ScanLocals
<1>3. last \in Nat /\ curr \in Nat /\ curr <= last + 1
      /\ requester.start <= last + Size
  BY <1>2, LastIsNumber DEF ScanEnds
<1>. SUFFICES ASSUME TRUE
              PROVE  /\ requester'.start <= last + Size
                     /\ requester'.pc = "scan" =>
                          /\ requester'.upto <= last
                          /\ requester'.start
                               + Ahead(requester'.idx, requester'.last_idx)
                               <= requester'.upto + Size
  BY <1>1, <1>2 DEF ScanEnds
<1>4. CASE BeginRequests \/ Ask \/ AlarmRings
  <2>1. requester'.start = requester.start /\ requester'.pc # "scan"
    BY <1>4 DEF BeginRequests, Ask, AlarmRings, ScanLocals
  <2>. QED
    BY <1>3, <2>1
<1>5. CASE BeginRound
  <2>1. /\ requester'.start = StartAfter /\ requester'.upto = last
        /\ requester'.idx = IdxForNum(fifo, StartAfter)
        /\ requester'.last_idx = IdxForNum(fifo, last)
    BY <1>5 DEF BeginRound
  <2>2. StartAfter \in Int /\ StartAfter <= last + Size
    BY <1>0, <1>2, <1>3 DEF StartAfter, Larger
  <2>3. fifo \in Fifos /\ last \in Int
    BY <1>3 DEF PlayInv, LocalsOK
  <2>. HIDE DEF StartAfter
  <2>4. StartAfter + Ahead(IdxForNum(fifo, StartAfter), IdxForNum(fifo, last))
          <= last + Size
    BY <2>2, <2>3, AheadOfNumber
  <2>. QED
    BY <1>3, <2>1, <2>2, <2>4
<1>6. CASE ScanSlot
  <2>1. /\ requester.pc = "scan" /\ requester.idx \in Slots
        /\ requester.last_idx \in Slots /\ requester.upto \in Nat
        /\ requester.upto <= last
        /\ requester.start + Ahead(requester.idx, requester.last_idx)
             <= requester.upto + Size
    BY <1>6, NumbersAreNat DEF ScanSlot, ScanLocals, ScanEnds
  <2>2. CASE requester.idx = requester.last_idx
    <3>1. requester'.start = requester.start /\ requester'.pc = "ask"
      BY <1>6, <2>2 DEF ScanSlot, ScanLocals
    <3>. QED
      BY <1>3, <3>1
  <2>3. CASE requester.idx # requester.last_idx
    <3>1. /\ requester'.start = requester.start + 1
          /\ requester'.idx = IdxPlus(requester.idx)
          /\ requester'.last_idx = requester.last_idx
          /\ requester'.upto = requester.upto
      BY <1>6, <2>3 DEF ScanSlot, ScanLocals
    <3>2. Ahead(requester'.idx, requester'.last_idx)
            = Ahead(requester.idx, requester.last_idx) - 1
      BY <2>1, <2>3, <3>1, AheadOfNext
    <3>3. /\ Ahead(requester.idx, requester.last_idx) \in Int
          /\ Ahead(requester.idx, requester.last_idx) >= 1
      BY <1>0, <2>1, <2>3 DEF Ahead, Slots
    <3>. QED
      BY <1>0, <1>2, <1>3, <2>1, <3>1, <3>2, <3>3
  <2>. QED
    BY <2>2, <2>3
<1>. QED
  BY <1>4, <1>5, <1>6 DEF RequesterStep

\* last_byte_num never gets smaller, and no number is larger.
LEMMA OtherEnds ==
  ASSUME PlayInv, SavedInv, ScanLocals, ScanCovers, ScanEnds, PlaybackNext,
         ~RequesterStep
  PROVE  ScanEnds'
<1>0. Size \in Nat \ {0}
  BY SizeAssumption
<1>1. CASE ArriveFirst
  <2>1. first = None /\ first' = None /\ saved = {} /\ saved' = saved
        /\ requester' = requester /\ requester.pc = "wait"
    BY <1>1 DEF ArriveFirst, marks, ScanCovers
  <2>. QED
    BY <2>1 DEF ScanEnds
<1>2. ASSUME NEW n \in Numbers, Arrive(n) PROVE ScanEnds'
  <2>1. /\ first # None /\ UNCHANGED <<first, curr, requester, saved>>
        /\ n \in Nat /\ receiver.num \in Nat
        /\ \/ last' = Larger(last, n) /\ receiver'.num = n
           \/ last' = last /\ receiver'.num = receiver.num
    BY <1>2, NumbersAreNat DEF Arrive, LastAfter, PlayInv, LocalsOK
  <2>2. last \in Nat /\ curr \in Nat
    BY <2>1, LastIsNumber
  <2>3. last' \in Nat /\ last' >= last /\ receiver'.num <= last'
    BY <2>1, <2>2 DEF Larger, ScanEnds
  <2>4. saved \subseteq Nat /\ requester.start \in Nat
    BY NumbersAreNat DEF SavedInv, ScanLocals
  <2>5. requester.pc = "scan" => requester.upto \in Nat
    BY NumbersAreNat DEF ScanLocals
  <2>6. \A m \in saved : m <= last'
    BY <2>1, <2>2, <2>3, <2>4 DEF ScanEnds
  <2>7. curr' <= last' + 1 /\ requester'.start <= last' + Size
    <3>1. curr <= last + 1 /\ requester.start <= last + Size
      BY <2>1 DEF ScanEnds
    <3>2. curr' = curr /\ requester' = requester
      BY <2>1
    <3>3. \A a, b, c, d \in Nat : d >= c /\ a <= c + 1 /\ b <= c + Size =>
                                   a <= d + 1 /\ b <= d + Size
      BY <1>0
    <3>4. curr <= last' + 1 /\ requester.start <= last' + Size
      BY <2>2, <2>3, <2>4, <3>1, <3>3, Zenon
    <3>. QED
      BY <3>2, <3>4
  <2>8. requester.pc = "scan" => requester.upto <= last'
    BY <2>1, <2>2, <2>3, <2>5 DEF ScanEnds
  <2>. QED
    BY <2>1, <2>3, <2>6, <2>7, <2>8 DEF ScanEnds
<1>3. CASE MoveMarks \/ CopyData \/ TestThreshold
  <2>1. /\ UNCHANGED <<first, last, curr, requester, saved>>
        /\ receiver'.num = receiver.num
    BY <1>3 DEF MoveMarks, CopyData, TestThreshold, marks, log, PlayInv, LocalsOK
  <2>. QED
    BY <2>1 DEF ScanEnds
<1>4. CASE SetNumber
  <2>1. /\ UNCHANGED <<first, last, curr, requester>>
        /\ receiver'.num = receiver.num /\ saved' = saved \cup {receiver.num}
    BY <1>4 DEF SetNumber, marks, PlayInv, LocalsOK
  <2>. QED
    BY <2>1 DEF ScanEnds
<1>5. CASE CommitFirst
  <2>1. /\ UNCHANGED <<requester, saved>> /\ first = None /\ first' # None
        /\ receiver'.num = receiver.num /\ last' = receiver.num
        /\ curr' = receiver.num /\ receiver.num \in Nat
    BY <1>5, NumbersAreNat DEF CommitFirst, log, PlayInv, LocalsOK, ScanCovers, None
  <2>2. /\ saved \subseteq {receiver.num} /\ requester.start = 0
        /\ requester.pc = "wait"
    BY <2>1 DEF ScanEnds, ScanCovers
  <2>. QED
    BY <1>0, <2>1, <2>2 DEF ScanEnds
<1>6. CASE StartPlaying \/ MissPacket \/ WriteOut
  <2>1. UNCHANGED <<first, last, curr, requester, saved, receiver>>
    BY <1>6 DEF StartPlaying, MissPacket, WriteOut, marks, log
  <2>. QED
    BY <2>1 DEF ScanEnds
<1>7. CASE TakePacket
  <2>1. /\ UNCHANGED <<first, last, requester, saved, receiver>>
        /\ curr' = player.num + 1 /\ first # None /\ player.num \in Nat
    BY <1>7 DEF TakePacket, log, PlayInv, LocalsOK
  <2>2. player.num \in saved
    BY <1>7 DEF TakePacket, PlayInv, LocalsOK, SavedInv, None
  <2>3. player.num <= last /\ last \in Nat
    BY <2>1, <2>2, LastIsNumber DEF ScanEnds
  <2>4. curr' <= last + 1
    BY <2>1, <2>3
  <2>. QED
    BY <2>1, <2>4 DEF ScanEnds
<1>. QED
  BY <1>1, <1>2, <1>3, <1>4, <1>5, <1>6, <1>7
     DEF PlaybackNext, ReceiverStep, PlayerStep

ScanInv == SavedInv /\ ScanLocals /\ ScanCovers /\ ScanEnds

\* The scan is sound, whatever happens to the slots meanwhile.
THEOREM ScanInvIsInvariant == PlaybackSpec => []ScanInv
<1>1. PlaybackInit => ScanInv
  <2>. SUFFICES ASSUME PlaybackInit PROVE ScanInv
    OBVIOUS
  <2>1. \A i \in Slots : fifo.num[i] = None
    BY DEF PlaybackInit, EmptyFifo, None
  <2>2. SavedInv
    BY <2>1 DEF PlaybackInit, SavedInv
  <2>3. ScanLocals
    BY DEF PlaybackInit, ScanLocals
  <2>4. ScanCovers
    BY DEF PlaybackInit, ScanCovers, NothingIsSkipped
  <2>5. ScanEnds
    BY DEF PlaybackInit, ScanEnds
  <2>. QED
    BY <2>2, <2>3, <2>4, <2>5 DEF ScanInv
<1>2. PlayInv /\ ScanInv /\ [PlaybackNext]_vars => ScanInv'
  <2>. SUFFICES ASSUME PlayInv, ScanInv, [PlaybackNext]_vars PROVE ScanInv'
    OBVIOUS
  <2>. USE DEF ScanInv
  <2>1. CASE RequesterStep
    BY <2>1, SavedStays, RequesterLocals, RequesterCovers, RequesterEnds
  <2>2. CASE PlaybackNext /\ ~RequesterStep
    BY <2>2, SavedStays, OtherLocals, OtherCovers, OtherEnds
  <2>3. CASE UNCHANGED vars
    BY <2>3 DEF vars, marks, log, SavedInv, ScanLocals, ScanCovers, NothingIsSkipped,
                ScanEnds
  <2>. QED
    BY <2>1, <2>2, <2>3
<1>. QED
  BY <1>1, <1>2, PlayInvIsInvariant, PTL DEF PlaybackSpec

\* No packet between the one that is played and the place of the scan is left
\* behind unless it came or was asked for.
THEOREM NoneIsSkipped == PlaybackSpec => []NothingIsSkipped
<1>1. ScanInv => NothingIsSkipped
  BY DEF ScanInv, ScanCovers
<1>. QED
  BY <1>1, ScanInvIsInvariant, PTL

\* The state of a session keeps its shape, and the scan ends.
THEOREM PlaybackIsTyped == PlaybackSpec => []PlaybackTypeOK
<1>1. PlayInv /\ ScanInv => PlaybackTypeOK
  <2>. SUFFICES ASSUME PlayInv, ScanInv PROVE PlaybackTypeOK
    OBVIOUS
  <2>0. Size \in Nat \ {0} /\ Numbers = 0 .. LastPacket /\ LastPacket \in Nat
    BY SizeAssumption, PlaybackAssumption DEF PlaybackAssumption, Numbers
  <2>1. player \in [pc : {"wait", "test", "begin", "end", "missing"},
                    num : Numbers \cup {None, LastPacket + 1},
                    idx : Slots \cup {None}, out : Slots \cup {None},
                    raced : BOOLEAN]
    BY DEF PlayInv, LocalsOK, ScanInv, ScanLocals
  <2>2. requester.start <= LastPacket + Size
    <3>1. CASE first = None
      BY <2>0, <3>1 DEF ScanInv, ScanCovers
    <3>2. CASE first # None
      <4>1. last \in Numbers /\ requester.start <= last + Size
        BY <3>2, LastIsNumber DEF ScanInv, ScanEnds
      <4>2. requester.start \in Nat
        BY DEF ScanInv, ScanLocals
      <4>. QED
        BY <2>0, <4>1, <4>2
    <3>. QED
      BY <3>1, <3>2
  <2>3. audio_playing \in BOOLEAN
    BY DEF PlayInv, LocalsOK
  <2>. QED
    BY <2>1, <2>2, <2>3
       DEF PlaybackTypeOK, PlayInv, LocalsOK, ScanInv, ScanLocals, ScanCovers
<1>. QED
  BY <1>1, PlayInvIsInvariant, ScanInvIsInvariant, PTL
=============================================================================
