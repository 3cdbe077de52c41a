----------------------------- MODULE FifoProofs -----------------------------
(***************************************************************************)
(* Facts about the ring buffer of both programs, for every size of it.     *)
(*                                                                         *)
(* When the numbers come in order, as in the sender, RingAfter says where  *)
(* each of them is: counted backwards from the slot last, the slots hold   *)
(* k - 1, k - 2, ...; first is the slot after last as soon as the ring is  *)
(* full.  Of was_cycled only one half is needed: it is not set too early.  *)
(* (That it may be set late, or never, is harmless: the other branch of    *)
(* insert_later_than_last then computes the same slot.)                    *)
(***************************************************************************)
EXTENDS Fifo, TLAPS

\* Every index that is computed is that of a slot.
LEMMA IdxIsSlot ==
  ASSUME NEW q \in Fifos, NEW n \in Int
  PROVE  IdxForNum(q, n) \in Slots
<1>1. q.last \in Int /\ LastNum(q) \in Int
  BY SizeAssumption DEF Fifos, LastNum, Slots, SizeAssumption
<1>. QED
  BY <1>1, SizeAssumption DEF IdxForNum, Slots, SizeAssumption

\* One step on in the ring.
LEMMA IdxPlusIsSlot ==
  ASSUME NEW i \in Slots PROVE IdxPlus(i) \in Slots
BY SizeAssumption DEF IdxPlus, Slots, SizeAssumption

\* Moving the marks leaves the numbers of the slots alone, and the slot that is
\* given is one of the buffer.
LEMMA InsertMovesMarks ==
  ASSUME NEW q \in Fifos, NEW n \in Int
  PROVE  /\ Insert(q, n) \in Fifos
         /\ Insert(q, n).num = q.num
         /\ InsertIdx(q, n) \in Slots \cup {-1}
<1>1. 0 \in Slots
  BY SizeAssumption DEF Slots, SizeAssumption
<1>2. FirstNum(q) \in Int
  BY DEF FirstNum, Fifos
<1>3. \A m \in Int : /\ IdxForNum(q, m) \in Slots
                     /\ IdxPlus(IdxForNum(q, m)) \in Slots
  BY IdxIsSlot, IdxPlusIsSlot
<1>4. Larger(FirstNum(q), n - Size + 1) \in Int
  BY <1>2, SizeAssumption DEF Larger, SizeAssumption
<1>5. FirstAfter(q, n) \in Slots
  BY <1>3, <1>4 DEF FirstAfter
<1>6. /\ InsertLater(q, n) \in Fifos /\ InsertLater(q, n).num = q.num
      /\ InsertLater(q, n).last \in Slots
  BY <1>1, <1>3, <1>5 DEF InsertLater, Fifos
<1>7. Insert(q, n) \in Fifos /\ Insert(q, n).num = q.num
  BY <1>1, <1>6 DEF Insert, Fifos
<1>8. Insert(q, n).last \in Slots \cup {-1}
  BY <1>7 DEF Fifos
<1>. QED
  BY <1>1, <1>3, <1>7, <1>8 DEF InsertIdx

-----------------------------------------------------------------------------
(* Numbers in order.                                                       *)

\* The slot d places behind the last one.
Behind(q, d) == IF d <= q.last THEN q.last - d ELSE q.last - d + Size

\* How many places slot i is behind the last one.
Age(q, i) == IF i <= q.last THEN q.last - i ELSE q.last - i + Size

\* The ring after k consecutive numbers, 0 to k - 1, where k > 0.
RingAfter(q, k) ==
  /\ q \in Fifos
  /\ q.last \in Slots
  /\ \A i \in Slots :
       q.num[i] = IF Age(q, i) < k THEN k - 1 - Age(q, i) ELSE -1
  /\ q.first = IF k < Size THEN 0 ELSE IdxPlus(q.last)
  /\ k < Size => q.last = k - 1
  /\ q.cycled => k >= Size

\* The remainders that occur: an index within the ring, one turn ahead of it
\* and one turn behind it.
LEMMA Remainders ==
  ASSUME NEW a \in Int
  PROVE  /\ a % Size \in Slots
         /\ a \in Slots => a % Size = a
         /\ Size <= a /\ a < 2 * Size => a % Size = a - Size
         /\ 0 - Size <= a /\ a < 0 => a % Size = a + Size
BY SizeAssumption, SMTT(30) DEF Slots

\* The marks of a ring that is in use: what its oldest and newest number are.
LEMMA RingNumbers ==
  ASSUME NEW q, NEW k \in Nat \ {0}, RingAfter(q, k)
  PROVE  /\ q \in Fifos /\ q.last \in Slots /\ q.first \in Slots
         /\ LastNum(q) = k - 1
         /\ FirstNum(q) = Larger(0, k - Size)
<1>0. Size \in Nat \ {0}
  BY SizeAssumption
<1>1. /\ q \in Fifos /\ q.last \in Slots
      /\ \A i \in Slots :
           q.num[i] = IF Age(q, i) < k THEN k - 1 - Age(q, i) ELSE -1
      /\ q.first = IF k < Size THEN 0 ELSE IdxPlus(q.last)
      /\ k < Size => q.last = k - 1
  BY DEF RingAfter
<1>2. q.first \in Slots
  BY <1>0, <1>1 DEF Slots, IdxPlus
<1>3. Age(q, q.last) = 0
  BY <1>1 DEF Age, Slots
<1>4. LastNum(q) = k - 1
  BY <1>0, <1>1, <1>3 DEF LastNum, Slots
<1>5. Age(q, q.first) = IF k < Size THEN k - 1 ELSE Size - 1
  BY <1>0, <1>1 DEF Age, Slots, IdxPlus
<1>6. q.num[q.first] = IF k < Size THEN 0 ELSE k - Size
  BY <1>0, <1>1, <1>2, <1>5
<1>7. FirstNum(q) = Larger(0, k - Size)
  BY <1>0, <1>2, <1>6 DEF FirstNum, Larger, Slots
<1> QED
  BY <1>1, <1>2, <1>4, <1>7

\* In the window idx_for_num finds the slot of a number.
LEMMA RingIndex ==
  ASSUME NEW q, NEW k \in Nat \ {0}, RingAfter(q, k),
         NEW n \in 0 .. k - 1, n >= k - Size
  PROVE  /\ IdxForNum(q, n) \in Slots
         /\ q.num[IdxForNum(q, n)] = n
<1>0. Size \in Nat \ {0}
  BY SizeAssumption
<1>1. q.last \in Slots /\ LastNum(q) = k - 1
  BY RingNumbers
<1>2. \A i \in Slots :
        q.num[i] = IF Age(q, i) < k THEN k - 1 - Age(q, i) ELSE -1
  BY DEF RingAfter
<1> DEFINE d == k - 1 - n
<1>3. d \in 0 .. Size - 1
  BY <1>0
<1>4. IdxForNum(q, n) = (q.last - d) % Size
  <2>1. q.last + (n - (k - 1)) = q.last - d
    BY <1>0, <1>1 DEF Slots
  <2> QED
    BY <1>1, <2>1 DEF IdxForNum
<1>5. IdxForNum(q, n) = Behind(q, d)
  <2>1. q.last - d \in Int /\ d \in Int /\ q.last \in Int
    BY <1>0, <1>1, <1>3 DEF Slots
  <2>2. CASE d <= q.last
    <3>1. q.last - d \in Slots
      BY <1>0, <1>1, <1>3, <2>2 DEF Slots
    <3>2. (q.last - d) % Size = q.last - d
      BY <2>1, <3>1, Remainders
    <3> QED
      BY <1>4, <2>2, <3>2 DEF Behind
  <2>3. CASE ~(d <= q.last)
    <3>1. 0 - Size <= q.last - d /\ q.last - d < 0
      BY <1>0, <1>1, <1>3, <2>3 DEF Slots
    <3>2. (q.last - d) % Size = q.last - d + Size
      BY <2>1, <3>1, Remainders
    <3> QED
      BY <1>4, <2>3, <3>2 DEF Behind
  <2> QED
    BY <2>2, <2>3
<1>6. Behind(q, d) \in Slots /\ Age(q, Behind(q, d)) = d
  BY <1>0, <1>1, <1>3 DEF Behind, Age, Slots
<1> QED
  BY <1>0, <1>2, <1>3, <1>5, <1>6

-----------------------------------------------------------------------------
\* The first number goes to slot 0 of an empty ring.
LEMMA FirstPut ==
  ASSUME NEW q, q = GetToSet(EmptyFifo, 0)
  PROVE  RingAfter(q, 1)
<1>0. Size \in Nat \ {0}
  BY SizeAssumption
<1>1. InsertIdx(EmptyFifo, 0) = 0
  BY DEF InsertIdx, EmptyFifo
<1>2. Insert(EmptyFifo, 0) = [num |-> [i \in Slots |-> -1], first |-> 0,
                              last |-> 0, cycled |-> FALSE]
  BY DEF Insert, EmptyFifo
<1>3. q = [Insert(EmptyFifo, 0) EXCEPT !.num[0] = 0]
  BY <1>1 DEF GetToSet
<1>4. q = [num |-> [[i \in Slots |-> -1] EXCEPT ![0] = 0], first |-> 0,
           last |-> 0, cycled |-> FALSE]
  BY <1>2, <1>3
<1>5. q.num = [i \in Slots |-> IF i = 0 THEN 0 ELSE -1]
  BY <1>0, <1>4 DEF Slots
<1>6. q.first = 0 /\ q.last = 0 /\ q.cycled = FALSE
  BY <1>4
<1>7. q = [num |-> q.num, first |-> q.first, last |-> q.last,
           cycled |-> q.cycled]
  BY <1>4
<1>8. q \in Fifos /\ q.last \in Slots
  <2>1. q.num \in [Slots -> Int]
    BY <1>5
  <2>2. 0 \in Slots
    BY <1>0 DEF Slots
  <2> QED
    BY <1>6, <1>7, <2>1, <2>2 DEF Fifos
<1>9. ASSUME NEW i \in Slots
      PROVE  q.num[i] = IF Age(q, i) < 1 THEN 1 - 1 - Age(q, i) ELSE -1
  <2>1. Age(q, i) = IF i = 0 THEN 0 ELSE Size - i
    BY <1>0, <1>6 DEF Age, Slots
  <2> QED
    BY <1>0, <1>5, <2>1 DEF Slots
<1>10. q.first = IF 1 < Size THEN 0 ELSE IdxPlus(q.last)
  BY <1>0, <1>6 DEF IdxPlus
<1>11. (1 < Size => q.last = 1 - 1) /\ (q.cycled => 1 >= Size)
  BY <1>6
<1> QED
  BY <1>8, <1>9, <1>10, <1>11 DEF RingAfter

\* The next number goes to the slot after the last one, which was free or
\* held the oldest number, and the marks move with it.
LEMMA NextSlot ==
  ASSUME NEW q, NEW k \in Nat \ {0}, RingAfter(q, k)
  PROVE  /\ InsertIdx(q, k) = IdxPlus(q.last)
         /\ Insert(q, k).num = q.num
         /\ Insert(q, k).last = IdxPlus(q.last)
         /\ Insert(q, k).first = IF k + 1 < Size THEN 0
                                 ELSE IdxPlus(IdxPlus(q.last))
         /\ Insert(q, k).cycled \in BOOLEAN
         /\ Insert(q, k).cycled => k + 1 >= Size
         /\ DOMAIN Insert(q, k) = DOMAIN q
<1>0. Size \in Nat \ {0}
  BY SizeAssumption
<1>1. /\ q \in Fifos /\ q.last \in Slots /\ q.first \in Slots
      /\ LastNum(q) = k - 1 /\ FirstNum(q) = Larger(0, k - Size)
  BY RingNumbers
<1>2. /\ q.first = IF k < Size THEN 0 ELSE IdxPlus(q.last)
      /\ k < Size => q.last = k - 1
      /\ q.cycled => k >= Size
  BY DEF RingAfter
<1>3. q = [num |-> q.num, first |-> q.first, last |-> q.last,
           cycled |-> q.cycled] /\ q.cycled \in BOOLEAN
  BY <1>1 DEF Fifos
<1>4. Insert(q, k) = InsertLater(q, k)
  BY <1>0, <1>1 DEF Insert, Larger, Slots
<1>5. InsertIdx(q, k) = InsertLater(q, k).last
  BY <1>0, <1>1, <1>4 DEF InsertIdx, Larger, Slots
<1>6. CASE Size = 1
  <2>1. FarAhead(q, k)
    BY <1>1, <1>6 DEF FarAhead
  <2>2. InsertLater(q, k) = [q EXCEPT !.first = 0, !.last = 0,
                                      !.cycled = FALSE]
    BY <2>1 DEF InsertLater
  <2>3. q.last = 0 /\ IdxPlus(q.last) = 0
    BY <1>1, <1>6 DEF Slots, IdxPlus
  <2> QED
    BY <1>3, <1>4, <1>5, <1>6, <2>2, <2>3
<1>7. CASE Size > 1
  <2>1. ~FarAhead(q, k)
    BY <1>0, <1>1, <1>7 DEF FarAhead
  <2>2. IdxForNum(q, k) = IdxPlus(q.last)
    <3>1. q.last + (k - (k - 1)) = q.last + 1
      BY <1>1 DEF Slots
    <3>2. IdxForNum(q, k) = (q.last + 1) % Size
      BY <1>1, <3>1 DEF IdxForNum
    <3> QED
      BY <1>0, <1>1, <3>2, Remainders, SMTT(30) DEF IdxPlus, Slots
  <2>3. FirstAfter(q, k) = IF k + 1 < Size THEN 0
                           ELSE IdxPlus(IdxPlus(q.last))
    <3>1. CASE q.cycled
      BY <1>0, <1>2, <2>2, <3>1 DEF FirstAfter
    <3>2. CASE ~q.cycled /\ k + 1 < Size
      <4>1. Larger(FirstNum(q), k - Size + 1) = 0
        BY <1>0, <1>1, <3>2 DEF Larger
      <4>2. IdxForNum(q, 0) = 0 % Size
        <5>1. q.last + (0 - (k - 1)) = 0
          BY <1>0, <1>2, <3>2
        <5> QED
          BY <1>1, <5>1 DEF IdxForNum
      <4> QED
        BY <1>0, <3>2, <4>1, <4>2, Remainders DEF FirstAfter, Slots
    <3>3. CASE ~q.cycled /\ k + 1 >= Size
      <4>1. Larger(FirstNum(q), k - Size + 1) = k - Size + 1
        BY <1>0, <1>1, <3>3 DEF Larger
      <4>2. IdxForNum(q, k - Size + 1) = (q.last + 2 - Size) % Size
        <5>1. q.last + ((k - Size + 1) - (k - 1)) = q.last + 2 - Size
          BY <1>0, <1>1 DEF Slots
        <5> QED
          BY <1>1, <5>1 DEF IdxForNum
      <4>3. (q.last + 2 - Size) % Size = IdxPlus(IdxPlus(q.last))
        BY <1>0, <1>1, <1>7, Remainders, SMTT(30) DEF IdxPlus, Slots
      <4>4. FirstAfter(q, k) = IdxForNum(q, k - Size + 1)
        BY <3>3, <4>1 DEF FirstAfter
      <4>5. ~(k + 1 < Size)
        BY <1>0, <3>3
      <4> QED
        BY <4>2, <4>3, <4>4, <4>5
    <3>4. k + 1 < Size \/ k + 1 >= Size
      BY <1>0
    <3> QED
      BY <3>1, <3>2, <3>3, <3>4, Zenon
  <2>4. InsertLater(q, k) =
          [q EXCEPT !.first = FirstAfter(q, k), !.last = IdxForNum(q, k),
                    !.cycled = q.cycled \/ q.first > FirstAfter(q, k)]
    BY <2>1 DEF InsertLater
  <2>5. q.cycled \/ q.first > FirstAfter(q, k) => k + 1 >= Size
    BY <1>0, <1>1, <1>2, <2>3 DEF Slots
  <2> QED
    BY <1>3, <1>4, <1>5, <2>2, <2>3, <2>4, <2>5
<1> QED
  BY <1>0, <1>6, <1>7

\* A ring that takes the next number is the ring of one number more.
LEMMA NextPut ==
  ASSUME NEW q, NEW k \in Nat \ {0}, RingAfter(q, k),
         NEW r, r = GetToSet(q, k)
  PROVE  RingAfter(r, k + 1)
<1>0. Size \in Nat \ {0}
  BY SizeAssumption
<1> DEFINE s == IdxPlus(q.last)
<1>1. q \in Fifos /\ q.last \in Slots
  BY RingNumbers
<1>2. /\ \A i \in Slots :
           q.num[i] = IF Age(q, i) < k THEN k - 1 - Age(q, i) ELSE -1
      /\ k < Size => q.last = k - 1
  BY DEF RingAfter
<1>3. s \in Slots /\ IdxPlus(s) \in Slots
  BY <1>0, <1>1 DEF IdxPlus, Slots
<1>4. InsertIdx(q, k) = s
  BY NextSlot
<1>5. InsertIdx(q, k) # -1
  BY <1>3, <1>4 DEF Slots
<1>6. r = [Insert(q, k) EXCEPT !.num[s] = k]
  BY <1>4, <1>5 DEF GetToSet
<1>7. /\ Insert(q, k).num = q.num /\ Insert(q, k).last = s
      /\ Insert(q, k).first = IF k + 1 < Size THEN 0 ELSE IdxPlus(s)
      /\ Insert(q, k).cycled \in BOOLEAN
      /\ Insert(q, k).cycled => k + 1 >= Size
  BY NextSlot
<1>8. Insert(q, k) = [num |-> q.num, first |-> Insert(q, k).first,
                      last |-> s, cycled |-> Insert(q, k).cycled]
  <2>1. q = [num |-> q.num, first |-> q.first, last |-> q.last,
             cycled |-> q.cycled]
    BY <1>1 DEF Fifos
  <2>2. Insert(q, k) = [q EXCEPT !.first = Insert(q, k).first,
                                 !.last = Insert(q, k).last,
                                 !.cycled = Insert(q, k).cycled]
    BY <2>1 DEF Insert, InsertLater
  <2> QED
    BY <1>7, <2>1, <2>2
<1>9. r = [num |-> [q.num EXCEPT ![s] = k], first |-> Insert(q, k).first,
           last |-> s, cycled |-> Insert(q, k).cycled]
  BY <1>6, <1>8
<1>10. /\ r.num = [q.num EXCEPT ![s] = k] /\ r.last = s
       /\ r.first = IF k + 1 < Size THEN 0 ELSE IdxPlus(s)
       /\ r.cycled = Insert(q, k).cycled
  BY <1>7, <1>9
<1>11. r \in Fifos /\ r.last \in Slots
  <2>1. r.num \in [Slots -> Int]
    <3>1. q.num \in [Slots -> Int]
      BY <1>1 DEF Fifos
    <3>2. k \in Int
      OBVIOUS
    <3>3. [q.num EXCEPT ![s] = k] \in [Slots -> Int]
      BY <3>1, <3>2, Zenon
    <3> QED
      BY <1>10, <3>3
  <2>2. r.first \in {-1} \cup Slots
    BY <1>0, <1>3, <1>10 DEF Slots
  <2>3. r = [num |-> r.num, first |-> r.first, last |-> r.last,
             cycled |-> r.cycled]
    BY <1>9
  <2>4. r.cycled \in BOOLEAN
    BY <1>7, <1>10
  <2> QED
    BY <1>3, <1>10, <2>1, <2>2, <2>3, <2>4 DEF Fifos
<1>12. ASSUME NEW i \in Slots
       PROVE  r.num[i] = IF Age(r, i) < k + 1 THEN (k + 1) - 1 - Age(r, i)
                         ELSE -1
  <2>1. q.num \in [Slots -> Int]
    BY <1>1 DEF Fifos
  <2>2. CASE i = s
    <3>1. r.num[i] = k
      BY <1>10, <2>1, <2>2
    <3>2. Age(r, i) = 0
      BY <1>3, <1>10, <2>2 DEF Age, Slots
    <3> QED
      BY <3>1, <3>2
  <2>3. CASE i # s
    <3>1. r.num[i] = q.num[i]
      BY <1>10, <2>1, <2>3
    <3>2. Age(r, i) = Age(q, i) + 1 /\ Age(q, i) \in 0 .. Size - 1
      BY <1>0, <1>1, <1>10, <2>3 DEF Age, Slots, IdxPlus
    <3>3. q.num[i] = IF Age(q, i) < k THEN k - 1 - Age(q, i) ELSE -1
      BY <1>2
    <3> QED
      BY <3>1, <3>2, <3>3
  <2> QED
    BY <2>2, <2>3
<1>13. r.first = IF k + 1 < Size THEN 0 ELSE IdxPlus(r.last)
  BY <1>10
<1>14. k + 1 < Size => r.last = (k + 1) - 1
  BY <1>0, <1>2, <1>10 DEF IdxPlus
<1>15. r.cycled => k + 1 >= Size
  BY <1>7, <1>10
<1> QED
  BY <1>11, <1>12, <1>13, <1>14, <1>15 DEF RingAfter
-----------------------------------------------------------------------------
\* What the rexmiter gets of an empty ring: nothing.
LEMMA EmptyFinds ==
  ASSUME NEW n \in Nat
  PROVE  Get(EmptyFifo, n) = -1
<1>1. FirstNum(EmptyFifo) = 0 /\ LastNum(EmptyFifo) = 0
  BY DEF FirstNum, LastNum, EmptyFifo
<1>2. IdxForNum(EmptyFifo, n) \in Slots
  <2>1. EmptyFifo.last + (n - LastNum(EmptyFifo)) \in Int
    BY <1>1 DEF EmptyFifo
  <2> QED
    BY <2>1, Remainders DEF IdxForNum
<1>3. EmptyFifo.num[IdxForNum(EmptyFifo, n)] = -1
  BY <1>2 DEF EmptyFifo
<1>4. ~(-1 >= n)
  OBVIOUS
<1> QED
  BY <1>3, <1>4 DEF Get

\* What it gets of a ring in use: the numbers of the window.
LEMMA RingFinds ==
  ASSUME NEW q, NEW k \in Nat \ {0}, RingAfter(q, k), NEW n \in Nat
  PROVE  IF n < k /\ n >= k - Size
         THEN Get(q, n) # -1 /\ q.num[Get(q, n)] = n
         ELSE Get(q, n) = -1
<1>0. Size \in Nat \ {0}
  BY SizeAssumption
<1>1. LastNum(q) = k - 1 /\ FirstNum(q) = Larger(0, k - Size)
  BY RingNumbers
<1>2. FirstNum(q) <= n /\ n <= LastNum(q) <=> n < k /\ n >= k - Size
  BY <1>0, <1>1 DEF Larger
<1>3. CASE n < k /\ n >= k - Size
  <2>1. IdxForNum(q, n) \in Slots /\ q.num[IdxForNum(q, n)] = n
    BY <1>3, RingIndex
  <2>2. Get(q, n) = IdxForNum(q, n)
    BY <1>2, <1>3, <2>1 DEF Get
  <2>3. IdxForNum(q, n) # -1
    BY <1>0, <2>1 DEF Slots
  <2> QED
    BY <1>3, <2>1, <2>2, <2>3
<1>4. CASE ~(n < k /\ n >= k - Size)
  BY <1>2, <1>4, Zenon DEF Get
<1> QED
  BY <1>3, <1>4

-----------------------------------------------------------------------------
(* The two writes of get_to_set, one after the other.                      *)

\* The ring before number k.
RingBefore(q, k) == IF k = 0 THEN q = EmptyFifo ELSE RingAfter(q, k)

\* The slot that the marks are moved to held nothing, or the oldest number, and
\* the number makes it the newest slot of the ring.
LEMMA MarksMoved ==
  ASSUME NEW k \in Nat, NEW q, RingBefore(q, k), NEW r, r = Insert(q, k)
  PROVE  /\ q \in Fifos /\ r \in Fifos /\ r.num = q.num /\ r.last \in Slots
         /\ q.num[r.last] \in {-1, k - Size}
         /\ RingAfter([r EXCEPT !.num[r.last] = k], k + 1)
<1>0. Size \in Nat \ {0} /\ 0 \in Slots
  BY SizeAssumption DEF Slots
<1>1. q \in Fifos
  <2>1. EmptyFifo \in Fifos
    BY DEF EmptyFifo, Fifos
  <2>. QED
    BY <2>1 DEF RingBefore, RingAfter
<1>2. r \in Fifos /\ r.num = q.num
  BY <1>1, InsertMovesMarks
<1>3. CASE k = 0
  <2>1. q = EmptyFifo
    BY <1>3 DEF RingBefore
  <2>2. r.last = 0 /\ q.num[0] = -1 /\ InsertIdx(q, k) = 0
    BY <1>0, <2>1 DEF Insert, InsertIdx, EmptyFifo
  <2>3. [r EXCEPT !.num[r.last] = k] = GetToSet(q, k)
    BY <2>2 DEF GetToSet
  <2>. QED
    BY <1>0, <1>1, <1>2, <1>3, <2>1, <2>2, <2>3, FirstPut
<1>4. CASE k # 0
  <2>1. RingAfter(q, k) /\ k \in Nat \ {0}
    BY <1>4 DEF RingBefore
  <2>2. r.last = IdxPlus(q.last) /\ InsertIdx(q, k) = r.last /\ q.last \in Slots
    BY <2>1, NextSlot, RingNumbers
  <2>3. r.last \in Slots
    BY <2>2, IdxPlusIsSlot
  <2>4. [r EXCEPT !.num[r.last] = k] = GetToSet(q, k)
    BY <2>2, <2>3 DEF GetToSet, Slots
  <2>5. Age(q, r.last) = Size - 1
    BY <1>0, <2>2 DEF Age, IdxPlus, Slots
  <2>6. q.num[r.last] \in {-1, k - Size}
    BY <1>0, <2>1, <2>3, <2>5 DEF RingAfter
  <2>. QED
    BY <1>1, <1>2, <2>1, <2>3, <2>4, <2>6, NextPut
<1>. QED
  BY <1>3, <1>4

\* The newest number is in the slot last, and in no other.
LEMMA NewestSlot ==
  ASSUME NEW k \in Nat, NEW q, RingAfter(q, k + 1), NEW i \in Slots
  PROVE  q.num[i] = k <=> i = q.last
BY SizeAssumption DEF RingAfter, Age, Slots
=============================================================================
