-------------------------------- MODULE Fifo --------------------------------
(***************************************************************************)
(* The ring buffer of both programs, class FIFO, as operators on a value   *)
(* q: num[i] is the packet number in slot i (-1: none), first and last are *)
(* the slots of the oldest and the newest number (-1: the buffer is        *)
(* empty), cycled is was_cycled.  What the slots carry besides the number  *)
(* is left to the modules that use the buffer.                             *)
(*                                                                         *)
(* An operation is one step here.  The integers of the code are wide       *)
(* enough for packet numbers, so they are not wrapped.                     *)
(*                                                                         *)
(* A definition that stands directly before another one and has its name   *)
(* with a word more is a mutant of it, a plausible slip in the code.       *)
(***************************************************************************)
EXTENDS Integers

CONSTANT Size   \* fifo_size, FSIZE / PSIZE or BSIZE / PSIZE

\* With no slot at all the loops of idx_for_num do not end.
ASSUME SizeAssumption == Size \in Nat \ {0}

Slots == 0 .. Size - 1

Fifos == [num : [Slots -> Int], first : {-1} \cup Slots,
          last : {-1} \cup Slots, cycled : BOOLEAN]

\* clear()
EmptyFifo ==
  [num |-> [i \in Slots |-> -1], first |-> -1, last |-> -1, cycled |-> FALSE]

FirstNum(q) == IF q.first = -1 THEN 0 ELSE q.num[q.first]
LastNum(q) == IF q.last = -1 THEN 0 ELSE q.num[q.last]

\* The loops that bring an index back into the buffer compute a remainder.
IdxForNum(q, n) == (q.last + (n - LastNum(q))) % Size

IdxPlusUnwrapped(i) == i + 1
IdxPlus(i) == IF i + 1 >= Size THEN i + 1 - Size ELSE i + 1

Larger(a, b) == IF a >= b THEN a ELSE b

\* get(): the slot with number n, or a slot with a larger number, or -1.
GetExcludingLast(q, n) ==
  IF FirstNum(q) <= n /\ n < LastNum(q) /\ q.num[IdxForNum(q, n)] >= n
  THEN IdxForNum(q, n) ELSE -1
Get(q, n) ==
  IF FirstNum(q) <= n /\ n <= LastNum(q) /\ q.num[IdxForNum(q, n)] >= n
  THEN IdxForNum(q, n) ELSE -1

-----------------------------------------------------------------------------
\* insert_later_than_last(): where the marks are moved for a number that is
\* larger than the last one.  Too far ahead, the buffer starts anew at slot 0.
FarAheadTooSoon(q, n) == n >= LastNum(q) + Size - 1
FarAhead(q, n) == n >= LastNum(q) + Size

FirstAfterKeepingOldest(q, n) ==
  IF q.cycled THEN IdxPlus(IdxForNum(q, n))
  ELSE IdxForNum(q, Larger(FirstNum(q), n - Size))
FirstAfter(q, n) ==
  IF q.cycled THEN IdxPlus(IdxForNum(q, n))
  ELSE IdxForNum(q, Larger(FirstNum(q), n - Size + 1))

InsertLater(q, n) ==
  IF FarAhead(q, n)
  THEN [q EXCEPT !.first = 0, !.last = 0, !.cycled = FALSE]
  ELSE [q EXCEPT !.first = FirstAfter(q, n), !.last = IdxForNum(q, n),
                 !.cycled = q.cycled \/ q.first > FirstAfter(q, n)]

\* insert(): the buffer with its marks moved, and the slot for n, or -1.
Insert(q, n) ==
  IF q.last = -1 THEN [q EXCEPT !.first = 0, !.last = 0]
  ELSE IF n > LastNum(q) /\ n >= FirstNum(q) THEN InsertLater(q, n)
  ELSE q

InsertIdx(q, n) ==
  IF q.last = -1 THEN 0
  ELSE IF n < FirstNum(q) THEN -1
  ELSE IF n > LastNum(q) THEN Insert(q, n).last
  ELSE IdxForNum(q, n)

\* get_to_set(): the slot gets its number at once, its contents later.
GetToSet(q, n) ==
  IF InsertIdx(q, n) = -1 THEN q
  ELSE [Insert(q, n) EXCEPT !.num[InsertIdx(q, n)] = n]
=============================================================================
