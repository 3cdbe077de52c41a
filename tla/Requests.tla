------------------------------ MODULE Requests ------------------------------
(***************************************************************************)
(* What a REXMIT tells the sender.  The receiver writes the numbers of the *)
(* first bytes of the packets it lacks, separated by commas, as the second *)
(* field of a text; the control port service reads the datagram into a     *)
(* buffer that may be shorter than the text, and reads numbers from what   *)
(* it got of the field.  So a list may be cut, and its last number be      *)
(* another one than was written.                                           *)
(*                                                                         *)
(* A character of the list is a digit below Base, or the comma.            *)
(***************************************************************************)
EXTENDS Integers, SequencesExt

CONSTANTS
  Base,     \* of the digits; 10 in the code
  Room,     \* for the list in the buffer, 512 less the first word
  psize     \* PSIZE

ASSUME RequestsAssumption ==
  Base \in Nat \ {0, 1} /\ Room \in Nat /\ psize \in Nat \ {0}

Comma == Base

\* operator<< of a number
Digits(n) ==
  LET digits[k \in 0 .. n] ==
        IF k < Base THEN <<k>> ELSE Append(digits[k \div Base], k % Base)
  IN digits[n]

\* rexmit_datagram, of the byte numbers of the packets, sorted.
RexmitField(lacking) ==
  FoldLeft(LAMBDA text, n :
             (IF text = <<>> THEN <<>> ELSE Append(text, Comma))
               \o Digits(n * psize),
           <<>>, SetToSortSeq(lacking, <))

\* recv_msg_from: what does not fit is lost.
Received(text) == SubSeq(text, 1, Min({Len(text), Room}))

\* The loop of handle_rexmit: a number up to a character that is no digit,
\* that character, and so on until there is no number.
Value(digits) == FoldLeft(LAMBDA v, d : v * Base + d, 0, digits)

Starts(text) ==
  {i \in 1 .. Len(text) : text[i] # Comma /\ (i = 1 \/ text[i - 1] = Comma)}

EndFrom(text, i) ==
  Max({j \in i .. Len(text) : \A k \in i .. j : text[k] # Comma})

NumbersIn(text) ==
  {Value(SubSeq(text, i, EndFrom(text, i))) : i \in Starts(text)}

\* The byte numbers that the sender reads of a request for these packets.
Conveyed(lacking) == NumbersIn(Received(RexmitField(lacking)))
=============================================================================
