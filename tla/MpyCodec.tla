----------------------------- MODULE MpyCodec -----------------------------
(***************************************************************************)
(* mperr_encode and mperr_decode: the numbers in a control message travel  *)
(* as bytes of a NUL-terminated string, most significant digit first, six  *)
(* bits and a sign bit in the final byte and seven bits in each byte       *)
(* before it.                                                              *)
(*                                                                         *)
(* The comment above mperr_encode promises that the 128 bit marks every    *)
(* byte but the last and that a NUL never occurs.  The loop that stores    *)
(* the high digits masks them with 0x7f and never sets the mark, so a      *)
(* number of magnitude 64 or more is written in a form mperr_decode cannot *)
(* follow; and the final byte of a positive multiple of 64 is a NUL.       *)
(* Encode below is the code's, EncodeDocumented has the marks.             *)
(***************************************************************************)
EXTENDS Integers, Sequences

Magnitude(n) == IF n < 0 THEN -n ELSE n

\* The seven-bit digits of h, most significant first: at most three, so that
\* magnitudes below 64 * 128^3 are exact, the bound of this model.
Digits(h) ==
  IF h = 0 THEN <<>>
  ELSE IF h < 128 THEN <<h>>
  ELSE IF h < 16384 THEN <<h \div 128, h % 128>>
  ELSE <<(h \div 16384) % 128, (h \div 128) % 128, h % 128>>

FinalByteStrict(n) == (IF n < 0 THEN 64 ELSE 0) + (Magnitude(n) % 64)

\* Six bits of data; bit 64 is set for a negative number or zero.
FinalByte(n) == (IF n <= 0 THEN 64 ELSE 0) + (Magnitude(n) % 64)

\* mperr_encode: `t[++i] = n & 0x7f` stores the high digits unmarked.
Encode(n) == Append(Digits(Magnitude(n) \div 64), FinalByte(n))

\* What the comment describes: the 128 bit set on all but the final byte.
Marked(d) == [i \in DOMAIN d |-> d[i] + 128]
EncodeDocumented(n) == Append(Marked(Digits(Magnitude(n) \div 64)), FinalByte(n))

\* A byte of the static buffer mperr_msg; past the terminator 0.  In the code the
\* buffer may hold bytes of an earlier message there, which only a scan for a final
\* byte that starts with a continuation byte would read: of numbers that were
\* garbled, or of a text cut off inside one.
ByteAt(text, i) == IF i <= Len(text) THEN text[i] ELSE 0

\* Position of the final byte of the number that starts at position i: the
\* loop of mperr_decode steps over bytes whose 128 bit is set.
FinalAt(text, i) ==
  CHOOSE j \in i .. Len(text) + 1 :
    /\ ByteAt(text, j) < 128
    /\ \A k \in i .. j - 1 : ByteAt(text, k) >= 128

HighBitsBySix(text, i, j) ==
  LET d(k) == IF k >= i THEN ByteAt(text, k) % 128 ELSE 0
  IN  d(j - 1) + 64 * d(j - 2) + 4096 * d(j - 3)

\* The bits of the continuation bytes i .. j - 1 (at most three).
HighBits(text, i, j) ==
  LET d(k) == IF k >= i THEN ByteAt(text, k) % 128 ELSE 0
  IN  d(j - 1) + 128 * d(j - 2) + 16384 * d(j - 3)

\* mperr_decode: the number that starts at position i ...
DecodeAt(text, i) ==
  LET j == FinalAt(text, i)
      final == ByteAt(text, j)
      n == 64 * HighBits(text, i, j) + (final % 64)
  IN  IF (final \div 64) % 2 = 1 THEN -n ELSE n

\* ... and where the next one starts, never past the terminator.
DecodeNext(text, i) ==
  LET j == FinalAt(text, i)
  IN  IF ByteAt(text, j) = 0 THEN j ELSE j + 1

\* mperr_to_boss and mperr_to_staff copy a message up to its first NUL.
UpToNul(text) ==
  LET ends == {i \in DOMAIN text : text[i] = 0}
  IN  IF ends = {} THEN text
      ELSE SubSeq(text, 1, (CHOOSE i \in ends : \A j \in ends : i <= j) - 1)

\* The value the receiver of a control message reads for an argument n.
Carried(n) == DecodeAt(UpToNul(Encode(n)), 1)
=============================================================================
