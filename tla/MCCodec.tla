------------------------------ MODULE MCCodec ------------------------------
(***************************************************************************)
(* Checks of mperr_encode and mperr_decode over bounded numbers: a control *)
(* message of three numbers (id=3 has as many: the id, the net count, the  *)
(* number of alerts) is written, copied up to its first NUL for the isend, *)
(* and read back number by number.                                         *)
(***************************************************************************)
EXTENDS MpyCodec

CONSTANTS
  Ids,        \* message ids
  Sizes       \* magnitudes of the arguments

VARIABLES
  numbers,    \* what mpy_recover passes to mperr_encode
  text,       \* what arrives
  marked      \* what would arrive, had the high digits been marked

Numbers == Sizes \cup {-k : k \in Sizes}

vars == <<numbers, text, marked>>

Init ==
  /\ numbers \in Ids \X Numbers \X Numbers
  /\ text = <<>> /\ marked = <<>>

Send ==
  /\ text = <<>>
  /\ text' = UpToNul(Encode(numbers[1]) \o Encode(numbers[2])
                       \o Encode(numbers[3]))
  /\ marked' = UpToNul(EncodeDocumented(numbers[1])
                         \o EncodeDocumented(numbers[2])
                         \o EncodeDocumented(numbers[3]))
  /\ UNCHANGED numbers

Spec == Init /\ [][Send]_vars

\* The three numbers that mperr_decode finds in a text, one after the other.
ReadBack(t) ==
  LET second == DecodeNext(t, 1)
      third == DecodeNext(t, second)
  IN  <<DecodeAt(t, 1), DecodeAt(t, second), DecodeAt(t, third)>>

\* Three small numbers, zero and negative ones included, arrive as they were
\* sent, although zero is also what a text that has ended reads as and a NUL
\* cuts the text off.  (mperr_encode and mperr_decode, the copy up to the NUL
\* in mperr_to_boss.)
ShortMessageArrives ==
  (text # <<>> /\ \A i \in 2 .. 3 : Magnitude(numbers[i]) < 64) =>
    ReadBack(text) = numbers

\* mperr_decode does read the format that the comment above mperr_encode
\* describes, for numbers of every length, as long as none of them is a positive
\* multiple of 64: the final byte of such a number is a NUL even with its high
\* digits marked ("'\0' byte never occurs" is not true of them).
DocumentedFormatReads ==
  (text # <<>> /\ \A i \in 2 .. 3 : numbers[i] > 0 => numbers[i] % 64 # 0) =>
    ReadBack(marked) = numbers

\* "128 bit set on all but final byte" and "'\0' byte never occurs" (mpy.c:1167):
\* a message arrives as it was sent, whatever its numbers.
MessageArrives == text # <<>> => ReadBack(text) = numbers
=============================================================================
