------------------------------ MODULE MpyTree ------------------------------
(***************************************************************************)
(* The fan-out tree of mpy.  The ranks of one MPI job form a heap-shaped   *)
(* tree: every rank but 0 has a boss, and up to Fan ranks of staff.  The   *)
(* same arithmetic is written out again in mpy_send, mpy_recover,          *)
(* mperr_to_boss, mperr_to_staff, mpy_bcast (mpy.c) and in mp_boss and     *)
(* mp_staff (mpy.i); the protocols work only because the copies agree and  *)
(* because Boss and Staff are inverse to each other.                       *)
(***************************************************************************)
EXTENDS Integers

CONSTANTS
  Size,     \* mpy_size, the number of processes
  Fan       \* mpy_nfan, the fan-out

\* With a single process, or without MPI, mpy_initialize leaves mpy_size 0
\* and nothing in mpy.c sends a message.
ASSUME SizeAssumption == Size \in Nat /\ Size >= 2

\* Y_mpy_nfan stores only fan-outs above 1.
ASSUME FanAssumption == Fan \in Nat /\ Fan >= 2

Rank == 0 .. Size - 1

\* The rank r reports to; meaningful for r # 0.
Boss(r) == (r - 1) \div Fan

\* The ranks staff0 .. staff1 - 1 of mpy_recover, which cuts the last group
\* off at mpy_size.
Staff(r) == {q \in Rank : r * Fan + 1 <= q /\ q < r * Fan + 1 + Fan}

\* The destinations of mpy_send's "send to staff" case: a first rank and a
\* count, the count clipped when the group would run past the last rank.
SendStaff(r) ==
  LET dest0 == r * Fan + 1
      nto == IF dest0 + Fan > Size THEN Size - dest0 ELSE Fan
  IN  dest0 .. dest0 + nto - 1

\* mp_staff: the whole group, then those of it below mp_size.
MpStaff(r) == {q \in r * Fan + 1 .. r * Fan + Fan : q < Size}
=============================================================================
