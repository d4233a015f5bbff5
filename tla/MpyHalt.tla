------------------------------ MODULE MpyHalt ------------------------------
(***************************************************************************)
(* What error recovery promises the user of mpy, without saying how: after *)
(* a fault every rank joins in halting the parallel task; nobody returns   *)
(* to its idle loop before everybody has joined and every message of the   *)
(* halted task has been received or thrown away; rank 0 returns last, and  *)
(* with it the round is over ("when rank 0 returns, all other ranks are    *)
(* known to be idle, ready for the next mp_exec", mpy/README:214-215).     *)
(***************************************************************************)
EXTENDS Integers

CONSTANTS Rank, MaxPending

VARIABLES
  joined,     \* the ranks that have joined the current halt
  returned,   \* those of them that are back in their idle loop
  pending     \* messages of tasks that are in transit or queued

vars == <<joined, returned, pending>>

Init == joined = {} /\ returned = {} /\ pending = 0

\* A rank at work sends or receives messages.
Work ==
  /\ joined # Rank
  /\ pending' \in 0 .. MaxPending
  /\ UNCHANGED <<joined, returned>>

\* A rank faults or hears of a fault; the messages in its queue are lost.
Join(r) ==
  /\ r \notin joined
  /\ joined' = joined \cup {r}
  /\ pending' \in 0 .. pending
  /\ UNCHANGED returned

\* A message of the halted task is received and thrown away.
Discard ==
  /\ pending > 0 /\ pending' = pending - 1
  /\ UNCHANGED <<joined, returned>>

Return(r) ==
  /\ joined = Rank /\ pending = 0
  /\ r \in Rank \ (returned \cup {0})
  /\ returned' = returned \cup {r}
  /\ UNCHANGED <<joined, pending>>

ReturnRoot ==
  /\ joined = Rank /\ pending = 0 /\ returned = Rank \ {0}
  /\ joined' = {} /\ returned' = {} /\ UNCHANGED pending

Next ==
  \/ Work
  \/ \E r \in Rank : Join(r)
  \/ Discard
  \/ \E r \in Rank : Return(r)
  \/ ReturnRoot

Spec == Init /\ [][Next]_vars
=============================================================================
