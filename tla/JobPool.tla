------------------------------ MODULE JobPool ------------------------------
(***************************************************************************)
(* What mpool promises its caller, without saying how: jobs are handed out *)
(* one by one, each to one worker, never to more workers at a time than    *)
(* there are; each job is assimilated exactly once; and the pool ends when *)
(* no more jobs are wanted and every job handed out has been assimilated   *)
(* ("the whole cycle repeats until FSOW signals there are no more jobs",   *)
(* mpool.i:20).                                                            *)
(***************************************************************************)
EXTENDS Naturals, FiniteSets

VARIABLES
  workers,    \* how many jobs may be in hand at a time
  open,       \* there are more jobs
  handed,     \* the jobs handed out and not assimilated yet
  finished,   \* the jobs assimilated
  ended       \* the pool has returned

vars == <<workers, open, handed, finished, ended>>

Init ==
  /\ workers \in Nat
  /\ open = TRUE /\ handed = {} /\ finished = {} /\ ended = FALSE

Hand ==
  /\ open /\ Cardinality(handed) < workers
  /\ handed' = handed \cup {Cardinality(handed \cup finished) + 1}
  /\ UNCHANGED <<workers, open, finished, ended>>

Assimilate(j) ==
  /\ j \in handed
  /\ handed' = handed \ {j}
  /\ finished' = finished \cup {j}
  /\ UNCHANGED <<workers, open, ended>>

Close ==
  /\ open /\ open' = FALSE
  /\ UNCHANGED <<workers, handed, finished, ended>>

End ==
  /\ ~open /\ handed = {} /\ ~ended
  /\ ended' = TRUE
  /\ UNCHANGED <<workers, open, handed, finished>>

Next == Hand \/ Close \/ End \/ \E j \in handed : Assimilate(j)

Spec == Init /\ [][Next]_vars
=============================================================================
