------------------------------- MODULE MCAfter -------------------------------
(* YorAfter with a search narrowed to the behaviours in which a cleared call *)
(* can run; the shortest has 47 steps, out of reach without it.              *)
EXTENDS YorAfter

\* Four calls, some of which run and one of which an error clears; then up to
\* three more, and a request to cancel an active one; then the rest.
OneErrorThenOneCancel ==
  /\ undone = 0 => Len(due) <= 4
  /\ undone = 1 =>
       /\ Cardinality(cleared) = 1 /\ Cardinality(ran) >= 3
       /\ gone # {} /\ aj # End
       /\ Len(due) = 4 => tasks = 0
       /\ Len(due) <= 7
  /\ undone = 2 => Cardinality(cleared) = 1 /\ Len(due) >= 7

=============================================================================
