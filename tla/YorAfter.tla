------------------------------ MODULE YorAfter ------------------------------
(***************************************************************************)
(* The `after' functions of the interpreter (yorick/task.c) on top of the  *)
(* alarms of the play library (play/any/alarms.c): "after, secs, f, arg"   *)
(* asks for f to be run when the interpreter is idle, secs seconds later.  *)
(*                                                                         *)
(* A call takes a slot of an array.  The slot is WAITING (next = -2) until *)
(* its alarm rings, then it is on the ACTIVE list (ai .. ak) with a task   *)
(* pushed for it, and when the task runs it goes back to the FREE list     *)
(* (aj ..).  The two lists share the field next.                           *)
(*                                                                         *)
(* Everything runs in one thread.  What interleaves is the clock, the      *)
(* alarms that ring between tasks, and the calls that the running command  *)
(* or function makes: new calls, cancellations and errors.                 *)
(***************************************************************************)
EXTENDS Integers, Sequences, FiniteSets, SequencesExt, FiniteSetsExt

CONSTANTS
  Funcs,      \* functions given to after
  ByName,     \* those of them given as a string, kept by name
  Args,       \* arguments given to after
  ByRef,      \* those of them that are simple variables, kept by name if F is
  Delays,     \* the delays asked for
  Chunk,      \* slots of the first allocation; 4 in the code
  MaxSlots,   \* YM_AFTER_MAX, 1024 in the code
  MaxCalls,   \* bound on the calls of after
  MaxTime,    \* bound on the clock
  MaxUndo     \* bound on cancellations and errors of the user

ASSUME AfterConstants ==
  /\ ByName \subseteq Funcs /\ ByRef \subseteq Args
  /\ Chunk \in Nat \ {0} /\ MaxSlots \in Nat /\ Chunk <= MaxSlots
  /\ MaxCalls \in Nat /\ MaxTime \in Nat /\ MaxUndo \in Nat /\ Delays \subseteq Nat

VARIABLES
  now,      \* p_wall_secs
  alarms,   \* alarm_next: pending alarms, earliest first
  list,     \* ym_after_list
  ai, ak,   \* ym_after_i, ym_after_k: ends of the active list
  aj,       \* ym_after_j: head of the free list
  tasks,    \* how many times ym_after_work is on the task stack
  busy,     \* what the thread does: nothing, interpreted code, a cancellation
  walk,     \* the loop over the active list of a cancellation
  undone,   \* counts towards MaxUndo
  \* what was asked for, and what came of it
  due,      \* due[c]: the time call c is asked for
  ran,      \* the calls that ran
  gone,     \* the calls cancelled, by a request or an error
  cleared,  \* those of them an error cleared
  spoiled,  \* a cancellation or an error has put slots back on the free list
  detoured  \* since the last error, a cancellation has freed an active slot

ghosts == <<due, ran, gone, cleared, spoiled, detoured>>
slots == <<list, ai, aj, ak>>
vars == <<now, alarms, list, ai, ak, aj, tasks, busy, walk, undone,
          due, ran, gone, cleared, spoiled, detoured>>

None == "none"
NoArg == "no argument"
Dropped == "dropped argument"
NoCall == 0
Waiting == -2
End == -1
NoWalk == [i |-> End, j |-> End, f |-> None, d |-> NoArg]

Slots == DOMAIN list
n == Cardinality(Slots)     \* ym_after_n

Init ==
  /\ now = 0 /\ alarms = <<>> /\ list = [i \in {} |-> NoWalk]
  /\ ai = End /\ ak = End /\ aj = End /\ tasks = 0
  /\ busy = "idle" /\ walk = NoWalk /\ undone = 0
  /\ due = <<>> /\ ran = {} /\ gone = {} /\ cleared = {}
  /\ spoiled = FALSE /\ detoured = FALSE

-----------------------------------------------------------------------------
(* The lists. *)

\* A slot put on the free list before `next' (ym_after_dq, _after_func).  The
\* handles are dropped, the names are left in it.
Freed(slot, next) ==
  IF slot.f \in ByName
  THEN [slot EXCEPT !.next = next,
                    !.d = IF @ \in ByRef \cup {NoArg} THEN @ ELSE Dropped]
  ELSE [f |-> None, d |-> NoArg, next |-> next, call |-> NoCall]

\* ym_after_dq(-1): every slot is put on the free list, those already on it too.
AllFreed ==
  /\ list' = [i \in Slots |-> Freed(list[i], IF i = n - 1 THEN aj ELSE i + 1)]
  /\ aj' = (IF n = 0 THEN aj ELSE 0)
  /\ ai' = End /\ ak' = End

\* ym_after_dq(i) for the slots i of W, in increasing order.
WaitingFreed(W) ==
  LET Before(i) == {w \in W : w < i} IN
  /\ list' = [i \in Slots |->
       IF i \notin W THEN list[i]
       ELSE Freed(list[i], IF Before(i) = {} THEN aj ELSE Max(Before(i)))]
  /\ aj' = (IF W = {} THEN aj ELSE Max(W))

\* The slots met by following next from `head', up to one step more than there
\* are slots; past the end of the list it stays at the end.
Chain(head) ==
  LET at[k \in 0..n] ==
        IF k = 0 THEN head
        ELSE IF at[k - 1] \in Slots THEN list[at[k - 1]].next ELSE at[k - 1]
  IN  [k \in {k \in 0..n : at[k] \in Slots} |-> at[k]]
Active == Chain(ai)
Free == Chain(aj)

Calls == DOMAIN due
Pending == Calls \ (ran \cup gone)
\* The calls that should still be in the slots when no request to cancel has
\* had an effect (one that has none leaves what it was meant for in place).
Kept == Calls \ (ran \cup cleared)

-----------------------------------------------------------------------------
(* The clock and the event loop. *)

Tick ==
  /\ now < MaxTime
  /\ now' = now + 1
  /\ UNCHANGED <<alarms, slots, tasks, busy, walk, undone, ghosts>>

AlarmDue == alarms # <<>> /\ Head(alarms).time <= now

\* A faulty Activated: no task is pushed.
ActivatedNoTask(i) ==
  /\ list' = [s \in Slots |->
       IF s = i THEN [list[s] EXCEPT !.next = End]
       ELSE IF s = ak THEN [list[s] EXCEPT !.next = i] ELSE list[s]]
  /\ ai' = (IF ak >= 0 THEN ai ELSE i)
  /\ ak' = i
  /\ tasks' = tasks

\* What ym_after does with the slot of an alarm: it becomes the last of the
\* active list and a task is pushed for it.
Activated(i) ==
  /\ list' = [s \in Slots |->
       IF s = i THEN [list[s] EXCEPT !.next = End]
       ELSE IF s = ak THEN [list[s] EXCEPT !.next = i] ELSE list[s]]
  /\ ai' = (IF ak >= 0 THEN ai ELSE i)
  /\ ak' = i
  /\ tasks' = tasks + 1

\* p_on_idle with an alarm that is due.
Ring ==
  /\ busy = "idle" /\ AlarmDue
  /\ alarms' = Tail(alarms)
  /\ LET i == Head(alarms).slot IN
       IF list[i].next # Waiting THEN UNCHANGED <<list, ai, ak, tasks>>
       ELSE Activated(i)
  /\ UNCHANGED <<now, aj, busy, walk, undone, ghosts>>

\* A faulty Cleared: the slots are left as they are.
ClearedNotFreed ==
  /\ tasks' = 0 /\ alarms' = <<>>
  /\ busy' = "idle" /\ walk' = NoWalk
  /\ gone' = gone \cup Kept /\ cleared' = cleared \cup Kept
  /\ detoured' = FALSE
  /\ UNCHANGED <<slots, now, due, ran, spoiled>>

\* What an error does (YError): tasks, alarms and after functions are cleared.
Cleared ==
  /\ tasks' = 0 /\ alarms' = <<>> /\ AllFreed
  /\ busy' = "idle" /\ walk' = NoWalk
  /\ gone' = gone \cup Kept /\ cleared' = cleared \cup Kept
  /\ spoiled' = (spoiled \/ aj >= 0) /\ detoured' = FALSE
  /\ UNCHANGED <<now, due, ran>>

\* A faulty RunTask: the tail is not reset when the active list gets empty.
RunTaskKeepTail ==
  /\ busy = "idle" /\ ~AlarmDue /\ tasks > 0 /\ ai >= 0
  /\ list[ai].f # None
  /\ tasks' = tasks - 1
  /\ ai' = list[ai].next
  /\ list' = [list EXCEPT ![ai] = Freed(@, aj)]
  /\ aj' = ai
  /\ ran' = ran \cup {list[ai].call}
  /\ busy' = "running"
  /\ UNCHANGED <<now, alarms, ak, walk, undone, due, gone, cleared, spoiled, detoured>>

\* y_on_idle runs a task when no alarm is due.  The task is _after_work, which
\* takes the first of the active list and calls its function.
RunTask ==
  /\ busy = "idle" /\ ~AlarmDue /\ tasks > 0 /\ ai >= 0
  /\ list[ai].f # None
  /\ tasks' = tasks - 1
  /\ ai' = list[ai].next
  /\ ak' = (IF list[ai].next = End THEN End ELSE ak)
  /\ list' = [list EXCEPT ![ai] = Freed(@, aj)]
  /\ aj' = ai
  /\ ran' = ran \cup {list[ai].call}
  /\ busy' = "running"
  /\ UNCHANGED <<now, alarms, walk, undone, due, gone, cleared, spoiled, detoured>>

\* A task that finds no function: "(BUG?) bad link in _after_func", an error.
BadLink ==
  /\ busy = "idle" /\ ~AlarmDue /\ tasks > 0
  /\ IF ai < 0 THEN TRUE ELSE list[ai].f = None
  /\ Cleared
  /\ UNCHANGED undone

\* A line typed at the prompt is taken when there is no task.
Typed ==
  /\ busy = "idle" /\ ~AlarmDue /\ tasks = 0
  /\ Len(due) < MaxCalls \/ undone < MaxUndo
  /\ busy' = "running"
  /\ UNCHANGED <<now, alarms, slots, tasks, walk, undone, ghosts>>

Finish ==
  /\ busy = "running"
  /\ busy' = "idle"
  /\ UNCHANGED <<now, alarms, slots, tasks, walk, undone, ghosts>>

-----------------------------------------------------------------------------
(* What the running code may call. *)

\* A faulty Lengthened: the last new slot is linked to one past the array.
LengthenedPast ==
  IF aj >= 0 THEN [list |-> list, head |-> aj]
  ELSE LET k == IF n = 0 THEN Chunk ELSE 2 * n IN
    [list |-> [i \in 0..(k - 1) |->
        IF i \in Slots THEN list[i]
        ELSE [f |-> None, d |-> NoArg, call |-> NoCall, next |-> i + 1]],
     head |-> n]

\* The array when there is a free slot, and when it has to be lengthened.
Lengthened ==
  IF aj >= 0 THEN [list |-> list, head |-> aj]
  ELSE LET k == IF n = 0 THEN Chunk ELSE 2 * n IN
    [list |-> [i \in 0..(k - 1) |->
        IF i \in Slots THEN list[i]
        ELSE [f |-> None, d |-> NoArg, call |-> NoCall,
              next |-> IF i < k - 1 THEN i + 1 ELSE End]],
     head |-> n]

\* A faulty AlarmSet: before the alarms of the same time.
AlarmSetBefore(time, slot) ==
  LET earlier == Cardinality({x \in DOMAIN alarms : alarms[x].time < time})
  IN  alarms' = InsertAt(alarms, earlier + 1, [time |-> time, slot |-> slot])

\* p_set_alarm: after the alarms of the same time.
AlarmSet(time, slot) ==
  LET earlier == Cardinality({x \in DOMAIN alarms : alarms[x].time <= time})
  IN  alarms' = InsertAt(alarms, earlier + 1, [time |-> time, slot |-> slot])

\* yexec_after with a delay: takes the first free slot and sets its alarm.
After(secs, f, d) ==
  /\ busy = "running" /\ Len(due) < MaxCalls /\ now + secs <= MaxTime
  /\ aj >= 0 \/ 2 * n <= MaxSlots
  /\ LET a == Lengthened
         i == a.head IN
       /\ aj' = a.list[i].next
       /\ list' = [a.list EXCEPT ![i] =
            [f |-> f, d |-> d, next |-> Waiting, call |-> Len(due) + 1]]
       /\ AlarmSet(now + secs, i)
  /\ due' = Append(due, now + secs)
  /\ UNCHANGED <<now, ai, ak, tasks, busy, walk, undone,
                 ran, gone, cleared, spoiled, detoured>>

\* "runaway queue of after functions": the call is an error.
Runaway ==
  /\ busy = "running" /\ Len(due) < MaxCalls
  /\ aj < 0 /\ 2 * n > MaxSlots
  /\ Cleared
  /\ UNCHANGED undone

\* Any other error of the running code, or an interrupt from the keyboard, also
\* between two tasks.
Fault ==
  /\ busy # "cancelling" /\ undone < MaxUndo
  /\ undone' = undone + 1
  /\ Cleared

\* "after, -": ym_after_dq(-1), which leaves the tasks and the alarms alone.
CancelAll ==
  /\ busy = "running" /\ undone < MaxUndo
  /\ undone' = undone + 1
  /\ AllFreed
  /\ gone' = gone \cup Kept
  /\ spoiled' = (spoiled \/ n > 0)
  /\ UNCHANGED <<now, alarms, tasks, busy, walk, due, ran, cleared, detoured>>

\* The slots a request to cancel is meant for: no argument stands for any.
Matches(i, f, d) == list[i].f = f /\ (d = NoArg \/ list[i].d = d)

\* The condition of the loop over the waiting slots (an && where the loop over
\* the active list has an ||).
MatchesWaiting(i, f, d) == list[i].f = f /\ d = NoArg /\ list[i].d = d

\* "after, -, f" or "after, -, f, arg": the loop over the active list starts.
Cancel(f, d) ==
  /\ busy = "running" /\ undone < MaxUndo
  /\ undone' = undone + 1
  /\ busy' = "cancelling"
  /\ walk' = [i |-> ai, j |-> End, f |-> f, d |-> d]
  /\ gone' = gone \cup {list[i].call : i \in {i \in Slots :
                /\ list[i].call \in Pending
                /\ Matches(i, f, d)}}
  /\ UNCHANGED <<now, alarms, slots, tasks, due, ran, cleared, spoiled, detoured>>

\* One turn of that loop.  It takes the next slot from the field that freeing
\* this one has just overwritten.
WalkActive ==
  /\ busy = "cancelling" /\ walk.i >= 0
  /\ LET i == walk.i
         j == walk.j
         bypassed == [list EXCEPT ![i] = Freed(@, aj)] IN
       IF Matches(i, walk.f, walk.d)
       THEN /\ list' = (IF j >= 0 THEN [bypassed EXCEPT ![j].next = list[i].next]
                        ELSE bypassed)
            /\ ai' = (IF j >= 0 THEN ai ELSE list[i].next)
            /\ ak' = (IF i = ak THEN j ELSE ak)
            /\ aj' = i
            /\ spoiled' = TRUE /\ detoured' = TRUE
            /\ walk' = [walk EXCEPT !.j = i, !.i = aj]
       ELSE /\ walk' = [walk EXCEPT !.j = i, !.i = list[i].next]
            /\ UNCHANGED <<slots, spoiled, detoured>>
  /\ UNCHANGED <<now, alarms, tasks, busy, undone, due, ran, gone, cleared>>

\* The end of that loop, and the loop over the waiting slots.
CancelWaiting ==
  /\ busy = "cancelling" /\ walk.i < 0
  /\ LET W == {i \in Slots : list[i].next = Waiting /\ MatchesWaiting(i, walk.f, walk.d)}
     IN  /\ WaitingFreed(W)
         /\ spoiled' = (spoiled \/ W # {})
  /\ busy' = "running" /\ walk' = NoWalk
  /\ UNCHANGED <<now, alarms, ai, ak, tasks, undone, due, ran, gone, cleared, detoured>>

Loop == Ring \/ RunTask \/ BadLink \/ Finish \/ WalkActive \/ CancelWaiting

Next ==
  \/ Tick
  \/ Ring \/ RunTask \/ BadLink \/ Typed \/ Finish
  \/ \E secs \in Delays, f \in Funcs, d \in Args \cup {NoArg} : After(secs, f, d)
  \/ Runaway \/ Fault \/ CancelAll
  \/ \E f \in Funcs, d \in Args \cup {NoArg} : Cancel(f, d)
  \/ WalkActive \/ CancelWaiting

Spec == Init /\ [][Next]_vars

\* Time passes, and the event loop goes on: it serves what is ready, and the
\* running code comes to an end.
FairSpec == Spec /\ WF_vars(Tick) /\ WF_vars(Loop)

-----------------------------------------------------------------------------
(* Properties. *)

\* The type invariant of the queue of after functions.
TypeOK ==
  /\ now \in 0..MaxTime /\ tasks \in 0..MaxCalls /\ undone \in 0..MaxUndo
  /\ \E k \in 0..MaxSlots : Slots = 0..(k - 1)
  /\ \A i \in Slots :
       /\ list[i].f \in Funcs \cup {None}
       /\ list[i].d \in Args \cup {NoArg, Dropped}
       /\ list[i].next \in Slots \cup {End, Waiting}
       /\ list[i].call \in Calls \cup {NoCall}
  /\ ai \in Slots \cup {End, Waiting} /\ ak \in Slots \cup {End} /\ aj \in Slots \cup {End, Waiting}
  /\ \A x \in DOMAIN alarms : alarms[x].time \in Nat /\ alarms[x].slot \in Slots
  /\ busy \in {"idle", "running", "cancelling"}
  /\ gone \subseteq Calls /\ cleared \subseteq gone

\* As long as nothing was cancelled, the lists and the alarms keep every slot
\* exactly once: it is free, or waits for one alarm, or is active with a task
\* pushed for it.  Nothing is stranded and nothing is on two lists.
SlotsPartitioned ==
  ~spoiled =>
    LET waits == {i \in Slots : list[i].next = Waiting}
        length(chain) == Cardinality(DOMAIN chain) IN
    /\ length(Active) + length(Free) + Cardinality(waits) = n
    /\ Range(Active) \cup Range(Free) = Slots \ waits
    /\ Len(alarms) = Cardinality(waits)
    /\ {alarms[x].slot : x \in DOMAIN alarms} = waits
    /\ tasks = length(Active)
    /\ Kept = {list[i].call : i \in waits \cup Range(Active)}

\* A function runs "at least SECS seconds from now" (std.i, after), once, and
\* in the order of the times asked for, equal times in the order of the calls;
\* as long as nothing was cancelled.
RunsInOrder ==
  [][~spoiled => \A c \in ran' \ ran :
       /\ c \in Kept /\ due[c] <= now
       /\ \A b \in Kept : due[c] < due[b] \/ (due[c] = due[b] /\ c <= b)]_vars

\* Once an error has cleared the calls, none of them runs later, whatever is
\* left of it in the slots (YError), and although the error may have made a
\* cycle of the free list; unless a request to cancel has freed an active slot
\* since, whose loop then went on along the free list.
ClearedStays == [][~detoured => ran' \cap cleared \subseteq ran]_vars

\* Every call runs, or something is cancelled.
EveryCallRuns ==
  \A c \in 1..MaxCalls : (c \in Kept) ~> (c \notin Kept \/ spoiled)

\* after, -, F cancels "all pending after callbacks with the given F" (std.i):
\* a call that was cancelled does not run.
CancelledNeverRuns == ran \cap gone = {}

\* F is run "at least SECS seconds from now" (std.i), cancellations or not.
NeverEarly == [][\A c \in ran' \ ran : due[c] <= now]_vars

\* What an error has cleared does not run, requests to cancel or not.
ClearedNeverRuns == ran \cap cleared = {}

\* A call that neither ran nor was cancelled still has its slot.
NoCallLost == \A c \in Pending : \E i \in Slots : list[i].call = c

=============================================================================
