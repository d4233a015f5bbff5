------------------------------ MODULE YorSpawn ------------------------------
(***************************************************************************)
(* Spawned processes: the interpreted object (yorick/spawn.c), the list of *)
(* children (play/unix/uspawn.c), the table of event sources and the poll  *)
(* (play/unix/uevent.c), the event loop (umain.c) and the task stack that  *)
(* the callbacks push (yorick/task.c).                                     *)
(*                                                                         *)
(* The processes are of the operating system: they write to their stdout,  *)
(* a pipe, and exit, at any time between two steps of the event loop.  A   *)
(* `chunk' is what one read of a pipe takes (up to 2048 bytes); the chunks *)
(* of a process are numbered in the order it writes them.  Processes with  *)
(* an on_stderr function, which have a second event source, are left out.  *)
(*                                                                         *)
(* Where a process ends by itself or by a signal 9, its callback frees the *)
(* record (p_spawf) and then allocates for the task it pushes, and u_spawf0*)
(* goes on with the record that was freed.  What it finds there is up to   *)
(* the allocator, see Recycles.                                            *)
(***************************************************************************)
EXTENDS Integers, Sequences, SequencesExt

CONSTANTS
  Procs,      \* the processes; each is spawned at most once
  MaxChunks,  \* bound on what a process writes
  End,        \* stands for the string(0) of the last call of on_stdout
  Recycles    \* what is freed may be overwritten, or be part of what is
              \* allocated next: so with the C library's free and malloc.
              \* yorick's own (mminit.c) keep their link in front of a block
              \* and a list of free blocks for each class of sizes, and what a
              \* callback allocates is of other classes than the record.

ASSUME SpawnConstants ==
  MaxChunks \in Nat \ {0} /\ End \notin Nat /\ Recycles \in BOOLEAN

VARIABLES
  \* the operating system
  os,        \* "none", "runs", "exited" (a zombie) or "reaped"
  pipe,      \* what a process wrote and nobody has read
  wrote,     \* how many chunks a process wrote
  \* play
  pid,       \* proc->pid # 0: not known to have exited
  children,  \* u_chldlist, latest first
  table,     \* poll_fds and poll_handler: a process and its revents
  pre,       \* u_prechld is a pre-poll conditional (u_setpre)
  \* yorick
  linked,    \* proc->proc # 0: the spawn object has its process
  callout,   \* proc->callout >= 0: its on_stdout is to be called
  tasks,     \* calls of on_stdout on the task stack
  phase,     \* where the event loop is, or "spoiled": a freed record that had
             \* been overwritten was used
  \* history
  pushed,    \* the calls of on_stdout in the order they were pushed
  got,       \* the calls in the order they were made
  excused    \* processes killed, let go of, or with calls that an error discarded

system == <<os, pipe, wrote>>
play == <<pid, children, table, pre>>
vars == <<system, play, linked, callout, tasks, phase, pushed, got, excused>>

Init ==
  /\ os = [p \in Procs |-> "none"] /\ pipe = [p \in Procs |-> <<>>]
  /\ wrote = [p \in Procs |-> 0]
  /\ pid = {} /\ children = <<>> /\ table = <<>> /\ pre = FALSE
  /\ linked = {} /\ callout = {} /\ tasks = <<>> /\ phase = "idle"
  /\ pushed = [p \in Procs |-> <<>>] /\ got = [p \in Procs |-> <<>>] /\ excused = {}

Listed == ToSet(children)

-----------------------------------------------------------------------------
(* The processes. *)

Write(p) ==
  /\ os[p] = "runs" /\ wrote[p] < MaxChunks
  /\ wrote' = [wrote EXCEPT ![p] = @ + 1]
  /\ pipe' = [pipe EXCEPT ![p] = Append(@, wrote[p] + 1)]
  /\ UNCHANGED <<os, play, linked, callout, tasks, phase, pushed, got, excused>>

Exit(p) ==
  /\ os[p] = "runs"
  /\ os' = [os EXCEPT ![p] = "exited"]
  /\ UNCHANGED <<pipe, wrote, play, linked, callout, tasks, phase, pushed, got, excused>>

-----------------------------------------------------------------------------
(* What play does with a process. *)

\* Mutant: the last entry is dropped and not moved.
WithoutSourceUnmoved(p) == SubSeq(table, 1, Len(table) - 1)

\* u_event_src without a callback: the last entry takes the place of the entry
\* removed, but for its revents, which stays with the place.
WithoutSource(p) ==
  LET i == CHOOSE i \in DOMAIN table : table[i].proc = p
      n == Len(table)
  IN  [k \in 1..(n - 1) |->
         IF k = i THEN [proc |-> table[n].proc, revents |-> table[i].revents]
         ELSE table[k]]

\* The list of children without p.
WithoutChild(p) ==
  RemoveAt(children, CHOOSE i \in DOMAIN children : children[i] = p)

\* Mutant: the conditional is withdrawn though other processes remain.
ReleasedLast(p, dead) ==
  /\ os' = [q \in Procs |-> IF q = p \/ q \in dead THEN "reaped" ELSE os[q]]
  /\ pid' = pid \ ({p} \cup dead)
  /\ pipe' = [pipe EXCEPT ![p] = <<>>]
  /\ table' = WithoutSource(p)
  /\ children' = WithoutChild(p)
  /\ pre' = FALSE
  /\ UNCHANGED wrote

\* u_spawf0: the process is killed if it still runs and waited for; its event
\* source, its pipe and its place in the list are given up, and with the last
\* process the pre-poll conditional.  `dead' are those that waitpid has found.
Released(p, dead) ==
  /\ os' = [q \in Procs |-> IF q = p \/ q \in dead THEN "reaped" ELSE os[q]]
  /\ pid' = pid \ ({p} \cup dead)
  /\ pipe' = [pipe EXCEPT ![p] = <<>>]
  /\ table' = WithoutSource(p)
  /\ children' = WithoutChild(p)
  /\ pre' = (children' # <<>>)
  /\ UNCHANGED wrote

\* spawn_callback pushes the task that calls on_stdout.
Push(p, msg) ==
  /\ tasks' = Append(tasks, [proc |-> p, msg |-> msg])
  /\ pushed' = [pushed EXCEPT ![p] = Append(@, msg)]

\* Mutant: proc->callout is not reset.
EndPushedAgain(p) ==
  /\ linked' = linked \ {p} /\ UNCHANGED callout
  /\ IF p \in callout THEN Push(p, End) ELSE UNCHANGED <<tasks, pushed>>

\* spawn_callback for the end of a process: it is called once.
EndPushed(p) ==
  /\ callout' = callout \ {p} /\ linked' = linked \ {p}
  /\ IF p \in callout THEN Push(p, End) ELSE UNCHANGED <<tasks, pushed>>

-----------------------------------------------------------------------------
(* The event loop: u_waiter and u_poll. *)

\* The callback of p has freed its record, and u_spawf0 uses it: a record still as
\* it was left (no pid, no callback, closed files, the same successor) makes the
\* second removal a repetition of the first; of any other nothing can be said.
FreedUsed(p) ==
  \/ UNCHANGED phase
  \/ Recycles /\ p \in callout /\ phase' = "spoiled"

\* waitpid finds these.
Dead == {p \in Listed \cap pid : os[p] = "exited"}
Ended == {p \in Listed : p \notin pid} \cup Dead

\* u_prechld: asks after all children, and ends the first one that exited.
PreChild ==
  /\ phase = "pre" /\ pre /\ Ended # {}
  /\ \E i \in DOMAIN children :
       /\ children[i] \in Ended /\ \A j \in 1..(i - 1) : children[j] \notin Ended
       /\ Released(children[i], Dead)
       /\ EndPushed(children[i])
       /\ FreedUsed(children[i])
  /\ UNCHANGED <<got, excused>>

PreNothing ==
  /\ phase = "pre" /\ (pre => Ended = {})
  /\ phase' = "scan"
  /\ UNCHANGED <<system, play, linked, callout, tasks, pushed, got, excused>>

\* Mutant: the pipe is emptied and only what came last is kept.
CalledOutLatest(p) ==
  IF p \in linked /\ p \in pid /\ pipe[p] # <<>>
  THEN pipe' = [pipe EXCEPT ![p] = <<>>] /\ Push(p, Last(pipe[p]))
  ELSE UNCHANGED <<pipe, tasks, pushed>>

\* u_callout and spawn_callback: p_recv reads one chunk.  An empty pipe (the
\* process has exited, or another process had the event) is no error, and p_recv
\* reads nothing of a process that is known to have exited.
CalledOut(p) ==
  IF p \in linked /\ p \in pid /\ pipe[p] # <<>>
  THEN pipe' = [pipe EXCEPT ![p] = Tail(@)] /\ Push(p, Head(pipe[p]))
  ELSE UNCHANGED <<pipe, tasks, pushed>>

\* Mutant: the event is not cleared.
ServedAgain(polled) ==
  \E i \in DOMAIN polled :
    /\ polled[i].revents /\ \A j \in 1..(i - 1) : ~polled[j].revents
    /\ table' = polled
    /\ CalledOut(polled[i].proc)

\* The first entry of `polled' with an event is served, and its event cleared.
Served(polled) ==
  \E i \in DOMAIN polled :
    /\ polled[i].revents /\ \A j \in 1..(i - 1) : ~polled[j].revents
    /\ table' = [polled EXCEPT ![i].revents = FALSE]
    /\ CalledOut(polled[i].proc)

HasEvent(polled) == \E i \in DOMAIN polled : polled[i].revents

\* Events of the previous poll are served before polling again.
Serve ==
  /\ phase = "scan" /\ HasEvent(table)
  /\ Served(table)
  /\ phase' = "pre"
  /\ UNCHANGED <<os, wrote, pid, children, pre, linked, callout, got, excused>>

\* poll reports a pipe that has something to read or no writer any more.
Polled ==
  [i \in DOMAIN table |->
     LET p == table[i].proc IN
       [proc |-> p, revents |-> pipe[p] # <<>> \/ os[p] # "runs"]]

PollReady ==
  /\ phase = "scan" /\ ~HasEvent(table) /\ HasEvent(Polled)
  /\ Served(Polled)
  /\ phase' = "pre"
  /\ UNCHANGED <<os, wrote, pid, children, pre, linked, callout, got, excused>>

PollNothing ==
  /\ phase = "scan" /\ ~HasEvent(table) /\ ~HasEvent(Polled)
  /\ phase' = "idle"
  /\ UNCHANGED <<system, play, linked, callout, tasks, pushed, got, excused>>

\* p_on_idle when there was no event: DoTask takes the task pushed last, a call
\* of on_stdout.
RunTask ==
  /\ phase = "idle" /\ tasks # <<>>
  /\ tasks' = Front(tasks)
  /\ got' = [got EXCEPT ![Last(tasks).proc] = Append(@, Last(tasks).msg)]
  /\ phase' = "running"
  /\ UNCHANGED <<system, play, linked, callout, pushed, excused>>

\* Without a task, a line typed is run, or the loop waits for events.
Typed ==
  /\ phase = "idle" /\ tasks = <<>>
  /\ phase' = "running"
  /\ UNCHANGED <<system, play, linked, callout, tasks, pushed, got, excused>>

LoopOn ==
  /\ phase = "running" \/ (phase = "idle" /\ tasks = <<>>)
  /\ phase' = "pre"
  /\ UNCHANGED <<system, play, linked, callout, tasks, pushed, got, excused>>

-----------------------------------------------------------------------------
(* What interpreted code may do. *)

\* spawn: the new process is an event source, and the first makes u_prechld a
\* pre-poll conditional.
Spawn(p) ==
  /\ phase = "running" /\ os[p] = "none"
  /\ os' = [os EXCEPT ![p] = "runs"]
  /\ pid' = pid \cup {p}
  /\ children' = <<p>> \o children
  /\ table' = Append(table, [proc |-> p, revents |-> FALSE])
  /\ pre' = TRUE
  /\ linked' = linked \cup {p} /\ callout' = callout \cup {p}
  /\ UNCHANGED <<pipe, wrote, tasks, phase, pushed, got, excused>>

\* process, 9: p_send with -9 ends the process like its exit does.
Kill(p) ==
  /\ phase = "running" /\ p \in linked /\ p \in pid
  /\ Released(p, {})
  /\ EndPushed(p)
  /\ FreedUsed(p)
  /\ excused' = excused \cup {p}
  /\ UNCHANGED got

\* process = []: spawn_free kills the process, and calls on_stdout unless
\* it is known to have exited.  It forgets the record first, so that the callback
\* has none to free.
LetGo(p) ==
  /\ phase = "running" /\ p \in linked
  /\ Released(p, {})
  /\ IF p \in pid THEN EndPushed(p)
     ELSE linked' = linked \ {p} /\ callout' = callout \ {p} /\ UNCHANGED <<tasks, pushed>>
  /\ excused' = excused \cup {p}
  /\ UNCHANGED <<phase, got>>

\* YError: every task on the stack is discarded (ClearTasks).
Fault ==
  /\ phase = "running" /\ tasks # <<>>
  /\ tasks' = <<>>
  /\ excused' = excused \cup {tasks[i].proc : i \in DOMAIN tasks}
  /\ phase' = "pre"
  /\ UNCHANGED <<system, play, linked, callout, pushed, got>>

Loop ==
  \/ PreChild \/ PreNothing \/ Serve \/ PollReady \/ PollNothing
  \/ RunTask \/ LoopOn

\* Nothing is said of the event loop once it is "spoiled".
Next ==
  \/ \E p \in Procs : Write(p) \/ Exit(p) \/ Spawn(p) \/ Kill(p) \/ LetGo(p)
  \/ PreChild \/ PreNothing \/ Serve \/ PollReady \/ PollNothing
  \/ RunTask \/ Typed \/ LoopOn \/ Fault

Spec == Init /\ [][Next]_vars

\* The event loop goes round: nothing it calls blocks, and the interpreted code
\* ends.
FairSpec == Spec /\ WF_vars(Loop)

-----------------------------------------------------------------------------
(* Properties. *)

\* The type invariant of the spawned processes.
TypeOK ==
  /\ os \in [Procs -> {"none", "runs", "exited", "reaped"}]
  /\ wrote \in [Procs -> 0..MaxChunks]
  /\ pipe \in [Procs -> Seq(1..MaxChunks)]
  /\ pushed \in [Procs -> Seq(1..MaxChunks \cup {End})]
  /\ pid \subseteq Procs /\ linked \subseteq Procs /\ callout \subseteq linked
  /\ children \in Seq(Procs) /\ table \in Seq([proc : Procs, revents : BOOLEAN])
  /\ tasks \in Seq([proc : Procs, msg : 1..MaxChunks \cup {End}])
  /\ pre \in BOOLEAN /\ excused \subseteq Procs
  /\ phase \in {"pre", "scan", "idle", "running", "spoiled"}

\* No record is used that was freed and overwritten (u_spawf0, after the callback
\* of a process that ends).  It holds with yorick's own allocator.
FreedIntact == phase # "spoiled"

\* The event table, the list of children, the pre-poll conditional and the
\* spawn objects speak of the same processes, each once: nothing is polled that is
\* closed, and nothing open is forgotten.
Agree ==
  /\ \A i, j \in DOMAIN table : table[i].proc = table[j].proc => i = j
  /\ \A i, j \in DOMAIN children : children[i] = children[j] => i = j
  /\ {table[i].proc : i \in DOMAIN table} = Listed
  /\ Listed = linked /\ linked = callout
  /\ pre = (children # <<>>)
  /\ \A p \in Procs : os[p] \in {"runs", "exited"} => p \in Listed

\* The tables agree however processes end, until a freed record is used that had
\* been overwritten (u_event_src, u_spawf0, spawn_callback).
TablesAgree == phase # "spoiled" => Agree

\* on_stdout is asked to be called with what the process wrote, in the order it
\* was written, nothing twice and nothing left out; then, once, with string(0).
\* The move of an entry in the table, which may give one process the event of
\* another, does no harm to that.
PushedInOrder ==
  \A p \in Procs : \A k \in DOMAIN pushed[p] :
    pushed[p][k] # k => k = Len(pushed[p]) /\ pushed[p][k] = End

\* A process that exits does not stay a zombie, and its on_stdout is called with
\* string(0) in the end ("When the process terminates, ON_STDOUT is invoked with
\* string(0)", std.i), unless the user has let go of it, an error has discarded
\* its calls or an overwritten record has been used.
EndIsTold ==
  \A p \in Procs :
    (os[p] = "exited") ~>
      \/ os[p] = "reaped" /\ (End \in ToSet(got[p]) \/ p \in excused)
      \/ phase = "spoiled"

\* What a process writes reaches on_stdout, unless the process has come to its
\* end (OutputComplete says more, and fails), an error discarded calls or an
\* overwritten record has been used.
TextIsRead ==
  \A p \in Procs : \A k \in 1..MaxChunks :
    (wrote[p] >= k) ~>
      (k \in ToSet(got[p]) \/ os[p] = "reaped" \/ p \in excused \/ phase = "spoiled")

\* "Yorick will invoke ON_STDOUT asynchronously if process emits text to its
\* stdout" (std.i): it is called with all that a process wrote, in that order,
\* and then with string(0).
OutputComplete ==
  \A p \in Procs \ excused : \A k \in DOMAIN got[p] :
    \/ got[p][k] = k
    \/ got[p][k] = End /\ k = wrote[p] + 1
=============================================================================
