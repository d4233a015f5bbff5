------------------------------ MODULE MpyExec ------------------------------
(***************************************************************************)
(* The parallel tasks of mpy when nobody faults: mp_exec, mp_send, mp_recv *)
(* (mpy.c), mp_handout, mp_handin (mpy.i), the collective include          *)
(* (mpyfile.c) and the ring of testmp2 (testmp.i).                         *)
(*                                                                         *)
(* A collective operation is, on each rank, a sequence of message          *)
(* operations.  mp_exec on rank 0 sends a command down the tree and        *)
(* collects acknowledgements; a rank that got the command forwards it,     *)
(* acknowledges it, runs it, and waits for the next one.  Nothing in a     *)
(* message says what it is for: a receiver trusts that the next message of *)
(* a given sender is the one it waits for.  Here messages carry an id,     *)
(* which no action looks at.                                               *)
(*                                                                         *)
(* What happens once a rank faults is the subject of MpyRecover; here a    *)
(* recovery is one step, to what MpyHalt promises: everybody idle.  With   *)
(* one fault and no catch that is how it ends; with several, the alerts    *)
(* may cross, and an assertion of mpy_recover then ends the whole job      *)
(* (NeverFatal of MpyRecover).  A missing include file is such a case,     *)
(* since every rank faults by itself.  Catches, and batch mode, in which   *)
(* any fault ends the job, are left out.                                   *)
(***************************************************************************)
EXTENDS MpyTree, FiniteSets, Sequences, SequencesExt, FiniteSetsExt

CONSTANTS
  Programs,   \* the commands of rank 0: sequences of collective operations
  MaxTasks    \* bound on the number of commands

Operations == {"out", "in", "ring", "include"}
ASSUME ExecConstants ==
  MaxTasks \in Nat /\ \A p \in Programs : p \in Seq(Operations)

VARIABLES
  given,     \* the commands rank 0 has given so far
  task,      \* task[r]: which of them rank r runs, or waits for
  at,        \* at[r]: the operation of it r is in; 0 is mp_exec itself
  done,      \* done[r]: how many message operations of that r has done
  program,   \* program[r]: the command r has been given last
  net,       \* net[s][r]: messages from s to r that r has not received
  queue,     \* queue[r]: mpy_queue, received but not yet asked for
  waits,     \* the ranks whose mp_send waits for its isends
  top,       \* top[r]: the message to forward
  sum,       \* sum[r]: part of mp_handin, see Part
  faulted,   \* the ranks with an error
  met,       \* met[r]: the upward operations r has reached; on rank 0, completed
  aborted    \* mperr_fatal has ended the job

place == <<task, at, done>>
job == <<given, place, program, net, queue, waits, top, sum, faulted, met>>
vars == <<job, aborted>>

Id(kind, t, k) == [kind |-> kind, task |-> t, at |-> k]
Do(op, peers, id) == <<[do |-> op, peers |-> peers, id |-> id]>>
ToAll(op, peers, id) == IF peers = {} THEN <<>> ELSE Do(op, peers, id)

-----------------------------------------------------------------------------
(* The collective operations as sequences of message operations. *)

\* mpy_bcast(n > 0), mp_handout: receive from the boss, forward to the staff.
Down(r, id) ==
  (IF r = 0 THEN <<>> ELSE Do("recv", {Boss(r)}, id)) \o ToAll("forward", Staff(r), id)

\* Receive from each of the staff in turn.
FromStaff(r, id) ==
  [i \in 1..Cardinality(Staff(r)) |-> [do |-> "recv", peers |-> {r * Fan + i}, id |-> id]]
ToBoss(r, id) == IF r = 0 THEN <<>> ELSE Do("report", {Boss(r)}, id)

\* A faulty Up: reports before it has heard from the staff.
UpEarly(r, id) == ToBoss(r, id) \o FromStaff(r, id)

\* mpy_bcast(0), mp_handin: receive from the staff, then send to the boss.
Up(r, id) == FromStaff(r, id) \o ToBoss(r, id)

\* mp_exec: rank 0 is called with a command; the others wait for it.
Command(r, t) ==
  (IF r = 0 THEN Do("exec", {}, Id("cmd", t, 0)) ELSE <<>>)
    \o Down(r, Id("cmd", t, 0)) \o Up(r, Id("ack", t, 0))

\* A faulty Ring: everyone sends first.
RingAllSend(r, id) ==
  Do("send", {(r + 1) % Size}, id) \o Do("recv", {(r + Size - 1) % Size}, id)

\* testmp2 with n = 1: odd ranks receive first, even ranks send first.
Ring(r, id) ==
  LET to == Do("send", {(r + 1) % Size}, id)
      from == Do("recv", {(r + Size - 1) % Size}, id)
  IN  IF r % 2 = 1 THEN from \o to ELSE to \o from

\* mpy_on_include: rank 0 opens the file, sends it down, collects
\* acknowledgements, and each rank includes what it got.
Include(r, t, k) ==
  (IF r = 0 THEN Do("open", {}, Id("file", t, k)) ELSE <<>>)
    \o Down(r, Id("file", t, k)) \o Up(r, Id("read", t, k))
    \o Do("load", {}, Id("load", t, k))

Operation(op, r, t, k) ==
  CASE op = "exec" -> Command(r, t)
    [] op = "out" -> Down(r, Id("out", t, k))
    [] op = "in" -> Up(r, Id("in", t, k))
    [] op = "ring" -> Ring(r, Id("ring", t, k))
    [] op = "include" -> Include(r, t, k)

\* What rank r is doing, and the message operation it is at.
Plan(r) ==
  Operation(IF at[r] = 0 THEN "exec" ELSE program[r][at[r]], r, task[r], at[r])
Now(r) == Plan(r)[done[r] + 1]
Rest(r) == {Plan(r)[i] : i \in done[r] + 2 .. Len(Plan(r))}

-----------------------------------------------------------------------------
\* The part of rank r in an mp_handin: that the result has it, and how often.
Part(r) == [q \in Rank |-> IF q = r THEN 1 ELSE 0]
Plus(a, b) == [q \in Rank |-> a[q] + b[q]]

Init ==
  /\ given = <<>>
  /\ task = [r \in Rank |-> 1] /\ at = [r \in Rank |-> 0] /\ done = [r \in Rank |-> 0]
  /\ program = [r \in Rank |-> <<>>]
  /\ net = [s \in Rank |-> [r \in Rank |-> <<>>]]
  /\ queue = [r \in Rank |-> <<>>]
  /\ waits = {} /\ faulted = {} /\ aborted = FALSE
  /\ top = [r \in Rank |-> <<>>]
  /\ sum = [r \in Rank |-> Part(r)]
  /\ met = [r \in Rank |-> {}]

Works(r, ops) ==
  /\ r \notin faulted /\ r \notin waits
  /\ Now(r).do \in ops

\* The next message operation, the next operation of the command, or mpy_idler,
\* which calls mp_exec again.
Advance(r) ==
  IF done[r] + 1 < Len(Plan(r))
  THEN done' = [done EXCEPT ![r] = @ + 1] /\ UNCHANGED <<task, at>>
  ELSE /\ done' = [done EXCEPT ![r] = 0]
       /\ IF at[r] < Len(program[r])
          THEN at' = [at EXCEPT ![r] = @ + 1] /\ UNCHANGED task
          ELSE at' = [at EXCEPT ![r] = 0] /\ task' = [task EXCEPT ![r] = @ + 1]

\* Rank 0 calls mp_exec with a command.
Exec(command) ==
  /\ Works(0, {"exec"}) /\ Len(given) < MaxTasks
  /\ given' = Append(given, command)
  /\ program' = [program EXCEPT ![0] = command]
  /\ top' = [top EXCEPT ![0] = command]
  /\ Advance(0)
  /\ UNCHANGED <<net, queue, waits, sum, faulted, met>>

\* mpy_get_next, called by mp_recv: receives a message of whoever it is from
\* and queues it.
Get(r, s) ==
  /\ net[s][r] # <<>> /\ Works(r, {"recv"})
  /\ net' = [net EXCEPT ![s][r] = Tail(@)]
  /\ queue' = [queue EXCEPT ![r] = Append(@, [from |-> s, msg |-> Head(net[s][r])])]
  /\ UNCHANGED <<given, place, program, waits, top, sum, faulted, met>>

\* A faulty Oldest: finds the latest message of the sender.
Latest(r, s) ==
  CHOOSE k \in DOMAIN queue[r] :
    queue[r][k].from = s /\ \A l \in DOMAIN queue[r] : queue[r][l].from = s => l <= k

\* The places in the queue of the messages of rank s, and the one mp_recv takes.
Places(r, s) == {k \in DOMAIN queue[r] : queue[r][k].from = s}
Oldest(r, s) == Min(Places(r, s))

\* A faulty Reduced: keeps the sum of an earlier mp_handin.
ReducedOn(r, s, value) == Plus(sum[r], value)

\* A faulty Reduced: keeps what the last of the staff sent, only.
ReducedLast(r, s, value) == Plus(Part(r), value)

\* What mp_handin adds up: the parts of the staff come to that of rank r.
Reduced(r, s, value) ==
  Plus(IF s = r * Fan + 1 THEN Part(r) ELSE sum[r], value)

\* The upward operations rank 0 has completed when `rest' is what it still has
\* to do of the operation.
Completed(id, rest) ==
  IF id.kind \in {"ack", "read", "in"} /\ \A m \in rest : m.id # id THEN {id} ELSE {}

\* mp_recv finds a message of the sender it asks for in the queue.
Take(r) ==
  /\ Works(r, {"recv"})
  /\ \E s \in Now(r).peers :
       /\ Places(r, s) # {}
       /\ LET id == Now(r).id
              m == queue[r][Oldest(r, s)].msg IN
            /\ queue' = [queue EXCEPT ![r] = RemoveAt(@, Oldest(r, s))]
            /\ program' = (IF id.kind = "cmd"
                           THEN [program EXCEPT ![r] = m.value] ELSE program)
            /\ top' = (IF id.kind \in {"cmd", "out", "file"}
                       THEN [top EXCEPT ![r] = m.value] ELSE top)
            /\ sum' = (IF id.kind = "in"
                       THEN [sum EXCEPT ![r] = Reduced(r, s, m.value)] ELSE sum)
            /\ met' = (IF r = 0 THEN [met EXCEPT ![0] = @ \cup Completed(id, Rest(0))]
                       ELSE met)
  /\ Advance(r)
  /\ UNCHANGED <<given, net, waits, faulted>>

\* What a message contains: what is forwarded, the sum so far, or a token.
Content(r, h) ==
  CASE h.do = "forward" -> top[r]
    [] h.do = "report" /\ h.id.kind = "in" -> IF Staff(r) = {} THEN Part(r) ELSE sum[r]
    [] OTHER -> 1

\* mpy_send: an isend to each destination.  MPI takes them at once, or mp_send
\* waits until they are received.
Send(r) ==
  /\ Works(r, {"forward", "report", "send"})
  /\ LET h == Now(r) IN
       /\ net' = [net EXCEPT ![r] = [p \in Rank |->
            IF p \in h.peers THEN Append(@[p], [id |-> h.id, value |-> Content(r, h)])
            ELSE @[p]]]
       /\ met' = (IF h.do = "report" THEN [met EXCEPT ![r] = @ \cup {h.id}] ELSE met)
  /\ \/ Advance(r) /\ UNCHANGED waits
     \/ waits' = waits \cup {r} /\ UNCHANGED place
  /\ UNCHANGED <<given, program, queue, top, sum, faulted>>

SendDone(r) ==
  /\ r \in waits /\ r \notin faulted
  /\ \A p \in Now(r).peers : net[r][p] = <<>>
  /\ waits' = waits \ {r}
  /\ Advance(r)
  /\ UNCHANGED <<given, program, net, queue, top, sum, faulted, met>>

\* Rank 0 reads the file of a collective include, or finds none, or faults
\* because it cannot read it: before anything is sent.
Open(outcome) ==
  /\ Works(0, {"open"})
  /\ IF outcome = "unreadable"
     THEN faulted' = faulted \cup {0} /\ UNCHANGED <<place, top>>
     ELSE Advance(0) /\ top' = [top EXCEPT ![0] = <<outcome>>] /\ UNCHANGED faulted
  /\ UNCHANGED <<given, program, net, queue, waits, sum, met>>

\* A rank includes the text, or faults because there is no file.
Load(r) ==
  /\ Works(r, {"load"})
  /\ IF top[r] = <<"missing">>
     THEN faulted' = faulted \cup {r} /\ UNCHANGED place
     ELSE Advance(r) /\ UNCHANGED faulted
  /\ UNCHANGED <<given, program, net, queue, waits, top, sum, met>>

\* Everybody is in mpy_idler, ready for the next mp_exec.
Rests ==
  /\ task' = [r \in Rank |-> Len(given) + 1]
  /\ at' = [r \in Rank |-> 0] /\ done' = [r \in Rank |-> 0]

\* A faulty Recover: the queue is kept.
RecoverKeepQueue ==
  /\ faulted # {}
  /\ faulted' = {} /\ waits' = {} /\ Rests
  /\ net' = [s \in Rank |-> [r \in Rank |-> <<>>]]
  /\ UNCHANGED <<given, program, queue, top, sum, met>>

\* Error recovery that ends as MpyHalt promises: no message is left, everybody
\* is idle and ready for the next mp_exec.
Recover ==
  /\ faulted # {}
  /\ faulted' = {} /\ waits' = {} /\ Rests
  /\ net' = [s \in Rank |-> [r \in Rank |-> <<>>]]
  /\ queue' = [r \in Rank |-> <<>>]
  /\ UNCHANGED <<given, program, top, sum, met>>

Outcomes == {"found", "missing", "unreadable"}
RankStep(r) ==
  \/ \E s \in Rank : Get(r, s)
  \/ Take(r)
  \/ Send(r)
  \/ SendDone(r)
  \/ Load(r)

\* The alert of one rank reaches another that already waits for the reports of
\* its staff, "expecting id=3 or id=4 message": MPI_Abort (mpy.c:990).
Abort == Cardinality(faulted) > 1 /\ aborted' = TRUE /\ UNCHANGED job

Lives(A) == ~aborted /\ A /\ UNCHANGED aborted
JobStep ==
  \/ \E command \in Programs : Exec(command)
  \/ \E r \in Rank : RankStep(r)
  \/ \E outcome \in Outcomes : Open(outcome)
  \/ Recover

Next == Lives(JobStep) \/ (~aborted /\ Abort)

Spec == Init /\ [][Next]_vars

\* Every rank is a process of its own; messages arrive; the recovery ends,
\* unless it ends the job.
FairSpec ==
  /\ Spec
  /\ \A r \in Rank : WF_vars(Lives(RankStep(r)))
  /\ WF_vars(Lives(\E outcome \in Outcomes : Open(outcome)))
  /\ WF_vars(Lives(Recover))

-----------------------------------------------------------------------------
(* Properties. *)

\* The type invariant of the parallel tasks.  A part is in a sum at most once.
TypeOK ==
  /\ given \in Seq(Programs) /\ Len(given) <= MaxTasks
  /\ \A r \in Rank : /\ task[r] \in 1 .. Len(given) + 1 /\ at[r] \in Nat
                     /\ done[r] \in 0 .. Len(Plan(r)) - 1
                     /\ Now(r).peers \subseteq Rank \ {r}
  /\ \A r \in Rank : \A k \in DOMAIN queue[r] : queue[r][k].from \in Rank \ {r}
  /\ \A r \in Rank : net[r][r] = <<>>
  /\ waits \subseteq Rank /\ faulted \subseteq Rank /\ aborted \in BOOLEAN
  /\ sum \in [Rank -> [Rank -> {0, 1}]]

\* The messages of s that r has not asked for yet; the next of them.
Waiting(s, r) == Places(r, s) # {} \/ net[s][r] # <<>>
Coming(s, r) == IF Places(r, s) # {} THEN queue[r][Oldest(r, s)].msg ELSE Head(net[s][r])

\* What a rank receives is what it waits for: the next message of the sender it
\* names was sent for this operation of this task, although ranks run ahead of
\* each other, also into the next task.
NoCrosstalk ==
  \A r \in Rank :
    Now(r).do = "recv" =>
      \A s \in Now(r).peers : Waiting(s, r) => Coming(s, r).id = Now(r).id

\* "When rank 0 continues after such a call, you know that every other rank has
\* reached that point" (README, mp_handin); also for the acknowledgements of
\* mp_exec and of an include.
Synchronizes == \A id \in met[0] : \A r \in Rank \ {0} : id \in met[r]

\* On rank 0 mp_handin returns the sum over all ranks, each counted once.
TotalRight ==
  [][\A id \in met'[0] \ met[0] :
       id.kind = "in" => sum'[0] = [r \in Rank |-> 1]]_vars

Idle ==
  /\ faulted = {}
  /\ \A r \in Rank : task[r] = Len(given) + 1 /\ at[r] = 0 /\ done[r] = 0

\* When all ranks are back in their idle loops no message is left, in the
\* network or in a queue, for the next task to stumble on.
NothingLeft ==
  Idle => \A r \in Rank : queue[r] = <<>> /\ \A s \in Rank : net[s][r] = <<>>

\* Whatever rank 0 starts ends with every rank back in its idle loop, also when
\* mp_send waits until its messages are received; or several ranks have faulted
\* in it and the recovery has ended the job.
AllReturn == []<>(Idle \/ aborted)
=============================================================================
