---------------------------- MODULE MpyRecover ----------------------------
(***************************************************************************)
(* The error recovery protocol of mpy (mpy.c): how a fault on one rank of  *)
(* a parallel task stops the task on every rank, empties the network of    *)
(* the task's messages, and returns every rank to its idle loop.           *)
(*                                                                         *)
(* A rank runs its part of the task (phase "task"), is inside mp_send      *)
(* ("sending"), waits for the next mp_exec ("idle"; on rank 0: serial      *)
(* mode), or is inside mpy_recover.  The phases of mpy_recover, in order:  *)
(*   drain       first loop: drop what has arrived, collect alerts (926)   *)
(*   alert       alert sent to the boss, waiting for id=2 (945, block 3)   *)
(*   alertdrain  id=2 has come, dropping what else arrived (block 4)       *)
(*   tally       id=2 passed to the staff, waiting for their id=3 (971)    *)
(*   clear       id=3 sent, blocked in MPI_Probe until something comes     *)
(*   clearing    dropping and counting what has arrived (1019)             *)
(*   ack         id=5 passed to the staff, waiting for their id=6 (1057)   *)
(*   leaving     id=6 sent, waiting for that send to complete (1080)       *)
(*                                                                         *)
(* MPI is modelled as the code uses it: one FIFO channel per ordered pair  *)
(* of ranks; a probe for any source may find the head of any channel that  *)
(* is not empty, and a probe that does not block may miss a message that   *)
(* is still on its way; a receive for one tag skips messages with other    *)
(* tags.  MPI may complete a send early, by buffering the message, or only *)
(* when it is received: SyncData and SyncControl choose, for the two kinds *)
(* of message.                                                             *)
(***************************************************************************)
EXTENDS MpyTree, MpyCodec, SequencesExt

CONSTANTS
  MaxSends,       \* bound: data messages sent in one behaviour
  MaxFaults,      \* bound: faults raised before rank 0 is back in serial mode
  Faulters,       \* the ranks whose interpreted code may fault
  SyncData,       \* data sends complete only when received
  SyncControl,    \* control sends complete only when received
  Catchers        \* ranks whose task runs under a catch of category 8

ASSUME BoundsAssumption ==
  /\ MaxSends \in Nat /\ MaxFaults \in Nat
  /\ SyncData \in BOOLEAN /\ SyncControl \in BOOLEAN
  /\ Catchers \subseteq Rank /\ Faulters \subseteq Rank

\* The arguments of control messages are ranks and message counts.  They
\* are transmitted unharmed only below 64 (see MpyCodec).
ASSUME SmallAssumption == Size <= 63 /\ MaxSends <= 63

VARIABLES
  phase,      \* where each rank is, see above
  chan,       \* chan[q][r]: the messages in transit from q to r
  mpyNet,     \* mpy_net: data messages sent minus received
  mpyQueue,   \* mpy_queue: the sources of the messages received but unread
  msg,        \* mperr_msg, decoded: the last control message
  quiet,      \* mperr_quiet
  isends,     \* requests in mpy_request[1..]: data sends not seen to finish
  slots,      \* s of mpy_recover, the requests it knows of, plus one
  id0, nid1, mid1, frank, tally, net, count, heard,  \* locals of mpy_recover
  fatal,      \* the reason some rank called MPI_Abort, or "none"
  sends,      \* data messages sent so far
  faulted     \* ranks whose interpreted code has faulted since rank 0 was idle

locals == <<id0, nid1, mid1, frank, tally, net, count, heard>>
vars == <<phase, chan, mpyNet, mpyQueue, msg, quiet, isends, slots,
          locals, fatal, sends, faulted>>

-----------------------------------------------------------------------------
(* Messages and channels.                                                  *)

\* A data message: its type and contents do not matter here.  Tag 0 cannot
\* be confused with a control id: id 0 never leaves mpy_control_irecv.
Data == [id |-> 0, n1 |-> 0, n2 |-> 0]

\* A control message as its receiver decodes it.
Control(id, n1, n2) == [id |-> id, n1 |-> Carried(n1), n2 |-> Carried(n2)]

Has(q, r) == chan[q][r] # <<>>
HasData(q, r) == Has(q, r) /\ Head(chan[q][r]) = Data
HasControl(q, r) == Has(q, r) /\ Head(chan[q][r]) # Data

\* r takes the oldest message of q.
Received(q, r) == [chan EXCEPT ![q][r] = Tail(@)]

\* c after r has sent m to every rank of D.
Sent(c, r, D, m) ==
  [c EXCEPT ![r] = [q \in Rank |-> IF q \in D THEN Append(@[q], m) ELSE @[q]]]

\* A control message from r to q is unreceived.
ControlPending(r, q) == \E i \in DOMAIN chan[r][q] : chan[r][q][i] # Data

\* The send of r's last message to its boss has completed: where MPI_Wait in
\* mperr_to_boss returns.
BossSendDone(r) == (SyncControl /\ r # 0) => ~ControlPending(r, Boss(r))

\* MPI_Test finds every send to the staff complete, as mperr_to_staff needs.
StaffSendsDone(r) == SyncControl => \A q \in Staff(r) : ~ControlPending(r, q)

\* The data sends of r that MPI has not completed.
Incomplete(r) ==
  IF SyncData
  THEN Cardinality({q \in Rank :
         \E i \in DOMAIN chan[r][q] : chan[r][q][i] = Data})
  ELSE 0

\* The assertions of mpy_recover and its helpers: what mperr_fatal prints.  Not
\* here are the calls that follow an error of MPI itself, and the two on how
\* mpy_recover is entered (mpy.c:915, 920): "recursive call to mpy_recover"
\* takes an error raised inside mpy_recover, and "mpy_recover began with
\* outstanding control irecv" one inside the wait of mpy_send, such as SIGINT or
\* a failure to allocate would raise; errors are raised by tasks only here.
Reasons ==
  {"impossible initial control message", "bad initial control message",
   "impossible control message (2)", "id=3 or id=4 message from non-staff",
   "expecting id=3 or id=4 message", "got multiple id=3 messages",
   "got id=4 message before id=3", "outstanding count < 0",
   "impossible control message (4)", "impossible control message (5)",
   "incomplete isend after recovery", "incomplete send in mperr_to_staff",
   "MPI_Waitsome ncomplete failed", "fault-rank protocol not implemented",
   "id=6 message from non-staff", "expecting id=6 message",
   "got multiple id=6 messages"}

\* MPI_Abort: every process is killed.
Die(reason) ==
  /\ fatal' = reason
  /\ UNCHANGED <<phase, chan, mpyNet, mpyQueue, msg, quiet, isends, slots,
                 locals, sends, faulted>>

\* `if (s > 1) s = mpy_isend_wait(s, 1)` with a requests in the table, of which
\* s says how many are known: MPI_Testsome finds some of them complete.  When
\* it finds none, mpy_isend_wait returns 0 and not s.
TestsomeOf(r, a, s) ==
  IF s <= 1
  THEN isends' = [isends EXCEPT ![r] = a] /\ slots' = [slots EXCEPT ![r] = s]
  ELSE \E k \in 0 .. a :
         /\ k <= Incomplete(r)
         /\ isends' = [isends EXCEPT ![r] = k]
         /\ slots' = [slots EXCEPT ![r] = IF k = a THEN 0 ELSE k + 1]

\* The wait loops of mpy_recover call it on every turn; `more` says whether
\* the loop goes on.
Testsome(r, more) ==
  IF more THEN TestsomeOf(r, isends[r], slots[r])
          ELSE UNCHANGED <<isends, slots>>

-----------------------------------------------------------------------------
(* What a rank in mpy_recover knows.                                       *)

\* The fault rank as far as r knows after the control message m.
VerdictLast(r, m) == m.n1
Verdict(r, m) == IF m.id = 2 THEN m.n1 ELSE frank[r]

\* Every rank of the staff has sent id=3 ...
SomeReported(r) == \E p \in Rank : tally[r][p] # 0 \/ Staff(r) = {}
AllReported(r) == \A p \in Staff(r) : tally[r][p] # 0

\* ... and, in the end, id=6.
SomeAcked(r) == \E p \in Rank : tally[r][p] = 2 \/ Staff(r) = {}
AllAcked(r) == \A p \in Staff(r) : tally[r][p] = 2

\* Data messages dropped here, or reported by the staff, since the last report.
DroppedShort(r) == count[r] - mpyNet[r] - 1
Dropped(r) == count[r] - mpyNet[r]

\* Data messages sent and not received, in the subtree of r.
SubtreeNetOwn(r) == mpyNet[r]
SubtreeNet(r) == net[r] + mpyNet[r]

\* Rank 0 ends the recovery.
NoneOutstandingSoon == net[0] <= 1
NoneOutstanding == net[0] = 0

\* `id`, which starts each clearing pass as 4.
HeardStale(r) == IF phase[r] = "clear" THEN msg[r].id ELSE heard[r]
Heard(r) == IF phase[r] = "clear" THEN 4 ELSE heard[r]

\* mpy_queue after the first mpy_get_next(4).
QueueKept(r) == mpyQueue[r]
QueueLeft(r) == <<>>

-----------------------------------------------------------------------------
(* The parallel task and the idle loop.                                    *)

Working == {"task", "sending"}
Halting == {"drain", "alert", "alertdrain", "tally", "clear", "clearing",
            "ack", "leaving"}

\* mp_send of one message to each rank of D: the control irecv is posted and
\* the isends started.
StartSend(r, D) ==
  /\ sends + Cardinality(D) <= MaxSends
  /\ sends' = sends + Cardinality(D)
  /\ chan' = Sent(chan, r, D, Data)
  /\ mpyNet' = [mpyNet EXCEPT ![r] = @ + Cardinality(D)]
  /\ isends' = [isends EXCEPT ![r] = Cardinality(D)]
  /\ phase' = [phase EXCEPT ![r] = "sending"]
  /\ quiet' = [quiet EXCEPT ![r] = FALSE]
  /\ UNCHANGED <<msg, slots, locals, fatal, faulted>>

MpSend(r, D) ==
  /\ phase[r] = "task" /\ D # {}
  /\ StartSend(r, D)
  /\ UNCHANGED mpyQueue

\* All isends have completed and the control irecv, cancelled by a message
\* to itself, has received just that message.
SendDone(r) ==
  /\ phase[r] = "sending" /\ Incomplete(r) = 0
  /\ phase' = [phase EXCEPT ![r] = "task"]
  /\ isends' = [isends EXCEPT ![r] = 0]
  /\ UNCHANGED <<chan, mpyNet, mpyQueue, msg, quiet, slots, locals, fatal,
                 sends, faulted>>

\* The start of mpy_recover: m is in mperr_msg, own says whether r faulted
\* itself, a is the number of requests in the table.  The first pass of the
\* drain loop belongs to it: m is counted, finished isends are dropped, and
\* the first mpy_get_next(4) discards the queue.
Begin(r, m, own, a) ==
  IF m.id \notin {1, 2}
  THEN /\ fatal' = "impossible initial control message"
       /\ UNCHANGED <<phase, mpyQueue, msg, quiet, isends, slots, locals>>
  ELSE /\ phase' = [phase EXCEPT ![r] = "drain"]
       /\ mpyQueue' = [mpyQueue EXCEPT ![r] = QueueLeft(r)]
       /\ msg' = [msg EXCEPT ![r] = m]
       /\ quiet' = [quiet EXCEPT ![r] = FALSE]
       /\ id0' = [id0 EXCEPT ![r] = m.id]
       /\ nid1' = [nid1 EXCEPT ![r] = IF m.id = 1 THEN 1 ELSE 0]
       /\ mid1' = [mid1 EXCEPT ![r] = IF own THEN 1 ELSE 0]
       /\ frank' = [frank EXCEPT ![r] = IF m.id = 2 THEN m.n1 ELSE -1]
       /\ tally' = [tally EXCEPT ![r] = [q \in Rank |-> 0]]
       /\ TestsomeOf(r, a, a + 1)
       /\ UNCHANGED <<net, count, heard, fatal>>

\* Interpreted code on r raises an error.  Rank 0 in serial mode is not here:
\* mpy_recover leaves its errors to the ordinary handling.  With mperr_quiet
\* left set by a caught alert, the error passes for a control message.
Fault(r) ==
  /\ phase[r] = "task" /\ r \in Faulters
  /\ faulted' = faulted \cup {r} /\ Cardinality(faulted') <= MaxFaults
  /\ IF quiet[r] THEN Begin(r, msg[r], FALSE, isends[r])
                 ELSE Begin(r, Control(1, r, 0), TRUE, isends[r])
  /\ UNCHANGED <<chan, mpyNet, sends>>

\* mpy_get_next(0..2) inside mp_recv or mp_probe moves a message to the queue.
Enqueue(r, q) ==
  /\ phase[r] \in {"task", "idle"} /\ HasData(q, r)
  /\ chan' = Received(q, r)
  /\ mpyNet' = [mpyNet EXCEPT ![r] = @ - 1]
  /\ mpyQueue' = [mpyQueue EXCEPT ![r] = Append(@, q)]
  /\ quiet' = [quiet EXCEPT ![r] = FALSE]
  /\ UNCHANGED <<phase, msg, isends, slots, locals, fatal, sends, faulted>>

\* mpy_push_next takes the oldest message of one source out of the queue.
Dequeue(r, from) ==
  \E i \in DOMAIN mpyQueue[r] :
    /\ mpyQueue[r][i] = from
    /\ \A j \in 1 .. i - 1 : mpyQueue[r][j] # from
    /\ mpyQueue' = [mpyQueue EXCEPT ![r] = RemoveAt(@, i)]

MpRecv(r, from) ==
  /\ phase[r] = "task"
  /\ Dequeue(r, from)
  /\ quiet' = [quiet EXCEPT ![r] = FALSE]
  /\ UNCHANGED <<phase, chan, mpyNet, msg, isends, slots, locals, fatal,
                 sends, faulted>>

\* mpy_get_next(0..2) receives a control message and longjmps, through
\* YError, into mpy_recover.
HearControl(r, q) ==
  /\ phase[r] \in {"task", "idle"} /\ HasControl(q, r)
  /\ chan' = Received(q, r)
  /\ Begin(r, Head(chan[q][r]), FALSE, isends[r])
  /\ UNCHANGED <<mpyNet, sends, faulted>>

\* The same inside a catch of category 8: YError scans the catchers before it
\* calls y_errhook, so the task goes on and mpy_recover is never entered.
HearCaught(r, q) ==
  /\ r \in Catchers /\ phase[r] = "task" /\ HasControl(q, r)
  /\ chan' = Received(q, r)
  /\ msg' = [msg EXCEPT ![r] = Head(chan[q][r])]
  /\ quiet' = [quiet EXCEPT ![r] = TRUE]
  /\ UNCHANGED <<phase, mpyNet, mpyQueue, isends, slots, locals, fatal, sends,
                 faulted>>

\* The control irecv of mp_send matches: the first control message of q,
\* whatever data is ahead of it.  Sends already started stay outstanding.
SendInterrupted(r, q) ==
  /\ phase[r] = "sending"
  /\ \E i \in DOMAIN chan[q][r] :
       /\ chan[q][r][i] # Data
       /\ \A j \in 1 .. i - 1 : chan[q][r][j] = Data
       /\ chan' = [chan EXCEPT ![q][r] = RemoveAt(@, i)]
       /\ \E a \in 0 .. Incomplete(r) : Begin(r, chan[q][r][i], FALSE, a)
  /\ UNCHANGED <<mpyNet, sends, faulted>>

\* r finishes its part of the task; rank 0 returns to serial mode.
Finish(r) ==
  /\ phase[r] = "task"
  /\ phase' = [phase EXCEPT ![r] = "idle"]
  /\ UNCHANGED <<chan, mpyNet, mpyQueue, msg, quiet, isends, slots, locals,
                 fatal, sends, faulted>>

\* mp_exec on rank 0 in serial mode: mpy_bcast(1) to the staff.
MpExec ==
  /\ phase[0] = "idle"
  /\ StartSend(0, Staff(0))
  /\ UNCHANGED mpyQueue

\* mp_exec in the idle loop of another rank: the command of the boss is taken
\* out of the queue and passed on.
MpExecIdle(r) ==
  /\ r # 0 /\ phase[r] = "idle"
  /\ Dequeue(r, Boss(r))
  /\ IF Staff(r) # {} THEN StartSend(r, Staff(r))
     ELSE /\ phase' = [phase EXCEPT ![r] = "task"]
          /\ quiet' = [quiet EXCEPT ![r] = FALSE]
          /\ UNCHANGED <<chan, mpyNet, msg, isends, slots, locals, fatal,
                         sends, faulted>>

-----------------------------------------------------------------------------
(* mpy_recover.                                                            *)

\* mpy_get_next(3) or (4) receives a data message and throws it away.
Discard(r, q) ==
  /\ \/ phase[r] \in {"drain", "alert", "alertdrain"}
     \/ phase[r] = "ack" /\ ~AllAcked(r)
     \/ phase[r] = "tally" /\ ~AllReported(r)
  /\ HasData(q, r)
  /\ chan' = Received(q, r)
  /\ mpyNet' = [mpyNet EXCEPT ![r] = @ - 1]
  /\ UNCHANGED <<phase, mpyQueue, msg, quiet, isends, slots, locals, fatal,
                 sends, faulted>>

\* The drain loop receives another control message.
DrainControl(r, q) ==
  /\ phase[r] = "drain" /\ HasControl(q, r)
  /\ LET m == Head(chan[q][r])
     IN  IF m.id \notin {1, 2}
         THEN Die("impossible initial control message")
         ELSE /\ chan' = Received(q, r)
              /\ msg' = [msg EXCEPT ![r] = m]
              /\ id0' = [id0 EXCEPT ![r] = IF @ < m.id THEN m.id ELSE @]
              /\ nid1' = [nid1 EXCEPT ![r] = IF m.id = 1 THEN @ + 1 ELSE @]
              /\ frank' = [frank EXCEPT ![r] = Verdict(r, m)]
              /\ Testsome(r, TRUE)
              /\ UNCHANGED <<phase, mpyNet, mpyQueue, quiet, mid1, tally, net,
                             count, heard, fatal, sends, faulted>>

\* Pass id=2, naming the fault rank f, to the staff.
Spread(r, f) ==
  /\ chan' = Sent(chan, r, Staff(r), Control(2, f, 0))
  /\ frank' = [frank EXCEPT ![r] = f]
  /\ net' = [net EXCEPT ![r] = 0]
  /\ phase' = [phase EXCEPT ![r] = "tally"]
  /\ Testsome(r, Staff(r) # {})
  /\ UNCHANGED <<mpyNet, mpyQueue, msg, quiet, id0, nid1, mid1, tally, count,
                 heard, fatal, sends, faulted>>

\* Whether mpy_recover, its network drained, still has to alert the boss.
MustAlertAny(r) == r # 0
MustAlert(r) == r # 0 /\ id0[r] = 1

\* The drain loop finds nothing more.  Without id=2 so far, the latest alert
\* goes to the boss; on rank 0 it makes the fault rank.
DrainEmpty(r) ==
  /\ phase[r] = "drain"
  /\ IF MustAlert(r)
     THEN /\ chan' = Sent(chan, r, {Boss(r)}, msg[r])
          /\ phase' = [phase EXCEPT ![r] = "alert"]
          /\ Testsome(r, TRUE)
          /\ UNCHANGED <<mpyNet, mpyQueue, msg, quiet, locals, fatal, sends,
                         faulted>>
     ELSE IF r # 0 THEN Spread(r, frank[r])
     ELSE IF id0[0] = 1 THEN Spread(0, msg[0].n1)
     ELSE Die("bad initial control message")

\* Waiting for id=2, and dropping what else has arrived once it is here.
AlertControl(r, q) ==
  /\ phase[r] \in {"alert", "alertdrain"} /\ HasControl(q, r)
  /\ LET m == Head(chan[q][r])
     IN  IF m.id \notin {1, 2}
         THEN Die("impossible control message (2)")
         ELSE /\ chan' = Received(q, r)
              /\ msg' = [msg EXCEPT ![r] = m]
              /\ nid1' = [nid1 EXCEPT ![r] = IF m.id = 1 THEN @ + 1 ELSE @]
              /\ frank' = [frank EXCEPT ![r] = Verdict(r, m)]
              /\ phase' = [phase EXCEPT ![r] =
                             IF m.id = 2 THEN "alertdrain" ELSE @]
              /\ Testsome(r, TRUE)
              /\ UNCHANGED <<mpyNet, mpyQueue, quiet, id0, mid1, tally, net,
                             count, heard, fatal, sends, faulted>>

AlertEmpty(r) ==
  /\ phase[r] = "alertdrain"
  /\ Spread(r, frank[r])

\* Waiting for id=3 from every rank of the staff.
TallyControl(r, q) ==
  /\ phase[r] = "tally" /\ ~AllReported(r) /\ HasControl(q, r)
  /\ LET m == Head(chan[q][r])
     IN  IF q \notin Staff(r)
         THEN Die("id=3 or id=4 message from non-staff")
         ELSE IF m.id \notin {3, 4}
         THEN Die("expecting id=3 or id=4 message")
         ELSE IF m.id = 3 /\ tally[r][q] # 0
         THEN Die("got multiple id=3 messages")
         ELSE IF m.id = 4 /\ tally[r][q] = 0
         THEN Die("got id=4 message before id=3")
         ELSE /\ chan' = Received(q, r)
              /\ msg' = [msg EXCEPT ![r] = m]
              /\ IF m.id = 3
                 THEN /\ tally' = [tally EXCEPT ![r][q] = 1]
                      /\ net' = [net EXCEPT ![r] = @ + m.n1]
                      /\ mid1' = [mid1 EXCEPT ![r] = @ + m.n2]
                 ELSE /\ net' = [net EXCEPT ![r] = @ - m.n1]
                      /\ UNCHANGED <<tally, mid1>>
              /\ Testsome(r, \E p \in Staff(r) : tally'[r][p] = 0)
              /\ UNCHANGED <<phase, mpyNet, mpyQueue, quiet, id0, nid1, frank,
                             count, heard, fatal, sends, faulted>>

\* All staff have reported: id=3, with the net count of the subtree, goes to
\* the boss as soon as the previous message to the boss has left.
Report(r) ==
  /\ phase[r] = "tally" /\ AllReported(r)
  /\ BossSendDone(r)
  /\ net' = [net EXCEPT ![r] = SubtreeNet(r)]
  /\ chan' = IF r = 0 THEN chan
             ELSE Sent(chan, r, {Boss(r)}, Control(3, SubtreeNet(r), nid1[r]))
  /\ count' = [count EXCEPT ![r] = mpyNet[r]]
  /\ phase' = [phase EXCEPT ![r] = "clear"]
  /\ UNCHANGED <<mpyNet, mpyQueue, msg, quiet, isends, slots, id0, nid1, mid1,
                 frank, tally, heard, fatal, sends, faulted>>

\* `if (s > 1)` after the last pass: of the isends mpy_recover still knows of,
\* some but not all are found complete.
CannotFinish(r) == slots[r] > 1 /\ Incomplete(r) \in 1 .. isends[r] - 1

\* Pass id=5 on to the staff; the sends of id=2 must have completed.
PassCleared(r) ==
  IF ~StaffSendsDone(r) THEN Die("incomplete send in mperr_to_staff")
  ELSE IF CannotFinish(r) THEN Die("incomplete isend after recovery")
  ELSE /\ chan' = Sent(chan, r, Staff(r), Control(5, 0, 0))
       /\ phase' = [phase EXCEPT ![r] = "ack"]
       /\ Testsome(r, TRUE) /\ slots'[r] <= 1
       /\ UNCHANGED <<mpyNet, mpyQueue, msg, quiet, locals, fatal, sends,
                      faulted>>

\* Rank 0 at the top of its loop: nothing is outstanding, or more has been
\* received than was ever sent.
Complete ==
  /\ phase[0] = "clear" /\ (NoneOutstanding \/ net[0] < 0)
  /\ IF NoneOutstanding THEN PassCleared(0) ELSE Die("outstanding count < 0")

\* MPI_Probe returns, or a later mpy_get_next(4) of the same pass finds more.
CanClear(r) ==
  \/ phase[r] = "clear" /\ (r = 0 => net[0] > 0)
  \/ phase[r] = "clearing"

ClearData(r, q) ==
  /\ CanClear(r) /\ HasData(q, r)
  /\ chan' = Received(q, r)
  /\ mpyNet' = [mpyNet EXCEPT ![r] = @ - 1]
  /\ heard' = [heard EXCEPT ![r] = Heard(r)]
  /\ phase' = [phase EXCEPT ![r] = "clearing"]
  /\ Testsome(r, phase[r] = "clear")
  /\ UNCHANGED <<mpyQueue, msg, quiet, id0, nid1, mid1, frank, tally, net,
                 count, fatal, sends, faulted>>

ClearControl(r, q) ==
  /\ CanClear(r) /\ HasControl(q, r)
  /\ LET m == Head(chan[q][r])
     IN  IF m.id \notin {4, 5}
         THEN Die("impossible control message (4)")
         ELSE /\ chan' = Received(q, r)
              /\ msg' = [msg EXCEPT ![r] = m]
              /\ heard' = [heard EXCEPT ![r] = m.id]
              /\ count' = [count EXCEPT ![r] =
                             IF m.id = 4 THEN @ + m.n1 ELSE @]
              /\ phase' = [phase EXCEPT ![r] = "clearing"]
              /\ Testsome(r, phase[r] = "clear")
              /\ UNCHANGED <<mpyNet, mpyQueue, quiet, id0, nid1, mid1, frank,
                             tally, net, fatal, sends, faulted>>

\* The end of a pass with nothing to report.
ClearEmpty(r) ==
  /\ phase[r] = "clearing" /\ mpyNet[r] >= count[r]
  /\ IF heard[r] = 5
     THEN IF msg[r].n1 = 0 THEN PassCleared(r)
          ELSE Die("fault-rank protocol not implemented")
     ELSE /\ phase' = [phase EXCEPT ![r] = "clear"]
          /\ UNCHANGED <<chan, mpyNet, mpyQueue, msg, quiet, isends, slots,
                         locals, fatal, sends, faulted>>

\* The end of a pass in which data was dropped, here or below: report it.
ClearReport(r) ==
  /\ phase[r] = "clearing" /\ mpyNet[r] < count[r]
  /\ IF heard[r] = 5 THEN Die("impossible control message (5)")
     ELSE /\ BossSendDone(r)
          /\ chan' = IF r = 0 THEN chan
                     ELSE Sent(chan, r, {Boss(r)}, Control(4, Dropped(r), 0))
          /\ net' = [net EXCEPT ![r] = @ - Dropped(r)]
          /\ count' = [count EXCEPT ![r] = mpyNet[r]]
          /\ phase' = [phase EXCEPT ![r] = "clear"]
          /\ UNCHANGED <<mpyNet, mpyQueue, msg, quiet, isends, slots, id0,
                         nid1, mid1, frank, tally, heard, fatal, sends, faulted>>

\* Waiting for id=6 from every rank of the staff.
AckControl(r, q) ==
  /\ phase[r] = "ack" /\ ~AllAcked(r) /\ HasControl(q, r)
  /\ LET m == Head(chan[q][r])
     IN  IF q \notin Staff(r)
         THEN Die("id=6 message from non-staff")
         ELSE IF m.id # 6
         THEN Die("expecting id=6 message")
         ELSE IF tally[r][q] >= 2
         THEN Die("got multiple id=6 messages")
         ELSE /\ chan' = Received(q, r)
              /\ msg' = [msg EXCEPT ![r] = m]
              /\ tally' = [tally EXCEPT ![r][q] = @ + 1]
              /\ UNCHANGED <<phase, mpyNet, mpyQueue, quiet, isends, slots,
                             id0, nid1, mid1, frank, net, count, heard, fatal,
                             sends, faulted>>

\* All staff are back: id=6 to the boss.
Acknowledge(r) ==
  /\ phase[r] = "ack" /\ AllAcked(r)
  /\ BossSendDone(r)
  /\ chan' = IF r = 0 THEN chan
             ELSE Sent(chan, r, {Boss(r)}, Control(6, 0, 0))
  /\ phase' = [phase EXCEPT ![r] = "leaving"]
  /\ UNCHANGED <<mpyNet, mpyQueue, msg, quiet, isends, slots, locals, fatal,
                 sends, faulted>>

\* mpy_recover returns: the last send to the boss has completed, and the
\* sends to the staff are tested.  Its locals are dead; mpy_frank is not.
Leave(r) ==
  /\ phase[r] = "leaving" /\ BossSendDone(r)
  /\ IF StaffSendsDone(r)
     THEN /\ phase' = [phase EXCEPT ![r] = "idle"]
          /\ id0' = [id0 EXCEPT ![r] = 0]
          /\ nid1' = [nid1 EXCEPT ![r] = 0]
          /\ mid1' = [mid1 EXCEPT ![r] = 0]
          /\ tally' = [tally EXCEPT ![r] = [q \in Rank |-> 0]]
          /\ net' = [net EXCEPT ![r] = 0]
          /\ count' = [count EXCEPT ![r] = 0]
          /\ heard' = [heard EXCEPT ![r] = 4]
          /\ slots' = [slots EXCEPT ![r] = 1]
          /\ msg' = [msg EXCEPT ![r] = Data]
          /\ faulted' = IF r = 0 THEN {} ELSE faulted
          /\ UNCHANGED <<chan, mpyNet, mpyQueue, quiet, isends, frank, fatal,
                         sends>>
     ELSE Die("incomplete send in mperr_to_staff")

-----------------------------------------------------------------------------
(* The whole job.                                                          *)

\* A parallel task is running everywhere: the first mp_exec has been passed
\* down and acknowledged, so that no message is in transit.
Init ==
  /\ phase = [r \in Rank |-> "task"]
  /\ chan = [q \in Rank |-> [r \in Rank |-> <<>>]]
  /\ mpyNet = [r \in Rank |-> 0]
  /\ mpyQueue = [r \in Rank |-> <<>>]
  /\ msg = [r \in Rank |-> Data]
  /\ quiet = [r \in Rank |-> FALSE]
  /\ isends = [r \in Rank |-> 0]
  /\ slots = [r \in Rank |-> 1]
  /\ id0 = [r \in Rank |-> 0]
  /\ nid1 = [r \in Rank |-> 0]
  /\ mid1 = [r \in Rank |-> 0]
  /\ frank = [r \in Rank |-> -1]
  /\ tally = [r \in Rank |-> [q \in Rank |-> 0]]
  /\ net = [r \in Rank |-> 0]
  /\ count = [r \in Rank |-> 0]
  /\ heard = [r \in Rank |-> 4]
  /\ fatal = "none"
  /\ sends = 0 /\ faulted = {}

\* What the interpreted program does on its own.
Program(r) ==
  \/ \E D \in SUBSET Rank : MpSend(r, D)
  \/ Fault(r)
  \/ \E from \in Rank : MpRecv(r, from)
  \/ Finish(r)

\* What r does with a message that has arrived, outside recovery ...
Attend(r) ==
  \E q \in Rank : Enqueue(r, q) \/ HearControl(r, q) \/ SendInterrupted(r, q)

\* mpy_isend_wait is called for requests that mpy_recover knows of and that are
\* no longer there.
NoRequest(r) == phase[r] \in Halting /\ slots[r] > 1 /\ isends[r] = 0

\* ... and in mpy_recover.
Recovering(r) ==
  \/ \E q \in Rank : \/ Discard(r, q)
                     \/ DrainControl(r, q)
                     \/ AlertControl(r, q)
                     \/ TallyControl(r, q)
                     \/ ClearData(r, q)
                     \/ ClearControl(r, q)
                     \/ AckControl(r, q)
  \/ DrainEmpty(r)
  \/ AlertEmpty(r)
  \/ Report(r)
  \/ ClearEmpty(r)
  \/ ClearReport(r)
  \/ Acknowledge(r)
  \/ Leave(r)

Recover(r) ==
  IF NoRequest(r) THEN Die("MPI_Waitsome ncomplete failed") ELSE Recovering(r)

Step(r) ==
  \/ Program(r)
  \/ SendDone(r)
  \/ Attend(r)
  \/ \E q \in Rank : HearCaught(r, q)
  \/ MpExecIdle(r)
  \/ Recover(r)

\* The job may stay as it is when it was aborted, or when no rank is inside
\* mpy_recover: what the task and the user do next is up to them, and a task
\* may block itself with sends that nobody receives.  A recovery may not stop.
Rest ==
  /\ fatal # "none" \/ \A r \in Rank : phase[r] \notin Halting
  /\ UNCHANGED vars

Next ==
  \/ fatal = "none" /\ (MpExec \/ Complete \/ \E r \in Rank : Step(r))
  \/ Rest

Spec == Init /\ [][Next]_vars

\* Processes keep running, MPI delivers what was sent, and no rank is in a
\* state "where it will never call mp_send, mp_recv, or mp_probe".  Nothing
\* obliges a program to send, to fault, to finish or to start a task.
Live(r) ==
  /\ WF_vars(fatal = "none" /\ SendDone(r))
  /\ WF_vars(fatal = "none" /\ (Attend(r) \/ \E q \in Rank : HearCaught(r, q)))
  /\ WF_vars(fatal = "none" /\ Recover(r))

FairSpec ==
  /\ Spec
  /\ WF_vars(fatal = "none" /\ Complete)
  /\ \A r \in Rank : Live(r)

-----------------------------------------------------------------------------
(* Properties.                                                             *)

Message == [id : 0 .. 6, n1 : Int, n2 : Int]

TypeOK ==
  /\ phase \in [Rank -> {"task", "sending", "idle"} \cup Halting]
  /\ chan \in [Rank -> [Rank -> Seq(Message)]]
  /\ mpyNet \in [Rank -> Int]
  /\ mpyQueue \in [Rank -> Seq(Rank)]
  /\ msg \in [Rank -> Message]
  /\ quiet \in [Rank -> BOOLEAN]
  /\ isends \in [Rank -> Nat]
  /\ slots \in [Rank -> Nat]
  /\ id0 \in [Rank -> 0 .. 2]
  /\ nid1 \in [Rank -> Nat]
  /\ mid1 \in [Rank -> Int]
  /\ frank \in [Rank -> Int]
  /\ tally \in [Rank -> [Rank -> 0 .. 2]]
  /\ net \in [Rank -> Int]
  /\ count \in [Rank -> Int]
  /\ heard \in [Rank -> {4, 5}]
  /\ fatal \in {"none"} \cup Reasons
  /\ sends \in Nat /\ faulted \subseteq Rank

\* What may be in transit from q to r: reports for the boss, orders for the
\* staff, and data.
Reports == {1, 3, 4, 6}
Orders == {2, 5}
OnEdge(q, r) ==
  {m \in Message : \/ m = Data
                   \/ m.id \in Reports /\ q \in Staff(r)
                   \/ m.id \in Orders /\ r \in Staff(q)}

\* Whatever faults and catches do to the ranks, a control message travels along
\* an edge of the tree, in the direction of its id: alerts, counts and
\* acknowledgements from staff to boss, verdict and "recovery complete" from
\* boss to staff.  An alert that is passed on is still an alert: a rank that
\* has drained a verdict never sends it up.  (The column "sent to" of the
\* table mpy.c:838-871; the latest message drained is what mpy_recover sends.)
ControlFollowsTree ==
  \A q, r \in Rank : chan[q][r] \in Seq(OnEdge(q, r))

\* The data messages of tasks that are in transit.
InTransit ==
  {t \in Rank \X Rank \X (1 .. MaxSends) :
     LET c == chan[t[1]][t[2]] IN t[3] \in DOMAIN c /\ c[t[3]] = Data}

\* The phases of a rank that has sent id=3, having stopped its whole subtree.
Stopped == {"clear", "clearing", "ack", "leaving"}

\* A single fault is always survived: none of the assertions in Reasons, and no
\* "impossible message", can be reached, whatever the order in which alerts,
\* data and acknowledgements arrive.  (The calls of mperr_fatal in
\* mpy_recover and its helpers, but for those that Reasons leaves out.)
NeverFatal == fatal = "none"

\* When mpy_recover is about to return on rank 0, every other rank is back in
\* its idle loop, no message of the halted task is in transit or queued, and
\* nothing of the protocol is left over.  (README: "when rank 0 returns, all
\* other ranks are known to be idle, ready for the next mp_exec".)
QuietWhenRootLeaves ==
  (phase[0] = "leaving" /\ fatal = "none") =>
    \A r \in Rank :
      /\ r # 0 => phase[r] \in {"idle", "leaving"}
      /\ mpyQueue[r] = <<>>
      /\ \A q \in Rank : \A i \in DOMAIN chan[q][r] :
           chan[q][r][i].id = 6 /\ phase[q] = "leaving"

\* All ranks that have heard the verdict agree with rank 0 on the fault rank,
\* and it is a rank whose code did fault; when rank 0 is about to return, that
\* holds for every rank.  Only the fault rank prints its error and enters
\* after_error.  (The return value of mpy_recover.)
FrankAgreed ==
  \A r \in Rank :
    phase[r] \in {"tally", "clear", "clearing", "ack"} \/ phase[0] = "leaving" =>
      frank[r] = frank[0] /\ frank[r] \in faulted

\* Data messages r has dropped since it last reported to its boss ...
Unreported(r) ==
  IF phase[r] \in {"clear", "clearing"} THEN count[r] - mpyNet[r] ELSE 0

\* ... and those its boss will hear of.
OnItsWay(r) ==
  IF r = 0 THEN 0
  ELSE LET toBoss == chan[r][Boss(r)]
           dropped(i) == toBoss[i].n1
       IN  MapThenSumSet(dropped, {i \in DOMAIN toBoss : toBoss[i].id = 4})

\* The count rank 0 waits on is exact: it is the number of data messages in
\* transit plus those received that have not been reported to it, by ranks
\* that are still counting or in id=4 messages on their way.  A miscount of
\* one would end the recovery early or hang it.
NetExact ==
  (phase[0] \in {"clear", "clearing"} /\ fatal = "none") =>
    net[0] = Cardinality(InTransit)
             + MapThenSumSet(Unreported, Rank) + MapThenSumSet(OnItsWay, Rank)

\* No rank acts on "recovery complete" while a data message is in transit or a
\* rank is still at work.  (The id=5 wave.)
NothingLeftToClear ==
  (fatal = "none" /\ \E r \in Rank : phase[r] = "ack") =>
    InTransit = {} /\ \A r \in Rank : phase[r] \notin Working

\* Every recovery ends: rank 0 gets back to its prompt, or the job has been
\* aborted.  (README: the procedure hangs only if some rank never calls
\* mp_send, mp_recv or mp_probe again.)
Recovers ==
  (\E r \in Rank : phase[r] \in Halting) ~>
    (fatal # "none" \/ \A r \in Rank : phase[r] \notin Halting)

\* What the protocol comment says of alerts that come late: "boss will discard
\* if id=2 already received, else pass alert along" (mpy.c:848).  A boss that
\* has passed id=2 on and still gets an alert from its staff must go on.
LateAlertDiscarded == fatal # "expecting id=3 or id=4 message"

\* What mperr_fatal("incomplete isend after recovery in mpy_recover") asserts:
\* a rank that is back in its idle loop has no isend request outstanding.
NoIsendAfterRecovery ==
  \A r \in Rank : phase[r] = "idle" => isends[r] = 0

\* The halt MpyRecover implements: see MpyHalt.  A rank has returned, for all
\* that can still happen to it, when it has acknowledged; rank 0 when it is in
\* serial mode again.
Halted == Halting \ {"leaving"}
JoinedNow ==
  IF phase[0] \in Stopped THEN Rank ELSE {r \in Rank : phase[r] \in Halted}
ReturnedNow ==
  IF phase[0] \in Stopped THEN {r \in Rank \ {0} : phase[r] \notin Halted}
  ELSE {}
PendingNow ==
  Cardinality(InTransit) + MapThenSumSet(LAMBDA r : Len(mpyQueue[r]), Rank)

Halt == INSTANCE MpyHalt WITH
  joined <- JoinedNow, returned <- ReturnedNow, pending <- PendingNow,
  MaxPending <- MaxSends

\* The recovery implements the abstract halt of MpyHalt.
HaltSpec == Halt!Spec
=============================================================================
