-------------------------------- MODULE MPool -------------------------------
(***************************************************************************)
(* The pool of jobs of mpy (mpool.i): a master farms out jobs to slaves by *)
(* mp_send, polls with mp_probe for their results, and shuts them down     *)
(* when FSOW has no more jobs.  The model starts where mpool has called    *)
(* _mpool_fmaster on the master and _mpool_fslave on the slaves.           *)
(*                                                                         *)
(* _mpool_fmaster is a coroutine of sorts: _mpool_active decides, from     *)
(* `state`, whether the next step sows or reaps, and the loop does it.     *)
(* Where the master is:                                                    *)
(*   active      about to call _mpool_active                               *)
(*   probe       in _mpool_ready, in its first mp_probe (line 338)         *)
(*   wait        in its second, mp_probe(2), before anything new arrives   *)
(*   scan        the same, after something new has arrived                 *)
(*   fsow        about to sow for `slave`                                  *)
(*   freap       about to reap from `slave`                                *)
(*   collect     has sent the shutdown, receives the slaves' timings       *)
(*   done        mpool has returned                                        *)
(*   error       mp_send was given a rank that does not exist              *)
(*                                                                         *)
(* A slave is known by its place in list (without list, by its rank), and  *)
(* place 0 is the master itself.  Ranks outside the list may send messages *)
(* to the master that have nothing to do with the pool.  MPI is as in      *)
(* MpyRecover: one FIFO channel per pair, probes that may miss what is on  *)
(* its way.  The statistics that only mpool_stats prints (times, nqmax)    *)
(* are left out.                                                           *)
(***************************************************************************)
EXTENDS Integers, SequencesExt

CONSTANTS
  NSlaves,      \* the slaves on list, or mp_size - 1
  Foreign,      \* the ranks that are not on list
  NmaxArgs,     \* values the nmax keyword may have, 0 when it is absent
  SelfArgs,     \* values the self keyword may have
  ListArgs,     \* may list be given?
  MaxJobs,      \* bound: FSOW has at most this many jobs
  MaxForeign,   \* bound: messages that come from outside the pool
  UserReceipt   \* does FREAP itself receive messages from outside the pool?

ASSUME SlavesAssumption == NSlaves \in Nat /\ NSlaves >= 1
ASSUME BoundsAssumption == MaxJobs \in Nat /\ MaxForeign \in Nat
ASSUME ArgsAssumption ==
  /\ NmaxArgs \subseteq Nat
  /\ SelfArgs \subseteq BOOLEAN /\ ListArgs \subseteq BOOLEAN
  /\ UserReceipt \in BOOLEAN

Slaves == 1 .. NSlaves
Self == 0
ASSUME ForeignAssumption == Foreign \cap 0 .. NSlaves = {}

VARIABLES
  nmax, self, listed,               \* how the pool was called
  pc,                               \* where the master is, see above
  state,                            \* _pool.state
  slave,                            \* _pool.slave
  njobs, nused, nself, nignore, nactive,  \* the counters of _pool
  jobo,                             \* _jobo: the result of a job done by self
  collected,                        \* slaves whose timings have come
  queue,                            \* the master's mp_recv queue
  toSlave, toMaster,                \* the channels
  fwork,                            \* what each slave is doing
  reaped,                           \* the jobs FREAP has been called for
  foreignSent,                      \* messages sent from outside the pool
  taken                             \* and those that FREAP has received

args == <<nmax, self, listed>>
counters == <<njobs, nused, nself, nignore, nactive>>
master == <<pc, state, slave, counters, jobo, collected>>
vars == <<args, master, queue, toSlave, toMaster, fwork, reaped, foreignSent, taken>>

Ranks == Slaves \cup Foreign

\* What a slave is doing: waiting in mp_recv, finished, or doing a job.
Waiting == 0
Stopped == -1

\* On the wire a job, and its result, is its number; 0 is the shutdown on
\* the way down and the timings (or a foreign message) on the way up.
Shutdown == 0
Timings == 0

Smaller(a, b) == IF a < b THEN a ELSE b

\* The state-0 call of _mpool_active: nmax defaults to all slaves and is cut
\* to them only when there is a list.
Nmax(arg, isListed) ==
  LET n == IF arg = 0 THEN NSlaves ELSE arg
  IN  IF isListed THEN Smaller(n, NSlaves) ELSE n

UnusedOrLast == nused <= nmax
Unused == nused < nmax

\* The slaves that are sent the shutdown: all, used or not.
UsedStaff == 1 .. nused
Staff == Slaves

\* Messages from r in the queue.
Queued(r) == {i \in DOMAIN queue : queue[i].from = r}

\* mp_recv(r): the oldest message from r, which must be in the queue already;
\* as a set, empty when there is none.
Oldest(r) == {i \in Queued(r) : \A j \in Queued(r) : i <= j}

-----------------------------------------------------------------------------
(* The master.                                                             *)

\* Every mp_recv, and every mp_probe, first moves what has arrived to the
\* queue; mp_probe(2) then has what it waited for.
Enqueue(r) ==
  /\ pc \in {"probe", "wait", "scan", "freap", "collect"}
  /\ toMaster[r] # <<>>
  /\ queue' = Append(queue, [from |-> r, job |-> Head(toMaster[r])])
  /\ toMaster' = [toMaster EXCEPT ![r] = Tail(@)]
  /\ pc' = IF pc = "wait" THEN "scan" ELSE pc
  /\ UNCHANGED <<args, state, slave, counters, jobo, collected, toSlave,
                 fwork, reaped, foreignSent, taken>>

\* The else branch of state 1: sow to a slave that was never used, or to self.
SowAnother ==
  /\ pc' = "fsow"
  /\ IF Unused
     THEN /\ nactive' = nactive + 1 /\ nused' = nused + 1
          /\ slave' = nused + 1
          /\ UNCHANGED <<state, nself>>
     ELSE /\ nself' = nself + 1 /\ slave' = Self /\ state' = 12
          /\ UNCHANGED <<nactive, nused>>
  /\ UNCHANGED <<njobs, jobo, collected>>

\* State 1, just did a non-self sow or a self reap: is there a job to reap?
ActiveAny ==
  /\ state = 1
  /\ IF nactive > 0
     THEN /\ pc' = "probe"
          /\ UNCHANGED <<state, slave, counters, jobo, collected>>
     ELSE SowAnother /\ UNCHANGED nignore
  /\ UNCHANGED <<queue, toSlave>>

\* State 2, just did a non-self reap: sow to the slave just reaped.
ActiveReaped ==
  /\ state = 2
  /\ pc' = "fsow" /\ state' = 1
  /\ UNCHANGED <<slave, counters, jobo, collected, queue, toSlave>>

\* State 3, just did a self sow and the work: reap the result.
ActiveSelf ==
  /\ state = 3
  /\ pc' = "freap" /\ state' = 1
  /\ UNCHANGED <<slave, counters, jobo, collected, queue, toSlave>>

\* State 20, no more jobs: wait for another result, or send the shutdown to
\* every rank on list, used or not.
ActiveNoMore ==
  /\ state = 20
  /\ IF nactive > 0
     THEN pc' = "probe" /\ UNCHANGED toSlave
     ELSE /\ pc' = "collect"
          /\ toSlave' = [s \in Slaves |->
               IF s \in Staff THEN Append(toSlave[s], Shutdown) ELSE toSlave[s]]
  /\ UNCHANGED <<state, slave, counters, jobo, collected, queue>>

Active ==
  /\ pc = "active"
  /\ ActiveAny \/ ActiveReaped \/ ActiveSelf \/ ActiveNoMore
  /\ UNCHANGED <<args, toMaster, fwork, reaped, foreignSent, taken>>

\* _mpool_ready blocks when nothing else can be done.
Blocking == state = 20 \/ (~Unused /\ ~self)

\* The first message of the pool in the queue, past the nignore messages at
\* its front that are known to be foreign, as a set.  Without a list everybody
\* is in the pool and the first message will do.
OfPool(i) == ~listed \/ (i > nignore /\ queue[i].from \in Slaves)
FirstOfAny == {1}
FirstOfPool == {i \in DOMAIN queue : OfPool(i) /\ \A j \in 1 .. i - 1 : ~OfPool(j)}

\* _mpool_ready returns 1 with the message at position i.
Ready(i) ==
  /\ pc' = "freap" /\ slave' = queue[i].from
  /\ IF state = 1 THEN state' = 2 /\ UNCHANGED nactive
                  ELSE nactive' = nactive - 1 /\ UNCHANGED state
  /\ UNCHANGED <<njobs, nused, nself, jobo, collected>>

\* The rest of a turn of its loop, once mp_probe has returned the queue.
Scan ==
  \/ \E i \in FirstOfPool :
       nignore' = (IF listed THEN i - 1 ELSE nignore) /\ Ready(i)
  \/ /\ FirstOfPool = {}
     /\ nignore' = IF nignore < Len(queue) THEN Len(queue) ELSE nignore
     /\ IF Blocking
        THEN /\ pc' = "probe"
             /\ UNCHANGED <<state, slave, njobs, nused, nself, nactive,
                            jobo, collected>>
        ELSE SowAnother

\* The first mp_probe returns; it blocks only if nothing is to be ignored.
ProbeReturns ==
  /\ pc = "probe"
  /\ Blocking /\ nignore = 0 => queue # <<>>
  /\ IF Len(queue) > nignore
     THEN Scan
     ELSE /\ UNCHANGED nignore
          /\ IF Blocking
             THEN /\ pc' = "wait"
                  /\ UNCHANGED <<state, slave, njobs, nused, nself, nactive,
                                 jobo, collected>>
             ELSE SowAnother
  /\ UNCHANGED <<args, queue, toSlave, toMaster, fwork, reaped, foreignSent, taken>>

ScanReturns ==
  /\ pc = "scan"
  /\ Scan
  /\ UNCHANGED <<args, queue, toSlave, toMaster, fwork, reaped, foreignSent, taken>>

\* FSOW defines a job, and it goes to the slave; or self does it at once
\* (_mpool_fslave, states 12 and 13).
Sow ==
  /\ pc = "fsow" /\ njobs < MaxJobs
  /\ njobs' = njobs + 1
  /\ IF slave = Self
     THEN /\ jobo' = njobs + 1 /\ state' = 3 /\ pc' = "active"
          /\ UNCHANGED toSlave
     ELSE /\ IF slave \in Slaves
             THEN /\ toSlave' = [toSlave EXCEPT ![slave] = Append(@, njobs + 1)]
                  /\ pc' = "active"
             ELSE pc' = "error" /\ UNCHANGED toSlave
          /\ UNCHANGED <<jobo, state>>
  /\ UNCHANGED <<args, slave, nused, nself, nignore, nactive, collected, queue,
                 toMaster, fwork, reaped, foreignSent, taken>>

\* FSOW says that there are no more jobs.
ActiveAfterNoneKept == nactive
ActiveAfterNoneLess == nactive - 1
ActiveAfterNone == IF slave = Self THEN nactive ELSE nactive - 1
SowNone ==
  /\ pc = "fsow"
  /\ pc' = "active" /\ state' = 20
  /\ nactive' = ActiveAfterNone
  /\ UNCHANGED <<args, slave, njobs, nused, nself, nignore, jobo, collected,
                 queue, toSlave, toMaster, fwork, reaped, foreignSent, taken>>

\* FREAP assimilates a result.
Reap ==
  /\ pc = "freap"
  /\ IF slave = Self
     THEN reaped' = reaped \cup {jobo} /\ UNCHANGED queue
     ELSE \E i \in Oldest(slave) :
            reaped' = reaped \cup {queue[i].job} /\ queue' = RemoveAt(queue, i)
  /\ pc' = "active"
  /\ UNCHANGED <<args, state, slave, counters, jobo, collected, toSlave,
                 toMaster, fwork, foreignSent, taken>>

\* FREAP also receives a message that is not the pool's.
UserReceives(f) ==
  /\ UserReceipt /\ pc = "freap"
  /\ \E i \in Oldest(f) : queue' = RemoveAt(queue, i)
  /\ taken' = taken + 1
  /\ UNCHANGED <<args, master, toSlave, toMaster, fwork, reaped, foreignSent>>

\* The timings of the next slave on list confirm that it has shut down.
Collect ==
  /\ pc = "collect"
  /\ \E i \in Oldest(collected + 1) : queue' = RemoveAt(queue, i)
  /\ collected' = collected + 1
  /\ pc' = IF collected + 1 = NSlaves THEN "done" ELSE pc
  /\ UNCHANGED <<args, state, slave, counters, jobo, toSlave, toMaster, fwork,
                 reaped, foreignSent, taken>>

Master ==
  \/ Active \/ ProbeReturns \/ ScanReturns \/ Sow \/ SowNone \/ Reap \/ Collect
  \/ \E r \in Ranks : Enqueue(r)

-----------------------------------------------------------------------------
(* The slaves and the others.                                              *)

\* _mpool_fslave receives a job, or the shutdown, which it confirms.
SlaveReceives(s) ==
  /\ fwork[s] = Waiting /\ toSlave[s] # <<>>
  /\ toSlave' = [toSlave EXCEPT ![s] = Tail(@)]
  /\ LET j == Head(toSlave[s])
     IN  IF j > 0
         THEN fwork' = [fwork EXCEPT ![s] = j] /\ UNCHANGED toMaster
         ELSE /\ fwork' = [fwork EXCEPT ![s] = Stopped]
              /\ toMaster' = [toMaster EXCEPT ![s] = Append(@, Timings)]
  /\ UNCHANGED <<args, master, queue, reaped, foreignSent, taken>>

\* FWORK is done.
SlaveSends(s) ==
  /\ fwork[s] > 0
  /\ toMaster' = [toMaster EXCEPT ![s] = Append(@, fwork[s])]
  /\ fwork' = [fwork EXCEPT ![s] = Waiting]
  /\ UNCHANGED <<args, master, queue, toSlave, reaped, foreignSent, taken>>

Slave(s) == SlaveReceives(s) \/ SlaveSends(s)

ForeignSends(f) ==
  /\ listed /\ foreignSent < MaxForeign
  /\ foreignSent' = foreignSent + 1
  /\ toMaster' = [toMaster EXCEPT ![f] = Append(@, Timings)]
  /\ UNCHANGED <<args, master, queue, toSlave, fwork, reaped, taken>>

Init ==
  /\ listed \in ListArgs /\ self \in SelfArgs
  /\ \E arg \in NmaxArgs : nmax = Nmax(arg, listed)
  /\ pc = "active" /\ state = 1 /\ slave = 0
  /\ njobs = 0 /\ nused = 0 /\ nself = 0 /\ nignore = 0 /\ nactive = 0
  /\ jobo = 0 /\ collected = 0
  /\ queue = <<>>
  /\ toSlave = [s \in Slaves |-> <<>>]
  /\ toMaster = [r \in Ranks |-> <<>>]
  /\ fwork = [s \in Slaves |-> Waiting]
  /\ reaped = {} /\ foreignSent = 0 /\ taken = 0

\* mpool has returned, or its fault is left to mpy_recover.
Ended == pc \in {"done", "error"} /\ UNCHANGED vars

Next ==
  \/ Master
  \/ \E s \in Slaves : Slave(s)
  \/ \E f \in Foreign : ForeignSends(f) \/ UserReceives(f)
  \/ Ended

Spec == Init /\ [][Next]_vars

\* The processes of the pool keep running, and FSOW ends after MaxJobs jobs.
\* Nothing obliges the others to send, or FREAP to receive from them.
FairSpec == Spec /\ WF_vars(Master) /\ \A s \in Slaves : WF_vars(Slave(s))

-----------------------------------------------------------------------------
(* Properties.                                                             *)

Entry == [from : Ranks, job : Nat]

TypeOK ==
  /\ nmax \in Nat /\ self \in BOOLEAN /\ listed \in BOOLEAN
  /\ pc \in {"active", "probe", "wait", "scan", "fsow", "freap", "collect",
             "done", "error"}
  /\ state \in {1, 2, 3, 12, 20}
  /\ slave \in Ranks \cup 0 .. nused
  /\ njobs \in Nat /\ nused \in 0 .. nmax /\ nself \in Nat
  /\ nignore \in Nat /\ nactive \in 0 .. nused
  /\ jobo \in Nat /\ collected \in 0 .. NSlaves
  /\ queue \in Seq(Entry)
  /\ toSlave \in [Slaves -> Seq(Nat)]
  /\ toMaster \in [Ranks -> Seq(Nat)]
  /\ fwork \in [Slaves -> Nat \cup {Stopped}]
  /\ reaped \subseteq Nat /\ foreignSent \in Nat /\ taken \in Nat

\* The master has done a job itself and not assimilated it yet.
SelfToReap == state = 3 \/ (pc = "freap" /\ slave = Self)

\* The places where job j is.
Places(j) ==
  ({"to"} \X {s \in Slaves : j \in Range(toSlave[s])})
    \cup ({"at"} \X {s \in Slaves : fwork[s] = j})
    \cup ({"from"} \X {s \in Slaves : j \in Range(toMaster[s])})
    \cup ({"queue"} \X {i \in DOMAIN queue : queue[i].job = j})
    \cup ({"self"} \X {i \in {Self} : jobo = j /\ SelfToReap})
    \cup ({"reaped"} \X {i \in {Self} : j \in reaped})

\* A job is in one place at a time, from FSOW to FREAP: on its way to one
\* slave, in FWORK there, in one result, or assimilated; no job is lost, done
\* twice or assimilated twice, whatever order the results come in.  (mpool:
\* "the master calls the FREAP function to assimilate the result of one job".)
\* A job sown to a rank that does not exist is lost, see SlaveExists.
JobOnce ==
  /\ pc # "error" => \A j \in 1 .. njobs : Cardinality(Places(j)) = 1
  /\ reaped \subseteq 1 .. njobs

\* What slave s has of the pool's.
AtHand(s) == IF fwork[s] > 0 THEN 1 ELSE 0
Load(s) ==
  Len(toSlave[s]) + AtHand(s) + Len(toMaster[s]) + Cardinality(Queued(s))

\* nactive is the number of slaves that have a job, whenever _mpool_active
\* looks at it; between a reap and the sow that follows it the slave just
\* reaped still counts.  One too many and the master waits for ever, one too
\* few and it shuts slaves down that have not delivered.
ActiveExact ==
  ((pc = "active" /\ state # 2) \/ pc \in {"probe", "wait", "scan"}) =>
    nactive = Cardinality({s \in Slaves : Load(s) > 0})

\* FSOW's job goes to a slave that has nothing to do and nothing to deliver:
\* the slave is in mp_recv, and the mp_send of the master cannot meet an
\* mp_send of the slave, which would block them both.  The same goes for the
\* shutdown: when the master collects, nobody is at work.
SownIdle ==
  /\ (pc = "fsow" /\ slave \in Slaves) =>
       fwork[slave] = Waiting /\ Load(slave) = 0
  /\ pc = "collect" =>
       \A s \in Slaves : fwork[s] <= 0 /\ Load(s) <= 1

\* The places in the queue of the messages from outside the pool.
Others == {i \in DOMAIN queue : queue[i].from \in Foreign}

\* All of them are still there, in their order and before any new ones.
Carried ==
  \E to \in [Others -> Others'] :
    /\ \A i \in Others : queue'[to[i]] = queue[i]
    /\ \A i, j \in Others : i < j => to[i] < to[j]
    /\ \A k \in Others' : k \in Range(to) \/ \A i \in Others : to[i] < k

\* The pool leaves messages from outside it in the queue, in their order, for
\* whoever they are meant for.  (_mpool_ready: nignore; "mpool will generate no
\* message traffic outside the listed processes".)
OthersKept == [][taken' = taken => Carried]_vars

\* When mpool returns, every job has been assimilated, every slave has left
\* _mpool_fslave, and no message of the pool is left over for a later mp_recv.
NothingLeft ==
  pc = "done" =>
    /\ reaped = 1 .. njobs
    /\ \A s \in Slaves : fwork[s] = Stopped /\ Load(s) = 0

\* FSOW sows to ranks that exist: "nmax= do not use more than this many
\* processes as slaves" (mpool.i:61), a limit and not a demand.
SlaveExists == pc # "error"

\* Once FSOW has no more jobs, which is after MaxJobs jobs at the latest, mpool
\* returns, whatever else is in the queue and comes into it, as long as FREAP
\* leaves that alone: nignore does not know of messages that are gone.
PoolEnds == <>(pc \in {"done", "error"} \/ taken > 0)

\* The same of every FREAP.  (mpool.i:20: "The whole cycle repeats until FSOW
\* signals there are no more jobs"; mpool.i:82: nignore is the "number of
\* non-pool messages in mp_recv queue".)
CycleRepeats == <>(pc \in {"done", "error"})

\* The pool of JobPool that MPool implements; the master is a worker if it
\* may work itself.
Pool == INSTANCE JobPool WITH
  workers <- nmax + (IF self THEN 1 ELSE 0),
  open <- state # 20,
  handed <- 1 .. njobs \ reaped,
  finished <- reaped,
  ended <- pc = "done"

\* Jobs are numbered in the order they are handed out, at most nmax of them
\* are in the slaves' hands and one in the master's, and each is assimilated
\* once.
PoolSpec == Pool!Spec
=============================================================================
