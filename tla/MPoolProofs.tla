----------------------------- MODULE MPoolProofs ----------------------------
(***************************************************************************)
(* For any number of slaves, any arguments of mpool, any number of jobs    *)
(* and of messages from outside the pool: nactive counts the slaves that   *)
(* have something of the pool's, a job or the shutdown is sown only to a   *)
(* slave that has nothing (the first part); every job is in one place,     *)
(* nothing of the pool's is left when mpool returns, and what mpool does   *)
(* is what JobPool promises (the second part); and messages from outside   *)
(* the pool stay where they are (the third part).                          *)
(*                                                                         *)
(* What makes this inductive is that a slave never has more than one       *)
(* thing of the pool's at a time (Single), wherever that is: a step of a   *)
(* slave, or an arrival, moves it and leaves the load as it is; only the   *)
(* sow and the shutdown add to it, and only the reap and the receipt of    *)
(* the timings take from it.                                               *)
(*                                                                         *)
(* With that, what is left to show is which job each load is: a step moves *)
(* one job from one place to another, and the jobs handed out and not      *)
(* assimilated are as many as the slaves that have something, and the one  *)
(* that the master has done itself.                                        *)
(***************************************************************************)
EXTENDS MPool, ListFacts, FiniteSetTheorems, FunctionTheorems

\* The messages from r in q.
From(q, r) == {i \in DOMAIN q : q[i].from = r}

\* Without a list there is nobody outside the pool.
OnlyPool ==
  ~listed => /\ \A f \in Foreign : toMaster[f] = <<>>
             /\ \A i \in DOMAIN queue : queue[i].from \in Slaves

Closing == pc \in {"collect", "done"}

\* The loop of _mpool_fmaster: which states go with which place.
Where ==
  /\ pc = "active" => \/ state \in {1, 20}
                      \/ state = 2 /\ slave \in Slaves /\ slave <= nused
                      \/ state = 3 /\ slave = Self
  /\ pc \in {"probe", "wait", "scan"} => state \in {1, 20}
  /\ pc = "fsow" => \/ slave = Self /\ state = 12
                    \/ slave \in 1 .. nused /\ state = 1
  /\ pc = "freap" => \/ slave = Self /\ state = 1
                     \/ slave \in Slaves /\ state \in {2, 20}
  /\ pc = "collect" => collected < NSlaves
  /\ ~Closing => collected = 0

\* Before the shutdown is sent, the slaves know only of jobs.
Knowing ==
  \A s \in Slaves : \A i \in DOMAIN toSlave[s] :
    IF Closing THEN toSlave[s][i] = Shutdown ELSE toSlave[s][i] > 0
Working ==
  \A s \in Slaves : IF Closing THEN fwork[s] <= 0 ELSE fwork[s] >= 0

Single == \A s \in Slaves : Load(s) <= 1

\* A step that leaves the loads as they are.
Moves == \A s \in Slaves : Load(s)' = Load(s)

\* The slaves that have something of the pool's.
Busy == {s \in Slaves : Load(s) > 0}

\* From a reap to the sow that follows, and from the choice of a slave to its
\* sow, nactive counts a slave that has nothing yet; when no more jobs are to
\* come, it no longer counts a slave whose result is about to be reaped.
Promised == (pc = "active" /\ state = 2) \/ (pc = "fsow" /\ slave # Self)
Released == pc = "freap" /\ state = 20

\* The slave that a job is to be sown to has nothing; the one that is to be
\* reaped from has delivered.
Selected ==
  \A s \in Slaves :
    s = slave => /\ Promised => Load(s) = 0
                 /\ pc = "freap" => Cardinality(Queued(s)) >= 1
Counted ==
  ~Closing /\ pc # "error" =>
    /\ Busy \subseteq 1 .. nused
    /\ nactive = Cardinality(Busy) + (IF Promised THEN 1 ELSE 0)
                                   - (IF Released THEN 1 ELSE 0)

PoolInv ==
  TypeOK /\ OnlyPool /\ Where /\ Knowing /\ Working /\ Single /\ Selected /\ Counted

-----------------------------------------------------------------------------
(* Counting the messages from one rank. *)

LEMMA FromCounted ==
  ASSUME NEW q \in Seq(Entry), NEW r
  PROVE  /\ IsFiniteSet(From(q, r)) /\ Cardinality(From(q, r)) \in Nat
         /\ Cardinality(From(q, r)) = 0 <=> From(q, r) = {}
<1>1. Len(q) \in Nat /\ DOMAIN q = 1..Len(q)
  BY LenProperties
<1>2. IsFiniteSet(1..Len(q))
  BY <1>1, FS_Interval
<1>3. From(q, r) \in SUBSET (1..Len(q))
  BY <1>1 DEF From
<1>4. IsFiniteSet(From(q, r))
  BY <1>2, <1>3, FS_Subset
<1> QED
  BY <1>4, FS_CardinalityType, FS_EmptySet

LEMMA FromAppended ==
  ASSUME NEW q \in Seq(Entry), NEW e \in Entry, NEW r
  PROVE  Cardinality(From(Append(q, e), r)) =
           Cardinality(From(q, r)) + (IF e.from = r THEN 1 ELSE 0)
<1>1. Len(q) \in Nat /\ DOMAIN q = 1..Len(q)
  BY LenProperties
<1>2. /\ DOMAIN Append(q, e) = 1..(Len(q) + 1)
      /\ Append(q, e)[Len(q) + 1] = e
      /\ \A i \in 1..Len(q) : Append(q, e)[i] = q[i]
  <2>1. Append(q, e) \in Seq(Entry) /\ Len(Append(q, e)) = Len(q) + 1
    BY AppendProperties
  <2>2. DOMAIN Append(q, e) = 1..(Len(q) + 1)
    BY <2>1, LenProperties
  <2> QED
    BY <2>2, <1>1, AppendProperties
<1>3. From(Append(q, e), r) =
        IF e.from = r THEN From(q, r) \cup {Len(q) + 1} ELSE From(q, r)
  BY <1>1, <1>2 DEF From
<1>4. Len(q) + 1 \notin From(q, r)
  BY <1>1 DEF From
<1>5. IsFiniteSet(From(q, r)) /\ Cardinality(From(q, r)) \in Nat
  BY FromCounted
<1>6. Cardinality(From(q, r) \cup {Len(q) + 1}) = Cardinality(From(q, r)) + 1
  BY <1>4, <1>5, FS_AddElement
<1> QED
  BY <1>3, <1>5, <1>6

\* What is left of From(q, r) is what it was without k, shifted.
LEMMA FromRemoved ==
  ASSUME NEW q \in Seq(Entry), NEW k \in DOMAIN q, NEW r
  PROVE  /\ RemoveAt(q, k) \in Seq(Entry)
         /\ Cardinality(From(RemoveAt(q, k), r)) =
              Cardinality(From(q, r)) - (IF q[k].from = r THEN 1 ELSE 0)
<1> DEFINE d == RemoveAt(q, k)
           f == [i \in From(d, r) |-> IF i < k THEN i ELSE i + 1]
<1>1. Len(q) \in Nat /\ DOMAIN q = 1..Len(q) /\ k \in 1..Len(q)
  BY LenProperties
<1>2. /\ d \in Seq(Entry) /\ DOMAIN d = 1..(Len(q) - 1)
      /\ \A i \in 1..(Len(q) - 1) : d[i] = IF i < k THEN q[i] ELSE q[i + 1]
  <2>1. /\ d \in Seq(Entry) /\ Len(d) = Len(q) - 1
        /\ \A i \in 1..(Len(q) - 1) : d[i] = IF i < k THEN q[i] ELSE q[i + 1]
    BY <1>1, RemoveAtProperties
  <2>2. DOMAIN d = 1..(Len(q) - 1)
    BY <2>1, LenProperties
  <2> QED
    BY <2>1, <2>2
<1> HIDE DEF d
<1>3. ExistsBijection(From(d, r), From(q, r) \ {k})
  <2>1. f \in [From(d, r) -> From(q, r) \ {k}]
    <3>1. ASSUME NEW i \in From(d, r)
          PROVE  (IF i < k THEN i ELSE i + 1) \in From(q, r) \ {k}
      BY <1>1, <1>2 DEF From
    <3> QED
      BY <3>1
  <2>2. \A a, b \in From(d, r) : f[a] = f[b] => a = b
    BY <1>1, <1>2 DEF From
  <2>3. \A t \in From(q, r) \ {k} : \E s \in From(d, r) : f[s] = t
    <3>1. ASSUME NEW t \in From(q, r) \ {k}, t < k
          PROVE  t \in From(d, r) /\ f[t] = t
      BY <1>1, <1>2, <3>1 DEF From
    <3>2. ASSUME NEW t \in From(q, r) \ {k}, t > k
          PROVE  t - 1 \in From(d, r) /\ f[t - 1] = t
      BY <1>1, <1>2, <3>2 DEF From
    <3>3. \A t \in From(q, r) \ {k} : t < k \/ t > k
      BY <1>1 DEF From
    <3> QED
      BY <3>1, <3>2, <3>3
  <2>4. f \in Bijection(From(d, r), From(q, r) \ {k})
    BY <2>1, <2>2, <2>3, Fun_IsBij
  <2> QED
    BY <2>4, Fun_ExistsBij
<1>4. Cardinality(From(d, r)) = Cardinality(From(q, r) \ {k})
  <2>1. IsFiniteSet(From(d, r))
    BY <1>2, FromCounted
  <2> QED
    BY <2>1, <1>3, FS_Bijection
<1>5. Cardinality(From(q, r) \ {k}) =
        IF k \in From(q, r) THEN Cardinality(From(q, r)) - 1 ELSE Cardinality(From(q, r))
  BY FromCounted, FS_RemoveElement
<1>6. k \in From(q, r) <=> q[k].from = r
  BY DEF From
<1>7. Cardinality(From(q, r)) \in Nat
  BY FromCounted
<1>8. Cardinality(From(d, r)) = Cardinality(From(q, r)) - (IF q[k].from = r THEN 1 ELSE 0)
  BY <1>4, <1>5, <1>6, <1>7
<1> QED
  BY <1>2, <1>8 DEF d

-----------------------------------------------------------------------------
(* Loads. *)

LEMMA LoadTyped ==
  ASSUME TypeOK, NEW s \in Slaves
  PROVE  /\ Load(s) \in Nat /\ AtHand(s) \in 0..1
         /\ Cardinality(Queued(s)) \in Nat
         /\ Cardinality(Queued(s)) = 0 <=> Queued(s) = {}
         /\ toSlave[s] \in Seq(Nat) /\ Len(toSlave[s]) \in Nat
         /\ toMaster[s] \in Seq(Nat) /\ Len(toMaster[s]) \in Nat
         /\ fwork[s] \in Int
<1>1. Queued(s) = From(queue, s)
  BY DEF Queued, From
<1>2. queue \in Seq(Entry) /\ toSlave[s] \in Seq(Nat) /\ toMaster[s] \in Seq(Nat)
  BY DEF TypeOK, Ranks
<1>3. Len(toSlave[s]) \in Nat /\ Len(toMaster[s]) \in Nat
  BY <1>2, LenProperties
<1>4. Cardinality(Queued(s)) \in Nat /\ (Cardinality(Queued(s)) = 0 <=> Queued(s) = {})
  BY <1>1, <1>2, FromCounted
<1>5. fwork[s] \in Int
  BY DEF TypeOK, Stopped
<1>6. Load(s) \in Nat
  <2>1. AtHand(s) \in Nat
    BY DEF AtHand
  <2> QED
    BY <1>3, <1>4, <2>1 DEF Load
<1> QED
  BY <1>2, <1>3, <1>4, <1>5, <1>6 DEF AtHand

\* The same facts of the next state.
LEMMA LoadTypedNext ==
  ASSUME TypeOK', NEW s \in Slaves
  PROVE  /\ Cardinality(Queued(s))' \in Nat /\ AtHand(s)' \in 0..1
         /\ toSlave'[s] \in Seq(Nat) /\ Len(toSlave'[s]) \in Nat
         /\ toMaster'[s] \in Seq(Nat) /\ Len(toMaster'[s]) \in Nat
<1>1. Queued(s)' = From(queue', s)
  BY DEF Queued, From
<1>2. queue' \in Seq(Entry) /\ toSlave'[s] \in Seq(Nat) /\ toMaster'[s] \in Seq(Nat)
  BY DEF TypeOK, Ranks
<1>3. Len(toSlave'[s]) \in Nat /\ Len(toMaster'[s]) \in Nat
  BY <1>2, LenProperties
<1>4. Cardinality(Queued(s))' \in Nat
  BY <1>1, <1>2, FromCounted
<1>5. AtHand(s)' \in 0..1
  BY DEF AtHand
<1> QED
  BY <1>2, <1>3, <1>4, <1>5

\* The load changes by what its parts change by.
More(s) ==
  <<Len(toSlave'[s]) - Len(toSlave[s]), AtHand(s)' - AtHand(s),
    Len(toMaster'[s]) - Len(toMaster[s]), Cardinality(Queued(s))' - Cardinality(Queued(s))>>

LEMMA LoadChange ==
  ASSUME TypeOK, TypeOK', NEW s \in Slaves
  PROVE  Load(s)' = Load(s) + (More(s)[1] + More(s)[2] + More(s)[3] + More(s)[4])
<1> DEFINE w == Len(toSlave[s])
           x == AtHand(s)
           y == Len(toMaster[s])
           z == Cardinality(Queued(s))
           a == Len(toSlave'[s])
           b == AtHand(s)'
           c == Len(toMaster'[s])
           d == Cardinality(Queued(s))'
<1>1. w \in Nat /\ x \in Nat /\ y \in Nat /\ z \in Nat
  BY LoadTyped
<1>2. a \in Nat /\ b \in Nat /\ c \in Nat /\ d \in Nat
  BY LoadTypedNext
<1>3. Load(s) = w + x + y + z
  BY Zenon DEF Load
<1>4. Load(s)' = a + b + c + d
  BY Zenon DEF Load
<1>5. More(s) = <<a - w, b - x, c - y, d - z>>
  BY DEF More
<1> HIDE DEF w, x, y, z, a, b, c, d
<1> QED
  BY <1>1, <1>2, <1>3, <1>4, <1>5

LEMMA BusyTyped ==
  ASSUME TypeOK
  PROVE  IsFiniteSet(Busy) /\ Cardinality(Busy) \in Nat /\ Busy \subseteq Slaves
<1>1. IsFiniteSet(Slaves)
  BY FS_Interval, SlavesAssumption DEF Slaves
<1>2. Busy \in SUBSET Slaves
  BY DEF Busy
<1>3. IsFiniteSet(Busy)
  BY <1>1, <1>2, FS_Subset
<1> QED
  BY <1>2, <1>3, FS_CardinalityType

\* What is on its way, in the queue or at work stays where it is.
LEMMA QuietKeeps ==
  ASSUME UNCHANGED <<queue, toSlave, toMaster, fwork>>
  PROVE  /\ \A s \in Slaves :
              Load(s)' = Load(s) /\ Cardinality(Queued(s))' = Cardinality(Queued(s))
         /\ Busy' = Busy
<1>1. \A s \in Slaves : Queued(s)' = Queued(s)
  BY DEF Queued
<1>2. \A s \in Slaves :
        Load(s)' = Load(s) /\ Cardinality(Queued(s))' = Cardinality(Queued(s))
  BY <1>1 DEF Load, AtHand
<1> QED
  BY <1>2 DEF Busy

\* What is moved stays with the slave it belongs to.
LEMMA MovedKeeps ==
  ASSUME PoolInv, TypeOK', OnlyPool', Knowing', Working',
         \A s \in Slaves : /\ Load(s)' = Load(s)
                           /\ Cardinality(Queued(s))' >= Cardinality(Queued(s)),
         UNCHANGED <<args, state, slave, counters, collected>>,
         pc' = pc \/ (pc = "wait" /\ pc' = "scan")
  PROVE  PoolInv'
<1>1. Busy' = Busy
  BY DEF Busy
<1>2. Single'
  BY DEF Single, PoolInv
<1>3. Counted'
  <2>1. Closing' = Closing /\ Promised' = Promised /\ Released' = Released
    BY DEF Closing, Promised, Released
  <2>2. nactive' = nactive /\ nused' = nused
    BY DEF counters
  <2> QED
    BY <1>1, <2>1, <2>2 DEF Counted, PoolInv
<1>4. Where'
  BY DEF Where, PoolInv, counters, Closing
<1>5. Selected'
  <2>1. Promised' = Promised /\ slave' = slave /\ (pc' = "freap" <=> pc = "freap")
    BY DEF Promised
  <2>2. \A s \in Slaves : Cardinality(Queued(s)) \in Nat /\ Cardinality(Queued(s))' \in Nat
    <3>1. \A s \in Slaves : Queued(s)' = From(queue', s)
      BY DEF Queued, From
    <3>2. queue' \in Seq(Entry)
      BY DEF TypeOK
    <3> QED
      BY <3>1, <3>2, FromCounted, LoadTyped DEF PoolInv
  <2> QED
    BY <2>1, <2>2 DEF Selected, PoolInv
<1> QED
  BY <1>2, <1>3, <1>4, <1>5 DEF PoolInv

-----------------------------------------------------------------------------
(* The steps that move what a slave has. *)

LEMMA EnqueueKeeps == ASSUME NEW r \in Ranks PROVE PoolInv /\ Enqueue(r) => PoolInv' /\ Moves
<1> SUFFICES ASSUME PoolInv, Enqueue(r) PROVE PoolInv' /\ Moves
  OBVIOUS
<1> DEFINE e == [from |-> r, job |-> Head(toMaster[r])]
<1>1. /\ toMaster[r] \in Seq(Nat) /\ toMaster[r] # <<>>
      /\ queue \in Seq(Entry) /\ e \in Entry
  BY HeadTailProperties DEF PoolInv, TypeOK, Enqueue, Entry
<1>2. /\ Tail(toMaster[r]) \in Seq(Nat)
      /\ Len(Tail(toMaster[r])) = Len(toMaster[r]) - 1
  BY <1>1, HeadTailProperties
<1>3. queue' = Append(queue, e) /\ queue' \in Seq(Entry)
  BY <1>1, AppendProperties DEF Enqueue
<1> HIDE DEF e
<1>4. toMaster' = [toMaster EXCEPT ![r] = Tail(@)] /\ UNCHANGED <<toSlave, fwork>>
  BY DEF Enqueue
<1>5. TypeOK'
  BY <1>2, <1>3, <1>4 DEF PoolInv, TypeOK, Enqueue, args, counters
<1>6. OnlyPool'
  <2>1. ASSUME ~listed
        PROVE  /\ \A f \in Foreign : toMaster'[f] = <<>>
               /\ \A i \in DOMAIN queue' : queue'[i].from \in Slaves
    <3>1. r \in Slaves
      BY <1>1, <2>1 DEF PoolInv, OnlyPool, Ranks
    <3>2. \A f \in Foreign : f # r
      BY <3>1, ForeignAssumption, SlavesAssumption DEF Slaves
    <3>3. \A i \in DOMAIN queue' : i \in DOMAIN queue \/ queue'[i] = e
      BY <1>1, <1>3, AppendProperties, LenProperties
    <3>4. \A i \in DOMAIN queue : queue'[i] = queue[i]
      BY <1>1, <1>3, AppendProperties, LenProperties
    <3>5. e.from = r
      BY DEF e
    <3> QED
      BY <2>1, <3>1, <3>2, <3>3, <3>4, <3>5, <1>4 DEF PoolInv, OnlyPool, TypeOK, Ranks
  <2> QED
    BY <2>1 DEF OnlyPool, Enqueue, args
<1>7. Knowing' /\ Working'
  BY <1>4 DEF PoolInv, Knowing, Working, Enqueue, Closing
<1>8. ASSUME NEW s \in Slaves
      PROVE  /\ Load(s)' = Load(s)
             /\ Cardinality(Queued(s))' >= Cardinality(Queued(s))
  <2>1. Queued(s) = From(queue, s) /\ Queued(s)' = From(queue', s)
    BY DEF Queued, From
  <2>2. Cardinality(Queued(s))' = Cardinality(Queued(s)) + (IF r = s THEN 1 ELSE 0)
    BY <1>1, <1>3, <2>1, FromAppended DEF e
  <2>3. Len(toMaster'[s]) = Len(toMaster[s]) - (IF r = s THEN 1 ELSE 0)
    <3>1. toMaster \in [Ranks -> Seq(Nat)] /\ s \in Ranks
      BY DEF PoolInv, TypeOK, Ranks
    <3>2. Len(toMaster[s]) \in Nat
      BY LoadTyped DEF PoolInv
    <3>3. CASE r = s
      BY <3>1, <3>2, <3>3, <1>2, <1>4
    <3>4. CASE r # s
      BY <3>1, <3>2, <3>4, <1>4
    <3> QED
      BY <3>3, <3>4
  <2>4. toSlave' = toSlave /\ AtHand(s)' = AtHand(s)
    BY <1>4 DEF AtHand
  <2>5. Cardinality(Queued(s)) \in Nat /\ Load(s) \in Nat
    BY LoadTyped DEF PoolInv
  <2>6. CASE r = s
    <3>1. More(s) = <<0, 0, -1, 1>>
      BY <2>2, <2>3, <2>4, <2>6, LoadTyped DEF PoolInv, More
    <3>2. Load(s)' = Load(s) + (0 + 0 + (-1) + 1)
      BY <1>5, <3>1, LoadChange DEF PoolInv
    <3> QED
      BY <2>2, <2>5, <2>6, <3>2
  <2>7. CASE r # s
    BY <2>2, <2>3, <2>4, <2>5, <2>7, LoadTyped DEF Load, PoolInv
  <2> QED
    BY <2>6, <2>7
<1>9. UNCHANGED <<args, state, slave, counters, collected>>
  BY DEF Enqueue
<1>10. pc' = pc \/ (pc = "wait" /\ pc' = "scan")
  BY DEF Enqueue
<1> QED
  BY <1>5, <1>6, <1>7, <1>8, <1>9, <1>10, MovedKeeps DEF Moves

LEMMA SlaveReceivesKeeps ==
  ASSUME NEW r \in Slaves PROVE PoolInv /\ SlaveReceives(r) => PoolInv' /\ Moves
<1> SUFFICES ASSUME PoolInv, SlaveReceives(r) PROVE PoolInv' /\ Moves
  OBVIOUS
<1> DEFINE j == Head(toSlave[r])
<1>1. /\ toSlave \in [Slaves -> Seq(Nat)] /\ fwork \in [Slaves -> Nat \cup {Stopped}]
      /\ toMaster \in [Ranks -> Seq(Nat)] /\ r \in Ranks /\ fwork[r] = 0
  BY DEF PoolInv, TypeOK, Ranks, SlaveReceives, Waiting
<1>2. /\ toSlave[r] \in Seq(Nat) /\ toSlave[r] # <<>> /\ j \in Nat
      /\ Tail(toSlave[r]) \in Seq(Nat) /\ Len(Tail(toSlave[r])) = Len(toSlave[r]) - 1
      /\ \A i \in 1..Len(Tail(toSlave[r])) : Tail(toSlave[r])[i] = toSlave[r][i + 1]
  BY <1>1, HeadTailProperties DEF SlaveReceives
<1>3. /\ Append(toMaster[r], Timings) \in Seq(Nat)
      /\ Len(Append(toMaster[r], Timings)) = Len(toMaster[r]) + 1
  BY <1>1, AppendProperties DEF Timings
<1>4. toSlave' = [toSlave EXCEPT ![r] = Tail(@)]
  BY DEF SlaveReceives
<1>5. \/ /\ j > 0 /\ fwork' = [fwork EXCEPT ![r] = j] /\ toMaster' = toMaster
      \/ /\ j = 0 /\ fwork' = [fwork EXCEPT ![r] = Stopped]
         /\ toMaster' = [toMaster EXCEPT ![r] = Append(@, Timings)]
  BY <1>2 DEF SlaveReceives
<1>6. IF Closing THEN j = 0 ELSE j > 0
  <2>1. 1 \in DOMAIN toSlave[r] /\ j = toSlave[r][1]
    BY <1>2, EmptySeq, LenProperties
  <2> QED
    BY <2>1 DEF PoolInv, Knowing, Shutdown
<1> HIDE DEF j
<1>7. UNCHANGED <<args, master, queue, reaped, foreignSent, taken>>
  BY DEF SlaveReceives
<1>8. TypeOK'
  <2>1. toSlave' \in [Slaves -> Seq(Nat)]
    BY <1>1, <1>2, <1>4
  <2>2. fwork' \in [Slaves -> Nat \cup {Stopped}]
    BY <1>1, <1>2, <1>5 DEF j
  <2>3. toMaster' \in [Ranks -> Seq(Nat)]
    BY <1>1, <1>3, <1>5
  <2> QED
    BY <1>7, <2>1, <2>2, <2>3 DEF PoolInv, TypeOK, args, master, counters
<1>9. OnlyPool'
  <2>1. \A f \in Foreign : f # r
    BY ForeignAssumption, SlavesAssumption DEF Slaves
  <2>2. \A f \in Foreign : toMaster'[f] = toMaster[f]
    BY <1>1, <1>5, <2>1 DEF Ranks
  <2> QED
    BY <1>7, <2>2 DEF PoolInv, OnlyPool, args
<1>10. Closing' = Closing
  BY <1>7 DEF Closing, master
<1>11. Knowing'
  <2>1. ASSUME NEW s \in Slaves, NEW i \in DOMAIN toSlave'[s]
        PROVE  IF Closing THEN toSlave'[s][i] = Shutdown ELSE toSlave'[s][i] > 0
    <3>1. CASE s # r
      BY <1>1, <1>4, <2>1, <3>1 DEF PoolInv, Knowing
    <3>2. CASE s = r
      <4>1. toSlave'[s] = Tail(toSlave[r])
        BY <1>1, <1>4, <3>2
      <4>2. i \in 1..Len(Tail(toSlave[r])) /\ DOMAIN toSlave[r] = 1..Len(toSlave[r])
        BY <1>2, <2>1, <4>1, LenProperties
      <4>3. i + 1 \in DOMAIN toSlave[r] /\ toSlave'[s][i] = toSlave[r][i + 1]
        BY <1>2, <4>1, <4>2, LenProperties
      <4> QED
        BY <4>3 DEF PoolInv, Knowing
    <3> QED
      BY <3>1, <3>2
  <2> QED
    BY <1>10, <2>1 DEF Knowing
<1>12. Working'
  <2>1. ASSUME NEW s \in Slaves
        PROVE  IF Closing THEN fwork'[s] <= 0 ELSE fwork'[s] >= 0
    <3>1. CASE s # r
      BY <1>1, <1>5, <3>1 DEF PoolInv, Working
    <3>2. CASE s = r
      BY <1>1, <1>2, <1>5, <1>6, <3>2 DEF Stopped, j
    <3> QED
      BY <3>1, <3>2
  <2> QED
    BY <1>10, <2>1 DEF Working
<1>13. ASSUME NEW s \in Slaves
       PROVE  Load(s)' = Load(s) /\ Cardinality(Queued(s))' = Cardinality(Queued(s))
  <2>1. Cardinality(Queued(s))' = Cardinality(Queued(s))
    BY <1>7 DEF Queued
  <2>2. Load(s) \in Nat /\ Cardinality(Queued(s)) \in Nat /\ s \in Ranks
    BY LoadTyped DEF PoolInv, Ranks
  <2>3. CASE s # r
    BY <1>1, <1>4, <1>5, <2>1, <2>2, <2>3 DEF Load, AtHand
  <2>4. CASE s = r
    <3>1. Len(toSlave'[s]) - Len(toSlave[s]) = -1
      BY <1>1, <1>2, <1>4, <2>4, LoadTyped DEF PoolInv
    <3>2. AtHand(s) = 0 /\ Cardinality(Queued(s))' - Cardinality(Queued(s)) = 0
      BY <1>1, <2>1, <2>2, <2>4 DEF AtHand
    <3>3. CASE j > 0 /\ fwork' = [fwork EXCEPT ![r] = j] /\ toMaster' = toMaster
      <4>1. AtHand(s)' = 1 /\ Len(toMaster'[s]) - Len(toMaster[s]) = 0
        BY <1>1, <2>4, <3>3, LoadTyped DEF PoolInv, AtHand
      <4>2. More(s) = <<-1, 1, 0, 0>>
        BY <3>1, <3>2, <4>1 DEF More
      <4> QED
        BY <1>8, <2>1, <2>2, <4>2, LoadChange DEF PoolInv
    <3>4. CASE /\ j = 0 /\ fwork' = [fwork EXCEPT ![r] = Stopped]
               /\ toMaster' = [toMaster EXCEPT ![r] = Append(@, Timings)]
      <4>1. AtHand(s)' = 0 /\ Len(toMaster'[s]) - Len(toMaster[s]) = 1
        BY <1>1, <1>3, <2>4, <3>4, LoadTyped DEF PoolInv, AtHand, Stopped
      <4>2. More(s) = <<-1, 0, 1, 0>>
        BY <3>1, <3>2, <4>1 DEF More
      <4> QED
        BY <1>8, <2>1, <2>2, <4>2, LoadChange DEF PoolInv
    <3> QED
      BY <1>5, <3>3, <3>4
  <2> QED
    BY <2>3, <2>4
<1>14. \A s \in Slaves : Cardinality(Queued(s)) \in Nat
  BY LoadTyped DEF PoolInv
<1> QED
  BY <1>7, <1>8, <1>9, <1>11, <1>12, <1>13, <1>14, MovedKeeps DEF Moves, master

LEMMA SlaveSendsKeeps ==
  ASSUME NEW r \in Slaves PROVE PoolInv /\ SlaveSends(r) => PoolInv' /\ Moves
<1> SUFFICES ASSUME PoolInv, SlaveSends(r) PROVE PoolInv' /\ Moves
  OBVIOUS
<1>1. /\ fwork \in [Slaves -> Nat \cup {Stopped}] /\ fwork[r] \in Nat /\ fwork[r] > 0
      /\ toMaster \in [Ranks -> Seq(Nat)] /\ r \in Ranks
  BY DEF PoolInv, TypeOK, Ranks, SlaveSends, Stopped
<1>2. /\ Append(toMaster[r], fwork[r]) \in Seq(Nat)
      /\ Len(Append(toMaster[r], fwork[r])) = Len(toMaster[r]) + 1
  BY <1>1, AppendProperties
<1>3. /\ toMaster' = [toMaster EXCEPT ![r] = Append(@, fwork[r])]
      /\ fwork' = [fwork EXCEPT ![r] = Waiting]
      /\ UNCHANGED <<args, master, queue, toSlave, reaped, foreignSent, taken>>
  BY DEF SlaveSends
<1>4. TypeOK'
  <2>1. fwork' \in [Slaves -> Nat \cup {Stopped}]
    BY <1>1, <1>3 DEF Waiting
  <2>2. toMaster' \in [Ranks -> Seq(Nat)]
    BY <1>1, <1>2, <1>3
  <2> QED
    BY <1>3, <2>1, <2>2 DEF PoolInv, TypeOK, args, master, counters
<1>5. OnlyPool'
  <2>1. \A f \in Foreign : f # r
    BY ForeignAssumption, SlavesAssumption DEF Slaves
  <2>2. \A f \in Foreign : toMaster'[f] = toMaster[f]
    BY <1>1, <1>3, <2>1 DEF Ranks
  <2> QED
    BY <1>3, <2>2 DEF PoolInv, OnlyPool, args
<1>6. Closing' = Closing
  BY <1>3 DEF Closing, master
<1>7. Knowing'
  BY <1>3, <1>6 DEF PoolInv, Knowing
<1>8. Working'
  BY <1>1, <1>3, <1>6 DEF PoolInv, Working, Waiting
<1>9. ASSUME NEW s \in Slaves
      PROVE  Load(s)' = Load(s) /\ Cardinality(Queued(s))' = Cardinality(Queued(s))
  <2>1. Cardinality(Queued(s))' = Cardinality(Queued(s))
    BY <1>3 DEF Queued
  <2>2. Load(s) \in Nat /\ Cardinality(Queued(s)) \in Nat /\ s \in Ranks
    BY LoadTyped DEF PoolInv, Ranks
  <2>3. CASE s # r
    BY <1>1, <1>3, <2>1, <2>2, <2>3 DEF Load, AtHand
  <2>4. CASE s = r
    <3>1. Len(toMaster'[s]) - Len(toMaster[s]) = 1
      BY <1>1, <1>2, <1>3, <2>4, LoadTyped DEF PoolInv
    <3>2. /\ Len(toSlave'[s]) - Len(toSlave[s]) = 0
          /\ Cardinality(Queued(s))' - Cardinality(Queued(s)) = 0
      BY <1>3, <2>1, <2>2, LoadTyped DEF PoolInv
    <3>3. AtHand(s) = 1 /\ AtHand(s)' = 0
      BY <1>1, <1>3, <2>4 DEF AtHand, Waiting
    <3>4. More(s) = <<0, -1, 1, 0>>
      BY <3>1, <3>2, <3>3 DEF More
    <3> QED
      BY <1>4, <2>1, <2>2, <3>4, LoadChange DEF PoolInv
  <2> QED
    BY <2>3, <2>4
<1>10. \A s \in Slaves : Cardinality(Queued(s)) \in Nat
  BY LoadTyped DEF PoolInv
<1> QED
  BY <1>3, <1>4, <1>5, <1>7, <1>8, <1>9, <1>10, MovedKeeps DEF Moves, master

LEMMA ForeignSendsKeeps ==
  ASSUME NEW f \in Foreign PROVE PoolInv /\ ForeignSends(f) => PoolInv' /\ Moves
<1> SUFFICES ASSUME PoolInv, ForeignSends(f) PROVE PoolInv' /\ Moves
  OBVIOUS
<1>1. /\ toMaster \in [Ranks -> Seq(Nat)] /\ f \in Ranks
      /\ toMaster' = [toMaster EXCEPT ![f] = Append(@, Timings)]
      /\ UNCHANGED <<args, master, queue, toSlave, fwork, reaped, taken>>
  BY DEF PoolInv, TypeOK, Ranks, ForeignSends
<1>2. Append(toMaster[f], Timings) \in Seq(Nat)
  BY <1>1, AppendProperties DEF Timings
<1>3. TypeOK'
  <2>1. toMaster' \in [Ranks -> Seq(Nat)]
    BY <1>1, <1>2
  <2>2. foreignSent' \in Nat
    BY DEF PoolInv, TypeOK, ForeignSends
  <2> QED
    BY <1>1, <2>1, <2>2 DEF PoolInv, TypeOK, args, master, counters
<1>4. OnlyPool'
  BY DEF OnlyPool, ForeignSends, args
<1>5. Knowing' /\ Working'
  BY <1>1 DEF PoolInv, Knowing, Working, Closing, master
<1>6. ASSUME NEW s \in Slaves
      PROVE  Load(s)' = Load(s) /\ Cardinality(Queued(s))' = Cardinality(Queued(s))
  <2>1. s # f /\ s \in Ranks
    BY ForeignAssumption, SlavesAssumption DEF Slaves, Ranks
  <2>2. toMaster'[s] = toMaster[s]
    BY <1>1, <2>1
  <2> QED
    BY <1>1, <2>2 DEF Load, AtHand, Queued
<1>7. \A s \in Slaves : Cardinality(Queued(s)) \in Nat
  BY LoadTyped DEF PoolInv
<1> QED
  BY <1>1, <1>3, <1>4, <1>5, <1>6, <1>7, MovedKeeps DEF Moves, master

\* Taking out message k of the queue, which the pool need not be left with.
LEMMA TakenOut ==
  ASSUME TypeOK, OnlyPool, UNCHANGED listed, NEW k \in DOMAIN queue,
         queue' = RemoveAt(queue, k), UNCHANGED toMaster
  PROVE  /\ queue' \in Seq(Entry) /\ OnlyPool'
         /\ \A s \in Slaves :
              Cardinality(Queued(s))' =
                Cardinality(Queued(s)) - (IF queue[k].from = s THEN 1 ELSE 0)
<1>1. queue \in Seq(Entry)
  BY DEF TypeOK
<1>2. queue' \in Seq(Entry)
  BY <1>1, FromRemoved
<1>3. \A s \in Slaves : Queued(s) = From(queue, s) /\ Queued(s)' = From(queue', s)
  BY DEF Queued, From
<1>4. \A i \in DOMAIN queue' : \E p \in DOMAIN queue : queue'[i] = queue[p]
  <2>1. Len(queue) \in Nat /\ DOMAIN queue = 1..Len(queue) /\ DOMAIN queue' = 1..Len(queue')
    BY <1>1, <1>2, LenProperties
  <2>2. /\ Len(queue') = Len(queue) - 1
        /\ \A i \in 1..(Len(queue) - 1) :
             queue'[i] = IF i < k THEN queue[i] ELSE queue[i + 1]
    BY <1>1, <2>1, RemoveAtProperties
  <2> QED
    BY <2>1, <2>2
<1>5. OnlyPool'
  BY <1>4 DEF OnlyPool
<1>6. \A s \in Slaves :
        Cardinality(Queued(s))' =
          Cardinality(Queued(s)) - (IF queue[k].from = s THEN 1 ELSE 0)
  BY <1>1, <1>3, FromRemoved
<1> QED
  BY <1>2, <1>5, <1>6

LEMMA UserReceivesKeeps ==
  ASSUME NEW f \in Foreign PROVE PoolInv /\ UserReceives(f) => PoolInv' /\ Moves
<1> SUFFICES ASSUME PoolInv, UserReceives(f) PROVE PoolInv' /\ Moves
  OBVIOUS
<1>1. PICK k \in Oldest(f) : queue' = RemoveAt(queue, k)
  BY DEF UserReceives
<1>2. k \in DOMAIN queue /\ queue[k].from = f
  BY DEF Oldest, Queued
<1>3. UNCHANGED <<args, master, toSlave, toMaster, fwork, reaped, foreignSent>>
  BY DEF UserReceives
<1>4. /\ queue' \in Seq(Entry) /\ OnlyPool'
      /\ \A s \in Slaves :
           Cardinality(Queued(s))' =
             Cardinality(Queued(s)) - (IF queue[k].from = s THEN 1 ELSE 0)
  BY <1>1, <1>2, <1>3, TakenOut DEF PoolInv, args
<1>5. TypeOK'
  BY <1>3, <1>4 DEF PoolInv, TypeOK, UserReceives, args, master, counters
<1>6. Knowing' /\ Working'
  BY <1>3 DEF PoolInv, Knowing, Working, Closing, master
<1>7. \A s \in Slaves : Cardinality(Queued(s)) \in Nat
  BY LoadTyped DEF PoolInv
<1>8. ASSUME NEW s \in Slaves
      PROVE  Load(s)' = Load(s) /\ Cardinality(Queued(s))' = Cardinality(Queued(s))
  <2>1. s # f
    BY ForeignAssumption, SlavesAssumption DEF Slaves
  <2>2. Cardinality(Queued(s))' = Cardinality(Queued(s))
    BY <1>2, <1>4, <1>7, <2>1
  <2> QED
    BY <1>3, <2>2 DEF Load, AtHand
<1> QED
  BY <1>3, <1>4, <1>5, <1>6, <1>7, <1>8, MovedKeeps DEF Moves, master

-----------------------------------------------------------------------------
(* The steps of the master that decide what to do next. *)

LEMMA BusyNamed ==
  ASSUME PoolInv, NEW s \in Slaves, Load(s) > 0
  PROVE  Cardinality(Busy) >= 1
<1>1. s \in Busy
  BY DEF Busy
<1> QED
  BY <1>1, BusyTyped, FS_EmptySet DEF PoolInv

\* Nothing moves; pc, state, slave and the counters say something else.
LEMMA DecisionKeeps ==
  ASSUME PoolInv, TypeOK', UNCHANGED <<args, queue, toSlave, toMaster, fwork, collected>>,
         ~Closing, ~Closing', pc' # "error", pc # "error",
         Where', nused' >= nused,
         \A s \in Slaves : s = slave' =>
           /\ Promised' => Load(s) = 0
           /\ pc' = "freap" => Cardinality(Queued(s)) >= 1,
         nactive' = Cardinality(Busy) + (IF Promised' THEN 1 ELSE 0)
                                      - (IF Released' THEN 1 ELSE 0)
  PROVE  PoolInv'
<1>1. /\ \A s \in Slaves :
            Load(s)' = Load(s) /\ Cardinality(Queued(s))' = Cardinality(Queued(s))
      /\ Busy' = Busy
  BY QuietKeeps
<1>2. OnlyPool'
  BY DEF PoolInv, OnlyPool, args
<1>3. Knowing' /\ Working'
  BY DEF PoolInv, Knowing, Working
<1>4. Single'
  BY <1>1 DEF PoolInv, Single
<1>5. Selected'
  BY <1>1 DEF Selected
<1>6. Counted'
  <2>1. Busy \subseteq 1 .. nused /\ nused \in Nat /\ nused' \in Nat
    BY DEF PoolInv, Counted, TypeOK
  <2>2. Busy' \subseteq 1 .. nused'
    BY <1>1, <2>1
  <2> QED
    BY <1>1, <2>2 DEF Counted
<1> QED
  BY <1>2, <1>3, <1>4, <1>5, <1>6 DEF PoolInv

LEMMA SowAnotherKeeps ==
  ASSUME PoolInv, SowAnother, state = 1, pc \in {"active", "probe", "scan"},
         UNCHANGED <<args, queue, toSlave, toMaster, fwork, reaped, foreignSent, taken>>,
         nignore' \in Nat
  PROVE  PoolInv'
<1>1. /\ pc' = "fsow" /\ collected' = collected /\ jobo' = jobo /\ njobs' = njobs
      /\ nused \in Nat /\ nself \in Nat /\ nactive \in 0..nused /\ nmax \in Nat /\ nused <= nmax
      /\ nmax' = nmax
  BY DEF SowAnother, PoolInv, TypeOK, args
<1>2. ~Closing /\ ~Closing' /\ ~Promised /\ ~Released /\ ~Released'
  BY <1>1 DEF Closing, Promised, Released
<1>3. Busy \subseteq 1 .. nused /\ nactive = Cardinality(Busy)
  <2>1. nactive = Cardinality(Busy) + 0 - 0 /\ Busy \subseteq 1 .. nused
    BY <1>2 DEF PoolInv, Counted
  <2> QED
    BY <2>1, BusyTyped DEF PoolInv
<1>4. CASE Unused
  <2>1. /\ nactive' = nactive + 1 /\ nused' = nused + 1 /\ slave' = nused + 1
        /\ state' = 1 /\ nself' = nself /\ nused < nmax
    BY <1>4 DEF SowAnother, Unused
  <2>2. TypeOK'
    BY <1>1, <2>1 DEF PoolInv, TypeOK, args
  <2>3. Where'
    BY <1>1, <1>2, <2>1 DEF PoolInv, Where
  <2>4. Promised'
    BY <1>1, <2>1 DEF Promised, Self
  <2>5. \A s \in Slaves : s = slave' => Load(s) = 0
    <3>1. ASSUME NEW s \in Slaves, s = slave' PROVE Load(s) = 0
      <4>1. s \notin Busy
        BY <1>1, <1>3, <2>1, <3>1
      <4> QED
        BY <4>1, LoadTyped DEF PoolInv, Busy
    <3> QED
      BY <3>1
  <2>6. nactive' = Cardinality(Busy) + 1 - 0
    BY <1>3, <2>1, BusyTyped DEF PoolInv
  <2> QED
    BY <1>1, <1>2, <2>1, <2>2, <2>3, <2>4, <2>5, <2>6, DecisionKeeps
<1>5. CASE ~Unused
  <2>1. /\ nself' = nself + 1 /\ slave' = Self /\ state' = 12
        /\ nactive' = nactive /\ nused' = nused
    BY <1>5 DEF SowAnother
  <2>2. TypeOK'
    BY <1>1, <2>1 DEF PoolInv, TypeOK, args, Self
  <2>3. Where'
    BY <1>1, <1>2, <2>1 DEF PoolInv, Where
  <2>4. ~Promised'
    BY <1>1, <2>1 DEF Promised
  <2>5. nactive' = Cardinality(Busy) + 0 - 0
    BY <1>3, <2>1, BusyTyped DEF PoolInv
  <2> QED
    BY <1>1, <1>2, <2>1, <2>2, <2>3, <2>4, <2>5, DecisionKeeps
<1> QED
  BY <1>4, <1>5

\* Where the master neither has promised a job nor is about to reap.
LEMMA Plain ==
  ASSUME PoolInv, ~Closing, pc # "error", ~Promised, ~Released
  PROVE  nactive = Cardinality(Busy) /\ Busy \subseteq 1 .. nused
<1>1. nactive = Cardinality(Busy) + 0 - 0 /\ Busy \subseteq 1 .. nused
  BY DEF PoolInv, Counted
<1> QED
  BY <1>1, BusyTyped DEF PoolInv

\* The master goes on to probe.
LEMMA ProbeKeeps ==
  ASSUME PoolInv, ~Closing, pc # "error", ~Promised, ~Released,
         pc' \in {"probe", "wait"}, state \in {1, 20}, nignore' \in Nat,
         UNCHANGED <<args, state, slave, njobs, nused, nself, nactive, jobo, collected, queue,
                     toSlave, toMaster, fwork, reaped, foreignSent, taken>>
  PROVE  PoolInv'
<1>1. TypeOK'
  BY DEF PoolInv, TypeOK, args
<1>2. ~Closing' /\ ~Promised' /\ ~Released' /\ pc' # "error" /\ pc' # "freap"
  BY DEF Closing, Promised, Released
<1>3. Where'
  BY DEF PoolInv, Where, Closing
<1>4. nactive' = Cardinality(Busy) + 0 - 0
  BY Plain, BusyTyped DEF PoolInv
<1>5. nused' >= nused
  BY DEF PoolInv, TypeOK
<1> QED
  BY <1>1, <1>2, <1>3, <1>4, <1>5, DecisionKeeps

LEMMA ActiveAnyKeeps == PoolInv /\ Active /\ ActiveAny => PoolInv'
<1> SUFFICES ASSUME PoolInv, Active, ActiveAny PROVE PoolInv'
  OBVIOUS
<1>1. /\ pc = "active" /\ state = 1
      /\ UNCHANGED <<args, queue, toSlave, toMaster, fwork, reaped, foreignSent, taken>>
  BY DEF Active, ActiveAny
<1>2. ~Closing /\ ~Promised /\ ~Released /\ nignore \in Nat
  BY <1>1 DEF Closing, Promised, Released, PoolInv, TypeOK
<1>3. CASE nactive > 0
  BY <1>1, <1>2, <1>3, ProbeKeeps DEF ActiveAny, counters
<1>4. CASE ~(nactive > 0)
  BY <1>1, <1>2, <1>4, SowAnotherKeeps DEF ActiveAny
<1> QED
  BY <1>3, <1>4

LEMMA ActiveReapedKeeps == PoolInv /\ Active /\ ActiveReaped => PoolInv'
<1> SUFFICES ASSUME PoolInv, Active, ActiveReaped PROVE PoolInv'
  OBVIOUS
<1>1. /\ pc = "active" /\ state = 2 /\ pc' = "fsow" /\ state' = 1
      /\ UNCHANGED <<slave, counters, jobo, collected, queue, toSlave, args, toMaster, fwork,
                     reaped, foreignSent, taken>>
  BY DEF Active, ActiveReaped
<1>2. TypeOK'
  BY <1>1 DEF PoolInv, TypeOK, args, counters
<1>3. slave \in Slaves /\ slave <= nused /\ slave # Self /\ slave \in 1 .. nused
  <2>1. slave \in Slaves /\ slave <= nused
    BY <1>1 DEF PoolInv, Where
  <2> QED
    BY <2>1, SlavesAssumption DEF Slaves, Self, PoolInv, TypeOK
<1>4. Where'
  BY <1>1, <1>3 DEF PoolInv, Where, Closing, counters
<1>5. Promised /\ Promised' /\ ~Released /\ ~Released' /\ ~Closing /\ ~Closing'
  BY <1>1, <1>3 DEF Promised, Released, Closing
<1>6. \A s \in Slaves : s = slave' => Load(s) = 0
  BY <1>1, <1>5 DEF PoolInv, Selected
<1>7. nactive' = Cardinality(Busy) + 1 - 0
  BY <1>1, <1>5 DEF PoolInv, Counted, counters
<1>8. nused' >= nused
  BY <1>1 DEF PoolInv, TypeOK, counters
<1> QED
  BY <1>1, <1>2, <1>4, <1>5, <1>6, <1>7, <1>8, DecisionKeeps

LEMMA ActiveSelfKeeps == PoolInv /\ Active /\ ActiveSelf => PoolInv'
<1> SUFFICES ASSUME PoolInv, Active, ActiveSelf PROVE PoolInv'
  OBVIOUS
<1>1. /\ pc = "active" /\ state = 3 /\ pc' = "freap" /\ state' = 1
      /\ UNCHANGED <<slave, counters, jobo, collected, queue, toSlave, args, toMaster, fwork,
                     reaped, foreignSent, taken>>
  BY DEF Active, ActiveSelf
<1>2. TypeOK'
  BY <1>1 DEF PoolInv, TypeOK, args, counters
<1>3. slave = Self
  BY <1>1 DEF PoolInv, Where
<1>4. Where'
  BY <1>1, <1>3 DEF PoolInv, Where, Closing, counters
<1>5. ~Promised /\ ~Promised' /\ ~Released /\ ~Released' /\ ~Closing /\ ~Closing'
  BY <1>1 DEF Promised, Released, Closing
<1>6. \A s \in Slaves : s # slave'
  BY <1>1, <1>3, SlavesAssumption DEF Slaves, Self
<1>7. nactive' = Cardinality(Busy) + 0 - 0 /\ nused' >= nused
  BY <1>1, <1>5, Plain, BusyTyped DEF counters, PoolInv, TypeOK
<1> QED
  BY <1>1, <1>2, <1>4, <1>5, <1>6, <1>7, DecisionKeeps

\* Nobody has anything when the shutdown is sent, and everybody one thing after.
LEMMA ActiveNoMoreKeeps ==
  PoolInv /\ Active /\ ActiveNoMore =>
    PoolInv' /\ (pc' = "collect" => Busy = {} /\ \A s \in Slaves : Load(s)' = 1)
<1> SUFFICES ASSUME PoolInv, Active, ActiveNoMore
             PROVE  PoolInv' /\ (pc' = "collect" => Busy = {} /\ \A s \in Slaves : Load(s)' = 1)
  OBVIOUS
<1>1. /\ pc = "active" /\ state = 20
      /\ UNCHANGED <<state, slave, counters, jobo, collected, queue, args, toMaster, fwork,
                     reaped, foreignSent, taken>>
  BY DEF Active, ActiveNoMore
<1>2. ~Closing /\ ~Promised /\ ~Released
  BY <1>1 DEF Closing, Promised, Released
<1>3. CASE nactive > 0
  <2>1. pc' = "probe" /\ toSlave' = toSlave /\ nignore' \in Nat
    BY <1>1, <1>3 DEF ActiveNoMore, PoolInv, TypeOK, counters
  <2> QED
    BY <1>1, <1>2, <2>1, ProbeKeeps DEF counters
<1>4. CASE ~(nactive > 0)
  <2>1. pc' = "collect" /\ toSlave' = [s \in Slaves |-> Append(toSlave[s], Shutdown)]
    BY <1>4 DEF ActiveNoMore, Staff
  <2>2. nactive = Cardinality(Busy) /\ nactive \in Nat /\ nactive = 0
    BY <1>1, <1>2, <1>4, Plain DEF PoolInv, TypeOK
  <2>3. Busy = {}
    BY <2>2, BusyTyped, FS_EmptySet DEF PoolInv
  <2>4. \A s \in Slaves : Load(s) = 0
    BY <2>3, LoadTyped DEF Busy, PoolInv
  <2>5. ASSUME NEW s \in Slaves
        PROVE  /\ toSlave[s] = <<>> /\ AtHand(s) = 0 /\ Len(toMaster[s]) = 0
               /\ Cardinality(Queued(s)) = 0
    <3>1. /\ Len(toSlave[s]) \in Nat /\ AtHand(s) \in Nat /\ Len(toMaster[s]) \in Nat
          /\ Cardinality(Queued(s)) \in Nat /\ toSlave[s] \in Seq(Nat)
      <4>1. TypeOK
        BY DEF PoolInv
      <4>2. AtHand(s) \in Nat
        BY DEF AtHand
      <4> QED
        BY <4>1, <4>2, LoadTyped
    <3>2. Len(toSlave[s]) + AtHand(s) + Len(toMaster[s]) + Cardinality(Queued(s)) = 0
      BY <2>4 DEF Load
    <3>3. /\ Len(toSlave[s]) = 0 /\ AtHand(s) = 0 /\ Len(toMaster[s]) = 0
          /\ Cardinality(Queued(s)) = 0
      <4> DEFINE w == Len(toSlave[s])
                 x == AtHand(s)
                 y == Len(toMaster[s])
                 z == Cardinality(Queued(s))
      <4>1. w \in Nat /\ x \in Nat /\ y \in Nat /\ z \in Nat /\ w + x + y + z = 0
        BY <3>1, <3>2
      <4> HIDE DEF w, x, y, z
      <4>2. w = 0 /\ x = 0 /\ y = 0 /\ z = 0
        BY <4>1
      <4> QED
        BY <4>2 DEF w, x, y, z
    <3> QED
      BY <3>1, <3>3, EmptySeq
  <2>6. \A s \in Slaves : toSlave'[s] = <<Shutdown>>
    <3>1. Append(<<>>, Shutdown) = <<Shutdown>>
      OBVIOUS
    <3> QED
      BY <2>1, <2>5, <3>1
  <2>7. TypeOK'
    <3>1. <<Shutdown>> \in Seq(Nat)
      BY DEF Shutdown
    <3>2. toSlave' \in [Slaves -> Seq(Nat)]
      BY <2>1, <2>6, <3>1
    <3> QED
      BY <1>1, <2>1, <3>2 DEF PoolInv, TypeOK, args, counters
  <2>8. OnlyPool'
    BY <1>1 DEF PoolInv, OnlyPool, args
  <2>9. Closing'
    BY <2>1 DEF Closing
  <2>10. Where'
    BY <1>1, <1>2, <2>1, <2>9, SlavesAssumption DEF PoolInv, Where
  <2>11. Knowing'
    BY <2>6, <2>9 DEF Knowing
  <2>12. Working'
    <3>1. \A s \in Slaves : fwork[s] = 0 \/ fwork[s] = Stopped
      BY <2>5, LoadTyped DEF AtHand, PoolInv, TypeOK, Stopped
    <3> QED
      BY <1>1, <2>9, <3>1 DEF Working, Stopped
  <2>13. ASSUME NEW s \in Slaves PROVE Load(s)' = 1
    <3>1. Queued(s)' = Queued(s) /\ AtHand(s)' = AtHand(s) /\ toMaster' = toMaster
      BY <1>1 DEF Queued, AtHand
    <3>2. Len(toSlave'[s]) = 1
      BY <2>6
    <3>3. More(s) = <<1, 0, 0, 0>>
      BY <2>5, <3>1, <3>2 DEF More
    <3> QED
      BY <2>4, <2>7, <3>3, LoadChange DEF PoolInv
  <2>14. Selected' /\ Counted'
    BY <2>1, <2>9 DEF Selected, Counted, Promised
  <2>15. Single'
    BY <2>13 DEF Single
  <2> QED
    BY <2>3, <2>7, <2>8, <2>10, <2>11, <2>12, <2>13, <2>14, <2>15 DEF PoolInv
<1> QED
  BY <1>3, <1>4

LEMMA ActiveKeeps == PoolInv /\ Active => PoolInv'
<1>1. Active => ActiveAny \/ ActiveReaped \/ ActiveSelf \/ ActiveNoMore
  BY DEF Active
<1> QED
  BY <1>1, ActiveAnyKeeps, ActiveReapedKeeps, ActiveSelfKeeps, ActiveNoMoreKeeps

\* The message that _mpool_ready finds is from a slave, in the pool or without
\* a list.
LEMMA ReadyKeeps ==
  ASSUME PoolInv, pc \in {"probe", "scan"}, NEW i \in FirstOfPool, Ready(i),
         nignore' \in Nat,
         UNCHANGED <<args, queue, toSlave, toMaster, fwork, reaped, foreignSent, taken>>
  PROVE  PoolInv'
<1>1. i \in DOMAIN queue /\ OfPool(i)
  BY DEF FirstOfPool
<1>2. PICK r \in Slaves : r = queue[i].from
  BY <1>1 DEF OfPool, PoolInv, OnlyPool
<1>3. /\ pc' = "freap" /\ slave' = r /\ collected' = collected
      /\ njobs' = njobs /\ nused' = nused /\ nself' = nself /\ jobo' = jobo
  BY <1>2 DEF Ready
<1>4. /\ ~Closing /\ ~Closing' /\ ~Promised /\ ~Promised' /\ ~Released
      /\ state \in {1, 20}
  BY <1>3 DEF Closing, Promised, Released, PoolInv, Where
<1>5. Cardinality(Queued(r)) >= 1 /\ Load(r) > 0
  <2>1. i \in Queued(r)
    BY <1>1, <1>2 DEF Queued
  <2>2. /\ Cardinality(Queued(r)) \in Nat
        /\ Cardinality(Queued(r)) = 0 <=> Queued(r) = {}
        /\ Len(toSlave[r]) \in Nat /\ AtHand(r) \in 0..1 /\ Len(toMaster[r]) \in Nat
    BY LoadTyped DEF PoolInv
  <2>3. Cardinality(Queued(r)) >= 1
    BY <2>1, <2>2
  <2> DEFINE w == Len(toSlave[r])
             x == AtHand(r)
             y == Len(toMaster[r])
             z == Cardinality(Queued(r))
  <2>4. Load(r) = w + x + y + z
    BY Zenon DEF Load
  <2>5. w \in Nat /\ x \in Nat /\ y \in Nat /\ z \in Nat /\ z >= 1
    BY <2>2, <2>3
  <2> HIDE DEF w, x, y, z
  <2>6. Load(r) > 0
    BY <2>4, <2>5
  <2> QED
    BY <2>3, <2>6
<1>6. nactive = Cardinality(Busy) /\ Cardinality(Busy) \in Nat /\ Cardinality(Busy) >= 1
  <2>1. nactive = Cardinality(Busy) /\ Cardinality(Busy) \in Nat
    BY <1>4, Plain, BusyTyped DEF PoolInv
  <2>2. Cardinality(Busy) >= 1
    BY <1>5, BusyNamed
  <2> QED
    BY <2>1, <2>2
<1>7. \/ state = 1 /\ state' = 2 /\ nactive' = nactive
      \/ state = 20 /\ state' = 20 /\ nactive' = nactive - 1
  BY <1>4 DEF Ready
<1>8. TypeOK'
  <2>1. slave' \in Ranks
    BY <1>2, <1>3 DEF Ranks
  <2>2. nactive' \in 0 .. nused'
    BY <1>3, <1>6, <1>7 DEF PoolInv, TypeOK
  <2> QED
    BY <1>3, <1>7, <2>1, <2>2 DEF PoolInv, TypeOK, args
<1>9. Where'
  BY <1>2, <1>3, <1>4, <1>7 DEF PoolInv, Where
<1>10. nactive' = Cardinality(Busy) + 0 - (IF Released' THEN 1 ELSE 0)
  BY <1>3, <1>6, <1>7 DEF Released
<1>11. nused' >= nused
  BY <1>3 DEF PoolInv, TypeOK
<1> QED
  BY <1>3, <1>4, <1>5, <1>8, <1>9, <1>10, <1>11, DecisionKeeps

LEMMA ScanKeeps ==
  ASSUME PoolInv, pc \in {"probe", "scan"}, Scan,
         UNCHANGED <<args, queue, toSlave, toMaster, fwork, reaped, foreignSent, taken>>
  PROVE  PoolInv'
<1>1. ~Closing /\ ~Promised /\ ~Released /\ state \in {1, 20} /\ nignore \in Nat
  BY DEF Closing, Promised, Released, PoolInv, Where, TypeOK
<1>2. Len(queue) \in Nat /\ DOMAIN queue = 1..Len(queue)
  BY LenProperties DEF PoolInv, TypeOK
<1>3. CASE \E i \in FirstOfPool :
             nignore' = (IF listed THEN i - 1 ELSE nignore) /\ Ready(i)
  <2>1. PICK i \in FirstOfPool : nignore' = (IF listed THEN i - 1 ELSE nignore) /\ Ready(i)
    BY <1>3
  <2>2. nignore' \in Nat
    BY <1>1, <1>2, <2>1 DEF FirstOfPool
  <2> QED
    BY <2>1, <2>2, ReadyKeeps
<1>4. CASE /\ nignore' = IF nignore < Len(queue) THEN Len(queue) ELSE nignore
           /\ IF Blocking
              THEN /\ pc' = "probe"
                   /\ UNCHANGED <<state, slave, njobs, nused, nself, nactive, jobo, collected>>
              ELSE SowAnother
  <2>1. nignore' \in Nat
    BY <1>1, <1>2, <1>4
  <2>2. CASE Blocking
    BY <1>1, <1>4, <2>1, <2>2, ProbeKeeps
  <2>3. CASE ~Blocking
    BY <1>1, <1>4, <2>1, <2>3, SowAnotherKeeps DEF Blocking
  <2> QED
    BY <2>2, <2>3
<1> QED
  BY <1>3, <1>4 DEF Scan

LEMMA ProbeReturnsKeeps == PoolInv /\ ProbeReturns => PoolInv'
<1> SUFFICES ASSUME PoolInv, ProbeReturns PROVE PoolInv'
  OBVIOUS
<1>1. /\ pc = "probe"
      /\ UNCHANGED <<args, queue, toSlave, toMaster, fwork, reaped, foreignSent, taken>>
  BY DEF ProbeReturns
<1>2. ~Closing /\ ~Promised /\ ~Released /\ state \in {1, 20} /\ nignore \in Nat
  BY <1>1 DEF Closing, Promised, Released, PoolInv, Where, TypeOK
<1>3. CASE Len(queue) > nignore
  BY <1>1, <1>3, ScanKeeps DEF ProbeReturns
<1>4. CASE ~(Len(queue) > nignore)
  <2>1. CASE Blocking
    BY <1>1, <1>2, <1>4, <2>1, ProbeKeeps DEF ProbeReturns
  <2>2. CASE ~Blocking
    BY <1>1, <1>2, <1>4, <2>2, SowAnotherKeeps DEF ProbeReturns, Blocking
  <2> QED
    BY <2>1, <2>2
<1> QED
  BY <1>3, <1>4

LEMMA ScanReturnsKeeps == PoolInv /\ ScanReturns => PoolInv'
  BY ScanKeeps DEF ScanReturns

LEMMA SowNoneKeeps == PoolInv /\ SowNone => PoolInv'
<1> SUFFICES ASSUME PoolInv, SowNone PROVE PoolInv'
  OBVIOUS
<1>1. /\ pc = "fsow" /\ pc' = "active" /\ state' = 20
      /\ UNCHANGED <<args, slave, njobs, nused, nself, nignore, jobo, collected, queue,
                     toSlave, toMaster, fwork, reaped, foreignSent, taken>>
      /\ nactive' = IF slave = Self THEN nactive ELSE nactive - 1
  BY DEF SowNone, ActiveAfterNone
<1>2. /\ ~Closing /\ ~Closing' /\ ~Released /\ ~Released' /\ ~Promised'
      /\ Promised <=> slave # Self
  BY <1>1 DEF Closing, Promised, Released
<1>3. nactive' = Cardinality(Busy) /\ Cardinality(Busy) \in Nat /\ nactive' <= nactive
  <2>1. /\ Cardinality(Busy) \in Nat /\ nactive \in Nat
        /\ nactive = Cardinality(Busy) + (IF slave # Self THEN 1 ELSE 0) - 0
    BY <1>1, <1>2, BusyTyped DEF PoolInv, Counted, TypeOK
  <2>2. CASE slave = Self
    BY <1>1, <2>1, <2>2
  <2>3. CASE slave # Self
    BY <1>1, <2>1, <2>3
  <2> QED
    BY <2>2, <2>3
<1>4. TypeOK'
  <2>1. nactive' \in 0 .. nused
    BY <1>3 DEF PoolInv, TypeOK
  <2> QED
    BY <1>1, <2>1 DEF PoolInv, TypeOK, args
<1>5. Where'
  BY <1>1, <1>2 DEF PoolInv, Where
<1>6. nactive' = Cardinality(Busy) + 0 - 0 /\ nused' >= nused
  BY <1>1, <1>3 DEF PoolInv, TypeOK
<1> QED
  BY <1>1, <1>2, <1>4, <1>5, <1>6, DecisionKeeps

-----------------------------------------------------------------------------
(* The steps of the master that give a slave something or take it back. *)

LEMMA SowToSlave ==
  ASSUME PoolInv, Sow, NEW r \in Slaves, slave = r
  PROVE  PoolInv' /\ Busy' = Busy \cup {r} /\ r \notin Busy
<1>1. /\ pc = "fsow" /\ pc' = "active" /\ njobs \in Nat /\ njobs' = njobs + 1
      /\ toSlave' = [toSlave EXCEPT ![r] = Append(@, njobs + 1)]
      /\ toSlave \in [Slaves -> Seq(Nat)] /\ r # Self
      /\ UNCHANGED <<args, slave, state, jobo, nused, nself, nignore, nactive, collected, queue,
                     toMaster, fwork, reaped, foreignSent, taken>>
  BY SlavesAssumption DEF Sow, PoolInv, TypeOK, Slaves, Self
<1>2. /\ Append(toSlave[r], njobs + 1) \in Seq(Nat)
      /\ Len(Append(toSlave[r], njobs + 1)) = Len(toSlave[r]) + 1
      /\ Append(toSlave[r], njobs + 1)[Len(toSlave[r]) + 1] = njobs + 1
      /\ \A i \in 1..Len(toSlave[r]) : Append(toSlave[r], njobs + 1)[i] = toSlave[r][i]
  BY <1>1, AppendProperties
<1>3. /\ state = 1 /\ slave \in 1 .. nused
      /\ Promised /\ ~Promised' /\ ~Released /\ ~Released' /\ ~Closing /\ ~Closing'
  BY <1>1 DEF PoolInv, Where, Promised, Released, Closing
<1>4. TypeOK'
  <2>1. toSlave' \in [Slaves -> Seq(Nat)]
    BY <1>1, <1>2
  <2> QED
    BY <1>1, <2>1 DEF PoolInv, TypeOK, args
<1>5. OnlyPool' /\ Where' /\ Working'
  BY <1>1, <1>3 DEF PoolInv, OnlyPool, Where, Working, args
<1>6. Knowing'
  <2>1. ASSUME NEW s \in Slaves, NEW i \in DOMAIN toSlave'[s] PROVE toSlave'[s][i] > 0
    <3>1. CASE s # r
      BY <1>1, <1>3, <2>1, <3>1 DEF PoolInv, Knowing
    <3>2. CASE s = r
      <4>1. toSlave'[s] = Append(toSlave[r], njobs + 1)
        BY <1>1, <3>2
      <4>2. /\ Len(toSlave[r]) \in Nat /\ DOMAIN toSlave[r] = 1..Len(toSlave[r])
            /\ i \in 1..(Len(toSlave[r]) + 1)
        BY <1>1, <1>2, <2>1, <4>1, LenProperties
      <4>3. CASE i = Len(toSlave[r]) + 1
        BY <1>1, <1>2, <4>1, <4>3
      <4>4. CASE i \in 1..Len(toSlave[r])
        BY <1>2, <1>3, <4>1, <4>2, <4>4 DEF PoolInv, Knowing
      <4> QED
        BY <4>2, <4>3, <4>4
    <3> QED
      BY <3>1, <3>2
  <2> QED
    BY <1>3, <2>1 DEF Knowing
<1>7. Load(r) = 0
  BY <1>1, <1>3 DEF PoolInv, Selected
<1>8. ASSUME NEW s \in Slaves PROVE Load(s)' = IF s = r THEN 1 ELSE Load(s)
  <2>1. /\ Queued(s)' = Queued(s) /\ AtHand(s)' = AtHand(s) /\ toMaster' = toMaster
        /\ Load(s) \in Nat /\ AtHand(s) \in Nat /\ Cardinality(Queued(s)) \in Nat
        /\ Len(toMaster[s]) \in Nat /\ Len(toSlave[s]) \in Nat
    BY <1>1, LoadTyped DEF Queued, AtHand, PoolInv
  <2>2. CASE s = r
    <3>1. Len(toSlave'[s]) = Len(toSlave[s]) + 1
      BY <1>1, <1>2, <2>2
    <3>2. More(s) = <<1, 0, 0, 0>>
      BY <2>1, <3>1 DEF More
    <3> QED
      BY <1>4, <1>7, <2>2, <3>2, LoadChange DEF PoolInv
  <2>3. CASE s # r
    <3>1. toSlave'[s] = toSlave[s]
      BY <1>1, <2>3
    <3> QED
      BY <2>1, <2>3, <3>1 DEF Load
  <2> QED
    BY <2>2, <2>3
<1>9. Single'
  BY <1>8 DEF PoolInv, Single
<1>10. Busy' = Busy \cup {r} /\ r \notin Busy
  BY <1>7, <1>8 DEF Busy
<1>11. Counted'
  <2>1. Cardinality(Busy') = Cardinality(Busy) + 1 /\ Cardinality(Busy) \in Nat
    BY <1>10, BusyTyped, FS_AddElement DEF PoolInv
  <2>2. nactive = Cardinality(Busy) + 1 - 0 /\ Busy \subseteq 1 .. nused
    BY <1>1, <1>3 DEF PoolInv, Counted
  <2>3. nactive' = Cardinality(Busy') + 0 - 0
    BY <1>1, <2>1, <2>2
  <2>4. Busy' \subseteq 1 .. nused'
    BY <1>1, <1>3, <1>10, <2>2
  <2> QED
    BY <1>3, <2>3, <2>4 DEF Counted
<1>12. Selected'
  BY <1>1, <1>3 DEF Selected
<1> QED
  BY <1>4, <1>5, <1>6, <1>9, <1>10, <1>11, <1>12 DEF PoolInv

LEMMA SowKeeps == PoolInv /\ Sow => PoolInv'
<1> SUFFICES ASSUME PoolInv, Sow PROVE PoolInv'
  OBVIOUS
<1>1. /\ pc = "fsow" /\ njobs \in Nat /\ njobs' = njobs + 1
      /\ UNCHANGED <<args, slave, nused, nself, nignore, nactive, collected, queue,
                     toMaster, fwork, reaped, foreignSent, taken>>
  BY DEF Sow, PoolInv, TypeOK
<1>2. ~Closing /\ ~Released /\ (Promised <=> slave # Self)
  BY <1>1 DEF Closing, Released, Promised
<1>3. CASE slave = Self
  <2>1. jobo' = njobs + 1 /\ state' = 3 /\ pc' = "active" /\ toSlave' = toSlave
    BY <1>3 DEF Sow
  <2>2. TypeOK'
    BY <1>1, <2>1 DEF PoolInv, TypeOK, args
  <2>3. ~Closing' /\ ~Promised' /\ ~Released' /\ Where'
    BY <1>1, <1>2, <1>3, <2>1 DEF PoolInv, Where, Closing, Promised, Released
  <2>4. nactive' = Cardinality(Busy) + 0 - 0 /\ nused' >= nused
    BY <1>1, <1>2, <1>3, Plain, BusyTyped DEF PoolInv, TypeOK
  <2> QED
    BY <1>1, <1>2, <2>1, <2>2, <2>3, <2>4, DecisionKeeps
<1>4. CASE slave \in Slaves
  BY <1>4, SowToSlave
<1>5. CASE slave # Self /\ slave \notin Slaves
  <2>1. pc' = "error" /\ toSlave' = toSlave /\ jobo' = jobo /\ state' = state
    BY <1>5 DEF Sow
  <2>2. TypeOK'
    BY <1>1, <2>1 DEF PoolInv, TypeOK, args
  <2>3. ~Closing' /\ ~Promised' /\ Where'
    BY <1>1, <1>2, <2>1 DEF PoolInv, Where, Closing, Promised
  <2>4. OnlyPool' /\ Knowing' /\ Working'
    BY <1>1, <1>2, <2>1, <2>3 DEF PoolInv, OnlyPool, Knowing, Working, args
  <2>5. Single'
    BY <1>1, <2>1, QuietKeeps DEF PoolInv, Single
  <2>6. Selected' /\ Counted'
    BY <2>1, <2>3 DEF Selected, Counted
  <2> QED
    BY <2>2, <2>3, <2>4, <2>5, <2>6 DEF PoolInv
<1> QED
  BY <1>3, <1>4, <1>5

\* One message of r less in the queue, for r and for the others.
LEMMA LessQueued ==
  ASSUME TypeOK, TypeOK', UNCHANGED <<toSlave, toMaster, fwork>>, NEW r, NEW s \in Slaves,
         Cardinality(Queued(s))' = Cardinality(Queued(s)) - (IF r = s THEN 1 ELSE 0)
  PROVE  Load(s)' = IF r = s THEN Load(s) - 1 ELSE Load(s)
<1>1. /\ AtHand(s)' = AtHand(s) /\ AtHand(s) \in Nat /\ Len(toMaster[s]) \in Nat
      /\ Len(toSlave[s]) \in Nat /\ Cardinality(Queued(s)) \in Nat /\ Load(s) \in Nat
  BY LoadTyped DEF AtHand
<1>2. CASE r = s
  <2>1. More(s) = <<0, 0, 0, -1>>
    BY <1>1, <1>2 DEF More
  <2> QED
    BY <1>1, <1>2, <2>1, LoadChange
<1>3. CASE r # s
  <2>1. More(s) = <<0, 0, 0, 0>>
    BY <1>1, <1>3 DEF More
  <2> QED
    BY <1>1, <1>3, <2>1, LoadChange
<1> QED
  BY <1>2, <1>3

LEMMA ReapFromSlave ==
  ASSUME PoolInv, Reap, NEW r \in Slaves, slave = r
  PROVE  PoolInv' /\ Busy' = Busy \ {r} /\ r \in Busy
<1>1. /\ pc = "freap" /\ pc' = "active" /\ r # Self
      /\ UNCHANGED <<args, state, slave, counters, jobo, collected, toSlave, toMaster, fwork,
                     foreignSent, taken>>
  BY SlavesAssumption DEF Reap, Slaves, Self
<1>2. PICK k \in Oldest(r) :
        reaped' = reaped \cup {queue[k].job} /\ queue' = RemoveAt(queue, k)
  BY <1>1 DEF Reap
<1>3. k \in DOMAIN queue /\ queue[k].from = r
  BY DEF Oldest, Queued
<1>4. /\ queue' \in Seq(Entry) /\ OnlyPool'
      /\ \A s \in Slaves :
           Cardinality(Queued(s))' =
             Cardinality(Queued(s)) - (IF r = s THEN 1 ELSE 0)
  BY <1>1, <1>2, <1>3, TakenOut DEF PoolInv, args
<1>5. TypeOK'
  <2>1. queue[k] \in Entry
    BY <1>3, LenProperties, ElementOfSeq DEF PoolInv, TypeOK
  <2>2. reaped' \subseteq Nat
    BY <1>2, <2>1 DEF PoolInv, TypeOK, Entry
  <2> QED
    BY <1>1, <1>4, <2>2 DEF PoolInv, TypeOK, args, counters
<1>6. /\ state \in {2, 20} /\ ~Closing /\ ~Closing' /\ ~Promised /\ ~Released'
      /\ Released <=> state = 20
      /\ Promised' <=> state = 2
  BY <1>1, SlavesAssumption DEF PoolInv, Where, Closing, Promised, Released, Slaves, Self
<1>7. ASSUME NEW s \in Slaves PROVE Load(s)' = IF r = s THEN Load(s) - 1 ELSE Load(s)
  BY <1>1, <1>4, <1>5, LessQueued DEF PoolInv
<1>8. Load(r) = 1
  <2>1. Cardinality(Queued(r)) >= 1
    BY <1>1 DEF PoolInv, Selected
  <2>2. Load(r) - 1 = Load(r)' /\ Load(r) <= 1 /\ Load(r) \in Nat
    BY <1>7, LoadTyped DEF PoolInv, Single
  <2>3. Load(r) # 0
    <3> DEFINE w == Len(toSlave[r])
               x == AtHand(r)
               y == Len(toMaster[r])
               z == Cardinality(Queued(r))
    <3>1. w \in Nat /\ x \in Nat /\ y \in Nat /\ z \in Nat /\ z >= 1
      BY <2>1, LoadTyped DEF PoolInv
    <3>2. Load(r) = w + x + y + z
      BY Zenon DEF Load
    <3> HIDE DEF w, x, y, z
    <3> QED
      BY <3>1, <3>2
  <2> QED
    BY <2>2, <2>3
<1>9. Busy' = Busy \ {r} /\ r \in Busy
  <2>1. \A s \in Slaves : s # r => Load(s)' = Load(s)
    BY <1>7
  <2>2. Load(r)' = 0
    BY <1>7, <1>8
  <2> QED
    BY <1>8, <2>1, <2>2 DEF Busy
<1>10. /\ Cardinality(Busy') = Cardinality(Busy) - 1 /\ Cardinality(Busy) \in Nat
       /\ Busy \subseteq 1 .. nused
  BY <1>1, <1>6, <1>9, BusyTyped, FS_RemoveElement DEF PoolInv, Counted
<1>11. Counted'
  <2>1. nactive = Cardinality(Busy) + 0 - (IF state = 20 THEN 1 ELSE 0)
    BY <1>1, <1>6 DEF PoolInv, Counted
  <2>2. nactive' = Cardinality(Busy') + (IF state = 2 THEN 1 ELSE 0) - 0
    <3>1. CASE state = 2
      BY <1>1, <1>10, <2>1, <3>1 DEF counters
    <3>2. CASE state = 20
      BY <1>1, <1>10, <2>1, <3>2 DEF counters
    <3> QED
      BY <1>6, <3>1, <3>2
  <2>3. Busy' \subseteq 1 .. nused'
    BY <1>1, <1>9, <1>10 DEF counters
  <2> QED
    BY <1>1, <1>6, <2>2, <2>3 DEF Counted
<1>12. Where'
  <2>1. r <= nused
    BY <1>9, <1>10 DEF PoolInv, TypeOK
  <2> QED
    BY <1>1, <1>6, <2>1 DEF PoolInv, Where, counters
<1>13. Knowing' /\ Working'
  BY <1>1, <1>6 DEF PoolInv, Knowing, Working
<1>14. Single'
  <2>1. \A s \in Slaves : Load(s) \in Nat /\ Load(s) <= 1
    BY LoadTyped DEF PoolInv, Single
  <2> QED
    BY <1>7, <2>1 DEF Single
<1>15. Selected'
  <2>1. Load(r)' = 0
    BY <1>7, <1>8
  <2> QED
    BY <1>1, <2>1 DEF Selected
<1> QED
  BY <1>4, <1>5, <1>9, <1>11, <1>12, <1>13, <1>14, <1>15 DEF PoolInv

LEMMA ReapKeeps == PoolInv /\ Reap => PoolInv'
<1> SUFFICES ASSUME PoolInv, Reap PROVE PoolInv'
  OBVIOUS
<1>1. /\ pc = "freap" /\ pc' = "active"
      /\ UNCHANGED <<args, state, slave, counters, jobo, collected, toSlave, toMaster, fwork,
                     foreignSent, taken>>
  BY DEF Reap
<1>2. CASE slave = Self
  <2>1. reaped' = reaped \cup {jobo} /\ queue' = queue
    BY <1>2 DEF Reap
  <2>2. TypeOK'
    BY <1>1, <2>1 DEF PoolInv, TypeOK, args, counters
  <2>3. state = 1
    BY <1>1, <1>2, SlavesAssumption DEF PoolInv, Where, Slaves, Self
  <2>4. /\ ~Closing /\ ~Closing' /\ ~Promised /\ ~Promised' /\ ~Released /\ ~Released'
        /\ Where'
    BY <1>1, <2>3 DEF PoolInv, Where, Closing, Promised, Released
  <2>5. nactive' = Cardinality(Busy) + 0 - 0 /\ nused' >= nused
    BY <1>1, <2>4, Plain, BusyTyped DEF PoolInv, TypeOK, counters
  <2> QED
    BY <1>1, <2>1, <2>2, <2>4, <2>5, DecisionKeeps
<1>3. CASE slave # Self
  <2>1. slave \in Slaves
    BY <1>1, <1>3 DEF PoolInv, Where
  <2> QED
    BY <2>1, ReapFromSlave
<1> QED
  BY <1>2, <1>3

LEMMA CollectKeeps ==
  PoolInv /\ Collect =>
    PoolInv' /\ \A s \in Slaves :
                 Load(s)' = IF collected + 1 = s THEN Load(s) - 1 ELSE Load(s)
<1> SUFFICES ASSUME PoolInv, Collect
             PROVE  PoolInv' /\ \A s \in Slaves :
                      Load(s)' = IF collected + 1 = s THEN Load(s) - 1 ELSE Load(s)
  OBVIOUS
<1>1. /\ pc = "collect" /\ collected' = collected + 1
      /\ pc' = IF collected + 1 = NSlaves THEN "done" ELSE pc
      /\ UNCHANGED <<args, state, slave, counters, jobo, toSlave, toMaster, fwork, reaped,
                     foreignSent, taken>>
  BY DEF Collect
<1>2. PICK k \in Oldest(collected + 1) : queue' = RemoveAt(queue, k)
  BY DEF Collect
<1>3. k \in DOMAIN queue
  BY DEF Oldest, Queued
<1>4. PICK r : r = queue[k].from /\ r = collected + 1
  BY DEF Oldest, Queued
<1>5. /\ queue' \in Seq(Entry) /\ OnlyPool'
      /\ \A s \in Slaves :
           Cardinality(Queued(s))' =
             Cardinality(Queued(s)) - (IF r = s THEN 1 ELSE 0)
  BY <1>1, <1>2, <1>3, <1>4, TakenOut DEF PoolInv, args
<1>6. collected \in Nat /\ collected < NSlaves /\ NSlaves \in Nat
  BY <1>1, SlavesAssumption DEF PoolInv, Where, TypeOK
<1>7. TypeOK'
  BY <1>1, <1>5, <1>6 DEF PoolInv, TypeOK, args, counters
<1>8. Closing /\ Closing' /\ ~Promised' /\ pc' # "freap"
  BY <1>1 DEF Closing, Promised
<1>9. Where'
  BY <1>1, <1>6, <1>8 DEF Where
<1>10. Knowing' /\ Working'
  BY <1>1, <1>8 DEF PoolInv, Knowing, Working
<1>11. \A s \in Slaves : Load(s)' = IF r = s THEN Load(s) - 1 ELSE Load(s)
  BY <1>1, <1>5, <1>7, LessQueued DEF PoolInv
<1>12. Single'
  <2>1. \A s \in Slaves : Load(s) \in Nat /\ Load(s) <= 1
    BY LoadTyped DEF PoolInv, Single
  <2> QED
    BY <1>11, <2>1 DEF Single
<1>13. Selected' /\ Counted'
  BY <1>8 DEF Selected, Counted
<1> QED
  BY <1>4, <1>5, <1>7, <1>9, <1>10, <1>11, <1>12, <1>13 DEF PoolInv

-----------------------------------------------------------------------------
(* The invariant and what follows from it. *)

LEMMA PoolInit == Init => PoolInv
<1> SUFFICES ASSUME Init PROVE PoolInv
  OBVIOUS
<1>1. /\ pc = "active" /\ state = 1 /\ slave = 0
      /\ njobs = 0 /\ nused = 0 /\ nself = 0 /\ nignore = 0 /\ nactive = 0
      /\ jobo = 0 /\ collected = 0 /\ queue = <<>>
      /\ toSlave = [s \in Slaves |-> <<>>] /\ toMaster = [r \in Ranks |-> <<>>]
      /\ fwork = [s \in Slaves |-> 0]
      /\ reaped = {} /\ foreignSent = 0 /\ taken = 0
      /\ listed \in BOOLEAN /\ self \in BOOLEAN
  BY ArgsAssumption DEF Init, Waiting
<1>2. nmax \in Nat
  BY SlavesAssumption, ArgsAssumption DEF Init, Nmax, Smaller
<1>3. <<>> \in Seq(Entry) /\ <<>> \in Seq(Nat)
  BY EmptySeq
<1>4. TypeOK
  <2>1. slave \in 0 .. nused /\ nused \in 0 .. nmax /\ nactive \in 0 .. nused
        /\ collected \in 0 .. NSlaves
    BY <1>1, <1>2, SlavesAssumption
  <2>2. /\ queue \in Seq(Entry) /\ toSlave \in [Slaves -> Seq(Nat)]
        /\ toMaster \in [Ranks -> Seq(Nat)] /\ fwork \in [Slaves -> Nat \cup {Stopped}]
    BY <1>1, <1>3
  <2> QED
    BY <1>1, <1>2, <2>1, <2>2 DEF TypeOK
<1>5. OnlyPool /\ Where /\ Knowing /\ Working
  BY <1>1 DEF OnlyPool, Where, Knowing, Working, Closing, Ranks
<1>6. \A s \in Slaves : Load(s) = 0
  <2>1. ASSUME NEW s \in Slaves PROVE Load(s) = 0
    <3>1. Queued(s) = {}
      BY <1>1 DEF Queued
    <3>2. Cardinality(Queued(s)) = 0
      BY <3>1, FS_EmptySet
    <3>3. Len(toSlave[s]) = 0 /\ Len(toMaster[s]) = 0 /\ AtHand(s) = 0
      BY <1>1 DEF AtHand, Ranks
    <3> QED
      BY <3>2, <3>3 DEF Load
  <2> QED
    BY <2>1
<1>7. Single /\ Selected
  BY <1>1, <1>6 DEF Single, Selected, Promised
<1>8. Counted
  <2>1. Busy = {}
    BY <1>6 DEF Busy
  <2>2. Cardinality(Busy) = 0
    BY <2>1, FS_EmptySet
  <2> QED
    BY <1>1, <2>1, <2>2 DEF Counted, Promised, Released
<1> QED
  BY <1>4, <1>5, <1>7, <1>8 DEF PoolInv

LEMMA StutterKeeps == PoolInv /\ UNCHANGED vars => PoolInv'
<1> SUFFICES ASSUME PoolInv, UNCHANGED vars PROVE PoolInv'
  OBVIOUS
<1>1. /\ UNCHANGED <<args, master, queue, toSlave, toMaster, fwork, reaped, foreignSent, taken>>
      /\ UNCHANGED <<args, state, slave, counters, collected, pc>>
  BY DEF vars, master
<1>2. TypeOK' /\ OnlyPool' /\ Knowing' /\ Working'
  BY <1>1 DEF PoolInv, TypeOK, OnlyPool, Knowing, Working, Closing, args, master, counters
<1>3. \A s \in Slaves : /\ Load(s)' = Load(s)
                        /\ Cardinality(Queued(s))' = Cardinality(Queued(s))
  BY <1>1, QuietKeeps
<1>4. \A s \in Slaves : Cardinality(Queued(s)) \in Nat
  BY LoadTyped DEF PoolInv
<1> QED
  BY <1>1, <1>2, <1>3, <1>4, MovedKeeps

LEMMA PoolStep == PoolInv /\ [Next]_vars => PoolInv'
<1>1. PoolInv /\ Master => PoolInv'
  BY ActiveKeeps, ProbeReturnsKeeps, ScanReturnsKeeps, SowKeeps, SowNoneKeeps, ReapKeeps,
     CollectKeeps, EnqueueKeeps DEF Master
<1>2. ASSUME NEW s \in Slaves PROVE PoolInv /\ Slave(s) => PoolInv'
  BY SlaveReceivesKeeps, SlaveSendsKeeps DEF Slave
<1>3. ASSUME NEW f \in Foreign
      PROVE  PoolInv /\ (ForeignSends(f) \/ UserReceives(f)) => PoolInv'
  BY ForeignSendsKeeps, UserReceivesKeeps
<1> QED
  BY <1>1, <1>2, <1>3, StutterKeeps DEF Next, Ended

LEMMA PoolInvariant == Spec => []PoolInv
<1> QED
  BY PoolInit, PoolStep, PTL DEF Spec

\* The variables of the pool have their types; above all no counter of _pool
\* falls below zero or rises above what it counts.
THEOREM PoolTypeCorrect == Spec => []TypeOK
<1>1. PoolInv => TypeOK
  BY DEF PoolInv
<1> QED
  BY <1>1, PoolInvariant, PTL

\* When _mpool_active looks at nactive, it is the number of slaves that have a
\* job or its result, for any number of slaves and jobs (mpool.i: nactive).
THEOREM CountCorrect == Spec => []ActiveExact
<1>1. ASSUME PoolInv PROVE ActiveExact
  <2>1. ASSUME (pc = "active" /\ state # 2) \/ pc \in {"probe", "wait", "scan"}
        PROVE  nactive = Cardinality({s \in Slaves : Load(s) > 0})
    <3>1. ~Closing /\ pc # "error" /\ ~Promised /\ ~Released
      BY <2>1 DEF Closing, Promised, Released
    <3> QED
      BY <1>1, <3>1, Plain DEF Busy
  <2> QED
    BY <2>1 DEF ActiveExact
<1> QED
  BY <1>1, PoolInvariant, PTL

\* A job is sown to a slave that waits for it and has delivered all it had, and
\* the shutdown is sent when nobody is at work (mpool.i: FSOW).
THEOREM IdleCorrect == Spec => []SownIdle
<1>1. ASSUME PoolInv PROVE SownIdle
  <2>1. ASSUME NEW r \in Slaves, pc = "fsow", slave = r
        PROVE  fwork[r] = Waiting /\ Load(r) = 0
    <3>1. Load(r) = 0
      <4>1. r # Self
        BY SlavesAssumption DEF Slaves, Self
      <4> QED
        BY <1>1, <2>1, <4>1 DEF PoolInv, Selected, Promised
    <3>2. AtHand(r) = 0
      <4> DEFINE w == Len(toSlave[r])
                 x == AtHand(r)
                 y == Len(toMaster[r])
                 z == Cardinality(Queued(r))
      <4>1. w \in Nat /\ x \in Nat /\ y \in Nat /\ z \in Nat
        BY <1>1, LoadTyped DEF PoolInv
      <4>2. w + x + y + z = 0
        BY <3>1, Zenon DEF Load
      <4> HIDE DEF w, x, y, z
      <4>3. x = 0
        BY <4>1, <4>2
      <4> QED
        BY <4>3 DEF x
    <3>3. fwork[r] >= 0 /\ fwork[r] \in Int
      BY <1>1, <2>1, LoadTyped DEF PoolInv, Working, Closing
    <3> QED
      BY <3>1, <3>2, <3>3 DEF AtHand, Waiting
  <2>2. pc = "collect" => \A s \in Slaves : fwork[s] <= 0 /\ Load(s) <= 1
    BY <1>1 DEF PoolInv, Working, Closing, Single
  <2> QED
    BY <2>1, <2>2 DEF SownIdle
<1> QED
  BY <1>1, PoolInvariant, PTL
-----------------------------------------------------------------------------
(* Which job is where.                                                     *)

Jobs == 1 .. njobs

\* The parts of Places(j).
InTo(j) == {s \in Slaves : j \in Range(toSlave[s])}
InWork(j) == {s \in Slaves : fwork[s] = j}
InFrom(j) == {s \in Slaves : j \in Range(toMaster[s])}
InQueue(j) == {i \in DOMAIN queue : queue[i].job = j}
InSelf(j) == {i \in {Self} : jobo = j /\ SelfToReap}
InReaped(j) == {i \in {Self} : j \in reaped}

\* Each job handed out is in one place, and the next ones in none.
Placed ==
  \A j \in Nat \ {0} :
    IF j <= njobs THEN \E p \in Places(j) : Places(j) = {p} ELSE Places(j) = {}

\* Results are jobs, until the shutdown is sent; the others never send one.
Answers ==
  /\ ~Closing => /\ \A s \in Slaves : \A i \in DOMAIN toMaster[s] : toMaster[s][i] > 0
                 /\ \A i \in DOMAIN queue : queue[i].from \in Slaves => queue[i].job > 0
  /\ \A f \in Foreign : \A i \in DOMAIN toMaster[f] : toMaster[f][i] = Timings
  /\ \A i \in DOMAIN queue : queue[i].from \in Foreign => queue[i].job = Timings

\* As many jobs are in hand as slaves have something, before the shutdown is
\* sent; afterwards none.
Outstanding ==
  /\ ~Closing => Cardinality(Jobs \ reaped) =
                   Cardinality(Busy) + (IF SelfToReap THEN 1 ELSE 0)
  /\ Closing => reaped = Jobs /\ state = 20

\* After the shutdown each slave has that, or the timings; and nothing any more
\* when its timings have been received.
Stopping ==
  Closing => \A s \in Slaves : /\ Load(s) = (IF s <= collected THEN 0 ELSE 1)
                               /\ toSlave[s] = <<>> => fwork[s] = Stopped

\* The master works itself only if it may, or if there is nobody else.
SelfAllowed ==
  /\ nmax >= 1
  /\ SelfToReap => jobo \in Jobs
  /\ pc = "fsow" /\ slave = Self => self \/ nactive = 0

JobInv ==
  /\ reaped \subseteq Jobs
  /\ pc # "error" => Placed /\ Answers /\ Outstanding /\ Stopping /\ SelfAllowed
  /\ pc = "done" => collected = NSlaves

-----------------------------------------------------------------------------
(* Places and their parts. *)

Spots(t, w, f, q, s, r) ==
  ({"to"} \X t) \cup ({"at"} \X w) \cup ({"from"} \X f) \cup ({"queue"} \X q)
    \cup ({"self"} \X s) \cup ({"reaped"} \X r)

LEMMA SpotsOne ==
  /\ Spots({}, {}, {}, {}, {}, {}) = {}
  /\ \A x : /\ Spots({x}, {}, {}, {}, {}, {}) = {<<"to", x>>}
            /\ Spots({}, {x}, {}, {}, {}, {}) = {<<"at", x>>}
            /\ Spots({}, {}, {x}, {}, {}, {}) = {<<"from", x>>}
            /\ Spots({}, {}, {}, {x}, {}, {}) = {<<"queue", x>>}
            /\ Spots({}, {}, {}, {}, {x}, {}) = {<<"self", x>>}
            /\ Spots({}, {}, {}, {}, {}, {x}) = {<<"reaped", x>>}
<1>1. \A tag : {tag} \X {} = {}
  OBVIOUS
<1>2. \A tag, x : {tag} \X {x} = {<<tag, x>>}
  OBVIOUS
<1> QED
  BY <1>1, <1>2, Zenon DEF Spots

LEMMA PlacesAre ==
  ASSUME NEW j
  PROVE  /\ Places(j) = Spots(InTo(j), InWork(j), InFrom(j), InQueue(j), InSelf(j), InReaped(j))
         /\ Places(j)' =
              Spots(InTo(j)', InWork(j)', InFrom(j)', InQueue(j)', InSelf(j)', InReaped(j)')
  BY DEF Places, Spots, InTo, InWork, InFrom, InQueue, InSelf, InReaped

\* A job that is in one of the parts is in no other.
LEMMA Alone ==
  ASSUME Placed, NEW j \in Nat \ {0}, njobs \in Nat
  PROVE  /\ \A x \in InTo(j) :
              /\ j <= njobs /\ InTo(j) = {x} /\ InWork(j) = {} /\ InFrom(j) = {}
              /\ InQueue(j) = {} /\ InSelf(j) = {} /\ InReaped(j) = {}
         /\ \A x \in InWork(j) :
              /\ j <= njobs /\ InTo(j) = {} /\ InWork(j) = {x} /\ InFrom(j) = {}
              /\ InQueue(j) = {} /\ InSelf(j) = {} /\ InReaped(j) = {}
         /\ \A x \in InFrom(j) :
              /\ j <= njobs /\ InTo(j) = {} /\ InWork(j) = {} /\ InFrom(j) = {x}
              /\ InQueue(j) = {} /\ InSelf(j) = {} /\ InReaped(j) = {}
         /\ \A x \in InQueue(j) :
              /\ j <= njobs /\ InTo(j) = {} /\ InWork(j) = {} /\ InFrom(j) = {}
              /\ InQueue(j) = {x} /\ InSelf(j) = {} /\ InReaped(j) = {}
         /\ \A x \in InSelf(j) :
              /\ j <= njobs /\ InTo(j) = {} /\ InWork(j) = {} /\ InFrom(j) = {}
              /\ InQueue(j) = {} /\ InSelf(j) = {x} /\ InReaped(j) = {}
         /\ \A x \in InReaped(j) :
              /\ j <= njobs /\ InTo(j) = {} /\ InWork(j) = {} /\ InFrom(j) = {}
              /\ InQueue(j) = {} /\ InSelf(j) = {} /\ InReaped(j) = {x}
<1> DEFINE t == InTo(j)
           w == InWork(j)
           f == InFrom(j)
           q == InQueue(j)
           u == InSelf(j)
           r == InReaped(j)
<1>1. /\ \A x \in t : <<"to", x>> \in Places(j)
      /\ \A x \in w : <<"at", x>> \in Places(j)
      /\ \A x \in f : <<"from", x>> \in Places(j)
      /\ \A x \in q : <<"queue", x>> \in Places(j)
      /\ \A x \in u : <<"self", x>> \in Places(j)
      /\ \A x \in r : <<"reaped", x>> \in Places(j)
  BY PlacesAre DEF Spots
<1> HIDE DEF t, w, f, q, u, r
<1>2. CASE j <= njobs
  <2>1. PICK p : Places(j) = {p}
    BY <1>2 DEF Placed
  <2>2. /\ \A x \in t : <<"to", x>> = p
        /\ \A x \in w : <<"at", x>> = p
        /\ \A x \in f : <<"from", x>> = p
        /\ \A x \in q : <<"queue", x>> = p
        /\ \A x \in u : <<"self", x>> = p
        /\ \A x \in r : <<"reaped", x>> = p
    BY <1>1, <2>1
  <2>3. /\ \A x \in t : t = {x} /\ w = {} /\ f = {} /\ q = {} /\ u = {} /\ r = {}
        /\ \A x \in w : t = {} /\ w = {x} /\ f = {} /\ q = {} /\ u = {} /\ r = {}
        /\ \A x \in f : t = {} /\ w = {} /\ f = {x} /\ q = {} /\ u = {} /\ r = {}
        /\ \A x \in q : t = {} /\ w = {} /\ f = {} /\ q = {x} /\ u = {} /\ r = {}
        /\ \A x \in u : t = {} /\ w = {} /\ f = {} /\ q = {} /\ u = {x} /\ r = {}
        /\ \A x \in r : t = {} /\ w = {} /\ f = {} /\ q = {} /\ u = {} /\ r = {x}
    BY <2>2
  <2> QED
    BY <1>2, <2>3 DEF t, w, f, q, u, r
<1>3. CASE ~(j <= njobs)
  <2>1. Places(j) = {}
    BY <1>3 DEF Placed
  <2>2. t = {} /\ w = {} /\ f = {} /\ q = {} /\ u = {} /\ r = {}
    BY <1>1, <2>1
  <2> QED
    BY <2>2 DEF t, w, f, q, u, r
<1> QED
  BY <1>2, <1>3

LEMMA RangeAppended ==
  ASSUME NEW S, NEW s \in Seq(S), NEW e \in S
  PROVE  Range(Append(s, e)) = Range(s) \cup {e}
<1>1. Len(s) \in Nat /\ DOMAIN s = 1..Len(s)
  BY LenProperties
<1>2. Append(s, e) \in Seq(S) /\ Len(Append(s, e)) = Len(s) + 1
  BY AppendProperties
<1>3. DOMAIN Append(s, e) = 1..(Len(s) + 1)
  BY <1>2, LenProperties
<1>4. Append(s, e)[Len(s) + 1] = e /\ \A i \in 1..Len(s) : Append(s, e)[i] = s[i]
  BY <1>1, AppendProperties
<1> QED
  BY <1>1, <1>3, <1>4 DEF Range

LEMMA RangeSingle ==
  ASSUME NEW S, NEW s \in Seq(S), Len(s) = 1
  PROVE  Range(s) = {Head(s)} /\ Tail(s) = <<>>
<1>1. DOMAIN s = 1..1 /\ s # <<>>
  <2>1. DOMAIN s = 1..Len(s)
    BY LenProperties
  <2> QED
    BY <2>1, EmptySeq
<1>2. Range(s) = {s[1]}
  BY <1>1 DEF Range
<1>3. Head(s) = s[1]
  OBVIOUS
<1>4. Tail(s) \in Seq(S) /\ Len(Tail(s)) = 0
  BY <1>1, HeadTailProperties
<1>5. Tail(s) = <<>>
  BY <1>4, EmptySeq
<1> QED
  BY <1>2, <1>3, <1>5

LEMMA RangeNone == Range(<<>>) = {}
  BY DEF Range

\* A channel of the pool holds one thing at most.
LEMMA OneOnly ==
  ASSUME PoolInv, NEW s \in Slaves
  PROVE  /\ toSlave[s] # <<>> => Len(toSlave[s]) = 1
         /\ toMaster[s] # <<>> => Len(toMaster[s]) = 1
         /\ Load(s) = 0 => toSlave[s] = <<>> /\ toMaster[s] = <<>> /\ Queued(s) = {}
         /\ Load(s) = 0 => AtHand(s) = 0
         /\ Queued(s) # {} => toSlave[s] = <<>>
<1> DEFINE w == Len(toSlave[s])
           x == AtHand(s)
           y == Len(toMaster[s])
           z == Cardinality(Queued(s))
<1>1. w \in Nat /\ x \in Nat /\ y \in Nat /\ z \in Nat
  BY LoadTyped DEF PoolInv
<1>2. Load(s) = w + x + y + z /\ Load(s) <= 1
  <2>1. Load(s) = w + x + y + z
    BY Zenon DEF Load
  <2> QED
    BY <2>1 DEF PoolInv, Single
<1>3. /\ w = 0 <=> toSlave[s] = <<>>
      /\ y = 0 <=> toMaster[s] = <<>>
      /\ z = 0 <=> Queued(s) = {}
  BY LoadTyped, EmptySeq DEF PoolInv
<1>4. x = AtHand(s) /\ w = Len(toSlave[s]) /\ y = Len(toMaster[s])
  OBVIOUS
<1> HIDE DEF w, x, y, z
<1>5. /\ w # 0 => w = 1 /\ z = 0
      /\ y # 0 => y = 1
      /\ Load(s) = 0 => w = 0 /\ x = 0 /\ y = 0 /\ z = 0
  BY <1>1, <1>2
<1> QED
  BY <1>3, <1>4, <1>5

\* What is left to show of a step that moves what a slave has.
LEMMA MovedJobs ==
  ASSUME PoolInv, JobInv, pc # "error", Moves, Placed', Answers', Stopping',
         UNCHANGED <<nmax, self, state, slave, njobs, nactive, jobo, collected, reaped>>,
         pc' = pc \/ (pc = "wait" /\ pc' = "scan")
  PROVE  JobInv'
<1>1. Busy' = Busy
  BY DEF Moves, Busy
<1>2. /\ Closing' = Closing /\ SelfToReap' = SelfToReap /\ Jobs' = Jobs
      /\ pc' = "fsow" <=> pc = "fsow"
      /\ pc' = "done" <=> pc = "done"
  BY DEF Closing, SelfToReap, Jobs
<1>3. Outstanding'
  BY <1>1, <1>2 DEF Outstanding, JobInv
<1>4. SelfAllowed'
  BY <1>2 DEF SelfAllowed, JobInv
<1> QED
  BY <1>2, <1>3, <1>4 DEF JobInv

\* After mp_send has failed the master does nothing more.
LEMMA ErrorStays ==
  ASSUME JobInv, pc = "error", UNCHANGED <<pc, njobs, reaped>>
  PROVE  JobInv'
  BY DEF JobInv, Jobs

\* Job h goes to another place, or there is no such job.
LEMMA JobMoved ==
  ASSUME Placed, njobs' = njobs, NEW h \in Nat,
         h # 0 => h <= njobs /\ \E p : Places(h)' = {p},
         \A j \in Nat \ {0} : j # h => \/ Places(j)' = Places(j)
                                       \/ j <= njobs /\ \E p : Places(j)' = {p}
  PROVE  Placed'
<1>1. ASSUME NEW j \in Nat \ {0}
      PROVE  \/ Places(j)' = Places(j)
             \/ j <= njobs /\ \E p : Places(j)' = {p}
  <2>1. CASE j = h
    BY <2>1
  <2>2. CASE j # h
    BY <2>2
  <2> QED
    BY <2>1, <2>2
<1>2. ASSUME NEW j \in Nat \ {0}
      PROVE  IF j <= njobs THEN \E p \in Places(j)' : Places(j)' = {p} ELSE Places(j)' = {}
  BY <1>1 DEF Placed
<1> QED
  BY <1>2 DEF Placed

\* All parts as they were.
LEMMA PlacesSame ==
  ASSUME NEW j, UNCHANGED <<InTo(j), InWork(j), InFrom(j), InQueue(j), InSelf(j), InReaped(j)>>
  PROVE  Places(j)' = Places(j)
  BY PlacesAre

\* What slaves, others and arrivals leave alone.
Still == <<nmax, self, state, slave, njobs, nactive, jobo, collected, reaped>>

\* Arrivals and receipts in the queue.
LEMMA JobsAppended ==
  ASSUME queue \in Seq(Entry), NEW e \in Entry, queue' = Append(queue, e), NEW j
  PROVE  /\ InQueue(j)' = InQueue(j) \cup (IF e.job = j THEN {Len(queue) + 1} ELSE {})
         /\ \A i \in DOMAIN queue' : queue'[i] = e \/ \E l \in DOMAIN queue : queue'[i] = queue[l]
<1>1. Len(queue) \in Nat /\ DOMAIN queue = 1..Len(queue)
  BY LenProperties
<1>2. queue' \in Seq(Entry) /\ Len(queue') = Len(queue) + 1
  BY AppendProperties
<1>3. DOMAIN queue' = 1..(Len(queue) + 1)
  BY <1>2, LenProperties
<1>4. queue'[Len(queue) + 1] = e /\ \A i \in 1..Len(queue) : queue'[i] = queue[i]
  BY <1>1, AppendProperties
<1> QED
  BY <1>1, <1>3, <1>4 DEF InQueue

LEMMA JobsRemoved ==
  ASSUME queue \in Seq(Entry), NEW k \in DOMAIN queue, queue' = RemoveAt(queue, k), NEW j
  PROVE  /\ InQueue(j) = {} => InQueue(j)' = {}
         /\ \A x : InQueue(j) = {x} =>
              InQueue(j)' = IF x = k THEN {} ELSE IF x < k THEN {x} ELSE {x - 1}
         /\ \A i \in DOMAIN queue' : \E l \in DOMAIN queue : queue'[i] = queue[l]
<1> DEFINE n == Len(queue)
<1>1. n \in Nat /\ DOMAIN queue = 1..n /\ k \in 1..n
  BY LenProperties
<1>2. /\ queue' \in Seq(Entry) /\ Len(queue') = n - 1
      /\ \A i \in 1..(n - 1) : queue'[i] = IF i < k THEN queue[i] ELSE queue[i + 1]
  BY <1>1, RemoveAtProperties
<1>3. DOMAIN queue' = 1..(n - 1)
  BY <1>2, LenProperties
<1> HIDE DEF n
<1>4. \A i \in DOMAIN queue' : \E l \in DOMAIN queue : queue'[i] = queue[l]
  <2>1. ASSUME NEW i \in 1..(n - 1) PROVE i \in 1..n /\ i + 1 \in 1..n
    BY <1>1
  <2> QED
    BY <1>1, <1>2, <1>3, <2>1
<1>5. InQueue(j) = {} => InQueue(j)' = {}
  BY <1>4 DEF InQueue
<1>6. ASSUME NEW x, InQueue(j) = {x}
      PROVE  InQueue(j)' = IF x = k THEN {} ELSE IF x < k THEN {x} ELSE {x - 1}
  <2>1. x \in 1..n /\ queue[x].job = j /\ \A i \in 1..n : queue[i].job = j => i = x
    BY <1>1, <1>6 DEF InQueue
  <2>2. \A i \in 1..(n - 1) : queue'[i].job = j <=> (IF i < k THEN i = x ELSE i + 1 = x)
    <3>1. ASSUME NEW i \in 1..(n - 1)
          PROVE  queue'[i].job = j <=> (IF i < k THEN i = x ELSE i + 1 = x)
      <4>1. i \in 1..n /\ i + 1 \in 1..n
        BY <1>1
      <4> QED
        BY <1>2, <2>1, <4>1
    <3> QED
      BY <3>1
  <2>3. InQueue(j)' = {i \in 1..(n - 1) : IF i < k THEN i = x ELSE i + 1 = x}
    BY <1>3, <2>2 DEF InQueue
  <2>4. CASE x = k
    BY <1>1, <2>1, <2>3, <2>4
  <2>5. CASE x < k
    BY <1>1, <2>1, <2>3, <2>5
  <2>6. CASE x > k
    <3>1. x - 1 \in 1..(n - 1)
      BY <1>1, <2>1, <2>6
    <3>2. \A i \in 1..(n - 1) : (IF i < k THEN i = x ELSE i + 1 = x) <=> i = x - 1
      BY <1>1, <2>1, <2>6
    <3>3. InQueue(j)' = {x - 1}
      BY <2>3, <3>1, <3>2
    <3> QED
      BY <1>1, <2>1, <2>6, <3>3
  <2> QED
    BY <1>1, <2>1, <2>4, <2>5, <2>6
<1> QED
  BY <1>4, <1>5, <1>6

\* Another job after a message has left the queue: at most its place there moves.
LEMMA PlaceShifted ==
  ASSUME Placed, njobs \in Nat, queue \in Seq(Entry), NEW k \in DOMAIN queue,
         queue' = RemoveAt(queue, k), NEW j \in Nat \ {0}, queue[k].job # j,
         UNCHANGED <<InTo(j), InWork(j), InFrom(j), InSelf(j), InReaped(j)>>
  PROVE  \/ Places(j)' = Places(j)
         \/ j <= njobs /\ \E p : Places(j)' = {p}
<1>1. CASE InQueue(j) = {}
  <2>1. InQueue(j)' = {}
    BY <1>1, JobsRemoved
  <2> QED
    BY <1>1, <2>1, PlacesSame
<1>2. CASE InQueue(j) # {}
  <2>1. PICK x : x \in InQueue(j)
    BY <1>2
  <2>2. /\ j <= njobs /\ InTo(j) = {} /\ InWork(j) = {} /\ InFrom(j) = {}
        /\ InQueue(j) = {x} /\ InSelf(j) = {} /\ InReaped(j) = {}
    BY <2>1, Alone
  <2>3. PICK y : InQueue(j)' = {y}
    <3>1. x # k
      BY <2>1 DEF InQueue
    <3>2. InQueue(j)' = IF x < k THEN {x} ELSE {x - 1}
      BY <2>2, <3>1, JobsRemoved
    <3> QED
      BY <3>2
  <2>4. Places(j)' = Spots({}, {}, {}, {y}, {}, {})
    BY <2>2, <2>3, PlacesAre
  <2>5. Places(j)' = {<<"queue", y>>}
    BY <2>4, SpotsOne
  <2> QED
    BY <2>2, <2>5, Zenon
<1> QED
  BY <1>1, <1>2

LEMMA SlaveReceivesJob ==
  ASSUME NEW r \in Slaves, PoolInv, JobInv, SlaveReceives(r) PROVE JobInv'
<1>1. UNCHANGED Still /\ UNCHANGED <<pc, queue>>
  BY DEF SlaveReceives, master, counters, args, Still
<1>2. CASE pc = "error"
  BY <1>1, <1>2, ErrorStays DEF Still
<1>3. CASE pc # "error"
  <2>1. PICK h \in Nat : h = Head(toSlave[r]) /\ Range(toSlave[r]) = {h}
                         /\ Tail(toSlave[r]) = <<>> /\ fwork[r] = 0
    <3>1. toSlave[r] # <<>> /\ fwork[r] = 0
      BY DEF SlaveReceives, Waiting
    <3>2. toSlave[r] \in Seq(Nat) /\ Len(toSlave[r]) = 1
      BY <3>1, OneOnly, LoadTyped DEF PoolInv
    <3>3. Head(toSlave[r]) \in Nat
      BY <3>1, <3>2, HeadTailProperties
    <3> QED
      BY <3>1, <3>2, <3>3, RangeSingle
  <2>2. /\ toSlave \in [Slaves -> Seq(Nat)] /\ fwork \in [Slaves -> Nat \cup {Stopped}]
        /\ toMaster \in [Ranks -> Seq(Nat)] /\ r \in Ranks
    BY DEF PoolInv, TypeOK, Ranks
  <2>3. toSlave' = [toSlave EXCEPT ![r] = <<>>]
    BY <2>1 DEF SlaveReceives
  <2>4. \/ /\ h > 0 /\ fwork' = [fwork EXCEPT ![r] = h] /\ toMaster' = toMaster
        \/ /\ h = 0 /\ fwork' = [fwork EXCEPT ![r] = Stopped]
           /\ toMaster' = [toMaster EXCEPT ![r] = Append(@, Timings)]
    BY <2>1 DEF SlaveReceives
  <2>5. h = 0 <=> Closing
    <3>1. h \in Range(toSlave[r])
      BY <2>1
    <3>2. PICK i \in DOMAIN toSlave[r] : h = toSlave[r][i]
      BY <3>1 DEF Range
    <3> QED
      BY <3>2 DEF PoolInv, Knowing, Shutdown
  <2>6. Placed /\ Answers /\ Stopping /\ njobs \in Nat
    BY <1>3 DEF JobInv, PoolInv, TypeOK
  <2>7. Placed'
    <3>1. ASSUME NEW j \in Nat \ {0}, j # h PROVE Places(j)' = Places(j)
      <4>1. InTo(j)' = InTo(j)
        BY <2>1, <2>2, <2>3, <3>1, RangeNone DEF InTo
      <4>2. InWork(j)' = InWork(j)
        BY <2>1, <2>2, <2>4, <3>1 DEF InWork, Stopped
      <4>3. InFrom(j)' = InFrom(j)
        <5>1. Range(Append(toMaster[r], Timings)) = Range(toMaster[r]) \cup {0}
          <6>1. toMaster[r] \in Seq(Nat) /\ Timings \in Nat /\ Timings = 0
            BY <2>2 DEF Timings
          <6> QED
            BY <6>1, RangeAppended
        <5> QED
          BY <2>2, <2>4, <3>1, <5>1 DEF InFrom, Ranks
      <4>4. InQueue(j)' = InQueue(j) /\ InSelf(j)' = InSelf(j) /\ InReaped(j)' = InReaped(j)
        BY <1>1 DEF InQueue, InSelf, InReaped, SelfToReap, Still
      <4> QED
        BY <4>1, <4>2, <4>3, <4>4, PlacesSame
    <3>2. ASSUME h # 0 PROVE h <= njobs /\ Places(h)' = {<<"at", r>>}
      <4>1. r \in InTo(h)
        BY <2>1 DEF InTo
      <4>2. /\ h <= njobs /\ InTo(h) = {r} /\ InWork(h) = {} /\ InFrom(h) = {}
            /\ InQueue(h) = {} /\ InSelf(h) = {} /\ InReaped(h) = {}
        BY <2>6, <3>2, <4>1, Alone
      <4>3. InTo(h)' = {}
        BY <2>2, <2>3, <4>2, RangeNone DEF InTo
      <4>4. InWork(h)' = {r}
        BY <2>2, <2>4, <3>2, <4>2 DEF InWork
      <4>5. InFrom(h)' = {}
        BY <2>4, <3>2, <4>2 DEF InFrom
      <4>6. InQueue(h)' = {} /\ InSelf(h)' = {} /\ InReaped(h)' = {}
        BY <1>1, <4>2 DEF InQueue, InSelf, InReaped, SelfToReap, Still
      <4>7. Places(h)' = Spots({}, {r}, {}, {}, {}, {})
        BY <4>3, <4>4, <4>5, <4>6, PlacesAre
      <4> QED
        BY <4>2, <4>7, SpotsOne
    <3>3. njobs' = njobs
      BY <1>1 DEF Still
    <3>4. \A j \in Nat \ {0} : j # h => Places(j)' = Places(j)
      BY <3>1
    <3>5. h # 0 => h <= njobs /\ \E p : Places(h)' = {p}
      BY <3>2, Zenon
    <3> QED
      BY <2>6, <3>3, <3>4, <3>5, JobMoved, Zenon
  <2>8. Answers'
    <3>1. Closing' = Closing
      BY <1>1 DEF Closing
    <3>2. \A f \in Foreign : f # r
      BY ForeignAssumption, SlavesAssumption DEF Slaves
    <3>3. \A f \in Foreign : toMaster'[f] = toMaster[f]
      BY <2>2, <2>4, <3>2 DEF Ranks
    <3>4. ~Closing => toMaster' = toMaster
      BY <2>4, <2>5
    <3> QED
      BY <1>1, <2>6, <3>1, <3>3, <3>4 DEF Answers
  <2>9. PoolInv' /\ Moves
    BY SlaveReceivesKeeps
  <2>10. Stopping'
    <3>1. ASSUME Closing, NEW s \in Slaves
          PROVE  /\ Load(s)' = (IF s <= collected THEN 0 ELSE 1)
                 /\ toSlave'[s] = <<>> => fwork'[s] = Stopped
      <4>1. Load(s)' = (IF s <= collected THEN 0 ELSE 1)
        BY <2>6, <2>9, <3>1 DEF Stopping, Moves
      <4>2. h = 0
        BY <2>5, <3>1
      <4>3. toSlave'[s] = <<>> => fwork'[s] = Stopped
        BY <2>2, <2>3, <2>4, <2>6, <3>1, <4>2 DEF Stopping
      <4> QED
        BY <4>1, <4>3
    <3> QED
      BY <1>1, <3>1 DEF Stopping, Closing, Still
  <2> QED
    BY <1>1, <1>3, <2>7, <2>8, <2>9, <2>10, MovedJobs DEF Still
<1> QED
  BY <1>2, <1>3

LEMMA SlaveSendsJob ==
  ASSUME NEW r \in Slaves, PoolInv, JobInv, SlaveSends(r) PROVE JobInv'
<1>1. UNCHANGED Still /\ UNCHANGED <<pc, queue, toSlave>>
  BY DEF SlaveSends, master, counters, args, Still
<1>2. CASE pc = "error"
  BY <1>1, <1>2, ErrorStays DEF Still
<1>3. CASE pc # "error"
  <2>1. PICK h \in Nat : h = fwork[r] /\ h > 0
    <3>1. fwork[r] > 0 /\ fwork[r] \in Nat \cup {-1}
      BY DEF SlaveSends, PoolInv, TypeOK, Stopped
    <3> QED
      BY <3>1
  <2>2. /\ toSlave \in [Slaves -> Seq(Nat)] /\ fwork \in [Slaves -> Nat \cup {Stopped}]
        /\ toMaster \in [Ranks -> Seq(Nat)] /\ r \in Ranks /\ toMaster[r] \in Seq(Nat)
    BY DEF PoolInv, TypeOK, Ranks
  <2>3. ~Closing
    BY <2>1 DEF PoolInv, Working
  <2>4. fwork' = [fwork EXCEPT ![r] = 0]
    BY DEF SlaveSends, Waiting
  <2>5. toMaster' = [toMaster EXCEPT ![r] = Append(@, h)]
    BY <2>1 DEF SlaveSends
  <2>6. Range(Append(toMaster[r], h)) = Range(toMaster[r]) \cup {h}
    BY <2>2, RangeAppended
  <2>7. Placed /\ Answers /\ njobs \in Nat /\ njobs' = njobs
    BY <1>1, <1>3 DEF JobInv, PoolInv, TypeOK, Still
  <2>8. \A j : UNCHANGED <<InTo(j), InQueue(j), InSelf(j), InReaped(j)>>
    BY <1>1 DEF InTo, InQueue, InSelf, InReaped, SelfToReap, Still
  <2>9. Placed'
    <3>1. ASSUME NEW j \in Nat \ {0}, j # h PROVE Places(j)' = Places(j)
      <4>1. InWork(j)' = InWork(j)
        BY <2>1, <2>2, <2>4, <3>1 DEF InWork
      <4>2. InFrom(j)' = InFrom(j)
        BY <2>2, <2>5, <2>6, <3>1 DEF InFrom, Ranks
      <4> QED
        BY <2>8, <4>1, <4>2, PlacesSame
    <3>2. h <= njobs /\ Places(h)' = {<<"from", r>>}
      <4>1. r \in InWork(h)
        BY <2>1 DEF InWork
      <4>2. /\ h <= njobs /\ InTo(h) = {} /\ InWork(h) = {r} /\ InFrom(h) = {}
            /\ InQueue(h) = {} /\ InSelf(h) = {} /\ InReaped(h) = {}
        BY <2>1, <2>7, <4>1, Alone
      <4>3. InWork(h)' = {}
        BY <2>1, <2>2, <2>4, <4>2 DEF InWork
      <4>4. InFrom(h)' = {r}
        BY <2>2, <2>5, <2>6, <4>2 DEF InFrom, Ranks
      <4>5. Places(h)' = Spots({}, {}, {r}, {}, {}, {})
        BY <2>8, <4>2, <4>3, <4>4, PlacesAre
      <4> QED
        BY <4>2, <4>5, SpotsOne
    <3>3. \A j \in Nat \ {0} : j # h => Places(j)' = Places(j)
      BY <3>1
    <3>4. h # 0 => h <= njobs /\ \E p : Places(h)' = {p}
      BY <3>2, Zenon
    <3> QED
      BY <2>7, <3>3, <3>4, JobMoved, Zenon
  <2>10. Answers'
    <3>1. Closing' = Closing
      BY <1>1 DEF Closing
    <3>2. \A f \in Foreign : f # r
      BY ForeignAssumption, SlavesAssumption DEF Slaves
    <3>3. \A f \in Foreign : toMaster'[f] = toMaster[f]
      BY <2>2, <2>5, <3>2 DEF Ranks
    <3>4. ASSUME NEW s \in Slaves, NEW i \in DOMAIN toMaster'[s] PROVE toMaster'[s][i] > 0
      <4>1. CASE s # r
        BY <2>2, <2>3, <2>5, <2>7, <3>4, <4>1 DEF Answers, Ranks
      <4>2. CASE s = r
        <5>1. toMaster'[s][i] \in Range(toMaster[r]) \cup {h}
          BY <2>2, <2>5, <2>6, <3>4, <4>2 DEF Range, Ranks
        <5>2. \A x \in Range(toMaster[r]) : x > 0
          BY <2>3, <2>7 DEF Range, Answers
        <5> QED
          BY <2>1, <5>1, <5>2
      <4> QED
        BY <4>1, <4>2
    <3> QED
      BY <1>1, <2>7, <3>1, <3>3, <3>4 DEF Answers
  <2>11. PoolInv' /\ Moves
    BY SlaveSendsKeeps
  <2>12. Stopping'
    BY <1>1, <2>3 DEF Stopping, Closing
  <2> QED
    BY <1>1, <1>3, <2>9, <2>10, <2>11, <2>12, MovedJobs DEF Still
<1> QED
  BY <1>2, <1>3

\* What nobody in the pool sends is not of the pool.
LEMMA ForeignSendsJob ==
  ASSUME NEW f \in Foreign, PoolInv, JobInv, ForeignSends(f) PROVE JobInv'
<1>1. UNCHANGED Still /\ UNCHANGED <<pc, queue, toSlave, fwork>>
  BY DEF ForeignSends, master, counters, args, Still
<1>2. CASE pc = "error"
  BY <1>1, <1>2, ErrorStays DEF Still
<1>3. CASE pc # "error"
  <2>1. /\ toMaster \in [Ranks -> Seq(Nat)] /\ f \in Ranks /\ toMaster[f] \in Seq(Nat)
        /\ toMaster' = [toMaster EXCEPT ![f] = Append(@, Timings)]
    BY DEF ForeignSends, PoolInv, TypeOK, Ranks
  <2>2. \A s \in Slaves : toMaster'[s] = toMaster[s]
    <3>1. \A s \in Slaves : s # f
      BY ForeignAssumption, SlavesAssumption DEF Slaves
    <3> QED
      BY <2>1, <3>1 DEF Ranks
  <2>3. Placed /\ Answers /\ Stopping /\ njobs' = njobs
    BY <1>1, <1>3 DEF JobInv, Still
  <2>4. Placed'
    <3>1. ASSUME NEW j \in Nat \ {0} PROVE Places(j)' = Places(j)
      <4>1. UNCHANGED <<InTo(j), InWork(j), InQueue(j), InSelf(j), InReaped(j)>>
        BY <1>1 DEF InTo, InWork, InQueue, InSelf, InReaped, SelfToReap, Still
      <4>2. InFrom(j)' = InFrom(j)
        BY <2>2 DEF InFrom
      <4> QED
        BY <4>1, <4>2, PlacesSame
    <3>2. \A j \in Nat \ {0} : Places(j)' = Places(j)
      BY <3>1
    <3> QED
      BY <2>3, <3>2 DEF Placed
  <2>5. Answers'
    <3>1. Closing' = Closing
      BY <1>1 DEF Closing
    <3>2. \A g \in Foreign \ {f} : toMaster'[g] = toMaster[g]
      BY <2>1 DEF Ranks
    <3>3. ASSUME NEW i \in DOMAIN toMaster'[f] PROVE toMaster'[f][i] = Timings
      <4>1. Range(Append(toMaster[f], Timings)) = Range(toMaster[f]) \cup {Timings}
        <5>1. Timings \in Nat
          BY DEF Timings
        <5> QED
          BY <2>1, <5>1, RangeAppended
      <4>2. toMaster'[f][i] \in Range(toMaster[f]) \cup {Timings}
        BY <2>1, <3>3, <4>1 DEF Range
      <4>3. \A x \in Range(toMaster[f]) : x = Timings
        BY <2>3 DEF Range, Answers
      <4> QED
        BY <4>2, <4>3
    <3> QED
      BY <1>1, <2>2, <2>3, <3>1, <3>2, <3>3 DEF Answers
  <2>6. PoolInv' /\ Moves
    BY ForeignSendsKeeps
  <2>7. Stopping'
    BY <1>1, <2>3, <2>6 DEF Stopping, Closing, Moves, Still
  <2> QED
    BY <1>1, <1>3, <2>4, <2>5, <2>6, <2>7, MovedJobs DEF Still
<1> QED
  BY <1>2, <1>3

LEMMA TailIs ==
  ASSUME NEW S, NEW s \in Seq(S), s # <<>>
  PROVE  \A i \in DOMAIN Tail(s) : \E l \in DOMAIN s : Tail(s)[i] = s[l]
<1>1. Len(s) \in Nat /\ DOMAIN s = 1..Len(s)
  BY LenProperties
<1>2. Tail(s) \in Seq(S) /\ Len(Tail(s)) = Len(s) - 1
  BY HeadTailProperties
<1>3. DOMAIN Tail(s) = 1..(Len(s) - 1)
  BY <1>2, LenProperties
<1>4. \A i \in 1..(Len(s) - 1) : Tail(s)[i] = s[i + 1]
  BY HeadTailProperties
<1>5. \A i \in 1..(Len(s) - 1) : i + 1 \in 1..Len(s)
  BY <1>1
<1> QED
  BY <1>1, <1>3, <1>4, <1>5

LEMMA EnqueueJob ==
  ASSUME NEW r \in Ranks, PoolInv, JobInv, Enqueue(r) PROVE JobInv'
<1>1. /\ UNCHANGED Still /\ UNCHANGED <<toSlave, fwork>>
      /\ pc # "error" /\ (pc' = pc \/ (pc = "wait" /\ pc' = "scan"))
  BY DEF Enqueue, counters, args, Still
<1>2. /\ toMaster \in [Ranks -> Seq(Nat)] /\ toMaster[r] \in Seq(Nat) /\ toMaster[r] # <<>>
      /\ queue \in Seq(Entry) /\ Slaves \subseteq Ranks /\ Foreign \subseteq Ranks
      /\ \A f \in Foreign : f \notin Slaves
  <2>1. \A f \in Foreign : f \notin Slaves
    BY ForeignAssumption, SlavesAssumption DEF Slaves
  <2> QED
    BY <2>1 DEF Enqueue, PoolInv, TypeOK, Ranks
<1>3. PICK h \in Nat : h = Head(toMaster[r])
  <2>1. Head(toMaster[r]) \in Nat
    BY <1>2, HeadTailProperties
  <2> QED
    BY <2>1
<1>4. /\ queue' = Append(queue, [from |-> r, job |-> h])
      /\ toMaster' = [toMaster EXCEPT ![r] = Tail(@)]
      /\ [from |-> r, job |-> h] \in Entry
  BY <1>3 DEF Enqueue, Entry
<1>5. Placed /\ Answers /\ Stopping /\ njobs \in Nat /\ njobs' = njobs
  BY <1>1 DEF JobInv, PoolInv, TypeOK, Still
<1>6. h \in Range(toMaster[r])
  <2>1. h = toMaster[r][1] /\ Len(toMaster[r]) >= 1 /\ Len(toMaster[r]) \in Nat
    BY <1>2, <1>3, LenProperties, EmptySeq
  <2>2. 1 \in DOMAIN toMaster[r]
    BY <1>2, <2>1, LenProperties
  <2> QED
    BY <2>1, <2>2 DEF Range
<1>7. r \in Slaves => Range(toMaster[r]) = {h} /\ toMaster'[r] = <<>>
  <2>1. ASSUME r \in Slaves PROVE Range(toMaster[r]) = {h} /\ Tail(toMaster[r]) = <<>>
    <3>1. Len(toMaster[r]) = 1
      BY <1>2, <2>1, OneOnly
    <3> QED
      BY <1>2, <1>3, <3>1, RangeSingle
  <2> QED
    BY <1>2, <1>4, <2>1
<1>8. r \in Slaves /\ ~Closing => h > 0
  BY <1>5, <1>6 DEF Answers, Range
<1>9. r \in Foreign => h = 0
  BY <1>5, <1>6 DEF Answers, Range, Timings
<1>10. \A q \in Ranks : q # r => toMaster'[q] = toMaster[q]
  BY <1>2, <1>4
<1>11. Closing' = Closing
  BY <1>1 DEF Closing
<1>12. Placed'
  <2>1. \A j : UNCHANGED <<InTo(j), InWork(j), InSelf(j), InReaped(j)>>
    <3>1. SelfToReap' = SelfToReap
      BY DEF Enqueue, SelfToReap
    <3> QED
      BY <1>1, <3>1 DEF InTo, InWork, InSelf, InReaped, Still
  <2>2. ASSUME NEW j \in Nat \ {0}, j # h PROVE Places(j)' = Places(j)
    <3>1. InQueue(j)' = InQueue(j)
      <4>1. InQueue(j)' = InQueue(j) \cup
              (IF [from |-> r, job |-> h].job = j THEN {Len(queue) + 1} ELSE {})
        BY <1>2, <1>4, JobsAppended
      <4> QED
        BY <2>2, <4>1
    <3>2. InFrom(j)' = InFrom(j)
      BY <1>2, <1>7, <1>10, <2>2, RangeNone DEF InFrom
    <3> QED
      BY <2>1, <3>1, <3>2, PlacesSame
  <2>3. ASSUME h # 0 PROVE h <= njobs /\ \E p : Places(h)' = {p}
    <3>1. r \in Slaves
      BY <1>9, <2>3 DEF Ranks
    <3>2. r \in InFrom(h)
      BY <1>6, <3>1 DEF InFrom
    <3>3. /\ h <= njobs /\ InTo(h) = {} /\ InWork(h) = {} /\ InFrom(h) = {r}
          /\ InQueue(h) = {} /\ InSelf(h) = {} /\ InReaped(h) = {}
      BY <1>5, <2>3, <3>2, Alone
    <3>4. InFrom(h)' = {}
      BY <1>2, <1>7, <1>10, <3>1, <3>3, RangeNone DEF InFrom
    <3>5. InQueue(h)' = {Len(queue) + 1}
      BY <1>2, <1>4, <3>3, JobsAppended
    <3>6. Places(h)' = Spots({}, {}, {}, {Len(queue) + 1}, {}, {})
      BY <2>1, <3>3, <3>4, <3>5, PlacesAre
    <3>7. Places(h)' = {<<"queue", Len(queue) + 1>>}
      BY <3>6, SpotsOne
    <3> QED
      BY <3>3, <3>7, Zenon
  <2>4. \A j \in Nat \ {0} : j # h => Places(j)' = Places(j)
    BY <2>2
  <2> QED
    BY <1>5, <2>3, <2>4, JobMoved, Zenon
<1>13. Answers'
  <2>1. ~Closing => \A s \in Slaves : \A i \in DOMAIN toMaster'[s] : toMaster'[s][i] > 0
    <3>1. r \in Slaves => DOMAIN toMaster'[r] = {}
      BY <1>7
    <3>2. ~Closing => \A s \in Slaves : \A i \in DOMAIN toMaster[s] : toMaster[s][i] > 0
      BY <1>5 DEF Answers
    <3> QED
      BY <1>2, <1>10, <3>1, <3>2
  <2>2. \A f \in Foreign : \A i \in DOMAIN toMaster'[f] : toMaster'[f][i] = Timings
    <3>1. \A i \in DOMAIN Tail(toMaster[r]) :
            \E l \in DOMAIN toMaster[r] : Tail(toMaster[r])[i] = toMaster[r][l]
      BY <1>2, TailIs
    <3>2. toMaster'[r] = Tail(toMaster[r])
      BY <1>2, <1>4
    <3>3. \A f \in Foreign : \A i \in DOMAIN toMaster[f] : toMaster[f][i] = Timings
      BY <1>5 DEF Answers
    <3>4. ASSUME NEW f \in Foreign, NEW i \in DOMAIN toMaster'[f]
          PROVE  toMaster'[f][i] = Timings
      <4>1. CASE f = r
        BY <3>1, <3>2, <3>3, <3>4, <4>1
      <4>2. CASE f # r
        <5>1. f \in Ranks
          BY <1>2
        <5>2. toMaster'[f] = toMaster[f]
          BY <1>10, <4>2, <5>1
        <5> QED
          BY <3>3, <3>4, <5>2
      <4> QED
        BY <4>1, <4>2
    <3> QED
      BY <3>4
  <2>3. \A i \in DOMAIN queue' : \/ queue'[i] = [from |-> r, job |-> h]
                                 \/ \E l \in DOMAIN queue : queue'[i] = queue[l]
    BY <1>2, <1>4, JobsAppended
  <2>4. ASSUME NEW i \in DOMAIN queue'
        PROVE  /\ ~Closing /\ queue'[i].from \in Slaves => queue'[i].job > 0
               /\ queue'[i].from \in Foreign => queue'[i].job = Timings
    <3>1. CASE queue'[i] = [from |-> r, job |-> h]
      BY <1>8, <1>9, <3>1 DEF Timings
    <3>2. CASE \E l \in DOMAIN queue : queue'[i] = queue[l]
      BY <1>5, <3>2 DEF Answers
    <3> QED
      BY <2>3, <3>1, <3>2
  <2> QED
    BY <1>11, <2>1, <2>2, <2>4 DEF Answers
<1>14. PoolInv' /\ Moves
  BY EnqueueKeeps
<1>15. Stopping'
  BY <1>1, <1>5, <1>11, <1>14 DEF Stopping, Moves, Still
<1> QED
  BY <1>1, <1>12, <1>13, <1>14, <1>15, MovedJobs DEF Still

\* A message that is not a job leaves the queue.
LEMMA NoJobTaken ==
  ASSUME PoolInv, Placed, Answers, NEW k \in DOMAIN queue, queue' = RemoveAt(queue, k),
         \A j \in Nat \ {0} : j <= njobs /\ queue[k].job = j => InQueue(j) = {},
         SelfToReap' = SelfToReap, Closing' = Closing,
         UNCHANGED <<toSlave, toMaster, fwork, njobs, jobo, reaped>>
  PROVE  Placed' /\ Answers'
<1>1. queue \in Seq(Entry) /\ njobs \in Nat
  BY DEF PoolInv, TypeOK
<1>2. \A j : UNCHANGED <<InTo(j), InWork(j), InFrom(j), InSelf(j), InReaped(j)>>
  BY DEF InTo, InWork, InFrom, InSelf, InReaped
<1>3. ASSUME NEW j \in Nat \ {0} PROVE queue[k].job # j
  <2>1. SUFFICES ASSUME queue[k].job = j PROVE FALSE
    OBVIOUS
  <2>2. k \in InQueue(j)
    BY <2>1 DEF InQueue
  <2> QED
    BY <1>1, <2>1, <2>2, Alone
<1>4. \A j \in Nat \ {0} : 0 # j => \/ Places(j)' = Places(j)
                                    \/ j <= njobs /\ \E p : Places(j)' = {p}
  BY <1>1, <1>2, <1>3, PlaceShifted
<1>5. Placed'
  BY <1>4, JobMoved
<1>6. \A i \in DOMAIN queue' : \E l \in DOMAIN queue : queue'[i] = queue[l]
  BY <1>1, JobsRemoved
<1>7. Answers'
  BY <1>6 DEF Answers
<1> QED
  BY <1>5, <1>7

LEMMA UserReceivesJob ==
  ASSUME NEW f \in Foreign, PoolInv, JobInv, UserReceives(f) PROVE JobInv'
<1>1. UNCHANGED Still /\ UNCHANGED <<pc, toSlave, toMaster, fwork>> /\ pc = "freap"
  BY DEF UserReceives, master, counters, args, Still
<1>2. PICK k \in DOMAIN queue : queue[k].from = f /\ queue' = RemoveAt(queue, k)
  BY DEF UserReceives, Oldest, Queued
<1>3. Placed /\ Answers /\ Stopping
  BY <1>1 DEF JobInv
<1>4. queue[k].job = 0
  BY <1>2, <1>3 DEF Answers, Timings
<1>5. SelfToReap' = SelfToReap /\ Closing' = Closing
  BY <1>1 DEF SelfToReap, Closing, Still
<1>6. Placed' /\ Answers'
  BY <1>1, <1>2, <1>3, <1>4, <1>5, NoJobTaken DEF Still
<1>7. PoolInv' /\ Moves
  BY UserReceivesKeeps
<1>8. Stopping'
  BY <1>1, <1>3, <1>5, <1>7 DEF Stopping, Moves, Still
<1> QED
  BY <1>1, <1>6, <1>7, <1>8, MovedJobs DEF Still

-----------------------------------------------------------------------------
(* The master's decisions leave the jobs where they are. *)

LEMMA DecidedJobs ==
  ASSUME PoolInv, JobInv, ~Closing, ~Closing', pc # "error", pc' # "error",
         UNCHANGED <<queue, toSlave, toMaster, fwork, reaped, njobs, jobo, nmax, self>>,
         SelfToReap' = SelfToReap,
         pc' = "fsow" /\ slave' = Self => self \/ nactive' = 0
  PROVE  JobInv'
<1>1. Placed /\ Answers /\ Outstanding /\ SelfAllowed
  BY DEF JobInv
<1>2. Placed'
  <2>1. ASSUME NEW j \in Nat \ {0} PROVE Places(j)' = Places(j)
    <3>1. UNCHANGED <<InTo(j), InWork(j), InFrom(j), InQueue(j), InSelf(j), InReaped(j)>>
      BY DEF InTo, InWork, InFrom, InQueue, InSelf, InReaped
    <3> QED
      BY <3>1, PlacesSame
  <2>2. \A j \in Nat \ {0} : Places(j)' = Places(j)
    BY <2>1
  <2> QED
    BY <1>1, <2>2 DEF Placed
<1>3. Answers' /\ Stopping'
  BY <1>1 DEF Answers, Stopping
<1>4. Outstanding'
  <2>1. Busy' = Busy
    BY QuietKeeps
  <2> QED
    BY <1>1, <2>1 DEF Outstanding, Jobs
<1>5. SelfAllowed'
  BY <1>1 DEF SelfAllowed, Jobs
<1>6. pc' # "done"
  BY DEF Closing
<1> QED
  BY <1>2, <1>3, <1>4, <1>5, <1>6 DEF JobInv, Jobs

\* The master sows to itself when it may, or when nobody is at work.
LEMMA SowAnotherJob ==
  ASSUME PoolInv, JobInv, SowAnother, state = 1, pc \in {"active", "probe", "scan"},
         Unused \/ self \/ nactive = 0,
         UNCHANGED <<args, queue, toSlave, toMaster, fwork, reaped, foreignSent, taken>>
  PROVE  JobInv'
<1>1. pc' = "fsow" /\ UNCHANGED <<njobs, jobo, nmax, self>>
  BY DEF SowAnother, args
<1>2. ~Closing /\ ~Closing' /\ pc # "error"
  BY <1>1 DEF Closing
<1>3. ~SelfToReap /\ ~SelfToReap'
  BY <1>1 DEF SowAnother, SelfToReap
<1>4. slave' = Self => self \/ nactive' = 0
  BY DEF SowAnother, Self, PoolInv, TypeOK
<1>5. pc' # "error" /\ SelfToReap' = SelfToReap
  BY <1>1, <1>3 DEF SelfToReap
<1> QED
  BY <1>1, <1>2, <1>4, <1>5, DecidedJobs

LEMMA ActiveAnyJob ==
  ASSUME PoolInv, JobInv, Active, ActiveAny PROVE JobInv'
<1>1. CASE nactive > 0
  <2>1. pc' = "probe" /\ UNCHANGED <<queue, toSlave, toMaster, fwork, reaped, njobs, jobo, nmax,
                                     self, state>>
        /\ pc = "active" /\ state = 1
    BY <1>1 DEF Active, ActiveAny, args, counters
  <2> QED
    BY <2>1, DecidedJobs DEF Closing, SelfToReap
<1>2. CASE ~(nactive > 0)
  <2>1. nactive = 0
    BY <1>2 DEF PoolInv, TypeOK
  <2> QED
    BY <1>2, <2>1, SowAnotherJob DEF Active, ActiveAny
<1> QED
  BY <1>1, <1>2

LEMMA ActiveReapedJob ==
  ASSUME PoolInv, JobInv, Active, ActiveReaped PROVE JobInv'
<1>1. /\ pc = "active" /\ pc' = "fsow" /\ state = 2 /\ state' = 1 /\ slave' # Self
      /\ UNCHANGED <<queue, toSlave, toMaster, fwork, reaped, njobs, jobo, nmax, self>>
  BY DEF Active, ActiveReaped, args, counters, PoolInv, Where, Slaves, Self
<1> QED
  BY <1>1, DecidedJobs DEF Closing, SelfToReap

LEMMA ActiveSelfJob ==
  ASSUME PoolInv, JobInv, Active, ActiveSelf PROVE JobInv'
<1>1. /\ pc = "active" /\ pc' = "freap" /\ state = 3 /\ slave' = Self
      /\ UNCHANGED <<queue, toSlave, toMaster, fwork, reaped, njobs, jobo, nmax, self>>
  BY DEF Active, ActiveSelf, args, counters, PoolInv, Where
<1> QED
  BY <1>1, DecidedJobs DEF Closing, SelfToReap

\* When the shutdown is sent, every job has been assimilated.
LEMMA ActiveNoMoreJob ==
  ASSUME PoolInv, JobInv, Active, ActiveNoMore PROVE JobInv'
<1>1. /\ pc = "active" /\ state = 20 /\ UNCHANGED Still
      /\ UNCHANGED <<queue, toMaster, fwork>>
  BY DEF Active, ActiveNoMore, args, counters, Still
<1>2. CASE nactive > 0
  <2>1. pc' = "probe" /\ UNCHANGED toSlave
    BY <1>2 DEF ActiveNoMore
  <2> QED
    BY <1>1, <2>1, DecidedJobs DEF Closing, SelfToReap, Still
<1>3. CASE ~(nactive > 0)
  <2>1. /\ pc' = "collect"
        /\ toSlave' = [s \in Slaves |-> Append(toSlave[s], Shutdown)]
    BY <1>3 DEF ActiveNoMore, Staff
  <2>2. Busy = {} /\ \A s \in Slaves : Load(s)' = 1
    BY <2>1, ActiveNoMoreKeeps
  <2>3. Placed /\ Answers /\ Outstanding /\ SelfAllowed /\ reaped \subseteq Jobs
    BY <1>1 DEF JobInv
  <2>4. ~Closing /\ ~SelfToReap /\ ~SelfToReap' /\ collected = 0 /\ Closing'
    BY <1>1, <2>1 DEF Closing, SelfToReap, PoolInv, Where, Still
  <2>5. reaped = Jobs
    <3>1. Cardinality(Jobs \ reaped) = 0
      BY <2>2, <2>3, <2>4, FS_EmptySet DEF Outstanding
    <3>2. IsFiniteSet(Jobs \ reaped)
      <4>1. IsFiniteSet(1 .. njobs)
        BY FS_Interval DEF PoolInv, TypeOK
      <4> QED
        BY <4>1, FS_Subset DEF Jobs
    <3>3. Jobs \ reaped = {}
      BY <3>1, <3>2, FS_EmptySet
    <3> QED
      BY <2>3, <3>3
  <2>6. Placed'
    <3>1. ASSUME NEW j \in Nat \ {0} PROVE Places(j)' = Places(j)
      <4>1. UNCHANGED <<InWork(j), InFrom(j), InQueue(j), InSelf(j), InReaped(j)>>
        BY <1>1, <2>4 DEF InWork, InFrom, InQueue, InSelf, InReaped, Still
      <4>2. InTo(j)' = InTo(j)
        <5>1. \A s \in Slaves : Range(toSlave'[s]) = Range(toSlave[s]) \cup {0}
          <6>1. ASSUME NEW s \in Slaves
                PROVE  Range(Append(toSlave[s], Shutdown)) = Range(toSlave[s]) \cup {0}
            <7>1. toSlave[s] \in Seq(Nat) /\ Shutdown \in Nat /\ Shutdown = 0
              BY DEF PoolInv, TypeOK, Shutdown
            <7> QED
              BY <7>1, RangeAppended
          <6> QED
            BY <2>1, <6>1
        <5> QED
          BY <3>1, <5>1 DEF InTo
      <4> QED
        BY <4>1, <4>2, PlacesSame
    <3>2. \A j \in Nat \ {0} : Places(j)' = Places(j)
      BY <3>1
    <3> QED
      BY <1>1, <2>3, <3>2 DEF Placed, Still
  <2>7. Answers'
    BY <1>1, <2>3, <2>4 DEF Answers
  <2>8. Stopping'
    <3>1. ASSUME NEW s \in Slaves PROVE toSlave'[s] # <<>>
      <4>1. toSlave[s] \in Seq(Nat) /\ Shutdown \in Nat
        BY DEF PoolInv, TypeOK, Shutdown
      <4>2. Len(Append(toSlave[s], Shutdown)) = Len(toSlave[s]) + 1 /\ Len(toSlave[s]) \in Nat
        BY <4>1, AppendProperties, LenProperties
      <4>3. Append(toSlave[s], Shutdown) # <<>>
        BY <4>2, EmptySeq
      <4> QED
        BY <2>1, <4>3
    <3>2. \A s \in Slaves : ~(s <= collected')
      BY <1>1, <2>4, SlavesAssumption DEF Slaves, Still
    <3> QED
      BY <2>2, <3>1, <3>2 DEF Stopping
  <2>9. Outstanding' /\ SelfAllowed'
    BY <1>1, <2>1, <2>3, <2>4, <2>5 DEF Outstanding, SelfAllowed, Jobs, Still
  <2> QED
    BY <1>1, <2>1, <2>3, <2>6, <2>7, <2>8, <2>9 DEF JobInv, Jobs, Still
<1> QED
  BY <1>2, <1>3

LEMMA ActiveJob ==
  ASSUME PoolInv, JobInv, Active PROVE JobInv'
  BY ActiveAnyJob, ActiveReapedJob, ActiveSelfJob, ActiveNoMoreJob DEF Active

LEMMA ScanJob ==
  ASSUME PoolInv, JobInv, pc \in {"probe", "scan"}, Scan,
         UNCHANGED <<args, queue, toSlave, toMaster, fwork, reaped, foreignSent, taken>>
  PROVE  JobInv'
<1>1. state \in {1, 20} /\ UNCHANGED <<nmax, self>>
  BY DEF PoolInv, Where, args
<1>2. ~Closing /\ ~SelfToReap
  BY <1>1 DEF Closing, SelfToReap
<1>3. ASSUME NEW i \in FirstOfPool, Ready(i) PROVE JobInv'
  <2>1. queue[i].from \in Slaves
    BY <1>3 DEF FirstOfPool, OfPool, PoolInv, OnlyPool
  <2>2. pc' = "freap" /\ slave' # Self /\ UNCHANGED <<njobs, jobo>> /\ state' \in {2, 20}
    BY <1>1, <1>3, <2>1 DEF Ready, Slaves, Self
  <2>3. ~Closing' /\ SelfToReap' = SelfToReap /\ pc' # "error"
    BY <1>2, <2>2 DEF Closing, SelfToReap
  <2> QED
    BY <1>1, <1>2, <2>2, <2>3, DecidedJobs
<1>4. CASE Blocking /\ pc' = "probe" /\ UNCHANGED <<state, slave, njobs, nused, nself, nactive,
                                                    jobo, collected>>
  <2>1. ~Closing' /\ SelfToReap' = SelfToReap /\ pc' # "error"
    BY <1>1, <1>2, <1>4 DEF Closing, SelfToReap
  <2> QED
    BY <1>1, <1>2, <1>4, <2>1, DecidedJobs
<1>5. CASE ~Blocking /\ SowAnother
  <2>1. state = 1 /\ (Unused \/ self)
    BY <1>1, <1>5 DEF Blocking
  <2> QED
    BY <1>5, <2>1, SowAnotherJob
<1> QED
  BY <1>3, <1>4, <1>5 DEF Scan

LEMMA ProbeReturnsJob ==
  ASSUME PoolInv, JobInv, ProbeReturns PROVE JobInv'
<1>1. /\ pc = "probe"
      /\ UNCHANGED <<args, queue, toSlave, toMaster, fwork, reaped, foreignSent, taken>>
      /\ state \in {1, 20} /\ UNCHANGED <<nmax, self>>
  BY DEF ProbeReturns, PoolInv, Where, args
<1>2. CASE Scan
  BY <1>1, <1>2, ScanJob
<1>3. CASE Blocking /\ pc' = "wait" /\ UNCHANGED <<state, slave, njobs, nused, nself, nactive,
                                                   jobo, collected>>
  <2>1. ~Closing /\ ~Closing' /\ SelfToReap' = SelfToReap /\ pc' # "error"
    BY <1>1, <1>3 DEF Closing, SelfToReap
  <2> QED
    BY <1>1, <1>3, <2>1, DecidedJobs
<1>4. CASE ~Blocking /\ SowAnother
  <2>1. state = 1 /\ (Unused \/ self)
    BY <1>1, <1>4 DEF Blocking
  <2> QED
    BY <1>1, <1>4, <2>1, SowAnotherJob
<1> QED
  BY <1>2, <1>3, <1>4 DEF ProbeReturns

LEMMA ScanReturnsJob ==
  ASSUME PoolInv, JobInv, ScanReturns PROVE JobInv'
  BY ScanJob DEF ScanReturns

LEMMA SowNoneJob ==
  ASSUME PoolInv, JobInv, SowNone PROVE JobInv'
<1>1. /\ pc = "fsow" /\ pc' = "active" /\ state \in {1, 12} /\ state' = 20
      /\ UNCHANGED <<queue, toSlave, toMaster, fwork, reaped, njobs, jobo, nmax, self>>
  BY DEF SowNone, PoolInv, Where, args
<1>2. ~Closing /\ ~Closing' /\ SelfToReap' = SelfToReap
  BY <1>1 DEF Closing, SelfToReap
<1> QED
  BY <1>1, <1>2, DecidedJobs

-----------------------------------------------------------------------------
(* Sowing and reaping. *)

LEMMA OneMore ==
  ASSUME NEW S, NEW x, IsFiniteSet(S), x \notin S
  PROVE  Cardinality(S \cup {x}) = Cardinality(S) + 1 /\ Cardinality(S) \in Nat
  BY FS_AddElement, FS_CardinalityType

LEMMA OneLess ==
  ASSUME NEW S, NEW x, IsFiniteSet(S), x \in S
  PROVE  Cardinality(S \ {x}) = Cardinality(S) - 1 /\ Cardinality(S) \in Nat
  BY FS_RemoveElement, FS_CardinalityType

LEMMA JobsFinite ==
  ASSUME PoolInv
  PROVE  /\ IsFiniteSet(Jobs) /\ IsFiniteSet(Jobs \ reaped) /\ Cardinality(Jobs) = njobs
         /\ njobs + 1 \notin Jobs /\ 1 .. (njobs + 1) = Jobs \cup {njobs + 1}
<1>1. njobs \in Nat
  BY DEF PoolInv, TypeOK
<1>2. IsFiniteSet(Jobs) /\ Cardinality(Jobs) = njobs
  BY <1>1, FS_Interval DEF Jobs
<1>3. IsFiniteSet(Jobs \ reaped)
  BY <1>2, FS_Subset
<1> QED
  BY <1>1, <1>2, <1>3 DEF Jobs

\* The new job is in no place yet.
LEMMA NewJob ==
  ASSUME PoolInv, Placed
  PROVE  LET j == njobs + 1
         IN  /\ InTo(j) = {} /\ InWork(j) = {} /\ InFrom(j) = {}
             /\ InQueue(j) = {} /\ InSelf(j) = {} /\ InReaped(j) = {}
<1>1. PICK j \in Nat \ {0} : j = njobs + 1 /\ ~(j <= njobs)
  BY DEF PoolInv, TypeOK
<1>2. njobs \in Nat
  BY DEF PoolInv, TypeOK
<1>3. /\ InTo(j) = {} /\ InWork(j) = {} /\ InFrom(j) = {}
      /\ InQueue(j) = {} /\ InSelf(j) = {} /\ InReaped(j) = {}
  BY <1>1, <1>2, Alone
<1> QED
  BY <1>1, <1>3

\* Job h is new, and has its place.
LEMMA JobAdded ==
  ASSUME Placed, njobs \in Nat, NEW h \in Nat, h = njobs + 1, njobs' = h,
         \E p : Places(h)' = {p},
         \A j \in Nat \ {0} : j # h => Places(j)' = Places(j)
  PROVE  Placed'
<1>1. ASSUME NEW j \in Nat \ {0}
      PROVE  IF j <= njobs' THEN \E p \in Places(j)' : Places(j)' = {p} ELSE Places(j)' = {}
  <2>1. CASE j = h
    BY <2>1
  <2>2. CASE j # h
    BY <2>2 DEF Placed
  <2> QED
    BY <2>1, <2>2
<1> QED
  BY <1>1 DEF Placed

LEMMA SowToSlaveJob ==
  ASSUME PoolInv, JobInv, Sow, NEW r \in Slaves, slave = r PROVE JobInv'
<1>1. /\ pc = "fsow" /\ pc' = "active" /\ state = 1 /\ njobs' = njobs + 1
      /\ toSlave' = [toSlave EXCEPT ![r] = Append(@, njobs + 1)]
      /\ UNCHANGED <<state, slave, nmax, self, jobo, collected, queue, toMaster, fwork, reaped>>
  BY DEF Sow, PoolInv, Where, args, Self, Slaves
<1>2. Placed /\ Answers /\ Outstanding /\ SelfAllowed /\ reaped \subseteq Jobs
  BY <1>1 DEF JobInv
<1>3. PICK h \in Nat : h = njobs + 1 /\ h # 0 /\ njobs \in Nat
  BY DEF PoolInv, TypeOK
<1>4. ~SelfToReap /\ ~SelfToReap' /\ ~Closing /\ ~Closing'
  BY <1>1 DEF SelfToReap, Closing, Self, Slaves
<1>5. toSlave \in [Slaves -> Seq(Nat)] /\ Range(Append(toSlave[r], h)) = Range(toSlave[r]) \cup {h}
  <2>1. toSlave \in [Slaves -> Seq(Nat)]
    BY DEF PoolInv, TypeOK
  <2>2. toSlave[r] \in Seq(Nat) /\ h \in Nat
    BY <2>1
  <2>3. Range(Append(toSlave[r], h)) = Range(toSlave[r]) \cup {h}
    BY <2>2, RangeAppended
  <2> QED
    BY <2>1, <2>3
<1>6. \A j : UNCHANGED <<InWork(j), InFrom(j), InQueue(j), InReaped(j)>>
  BY <1>1 DEF InWork, InFrom, InQueue, InReaped
<1>7. \A j : InSelf(j) = {} /\ InSelf(j)' = {}
  BY <1>4 DEF InSelf
<1>8. Placed'
  <2>1. ASSUME NEW j \in Nat \ {0}, j # h PROVE Places(j)' = Places(j)
    <3>1. InTo(j)' = InTo(j)
      BY <1>1, <1>3, <1>5, <2>1 DEF InTo
    <3> QED
      BY <1>6, <1>7, <3>1, PlacesSame
  <2>2. Places(h)' = Spots({r}, {}, {}, {}, {}, {})
    <3>1. /\ InTo(h) = {} /\ InWork(h) = {} /\ InFrom(h) = {}
          /\ InQueue(h) = {} /\ InReaped(h) = {}
      BY <1>2, <1>3, NewJob
    <3>2. InTo(h)' = {r}
      BY <1>1, <1>3, <1>5, <3>1 DEF InTo
    <3> QED
      BY <1>6, <1>7, <3>1, <3>2, PlacesAre
  <2>3. Places(h)' = {<<"to", r>>}
    BY <2>2, SpotsOne
  <2>4. \A j \in Nat \ {0} : j # h => Places(j)' = Places(j)
    BY <2>1
  <2>5. \E p : Places(h)' = {p}
    BY <2>3, Zenon
  <2>6. njobs' = h
    BY <1>1, <1>3
  <2> QED
    BY <1>2, <1>3, <2>4, <2>5, <2>6, JobAdded, Zenon
<1>9. Answers' /\ Stopping'
  BY <1>1, <1>2, <1>4 DEF Answers, Stopping
<1>10. reaped' \subseteq Jobs' /\ Jobs' = Jobs \cup {h}
  BY <1>1, <1>2, <1>3, JobsFinite DEF Jobs
<1>11. Outstanding'
  <2>1. Busy' = Busy \cup {r} /\ r \notin Busy
    BY SowToSlave
  <2>2. IsFiniteSet(Busy) /\ IsFiniteSet(Jobs \ reaped) /\ h \notin Jobs
    BY <1>3, BusyTyped, JobsFinite DEF PoolInv
  <2>3. (Jobs \ reaped)' = (Jobs \ reaped) \cup {h} /\ h \notin Jobs \ reaped
    BY <1>1, <1>2, <1>10, <2>2
  <2>4. /\ Cardinality(Busy') = Cardinality(Busy) + 1
        /\ Cardinality((Jobs \ reaped)') = Cardinality(Jobs \ reaped) + 1
    BY <2>1, <2>2, <2>3, OneMore
  <2>5. Cardinality(Jobs \ reaped) = Cardinality(Busy)
    <3>1. Cardinality(Busy) \in Nat
      BY BusyTyped DEF PoolInv
    <3> QED
      BY <1>2, <1>4, <3>1 DEF Outstanding
  <2>6. Cardinality(Busy) \in Nat
    BY BusyTyped DEF PoolInv
  <2> QED
    BY <1>4, <2>4, <2>5, <2>6 DEF Outstanding
<1>12. SelfAllowed'
  BY <1>1, <1>2, <1>4 DEF SelfAllowed
<1> QED
  BY <1>1, <1>8, <1>9, <1>10, <1>11, <1>12 DEF JobInv

LEMMA SowToSelfJob ==
  ASSUME PoolInv, JobInv, Sow, slave = Self PROVE JobInv'
<1>1. /\ pc = "fsow" /\ pc' = "active" /\ state = 12 /\ state' = 3 /\ njobs' = njobs + 1
      /\ jobo' = njobs + 1
      /\ UNCHANGED <<slave, nmax, self, collected, queue, toSlave, toMaster, fwork, reaped>>
  BY DEF Sow, PoolInv, Where, args, Self
<1>2. Placed /\ Answers /\ Outstanding /\ SelfAllowed /\ reaped \subseteq Jobs
  BY <1>1 DEF JobInv
<1>3. PICK h \in Nat : h = njobs + 1 /\ h # 0 /\ njobs \in Nat
  BY DEF PoolInv, TypeOK
<1>4. ~SelfToReap /\ SelfToReap' /\ ~Closing /\ ~Closing'
  BY <1>1 DEF SelfToReap, Closing
<1>5. \A j : UNCHANGED <<InTo(j), InWork(j), InFrom(j), InQueue(j), InReaped(j)>>
  BY <1>1 DEF InTo, InWork, InFrom, InQueue, InReaped
<1>6. \A j : InSelf(j) = {} /\ InSelf(j)' = IF j = h THEN {Self} ELSE {}
  BY <1>1, <1>3, <1>4 DEF InSelf
<1>7. Placed'
  <2>1. ASSUME NEW j \in Nat \ {0}, j # h PROVE Places(j)' = Places(j)
    BY <1>5, <1>6, <2>1, PlacesSame
  <2>2. Places(h)' = Spots({}, {}, {}, {}, {Self}, {})
    <3>1. /\ InTo(h) = {} /\ InWork(h) = {} /\ InFrom(h) = {}
          /\ InQueue(h) = {} /\ InReaped(h) = {}
      BY <1>2, <1>3, NewJob
    <3> QED
      BY <1>5, <1>6, <3>1, PlacesAre
  <2>3. Places(h)' = {<<"self", Self>>}
    BY <2>2, SpotsOne
  <2>4. \A j \in Nat \ {0} : j # h => Places(j)' = Places(j)
    BY <2>1
  <2>5. \E p : Places(h)' = {p}
    BY <2>3, Zenon
  <2>6. njobs' = h
    BY <1>1, <1>3
  <2> QED
    BY <1>2, <1>3, <2>4, <2>5, <2>6, JobAdded, Zenon
<1>8. Answers' /\ Stopping'
  BY <1>1, <1>2, <1>4 DEF Answers, Stopping
<1>9. reaped' \subseteq Jobs' /\ Jobs' = Jobs \cup {h}
  BY <1>1, <1>2, <1>3, JobsFinite DEF Jobs
<1>10. Outstanding'
  <2>1. Busy' = Busy
    BY <1>1, QuietKeeps
  <2>2. IsFiniteSet(Jobs \ reaped) /\ h \notin Jobs /\ Cardinality(Busy) \in Nat
    BY <1>3, BusyTyped, JobsFinite DEF PoolInv
  <2>3. (Jobs \ reaped)' = (Jobs \ reaped) \cup {h} /\ h \notin Jobs \ reaped
    BY <1>1, <1>2, <1>9, <2>2
  <2>4. Cardinality((Jobs \ reaped)') = Cardinality(Jobs \ reaped) + 1
    BY <2>2, <2>3, OneMore
  <2>5. Cardinality(Jobs \ reaped) = Cardinality(Busy)
    BY <1>2, <1>4, <2>2 DEF Outstanding
  <2> QED
    BY <1>4, <2>1, <2>2, <2>4, <2>5 DEF Outstanding
<1>11. SelfAllowed'
  BY <1>1, <1>2, <1>3, <1>9 DEF SelfAllowed
<1> QED
  BY <1>1, <1>7, <1>8, <1>9, <1>10, <1>11 DEF JobInv

LEMMA SowJob ==
  ASSUME PoolInv, JobInv, Sow PROVE JobInv'
<1>1. CASE slave = Self
  BY <1>1, SowToSelfJob
<1>2. CASE slave \in Slaves
  BY <1>2, SowToSlaveJob
<1>3. CASE slave # Self /\ slave \notin Slaves
  <2>1. pc' = "error" /\ njobs' = njobs + 1 /\ reaped' = reaped
    BY <1>3 DEF Sow
  <2>2. reaped \subseteq Jobs
    BY DEF JobInv
  <2>3. Jobs \subseteq Jobs'
    BY <2>1 DEF Jobs, PoolInv, TypeOK
  <2> QED
    BY <2>1, <2>2, <2>3 DEF JobInv
<1> QED
  BY <1>1, <1>2, <1>3

\* A reap assimilates a job that was handed out and not assimilated before.
LEMMA ReapFromSlaveJob ==
  ASSUME PoolInv, JobInv, Reap, NEW r \in Slaves, slave = r
  PROVE  JobInv' /\ \E h \in Jobs \ reaped : reaped' = reaped \cup {h}
<1>1. /\ pc = "freap" /\ pc' = "active" /\ state \in {2, 20}
      /\ UNCHANGED <<state, slave, njobs, nmax, self, jobo, collected, toSlave, toMaster, fwork>>
  BY DEF Reap, PoolInv, Where, args, counters, Self, Slaves
<1>2. Placed /\ Answers /\ Outstanding /\ SelfAllowed /\ reaped \subseteq Jobs
  BY <1>1 DEF JobInv
<1>3. PICK k \in DOMAIN queue : /\ queue[k].from = r /\ queue' = RemoveAt(queue, k)
                                /\ reaped' = reaped \cup {queue[k].job}
  BY DEF Reap, Oldest, Queued, Self, Slaves
<1>4. ~SelfToReap /\ ~SelfToReap' /\ ~Closing /\ ~Closing'
  BY <1>1 DEF SelfToReap, Closing, Self, Slaves
<1>5. queue \in Seq(Entry) /\ njobs \in Nat
  BY DEF PoolInv, TypeOK
<1>6. PICK h \in Nat : h = queue[k].job /\ h > 0
  <2>1. queue[k] \in Entry
    BY <1>5, ElementOfSeq, LenProperties
  <2> QED
    BY <1>2, <1>3, <1>4, <2>1 DEF Answers, Entry
<1>7. k \in InQueue(h)
  BY <1>6 DEF InQueue
<1>8. /\ h <= njobs /\ InTo(h) = {} /\ InWork(h) = {} /\ InFrom(h) = {}
      /\ InQueue(h) = {k} /\ InSelf(h) = {} /\ InReaped(h) = {}
  BY <1>2, <1>5, <1>6, <1>7, Alone
<1>9. \A j : UNCHANGED <<InTo(j), InWork(j), InFrom(j)>>
  BY <1>1 DEF InTo, InWork, InFrom
<1>10. \A j : InSelf(j) = {} /\ InSelf(j)' = {}
  BY <1>4 DEF InSelf
<1>11. h \in Jobs \ reaped
  BY <1>5, <1>6, <1>8 DEF Jobs, InReaped
<1>12. Placed'
  <2>1. ASSUME NEW j \in Nat \ {0}, j # h
        PROVE  \/ Places(j)' = Places(j)
               \/ j <= njobs /\ \E p : Places(j)' = {p}
    <3>1. InReaped(j)' = InReaped(j)
      BY <1>3, <1>6, <2>1 DEF InReaped
    <3>2. queue[k].job # j
      BY <1>6, <2>1
    <3> QED
      BY <1>2, <1>3, <1>5, <1>9, <1>10, <3>1, <3>2, PlaceShifted
  <2>2. Places(h)' = Spots({}, {}, {}, {}, {}, {Self})
    <3>1. InQueue(h)' = {}
      BY <1>3, <1>5, <1>8, JobsRemoved
    <3>2. InReaped(h)' = {Self}
      BY <1>3, <1>6 DEF InReaped
    <3> QED
      BY <1>8, <1>9, <1>10, <3>1, <3>2, PlacesAre
  <2>3. Places(h)' = {<<"reaped", Self>>}
    BY <2>2, SpotsOne
  <2>4. \A j \in Nat \ {0} : j # h => \/ Places(j)' = Places(j)
                                      \/ j <= njobs /\ \E p : Places(j)' = {p}
    BY <2>1
  <2>5. h <= njobs /\ \E p : Places(h)' = {p}
    BY <1>8, <2>3, Zenon
  <2>6. njobs' = njobs
    BY <1>1
  <2> QED
    BY <1>2, <2>4, <2>5, <2>6, JobMoved, Zenon
<1>13. Answers'
  <2>1. \A i \in DOMAIN queue' : \E l \in DOMAIN queue : queue'[i] = queue[l]
    BY <1>3, <1>5, JobsRemoved
  <2> QED
    BY <1>1, <1>2, <1>4, <2>1 DEF Answers
<1>14. Outstanding'
  <2>1. Busy' = Busy \ {r} /\ r \in Busy
    BY ReapFromSlave
  <2>2. IsFiniteSet(Jobs \ reaped) /\ IsFiniteSet(Busy) /\ Cardinality(Busy) \in Nat
    BY BusyTyped, JobsFinite DEF PoolInv
  <2>3. (Jobs \ reaped)' = (Jobs \ reaped) \ {h}
    BY <1>1, <1>3, <1>6 DEF Jobs
  <2>4. /\ Cardinality(Busy') = Cardinality(Busy) - 1
        /\ Cardinality((Jobs \ reaped)') = Cardinality(Jobs \ reaped) - 1
    BY <1>11, <2>1, <2>2, <2>3, OneLess
  <2>5. Cardinality(Jobs \ reaped) = Cardinality(Busy)
    BY <1>2, <1>4, <2>2 DEF Outstanding
  <2> QED
    BY <1>4, <2>2, <2>4, <2>5 DEF Outstanding
<1>15. Stopping' /\ SelfAllowed'
  BY <1>1, <1>2, <1>4 DEF Stopping, SelfAllowed
<1>16. reaped' \subseteq Jobs'
  BY <1>1, <1>2, <1>3, <1>6, <1>11 DEF Jobs
<1>17. JobInv'
  BY <1>1, <1>12, <1>13, <1>14, <1>15, <1>16 DEF JobInv
<1> QED
  BY <1>3, <1>6, <1>11, <1>17

LEMMA ReapFromSelfJob ==
  ASSUME PoolInv, JobInv, Reap, slave = Self
  PROVE  JobInv' /\ \E h \in Jobs \ reaped : reaped' = reaped \cup {h}
<1>1. /\ pc = "freap" /\ pc' = "active" /\ state = 1 /\ reaped' = reaped \cup {jobo}
      /\ UNCHANGED <<state, slave, njobs, nmax, self, jobo, collected, queue, toSlave, toMaster,
                     fwork>>
  BY DEF Reap, PoolInv, Where, args, counters, Self, Slaves
<1>2. Placed /\ Answers /\ Outstanding /\ SelfAllowed /\ reaped \subseteq Jobs
  BY <1>1 DEF JobInv
<1>3. SelfToReap /\ ~SelfToReap' /\ ~Closing /\ ~Closing'
  BY <1>1 DEF SelfToReap, Closing
<1>4. PICK h \in Nat : h = jobo /\ h # 0 /\ h \in Jobs /\ njobs \in Nat
  BY <1>2, <1>3 DEF SelfAllowed, Jobs, PoolInv, TypeOK
<1>5. Self \in InSelf(h)
  BY <1>3, <1>4 DEF InSelf
<1>6. /\ h <= njobs /\ InTo(h) = {} /\ InWork(h) = {} /\ InFrom(h) = {}
      /\ InQueue(h) = {} /\ InReaped(h) = {}
  BY <1>2, <1>4, <1>5, Alone
<1>7. \A j : UNCHANGED <<InTo(j), InWork(j), InFrom(j), InQueue(j)>>
  BY <1>1 DEF InTo, InWork, InFrom, InQueue
<1>8. \A j : InSelf(j)' = {} /\ (j # h => InSelf(j) = {})
  BY <1>3, <1>4 DEF InSelf
<1>9. h \in Jobs \ reaped
  BY <1>4, <1>6 DEF InReaped
<1>10. Placed'
  <2>1. ASSUME NEW j \in Nat \ {0}, j # h PROVE Places(j)' = Places(j)
    <3>1. InReaped(j)' = InReaped(j)
      BY <1>1, <1>4, <2>1 DEF InReaped
    <3> QED
      BY <1>7, <1>8, <2>1, <3>1, PlacesSame
  <2>2. Places(h)' = Spots({}, {}, {}, {}, {}, {Self})
    <3>1. InReaped(h)' = {Self}
      BY <1>1, <1>4 DEF InReaped
    <3> QED
      BY <1>6, <1>7, <1>8, <3>1, PlacesAre
  <2>3. Places(h)' = {<<"reaped", Self>>}
    BY <2>2, SpotsOne
  <2>4. \A j \in Nat \ {0} : j # h => Places(j)' = Places(j)
    BY <2>1
  <2>5. h <= njobs /\ \E p : Places(h)' = {p}
    BY <1>6, <2>3, Zenon
  <2>6. njobs' = njobs
    BY <1>1
  <2> QED
    BY <1>2, <2>4, <2>5, <2>6, JobMoved, Zenon
<1>11. Answers' /\ Stopping' /\ SelfAllowed'
  BY <1>1, <1>2, <1>3 DEF Answers, Stopping, SelfAllowed
<1>12. Outstanding'
  <2>1. Busy' = Busy
    BY <1>1, QuietKeeps
  <2>2. IsFiniteSet(Jobs \ reaped) /\ Cardinality(Busy) \in Nat
    BY BusyTyped, JobsFinite DEF PoolInv
  <2>3. (Jobs \ reaped)' = (Jobs \ reaped) \ {h}
    BY <1>1, <1>4 DEF Jobs
  <2>4. Cardinality((Jobs \ reaped)') = Cardinality(Jobs \ reaped) - 1
    BY <1>9, <2>2, <2>3, OneLess
  <2>5. Cardinality(Jobs \ reaped) = Cardinality(Busy) + 1
    BY <1>2, <1>3, <2>2 DEF Outstanding
  <2> QED
    BY <1>3, <2>1, <2>2, <2>4, <2>5 DEF Outstanding
<1>13. reaped' \subseteq Jobs'
  BY <1>1, <1>2, <1>4 DEF Jobs
<1>14. JobInv'
  BY <1>1, <1>10, <1>11, <1>12, <1>13 DEF JobInv
<1> QED
  BY <1>1, <1>4, <1>9, <1>14

LEMMA ReapJob ==
  ASSUME PoolInv, JobInv, Reap
  PROVE  JobInv' /\ \E h \in Jobs \ reaped : reaped' = reaped \cup {h}
<1>1. slave = Self \/ slave \in Slaves
  BY DEF Reap, PoolInv, Where
<1> QED
  BY <1>1, ReapFromSelfJob, ReapFromSlaveJob

LEMMA CollectJob ==
  ASSUME PoolInv, JobInv, Collect PROVE JobInv'
<1>1. /\ pc = "collect" /\ collected' = collected + 1
      /\ pc' = IF collected + 1 = NSlaves THEN "done" ELSE "collect"
      /\ UNCHANGED <<state, njobs, nmax, jobo, toSlave, toMaster, fwork, reaped>>
  BY DEF Collect, args, counters
<1>2. PICK k \in DOMAIN queue : queue' = RemoveAt(queue, k)
  BY DEF Collect, Oldest, Queued
<1>3. Closing /\ Closing' /\ Placed /\ Answers /\ Outstanding /\ Stopping /\ SelfAllowed
  BY <1>1 DEF JobInv, Closing
<1>4. reaped = Jobs /\ state = 20 /\ njobs \in Nat
  BY <1>3 DEF Outstanding, PoolInv, TypeOK
<1>5. ~SelfToReap /\ ~SelfToReap' /\ SelfToReap' = SelfToReap /\ Closing' = Closing
  BY <1>1, <1>4 DEF SelfToReap, Closing
<1>6. \A j \in Nat \ {0} : j <= njobs /\ queue[k].job = j => InQueue(j) = {}
  <2>1. ASSUME NEW j \in Nat \ {0}, j <= njobs PROVE InQueue(j) = {}
    <3>1. Self \in InReaped(j)
      BY <1>4, <2>1 DEF InReaped, Jobs
    <3> QED
      BY <1>3, <1>4, <3>1, Alone
  <2> QED
    BY <2>1
<1>7. Placed' /\ Answers'
  BY <1>1, <1>2, <1>3, <1>5, <1>6, NoJobTaken
<1>8. collected \in Nat /\ collected < NSlaves /\ NSlaves \in Nat
  BY <1>1, SlavesAssumption DEF PoolInv, Where, TypeOK
<1>9. Stopping'
  <2>1. ASSUME NEW s \in Slaves
        PROVE  /\ Load(s)' = (IF s <= collected + 1 THEN 0 ELSE 1)
               /\ toSlave'[s] = <<>> => fwork'[s] = Stopped
    <3>1. Load(s)' = IF collected + 1 = s THEN Load(s) - 1 ELSE Load(s)
      BY CollectKeeps
    <3>2. /\ Load(s) = (IF s <= collected THEN 0 ELSE 1)
          /\ toSlave[s] = <<>> => fwork[s] = Stopped
      BY <1>3 DEF Stopping
    <3>3. s \in Nat
      BY DEF Slaves
    <3> QED
      BY <1>1, <1>8, <3>1, <3>2, <3>3
  <2> QED
    BY <1>1, <2>1 DEF Stopping
<1>10. Outstanding' /\ SelfAllowed'
  BY <1>1, <1>3, <1>4, <1>5 DEF Outstanding, SelfAllowed, Jobs
<1>11. pc' = "done" => collected' = NSlaves
  BY <1>1
<1> QED
  BY <1>1, <1>4, <1>7, <1>9, <1>10, <1>11 DEF JobInv, Jobs

-----------------------------------------------------------------------------
(* The invariant and what follows from it. *)

LEMMA JobInit == ASSUME Init PROVE JobInv
<1>1. /\ pc = "active" /\ state = 1 /\ njobs = 0 /\ queue = <<>>
      /\ toSlave = [s \in Slaves |-> <<>>] /\ toMaster = [r \in Ranks |-> <<>>]
      /\ fwork = [s \in Slaves |-> 0] /\ reaped = {}
  BY DEF Init, Waiting
<1>2. nmax >= 1
  BY SlavesAssumption, ArgsAssumption DEF Init, Nmax, Smaller
<1>3. ~SelfToReap /\ ~Closing
  BY <1>1 DEF SelfToReap, Closing
<1>4. Placed
  <2>1. ASSUME NEW j \in Nat \ {0} PROVE Places(j) = {}
    <3>1. /\ InTo(j) = {} /\ InWork(j) = {} /\ InFrom(j) = {}
          /\ InQueue(j) = {} /\ InSelf(j) = {} /\ InReaped(j) = {}
      BY <1>1, <1>3, RangeNone DEF InTo, InWork, InFrom, InQueue, InSelf, InReaped, Ranks
    <3> QED
      BY <3>1, PlacesAre, SpotsOne
  <2> QED
    BY <1>1, <2>1 DEF Placed
<1>5. Answers /\ Stopping /\ SelfAllowed
  BY <1>1, <1>2, <1>3 DEF Answers, Stopping, SelfAllowed, Ranks
<1>6. Outstanding
  <2>1. Jobs \ reaped = {}
    BY <1>1 DEF Jobs
  <2>2. \A s \in Slaves : Load(s) = 0
    <3>1. ASSUME NEW s \in Slaves PROVE Load(s) = 0
      <4>1. Queued(s) = {}
        BY <1>1 DEF Queued
      <4>2. Cardinality(Queued(s)) = 0
        BY <4>1, FS_EmptySet
      <4>3. Len(toSlave[s]) = 0 /\ Len(toMaster[s]) = 0 /\ AtHand(s) = 0
        BY <1>1 DEF AtHand, Ranks
      <4> QED
        BY <4>2, <4>3 DEF Load
    <3> QED
      BY <3>1
  <2>3. Busy = {}
    BY <2>2 DEF Busy
  <2>4. Cardinality(Busy) = 0 /\ Cardinality(Jobs \ reaped) = 0
    BY <2>1, <2>3, FS_EmptySet
  <2> QED
    BY <1>3, <2>4 DEF Outstanding
<1> QED
  BY <1>1, <1>4, <1>5, <1>6 DEF JobInv

LEMMA StutterJob ==
  ASSUME PoolInv, JobInv, UNCHANGED vars PROVE JobInv'
<1>1. /\ UNCHANGED Still /\ UNCHANGED <<pc, queue, toSlave, toMaster, fwork>>
  BY DEF vars, args, master, counters, Still
<1>2. CASE pc = "error"
  BY <1>1, <1>2, ErrorStays DEF Still
<1>3. CASE pc # "error"
  <2>1. Placed /\ Answers /\ Stopping
    BY <1>3 DEF JobInv
  <2>2. Placed'
    <3>1. ASSUME NEW j \in Nat \ {0} PROVE Places(j)' = Places(j)
      <4>1. UNCHANGED <<InTo(j), InWork(j), InFrom(j), InQueue(j), InSelf(j), InReaped(j)>>
        BY <1>1 DEF InTo, InWork, InFrom, InQueue, InSelf, InReaped, SelfToReap, Still
      <4> QED
        BY <4>1, PlacesSame
    <3>2. \A j \in Nat \ {0} : Places(j)' = Places(j)
      BY <3>1
    <3> QED
      BY <1>1, <2>1, <3>2 DEF Placed, Still
  <2>3. Moves
    BY <1>1, QuietKeeps DEF Moves
  <2>4. Answers'
    BY <1>1, <2>1 DEF Answers, Closing
  <2>5. Stopping'
    BY <1>1, <2>1, <2>3 DEF Stopping, Moves, Closing, Still
  <2> QED
    BY <1>1, <1>3, <2>2, <2>3, <2>4, <2>5, MovedJobs DEF Still
<1> QED
  BY <1>2, <1>3

LEMMA JobStep == PoolInv /\ JobInv /\ [Next]_vars => JobInv'
<1> SUFFICES ASSUME PoolInv, JobInv, [Next]_vars PROVE JobInv'
  OBVIOUS
<1>1. ASSUME Master PROVE JobInv'
  BY <1>1, ActiveJob, ProbeReturnsJob, ScanReturnsJob, SowJob, SowNoneJob, ReapJob, CollectJob,
     EnqueueJob DEF Master
<1>2. ASSUME NEW s \in Slaves, Slave(s) PROVE JobInv'
  BY <1>2, SlaveReceivesJob, SlaveSendsJob DEF Slave
<1>3. ASSUME NEW f \in Foreign, ForeignSends(f) \/ UserReceives(f) PROVE JobInv'
  BY <1>3, ForeignSendsJob, UserReceivesJob
<1> QED
  BY <1>1, <1>2, <1>3, StutterJob DEF Next, Ended

LEMMA JobInvariant == Spec => [](PoolInv /\ JobInv)
<1>1. PoolInv /\ JobInv /\ [Next]_vars => PoolInv' /\ JobInv'
  BY PoolStep, JobStep
<1>2. Init => PoolInv /\ JobInv
  BY PoolInit, JobInit
<1> QED
  BY <1>1, <1>2, PTL DEF Spec

\* No job is lost, done twice or assimilated twice, whatever order the results
\* come in, for any number of slaves and jobs (mpool: "the master calls the
\* FREAP function to assimilate the result of one job").
THEOREM EachJobOnce == Spec => []JobOnce
<1>1. ASSUME PoolInv, JobInv PROVE JobOnce
  <2>1. ASSUME pc # "error", NEW j \in 1 .. njobs PROVE Cardinality(Places(j)) = 1
    <3>1. j \in Nat \ {0} /\ j <= njobs
      BY <1>1, <2>1 DEF PoolInv, TypeOK
    <3>2. PICK p : Places(j) = {p}
      BY <1>1, <2>1, <3>1 DEF JobInv, Placed
    <3> QED
      BY <3>2, FS_Singleton
  <2>2. reaped \subseteq 1 .. njobs
    BY <1>1 DEF JobInv, Jobs
  <2> QED
    BY <2>1, <2>2 DEF JobOnce
<1> QED
  BY <1>1, JobInvariant, PTL

\* When mpool returns, all jobs have been assimilated, all slaves have left the
\* pool, and no message of theirs is under way or in the queue.
THEOREM CleanReturn == Spec => []NothingLeft
<1>1. ASSUME PoolInv, JobInv PROVE NothingLeft
  <2>1. ASSUME pc = "done", NEW s \in Slaves PROVE fwork[s] = Stopped /\ Load(s) = 0
    <3>1. Closing /\ Stopping /\ collected = NSlaves
      BY <1>1, <2>1 DEF JobInv, Closing
    <3>2. s <= collected
      BY <3>1, SlavesAssumption DEF Slaves
    <3>3. Load(s) = 0 /\ (toSlave[s] = <<>> => fwork[s] = Stopped)
      BY <3>1, <3>2 DEF Stopping
    <3> QED
      BY <1>1, <3>3, OneOnly
  <2>2. pc = "done" => reaped = 1 .. njobs
    BY <1>1 DEF JobInv, Outstanding, Closing, Jobs
  <2> QED
    BY <2>1, <2>2 DEF NothingLeft
<1> QED
  BY <1>1, JobInvariant, PTL

-----------------------------------------------------------------------------
(* mpool implements the pool of JobPool. *)

\* A step that JobPool does not see.
LEMMA Silent ==
  ASSUME UNCHANGED <<nmax, self, njobs, reaped>>, state' = 20 <=> state = 20,
         pc' = "done" <=> pc = "done"
  PROVE  UNCHANGED Pool!vars
<1>1. (state' # 20) = (state # 20) /\ (pc' = "done") = (pc = "done")
  OBVIOUS
<1> QED
  BY <1>1 DEF Pool!vars

LEMMA DecisionSilent ==
  ASSUME PoolInv, Active \/ ProbeReturns \/ ScanReturns PROVE UNCHANGED Pool!vars
<1>1. UNCHANGED <<nmax, self, reaped>> /\ pc \in {"active", "probe", "scan"}
  BY DEF Active, ProbeReturns, ScanReturns, args
<1>2. SowAnother /\ state # 20 => UNCHANGED njobs /\ state' # 20 /\ pc' # "done"
  BY DEF SowAnother
<1>3. ASSUME NEW i, Ready(i)
      PROVE  UNCHANGED njobs /\ (state' = 20 <=> state = 20) /\ pc' # "done"
  BY <1>3 DEF Ready
<1>4. Scan => UNCHANGED njobs /\ (state' = 20 <=> state = 20) /\ pc' # "done"
  BY <1>2, <1>3 DEF Scan, Blocking
<1>5. UNCHANGED njobs /\ (state' = 20 <=> state = 20) /\ pc' # "done"
  <2>1. CASE Active
    BY <1>2, <2>1 DEF Active, ActiveAny, ActiveReaped, ActiveSelf, ActiveNoMore, counters
  <2>2. CASE ProbeReturns
    BY <1>2, <1>4, <2>2 DEF ProbeReturns, Blocking
  <2>3. CASE ScanReturns
    BY <1>4, <2>3 DEF ScanReturns
  <2> QED
    BY <2>1, <2>2, <2>3
<1> QED
  BY <1>1, <1>5, Silent

\* There is room for one more job when FSOW is called.
LEMMA Room ==
  ASSUME PoolInv, JobInv, pc = "fsow"
  PROVE  Cardinality(Jobs \ reaped) < nmax + (IF self THEN 1 ELSE 0)
<1>1. Outstanding /\ SelfAllowed /\ Counted
  BY DEF JobInv, PoolInv
<1>2. /\ ~SelfToReap /\ ~Closing /\ ~Released
      /\ nactive <= nmax /\ nactive \in Nat /\ nmax \in Nat /\ nmax >= 1 /\ self \in BOOLEAN
      /\ Cardinality(Busy) \in Nat
  <2>1. ~SelfToReap /\ ~Closing /\ ~Released
    BY DEF SelfToReap, Closing, Released, PoolInv, Where
  <2>2. nused <= nmax /\ nactive <= nused /\ nactive \in Nat /\ nused \in Nat /\ nmax \in Nat
    BY DEF PoolInv, TypeOK
  <2>3. self \in BOOLEAN /\ nmax >= 1
    BY <1>1 DEF PoolInv, TypeOK, SelfAllowed
  <2> QED
    BY <2>1, <2>2, <2>3, BusyTyped DEF PoolInv
<1>3. Cardinality(Jobs \ reaped) = Cardinality(Busy)
  BY <1>1, <1>2 DEF Outstanding
<1>4. nactive = Cardinality(Busy) + (IF slave # Self THEN 1 ELSE 0)
  BY <1>1, <1>2 DEF Counted, Promised
<1>5. slave = Self => self \/ nactive = 0
  BY <1>1 DEF SelfAllowed
<1> QED
  BY <1>2, <1>3, <1>4, <1>5

\* JobPool counts as MPool does.
LEMMA SameCount == \A S : Pool!Cardinality(S) = Cardinality(S)
  BY Zenon DEF Pool!Cardinality, Cardinality

LEMMA SowHands ==
  ASSUME PoolInv, JobInv, Sow PROVE Pool!Hand
<1>1. /\ pc = "fsow" /\ pc' # "done" /\ state # 20 /\ state' # 20 /\ njobs' = njobs + 1
      /\ UNCHANGED <<nmax, self, reaped>>
  BY DEF Sow, PoolInv, Where, args
<1>2. njobs \in Nat /\ reaped \subseteq Jobs
  BY DEF PoolInv, TypeOK, JobInv
<1>3. Cardinality(Jobs \ reaped) < nmax + (IF self THEN 1 ELSE 0)
  BY <1>1, Room
<1>4. Cardinality((Jobs \ reaped) \cup reaped) = njobs
  <2>1. (Jobs \ reaped) \cup reaped = Jobs
    BY <1>2
  <2> QED
    BY <2>1, JobsFinite
<1>5. (1 .. njobs') \ reaped' = (Jobs \ reaped) \cup {njobs + 1}
  BY <1>1, <1>2, JobsFinite
<1>6. (state' # 20) = (state # 20) /\ (pc' = "done") = (pc = "done")
  BY <1>1
<1>7. (1 .. njobs') \ reaped' =
        (1 .. njobs \ reaped) \cup {Cardinality((1 .. njobs \ reaped) \cup reaped) + 1}
  BY <1>4, <1>5 DEF Jobs
<1>8. state # 20 /\ Cardinality(1 .. njobs \ reaped) < nmax + (IF self THEN 1 ELSE 0)
  BY <1>1, <1>3 DEF Jobs
<1>9. UNCHANGED <<nmax + (IF self THEN 1 ELSE 0), state # 20, reaped, pc = "done">>
  BY <1>1, <1>6
<1>10. /\ state # 20 /\ Pool!Cardinality(1 .. njobs \ reaped) < nmax + (IF self THEN 1 ELSE 0)
       /\ (1 .. njobs') \ reaped' =
            (1 .. njobs \ reaped) \cup {Pool!Cardinality((1 .. njobs \ reaped) \cup reaped) + 1}
  BY <1>7, <1>8, SameCount, Zenon
<1> QED
  BY <1>9, <1>10, Zenon DEF Pool!Hand

LEMMA PoolRefines ==
  ASSUME PoolInv, JobInv, [Next]_vars PROVE [Pool!Next]_(Pool!vars)
<1>1. CASE Active \/ ProbeReturns \/ ScanReturns
  BY <1>1, DecisionSilent
<1>2. CASE Sow
  BY <1>2, SowHands DEF Pool!Next
<1>3. CASE SowNone
  <2>1. /\ state # 20 /\ state' = 20 /\ pc # "done" /\ pc' # "done"
        /\ UNCHANGED <<nmax, self, njobs, reaped>>
    BY <1>3 DEF SowNone, PoolInv, Where, args
  <2>2. (state' # 20) = FALSE /\ (pc' = "done") = (pc = "done")
    BY <2>1
  <2>3. Pool!Close
    BY <2>1, <2>2 DEF Pool!Close
  <2> QED
    BY <2>3 DEF Pool!Next
<1>4. CASE Reap
  <2>1. /\ pc # "done" /\ pc' # "done" /\ UNCHANGED <<nmax, self, njobs, state>>
    BY <1>4 DEF Reap, args, counters
  <2>2. PICK h \in Jobs \ reaped : reaped' = reaped \cup {h}
    BY <1>4, ReapJob
  <2>3. (1 .. njobs') \ reaped' = (Jobs \ reaped) \ {h}
    BY <2>1, <2>2 DEF Jobs
  <2>4. (state' # 20) = (state # 20) /\ (pc' = "done") = (pc = "done")
    BY <2>1
  <2>5. Pool!Assimilate(h)
    BY <2>1, <2>2, <2>3, <2>4 DEF Pool!Assimilate, Jobs
  <2> QED
    BY <2>2, <2>5 DEF Pool!Next, Jobs
<1>5. CASE Collect
  <2>1. pc = "collect" /\ UNCHANGED <<nmax, self, njobs, reaped, state>>
    BY <1>5 DEF Collect, args, counters
  <2>2. CASE pc' = "done"
    <3>1. reaped = Jobs /\ state = 20
      BY <2>1 DEF JobInv, Outstanding, Closing
    <3>2. Jobs \ reaped = {} /\ (pc' = "done") = TRUE
      BY <2>2, <3>1
    <3>3. (state' # 20) = (state # 20) /\ 1 .. njobs' = Jobs
      BY <2>1 DEF Jobs
    <3>4. Pool!End
      BY <2>1, <2>2, <3>1, <3>2, <3>3 DEF Pool!End, Jobs
    <3> QED
      BY <3>4 DEF Pool!Next
  <2>3. CASE pc' # "done"
    BY <2>1, <2>3, Silent
  <2> QED
    BY <2>2, <2>3
<1>6. CASE \E r \in Ranks : Enqueue(r)
  <2>1. UNCHANGED <<nmax, self, njobs, reaped, state>> /\ (pc' = "done" <=> pc = "done")
    BY <1>6 DEF Enqueue, args, counters
  <2> QED
    BY <2>1, Silent
<1>7. CASE \E s \in Slaves : Slave(s)
  <2>1. UNCHANGED <<nmax, self, njobs, reaped, state, pc>>
    BY <1>7 DEF Slave, SlaveReceives, SlaveSends, args, master, counters
  <2> QED
    BY <2>1, Silent
<1>8. CASE \E f \in Foreign : ForeignSends(f) \/ UserReceives(f)
  <2>1. UNCHANGED <<nmax, self, njobs, reaped, state, pc>>
    BY <1>8 DEF ForeignSends, UserReceives, args, master, counters
  <2> QED
    BY <2>1, Silent
<1>9. CASE UNCHANGED vars
  <2>1. UNCHANGED <<nmax, self, njobs, reaped, state, pc>>
    BY <1>9 DEF vars, args, master, counters
  <2> QED
    BY <2>1, Silent
<1> QED
  BY <1>1, <1>2, <1>3, <1>4, <1>5, <1>6, <1>7, <1>8, <1>9 DEF Next, Master, Ended

LEMMA PoolInitRefines ==
  ASSUME Init PROVE Pool!Init
<1>1. njobs = 0 /\ reaped = {} /\ state = 1 /\ pc = "active"
  BY DEF Init
<1>2. nmax \in Nat /\ self \in BOOLEAN
  BY SlavesAssumption, ArgsAssumption DEF Init, Nmax, Smaller
<1>3. nmax + (IF self THEN 1 ELSE 0) \in Nat
  BY <1>2
<1>4. (1 .. njobs) \ reaped = {} /\ (state # 20) = TRUE /\ (pc = "done") = FALSE
  BY <1>1
<1> QED
  BY <1>1, <1>3, <1>4 DEF Pool!Init

\* What mpool does is what JobPool promises its caller: jobs handed out one by
\* one, never more than there are workers, each assimilated once, and the pool
\* ends when all are (mpool.i: "the whole cycle repeats until FSOW signals there
\* are no more jobs").
THEOREM PoolCorrect == Spec => PoolSpec
<1>1. Init => Pool!Init
  BY PoolInitRefines
<1>2. PoolInv /\ JobInv /\ [Next]_vars => [Pool!Next]_(Pool!vars)
  BY PoolRefines
<1> QED
  BY <1>1, <1>2, JobInvariant, PTL DEF Spec, PoolSpec, Pool!Spec

-----------------------------------------------------------------------------
(* The third part: what does not belong to the pool.                       *)

LEMMA OthersStay ==
  ASSUME queue \in Seq(Entry), queue' = queue
  PROVE  Carried
<1>1. Others' = Others /\ \A i \in Others : i \in Nat
  BY LenProperties DEF Others
<1> DEFINE to == [i \in Others |-> i]
<1>2. to \in [Others -> Others'] /\ \A i \in Others : to[i] = i /\ i \in Range(to)
  BY <1>1 DEF Range
<1> HIDE DEF to
<1> QED
  BY <1>1, <1>2 DEF Carried

LEMMA OthersAppended ==
  ASSUME queue \in Seq(Entry), NEW e \in Entry, queue' = Append(queue, e)
  PROVE  Carried
<1>1. Len(queue) \in Nat /\ DOMAIN queue = 1..Len(queue)
  BY LenProperties
<1>2. /\ DOMAIN queue' = 1..(Len(queue) + 1)
      /\ \A i \in 1..Len(queue) : queue'[i] = queue[i]
  <2>1. Append(queue, e) \in Seq(Entry) /\ Len(Append(queue, e)) = Len(queue) + 1
    BY AppendProperties
  <2>2. DOMAIN Append(queue, e) = 1..(Len(queue) + 1)
    BY <2>1, LenProperties
  <2> QED
    BY <1>1, <2>2, AppendProperties
<1>3. \A i \in Others : i \in 1..Len(queue) /\ i \in Others'
  BY <1>1, <1>2 DEF Others
<1>4. \A k \in Others' : k \in Others \/ k = Len(queue) + 1
  BY <1>1, <1>2 DEF Others
<1> DEFINE to == [i \in Others |-> i]
<1>5. to \in [Others -> Others'] /\ \A i \in Others : to[i] = i /\ i \in Range(to)
  BY <1>3 DEF Range
<1> HIDE DEF to
<1>6. \A k \in Others' : k \in Range(to) \/ \A i \in Others : to[i] < k
  BY <1>1, <1>3, <1>4, <1>5
<1> QED
  BY <1>2, <1>3, <1>5, <1>6 DEF Carried

LEMMA OthersPassed ==
  ASSUME queue \in Seq(Entry), NEW p \in DOMAIN queue, queue[p].from \notin Foreign,
         queue' = RemoveAt(queue, p)
  PROVE  Carried
<1>1. Len(queue) \in Nat /\ DOMAIN queue = 1..Len(queue) /\ p \in 1..Len(queue)
  BY LenProperties
<1>2. /\ DOMAIN queue' = 1..(Len(queue) - 1)
      /\ \A i \in 1..(Len(queue) - 1) : queue'[i] = IF i < p THEN queue[i] ELSE queue[i + 1]
  <2> DEFINE d == RemoveAt(queue, p)
  <2>1. /\ d \in Seq(Entry) /\ Len(d) = Len(queue) - 1
        /\ \A i \in 1..(Len(queue) - 1) : d[i] = IF i < p THEN queue[i] ELSE queue[i + 1]
    BY <1>1, RemoveAtProperties
  <2>2. DOMAIN d = 1..(Len(queue) - 1)
    BY <2>1, LenProperties
  <2> QED
    BY <2>1, <2>2
<1>3. \A i \in Others : i \in 1..Len(queue) /\ i # p
  BY <1>1 DEF Others
<1> DEFINE to == [i \in Others |-> IF i < p THEN i ELSE i - 1]
<1>4. DOMAIN to = Others /\ \A i \in Others : to[i] = IF i < p THEN i ELSE i - 1
  OBVIOUS
<1>5. ASSUME NEW i \in Others PROVE to[i] \in Others' /\ queue'[to[i]] = queue[i]
  <2>1. to[i] \in 1..(Len(queue) - 1) /\ (IF to[i] < p THEN to[i] = i ELSE to[i] + 1 = i)
    BY <1>1, <1>3
  <2>2. queue'[to[i]] = queue[i]
    BY <1>2, <2>1
  <2> QED
    BY <1>2, <2>1, <2>2 DEF Others
<1>6. to \in [Others -> Others']
  BY <1>4, <1>5
<1>7. \A i, j \in Others : i < j => to[i] < to[j]
  BY <1>1, <1>3, <1>4
<1>8. ASSUME NEW k \in Others' PROVE k \in Range(to)
  <2>1. k \in 1..(Len(queue) - 1) /\ queue'[k].from \in Foreign
    BY <1>2 DEF Others
  <2> DEFINE i == IF k < p THEN k ELSE k + 1
  <2>2. i \in 1..Len(queue) /\ queue'[k] = queue[i] /\ (IF i < p THEN k = i ELSE k = i - 1)
    BY <1>1, <1>2, <2>1
  <2> HIDE DEF i
  <2>3. i \in Others
    BY <1>1, <2>1, <2>2 DEF Others
  <2>4. to[i] = k
    BY <1>4, <2>2, <2>3
  <2> QED
    BY <1>4, <2>3, <2>4 DEF Range
<1> QED
  BY <1>5, <1>6, <1>7, <1>8 DEF Carried

\* No step of the pool takes a message of a rank outside it from the queue or
\* moves it behind another one, whatever it waits for (_mpool_ready, FREAP,
\* the receipt of the timings), for any number of slaves, jobs and messages.
THEOREM OthersLeftAlone == Spec => OthersKept
<1>1. PoolInv /\ [Next]_vars => [taken' = taken => Carried]_vars
  <2> SUFFICES ASSUME PoolInv, [Next]_vars, taken' = taken PROVE Carried
    OBVIOUS
  <2>1. queue \in Seq(Entry) /\ taken \in Nat /\ collected \in Nat
    BY DEF PoolInv, TypeOK
  <2>2. CASE queue' = queue
    BY <2>1, <2>2, OthersStay
  <2>3. ASSUME NEW r \in 0..NSlaves, NEW p \in Oldest(r), queue' = RemoveAt(queue, p)
        PROVE  Carried
    <3>1. p \in DOMAIN queue /\ queue[p].from = r
      BY DEF Oldest, Queued
    <3>2. r \notin Foreign
      BY ForeignAssumption
    <3> QED
      BY <2>1, <2>3, <3>1, <3>2, OthersPassed
  <2>4. CASE \E r \in Ranks : Enqueue(r)
    <3>1. PICK r \in Ranks : Enqueue(r)
      BY <2>4
    <3>2. queue' = Append(queue, [from |-> r, job |-> Head(toMaster[r])])
      BY <3>1 DEF Enqueue
    <3>3. toMaster[r] \in Seq(Nat) /\ toMaster[r] # <<>>
      BY <3>1 DEF Enqueue, PoolInv, TypeOK
    <3>4. Head(toMaster[r]) \in Nat
      BY <3>3, HeadTailProperties
    <3>5. [from |-> r, job |-> Head(toMaster[r])] \in Entry
      BY <3>4 DEF Entry
    <3> QED
      BY <2>1, <3>2, <3>5, OthersAppended
  <2>5. CASE Reap
    <3>1. CASE slave = Self
      BY <2>2, <2>5, <3>1 DEF Reap
    <3>2. CASE slave # Self
      <4>1. slave \in Slaves
        BY <2>5, <3>2 DEF Reap, PoolInv, Where
      <4>2. slave \in 0..NSlaves
        BY <4>1, SlavesAssumption DEF Slaves
      <4>3. \E p \in Oldest(slave) : queue' = RemoveAt(queue, p)
        BY <2>5, <3>2 DEF Reap
      <4> QED
        BY <2>3, <4>2, <4>3
    <3> QED
      BY <3>1, <3>2
  <2>6. CASE Collect
    <3>1. collected < NSlaves /\ \E p \in Oldest(collected + 1) : queue' = RemoveAt(queue, p)
      BY <2>6 DEF Collect, PoolInv, Where
    <3>2. collected + 1 \in 0..NSlaves
      BY <2>1, <3>1, SlavesAssumption
    <3> QED
      BY <2>3, <3>1, <3>2
  <2>7. CASE \E f \in Foreign : UserReceives(f)
    <3>1. taken' = taken + 1
      BY <2>7 DEF UserReceives
    <3> QED
      BY <2>1, <3>1
  <2>8. CASE \/ Active \/ ProbeReturns \/ ScanReturns \/ Sow \/ SowNone
             \/ (\E s \in Slaves : Slave(s)) \/ (\E f \in Foreign : ForeignSends(f))
             \/ UNCHANGED vars
    <3>1. queue' = queue
      BY <2>8 DEF Active, ActiveAny, ActiveReaped, ActiveSelf, ActiveNoMore, ProbeReturns,
                  ScanReturns, Sow, SowNone, Slave, SlaveReceives, SlaveSends, ForeignSends, vars
    <3> QED
      BY <2>2, <3>1
  <2> QED
    BY <2>4, <2>5, <2>6, <2>7, <2>8 DEF Next, Master, Ended
<1> QED
  BY <1>1, PoolInvariant, PTL DEF Spec, OthersKept
=============================================================================
