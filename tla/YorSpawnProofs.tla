--------------------------- MODULE YorSpawnProofs ---------------------------
(***************************************************************************)
(* For any number of processes, and whatever they write: the tables of     *)
(* play and of the interpreter agree on the processes (until a freed       *)
(* record is used that was overwritten, which Recycles may allow), and     *)
(* on_stdout is asked to be called in order.                               *)
(*                                                                         *)
(* The order needs an invariant of its own: as long as a process is        *)
(* linked, what was pushed for it and what is in its pipe are together     *)
(* what it wrote (Conserved); and that only one place of each table is     *)
(* given up when a process ends needs the tables to agree.                 *)
(***************************************************************************)
EXTENDS YorSpawn, ListFacts

Entry == [proc : Procs, revents : BOOLEAN]

\* A process that was not spawned has left no trace, and of one that is linked
\* the interpreter was given the first chunks and the pipe holds the rest.
Fresh ==
  \A p \in Procs : os[p] = "none" =>
    p \notin linked /\ pushed[p] = <<>> /\ pipe[p] = <<>> /\ wrote[p] = 0

Conserved ==
  \A p \in linked :
    /\ \A k \in 1..Len(pushed[p]) : pushed[p][k] = k
    /\ wrote[p] = Len(pushed[p]) + Len(pipe[p])
    /\ \A k \in 1..Len(pipe[p]) : pipe[p][k] = Len(pushed[p]) + k

SpawnInv == TypeOK /\ Agree /\ Fresh /\ Conserved /\ PushedInOrder

-----------------------------------------------------------------------------
(* The two tables. *)

\* The processes in the event table, and which place each has.
LEMMA TableTypes ==
  ASSUME TypeOK, Agree
  PROVE  /\ Len(table) \in Nat /\ Len(children) \in Nat
         /\ DOMAIN table = 1..Len(table) /\ DOMAIN children = 1..Len(children)
         /\ \A k \in 1..Len(table) : table[k] \in Entry /\ table[k].proc \in linked
         /\ \A k \in 1..Len(children) : children[k] \in linked
         /\ \A p \in linked : \E k \in 1..Len(table) : table[k].proc = p
         /\ \A p \in linked : \E k \in 1..Len(children) : children[k] = p
         /\ linked \subseteq Procs
<1>1. table \in Seq(Entry) /\ children \in Seq(Procs)
  BY DEF TypeOK, Entry
<1>2. /\ Len(table) \in Nat /\ Len(children) \in Nat
      /\ DOMAIN table = 1..Len(table) /\ DOMAIN children = 1..Len(children)
      /\ \A k \in 1..Len(table) : table[k] \in Entry
  BY <1>1, LenProperties, ElementOfSeq
<1>3. /\ {table[k].proc : k \in 1..Len(table)} = linked
      /\ {children[k] : k \in 1..Len(children)} = linked
  BY <1>2 DEF Agree, Listed, ToSet
<1> QED
  BY <1>2, <1>3 DEF TypeOK

\* u_event_src gives up the source of a process: the last entry takes its place.
LEMMA SourceGivenUp ==
  ASSUME TypeOK, Agree, NEW p \in linked
  PROVE  /\ WithoutSource(p) \in Seq(Entry)
         /\ \A i, j \in DOMAIN WithoutSource(p) :
              WithoutSource(p)[i].proc = WithoutSource(p)[j].proc => i = j
         /\ {WithoutSource(p)[i].proc : i \in DOMAIN WithoutSource(p)} = linked \ {p}
<1> DEFINE n == Len(table)
           i == CHOOSE i \in DOMAIN table : table[i].proc = p
           t == [k \in 1..(n - 1) |->
                   IF k = i THEN [proc |-> table[n].proc, revents |-> table[i].revents]
                   ELSE table[k]]
           from(k) == IF k = i THEN n ELSE k
<1>1. WithoutSource(p) = t
  BY DEF WithoutSource
<1>2. i \in 1..n /\ table[i].proc = p /\ n \in Nat
  BY TableTypes
<1>3. \A k \in 1..n : table[k] \in Entry
  BY TableTypes
<1>4. \A k, l \in 1..n : table[k].proc = table[l].proc => k = l
  BY TableTypes DEF Agree
<1>5. {table[k].proc : k \in 1..n} = linked
  BY TableTypes
<1> HIDE DEF i, n
<1>6. t \in Seq(Entry) /\ DOMAIN t = 1..(n - 1)
  <2>1. \A k \in 1..(n - 1) : k \in 1..n /\ n \in 1..n
    BY <1>2
  <2>2. \A k \in 1..(n - 1) : t[k] \in Entry
    BY <2>1, <1>2, <1>3 DEF Entry
  <2>3. n - 1 \in Nat
    BY <1>2
  <2> QED
    BY <2>2, <2>3
<1>7. \A k \in 1..(n - 1) : t[k].proc = table[from(k)].proc
  OBVIOUS
<1>8. \A k \in 1..(n - 1) : from(k) \in 1..n /\ from(k) # i
  BY <1>2
<1>9. \A k, l \in 1..(n - 1) : from(k) = from(l) => k = l
  BY <1>2
<1>10. \A l \in 1..n : l # i => \E k \in 1..(n - 1) : from(k) = l
  <2> SUFFICES ASSUME NEW l \in 1..n, l # i PROVE \E k \in 1..(n - 1) : from(k) = l
    OBVIOUS
  <2>1. CASE l = n
    <3>1. i \in 1..(n - 1) /\ from(i) = l
      BY <2>1, <1>2
    <3> QED
      BY <3>1
  <2>2. CASE l # n
    <3>1. l \in 1..(n - 1) /\ from(l) = l
      BY <2>2, <1>2
    <3> QED
      BY <3>1
  <2> QED
    BY <2>1, <2>2
<1> HIDE DEF t, from
<1>11. \A k, l \in 1..(n - 1) : t[k].proc = t[l].proc => k = l
  BY <1>4, <1>7, <1>8, <1>9
<1>12. \A k \in 1..(n - 1) : t[k].proc \in linked \ {p}
  BY <1>2, <1>4, <1>5, <1>7, <1>8
<1>13. \A q \in linked \ {p} : \E k \in 1..(n - 1) : t[k].proc = q
  <2> SUFFICES ASSUME NEW q \in linked, q # p PROVE \E k \in 1..(n - 1) : t[k].proc = q
    OBVIOUS
  <2>1. PICK l \in 1..n : table[l].proc = q
    BY <1>5
  <2>2. PICK k \in 1..(n - 1) : from(k) = l
    BY <2>1, <1>2, <1>10
  <2> QED
    BY <2>1, <2>2, <1>7
<1>14. {t[k].proc : k \in 1..(n - 1)} = linked \ {p}
  BY <1>12, <1>13
<1> QED
  BY <1>1, <1>6, <1>11, <1>14

\* u_spawf0 takes a process from the list of children.
LEMMA ChildGivenUp ==
  ASSUME TypeOK, Agree, NEW p \in linked
  PROVE  /\ WithoutChild(p) \in Seq(Procs)
         /\ \A i, j \in DOMAIN WithoutChild(p) : WithoutChild(p)[i] = WithoutChild(p)[j] => i = j
         /\ ToSet(WithoutChild(p)) = linked \ {p}
<1> DEFINE n == Len(children)
           i == CHOOSE i \in DOMAIN children : children[i] = p
           c == RemoveAt(children, i)
           from(k) == IF k < i THEN k ELSE k + 1
<1>1. WithoutChild(p) = c
  BY DEF WithoutChild
<1>2. i \in 1..n /\ children[i] = p /\ n \in Nat /\ children \in Seq(Procs)
  BY TableTypes DEF TypeOK
<1>4. \A k, l \in 1..n : children[k] = children[l] => k = l
  BY TableTypes DEF Agree
<1>5. {children[k] : k \in 1..n} = linked
  BY TableTypes
<1> HIDE DEF i
<1>6. /\ c \in Seq(Procs) /\ Len(c) = n - 1
      /\ \A k \in 1..(n - 1) : c[k] = children[from(k)]
  BY <1>2, RemoveAtProperties
<1> HIDE DEF n, c
<1>7. DOMAIN c = 1..(n - 1)
  BY <1>6, LenProperties
<1>8. \A k \in 1..(n - 1) : from(k) \in 1..n /\ from(k) # i
  BY <1>2
<1>9. \A k, l \in 1..(n - 1) : from(k) = from(l) => k = l
  BY <1>2
<1>10. \A l \in 1..n : l # i => \E k \in 1..(n - 1) : from(k) = l
  <2> SUFFICES ASSUME NEW l \in 1..n, l # i PROVE \E k \in 1..(n - 1) : from(k) = l
    OBVIOUS
  <2>1. CASE l < i
    <3>1. l \in 1..(n - 1) /\ from(l) = l
      BY <2>1, <1>2
    <3> QED
      BY <3>1
  <2>2. CASE l > i
    <3>1. l - 1 \in 1..(n - 1) /\ from(l - 1) = l
      BY <2>2, <1>2
    <3> QED
      BY <3>1
  <2> QED
    BY <2>1, <2>2, <1>2
<1> HIDE DEF from
<1>11. \A k, l \in 1..(n - 1) : c[k] = c[l] => k = l
  BY <1>4, <1>6, <1>8, <1>9
<1>12. \A k \in 1..(n - 1) : c[k] \in linked \ {p}
  BY <1>2, <1>4, <1>5, <1>6, <1>8
<1>13. \A q \in linked \ {p} : \E k \in 1..(n - 1) : c[k] = q
  <2> SUFFICES ASSUME NEW q \in linked, q # p PROVE \E k \in 1..(n - 1) : c[k] = q
    OBVIOUS
  <2>1. PICK l \in 1..n : children[l] = q
    BY <1>5
  <2>2. PICK k \in 1..(n - 1) : from(k) = l
    BY <2>1, <1>2, <1>10
  <2> QED
    BY <2>1, <2>2, <1>6
<1>14. ToSet(c) = linked \ {p}
  BY <1>7, <1>12, <1>13 DEF ToSet
<1> QED
  BY <1>1, <1>6, <1>7, <1>11, <1>14

-----------------------------------------------------------------------------
(* What is pushed. *)

Msg == 1..MaxChunks \cup {End}

\* Push adds one call for p and leaves the calls of the others alone.
LEMMA PushAdds ==
  ASSUME TypeOK, NEW p \in Procs, NEW msg \in Msg, Push(p, msg)
  PROVE  /\ tasks' \in Seq([proc : Procs, msg : Msg])
         /\ pushed' \in [Procs -> Seq(Msg)]
         /\ pushed'[p] = Append(pushed[p], msg)
         /\ \A q \in Procs \ {p} : pushed'[q] = pushed[q]
<1>1. tasks \in Seq([proc : Procs, msg : Msg]) /\ pushed \in [Procs -> Seq(Msg)]
  BY DEF TypeOK, Msg
<1>2. Append(pushed[p], msg) \in Seq(Msg)
  BY <1>1, AppendProperties
<1>3. [proc |-> p, msg |-> msg] \in [proc : Procs, msg : Msg]
  OBVIOUS
<1>4. tasks' \in Seq([proc : Procs, msg : Msg])
  BY <1>1, <1>3, AppendProperties DEF Push
<1> QED
  BY <1>1, <1>2, <1>4 DEF Push

\* The last call of a process that is linked has its place after all that was
\* pushed before.
LEMMA EndPushedKeeps ==
  ASSUME SpawnInv, NEW p \in linked, EndPushed(p)
  PROVE  /\ linked' = linked \ {p} /\ callout' = linked'
         /\ tasks' \in Seq([proc : Procs, msg : Msg])
         /\ pushed' \in [Procs -> Seq(Msg)]
         /\ \A q \in Procs \ {p} : pushed'[q] = pushed[q]
         /\ PushedInOrder'
<1>1. p \in Procs /\ p \in callout /\ callout = linked /\ End \in Msg
  BY DEF SpawnInv, TypeOK, Agree, Msg
<1>2. Push(p, End) /\ linked' = linked \ {p} /\ callout' = linked'
  BY <1>1 DEF EndPushed
<1>3. /\ tasks' \in Seq([proc : Procs, msg : Msg])
      /\ pushed' \in [Procs -> Seq(Msg)]
      /\ pushed'[p] = Append(pushed[p], End)
      /\ \A q \in Procs \ {p} : pushed'[q] = pushed[q]
  BY <1>1, <1>2, PushAdds DEF SpawnInv
<1>4. pushed[p] \in Seq(Msg) /\ Len(pushed[p]) \in Nat
  BY <1>1, LenProperties DEF SpawnInv, TypeOK, Msg
<1>5. /\ DOMAIN pushed'[p] = 1..(Len(pushed[p]) + 1)
      /\ Len(pushed'[p]) = Len(pushed[p]) + 1
      /\ \A k \in 1..Len(pushed[p]) : pushed'[p][k] = k
      /\ pushed'[p][Len(pushed[p]) + 1] = End
  <2>1. /\ Append(pushed[p], End) \in Seq(Msg) /\ Len(Append(pushed[p], End)) = Len(pushed[p]) + 1
        /\ \A k \in 1..Len(pushed[p]) : Append(pushed[p], End)[k] = pushed[p][k]
        /\ Append(pushed[p], End)[Len(pushed[p]) + 1] = End
    BY <1>1, <1>4, AppendProperties
  <2>2. \A k \in 1..Len(pushed[p]) : pushed[p][k] = k
    BY DEF SpawnInv, Conserved
  <2>3. DOMAIN Append(pushed[p], End) = 1..(Len(pushed[p]) + 1)
    BY <2>1, LenProperties
  <2> QED
    BY <1>3, <2>1, <2>2, <2>3
<1>6. PushedInOrder'
  <2> SUFFICES ASSUME NEW q \in Procs, NEW k \in DOMAIN pushed'[q], pushed'[q][k] # k
               PROVE  k = Len(pushed'[q]) /\ pushed'[q][k] = End
    BY DEF PushedInOrder
  <2>1. CASE q = p
    <3>1. k \notin 1..Len(pushed[p])
      BY <2>1, <1>5
    <3>2. k = Len(pushed[p]) + 1
      BY <2>1, <3>1, <1>4, <1>5
    <3> QED
      BY <2>1, <3>2, <1>5
  <2>2. CASE q # p
    BY <2>2, <1>3 DEF SpawnInv, PushedInOrder
  <2> QED
    BY <2>1, <2>2
<1> QED
  BY <1>2, <1>3, <1>6

\* One read of a pipe moves its first chunk to the end of what was pushed.
LEMMA CalledOutKeeps ==
  ASSUME SpawnInv, NEW p, CalledOut(p), UNCHANGED <<os, wrote, linked>>
  PROVE  /\ tasks' \in Seq([proc : Procs, msg : Msg])
         /\ pushed' \in [Procs -> Seq(Msg)] /\ pipe' \in [Procs -> Seq(1..MaxChunks)]
         /\ Fresh' /\ Conserved' /\ PushedInOrder'
<1>1. CASE p \in linked /\ p \in pid /\ pipe[p] # <<>>
  <2>1. /\ p \in Procs /\ pipe[p] \in Seq(1..MaxChunks) /\ pushed[p] \in Seq(Msg)
        /\ pipe \in [Procs -> Seq(1..MaxChunks)] /\ wrote \in [Procs -> 0..MaxChunks]
    BY <1>1 DEF SpawnInv, TypeOK, Msg
  <2> DEFINE n == Len(pushed[p])
             m == Len(pipe[p])
  <2>2. n \in Nat /\ m \in Nat /\ m > 0 /\ DOMAIN pushed[p] = 1..n /\ DOMAIN pipe[p] = 1..m
    <3>1. n \in Nat /\ DOMAIN pushed[p] = 1..n
      BY <2>1, LenProperties
    <3>2. m \in Nat /\ DOMAIN pipe[p] = 1..m
      BY <2>1, LenProperties
    <3>3. m \in Nat \ {0}
      BY <1>1, <2>1, EmptySeq
    <3> QED
      BY <3>1, <3>2, <3>3
  <2>3. /\ Head(pipe[p]) = n + 1 /\ Head(pipe[p]) \in Msg
        /\ Tail(pipe[p]) \in Seq(1..MaxChunks) /\ Len(Tail(pipe[p])) = m - 1
        /\ \A k \in 1..(m - 1) : Tail(pipe[p])[k] = (n + 1) + k
    <3>1. \A k \in 1..m : pipe[p][k] = n + k
      BY <1>1 DEF SpawnInv, Conserved
    <3>2. /\ Head(pipe[p]) \in 1..MaxChunks /\ Tail(pipe[p]) \in Seq(1..MaxChunks)
          /\ Len(Tail(pipe[p])) = m - 1
          /\ \A k \in 1..(m - 1) : Tail(pipe[p])[k] = pipe[p][k + 1]
      BY <1>1, <2>1, HeadTailProperties
    <3>3. Head(pipe[p]) = pipe[p][1]
      BY <2>1
    <3> HIDE DEF n, m
    <3>4. 1 \in 1..m /\ \A k \in 1..(m - 1) : k + 1 \in 1..m /\ n + (k + 1) = (n + 1) + k
      BY <2>2
    <3> QED
      BY <3>1, <3>2, <3>3, <3>4 DEF Msg
  <2>4. Push(p, Head(pipe[p])) /\ pipe' = [pipe EXCEPT ![p] = Tail(@)]
    BY <1>1 DEF CalledOut
  <2>5. /\ tasks' \in Seq([proc : Procs, msg : Msg])
        /\ pushed' \in [Procs -> Seq(Msg)]
        /\ pushed'[p] = Append(pushed[p], n + 1)
        /\ \A q \in Procs \ {p} : pushed'[q] = pushed[q]
    BY <2>1, <2>3, <2>4, PushAdds DEF SpawnInv
  <2>6. /\ pipe' \in [Procs -> Seq(1..MaxChunks)] /\ pipe'[p] = Tail(pipe[p])
        /\ \A q \in Procs \ {p} : pipe'[q] = pipe[q]
    BY <2>1, <2>3, <2>4
  <2>7. /\ DOMAIN pushed'[p] = 1..(n + 1) /\ Len(pushed'[p]) = n + 1
        /\ \A k \in 1..(n + 1) : pushed'[p][k] = k
    <3>1. n + 1 \in Msg
      BY <2>3
    <3>2. /\ Append(pushed[p], n + 1) \in Seq(Msg) /\ Len(Append(pushed[p], n + 1)) = n + 1
          /\ \A k \in 1..n : Append(pushed[p], n + 1)[k] = pushed[p][k]
          /\ Append(pushed[p], n + 1)[n + 1] = n + 1
      BY <2>1, <3>1, AppendProperties
    <3>3. \A k \in 1..n : pushed[p][k] = k
      BY <1>1 DEF SpawnInv, Conserved
    <3>4. \A k \in 1..(n + 1) : k \in 1..n \/ k = n + 1
      BY <2>2
    <3>5. DOMAIN Append(pushed[p], n + 1) = 1..(n + 1)
      BY <3>2, LenProperties
    <3> HIDE DEF n
    <3> QED
      BY <2>5, <3>2, <3>3, <3>4, <3>5
  <2>8. os[p] # "none"
    BY <1>1, <2>1 DEF SpawnInv, Fresh
  <2> HIDE DEF n, m
  <2>9. Fresh'
    BY <2>5, <2>6, <2>8 DEF SpawnInv, Fresh
  <2>10. Conserved'
    <3> SUFFICES ASSUME NEW q \in linked
                 PROVE  /\ \A k \in 1..Len(pushed'[q]) : pushed'[q][k] = k
                        /\ wrote[q] = Len(pushed'[q]) + Len(pipe'[q])
                        /\ \A k \in 1..Len(pipe'[q]) : pipe'[q][k] = Len(pushed'[q]) + k
      BY DEF Conserved
    <3>1. CASE q = p
      <4>1. wrote[p] = n + m
        BY <1>1 DEF SpawnInv, Conserved, n, m
      <4>2. Len(pushed'[p]) = n + 1 /\ Len(pipe'[p]) = m - 1
        BY <2>3, <2>6, <2>7
      <4>3. wrote[p] = Len(pushed'[p]) + Len(pipe'[p])
        BY <4>1, <4>2, <2>2
      <4>4. \A k \in 1..Len(pushed'[p]) : pushed'[p][k] = k
        BY <4>2, <2>7
      <4>5. \A k \in 1..Len(pipe'[p]) : pipe'[p][k] = Len(pushed'[p]) + k
        BY <4>2, <2>3, <2>6
      <4> QED
        BY <3>1, <4>3, <4>4, <4>5
    <3>2. CASE q # p
      <4>1. q \in Procs
        BY DEF SpawnInv, TypeOK
      <4> QED
        BY <3>2, <4>1, <2>5, <2>6 DEF SpawnInv, Conserved
    <3> QED
      BY <3>1, <3>2
  <2>11. PushedInOrder'
    <3> SUFFICES ASSUME NEW q \in Procs, NEW k \in DOMAIN pushed'[q], pushed'[q][k] # k
                 PROVE  k = Len(pushed'[q]) /\ pushed'[q][k] = End
      BY DEF PushedInOrder
    <3>1. q # p
      BY <2>7
    <3> QED
      BY <3>1, <2>5 DEF SpawnInv, PushedInOrder
  <2> QED
    BY <2>5, <2>6, <2>9, <2>10, <2>11
<1>2. CASE ~(p \in linked /\ p \in pid /\ pipe[p] # <<>>)
  <2>1. UNCHANGED <<pipe, tasks, pushed>>
    BY <1>2 DEF CalledOut
  <2>2. Fresh'
    BY <2>1 DEF SpawnInv, Fresh
  <2>3. Conserved'
    BY <2>1 DEF SpawnInv, Conserved
  <2>4. PushedInOrder'
    BY <2>1 DEF SpawnInv, PushedInOrder
  <2> QED
    BY <2>1, <2>2, <2>3, <2>4 DEF SpawnInv, TypeOK, Msg
<1> QED
  BY <1>1, <1>2

-----------------------------------------------------------------------------
(* The steps. *)

\* A process that ends, by itself or by the user, leaves every table.
LEMMA EndKeeps ==
  ASSUME SpawnInv, NEW p \in linked, NEW dead, Released(p, dead),
         linked' = linked \ {p}, callout' = linked',
         tasks' \in Seq([proc : Procs, msg : Msg]), pushed' \in [Procs -> Seq(Msg)],
         \A q \in Procs \ {p} : pushed'[q] = pushed[q], PushedInOrder',
         phase' \in {"pre", "scan", "idle", "running", "spoiled"}, excused' \subseteq Procs
  PROVE  SpawnInv'
<1>1. TypeOK /\ Agree /\ Fresh /\ Conserved
  BY DEF SpawnInv
<1>2. p \in Procs /\ linked \subseteq Procs /\ linked = Listed
  BY <1>1 DEF TypeOK, Agree
<1>3. /\ table' \in Seq(Entry)
      /\ \A i, j \in DOMAIN table' : table'[i].proc = table'[j].proc => i = j
      /\ {table'[i].proc : i \in DOMAIN table'} = linked \ {p}
  BY <1>1, SourceGivenUp DEF Released
<1>4. /\ children' \in Seq(Procs)
      /\ \A i, j \in DOMAIN children' : children'[i] = children'[j] => i = j
      /\ Listed' = linked \ {p}
  BY <1>1, ChildGivenUp DEF Released, Listed
<1>5. /\ os' \in [Procs -> {"none", "runs", "exited", "reaped"}]
      /\ pipe' \in [Procs -> Seq(1..MaxChunks)] /\ wrote' = wrote
      /\ \A q \in Procs \ {p} : pipe'[q] = pipe[q]
      /\ \A q \in Procs : os'[q] # "reaped" => q # p /\ os'[q] = os[q]
  <2>1. <<>> \in Seq(1..MaxChunks)
    BY EmptySeq
  <2> QED
    BY <1>1, <1>2, <2>1 DEF Released, TypeOK
<1>6. TypeOK'
  BY <1>1, <1>2, <1>3, <1>4, <1>5 DEF TypeOK, Entry, Msg, Released
<1>7. Agree'
  BY <1>1, <1>2, <1>3, <1>4, <1>5 DEF Agree, Released
<1>8. Fresh'
  BY <1>1, <1>5 DEF Fresh
<1>9. Conserved'
  <2> SUFFICES ASSUME NEW q \in linked'
               PROVE  /\ \A k \in 1..Len(pushed'[q]) : pushed'[q][k] = k
                      /\ wrote'[q] = Len(pushed'[q]) + Len(pipe'[q])
                      /\ \A k \in 1..Len(pipe'[q]) : pipe'[q][k] = Len(pushed'[q]) + k
    BY DEF Conserved
  <2>1. q \in linked /\ q \in Procs \ {p}
    BY <1>2
  <2>2. pushed'[q] = pushed[q] /\ pipe'[q] = pipe[q] /\ wrote'[q] = wrote[q]
    BY <2>1, <1>5
  <2> QED
    BY <2>1, <2>2, <1>1 DEF Conserved
<1> QED
  BY <1>6, <1>7, <1>8, <1>9 DEF SpawnInv

\* What poll reports and what is served changes no process of the table.
LEMMA ServedKeeps ==
  ASSUME SpawnInv, NEW polled \in Seq(Entry), Len(polled) = Len(table),
         \A i \in 1..Len(table) : polled[i].proc = table[i].proc,
         Served(polled), phase' = "pre",
         UNCHANGED <<os, wrote, pid, children, pre, linked, callout, excused>>
  PROVE  SpawnInv'
<1>1. TypeOK /\ Agree /\ table \in Seq(Entry)
  BY DEF SpawnInv, TypeOK, Entry
<1>2. PICK i \in DOMAIN polled : table' = [polled EXCEPT ![i].revents = FALSE]
                                 /\ CalledOut(polled[i].proc)
  BY DEF Served
<1>3. /\ tasks' \in Seq([proc : Procs, msg : Msg])
      /\ pushed' \in [Procs -> Seq(Msg)] /\ pipe' \in [Procs -> Seq(1..MaxChunks)]
      /\ Fresh' /\ Conserved' /\ PushedInOrder'
  BY <1>2, CalledOutKeeps
<1>4. /\ table' \in Seq(Entry) /\ DOMAIN table' = DOMAIN table
      /\ \A k \in DOMAIN table : table'[k].proc = table[k].proc
  <2>1. DOMAIN polled = 1..Len(table) /\ DOMAIN table = 1..Len(table) /\ i \in 1..Len(polled)
    BY <1>1, LenProperties
  <2>2. polled[i] \in Entry
    BY <2>1, ElementOfSeq
  <2>3. table' = [polled EXCEPT ![i] = [polled[i] EXCEPT !.revents = FALSE]]
    BY <1>2
  <2>4. /\ [polled[i] EXCEPT !.revents = FALSE] \in Entry
        /\ [polled[i] EXCEPT !.revents = FALSE].proc = polled[i].proc
    BY <2>2 DEF Entry
  <2> DEFINE e == [polled[i] EXCEPT !.revents = FALSE]
  <2> HIDE DEF e
  <2>5. /\ table' \in Seq(Entry) /\ Len(table') = Len(polled)
        /\ \A k \in 1..Len(polled) : table'[k] = IF k = i THEN e ELSE polled[k]
    BY <2>1, <2>3, <2>4, ExceptSeq DEF e
  <2>6. DOMAIN table' = 1..Len(table)
    BY <2>5, LenProperties
  <2>7. e.proc = polled[i].proc
    BY <2>4 DEF e
  <2> QED
    BY <2>1, <2>5, <2>6, <2>7
<1>5. TypeOK'
  BY <1>1, <1>3, <1>4 DEF TypeOK, Entry, Msg
<1>6. Agree'
  <2>1. {table'[k].proc : k \in DOMAIN table'} = {table[k].proc : k \in DOMAIN table}
    BY <1>4
  <2>2. \A k, j \in DOMAIN table' : table'[k].proc = table'[j].proc => k = j
    BY <1>1, <1>4 DEF Agree
  <2> QED
    BY <1>1, <2>1, <2>2 DEF Agree, Listed
<1> QED
  BY <1>3, <1>5, <1>6 DEF SpawnInv

\* What poll reports is about the processes of the table.
LEMMA PolledType ==
  ASSUME TypeOK
  PROVE  /\ Polled \in Seq(Entry) /\ Len(Polled) = Len(table)
         /\ \A i \in 1..Len(table) : Polled[i].proc = table[i].proc
<1>1. table \in Seq(Entry)
  BY DEF TypeOK, Entry
<1>2. /\ Len(table) \in Nat /\ DOMAIN table = 1..Len(table)
      /\ \A i \in 1..Len(table) : table[i].proc \in Procs
  <2>1. Len(table) \in Nat /\ DOMAIN table = 1..Len(table)
    BY <1>1, LenProperties
  <2>2. \A i \in 1..Len(table) : table[i] \in Entry
    BY <1>1, ElementOfSeq
  <2> QED
    BY <2>1, <2>2 DEF Entry
<1>3. /\ DOMAIN Polled = 1..Len(table)
      /\ \A i \in 1..Len(table) : Polled[i] \in Entry /\ Polled[i].proc = table[i].proc
  BY <1>2 DEF Polled, Entry
<1>4. Polled \in [1..Len(table) -> Entry]
  BY <1>2, <1>3 DEF Polled
<1> QED
  BY <1>2, <1>3, <1>4

LEMMA SpawnInit == Init => SpawnInv
<1> SUFFICES ASSUME Init PROVE SpawnInv
  OBVIOUS
<1>1. /\ <<>> \in Seq(Procs) /\ <<>> \in Seq([proc : Procs, revents : BOOLEAN])
      /\ <<>> \in Seq([proc : Procs, msg : 1..MaxChunks \cup {End}])
      /\ <<>> \in Seq(1..MaxChunks) /\ <<>> \in Seq(1..MaxChunks \cup {End})
      /\ DOMAIN <<>> = {}
  BY EmptySeq, LenProperties
<1>2. TypeOK
  <2>1. os \in [Procs -> {"none", "runs", "exited", "reaped"}]
    BY DEF Init
  <2>2. wrote \in [Procs -> 0..MaxChunks]
    BY SpawnConstants DEF Init
  <2>3. /\ pipe \in [Procs -> Seq(1..MaxChunks)]
        /\ pushed \in [Procs -> Seq(1..MaxChunks \cup {End})]
    BY <1>1 DEF Init
  <2> QED
    BY <1>1, <2>1, <2>2, <2>3 DEF Init, TypeOK
<1>3. Agree
  BY <1>1 DEF Init, Agree, Listed, ToSet
<1>4. Fresh /\ Conserved
  BY DEF Init, Fresh, Conserved
<1>5. PushedInOrder
  BY <1>1 DEF Init, PushedInOrder
<1> QED
  BY <1>2, <1>3, <1>4, <1>5 DEF SpawnInv

\* Steps that leave the processes and the tables alone.
LEMMA QuietKeeps ==
  ASSUME SpawnInv, UNCHANGED <<system, play, linked, callout, pushed>>,
         tasks' \in Seq([proc : Procs, msg : Msg]),
         phase' \in {"pre", "scan", "idle", "running", "spoiled"}, excused' \subseteq Procs
  PROVE  SpawnInv'
<1>1. UNCHANGED <<os, pipe, wrote, pid, children, table, pre, linked, callout, pushed>>
  BY DEF system, play
<1>2. TypeOK'
  BY <1>1 DEF SpawnInv, TypeOK, Msg
<1>3. Agree'
  BY <1>1 DEF SpawnInv, Agree, Listed
<1>4. Fresh' /\ Conserved' /\ PushedInOrder'
  BY <1>1 DEF SpawnInv, Fresh, Conserved, PushedInOrder
<1> QED
  BY <1>2, <1>3, <1>4 DEF SpawnInv

LEMMA WriteKeeps ==
  ASSUME SpawnInv, NEW p \in Procs, Write(p)
  PROVE  SpawnInv'
<1>1. TypeOK /\ Agree /\ Fresh /\ Conserved /\ PushedInOrder
  BY DEF SpawnInv
<1>2. UNCHANGED <<os, pid, children, table, pre, linked, callout, tasks, phase, pushed, excused>>
  BY DEF Write, play
<1>3. p \in linked /\ linked \subseteq Procs
  BY <1>1 DEF TypeOK, Agree, Write
<1>4. /\ wrote[p] + 1 \in 1..MaxChunks /\ wrote' = [wrote EXCEPT ![p] = wrote[p] + 1]
      /\ wrote \in [Procs -> 0..MaxChunks] /\ wrote[p] \in Nat
  BY <1>1, SpawnConstants DEF TypeOK, Write
<1>5. /\ pipe[p] \in Seq(1..MaxChunks) /\ pipe \in [Procs -> Seq(1..MaxChunks)]
      /\ pipe' = [pipe EXCEPT ![p] = Append(pipe[p], wrote[p] + 1)]
      /\ pushed[p] \in Seq(Msg)
  BY <1>1 DEF TypeOK, Write, Msg
<1>6. /\ Append(pipe[p], wrote[p] + 1) \in Seq(1..MaxChunks)
      /\ Len(Append(pipe[p], wrote[p] + 1)) = Len(pipe[p]) + 1
      /\ \A k \in 1..Len(pipe[p]) : Append(pipe[p], wrote[p] + 1)[k] = pipe[p][k]
      /\ Append(pipe[p], wrote[p] + 1)[Len(pipe[p]) + 1] = wrote[p] + 1
  BY <1>4, <1>5, AppendProperties
<1>7. Len(pipe[p]) \in Nat /\ Len(pushed[p]) \in Nat
  BY <1>5, LenProperties
<1>8. /\ pipe' \in [Procs -> Seq(1..MaxChunks)] /\ wrote' \in [Procs -> 0..MaxChunks]
      /\ pipe'[p] = Append(pipe[p], wrote[p] + 1) /\ wrote'[p] = wrote[p] + 1
      /\ \A q \in Procs \ {p} : pipe'[q] = pipe[q] /\ wrote'[q] = wrote[q]
  BY <1>4, <1>5, <1>6, SpawnConstants
<1>9. TypeOK'
  BY <1>1, <1>2, <1>8 DEF TypeOK
<1>10. Agree'
  BY <1>1, <1>2 DEF Agree, Listed
<1>11. Fresh'
  BY <1>1, <1>2, <1>8 DEF Fresh, Write
<1>12. Conserved'
  <2> SUFFICES ASSUME NEW q \in linked
               PROVE  /\ \A k \in 1..Len(pushed[q]) : pushed[q][k] = k
                      /\ wrote'[q] = Len(pushed[q]) + Len(pipe'[q])
                      /\ \A k \in 1..Len(pipe'[q]) : pipe'[q][k] = Len(pushed[q]) + k
    BY <1>2 DEF Conserved
  <2>1. CASE q = p
    <3> DEFINE n == Len(pushed[p])
               m == Len(pipe[p])
    <3>1. /\ \A k \in 1..n : pushed[p][k] = k
          /\ wrote[p] = n + m
          /\ \A k \in 1..m : pipe[p][k] = n + k
      BY <1>1, <1>3 DEF Conserved
    <3>2. /\ Len(pipe'[p]) = m + 1
          /\ \A k \in 1..m : pipe'[p][k] = pipe[p][k]
          /\ pipe'[p][m + 1] = wrote[p] + 1
      BY <1>6, <1>8
    <3>3. n \in Nat /\ m \in Nat
      BY <1>7
    <3> HIDE DEF n, m
    <3>4. \A k \in 1..(m + 1) : k \in 1..m \/ k = m + 1
      BY <3>3
    <3>5. wrote'[p] = n + Len(pipe'[p]) /\ wrote[p] + 1 = n + (m + 1)
      BY <1>8, <3>1, <3>2, <3>3
    <3>6. \A k \in 1..(m + 1) : pipe'[p][k] = n + k
      BY <3>1, <3>2, <3>4, <3>5
    <3> QED
      BY <2>1, <3>1, <3>2, <3>5, <3>6 DEF n
  <2>2. CASE q # p
    BY <2>2, <1>1, <1>3, <1>8 DEF Conserved
  <2> QED
    BY <2>1, <2>2
<1>13. PushedInOrder'
  BY <1>1, <1>2 DEF PushedInOrder
<1> QED
  BY <1>9, <1>10, <1>11, <1>12, <1>13 DEF SpawnInv

LEMMA ExitKeeps ==
  ASSUME SpawnInv, NEW p \in Procs, Exit(p)
  PROVE  SpawnInv'
<1>1. UNCHANGED <<pipe, wrote, pid, children, table, pre, linked, callout, tasks, phase,
                  pushed, excused>>
  BY DEF Exit, play
<1>2. /\ os' \in [Procs -> {"none", "runs", "exited", "reaped"}]
      /\ os[p] = "runs" /\ os'[p] = "exited"
      /\ \A q \in Procs \ {p} : os'[q] = os[q]
  BY DEF Exit, SpawnInv, TypeOK
<1>3. TypeOK'
  BY <1>1, <1>2 DEF SpawnInv, TypeOK
<1>4. Agree'
  BY <1>1, <1>2 DEF SpawnInv, Agree, Listed
<1>5. Fresh' /\ Conserved' /\ PushedInOrder'
  BY <1>1, <1>2 DEF SpawnInv, Fresh, Conserved, PushedInOrder
<1> QED
  BY <1>3, <1>4, <1>5 DEF SpawnInv

LEMMA SpawnKeeps ==
  ASSUME SpawnInv, NEW p \in Procs, Spawn(p)
  PROVE  SpawnInv'
<1>1. UNCHANGED <<pipe, wrote, tasks, phase, pushed, excused>>
  BY DEF Spawn
<1>2. TypeOK /\ Agree /\ Fresh
  BY DEF SpawnInv
<1>3. /\ os[p] = "none" /\ os'[p] = "runs"
      /\ os' \in [Procs -> {"none", "runs", "exited", "reaped"}]
      /\ \A q \in Procs \ {p} : os'[q] = os[q]
  BY <1>2 DEF Spawn, TypeOK
<1>4. /\ p \notin linked /\ pushed[p] = <<>> /\ pipe[p] = <<>> /\ wrote[p] = 0
      /\ linked' = linked \cup {p} /\ callout' = linked' /\ linked' \subseteq Procs
  BY <1>2, <1>3 DEF Fresh, Spawn, Agree, TypeOK
<1> DEFINE e == [proc |-> p, revents |-> FALSE]
<1>5. table \in Seq(Entry) /\ children \in Seq(Procs) /\ e \in Entry /\ <<p>> \in Seq(Procs)
  BY <1>2 DEF TypeOK, Entry
<1>6. /\ Len(table) \in Nat /\ Len(children) \in Nat
      /\ DOMAIN table = 1..Len(table) /\ DOMAIN children = 1..Len(children)
      /\ \A k \in 1..Len(table) : table[k].proc \in linked
      /\ \A k \in 1..Len(children) : children[k] \in linked
      /\ \A q \in linked : \E k \in 1..Len(table) : table[k].proc = q
      /\ \A q \in linked : \E k \in 1..Len(children) : children[k] = q
  BY <1>2, TableTypes
<1>7. /\ table' \in Seq(Entry) /\ DOMAIN table' = 1..(Len(table) + 1)
      /\ \A k \in 1..Len(table) : table'[k] = table[k]
      /\ table'[Len(table) + 1] = e
  <2>1. table' = Append(table, e)
    BY DEF Spawn
  <2> HIDE DEF e
  <2>2. /\ table' \in Seq(Entry) /\ Len(table') = Len(table) + 1
        /\ \A k \in 1..Len(table) : table'[k] = table[k]
        /\ table'[Len(table) + 1] = e
    BY <2>1, <1>5, AppendProperties
  <2>3. DOMAIN table' = 1..Len(table')
    BY <2>2, LenProperties
  <2>4. DOMAIN table' = 1..(Len(table) + 1)
    BY <2>2, <2>3
  <2> QED
    BY <2>2, <2>4
<1>8. /\ children' \in Seq(Procs) /\ DOMAIN children' = 1..(Len(children) + 1)
      /\ children'[1] = p
      /\ \A k \in 1..Len(children) : children'[k + 1] = children[k]
  <2>1. children' = <<p>> \o children
    BY DEF Spawn
  <2>2. Len(<<p>>) = 1 /\ <<p>>[1] = p
    OBVIOUS
  <2>3. /\ children' \in Seq(Procs) /\ Len(children') = 1 + Len(children)
        /\ \A k \in 1..(1 + Len(children)) :
             children'[k] = IF k <= 1 THEN <<p>>[k] ELSE children[k - 1]
    BY <2>1, <2>2, <1>5, ConcatProperties
  <2>4. DOMAIN children' = 1..(Len(children) + 1)
    BY <2>3, <1>6, LenProperties
  <2>5. children'[1] = p
    BY <2>2, <2>3, <1>6
  <2>6. \A k \in 1..Len(children) : children'[k + 1] = children[k]
    <3> SUFFICES ASSUME NEW k \in 1..Len(children) PROVE children'[k + 1] = children[k]
      OBVIOUS
    <3>1. k + 1 \in 1..(1 + Len(children)) /\ ~(k + 1 <= 1) /\ (k + 1) - 1 = k
      BY <1>6
    <3> QED
      BY <3>1, <2>3
  <2> QED
    BY <2>3, <2>4, <2>5, <2>6
<1>9. \A k \in 1..(Len(table) + 1) : k \in 1..Len(table) \/ k = Len(table) + 1
  BY <1>6
<1>10. \A k \in 1..(Len(children) + 1) : k = 1 \/ \E j \in 1..Len(children) : k = j + 1
  <2> SUFFICES ASSUME NEW k \in 1..(Len(children) + 1), k # 1
               PROVE  \E j \in 1..Len(children) : k = j + 1
    OBVIOUS
  <2>1. k - 1 \in 1..Len(children) /\ k = (k - 1) + 1
    BY <1>6
  <2> QED
    BY <2>1
<1>11. TypeOK'
  BY <1>1, <1>2, <1>3, <1>4, <1>7, <1>8 DEF TypeOK, Entry, Spawn
<1>12. Agree'
  <2>1. \A i, j \in DOMAIN table' : table'[i].proc = table'[j].proc => i = j
    <3>1. \A i, j \in 1..Len(table) : table[i].proc = table[j].proc => i = j
      BY <1>2, <1>6 DEF Agree
    <3> QED
      BY <3>1, <1>4, <1>6, <1>7, <1>9
  <2>2. \A i, j \in DOMAIN children' : children'[i] = children'[j] => i = j
    <3>1. \A i, j \in 1..Len(children) : children[i] = children[j] => i = j
      BY <1>2, <1>6 DEF Agree
    <3> SUFFICES ASSUME NEW i \in DOMAIN children', NEW j \in DOMAIN children',
                        children'[i] = children'[j]
                 PROVE  i = j
      OBVIOUS
    <3>2. i = 1 \/ \E k \in 1..Len(children) : i = k + 1 /\ children'[i] = children[k]
      BY <1>8, <1>10
    <3>3. j = 1 \/ \E k \in 1..Len(children) : j = k + 1 /\ children'[j] = children[k]
      BY <1>8, <1>10
    <3>4. children'[1] = p /\ \A k \in 1..Len(children) : children[k] # p
      BY <1>4, <1>6, <1>8
    <3>5. CASE i = 1
      BY <3>3, <3>4, <3>5
    <3>6. CASE j = 1
      BY <3>2, <3>4, <3>6
    <3>7. CASE i # 1 /\ j # 1
      BY <3>1, <3>2, <3>3, <3>7
    <3> QED
      BY <3>5, <3>6, <3>7
  <2>3. \A k \in DOMAIN table' : table'[k].proc \in linked'
    BY <1>4, <1>6, <1>7, <1>9
  <2>4. \A q \in linked' : \E k \in DOMAIN table' : table'[k].proc = q
    <3>1. 1..Len(table) \subseteq DOMAIN table' /\ Len(table) + 1 \in DOMAIN table'
      BY <1>6, <1>7
    <3> SUFFICES ASSUME NEW q \in linked' PROVE \E k \in DOMAIN table' : table'[k].proc = q
      OBVIOUS
    <3>2. CASE q = p
      BY <3>1, <3>2, <1>7
    <3>3. CASE q # p
      <4>1. PICK k \in 1..Len(table) : table[k].proc = q
        BY <3>3, <1>4, <1>6
      <4> QED
        BY <4>1, <3>1, <1>7
    <3> QED
      BY <3>2, <3>3
  <2>5. \A k \in DOMAIN children' : children'[k] \in linked'
    <3> SUFFICES ASSUME NEW k \in DOMAIN children' PROVE children'[k] \in linked'
      OBVIOUS
    <3>1. k = 1 \/ \E j \in 1..Len(children) : children'[k] = children[j]
      BY <1>8, <1>10
    <3> QED
      BY <3>1, <1>4, <1>6, <1>8
  <2>6. \A q \in linked' : \E k \in DOMAIN children' : children'[k] = q
    <3>1. 1 \in DOMAIN children' /\ \A k \in 1..Len(children) : k + 1 \in DOMAIN children'
      BY <1>6, <1>8
    <3> SUFFICES ASSUME NEW q \in linked' PROVE \E k \in DOMAIN children' : children'[k] = q
      OBVIOUS
    <3>2. CASE q = p
      BY <3>1, <3>2, <1>8
    <3>3. CASE q # p
      <4>1. PICK k \in 1..Len(children) : children[k] = q
        BY <3>3, <1>4, <1>6
      <4> QED
        BY <4>1, <3>1, <1>8
    <3> QED
      BY <3>2, <3>3
  <2>7. {table'[k].proc : k \in DOMAIN table'} = linked' /\ Listed' = linked'
    BY <2>3, <2>4, <2>5, <2>6 DEF Listed, ToSet
  <2>8. pre' /\ children' # <<>>
    <3>1. 1 \in DOMAIN children' /\ DOMAIN <<>> = {}
      BY <1>6, <1>8
    <3> QED
      BY <3>1 DEF Spawn
  <2>9. \A q \in Procs : os'[q] \in {"runs", "exited"} => q \in linked'
    BY <1>2, <1>3, <1>4 DEF Agree
  <2> QED
    BY <1>4, <2>1, <2>2, <2>7, <2>8, <2>9 DEF Agree
<1>13. Fresh'
  BY <1>1, <1>2, <1>3, <1>4 DEF Fresh
<1>14. Conserved'
  <2> SUFFICES ASSUME NEW q \in linked'
               PROVE  /\ \A k \in 1..Len(pushed[q]) : pushed[q][k] = k
                      /\ wrote[q] = Len(pushed[q]) + Len(pipe[q])
                      /\ \A k \in 1..Len(pipe[q]) : pipe[q][k] = Len(pushed[q]) + k
    BY <1>1 DEF Conserved
  <2>1. CASE q = p
    <3>1. Len(pushed[p]) = 0 /\ Len(pipe[p]) = 0
      BY <1>4
    <3> QED
      BY <2>1, <3>1, <1>4
  <2>2. CASE q # p
    BY <2>2, <1>4 DEF SpawnInv, Conserved
  <2> QED
    BY <2>1, <2>2
<1>15. PushedInOrder'
  BY <1>1 DEF SpawnInv, PushedInOrder
<1> QED
  BY <1>11, <1>12, <1>13, <1>14, <1>15 DEF SpawnInv

LEMMA KillKeeps ==
  ASSUME SpawnInv, NEW p \in Procs, Kill(p)
  PROVE  SpawnInv'
<1>1. p \in linked /\ Released(p, {}) /\ EndPushed(p)
  BY DEF Kill
<1>2. phase' \in {"pre", "scan", "idle", "running", "spoiled"} /\ excused' \subseteq Procs
  BY DEF Kill, FreedUsed, SpawnInv, TypeOK
<1> QED
  BY <1>1, <1>2, EndPushedKeeps, EndKeeps

\* A process let go of has its last call, unless it is known to have exited.
LEMMA LetGoKeeps ==
  ASSUME SpawnInv, NEW p \in Procs, LetGo(p)
  PROVE  SpawnInv'
<1>1. p \in linked /\ Released(p, {})
  BY DEF LetGo
<1>2. phase' \in {"pre", "scan", "idle", "running", "spoiled"} /\ excused' \subseteq Procs
  BY DEF LetGo, SpawnInv, TypeOK
<1>3. CASE p \in pid
  <2>1. EndPushed(p)
    BY <1>3 DEF LetGo
  <2> QED
    BY <2>1, <1>1, <1>2, EndPushedKeeps, EndKeeps
<1>4. CASE p \notin pid
  <2>1. linked' = linked \ {p} /\ callout' = callout \ {p} /\ UNCHANGED <<tasks, pushed>>
    BY <1>4 DEF LetGo
  <2>2. callout' = linked' /\ PushedInOrder'
    BY <2>1 DEF SpawnInv, Agree, PushedInOrder
  <2>3. tasks' \in Seq([proc : Procs, msg : Msg]) /\ pushed' \in [Procs -> Seq(Msg)]
    BY <2>1 DEF SpawnInv, TypeOK, Msg
  <2> QED
    BY <2>1, <2>2, <2>3, <1>1, <1>2, EndKeeps
<1> QED
  BY <1>3, <1>4

LEMMA PreChildKeeps ==
  ASSUME SpawnInv, PreChild
  PROVE  SpawnInv'
<1>1. PICK i \in DOMAIN children :
        Released(children[i], Dead) /\ EndPushed(children[i]) /\ FreedUsed(children[i])
  BY DEF PreChild
<1>2. children[i] \in linked
  BY TableTypes DEF SpawnInv
<1>3. phase' \in {"pre", "scan", "idle", "running", "spoiled"} /\ excused' \subseteq Procs
  BY <1>1 DEF PreChild, FreedUsed, SpawnInv, TypeOK
<1> QED
  BY <1>1, <1>2, <1>3, EndPushedKeeps, EndKeeps

LEMMA ServeKeeps ==
  ASSUME SpawnInv, Serve \/ PollReady
  PROVE  SpawnInv'
<1>1. UNCHANGED <<os, wrote, pid, children, pre, linked, callout, excused>> /\ phase' = "pre"
  BY DEF Serve, PollReady
<1>2. CASE Serve
  <2>1. Served(table) /\ table \in Seq(Entry)
    BY <1>2 DEF Serve, SpawnInv, TypeOK, Entry
  <2> QED
    BY <1>1, <2>1, ServedKeeps
<1>3. CASE PollReady
  <2>1. Served(Polled)
    BY <1>3 DEF PollReady
  <2>2. /\ Polled \in Seq(Entry) /\ Len(Polled) = Len(table)
        /\ \A i \in 1..Len(table) : Polled[i].proc = table[i].proc
    BY PolledType DEF SpawnInv
  <2> QED
    BY <1>1, <2>1, <2>2, ServedKeeps
<1> QED
  BY <1>2, <1>3

\* The task taken is the last; what is left are the tasks before it.
LEMMA RunTaskKeeps ==
  ASSUME SpawnInv, RunTask
  PROVE  SpawnInv'
<1> DEFINE Task == [proc : Procs, msg : Msg]
<1>1. tasks \in Seq(Task) /\ tasks # <<>> /\ tasks' = Front(tasks)
  BY DEF RunTask, SpawnInv, TypeOK, Msg
<1> HIDE DEF Task
<1>2. Len(tasks) \in Nat /\ \A i \in 1..Len(tasks) : tasks[i] \in Task
  BY <1>1, LenProperties, ElementOfSeq
<1>3. \A i \in 1..(Len(tasks) - 1) : tasks[i] \in Task
  BY <1>2
<1>4. Front(tasks) \in Seq(Task)
  BY <1>2, <1>3, SubSeqProperties DEF Front
<1>5. UNCHANGED <<system, play, linked, callout, pushed, excused>> /\ phase' = "running"
  BY DEF RunTask
<1>6. excused \subseteq Procs
  BY DEF SpawnInv, TypeOK
<1> QED
  BY <1>1, <1>4, <1>5, <1>6, QuietKeeps DEF Task

\* Every other step of the loop changes where the loop is; an error empties the
\* task stack.
LEMMA LoopKeeps ==
  ASSUME SpawnInv, PreNothing \/ PollNothing \/ Typed \/ LoopOn \/ Fault \/ UNCHANGED vars
  PROVE  SpawnInv'
<1>1. UNCHANGED <<system, play, linked, callout, pushed>>
  BY DEF PreNothing, PollNothing, Typed, LoopOn, Fault, vars
<1>2. phase' \in {"pre", "scan", "idle", "running", "spoiled"}
  BY DEF PreNothing, PollNothing, Typed, LoopOn, Fault, vars, SpawnInv, TypeOK
<1>3. tasks \in Seq([proc : Procs, msg : Msg]) /\ excused \subseteq Procs
  BY DEF SpawnInv, TypeOK, Msg
<1>4. CASE Fault
  <2>1. tasks' = <<>> /\ <<>> \in Seq([proc : Procs, msg : Msg])
    BY <1>4, EmptySeq DEF Fault
  <2>2. \A i \in DOMAIN tasks : tasks[i].proc \in Procs
    <3>1. \A i \in DOMAIN tasks : tasks[i] \in [proc : Procs, msg : Msg]
      BY <1>3, LenProperties, ElementOfSeq
    <3> QED
      BY <3>1
  <2>3. excused' \subseteq Procs
    BY <1>3, <1>4, <2>2 DEF Fault
  <2> QED
    BY <1>1, <1>2, <2>1, <2>3, QuietKeeps
<1>5. CASE PreNothing \/ PollNothing \/ Typed \/ LoopOn \/ UNCHANGED vars
  <2>1. UNCHANGED <<tasks, excused>>
    BY <1>5 DEF PreNothing, PollNothing, Typed, LoopOn, vars
  <2> QED
    BY <1>1, <1>2, <1>3, <2>1, QuietKeeps
<1> QED
  BY <1>4, <1>5

\* The invariant is inductive.
LEMMA SpawnStep == SpawnInv /\ [Next]_vars => SpawnInv'
<1> SUFFICES ASSUME SpawnInv, [Next]_vars PROVE SpawnInv'
  OBVIOUS
<1>1. ASSUME NEW p \in Procs, Write(p) \/ Exit(p) \/ Spawn(p) \/ Kill(p) \/ LetGo(p)
      PROVE  SpawnInv'
  BY <1>1, WriteKeeps, ExitKeeps, SpawnKeeps, KillKeeps, LetGoKeeps
<1>2. CASE PreChild
  BY <1>2, PreChildKeeps
<1>3. CASE Serve \/ PollReady
  BY <1>3, ServeKeeps
<1>4. CASE RunTask
  BY <1>4, RunTaskKeeps
<1>5. CASE PreNothing \/ PollNothing \/ Typed \/ LoopOn \/ Fault \/ UNCHANGED vars
  BY <1>5, LoopKeeps
<1> QED
  BY <1>1, <1>2, <1>3, <1>4, <1>5 DEF Next

-----------------------------------------------------------------------------
(* Theorems. *)

\* The state of spawned processes is well typed (spawn.c, uspawn.c, uevent.c).
THEOREM SpawnTypeCorrect == Spec => []TypeOK
<1>1. SpawnInv => TypeOK
  BY DEF SpawnInv
<1> QED
  BY <1>1, SpawnInit, SpawnStep, PTL DEF Spec

\* Until a freed record that was overwritten is used, however processes end and
\* whichever entry is moved into the place of which, the event table, the list of
\* children and the spawn objects hold the same processes, each once (u_event_src,
\* u_spawf0, spawn_callback).
THEOREM TablesCorrect == Spec => []TablesAgree
<1>1. SpawnInv => TablesAgree
  BY DEF SpawnInv, TablesAgree
<1> QED
  BY <1>1, SpawnInit, SpawnStep, PTL DEF Spec

\* With an allocator that leaves a freed record as it was (mminit.c) no overwritten
\* record is used, and the tables agree in every state.
THEOREM TablesAlwaysAgree == ~Recycles => (Spec => [](FreedIntact /\ Agree))
<1> SUFFICES ASSUME ~Recycles PROVE Spec => [](FreedIntact /\ Agree)
  OBVIOUS
<1>1. SpawnInv => Agree
  BY DEF SpawnInv
<1>2. Init => FreedIntact
  BY DEF Init, FreedIntact
<1>3. FreedIntact /\ [Next]_vars => FreedIntact'
  BY DEF FreedIntact, FreedUsed, Next, vars, Write, Exit, Spawn, Kill, LetGo, PreChild,
         PreNothing, Serve, PollReady, PollNothing, RunTask, Typed, LoopOn, Fault
<1> QED
  BY <1>1, <1>2, <1>3, SpawnInit, SpawnStep, PTL DEF Spec

\* on_stdout is asked to be called with what the process wrote, in order, nothing
\* twice and nothing left out, and then once with string(0) (spawn_callback).
THEOREM OrderCorrect == Spec => []PushedInOrder
<1>1. SpawnInv => PushedInOrder
  BY DEF SpawnInv
<1> QED
  BY <1>1, SpawnInit, SpawnStep, PTL DEF Spec
=============================================================================
