--------------------------- MODULE MpyExecProofs ---------------------------
(***************************************************************************)
(* Theorems about MpyExec, for every size of the job, every fan-out, every *)
(* set of commands and every number of tasks.                              *)
(*                                                                         *)
(* The plans come first: which rank sends what to which in an operation,   *)
(* and that each send has one receipt (Act, Matched).  Then the invariant  *)
(* Inv, rank by rank (Placed) and pair by pair (Stream): what one rank has *)
(* sent and the other not received is what is on its way between them, in  *)
(* the order of the operations.  Last MetInv, which goes up the tree: what *)
(* a rank has heard from its staff, and the sum of their parts.            *)
(***************************************************************************)
EXTENDS MpyExec, ListFacts

-----------------------------------------------------------------------------
(* The tree. *)

LEMMA BossBelow ==
  ASSUME NEW r \in Rank, r # 0
  PROVE  Boss(r) \in Rank /\ Boss(r) < r /\ r \in Staff(Boss(r))
BY FanAssumption, SizeAssumption, Z3 DEF Rank, Boss, Staff

LEMMA StaffAbove ==
  ASSUME NEW r \in Rank, NEW q \in Staff(r)
  PROVE  q \in Rank /\ q > r /\ q # 0 /\ r = Boss(q)
BY FanAssumption, SizeAssumption, Z3 DEF Rank, Boss, Staff

\* The staff of rank r are r * Fan + 1, r * Fan + 2, ...: the order in which
\* mpy_bcast(0) and mp_handin receive from them.
Count(r) == Cardinality(Staff(r))

LEMMA StaffNumbered ==
  ASSUME NEW r \in Rank
  PROVE  /\ Count(r) \in Nat
         /\ \A q : q \in Staff(r) <=> q - r * Fan \in 1..Count(r) /\ q \in Int
         /\ \A i \in 1..Count(r) : r * Fan + i \in Staff(r)
         /\ Staff(r) = {} <=> Count(r) = 0
<1> DEFINE a == r * Fan + 1
           b == IF r * Fan + Fan < Size THEN r * Fan + Fan ELSE Size - 1
<1>0. r \in Nat /\ Fan \in Nat /\ Size \in Nat /\ Fan >= 2 /\ Size >= 2
  BY FanAssumption, SizeAssumption DEF Rank
<1>1. r * Fan \in Nat
  BY <1>0
<1>2. a \in Int /\ b \in Int
  BY <1>0, <1>1
<1>3. Staff(r) = a..b
  BY <1>0, <1>1 DEF Staff, Rank
<1>4. Count(r) = IF a > b THEN 0 ELSE b - a + 1
  BY <1>2, <1>3, FS_Interval DEF Count
<1>5. Count(r) \in Nat
  BY <1>2, <1>4
<1>6. \A q : q \in Staff(r) <=> q - r * Fan \in 1..Count(r) /\ q \in Int
  <2>1. ASSUME NEW q \in Int
        PROVE  q \in a..b <=> q - r * Fan \in 1..Count(r)
    BY <1>1, <1>2, <1>4
  <2> QED BY <2>1, <1>3, <1>2
<1>7. \A i \in 1..Count(r) : r * Fan + i \in Staff(r)
  BY <1>1, <1>2, <1>3, <1>4
<1>8. Staff(r) = {} <=> Count(r) = 0
  BY <1>1, <1>2, <1>3, <1>4
<1> QED BY <1>5, <1>6, <1>7, <1>8

LEMMA RootHasStaff == 0 \in Rank /\ Staff(0) # {}
<1>1. 0 \in Rank /\ 1 \in Staff(0)
  BY FanAssumption, SizeAssumption DEF Staff, Rank
<1> QED BY <1>1

-----------------------------------------------------------------------------
(* The plans: which rank sends what to which, and who receives it. *)

AllOps == Operations \cup {"exec"}
Kinds == {"cmd", "ack", "out", "in", "ring", "file", "read", "load"}
Ids == [kind : Kinds, task : Nat, at : Nat]
Dos == {"exec", "open", "load", "recv", "forward", "report", "send"}
Step == [do : Dos, peers : SUBSET Rank, id : Ids]

\* In the plan a, message operation i is a `do' with p among its peers, for the
\* message id.
Act(a, do, p, i, id) ==
  i \in DOMAIN a /\ a[i].do = do /\ p \in a[i].peers /\ a[i].id = id

LEMMA IdType ==
  ASSUME NEW kind \in Kinds, NEW t \in Nat, NEW k \in Nat
  PROVE  /\ Id(kind, t, k) \in Ids
         /\ Id(kind, t, k).kind = kind
         /\ Id(kind, t, k).task = t
         /\ Id(kind, t, k).at = k
BY DEF Id, Ids

LEMMA DoShape ==
  ASSUME NEW op \in Dos, NEW peers \in SUBSET Rank, NEW id \in Ids
  PROVE  /\ Do(op, peers, id) \in Seq(Step) /\ Len(Do(op, peers, id)) = 1
         /\ \A d, p, i, x : Act(Do(op, peers, id), d, p, i, x) <=>
              i = 1 /\ d = op /\ p \in peers /\ x = id
<1> DEFINE e == [do |-> op, peers |-> peers, id |-> id]
<1>1. e \in Step
  BY DEF Step
<1>2. Do(op, peers, id) = <<e>>
  BY DEF Do
<1>3. e.do = op /\ e.peers = peers /\ e.id = id
  OBVIOUS
<1> HIDE DEF e
<1>4. <<e>> \in Seq(Step) /\ Len(<<e>>) = 1 /\ DOMAIN <<e>> = {1} /\ <<e>>[1] = e
  BY <1>1
<1> QED BY <1>2, <1>3, <1>4 DEF Act

LEMMA NothingShape ==
  /\ <<>> \in Seq(Step) /\ Len(<<>>) = 0
  /\ \A d, p, i, x : ~Act(<<>>, d, p, i, x)
BY DEF Act

LEMMA ToAllShape ==
  ASSUME NEW op \in Dos, NEW peers \in SUBSET Rank, NEW id \in Ids
  PROVE  /\ ToAll(op, peers, id) \in Seq(Step)
         /\ Len(ToAll(op, peers, id)) = IF peers = {} THEN 0 ELSE 1
         /\ \A d, p, i, x : Act(ToAll(op, peers, id), d, p, i, x) <=>
              i = 1 /\ d = op /\ p \in peers /\ x = id
<1>1. CASE peers = {}
  BY <1>1, NothingShape DEF ToAll
<1>2. CASE peers # {}
  <2>1. ToAll(op, peers, id) = Do(op, peers, id)
    BY <1>2 DEF ToAll
  <2>2. /\ Do(op, peers, id) \in Seq(Step) /\ Len(Do(op, peers, id)) = 1
        /\ \A d, p, i, x : Act(Do(op, peers, id), d, p, i, x) <=>
             i = 1 /\ d = op /\ p \in peers /\ x = id
    BY DoShape
  <2> QED BY <1>2, <2>1, <2>2
<1> QED BY <1>1, <1>2

\* A plan made of two parts has the message operations of both.
LEMMA JoinShape ==
  ASSUME NEW a \in Seq(Step), NEW b \in Seq(Step)
  PROVE  /\ a \o b \in Seq(Step)
         /\ Len(a) \in Nat /\ Len(b) \in Nat
         /\ Len(a \o b) = Len(a) + Len(b)
         /\ \A d, p, x : \A i \in Int : Act(a \o b, d, p, i, x) <=>
              Act(a, d, p, i, x) \/ Act(b, d, p, i - Len(a), x)
<1>1. /\ a \o b \in Seq(Step)
      /\ Len(a \o b) = Len(a) + Len(b)
      /\ \A i \in 1 .. Len(a) + Len(b) :
           (a \o b)[i] = IF i <= Len(a) THEN a[i] ELSE b[i - Len(a)]
  BY ConcatProperties
<1>2. Len(a) \in Nat /\ Len(b) \in Nat
  BY LenProperties
<1>3. DOMAIN a = 1..Len(a) /\ DOMAIN b = 1..Len(b) /\ DOMAIN (a \o b) = 1..Len(a \o b)
  BY <1>1, LenProperties
<1>4. ASSUME NEW d, NEW p, NEW x, NEW i \in Int
      PROVE  Act(a \o b, d, p, i, x) <=> Act(a, d, p, i, x) \/ Act(b, d, p, i - Len(a), x)
  <2>1. CASE i \in 1..Len(a)
    <3>1. (a \o b)[i] = a[i] /\ i \in DOMAIN (a \o b) /\ i \in DOMAIN a
      BY <2>1, <1>1, <1>2, <1>3
    <3>2. i - Len(a) \notin DOMAIN b
      BY <2>1, <1>2, <1>3
    <3> QED BY <3>1, <3>2 DEF Act
  <2>2. CASE i - Len(a) \in 1..Len(b)
    <3>1. (a \o b)[i] = b[i - Len(a)] /\ i \in DOMAIN (a \o b) /\ i - Len(a) \in DOMAIN b
      BY <2>2, <1>1, <1>2, <1>3
    <3>2. i \notin DOMAIN a
      BY <2>2, <1>2, <1>3
    <3> QED BY <3>1, <3>2 DEF Act
  <2>3. CASE i \notin 1..Len(a) /\ i - Len(a) \notin 1..Len(b)
    <3>1. i \notin DOMAIN (a \o b) /\ i - Len(a) \notin DOMAIN b /\ i \notin DOMAIN a
      BY <2>3, <1>1, <1>2, <1>3
    <3> QED BY <3>1 DEF Act
  <2> QED BY <2>1, <2>2, <2>3
<1> QED BY <1>1, <1>2, <1>4

LEMMA StaffSubset == \A r : Staff(r) \subseteq Rank
BY DEF Staff

\* What Down is made of: from the boss, to the staff.
LEMMA DownShape ==
  ASSUME NEW r \in Rank, NEW id \in Ids
  PROVE  /\ Down(r, id) \in Seq(Step)
         /\ Len(Down(r, id)) = (IF r = 0 THEN 0 ELSE 1) + (IF Staff(r) = {} THEN 0 ELSE 1)
         /\ \A d, p, x : \A i \in Int : Act(Down(r, id), d, p, i, x) <=>
              /\ x = id
              /\ \/ r # 0 /\ d = "recv" /\ i = 1 /\ p = Boss(r)
                 \/ d = "forward" /\ p \in Staff(r) /\ i = IF r = 0 THEN 1 ELSE 2
<1> DEFINE a == IF r = 0 THEN <<>> ELSE Do("recv", {Boss(r)}, id)
           b == ToAll("forward", Staff(r), id)
<1>1. /\ a \in Seq(Step) /\ Len(a) = IF r = 0 THEN 0 ELSE 1
      /\ \A d, p, i, x : Act(a, d, p, i, x) <=>
           r # 0 /\ i = 1 /\ d = "recv" /\ p = Boss(r) /\ x = id
  <2>1. CASE r = 0
    BY <2>1, NothingShape
  <2>2. CASE r # 0
    <3>1. {Boss(r)} \in SUBSET Rank /\ "recv" \in Dos
      BY <2>2, BossBelow DEF Dos
    <3>2. a = Do("recv", {Boss(r)}, id)
      BY <2>2
    <3> DEFINE peers == {Boss(r)}
    <3>3. peers \in SUBSET Rank /\ \A p : p \in peers <=> p = Boss(r)
      BY <3>1
    <3> HIDE DEF peers
    <3>4. /\ Do("recv", peers, id) \in Seq(Step) /\ Len(Do("recv", peers, id)) = 1
          /\ \A d, p, i, x : Act(Do("recv", peers, id), d, p, i, x) <=>
               i = 1 /\ d = "recv" /\ p \in peers /\ x = id
      BY <3>1, <3>3, DoShape
    <3>5. a = Do("recv", peers, id)
      BY <3>2 DEF peers
    <3> HIDE DEF a
    <3> QED BY <2>2, <3>3, <3>4, <3>5
  <2> QED BY <2>1, <2>2
<1>2. /\ b \in Seq(Step) /\ Len(b) = IF Staff(r) = {} THEN 0 ELSE 1
      /\ \A d, p, i, x : Act(b, d, p, i, x) <=>
           i = 1 /\ d = "forward" /\ p \in Staff(r) /\ x = id
  <2>1. Staff(r) \in SUBSET Rank /\ "forward" \in Dos
    BY StaffSubset DEF Dos
  <2> DEFINE peers == Staff(r)
  <2> HIDE DEF peers
  <2>2. peers \in SUBSET Rank
    BY <2>1 DEF peers
  <2>3. /\ ToAll("forward", peers, id) \in Seq(Step)
        /\ Len(ToAll("forward", peers, id)) = IF peers = {} THEN 0 ELSE 1
        /\ \A d, p, i, x : Act(ToAll("forward", peers, id), d, p, i, x) <=>
             i = 1 /\ d = "forward" /\ p \in peers /\ x = id
    BY <2>1, <2>2, ToAllShape
  <2> QED BY <2>3 DEF peers
<1> HIDE DEF a, b
<1>3. Down(r, id) = a \o b
  BY DEF Down, a, b
<1>4. /\ a \o b \in Seq(Step)
      /\ Len(a \o b) = Len(a) + Len(b)
      /\ \A d, p, x : \A i \in Int : Act(a \o b, d, p, i, x) <=>
           Act(a, d, p, i, x) \/ Act(b, d, p, i - Len(a), x)
  BY <1>1, <1>2, JoinShape
<1>5. ASSUME NEW d, NEW p, NEW x, NEW i \in Int
      PROVE  Act(a \o b, d, p, i, x) <=>
              /\ x = id
              /\ \/ r # 0 /\ d = "recv" /\ i = 1 /\ p = Boss(r)
                 \/ d = "forward" /\ p \in Staff(r) /\ i = IF r = 0 THEN 1 ELSE 2
  <2>1. Act(a \o b, d, p, i, x) <=> Act(a, d, p, i, x) \/ Act(b, d, p, i - Len(a), x)
    BY <1>4
  <2>2. Act(a, d, p, i, x) <=> r # 0 /\ i = 1 /\ d = "recv" /\ p = Boss(r) /\ x = id
    BY <1>1
  <2>3. Act(b, d, p, i - Len(a), x) <=>
          i - Len(a) = 1 /\ d = "forward" /\ p \in Staff(r) /\ x = id
    BY <1>2
  <2>4. i - Len(a) = 1 <=> i = IF r = 0 THEN 1 ELSE 2
    BY <1>1
  <2> QED BY <2>1, <2>2, <2>3, <2>4
<1> QED BY <1>1, <1>2, <1>3, <1>4, <1>5

LEMMA FromStaffShape ==
  ASSUME NEW r \in Rank, NEW id \in Ids
  PROVE  /\ FromStaff(r, id) \in Seq(Step)
         /\ Len(FromStaff(r, id)) = Count(r)
         /\ \A d, p, x : \A i \in Int : Act(FromStaff(r, id), d, p, i, x) <=>
              d = "recv" /\ i \in 1..Count(r) /\ p = r * Fan + i /\ x = id
<1> DEFINE f == FromStaff(r, id)
<1>1. f = [i \in 1..Count(r) |-> [do |-> "recv", peers |-> {r * Fan + i}, id |-> id]]
  BY DEF FromStaff, Count
<1>2. Count(r) \in Nat /\ \A i \in 1..Count(r) : r * Fan + i \in Rank
  BY StaffNumbered, StaffSubset
<1>3. \A i \in 1..Count(r) : f[i] \in Step
  BY <1>1, <1>2 DEF Step, Dos
<1>4. f \in Seq(Step) /\ Len(f) = Count(r) /\ DOMAIN f = 1..Count(r)
  BY <1>1, <1>2, <1>3, IsASeq
<1>5. \A i \in 1..Count(r) :
        f[i].do = "recv" /\ f[i].peers = {r * Fan + i} /\ f[i].id = id
  BY <1>1
<1> HIDE DEF f
<1>6. \A d, p, x : \A i \in Int : Act(f, d, p, i, x) <=>
              d = "recv" /\ i \in 1..Count(r) /\ p = r * Fan + i /\ x = id
  BY <1>4, <1>5 DEF Act
<1> QED BY <1>4, <1>6 DEF f

\* What Up is made of: from each of the staff in turn, to the boss.
LEMMA UpShape ==
  ASSUME NEW r \in Rank, NEW id \in Ids
  PROVE  /\ Up(r, id) \in Seq(Step)
         /\ Len(Up(r, id)) = Count(r) + (IF r = 0 THEN 0 ELSE 1)
         /\ \A d, p, x : \A i \in Int : Act(Up(r, id), d, p, i, x) <=>
              /\ x = id
              /\ \/ d = "recv" /\ i \in 1..Count(r) /\ p = r * Fan + i
                 \/ r # 0 /\ d = "report" /\ p = Boss(r) /\ i = Count(r) + 1
<1> DEFINE a == FromStaff(r, id)
           b == ToBoss(r, id)
<1>1. /\ a \in Seq(Step) /\ Len(a) = Count(r) /\ Count(r) \in Nat
      /\ \A d, p, x : \A i \in Int : Act(a, d, p, i, x) <=>
           d = "recv" /\ i \in 1..Count(r) /\ p = r * Fan + i /\ x = id
  BY FromStaffShape, StaffNumbered
<1>2. /\ b \in Seq(Step) /\ Len(b) = IF r = 0 THEN 0 ELSE 1
      /\ \A d, p, i, x : Act(b, d, p, i, x) <=>
           r # 0 /\ i = 1 /\ d = "report" /\ p = Boss(r) /\ x = id
  <2>1. CASE r = 0
    BY <2>1, NothingShape DEF ToBoss
  <2>2. CASE r # 0
    <3>1. {Boss(r)} \in SUBSET Rank /\ "report" \in Dos
      BY <2>2, BossBelow DEF Dos
    <3>2. b = Do("report", {Boss(r)}, id)
      BY <2>2 DEF ToBoss
    <3> DEFINE peers == {Boss(r)}
    <3>3. peers \in SUBSET Rank /\ \A p : p \in peers <=> p = Boss(r)
      BY <3>1
    <3> HIDE DEF peers
    <3>4. /\ Do("report", peers, id) \in Seq(Step) /\ Len(Do("report", peers, id)) = 1
          /\ \A d, p, i, x : Act(Do("report", peers, id), d, p, i, x) <=>
               i = 1 /\ d = "report" /\ p \in peers /\ x = id
      BY <3>1, <3>3, DoShape
    <3>5. b = Do("report", peers, id)
      BY <3>2 DEF peers
    <3> HIDE DEF b
    <3> QED BY <2>2, <3>3, <3>4, <3>5
  <2> QED BY <2>1, <2>2
<1> HIDE DEF a, b
<1>3. Up(r, id) = a \o b
  BY DEF Up, a, b
<1>4. /\ a \o b \in Seq(Step)
      /\ Len(a \o b) = Len(a) + Len(b)
      /\ \A d, p, x : \A i \in Int : Act(a \o b, d, p, i, x) <=>
           Act(a, d, p, i, x) \/ Act(b, d, p, i - Len(a), x)
  BY <1>1, <1>2, JoinShape
<1>5. ASSUME NEW d, NEW p, NEW x, NEW i \in Int
      PROVE  Act(a \o b, d, p, i, x) <=>
              /\ x = id
              /\ \/ d = "recv" /\ i \in 1..Count(r) /\ p = r * Fan + i
                 \/ r # 0 /\ d = "report" /\ p = Boss(r) /\ i = Count(r) + 1
  <2>1. Act(a \o b, d, p, i, x) <=> Act(a, d, p, i, x) \/ Act(b, d, p, i - Len(a), x)
    BY <1>4
  <2>2. Act(a, d, p, i, x) <=>
          d = "recv" /\ i \in 1..Count(r) /\ p = r * Fan + i /\ x = id
    BY <1>1
  <2>3. Act(b, d, p, i - Len(a), x) <=>
          r # 0 /\ i - Len(a) = 1 /\ d = "report" /\ p = Boss(r) /\ x = id
    BY <1>2
  <2>4. i - Len(a) = 1 <=> i = Count(r) + 1
    BY <1>1
  <2> QED BY <2>1, <2>2, <2>3, <2>4
<1> QED BY <1>1, <1>2, <1>3, <1>4, <1>5

\* The plan a of rank r goes once down the tree, for the one id of `down', and
\* once up, for the one id of `up', or does only one of them.
TreePlan(r, a, down, up) ==
  \E n, m \in Nat : \A d, p, x : \A i \in Int : Act(a, d, p, i, x) <=>
    \/ /\ x \in down
       /\ \/ r # 0 /\ d = "recv" /\ i = n + 1 /\ p = Boss(r)
          \/ d = "forward" /\ p \in Staff(r) /\ i = IF r = 0 THEN n + 1 ELSE n + 2
    \/ /\ x \in up
       /\ \/ d = "recv" /\ i - m \in 1..Count(r) /\ p = r * Fan + (i - m)
          \/ r # 0 /\ d = "report" /\ p = Boss(r) /\ i = m + Count(r) + 1

LEMMA ExchangeShape ==
  ASSUME NEW r \in Rank, NEW e \in Seq(Step), \A d, p, i, x : ~Act(e, d, p, i, x),
         NEW xd \in Ids, NEW xu \in Ids
  PROVE  /\ e \o Down(r, xd) \o Up(r, xu) \in Seq(Step)
         /\ Len(e \o Down(r, xd) \o Up(r, xu))
              = Len(e) + Len(Down(r, xd)) + Len(Up(r, xu))
         /\ TreePlan(r, e \o Down(r, xd) \o Up(r, xu), {xd}, {xu})
<1> DEFINE f == e \o Down(r, xd)
           g == f \o Up(r, xu)
           n == Len(e)
           m == Len(f)
<1>1. /\ f \in Seq(Step) /\ n \in Nat /\ Len(f) = n + Len(Down(r, xd))
      /\ \A d, p, x : \A i \in Int : Act(f, d, p, i, x) <=>
           Act(e, d, p, i, x) \/ Act(Down(r, xd), d, p, i - n, x)
  BY JoinShape, DownShape
<1>2. /\ g \in Seq(Step) /\ m \in Nat /\ Len(g) = m + Len(Up(r, xu))
      /\ \A d, p, x : \A i \in Int : Act(g, d, p, i, x) <=>
           Act(f, d, p, i, x) \/ Act(Up(r, xu), d, p, i - m, x)
  <2> HIDE DEF f
  <2> QED BY <1>1, JoinShape, UpShape
<1> HIDE DEF f, g, n, m
<1>3. ASSUME NEW d, NEW p, NEW x, NEW i \in Int
      PROVE  Act(g, d, p, i, x) <=>
    \/ /\ x \in {xd}
       /\ \/ r # 0 /\ d = "recv" /\ i = n + 1 /\ p = Boss(r)
          \/ d = "forward" /\ p \in Staff(r) /\ i = IF r = 0 THEN n + 1 ELSE n + 2
    \/ /\ x \in {xu}
       /\ \/ d = "recv" /\ i - m \in 1..Count(r) /\ p = r * Fan + (i - m)
          \/ r # 0 /\ d = "report" /\ p = Boss(r) /\ i = m + Count(r) + 1
  <2>1. Act(g, d, p, i, x) <=> Act(Down(r, xd), d, p, i - n, x) \/ Act(Up(r, xu), d, p, i - m, x)
    BY <1>1, <1>2
  <2>2. Act(Down(r, xd), d, p, i - n, x) <=>
          /\ x = xd
          /\ \/ r # 0 /\ d = "recv" /\ i - n = 1 /\ p = Boss(r)
             \/ d = "forward" /\ p \in Staff(r) /\ i - n = IF r = 0 THEN 1 ELSE 2
    BY <1>1, DownShape
  <2>3. Act(Up(r, xu), d, p, i - m, x) <=>
          /\ x = xu
          /\ \/ d = "recv" /\ i - m \in 1..Count(r) /\ p = r * Fan + (i - m)
             \/ r # 0 /\ d = "report" /\ p = Boss(r) /\ i - m = Count(r) + 1
    BY <1>2, UpShape
  <2>4. /\ i - n = 1 <=> i = n + 1
        /\ i - n = (IF r = 0 THEN 1 ELSE 2) <=> i = IF r = 0 THEN n + 1 ELSE n + 2
    <3>1. n \in Nat
      BY <1>1
    <3> QED BY <3>1
  <2>5. i - m = Count(r) + 1 <=> i = m + Count(r) + 1
    <3>1. m \in Nat /\ Count(r) \in Nat
      BY <1>2, StaffNumbered
    <3> QED BY <3>1
  <2> QED BY <2>1, <2>2, <2>3, <2>4, <2>5
<1>4. TreePlan(r, g, {xd}, {xu})
  BY <1>1, <1>2, <1>3 DEF TreePlan
<1>5. g = e \o Down(r, xd) \o Up(r, xu) /\ n = Len(e) /\ m = Len(f)
  BY DEF g, f, n, m
<1> QED BY <1>1, <1>2, <1>4, <1>5

\* The ids of the messages that go down and up in an operation.
DownIds(op, t, k) ==
  (IF op = "exec" THEN {Id("cmd", t, k)} ELSE {})
    \cup (IF op = "out" THEN {Id("out", t, k)} ELSE {})
    \cup (IF op = "include" THEN {Id("file", t, k)} ELSE {})
UpIds(op, t, k) ==
  (IF op = "exec" THEN {Id("ack", t, k)} ELSE {})
    \cup (IF op = "in" THEN {Id("in", t, k)} ELSE {})
    \cup (IF op = "include" THEN {Id("read", t, k)} ELSE {})

LEMMA CommandShape ==
  ASSUME NEW r \in Rank, NEW t \in Nat
  PROVE  /\ Command(r, t) \in Seq(Step) /\ Len(Command(r, t)) \in Nat
         /\ Len(Command(r, t)) >= 2
         /\ TreePlan(r, Command(r, t), DownIds("exec", t, 0), UpIds("exec", t, 0))
<1> DEFINE xd == Id("cmd", t, 0)
           xu == Id("ack", t, 0)
           e == IF r = 0 THEN Do("exec", {}, xd) ELSE <<>>
<1>1. xd \in Ids /\ xu \in Ids
  BY IdType DEF Kinds
<1>2. e \in Seq(Step) /\ Len(e) = (IF r = 0 THEN 1 ELSE 0) /\ \A d, p, i, x : ~Act(e, d, p, i, x)
  <2>1. CASE r = 0
    <3>1. {} \in SUBSET Rank /\ "exec" \in Dos
      BY DEF Dos
    <3> HIDE DEF xd
    <3>2. /\ Do("exec", {}, xd) \in Seq(Step) /\ Len(Do("exec", {}, xd)) = 1
          /\ \A d, p, i, x : Act(Do("exec", {}, xd), d, p, i, x) <=>
               i = 1 /\ d = "exec" /\ p \in {} /\ x = xd
      BY <3>1, <1>1, DoShape
    <3> QED BY <2>1, <3>2
  <2>2. CASE r # 0
    BY <2>2, NothingShape
  <2> QED BY <2>1, <2>2
<1>3. Command(r, t) = e \o Down(r, xd) \o Up(r, xu)
  BY DEF Command
<1>4. DownIds("exec", t, 0) = {xd} /\ UpIds("exec", t, 0) = {xu}
  BY DEF DownIds, UpIds
<1> HIDE DEF xd, xu, e
<1>5. /\ Command(r, t) \in Seq(Step)
      /\ Len(Command(r, t)) = Len(e) + Len(Down(r, xd)) + Len(Up(r, xu))
      /\ TreePlan(r, Command(r, t), {xd}, {xu})
  <2>1. /\ e \o Down(r, xd) \o Up(r, xu) \in Seq(Step)
        /\ Len(e \o Down(r, xd) \o Up(r, xu))
             = Len(e) + Len(Down(r, xd)) + Len(Up(r, xu))
        /\ TreePlan(r, e \o Down(r, xd) \o Up(r, xu), {xd}, {xu})
    BY <1>1, <1>2, ExchangeShape
  <2> QED BY <2>1, <1>3
<1>6. Len(Command(r, t)) \in Nat /\ Len(Command(r, t)) >= 2
  <2>1. Len(Down(r, xd)) = (IF r = 0 THEN 0 ELSE 1) + (IF Staff(r) = {} THEN 0 ELSE 1)
    BY <1>1, DownShape
  <2>2. Len(Up(r, xu)) = Count(r) + (IF r = 0 THEN 0 ELSE 1) /\ Count(r) \in Nat
    BY <1>1, UpShape, StaffNumbered
  <2>3. r = 0 => Staff(r) # {}
    BY RootHasStaff
  <2> QED BY <1>2, <1>5, <2>1, <2>2, <2>3
<1> QED BY <1>4, <1>5, <1>6

LEMMA IncludeShape ==
  ASSUME NEW r \in Rank, NEW t \in Nat, NEW k \in Nat
  PROVE  /\ Include(r, t, k) \in Seq(Step) /\ Len(Include(r, t, k)) \in Nat
         /\ Len(Include(r, t, k)) >= 1
         /\ TreePlan(r, Include(r, t, k), DownIds("include", t, k), UpIds("include", t, k))
<1> DEFINE xd == Id("file", t, k)
           xu == Id("read", t, k)
           xl == Id("load", t, k)
           e == IF r = 0 THEN Do("open", {}, xd) ELSE <<>>
           g == e \o Down(r, xd) \o Up(r, xu)
           l == Do("load", {}, xl)
<1>1. xd \in Ids /\ xu \in Ids /\ xl \in Ids
  BY IdType DEF Kinds
<1>0. {} \in SUBSET Rank /\ "open" \in Dos /\ "load" \in Dos
  BY DEF Dos
<1>2. e \in Seq(Step) /\ \A d, p, i, x : ~Act(e, d, p, i, x)
  <2>1. CASE r = 0
    <3> HIDE DEF xd
    <3>2. /\ Do("open", {}, xd) \in Seq(Step) /\ Len(Do("open", {}, xd)) = 1
          /\ \A d, p, i, x : Act(Do("open", {}, xd), d, p, i, x) <=>
               i = 1 /\ d = "open" /\ p \in {} /\ x = xd
      BY <1>0, <1>1, DoShape
    <3> QED BY <2>1, <3>2
  <2>2. CASE r # 0
    BY <2>2, NothingShape
  <2> QED BY <2>1, <2>2
<1>3. Include(r, t, k) = g \o l
  BY DEF Include
<1>4. DownIds("include", t, k) = {xd} /\ UpIds("include", t, k) = {xu}
  BY DEF DownIds, UpIds
<1>5. g \in Seq(Step) /\ TreePlan(r, g, {xd}, {xu})
  <2> HIDE DEF xd, xu, e
  <2> QED BY <1>1, <1>2, ExchangeShape
<1>6. l \in Seq(Step) /\ Len(l) = 1 /\ \A d, p, i, x : ~Act(l, d, p, i, x)
  <2> HIDE DEF xl
  <2>1. /\ Do("load", {}, xl) \in Seq(Step) /\ Len(Do("load", {}, xl)) = 1
        /\ \A d, p, i, x : Act(Do("load", {}, xl), d, p, i, x) <=>
               i = 1 /\ d = "load" /\ p \in {} /\ x = xl
    BY <1>0, <1>1, DoShape
  <2> QED BY <2>1
<1> HIDE DEF xd, xu, xl, e, g, l
<1>7. /\ g \o l \in Seq(Step) /\ Len(g \o l) = Len(g) + Len(l) /\ Len(g) \in Nat
      /\ \A d, p, x : \A i \in Int : Act(g \o l, d, p, i, x) <=>
           Act(g, d, p, i, x) \/ Act(l, d, p, i - Len(g), x)
  BY <1>5, <1>6, JoinShape
<1>8. TreePlan(r, g \o l, {xd}, {xu})
  <2>1. \A d, p, x : \A i \in Int : Act(g \o l, d, p, i, x) <=> Act(g, d, p, i, x)
    BY <1>6, <1>7
  <2>2. PICK n, m \in Nat : \A d, p, x : \A i \in Int : Act(g, d, p, i, x) <=>
    \/ /\ x \in {xd}
       /\ \/ r # 0 /\ d = "recv" /\ i = n + 1 /\ p = Boss(r)
          \/ d = "forward" /\ p \in Staff(r) /\ i = IF r = 0 THEN n + 1 ELSE n + 2
    \/ /\ x \in {xu}
       /\ \/ d = "recv" /\ i - m \in 1..Count(r) /\ p = r * Fan + (i - m)
          \/ r # 0 /\ d = "report" /\ p = Boss(r) /\ i = m + Count(r) + 1
    BY <1>5 DEF TreePlan
  <2>3. \A d, p, x : \A i \in Int : Act(g \o l, d, p, i, x) <=>
    \/ /\ x \in {xd}
       /\ \/ r # 0 /\ d = "recv" /\ i = n + 1 /\ p = Boss(r)
          \/ d = "forward" /\ p \in Staff(r) /\ i = IF r = 0 THEN n + 1 ELSE n + 2
    \/ /\ x \in {xu}
       /\ \/ d = "recv" /\ i - m \in 1..Count(r) /\ p = r * Fan + (i - m)
          \/ r # 0 /\ d = "report" /\ p = Boss(r) /\ i = m + Count(r) + 1
    BY <2>1, <2>2
  <2> QED BY <2>3 DEF TreePlan
<1>9. Len(g \o l) \in Nat /\ Len(g \o l) >= 1
  BY <1>6, <1>7
<1> QED BY <1>3, <1>4, <1>7, <1>8, <1>9

LEMMA OutShape ==
  ASSUME NEW r \in Rank, NEW id \in Ids
  PROVE  /\ Len(Down(r, id)) \in Nat /\ Len(Down(r, id)) >= 1
         /\ TreePlan(r, Down(r, id), {id}, {})
<1>1. /\ Down(r, id) \in Seq(Step)
      /\ Len(Down(r, id)) = (IF r = 0 THEN 0 ELSE 1) + (IF Staff(r) = {} THEN 0 ELSE 1)
      /\ \A d, p, x : \A i \in Int : Act(Down(r, id), d, p, i, x) <=>
              /\ x = id
              /\ \/ r # 0 /\ d = "recv" /\ i = 1 /\ p = Boss(r)
                 \/ d = "forward" /\ p \in Staff(r) /\ i = IF r = 0 THEN 1 ELSE 2
  BY DownShape
<1>2. Len(Down(r, id)) \in Nat /\ Len(Down(r, id)) >= 1
  BY <1>1, RootHasStaff
<1>3. \A d, p, x : \A i \in Int : Act(Down(r, id), d, p, i, x) <=>
    \/ /\ x \in {id}
       /\ \/ r # 0 /\ d = "recv" /\ i = 0 + 1 /\ p = Boss(r)
          \/ d = "forward" /\ p \in Staff(r) /\ i = IF r = 0 THEN 0 + 1 ELSE 0 + 2
    \/ /\ x \in {}
       /\ \/ d = "recv" /\ i - 0 \in 1..Count(r) /\ p = r * Fan + (i - 0)
          \/ r # 0 /\ d = "report" /\ p = Boss(r) /\ i = 0 + Count(r) + 1
  BY <1>1
<1>4. 0 \in Nat
  OBVIOUS
<1> QED BY <1>2, <1>3, <1>4 DEF TreePlan

LEMMA InShape ==
  ASSUME NEW r \in Rank, NEW id \in Ids
  PROVE  /\ Len(Up(r, id)) \in Nat /\ Len(Up(r, id)) >= 1
         /\ TreePlan(r, Up(r, id), {}, {id})
<1>1. /\ Up(r, id) \in Seq(Step)
      /\ Len(Up(r, id)) = Count(r) + (IF r = 0 THEN 0 ELSE 1)
      /\ \A d, p, x : \A i \in Int : Act(Up(r, id), d, p, i, x) <=>
              /\ x = id
              /\ \/ d = "recv" /\ i \in 1..Count(r) /\ p = r * Fan + i
                 \/ r # 0 /\ d = "report" /\ p = Boss(r) /\ i = Count(r) + 1
  BY UpShape
<1>2. Len(Up(r, id)) \in Nat /\ Len(Up(r, id)) >= 1
  BY <1>1, RootHasStaff, StaffNumbered
<1>3. ASSUME NEW d, NEW p, NEW x, NEW i \in Int
      PROVE Act(Up(r, id), d, p, i, x) <=>
    \/ /\ x \in {}
       /\ \/ r # 0 /\ d = "recv" /\ i = 0 + 1 /\ p = Boss(r)
          \/ d = "forward" /\ p \in Staff(r) /\ i = IF r = 0 THEN 0 + 1 ELSE 0 + 2
    \/ /\ x \in {id}
       /\ \/ d = "recv" /\ i - 0 \in 1..Count(r) /\ p = r * Fan + (i - 0)
          \/ r # 0 /\ d = "report" /\ p = Boss(r) /\ i = 0 + Count(r) + 1
  <2>1. i - 0 = i /\ 0 + Count(r) + 1 = Count(r) + 1
    BY StaffNumbered
  <2> QED BY <1>1, <2>1
<1>4. 0 \in Nat
  OBVIOUS
<1> QED BY <1>2, <1>3, <1>4 DEF TreePlan

\* Every operation but the ring follows the tree.
LEMMA TreeShape ==
  ASSUME NEW op \in AllOps, op # "ring", NEW r \in Rank, NEW t \in Nat, NEW k \in Nat,
         op = "exec" => k = 0
  PROVE  /\ Operation(op, r, t, k) \in Seq(Step)
         /\ Len(Operation(op, r, t, k)) \in Nat /\ Len(Operation(op, r, t, k)) >= 1
         /\ TreePlan(r, Operation(op, r, t, k), DownIds(op, t, k), UpIds(op, t, k))
<1>1. CASE op = "exec"
  <2>1. Operation(op, r, t, k) = Command(r, t) /\ k = 0
    BY <1>1 DEF Operation
  <2> QED BY <1>1, <2>1, CommandShape
<1>2. CASE op = "out"
  <2>1. Operation(op, r, t, k) = Down(r, Id("out", t, k)) /\ Id("out", t, k) \in Ids
    BY <1>2, IdType DEF Operation, Kinds
  <2>2. DownIds(op, t, k) = {Id("out", t, k)} /\ UpIds(op, t, k) = {}
    BY <1>2 DEF DownIds, UpIds
  <2> QED BY <2>1, <2>2, OutShape, DownShape
<1>3. CASE op = "in"
  <2>1. Operation(op, r, t, k) = Up(r, Id("in", t, k)) /\ Id("in", t, k) \in Ids
    BY <1>3, IdType DEF Operation, Kinds
  <2>2. DownIds(op, t, k) = {} /\ UpIds(op, t, k) = {Id("in", t, k)}
    BY <1>3 DEF DownIds, UpIds
  <2> DEFINE id == Id("in", t, k)
  <2> HIDE DEF id
  <2>3. id \in Ids
    BY <2>1 DEF id
  <2>4. /\ Up(r, id) \in Seq(Step) /\ Len(Up(r, id)) \in Nat /\ Len(Up(r, id)) >= 1
        /\ TreePlan(r, Up(r, id), {}, {id})
    BY <2>3, InShape, UpShape
  <2> QED BY <2>1, <2>2, <2>4 DEF id
<1>4. CASE op = "include"
  <2>1. Operation(op, r, t, k) = Include(r, t, k)
    BY <1>4 DEF Operation
  <2> QED BY <1>4, <2>1, IncludeShape
<1> QED BY <1>1, <1>2, <1>3, <1>4 DEF AllOps, Operations

Sending == {"forward", "report", "send"}
Single(S) == \A x, y \in S : x = y

LEMMA TreeSends ==
  ASSUME NEW s \in Rank, NEW a, NEW down, NEW up, Single(down), Single(up),
         TreePlan(s, a, down, up), NEW p \in Rank, NEW d \in Sending, NEW e \in Sending,
         NEW i \in Int, NEW j \in Int, NEW x, NEW y,
         Act(a, d, p, i, x), Act(a, e, p, j, y)
  PROVE  i = j /\ d = e /\ x = y
<1>1. PICK n, m \in Nat : \A do, q, z : \A h \in Int : Act(a, do, q, h, z) <=>
    \/ /\ z \in down
       /\ \/ s # 0 /\ do = "recv" /\ h = n + 1 /\ q = Boss(s)
          \/ do = "forward" /\ q \in Staff(s) /\ h = IF s = 0 THEN n + 1 ELSE n + 2
    \/ /\ z \in up
       /\ \/ do = "recv" /\ h - m \in 1..Count(s) /\ q = s * Fan + (h - m)
          \/ s # 0 /\ do = "report" /\ q = Boss(s) /\ h = m + Count(s) + 1
  BY DEF TreePlan
<1>2. \/ x \in down /\ d = "forward" /\ p \in Staff(s) /\ i = IF s = 0 THEN n + 1 ELSE n + 2
      \/ x \in up /\ s # 0 /\ d = "report" /\ p = Boss(s) /\ i = m + Count(s) + 1
  BY <1>1 DEF Sending
<1>3. \/ y \in down /\ e = "forward" /\ p \in Staff(s) /\ j = IF s = 0 THEN n + 1 ELSE n + 2
      \/ y \in up /\ s # 0 /\ e = "report" /\ p = Boss(s) /\ j = m + Count(s) + 1
  BY <1>1 DEF Sending
<1>4. ~(p \in Staff(s) /\ s # 0 /\ p = Boss(s))
  BY StaffAbove, BossBelow DEF Rank
<1> QED BY <1>2, <1>3, <1>4 DEF Single

LEMMA TreeReceives ==
  ASSUME NEW r \in Rank, NEW a, NEW down, NEW up, Single(down), Single(up), down \cap up = {},
         TreePlan(r, a, down, up), NEW p, NEW q,
         NEW i \in Int, NEW j \in Int, NEW x, NEW y,
         Act(a, "recv", p, i, x), Act(a, "recv", q, j, y), p = q \/ i = j
  PROVE  i = j /\ p = q /\ x = y
<1>1. PICK n, m \in Nat : \A do, o, z : \A h \in Int : Act(a, do, o, h, z) <=>
    \/ /\ z \in down
       /\ \/ r # 0 /\ do = "recv" /\ h = n + 1 /\ o = Boss(r)
          \/ do = "forward" /\ o \in Staff(r) /\ h = IF r = 0 THEN n + 1 ELSE n + 2
    \/ /\ z \in up
       /\ \/ do = "recv" /\ h - m \in 1..Count(r) /\ o = r * Fan + (h - m)
          \/ r # 0 /\ do = "report" /\ o = Boss(r) /\ h = m + Count(r) + 1
  BY DEF TreePlan
<1>2. \/ x \in down /\ r # 0 /\ i = n + 1 /\ p = Boss(r)
      \/ x \in up /\ i - m \in 1..Count(r) /\ p = r * Fan + (i - m)
  BY <1>1
<1>3. \/ y \in down /\ r # 0 /\ j = n + 1 /\ q = Boss(r)
      \/ y \in up /\ j - m \in 1..Count(r) /\ q = r * Fan + (j - m)
  BY <1>1
<1>4. i = j => x = y
  BY DEF Act
<1>5. r * Fan \in Int
  BY FanAssumption DEF Rank
<1>6. \A h \in Int : h - m \in 1..Count(r) => r * Fan + (h - m) \in Staff(r)
  BY StaffNumbered
<1>7. \A h \in Int : h - m \in 1..Count(r) /\ r # 0 => r * Fan + (h - m) # Boss(r)
  BY <1>6, StaffAbove, BossBelow DEF Rank
<1>8. CASE x \in down /\ y \in down
  <2>1. x \notin up /\ y \notin up
    BY <1>8
  <2> QED BY <1>2, <1>3, <1>8, <2>1 DEF Single
<1>9. CASE x \in up /\ y \in up
  <2>1. x \notin down /\ y \notin down
    BY <1>9
  <2>2. p = r * Fan + (i - m) /\ q = r * Fan + (j - m)
    BY <1>2, <1>3, <2>1
  <2>3. p = q <=> i = j
    BY <2>2, <1>5
  <2> QED BY <2>3, <1>9 DEF Single
<1>10. CASE x \in down /\ y \in up
  <2>1. x \notin up /\ y \notin down
    BY <1>10
  <2> QED BY <1>2, <1>3, <1>4, <1>7, <2>1, <1>10
<1>11. CASE x \in up /\ y \in down
  <2>1. x \notin down /\ y \notin up
    BY <1>11
  <2> QED BY <1>2, <1>3, <1>4, <1>7, <2>1, <1>11
<1> QED BY <1>2, <1>3, <1>8, <1>9, <1>10, <1>11

\* What one rank sends another, the other receives.
LEMMA TreeMatched ==
  ASSUME NEW s \in Rank, NEW r \in Rank, NEW a, NEW b, NEW down, NEW up,
         TreePlan(s, a, down, up), TreePlan(r, b, down, up), NEW x
  PROVE  (\E d \in Sending : \E i \in Int : Act(a, d, r, i, x))
           <=> \E j \in Int : Act(b, "recv", s, j, x)
<1>1. PICK n, m \in Nat : \A do, o, z : \A h \in Int : Act(a, do, o, h, z) <=>
    \/ /\ z \in down
       /\ \/ s # 0 /\ do = "recv" /\ h = n + 1 /\ o = Boss(s)
          \/ do = "forward" /\ o \in Staff(s) /\ h = IF s = 0 THEN n + 1 ELSE n + 2
    \/ /\ z \in up
       /\ \/ do = "recv" /\ h - m \in 1..Count(s) /\ o = s * Fan + (h - m)
          \/ s # 0 /\ do = "report" /\ o = Boss(s) /\ h = m + Count(s) + 1
  BY DEF TreePlan
<1>2. PICK k, l \in Nat : \A do, o, z : \A h \in Int : Act(b, do, o, h, z) <=>
    \/ /\ z \in down
       /\ \/ r # 0 /\ do = "recv" /\ h = k + 1 /\ o = Boss(r)
          \/ do = "forward" /\ o \in Staff(r) /\ h = IF r = 0 THEN k + 1 ELSE k + 2
    \/ /\ z \in up
       /\ \/ do = "recv" /\ h - l \in 1..Count(r) /\ o = r * Fan + (h - l)
          \/ r # 0 /\ do = "report" /\ o = Boss(r) /\ h = l + Count(r) + 1
  BY DEF TreePlan
<1>3. Count(s) \in Nat /\ Count(r) \in Nat /\ r * Fan \in Int
  BY StaffNumbered, FanAssumption DEF Rank
<1>4. (\E d \in Sending : \E i \in Int : Act(a, d, r, i, x)) <=>
        (x \in down /\ r \in Staff(s)) \/ (x \in up /\ s # 0 /\ r = Boss(s))
  <2>1. ASSUME NEW d \in Sending, NEW i \in Int, Act(a, d, r, i, x)
        PROVE  (x \in down /\ r \in Staff(s)) \/ (x \in up /\ s # 0 /\ r = Boss(s))
    BY <1>1, <2>1 DEF Sending
  <2>2. ASSUME x \in down /\ r \in Staff(s)
        PROVE  \E d \in Sending : \E i \in Int : Act(a, d, r, i, x)
    <3> DEFINE i == IF s = 0 THEN n + 1 ELSE n + 2
    <3>1. i \in Int /\ "forward" \in Sending
      BY DEF Sending
    <3>2. Act(a, "forward", r, i, x)
      BY <1>1, <2>2, <3>1
    <3> QED BY <3>1, <3>2
  <2>3. ASSUME x \in up /\ s # 0 /\ r = Boss(s)
        PROVE  \E d \in Sending : \E i \in Int : Act(a, d, r, i, x)
    <3> DEFINE i == m + Count(s) + 1
    <3>1. i \in Int /\ "report" \in Sending
      BY <1>3 DEF Sending
    <3>2. Act(a, "report", r, i, x)
      BY <1>1, <2>3, <3>1
    <3> QED BY <3>1, <3>2
  <2> QED BY <2>1, <2>2, <2>3
<1>5. (\E j \in Int : Act(b, "recv", s, j, x)) <=>
        (x \in down /\ r # 0 /\ s = Boss(r)) \/ (x \in up /\ s \in Staff(r))
  <2>1. ASSUME NEW j \in Int, Act(b, "recv", s, j, x)
        PROVE  (x \in down /\ r # 0 /\ s = Boss(r)) \/ (x \in up /\ s \in Staff(r))
    <3>1. \/ x \in down /\ r # 0 /\ s = Boss(r)
          \/ x \in up /\ j - l \in 1..Count(r) /\ s = r * Fan + (j - l)
      BY <1>2, <2>1
    <3> QED BY <3>1, StaffNumbered
  <2>2. ASSUME x \in down /\ r # 0 /\ s = Boss(r)
        PROVE  \E j \in Int : Act(b, "recv", s, j, x)
    <3>1. k + 1 \in Int
      OBVIOUS
    <3>2. Act(b, "recv", s, k + 1, x)
      BY <1>2, <2>2, <3>1
    <3> QED BY <3>1, <3>2
  <2>3. ASSUME x \in up /\ s \in Staff(r)
        PROVE  \E j \in Int : Act(b, "recv", s, j, x)
    <3> DEFINE j == l + (s - r * Fan)
    <3>1. s - r * Fan \in 1..Count(r) /\ s \in Int
      BY <2>3, StaffNumbered
    <3>2. j \in Int /\ j - l = s - r * Fan /\ s = r * Fan + (j - l)
      BY <1>3, <3>1
    <3> HIDE DEF j
    <3>3. Act(b, "recv", s, j, x)
      BY <1>2, <2>3, <3>1, <3>2
    <3> QED BY <3>2, <3>3
  <2> QED BY <2>1, <2>2, <2>3
<1>6. /\ r \in Staff(s) <=> r # 0 /\ s = Boss(r)
      /\ s \in Staff(r) <=> s # 0 /\ r = Boss(s)
  BY StaffAbove, BossBelow
<1> QED BY <1>4, <1>5, <1>6

\* What goes up has been collected from all the staff.
LEMMA TreeCollects ==
  ASSUME NEW r \in Rank, NEW a, NEW down, NEW up, down \cap up = {}, TreePlan(r, a, down, up),
         NEW x \in up
  PROVE  /\ \A c \in Staff(r) : \E j \in Int : Act(a, "recv", c, j, x)
         /\ \A i, j \in Int : \A p, c : Act(a, "report", p, i, x) /\ Act(a, "recv", c, j, x) => j < i
<1>1. PICK n, m \in Nat : \A do, o, z : \A h \in Int : Act(a, do, o, h, z) <=>
    \/ /\ z \in down
       /\ \/ r # 0 /\ do = "recv" /\ h = n + 1 /\ o = Boss(r)
          \/ do = "forward" /\ o \in Staff(r) /\ h = IF r = 0 THEN n + 1 ELSE n + 2
    \/ /\ z \in up
       /\ \/ do = "recv" /\ h - m \in 1..Count(r) /\ o = r * Fan + (h - m)
          \/ r # 0 /\ do = "report" /\ o = Boss(r) /\ h = m + Count(r) + 1
  BY DEF TreePlan
<1>2. Count(r) \in Nat /\ r * Fan \in Int /\ x \notin down
  BY StaffNumbered, FanAssumption DEF Rank
<1>3. ASSUME NEW c \in Staff(r)
      PROVE  \E j \in Int : Act(a, "recv", c, j, x)
    <3> DEFINE j == m + (c - r * Fan)
    <3>1. c - r * Fan \in 1..Count(r) /\ c \in Int
      BY StaffNumbered
    <3>2. j \in Int /\ j - m = c - r * Fan /\ c = r * Fan + (j - m)
      BY <1>2, <3>1
    <3> HIDE DEF j
    <3>3. Act(a, "recv", c, j, x)
      BY <1>1, <3>1, <3>2
    <3> QED BY <3>2, <3>3
<1>4. ASSUME NEW i \in Int, NEW j \in Int, NEW p, NEW c,
             Act(a, "report", p, i, x), Act(a, "recv", c, j, x)
      PROVE  j < i
  <2>1. i = m + Count(r) + 1
    BY <1>1, <1>2, <1>4
  <2>2. j - m \in 1..Count(r)
    BY <1>1, <1>2, <1>4
  <2> QED BY <1>2, <2>1, <2>2
<1> QED BY <1>3, <1>4

\* The ring of testmp2: each rank has one neighbour it sends to and one it
\* receives from.
LEMMA Neighbours ==
  ASSUME NEW r \in Rank
  PROVE  /\ (r + 1) % Size \in Rank /\ (r + 1) % Size # r
         /\ (r + Size - 1) % Size \in Rank /\ (r + Size - 1) % Size # r
         /\ \A q \in Rank : q = (r + 1) % Size <=> r = (q + Size - 1) % Size
<1>0. r \in Nat /\ r < Size /\ Size \in Nat /\ Size >= 2
  BY SizeAssumption DEF Rank
<1>1. ASSUME NEW n \in Nat, n < Size
      PROVE  n % Size = n
  BY <1>0, <1>1, Z3
<1>2. ASSUME NEW n \in Nat, n < Size
      PROVE  (n + Size) % Size = n
  BY <1>0, <1>2, Z3
<1>3. ASSUME NEW q \in Rank
      PROVE  (q + 1) % Size = IF q = Size - 1 THEN 0 ELSE q + 1
  <2>0. q \in Nat /\ q < Size
    BY <1>0 DEF Rank
  <2>1. CASE q = Size - 1
    <3>1. q + 1 = 0 + Size
      BY <2>1, <1>0
    <3>2. (0 + Size) % Size = 0
      BY <1>0, <1>2
    <3> QED BY <3>1, <3>2, <2>1
  <2>2. CASE q # Size - 1
    <3>1. q + 1 \in Nat /\ q + 1 < Size
      BY <2>0, <2>2, <1>0
    <3> QED BY <3>1, <1>1, <2>2
  <2> QED BY <2>1, <2>2
<1>4. ASSUME NEW q \in Rank
      PROVE  (q + Size - 1) % Size = IF q = 0 THEN Size - 1 ELSE q - 1
  <2>0. q \in Nat /\ q < Size
    BY <1>0 DEF Rank
  <2>1. CASE q = 0
    <3>1. q + Size - 1 = Size - 1 /\ Size - 1 \in Nat /\ Size - 1 < Size
      BY <2>1, <1>0
    <3>2. (Size - 1) % Size = Size - 1
      BY <3>1, <1>1
    <3> QED BY <3>1, <3>2, <2>1
  <2>2. CASE q # 0
    <3>1. q + Size - 1 = (q - 1) + Size /\ q - 1 \in Nat /\ q - 1 < Size
      BY <2>0, <2>2, <1>0
    <3>2. ((q - 1) + Size) % Size = q - 1
      BY <3>1, <1>2
    <3> QED BY <3>1, <3>2, <2>2
  <2> QED BY <2>1, <2>2
<1> DEFINE to(q) == (q + 1) % Size
           from(q) == (q + Size - 1) % Size
<1>5. \A q \in Rank : /\ to(q) = IF q = Size - 1 THEN 0 ELSE q + 1
                      /\ from(q) = IF q = 0 THEN Size - 1 ELSE q - 1
  BY <1>3, <1>4
<1> HIDE DEF to, from
<1>6. /\ to(r) \in Rank /\ to(r) # r /\ from(r) \in Rank /\ from(r) # r
      /\ \A q \in Rank : q = to(r) <=> r = from(q)
  BY <1>0, <1>5 DEF Rank
<1> QED BY <1>6 DEF to, from

\* The plan a of rank r: it sends to one neighbour and receives from the other.
RingActs(r, a, id, n, m) ==
  \A d, p, x : \A i \in Int : Act(a, d, p, i, x) <=>
    /\ x = id
    /\ \/ d = "send" /\ p = (r + 1) % Size /\ i = n
       \/ d = "recv" /\ p = (r + Size - 1) % Size /\ i = m

LEMMA RingShape ==
  ASSUME NEW r \in Rank, NEW id \in Ids
  PROVE  /\ Ring(r, id) \in Seq(Step) /\ Len(Ring(r, id)) = 2
         /\ \E n, m \in Int : RingActs(r, Ring(r, id), id, n, m)
<1> DEFINE tos == {(r + 1) % Size}
           froms == {(r + Size - 1) % Size}
           to == Do("send", tos, id)
           from == Do("recv", froms, id)
<1>1. tos \in SUBSET Rank /\ froms \in SUBSET Rank /\ "send" \in Dos /\ "recv" \in Dos
  BY Neighbours DEF Dos
<1>2. Ring(r, id) = IF r % 2 = 1 THEN from \o to ELSE to \o from
  BY DEF Ring
<1>3. \A p : (p \in tos <=> p = (r + 1) % Size) /\ (p \in froms <=> p = (r + Size - 1) % Size)
  OBVIOUS
<1> HIDE DEF tos, froms
<1>4. /\ to \in Seq(Step) /\ Len(to) = 1
      /\ \A d, p, i, x : Act(to, d, p, i, x) <=> i = 1 /\ d = "send" /\ p \in tos /\ x = id
  BY <1>1, DoShape
<1>5. /\ from \in Seq(Step) /\ Len(from) = 1
      /\ \A d, p, i, x : Act(from, d, p, i, x) <=> i = 1 /\ d = "recv" /\ p \in froms /\ x = id
  BY <1>1, DoShape
<1> HIDE DEF to, from
<1>6. CASE r % 2 = 1
  <2>0. /\ from \o to \in Seq(Step) /\ Len(from \o to) = Len(from) + Len(to)
        /\ \A d, p, x : \A i \in Int : Act(from \o to, d, p, i, x) <=>
             Act(from, d, p, i, x) \/ Act(to, d, p, i - Len(from), x)
    BY <1>4, <1>5, JoinShape
  <2>1. /\ from \o to \in Seq(Step) /\ Len(from \o to) = 2
        /\ \A d, p, x : \A i \in Int : Act(from \o to, d, p, i, x) <=>
             Act(from, d, p, i, x) \/ Act(to, d, p, i - 1, x)
    BY <2>0, <1>4, <1>5
  <2>2. ASSUME NEW d, NEW p, NEW x, NEW i \in Int
        PROVE  Act(from \o to, d, p, i, x) <=>
              /\ x = id
              /\ \/ d = "send" /\ p = (r + 1) % Size /\ i = 2
                 \/ d = "recv" /\ p = (r + Size - 1) % Size /\ i = 1
    <3>1. i - 1 = 1 <=> i = 2
      OBVIOUS
    <3> QED BY <2>1, <1>3, <1>4, <1>5, <3>1
  <2>3. 1 \in Int /\ 2 \in Int
    OBVIOUS
  <2>4. Ring(r, id) = from \o to
    BY <1>2, <1>6
  <2>5. RingActs(r, Ring(r, id), id, 2, 1)
    BY <2>2, <2>4 DEF RingActs
  <2> QED BY <2>1, <2>3, <2>4, <2>5
<1>7. CASE r % 2 # 1
  <2>0. /\ to \o from \in Seq(Step) /\ Len(to \o from) = Len(to) + Len(from)
        /\ \A d, p, x : \A i \in Int : Act(to \o from, d, p, i, x) <=>
             Act(to, d, p, i, x) \/ Act(from, d, p, i - Len(to), x)
    BY <1>4, <1>5, JoinShape
  <2>1. /\ to \o from \in Seq(Step) /\ Len(to \o from) = 2
        /\ \A d, p, x : \A i \in Int : Act(to \o from, d, p, i, x) <=>
             Act(to, d, p, i, x) \/ Act(from, d, p, i - 1, x)
    BY <2>0, <1>4, <1>5
  <2>2. ASSUME NEW d, NEW p, NEW x, NEW i \in Int
        PROVE  Act(to \o from, d, p, i, x) <=>
              /\ x = id
              /\ \/ d = "send" /\ p = (r + 1) % Size /\ i = 1
                 \/ d = "recv" /\ p = (r + Size - 1) % Size /\ i = 2
    <3>1. i - 1 = 1 <=> i = 2
      OBVIOUS
    <3> QED BY <2>1, <1>3, <1>4, <1>5, <3>1
  <2>3. 1 \in Int /\ 2 \in Int
    OBVIOUS
  <2>4. Ring(r, id) = to \o from
    BY <1>2, <1>7
  <2>5. RingActs(r, Ring(r, id), id, 1, 2)
    BY <2>2, <2>4 DEF RingActs
  <2> QED BY <2>1, <2>3, <2>4, <2>5
<1> QED BY <1>6, <1>7

-----------------------------------------------------------------------------
(* What the proofs use of the plans. *)

Upward == {"ack", "read", "in"}
Downward == {"cmd", "out", "file"}

\* The k-th operation op of the t-th command, as the ranks know it.
KnownOp(op, t, k) == op \in AllOps /\ t \in Nat /\ k \in Nat /\ (op = "exec" => k = 0)

LEMMA RingPlan ==
  ASSUME NEW op, NEW t, NEW k, KnownOp(op, t, k), op = "ring", NEW r \in Rank
  PROVE  /\ Id("ring", t, k) \in Ids
         /\ Operation(op, r, t, k) \in Seq(Step) /\ Len(Operation(op, r, t, k)) = 2
         /\ \E n, m \in Int : RingActs(r, Operation(op, r, t, k), Id("ring", t, k), n, m)
<1> DEFINE id == Id("ring", t, k)
<1>1. id \in Ids /\ Operation(op, r, t, k) = Ring(r, id)
  BY IdType DEF KnownOp, Kinds, Operation
<1> HIDE DEF id
<1>2. /\ Ring(r, id) \in Seq(Step) /\ Len(Ring(r, id)) = 2
      /\ \E n, m \in Int : RingActs(r, Ring(r, id), id, n, m)
  BY <1>1, RingShape
<1> QED BY <1>1, <1>2 DEF id

LEMMA IdSets ==
  ASSUME NEW op, NEW t, NEW k, KnownOp(op, t, k)
  PROVE  /\ Single(DownIds(op, t, k)) /\ Single(UpIds(op, t, k))
         /\ DownIds(op, t, k) \cap UpIds(op, t, k) = {}
         /\ \A x \in DownIds(op, t, k) :
              x \in Ids /\ x.kind \in Downward /\ x.task = t /\ x.at = k
         /\ \A x \in UpIds(op, t, k) :
              x \in Ids /\ x.kind \in Upward /\ x.task = t /\ x.at = k
         /\ \A x \in DownIds(op, t, k) : x.kind = "cmd" <=> op = "exec"
         /\ \A x \in UpIds(op, t, k) : x.kind = "in" <=> op = "in"
<1>1. \A kind \in Kinds : Id(kind, t, k) \in Ids /\ Id(kind, t, k).kind = kind
         /\ Id(kind, t, k).task = t /\ Id(kind, t, k).at = k
  BY IdType DEF KnownOp
<1>2. \A x \in DownIds(op, t, k) :
        \/ op = "exec" /\ x = Id("cmd", t, k)
        \/ op = "out" /\ x = Id("out", t, k)
        \/ op = "include" /\ x = Id("file", t, k)
  BY DEF DownIds
<1>3. \A x \in UpIds(op, t, k) :
        \/ op = "exec" /\ x = Id("ack", t, k)
        \/ op = "in" /\ x = Id("in", t, k)
        \/ op = "include" /\ x = Id("read", t, k)
  BY DEF UpIds
<1>4. \A x \in DownIds(op, t, k) :
              x \in Ids /\ x.kind \in Downward /\ x.task = t /\ x.at = k
  BY <1>1, <1>2 DEF Kinds, Downward
<1>5. \A x \in UpIds(op, t, k) :
              x \in Ids /\ x.kind \in Upward /\ x.task = t /\ x.at = k
  BY <1>1, <1>3 DEF Kinds, Upward
<1>6. DownIds(op, t, k) \cap UpIds(op, t, k) = {}
  BY <1>4, <1>5 DEF Upward, Downward
<1>7. Single(DownIds(op, t, k)) /\ Single(UpIds(op, t, k))
  BY <1>2, <1>3 DEF Single
<1>8. \A x \in DownIds(op, t, k) : x.kind = "cmd" <=> op = "exec"
  BY <1>1, <1>2 DEF Kinds
<1>9. \A x \in UpIds(op, t, k) : x.kind = "in" <=> op = "in"
  BY <1>1, <1>3 DEF Kinds
<1> QED BY <1>4, <1>5, <1>6, <1>7, <1>8, <1>9

LEMMA PlanType ==
  ASSUME NEW op, NEW t, NEW k, KnownOp(op, t, k), NEW r \in Rank
  PROVE  /\ Operation(op, r, t, k) \in Seq(Step)
         /\ Len(Operation(op, r, t, k)) \in Nat /\ Len(Operation(op, r, t, k)) >= 1
         /\ op = "exec" => Len(Operation(op, r, t, k)) >= 2
<1>1. CASE op = "ring"
  BY <1>1, RingPlan
<1>2. CASE op # "ring"
  <2>1. op = "exec" => Len(Operation(op, r, t, k)) >= 2
    BY CommandShape DEF Operation, KnownOp
  <2> QED BY <1>2, <2>1, TreeShape DEF KnownOp
<1> QED BY <1>1, <1>2

\* The message operations of a plan: of which kind, with whom, for which id.
LEMMA PlanActs ==
  ASSUME NEW op, NEW t, NEW k, KnownOp(op, t, k), NEW r \in Rank,
         NEW d, NEW p, NEW i \in Int, NEW x, Act(Operation(op, r, t, k), d, p, i, x)
  PROVE  /\ p \in Rank \ {r} /\ d \in Sending \cup {"recv"}
         /\ x \in Ids /\ x.task = t /\ x.at = k
         /\ d = "report" => x.kind \in Upward /\ r # 0 /\ p = Boss(r)
         /\ d = "forward" => x.kind \in Downward /\ p \in Staff(r)
         /\ d = "send" => x.kind = "ring"
         /\ d = "recv" /\ x.kind \in Upward => p \in Staff(r)
         /\ d = "recv" /\ x.kind \in Downward => r # 0 /\ p = Boss(r)
         /\ x.kind \in Upward => x \in UpIds(op, t, k) /\ op # "ring"
         /\ x.kind = "cmd" <=> op = "exec" /\ x.kind \in Downward
         /\ x.kind = "in" <=> op = "in"
<1> DEFINE a == Operation(op, r, t, k)
<1>1. CASE op = "ring"
  <2>1. Id("ring", t, k) \in Ids
    BY <1>1, RingPlan
  <2>0. PICK n, m \in Int : RingActs(r, Operation(op, r, t, k), Id("ring", t, k), n, m)
    BY <1>1, RingPlan
  <2>2. /\ x = Id("ring", t, k) /\ x \in Ids
        /\ \/ d = "send" /\ p = (r + 1) % Size
           \/ d = "recv" /\ p = (r + Size - 1) % Size
    BY <2>0, <2>1 DEF RingActs
  <2>3. x.kind = "ring" /\ x.task = t /\ x.at = k
    BY <2>2, IdType DEF Kinds, KnownOp
  <2>4. p \in Rank \ {r}
    BY <2>2, Neighbours
  <2> QED BY <1>1, <2>2, <2>3, <2>4 DEF Sending, Upward, Downward
<1>2. CASE op # "ring"
  <2> DEFINE down == DownIds(op, t, k)
             up == UpIds(op, t, k)
  <2>1. TreePlan(r, a, down, up)
    BY <1>2, TreeShape DEF KnownOp
  <2>2. /\ \A y \in down : y \in Ids /\ y.kind \in Downward /\ y.task = t /\ y.at = k
        /\ \A y \in up : y \in Ids /\ y.kind \in Upward /\ y.task = t /\ y.at = k
        /\ \A y \in down : y.kind = "cmd" <=> op = "exec"
        /\ \A y \in up : y.kind = "in" <=> op = "in"
    BY IdSets
  <2>8. op = "in" => down = {}
    BY DEF DownIds
  <2> HIDE DEF a, down, up
  <2>3. PICK n, m \in Nat : \A do, o, z : \A h \in Int : Act(a, do, o, h, z) <=>
    \/ /\ z \in down
       /\ \/ r # 0 /\ do = "recv" /\ h = n + 1 /\ o = Boss(r)
          \/ do = "forward" /\ o \in Staff(r) /\ h = IF r = 0 THEN n + 1 ELSE n + 2
    \/ /\ z \in up
       /\ \/ do = "recv" /\ h - m \in 1..Count(r) /\ o = r * Fan + (h - m)
          \/ r # 0 /\ do = "report" /\ o = Boss(r) /\ h = m + Count(r) + 1
    BY <2>1 DEF TreePlan
  <2>4. Act(a, d, p, i, x)
    BY DEF a
  <2>5. \/ x \in down /\ \/ r # 0 /\ d = "recv" /\ p = Boss(r)
                         \/ d = "forward" /\ p \in Staff(r)
        \/ x \in up /\ \/ d = "recv" /\ p \in Staff(r)
                       \/ r # 0 /\ d = "report" /\ p = Boss(r)
    <3>1. \A h \in Int : h - m \in 1..Count(r) => r * Fan + (h - m) \in Staff(r)
      BY StaffNumbered
    <3> QED BY <2>3, <2>4, <3>1
  <2>6. /\ \A q \in Staff(r) : q \in Rank \ {r}
        /\ r # 0 => Boss(r) \in Rank \ {r}
    BY StaffAbove, BossBelow DEF Rank
  <2>7. CASE x \in down
    <3>1. x \notin up /\ x.kind \notin Upward /\ x.kind # "in"
      BY <2>2, <2>7 DEF Upward, Downward
    <3>2. op # "in"
      BY <2>7, <2>8
    <3> QED BY <2>2, <2>5, <2>6, <2>7, <3>1, <3>2 DEF Sending, Downward
  <2>9. CASE x \in up
    <3>1. x \notin down /\ x.kind \notin Downward /\ x.kind # "cmd"
      BY <2>2, <2>9 DEF Upward, Downward
    <3> QED BY <1>2, <2>2, <2>5, <2>6, <2>9, <3>1 DEF Sending, Upward, up
  <2> QED BY <2>5, <2>7, <2>9
<1> QED BY <1>1, <1>2

\* A rank sends another at most one message in an operation.
LEMMA OneSend ==
  ASSUME NEW op, NEW t, NEW k, KnownOp(op, t, k), NEW s \in Rank, NEW p \in Rank,
         NEW d \in Sending, NEW e \in Sending, NEW i \in Int, NEW j \in Int, NEW x, NEW y,
         Act(Operation(op, s, t, k), d, p, i, x), Act(Operation(op, s, t, k), e, p, j, y)
  PROVE  i = j /\ d = e /\ x = y
<1>1. CASE op = "ring"
  <2>1. PICK n, m \in Int : RingActs(s, Operation(op, s, t, k), Id("ring", t, k), n, m)
    BY <1>1, RingPlan
  <2> QED BY <2>1 DEF RingActs, Sending
<1>2. CASE op # "ring"
  <2>1. TreePlan(s, Operation(op, s, t, k), DownIds(op, t, k), UpIds(op, t, k))
    BY <1>2, TreeShape DEF KnownOp
  <2>2. Single(DownIds(op, t, k)) /\ Single(UpIds(op, t, k))
    BY IdSets
  <2> QED BY <2>1, <2>2, TreeSends
<1> QED BY <1>1, <1>2

\* A rank receives at most one message of another in an operation, and asks for
\* one rank at a time.
LEMMA OneReceive ==
  ASSUME NEW op, NEW t, NEW k, KnownOp(op, t, k), NEW r \in Rank, NEW p, NEW q,
         NEW i \in Int, NEW j \in Int, NEW x, NEW y,
         Act(Operation(op, r, t, k), "recv", p, i, x),
         Act(Operation(op, r, t, k), "recv", q, j, y), p = q \/ i = j
  PROVE  i = j /\ p = q /\ x = y
<1>1. CASE op = "ring"
  <2>1. PICK n, m \in Int : RingActs(r, Operation(op, r, t, k), Id("ring", t, k), n, m)
    BY <1>1, RingPlan
  <2> QED BY <2>1 DEF RingActs
<1>2. CASE op # "ring"
  <2>1. TreePlan(r, Operation(op, r, t, k), DownIds(op, t, k), UpIds(op, t, k))
    BY <1>2, TreeShape DEF KnownOp
  <2>2. /\ Single(DownIds(op, t, k)) /\ Single(UpIds(op, t, k))
        /\ DownIds(op, t, k) \cap UpIds(op, t, k) = {}
    BY IdSets
  <2> QED BY <2>1, <2>2, TreeReceives
<1> QED BY <1>1, <1>2

\* Whatever one rank sends another in an operation, the other receives in that
\* operation, and the other way round.
LEMMA Matched ==
  ASSUME NEW op, NEW t, NEW k, KnownOp(op, t, k), NEW s \in Rank, NEW r \in Rank, NEW x
  PROVE  (\E d \in Sending : \E i \in Int : Act(Operation(op, s, t, k), d, r, i, x))
           <=> \E j \in Int : Act(Operation(op, r, t, k), "recv", s, j, x)
<1>1. CASE op = "ring"
  <2>1. (\E d \in Sending : \E i \in Int : Act(Operation(op, s, t, k), d, r, i, x))
          <=> x = Id("ring", t, k) /\ r = (s + 1) % Size
    <3>1. PICK n, m \in Int : RingActs(s, Operation(op, s, t, k), Id("ring", t, k), n, m)
      BY <1>1, RingPlan
    <3>2. "send" \in Sending
      BY DEF Sending
    <3> QED BY <3>1, <3>2 DEF RingActs, Sending
  <2>2. (\E j \in Int : Act(Operation(op, r, t, k), "recv", s, j, x))
          <=> x = Id("ring", t, k) /\ s = (r + Size - 1) % Size
    <3>1. PICK n, m \in Int : RingActs(r, Operation(op, r, t, k), Id("ring", t, k), n, m)
      BY <1>1, RingPlan
    <3> QED BY <3>1 DEF RingActs
  <2>3. r = (s + 1) % Size <=> s = (r + Size - 1) % Size
    BY Neighbours
  <2> QED BY <2>1, <2>2, <2>3
<1>2. CASE op # "ring"
  <2>1. /\ TreePlan(s, Operation(op, s, t, k), DownIds(op, t, k), UpIds(op, t, k))
        /\ TreePlan(r, Operation(op, r, t, k), DownIds(op, t, k), UpIds(op, t, k))
    BY <1>2, TreeShape DEF KnownOp
  <2> QED BY <2>1, TreeMatched
<1> QED BY <1>1, <1>2

\* What goes up has been collected from all the staff first.
LEMMA Collects ==
  ASSUME NEW op, NEW t, NEW k, KnownOp(op, t, k), NEW r \in Rank,
         NEW d, NEW p, NEW i \in Int, NEW x, Act(Operation(op, r, t, k), d, p, i, x),
         x.kind \in Upward, NEW c \in Staff(r)
  PROVE  /\ \E j \in Int : Act(Operation(op, r, t, k), "recv", c, j, x)
         /\ d = "report" => \A j \in Int : Act(Operation(op, r, t, k), "recv", c, j, x) => j < i
<1>1. x \in UpIds(op, t, k) /\ op # "ring"
  BY PlanActs
<1>2. TreePlan(r, Operation(op, r, t, k), DownIds(op, t, k), UpIds(op, t, k))
  BY <1>1, TreeShape DEF KnownOp
<1>3. DownIds(op, t, k) \cap UpIds(op, t, k) = {}
  BY IdSets
<1>4. \A e \in Staff(r) : \E j \in Int : Act(Operation(op, r, t, k), "recv", e, j, x)
  BY <1>1, <1>2, <1>3, TreeCollects
<1>5. \A h, j \in Int : \A q, e : Act(Operation(op, r, t, k), "report", q, h, x)
         /\ Act(Operation(op, r, t, k), "recv", e, j, x) => j < h
  BY <1>1, <1>2, <1>3, TreeCollects
<1> QED BY <1>4, <1>5

\* A message operation has no peers only if it is the call of mp_exec, or
\* reads the file of an include or includes it.
Peered(a) == \A i \in DOMAIN a : a[i].peers # {}

LEMMA PeeredJoin ==
  ASSUME NEW a \in Seq(Step), NEW b \in Seq(Step), Peered(a), Peered(b)
  PROVE  Peered(a \o b)
<1>1. /\ a \o b \in Seq(Step)
      /\ Len(a \o b) = Len(a) + Len(b)
      /\ \A i \in 1 .. Len(a) + Len(b) :
           (a \o b)[i] = IF i <= Len(a) THEN a[i] ELSE b[i - Len(a)]
  BY ConcatProperties
<1>2. Len(a) \in Nat /\ Len(b) \in Nat
  BY LenProperties
<1>3. DOMAIN a = 1..Len(a) /\ DOMAIN b = 1..Len(b) /\ DOMAIN (a \o b) = 1..Len(a \o b)
  BY <1>1, LenProperties
<1>4. ASSUME NEW i \in DOMAIN (a \o b)
      PROVE  (a \o b)[i].peers # {}
  <2>1. i \in 1 .. Len(a) + Len(b)
    BY <1>1, <1>3
  <2>2. CASE i <= Len(a)
    <3>1. i \in DOMAIN a /\ (a \o b)[i] = a[i]
      BY <1>1, <1>2, <1>3, <2>1, <2>2
    <3> QED BY <3>1 DEF Peered
  <2>3. CASE ~(i <= Len(a))
    <3>1. i - Len(a) \in DOMAIN b /\ (a \o b)[i] = b[i - Len(a)]
      BY <1>1, <1>2, <1>3, <2>1, <2>3
    <3> QED BY <3>1 DEF Peered
  <2> QED BY <2>2, <2>3
<1> QED BY <1>4 DEF Peered

LEMMA PeeredDo ==
  ASSUME NEW op \in Dos, NEW peers, peers # {}, NEW id \in Ids
  PROVE  Peered(Do(op, peers, id))
BY DEF Do, Peered

LEMMA PeeredDown ==
  ASSUME NEW r \in Rank, NEW id \in Ids
  PROVE  Peered(Down(r, id))
<1> DEFINE a == IF r = 0 THEN <<>> ELSE Do("recv", {Boss(r)}, id)
           b == ToAll("forward", Staff(r), id)
<1>1. a \in Seq(Step) /\ Peered(a)
  <2>1. CASE r = 0
    BY <2>1, NothingShape DEF Peered
  <2>2. CASE r # 0
    <3>1. {Boss(r)} \in SUBSET Rank /\ "recv" \in Dos /\ {Boss(r)} # {}
      BY <2>2, BossBelow DEF Dos
    <3>2. a = Do("recv", {Boss(r)}, id)
      BY <2>2
    <3>3. Do("recv", {Boss(r)}, id) \in Seq(Step)
      BY <3>1, DoShape
    <3>4. Peered(Do("recv", {Boss(r)}, id))
      BY <3>1, PeeredDo
    <3> HIDE DEF a
    <3> QED BY <3>2, <3>3, <3>4
  <2> QED BY <2>1, <2>2
<1>2. b \in Seq(Step) /\ Peered(b)
  <2>1. Staff(r) \in SUBSET Rank /\ "forward" \in Dos
    BY StaffSubset DEF Dos
  <2>2. b \in Seq(Step)
    <3> DEFINE peers == Staff(r)
    <3>1. peers \in SUBSET Rank
      BY <2>1
    <3> HIDE DEF peers
    <3>2. ToAll("forward", peers, id) \in Seq(Step)
      BY <2>1, <3>1, ToAllShape
    <3> QED BY <3>2 DEF peers
  <2>3. Peered(b)
    BY <2>1, PeeredDo DEF ToAll, Peered
  <2> QED BY <2>2, <2>3
<1> HIDE DEF a, b
<1>3. Down(r, id) = a \o b
  BY DEF Down, a, b
<1> QED BY <1>1, <1>2, <1>3, PeeredJoin

LEMMA PeeredUp ==
  ASSUME NEW r \in Rank, NEW id \in Ids
  PROVE  Peered(Up(r, id))
<1>1. FromStaff(r, id) \in Seq(Step) /\ Peered(FromStaff(r, id))
  <2>1. Peered(FromStaff(r, id))
    BY DEF FromStaff, Peered
  <2> QED BY <2>1, FromStaffShape
<1>2. ToBoss(r, id) \in Seq(Step) /\ Peered(ToBoss(r, id))
  <2>1. CASE r = 0
    BY <2>1, NothingShape DEF Peered, ToBoss
  <2>2. CASE r # 0
    <3>1. {Boss(r)} \in SUBSET Rank /\ "report" \in Dos /\ {Boss(r)} # {}
      BY <2>2, BossBelow DEF Dos
    <3>2. ToBoss(r, id) = Do("report", {Boss(r)}, id)
      BY <2>2 DEF ToBoss
    <3>3. Do("report", {Boss(r)}, id) \in Seq(Step)
      BY <3>1, DoShape
    <3>4. Peered(Do("report", {Boss(r)}, id))
      BY <3>1, PeeredDo
    <3> QED BY <3>2, <3>3, <3>4
  <2> QED BY <2>1, <2>2
<1> QED BY <1>1, <1>2, PeeredJoin DEF Up

LEMMA PeeredRing ==
  ASSUME NEW r \in Rank, NEW id \in Ids
  PROVE  Peered(Ring(r, id))
<1> DEFINE tos == {(r + 1) % Size}
           froms == {(r + Size - 1) % Size}
           to == Do("send", tos, id)
           from == Do("recv", froms, id)
<1>1. /\ tos \in SUBSET Rank /\ froms \in SUBSET Rank /\ "send" \in Dos /\ "recv" \in Dos
      /\ tos # {} /\ froms # {}
  BY Neighbours DEF Dos
<1>2. Ring(r, id) = IF r % 2 = 1 THEN from \o to ELSE to \o from
  BY DEF Ring
<1> HIDE DEF tos, froms
<1>3. /\ to \in Seq(Step) /\ Peered(to)
      /\ from \in Seq(Step) /\ Peered(from)
  <2>0. ASSUME NEW op \in Dos, NEW peers \in SUBSET Rank
        PROVE  Do(op, peers, id) \in Seq(Step)
    BY DoShape
  <2>1. Do("send", tos, id) \in Seq(Step)
    BY <1>1, <2>0
  <2>2. Do("recv", froms, id) \in Seq(Step)
    BY <1>1, <2>0
  <2>3. Peered(to)
    BY <1>1, PeeredDo
  <2>4. Peered(from)
    BY <1>1, PeeredDo
  <2> QED BY <2>1, <2>2, <2>3, <2>4
<1> HIDE DEF to, from
<1>4. Peered(from \o to) /\ Peered(to \o from)
  BY <1>3, PeeredJoin
<1> QED BY <1>2, <1>4

\* Only the message operation of e, first in the plan g, and that of l, last,
\* may be without peers.
Edges(e, g, l) ==
  \A i \in DOMAIN g : g[i].peers = {} =>
    \/ i = 1 /\ i \in DOMAIN e /\ g[i] = e[1]
    \/ 1 \in DOMAIN l /\ g[i] = l[1]
Short == {s \in Seq(Step) : Len(s) \in {0, 1}}

LEMMA Around ==
  ASSUME NEW a \in Seq(Step), Peered(a), NEW e \in Short, NEW l \in Short
  PROVE  Edges(e, e \o a \o l, l)
<1>0. /\ e \in Seq(Step) /\ Len(e) \in {0, 1}
      /\ l \in Seq(Step) /\ Len(l) \in {0, 1}
  BY DEF Short
<1> SUFFICES ASSUME NEW i \in DOMAIN (e \o a \o l), (e \o a \o l)[i].peers = {}
             PROVE  \/ i = 1 /\ i \in DOMAIN e /\ (e \o a \o l)[i] = e[1]
                    \/ 1 \in DOMAIN l /\ (e \o a \o l)[i] = l[1]
  BY DEF Edges
<1> DEFINE f == e \o a
           g == f \o l
<1>1. /\ f \in Seq(Step) /\ Len(f) = Len(e) + Len(a)
      /\ \A h \in 1 .. Len(e) + Len(a) :
           f[h] = IF h <= Len(e) THEN e[h] ELSE a[h - Len(e)]
  BY <1>0, ConcatProperties
<1> HIDE DEF f
<1>2. /\ g \in Seq(Step) /\ Len(g) = Len(f) + Len(l)
      /\ \A h \in 1 .. Len(f) + Len(l) :
           g[h] = IF h <= Len(f) THEN f[h] ELSE l[h - Len(f)]
  <2>1. f \in Seq(Step)
    BY <1>1
  <2> QED BY <1>0, <2>1, ConcatProperties
<1> HIDE DEF g
<1>3. Len(a) \in Nat /\ Len(e) \in Nat /\ Len(l) \in Nat /\ Len(f) \in Nat
  BY <1>0, <1>1, LenProperties
<1>4. /\ DOMAIN a = 1..Len(a) /\ DOMAIN e = 1..Len(e) /\ DOMAIN l = 1..Len(l)
      /\ DOMAIN g = 1..Len(g)
  BY <1>0, <1>2, LenProperties
<1>5. i \in DOMAIN g /\ g[i].peers = {}
  BY DEF g, f
<1>6. i \in 1 .. Len(f) + Len(l)
  BY <1>0, <1>2, <1>4, <1>5
<1>7. CASE i <= Len(e)
  <2>1. i = 1 /\ i \in DOMAIN e /\ g[i] = e[1]
    BY <1>0, <1>1, <1>2, <1>3, <1>4, <1>6, <1>7
  <2> QED BY <2>1 DEF g, f
<1>8. CASE ~(i <= Len(e)) /\ i <= Len(f)
  <2>1. i - Len(e) \in DOMAIN a /\ g[i] = a[i - Len(e)]
    BY <1>0, <1>1, <1>2, <1>3, <1>4, <1>6, <1>8
  <2> QED BY <2>1, <1>5 DEF Peered
<1>9. CASE ~(i <= Len(f))
  <2>0. i - Len(f) = 1 /\ Len(l) = 1 /\ i = Len(g)
    BY <1>0, <1>2, <1>3, <1>6, <1>9
  <2>1. i - Len(f) = 1 /\ 1 \in DOMAIN l /\ g[i] = l[1] /\ i = Len(g)
    BY <1>0, <1>2, <1>4, <1>6, <1>9, <2>0
  <2> QED BY <2>1 DEF g, f
<1> QED BY <1>7, <1>8, <1>9

LEMMA AroundBoth ==
  ASSUME NEW a \in Seq(Step), Peered(a), NEW b \in Seq(Step), Peered(b),
         NEW e \in Short, NEW l \in Short
  PROVE  Edges(e, e \o a \o b \o l, l)
<1> DEFINE ab == a \o b
<1>1. ab \in Seq(Step) /\ Peered(ab)
  BY JoinShape, PeeredJoin
<1>2. e \o a \o b = e \o ab
  BY ConcatAssociative DEF Short
<1> HIDE DEF ab
<1>3. Edges(e, e \o ab \o l, l)
  BY <1>1, Around
<1> QED BY <1>2, <1>3

LEMMA Alone ==
  ASSUME NEW op \in Dos, NEW id \in Ids
  PROVE  /\ Do(op, {}, id) \in Seq(Step) /\ Len(Do(op, {}, id)) = 1
         /\ Do(op, {}, id)[1].do = op /\ Do(op, {}, id)[1].peers = {}
<1>1. {} \in SUBSET Rank
  OBVIOUS
<1>2. Do(op, {}, id) \in Seq(Step) /\ Len(Do(op, {}, id)) = 1
  BY <1>1, DoShape, Zenon
<1>3. Do(op, {}, id)[1].do = op /\ Do(op, {}, id)[1].peers = {}
  BY DEF Do
<1> QED BY <1>2, <1>3

LEMMA Peerless ==
  ASSUME NEW op, NEW t, NEW k, KnownOp(op, t, k), NEW r \in Rank,
         NEW i \in DOMAIN Operation(op, r, t, k), Operation(op, r, t, k)[i].peers = {}
  PROVE  \/ Operation(op, r, t, k)[i].do = "exec" /\ op = "exec" /\ r = 0 /\ i = 1
         \/ Operation(op, r, t, k)[i].do = "open" /\ op = "include" /\ r = 0
         \/ Operation(op, r, t, k)[i].do = "load" /\ op = "include"
<1>1. CASE op = "exec"
  <2> DEFINE xd == Id("cmd", t, 0)
             xu == Id("ack", t, 0)
             e == IF r = 0 THEN Do("exec", {}, xd) ELSE <<>>
             a == Down(r, xd)
             b == Up(r, xu)
  <2>1. xd \in Ids /\ xu \in Ids
    BY IdType DEF Kinds, KnownOp
  <2>2. a \in Seq(Step) /\ b \in Seq(Step) /\ Peered(a) /\ Peered(b)
    BY <2>1, DownShape, UpShape, PeeredDown, PeeredUp
  <2>3. /\ e \in Seq(Step) /\ Len(e) \in {0, 1} /\ DOMAIN e = 1..Len(e)
        /\ 1 \in DOMAIN e => e[1].do = "exec" /\ r = 0
    <3>1. CASE r = 0
      <4>1. {} \in SUBSET Rank /\ "exec" \in Dos
        BY DEF Dos
      <4> HIDE DEF xd
      <4>2. Do("exec", {}, xd) \in Seq(Step) /\ Len(Do("exec", {}, xd)) = 1
        BY <2>1, <4>1, Alone
      <4>3. Do("exec", {}, xd)[1].do = "exec"
        BY DEF Do
      <4>4. e = Do("exec", {}, xd)
        BY <3>1
      <4>5. DOMAIN Do("exec", {}, xd) = 1..Len(Do("exec", {}, xd))
        BY <4>2, LenProperties
      <4> HIDE DEF e
      <4> QED BY <3>1, <4>2, <4>3, <4>4, <4>5
    <3>2. CASE r # 0
      BY <3>2, NothingShape
    <3> QED BY <3>1, <3>2
  <2>4. Operation(op, r, t, k) = e \o a \o b
    BY <1>1 DEF Operation, Command
  <2> HIDE DEF e, a, b, xd, xu
  <2>5. e \in Short /\ <<>> \in Short /\ DOMAIN <<>> = {}
    BY <2>3, NothingShape DEF Short
  <2>6. Edges(e, e \o a \o b \o <<>>, <<>>)
    BY <2>2, <2>5, AroundBoth
  <2>7. e \o a \o b \o <<>> = e \o a \o b
    <3>1. e \o a \o b \in Seq(Step)
      <4>1. e \o a \in Seq(Step)
        BY <2>2, <2>3, JoinShape
      <4> QED BY <4>1, <2>2, JoinShape
    <3> QED BY <3>1, ConcatEmptySeq
  <2> QED BY <1>1, <2>3, <2>4, <2>5, <2>6, <2>7 DEF Edges
<1>2. CASE op = "include"
  <2> DEFINE xd == Id("file", t, k)
             xu == Id("read", t, k)
             xl == Id("load", t, k)
             e == IF r = 0 THEN Do("open", {}, xd) ELSE <<>>
             l == Do("load", {}, xl)
             a == Down(r, xd)
             b == Up(r, xu)
  <2>1. xd \in Ids /\ xu \in Ids /\ xl \in Ids
    BY IdType DEF Kinds, KnownOp
  <2>0. {} \in SUBSET Rank /\ "open" \in Dos /\ "load" \in Dos
    BY DEF Dos
  <2>2. a \in Seq(Step) /\ b \in Seq(Step) /\ Peered(a) /\ Peered(b)
    BY <2>1, DownShape, UpShape, PeeredDown, PeeredUp
  <2>3. /\ e \in Seq(Step) /\ Len(e) \in {0, 1} /\ DOMAIN e = 1..Len(e)
        /\ 1 \in DOMAIN e => e[1].do = "open" /\ r = 0
    <3>1. CASE r = 0
      <4> HIDE DEF xd
      <4>2. Do("open", {}, xd) \in Seq(Step) /\ Len(Do("open", {}, xd)) = 1
        BY <2>0, <2>1, Alone
      <4>3. Do("open", {}, xd)[1].do = "open"
        BY DEF Do
      <4>4. e = Do("open", {}, xd)
        BY <3>1
      <4>5. DOMAIN Do("open", {}, xd) = 1..Len(Do("open", {}, xd))
        BY <4>2, LenProperties
      <4> HIDE DEF e
      <4> QED BY <3>1, <4>2, <4>3, <4>4, <4>5
    <3>2. CASE r # 0
      BY <3>2, NothingShape
    <3> QED BY <3>1, <3>2
  <2>4. l \in Seq(Step) /\ Len(l) \in {0, 1} /\ l[1].do = "load"
    <3>1. l[1].do = "load"
      BY DEF Do
    <3> HIDE DEF xl
    <3>2. Do("load", {}, xl) \in Seq(Step) /\ Len(Do("load", {}, xl)) = 1
      BY <2>0, <2>1, DoShape
    <3> QED BY <3>1, <3>2
  <2>5. Operation(op, r, t, k) = e \o a \o b \o l
    BY <1>2 DEF Operation, Include
  <2> HIDE DEF e, a, b, l, xd, xu, xl
  <2>6. e \in Short /\ l \in Short
    BY <2>3, <2>4 DEF Short
  <2>7. Edges(e, e \o a \o b \o l, l)
    BY <2>2, <2>6, AroundBoth
  <2> QED BY <1>2, <2>3, <2>4, <2>5, <2>7 DEF Edges
<1>3. CASE op \in {"out", "in", "ring"}
  <2>1. /\ Id("out", t, k) \in Ids /\ Id("in", t, k) \in Ids /\ Id("ring", t, k) \in Ids
    BY IdType DEF Kinds, KnownOp
  <2>2. \/ Operation(op, r, t, k) = Down(r, Id("out", t, k))
        \/ Operation(op, r, t, k) = Up(r, Id("in", t, k))
        \/ Operation(op, r, t, k) = Ring(r, Id("ring", t, k))
    BY <1>3 DEF Operation
  <2>3. Peered(Operation(op, r, t, k))
    BY <2>1, <2>2, PeeredDown, PeeredUp, PeeredRing
  <2> QED BY <2>3 DEF Peered
<1> QED BY <1>1, <1>2, <1>3 DEF KnownOp, AllOps, Operations

\* A command begins on rank 0 with the call of mp_exec, elsewhere with the
\* message of the boss.
LEMMA FirstOfCommand ==
  ASSUME NEW r \in Rank, NEW t \in Nat
  PROVE  LET c == Operation("exec", r, t, 0)
         IN  /\ r = 0 => c[1].do = "exec" /\ c[1].peers = {}
             /\ r # 0 => Act(c, "recv", Boss(r), 1, Id("cmd", t, 0))
<1> DEFINE xd == Id("cmd", t, 0)
           xu == Id("ack", t, 0)
           e == IF r = 0 THEN Do("exec", {}, xd) ELSE <<>>
           a == Down(r, xd)
           b == Up(r, xu)
<1>1. xd \in Ids /\ xu \in Ids
  BY IdType DEF Kinds
<1>2. a \in Seq(Step) /\ b \in Seq(Step)
  BY <1>1, DownShape, UpShape
<1>3. Operation("exec", r, t, 0) = e \o a \o b
  BY DEF Operation, Command
<1>4. CASE r = 0
  <2>1. e = Do("exec", {}, xd)
    BY <1>4
  <2>2. {} \in SUBSET Rank /\ "exec" \in Dos
    BY DEF Dos
  <2> HIDE DEF xd, e, a, b
  <2>3. Do("exec", {}, xd) \in Seq(Step) /\ Len(Do("exec", {}, xd)) = 1
    BY <1>1, <2>2, DoShape
  <2>4. Do("exec", {}, xd)[1].do = "exec" /\ Do("exec", {}, xd)[1].peers = {}
    BY DEF Do
  <2>5. e \in Seq(Step) /\ Len(e) = 1 /\ e[1].do = "exec" /\ e[1].peers = {}
    BY <2>1, <2>3, <2>4
  <2>6. /\ e \o a \in Seq(Step) /\ Len(e \o a) = Len(e) + Len(a)
        /\ \A i \in 1 .. Len(e) + Len(a) :
             (e \o a)[i] = IF i <= Len(e) THEN e[i] ELSE a[i - Len(e)]
    BY <1>2, <2>5, ConcatProperties
  <2>7. Len(a) \in Nat /\ Len(b) \in Nat
    BY <1>2, LenProperties
  <2>8. (e \o a)[1] = e[1] /\ Len(e \o a) \in Nat /\ 1 <= Len(e \o a)
    BY <2>5, <2>6, <2>7
  <2>9. \A i \in 1 .. Len(e \o a) + Len(b) :
             (e \o a \o b)[i] = IF i <= Len(e \o a) THEN (e \o a)[i] ELSE b[i - Len(e \o a)]
    BY <1>2, <2>6, ConcatProperties
  <2>10. (e \o a \o b)[1] = e[1]
    BY <2>7, <2>8, <2>9
  <2> QED BY <1>3, <1>4, <2>5, <2>10
<1>5. CASE r # 0
  <2>1. e = <<>>
    BY <1>5
  <2> HIDE DEF e, b
  <2>2. Act(a, "recv", Boss(r), 1, xd)
    BY <1>1, <1>5, DownShape
  <2> HIDE DEF a
  <2>3. /\ e \o a \in Seq(Step) /\ Len(e) = 0
        /\ \A d, p, x : \A i \in Int : Act(e \o a, d, p, i, x) <=>
             Act(e, d, p, i, x) \/ Act(a, d, p, i - Len(e), x)
    BY <1>2, <2>1, NothingShape, JoinShape
  <2>4. Act(e \o a, "recv", Boss(r), 1, xd)
    <3>1. 1 - Len(e) = 1 /\ 1 \in Int
      BY <2>3
    <3> HIDE DEF xd
    <3> QED BY <2>2, <2>3, <3>1
  <2>5. \A d, p, x : \A i \in Int : Act(e \o a \o b, d, p, i, x) <=>
             Act(e \o a, d, p, i, x) \/ Act(b, d, p, i - Len(e \o a), x)
    BY <1>2, <2>3, JoinShape
  <2>6. Act(e \o a \o b, "recv", Boss(r), 1, xd)
    <3> HIDE DEF xd
    <3> QED BY <2>4, <2>5
  <2> QED BY <1>3, <1>5, <2>6
<1> QED BY <1>4, <1>5

-----------------------------------------------------------------------------
(* The types, and where the ranks are in the commands. *)

Texts == Programs \cup {<<>>, <<"found">>, <<"missing">>}
Values == Texts \cup [Rank -> Nat] \cup {1}
Messages == {m \in [id : Ids, value : Values] : m.id.kind = "in" => m.value \in [Rank -> Nat]}
Entries == [from : Rank, msg : Messages]

Typed ==
  /\ given \in Seq(Programs) /\ Len(given) <= MaxTasks
  /\ task \in [Rank -> Nat] /\ at \in [Rank -> Nat] /\ done \in [Rank -> Nat]
  /\ program \in [Rank -> Values] /\ top \in [Rank -> Values]
  /\ net \in [Rank -> [Rank -> Seq(Messages)]]
  /\ queue \in [Rank -> Seq(Entries)]
  /\ waits \subseteq Rank /\ faulted \subseteq Rank
  /\ sum \in [Rank -> [Rank -> Nat]]
  /\ met \in [Rank -> SUBSET Ids]

\* Operation k of command t, and what rank r does in it.
Op(t, k) == IF k = 0 THEN "exec" ELSE given[t][k]
PlanOf(r, t, k) == Operation(Op(t, k), r, t, k)

\* The places of the commands given so far.
Given(t, k) == t \in 1 .. Len(given) /\ k \in 0 .. Len(given[t])

\* Message operation i of operation k of command t is behind rank r; or is the
\* send r waits in.
Before(r, t, k, i) ==
  t < task[r] \/ (t = task[r] /\ (k < at[r] \/ (k = at[r] /\ i <= done[r])))
Current(r, t, k, i) == t = task[r] /\ k = at[r] /\ i = done[r] + 1
Sent(s, t, k, i) == Before(s, t, k, i) \/ (s \in waits /\ Current(s, t, k, i))

Idles(r) == at[r] = 0 /\ done[r] = 0
Runs(r) ==
  /\ at[r] > 0 \/ done[r] > 0
  /\ task[r] <= Len(given) /\ at[r] <= Len(given[task[r]])
  /\ done[r] < Len(PlanOf(r, task[r], at[r]))
  /\ program[r] = given[task[r]]
  /\ at[r] = 0 => top[r] = given[task[r]]

\* Where rank r is: in mpy_idler, or in a command it has been given.  Rank 0 is
\* in mpy_idler only between two commands.
Placed(r) ==
  /\ task[r] \in 1 .. Len(given) + 1
  /\ Idles(r) \/ Runs(r)
  /\ r \in waits => Runs(r) /\ Now(r).do \in Sending
  /\ r = 0 => task[r] = IF Idles(r) THEN Len(given) + 1 ELSE Len(given)

LEMMA GivenType ==
  ASSUME given \in Seq(Programs), NEW t \in 1 .. Len(given)
  PROVE  /\ given[t] \in Programs /\ given[t] \in Seq(Operations)
         /\ Len(given) \in Nat /\ Len(given[t]) \in Nat /\ t \in Nat
         /\ \A k \in 1 .. Len(given[t]) : given[t][k] \in Operations
<1>1. Len(given) \in Nat /\ DOMAIN given = 1..Len(given)
  BY LenProperties
<1>2. given[t] \in Programs
  BY <1>1, ElementOfSeq
<1>3. given[t] \in Seq(Operations)
  BY <1>2, ExecConstants
<1>4. Len(given[t]) \in Nat /\ \A k \in 1 .. Len(given[t]) : given[t][k] \in Operations
  BY <1>3, LenProperties, ElementOfSeq
<1> QED BY <1>1, <1>2, <1>3, <1>4

LEMMA GivenKnown ==
  ASSUME given \in Seq(Programs), NEW t, NEW k, Given(t, k)
  PROVE  /\ KnownOp(Op(t, k), t, k) /\ (Op(t, k) = "exec" <=> k = 0)
         /\ t \in Nat /\ k \in Nat
<1>1. t \in 1..Len(given) /\ k \in 0..Len(given[t])
  BY DEF Given
<1>2. Len(given[t]) \in Nat /\ t \in Nat /\ \A h \in 1 .. Len(given[t]) : given[t][h] \in Operations
  BY <1>1, GivenType
<1>3. k = 0 \/ k \in 1..Len(given[t])
  BY <1>1, <1>2
<1> QED BY <1>1, <1>2, <1>3 DEF KnownOp, Op, AllOps, Operations

\* The place of rank r is that of a known operation; its plan is the one of the
\* command, and what it does now is a message operation of it.
LEMMA PlaceKnown ==
  ASSUME Typed, NEW r \in Rank, Placed(r)
  PROVE  /\ task[r] \in Nat /\ at[r] \in Nat /\ done[r] \in Nat
         /\ KnownOp(Op(task[r], at[r]), task[r], at[r])
         /\ Op(task[r], at[r]) = "exec" <=> at[r] = 0
         /\ Plan(r) = PlanOf(r, task[r], at[r]) /\ Plan(r) \in Seq(Step)
         /\ Len(Plan(r)) \in Nat /\ done[r] + 1 \in 1 .. Len(Plan(r))
         /\ done[r] + 1 \in DOMAIN Plan(r) /\ done[r] + 1 \in Int
         /\ Now(r) = Plan(r)[done[r] + 1] /\ Now(r) \in Step
         /\ Runs(r) => Given(task[r], at[r])
         /\ task[r] <= Len(given) => Given(task[r], at[r])
<1>1. task[r] \in Nat /\ at[r] \in Nat /\ done[r] \in Nat /\ Len(given) \in Nat
  BY LenProperties DEF Typed
<1>2. Runs(r) => Given(task[r], at[r])
  <2>1. ASSUME Runs(r) PROVE Given(task[r], at[r])
    <3>1. task[r] \in 1 .. Len(given)
      BY <2>1, <1>1 DEF Placed, Runs
    <3>2. Len(given[task[r]]) \in Nat
      BY <3>1, GivenType DEF Typed
    <3> QED BY <2>1, <1>1, <3>1, <3>2 DEF Given, Runs
  <2> QED BY <2>1
<1>3. task[r] <= Len(given) => Given(task[r], at[r])
  <2>1. ASSUME task[r] <= Len(given), Idles(r) PROVE Given(task[r], at[r])
    <3>1. task[r] \in 1 .. Len(given)
      BY <2>1, <1>1 DEF Placed
    <3>2. Len(given[task[r]]) \in Nat
      BY <3>1, GivenType DEF Typed
    <3> QED BY <2>1, <1>1, <3>1, <3>2 DEF Given, Idles
  <2> QED BY <2>1, <1>2 DEF Placed
<1>4. /\ KnownOp(Op(task[r], at[r]), task[r], at[r])
      /\ Op(task[r], at[r]) = "exec" <=> at[r] = 0
  <2>1. CASE Idles(r)
    BY <2>1, <1>1 DEF Idles, Op, KnownOp, AllOps
  <2>2. CASE Runs(r)
    BY <2>2, <1>2, GivenKnown DEF Typed
  <2> QED BY <2>1, <2>2 DEF Placed
<1>5. Plan(r) = PlanOf(r, task[r], at[r])
  <2>1. CASE at[r] = 0
    BY <2>1 DEF Plan, PlanOf, Op
  <2>2. CASE at[r] # 0
    BY <2>2 DEF Plan, PlanOf, Op, Placed, Idles, Runs
  <2> QED BY <2>1, <2>2
<1>6. Plan(r) \in Seq(Step) /\ Len(Plan(r)) \in Nat /\ Len(Plan(r)) >= 1
  BY <1>4, <1>5, PlanType DEF PlanOf
<1>7. done[r] + 1 \in 1 .. Len(Plan(r))
  <2>1. CASE Idles(r)
    BY <2>1, <1>6 DEF Idles
  <2>2. CASE Runs(r)
    BY <2>2, <1>1, <1>5, <1>6 DEF Runs
  <2> QED BY <2>1, <2>2 DEF Placed
<1>8. DOMAIN Plan(r) = 1 .. Len(Plan(r)) /\ Plan(r)[done[r] + 1] \in Step
  BY <1>6, <1>7, LenProperties, ElementOfSeq
<1> QED BY <1>1, <1>2, <1>3, <1>4, <1>5, <1>6, <1>7, <1>8 DEF Now

\* Rank r is in a message operation with each of its peers.
LEMMA NowActs ==
  ASSUME Typed, NEW r \in Rank, Placed(r), NEW p \in Now(r).peers
  PROVE  /\ Act(PlanOf(r, task[r], at[r]), Now(r).do, p, done[r] + 1, Now(r).id)
         /\ Now(r).do \in Sending \cup {"recv"} /\ p \in Rank \ {r}
<1>1. Act(PlanOf(r, task[r], at[r]), Now(r).do, p, done[r] + 1, Now(r).id)
  BY PlaceKnown DEF Act
<1> QED BY <1>1, PlaceKnown, PlanActs DEF PlanOf

\* Of a message operation without peers the do says which it is.
LEMMA NowAlone ==
  ASSUME Typed, NEW r \in Rank, Placed(r)
  PROVE  /\ Now(r).do = "exec" => r = 0 /\ Idles(r) /\ Now(r).peers = {}
         /\ Now(r).do = "open" => r = 0 /\ at[r] > 0 /\ Now(r).peers = {}
         /\ Now(r).do = "load" => at[r] > 0 /\ Now(r).peers = {}
         /\ Now(r).do \in Sending \cup {"recv"} => Now(r).peers # {}
         /\ Idles(r) /\ r = 0 => Now(r).do = "exec"
         /\ Idles(r) /\ r # 0 => Now(r).do = "recv" /\ Now(r).id = Id("cmd", task[r], 0)
         /\ Now(r).do \notin {"exec", "recv"} => Runs(r)
<1> DEFINE op == Op(task[r], at[r])
<1>1. /\ KnownOp(op, task[r], at[r]) /\ (op = "exec" <=> at[r] = 0)
      /\ done[r] + 1 \in DOMAIN Operation(op, r, task[r], at[r])
      /\ Now(r) = Operation(op, r, task[r], at[r])[done[r] + 1]
      /\ at[r] \in Nat /\ done[r] \in Nat
  BY PlaceKnown DEF PlanOf
<1> HIDE DEF op
<1>2. Now(r).peers = {} =>
         \/ Now(r).do = "exec" /\ op = "exec" /\ r = 0 /\ done[r] + 1 = 1
         \/ Now(r).do = "open" /\ op = "include" /\ r = 0
         \/ Now(r).do = "load" /\ op = "include"
  <2>1. ASSUME Now(r).peers = {}
        PROVE  \/ Now(r).do = "exec" /\ op = "exec" /\ r = 0 /\ done[r] + 1 = 1
               \/ Now(r).do = "open" /\ op = "include" /\ r = 0
               \/ Now(r).do = "load" /\ op = "include"
    <3> DEFINE i == done[r] + 1
               t == task[r]
               k == at[r]
    <3>1. /\ KnownOp(op, t, k) /\ i \in DOMAIN Operation(op, r, t, k)
          /\ Operation(op, r, t, k)[i].peers = {}
          /\ Now(r) = Operation(op, r, t, k)[i]
      BY <1>1, <2>1
    <3> HIDE DEF i, t, k
    <3>2. \/ Operation(op, r, t, k)[i].do = "exec" /\ op = "exec" /\ r = 0 /\ i = 1
          \/ Operation(op, r, t, k)[i].do = "open" /\ op = "include" /\ r = 0
          \/ Operation(op, r, t, k)[i].do = "load" /\ op = "include"
      BY <3>1, Peerless
    <3> QED BY <3>1, <3>2 DEF i
  <2> QED BY <2>1
<1>3. Now(r).peers # {} => Now(r).do \in Sending \cup {"recv"}
  BY NowActs
<1>4. Idles(r) => Now(r) = Operation("exec", r, task[r], 0)[1]
  BY <1>1 DEF Idles
<1>5. task[r] \in Nat
  BY DEF Typed
<1>6. Idles(r) /\ r = 0 => Now(r).do = "exec"
  BY <1>4, <1>5, FirstOfCommand
<1>7. Idles(r) /\ r # 0 => Now(r).do = "recv" /\ Now(r).id = Id("cmd", task[r], 0)
  BY <1>4, <1>5, FirstOfCommand DEF Act
<1>8. "exec" \notin Sending \cup {"recv"} /\ "open" \notin Sending \cup {"recv"}
      /\ "load" \notin Sending \cup {"recv"}
  BY DEF Sending
<1>9. Now(r).do = "exec" => r = 0 /\ Idles(r) /\ Now(r).peers = {}
  <2>1. done[r] + 1 = 1 => done[r] = 0
    BY <1>1
  <2>2. Now(r).do = "exec" => r = 0 /\ op = "exec" /\ done[r] + 1 = 1 /\ Now(r).peers = {}
    BY <1>2, <1>3, <1>8
  <2> QED BY <1>1, <2>1, <2>2 DEF Idles
<1>10. Now(r).do = "open" => r = 0 /\ at[r] > 0 /\ Now(r).peers = {}
  BY <1>1, <1>2, <1>3, <1>8
<1>11. Now(r).do = "load" => at[r] > 0 /\ Now(r).peers = {}
  BY <1>1, <1>2, <1>3, <1>8
<1>12. Now(r).do \in Sending \cup {"recv"} => Now(r).peers # {}
  BY <1>2, <1>8
<1>13. Now(r).do \notin {"exec", "recv"} => Runs(r)
  BY <1>6, <1>7 DEF Placed
<1> QED BY <1>6, <1>7, <1>9, <1>10, <1>11, <1>12, <1>13

-----------------------------------------------------------------------------
(* How a rank moves on. *)

LEMMA Advances ==
  ASSUME Typed, NEW r \in Rank, Placed(r), task[r] <= Len(given), Advance(r)
  PROVE  /\ task' \in [Rank -> Nat] /\ at' \in [Rank -> Nat] /\ done' \in [Rank -> Nat]
         /\ \A q \in Rank \ {r} : task'[q] = task[q] /\ at'[q] = at[q] /\ done'[q] = done[q]
         /\ \/ /\ task'[r] = task[r] /\ at'[r] = at[r] /\ done'[r] = done[r] + 1
               /\ done[r] + 1 < Len(PlanOf(r, task[r], at[r]))
            \/ /\ task'[r] = task[r] /\ at'[r] = at[r] + 1 /\ done'[r] = 0
               /\ done[r] + 1 = Len(PlanOf(r, task[r], at[r]))
               /\ at[r] + 1 <= Len(given[task[r]]) /\ Runs(r)
            \/ /\ task'[r] = task[r] + 1 /\ at'[r] = 0 /\ done'[r] = 0
               /\ done[r] + 1 = Len(PlanOf(r, task[r], at[r]))
               /\ at[r] = Len(given[task[r]]) /\ Runs(r)
<1>1. /\ task[r] \in Nat /\ at[r] \in Nat /\ done[r] \in Nat
      /\ Plan(r) = PlanOf(r, task[r], at[r])
      /\ Len(Plan(r)) \in Nat /\ done[r] + 1 \in 1 .. Len(Plan(r))
  BY PlaceKnown
<1>2. task \in [Rank -> Nat] /\ at \in [Rank -> Nat] /\ done \in [Rank -> Nat]
  BY DEF Typed
<1>3. CASE done[r] + 1 < Len(Plan(r))
  <2>1. done' = [done EXCEPT ![r] = @ + 1] /\ task' = task /\ at' = at
    BY <1>3 DEF Advance
  <2>2. done'[r] = done[r] + 1 /\ done' \in [Rank -> Nat]
        /\ \A q \in Rank \ {r} : done'[q] = done[q]
    BY <1>1, <1>2, <2>1
  <2> QED BY <1>1, <1>2, <1>3, <2>1, <2>2
<1>4. CASE ~(done[r] + 1 < Len(Plan(r)))
  <2>0. done[r] + 1 = Len(Plan(r))
    BY <1>1, <1>4
  <2>1. Runs(r)
    <3>1. ASSUME Idles(r) PROVE FALSE
      <4>1. Plan(r) = Operation("exec", r, task[r], 0)
        BY <1>1, <3>1 DEF PlanOf, Op, Idles
      <4>2. Len(Plan(r)) >= 2
        BY <4>1, <1>1, PlanType DEF KnownOp, AllOps
      <4>3. done[r] = 0
        BY <3>1 DEF Idles
      <4>4. Len(Plan(r)) = 1
        BY <2>0, <4>3
      <4> QED BY <4>2, <4>4
    <3> QED BY <3>1 DEF Placed
  <2>2. /\ program[r] = given[task[r]] /\ at[r] <= Len(given[task[r]])
        /\ Len(given[task[r]]) \in Nat
    <3>1. task[r] \in 1 .. Len(given)
      BY <1>1 DEF Placed
    <3> QED BY <2>1, <3>1, GivenType DEF Runs, Typed
  <2>3. /\ done' = [done EXCEPT ![r] = 0]
        /\ IF at[r] < Len(program[r])
           THEN at' = [at EXCEPT ![r] = @ + 1] /\ UNCHANGED task
           ELSE at' = [at EXCEPT ![r] = 0] /\ task' = [task EXCEPT ![r] = @ + 1]
    BY <1>4 DEF Advance
  <2>4. done'[r] = 0 /\ done' \in [Rank -> Nat]
        /\ \A q \in Rank \ {r} : done'[q] = done[q]
    BY <1>2, <2>3
  <2>5. CASE at[r] < Len(program[r])
    <3>1. at' = [at EXCEPT ![r] = @ + 1] /\ task' = task
      BY <2>3, <2>5
    <3>2. at'[r] = at[r] + 1 /\ at' \in [Rank -> Nat]
          /\ \A q \in Rank \ {r} : at'[q] = at[q]
      BY <1>1, <1>2, <3>1
    <3>3. at[r] + 1 <= Len(given[task[r]])
      BY <1>1, <2>2, <2>5
    <3> QED BY <1>1, <1>2, <2>0, <2>1, <2>4, <3>1, <3>2, <3>3
  <2>6. CASE ~(at[r] < Len(program[r]))
    <3>1. at' = [at EXCEPT ![r] = 0] /\ task' = [task EXCEPT ![r] = @ + 1]
      BY <2>3, <2>6
    <3>2. at'[r] = 0 /\ at' \in [Rank -> Nat] /\ task'[r] = task[r] + 1 /\ task' \in [Rank -> Nat]
          /\ \A q \in Rank \ {r} : at'[q] = at[q] /\ task'[q] = task[q]
      BY <1>1, <1>2, <3>1
    <3>3. at[r] = Len(given[task[r]])
      BY <1>1, <2>2, <2>6
    <3> QED BY <1>1, <2>0, <2>1, <2>4, <3>2, <3>3
  <2> QED BY <2>5, <2>6
<1> QED BY <1>3, <1>4

\* Moving on puts the message operation rank r was in behind it, and no other.
LEMMA AdvanceBefore ==
  ASSUME Typed, NEW r \in Rank, Placed(r), task[r] <= Len(given), Advance(r),
         NEW t, NEW k, Given(t, k), NEW i \in DOMAIN PlanOf(r, t, k)
  PROVE  Before(r, t, k, i)' <=> Before(r, t, k, i) \/ Current(r, t, k, i)
<1>1. task[r] \in Nat /\ at[r] \in Nat /\ done[r] \in Nat
  BY DEF Typed
<1>2. t \in Nat /\ k \in Nat
  BY GivenKnown DEF Typed
<1>3. i \in Int /\ 1 <= i /\ i <= Len(PlanOf(r, t, k))
  <2>1. PlanOf(r, t, k) \in Seq(Step) /\ Len(PlanOf(r, t, k)) \in Nat
    BY GivenKnown, PlanType DEF Typed, PlanOf
  <2>2. DOMAIN PlanOf(r, t, k) = 1 .. Len(PlanOf(r, t, k))
    BY <2>1, LenProperties
  <2> QED BY <2>1, <2>2
<1>4. k <= Len(given[t]) /\ Len(given[t]) \in Nat
  BY GivenType DEF Given, Typed
<1>5. Before(r, t, k, i)' <=>
        t < task'[r] \/ (t = task'[r] /\ (k < at'[r] \/ (k = at'[r] /\ i <= done'[r])))
  BY DEF Before
<1>6. CASE task'[r] = task[r] /\ at'[r] = at[r] /\ done'[r] = done[r] + 1
  BY <1>1, <1>2, <1>3, <1>5, <1>6 DEF Before, Current
<1>7. CASE /\ task'[r] = task[r] /\ at'[r] = at[r] + 1 /\ done'[r] = 0
           /\ done[r] + 1 = Len(PlanOf(r, task[r], at[r]))
  <2>1. t = task[r] /\ k = at[r] => i <= done[r] + 1
    BY <1>3, <1>7
  <2> QED BY <1>1, <1>2, <1>3, <1>5, <1>7, <2>1 DEF Before, Current
<1>8. CASE /\ task'[r] = task[r] + 1 /\ at'[r] = 0 /\ done'[r] = 0
           /\ done[r] + 1 = Len(PlanOf(r, task[r], at[r]))
           /\ at[r] = Len(given[task[r]])
  <2>1. t = task[r] /\ k = at[r] => i <= done[r] + 1
    BY <1>3, <1>8
  <2>2. t = task[r] => k <= at[r]
    BY <1>4, <1>8
  <2> QED BY <1>1, <1>2, <1>3, <1>5, <1>8, <2>1, <2>2 DEF Before, Current
<1> QED BY <1>6, <1>7, <1>8, Advances

\* The rank is then in the next place of the command, or in mpy_idler.
LEMMA AdvancePlaced ==
  ASSUME Typed, NEW r \in Rank, Placed(r), task[r] <= Len(given), Advance(r),
         given' = given, program'[r] = given[task[r]],
         at[r] = 0 => top'[r] = given[task[r]], r \notin waits'
  PROVE  Placed(r)'
<1>1. /\ task[r] \in Nat /\ at[r] \in Nat /\ done[r] \in Nat /\ Len(given) \in Nat
      /\ task[r] \in 1 .. Len(given)
  <2>1. Len(given) \in Nat /\ task[r] \in Nat /\ at[r] \in Nat /\ done[r] \in Nat
    BY LenProperties DEF Typed
  <2> QED BY <2>1 DEF Placed
<1>2. r = 0 => Runs(r) /\ task[r] = Len(given)
  BY <1>1 DEF Placed
<1>3. at[r] <= Len(given[task[r]]) /\ Len(given[task[r]]) \in Nat
  <2>1. Given(task[r], at[r])
    BY PlaceKnown
  <2> QED BY <2>1, <1>1, GivenType DEF Given, Typed
<1>4. CASE /\ task'[r] = task[r] /\ at'[r] = at[r] /\ done'[r] = done[r] + 1
           /\ done[r] + 1 < Len(PlanOf(r, task[r], at[r]))
  <2>1. Runs(r)'
    BY <1>1, <1>3, <1>4 DEF Runs, PlanOf, Op
  <2>2. ~Idles(r)'
    BY <1>1, <1>4 DEF Idles
  <2>3. (task[r] \in 1 .. Len(given) + 1)'
    BY <1>1, <1>4
  <2>4. r = 0 => task'[r] = Len(given')
    BY <1>2, <1>4
  <2> QED BY <2>1, <2>2, <2>3, <2>4 DEF Placed
<1>5. CASE /\ task'[r] = task[r] /\ at'[r] = at[r] + 1 /\ done'[r] = 0
           /\ at[r] + 1 <= Len(given[task[r]])
  <2>0. Len(PlanOf(r, task[r], at[r] + 1)) \in Nat /\ Len(PlanOf(r, task[r], at[r] + 1)) >= 1
    <3>1. Given(task[r], at[r] + 1)
      BY <1>1, <1>3, <1>5 DEF Given
    <3> QED BY <3>1, GivenKnown, PlanType DEF Typed, PlanOf
  <2>1. Runs(r)'
    <3>1. (PlanOf(r, task[r], at[r]))' = PlanOf(r, task[r], at[r] + 1)
      BY <1>5 DEF PlanOf, Op
    <3> QED BY <1>1, <1>3, <1>5, <2>0, <3>1 DEF Runs
  <2>2. ~Idles(r)'
    BY <1>1, <1>5 DEF Idles
  <2>3. (task[r] \in 1 .. Len(given) + 1)'
    BY <1>1, <1>5
  <2>4. r = 0 => task'[r] = Len(given')
    BY <1>2, <1>5
  <2> QED BY <2>1, <2>2, <2>3, <2>4 DEF Placed
<1>6. CASE task'[r] = task[r] + 1 /\ at'[r] = 0 /\ done'[r] = 0
  <2>1. Idles(r)'
    BY <1>6 DEF Idles
  <2>2. (task[r] \in 1 .. Len(given) + 1)'
    BY <1>1, <1>6
  <2>3. r = 0 => task'[r] = Len(given') + 1
    BY <1>2, <1>6
  <2> QED BY <2>1, <2>2, <2>3 DEF Placed
<1> QED BY <1>4, <1>5, <1>6, Advances

\* A rank that stays where it is.
LEMMA StaysPlaced ==
  ASSUME NEW q \in Rank, Placed(q), given' = given,
         task'[q] = task[q], at'[q] = at[q], done'[q] = done[q],
         program'[q] = program[q], top'[q] = top[q],
         q \in waits' => q \in waits \/ (Runs(q) /\ Now(q).do \in Sending)
  PROVE  Placed(q)'
<1>1. (Idles(q) <=> Idles(q)') /\ (Runs(q) <=> Runs(q)')
  BY DEF Idles, Runs, PlanOf, Op
<1>2. Now(q)' = Now(q)
  BY DEF Now, Plan
<1> QED BY <1>1, <1>2 DEF Placed

-----------------------------------------------------------------------------
(* The messages on their way from rank s to rank r: those in the queue of r *)
(* and those in the network.                                               *)

Earlier(a, b) == a.task < b.task \/ (a.task = b.task /\ a.at < b.at)

\* They are in the order of the operations they were sent for.
Sorted(s, r) ==
  /\ \A k, l \in Places(r, s) : k < l => Earlier(queue[r][k].msg.id, queue[r][l].msg.id)
  /\ \A k, l \in DOMAIN net[s][r] : k < l => Earlier(net[s][r][k].id, net[s][r][l].id)
  /\ \A k \in Places(r, s) : \A l \in DOMAIN net[s][r] :
       Earlier(queue[r][k].msg.id, net[s][r][l].id)

\* Message m was sent by s for an operation in which r has yet to receive it.
Due(s, r, m) ==
  LET t == m.id.task
      k == m.id.at
  IN  /\ Given(t, k)
      /\ \E d \in Sending : \E i \in Int :
           Act(PlanOf(s, t, k), d, r, i, m.id) /\ Sent(s, t, k, i)
      /\ \E j \in Int : Act(PlanOf(r, t, k), "recv", s, j, m.id) /\ ~Before(r, t, k, j)
      /\ m.id.kind = "cmd" => m.value = given[t]

InStream(s, r, m) ==
  \/ \E k \in Places(r, s) : queue[r][k].msg = m
  \/ \E k \in DOMAIN net[s][r] : net[s][r][k] = m

AllDue(s, r) == \A m : InStream(s, r, m) => Due(s, r, m)
OnTheWay(s, r, id) == \E m : InStream(s, r, m) /\ m.id = id

\* What s has sent and r not received is on its way; r received only what s
\* had sent.
Kept(s, r) ==
  \A t, k, d, i, j, x :
    /\ Given(t, k) /\ d \in Sending /\ i \in Int /\ j \in Int
    /\ Act(PlanOf(s, t, k), d, r, i, x) /\ Act(PlanOf(r, t, k), "recv", s, j, x)
    => /\ Sent(s, t, k, i) /\ ~Before(r, t, k, j) => OnTheWay(s, r, x)
       /\ Before(r, t, k, j) => Sent(s, t, k, i)

Stream(s, r) == Sorted(s, r) /\ AllDue(s, r) /\ Kept(s, r)

Inv ==
  /\ Typed
  /\ \A r \in Rank : Placed(r)
  /\ \A s, r \in Rank : Stream(s, r)

LEMMA Least ==
  ASSUME NEW S \in SUBSET Nat, S # {}
  PROVE  Min(S) \in S /\ \A y \in S : Min(S) <= y
<1>1. PICK x \in S : \A y \in S : ~(<<y, x>> \in OpToRel(<, Nat))
  BY WFMin, NatLessThanWellFounded
<1>2. \A y, z \in Nat : y < z => <<y, z>> \in OpToRel(<, Nat)
  BY DEF OpToRel
<1>3. \A y \in S : x <= y
  <2> SUFFICES ASSUME NEW y \in S, ~(x <= y) PROVE FALSE
    OBVIOUS
  <2>1. y < x
    OBVIOUS
  <2> QED BY <1>1, <1>2, <2>1
<1> QED BY <1>3 DEF Min

LEMMA OldestIs ==
  ASSUME Typed, NEW s, NEW r \in Rank, Places(r, s) # {}
  PROVE  /\ Oldest(r, s) \in Places(r, s) /\ Oldest(r, s) \in 1 .. Len(queue[r])
         /\ Oldest(r, s) \in Nat
         /\ \A k \in Places(r, s) : k \in Nat /\ Oldest(r, s) <= k
<1>1. queue[r] \in Seq(Entries)
  BY DEF Typed
<1>2. DOMAIN queue[r] = 1 .. Len(queue[r]) /\ Len(queue[r]) \in Nat
  BY <1>1, LenProperties
<1>3. Places(r, s) \in SUBSET Nat /\ Places(r, s) \subseteq 1 .. Len(queue[r])
  BY <1>2 DEF Places
<1>4. Min(Places(r, s)) \in Places(r, s) /\ \A y \in Places(r, s) : Min(Places(r, s)) <= y
  BY <1>3, Least
<1> QED BY <1>3, <1>4 DEF Oldest

LEMMA EntryType ==
  ASSUME Typed, NEW r \in Rank, NEW k \in DOMAIN queue[r]
  PROVE  /\ queue[r][k] \in Entries /\ queue[r][k].from \in Rank
         /\ queue[r][k].msg \in Messages
         /\ k \in 1 .. Len(queue[r]) /\ k \in Nat /\ Len(queue[r]) \in Nat
<1>1. queue[r] \in Seq(Entries)
  BY DEF Typed
<1>2. DOMAIN queue[r] = 1 .. Len(queue[r]) /\ Len(queue[r]) \in Nat
  BY <1>1, LenProperties
<1>3. queue[r][k] \in Entries
  BY <1>1, <1>2, ElementOfSeq
<1> QED BY <1>2, <1>3 DEF Entries

LEMMA MessageType ==
  ASSUME NEW m \in Messages
  PROVE  /\ m.id \in Ids /\ m.value \in Values /\ m.id.task \in Nat /\ m.id.at \in Nat
         /\ m.id.kind = "in" => m.value \in [Rank -> Nat]
BY DEF Messages, Ids

LEMMA NetType ==
  ASSUME Typed, NEW s \in Rank, NEW r \in Rank
  PROVE  /\ net[s][r] \in Seq(Messages) /\ Len(net[s][r]) \in Nat
         /\ DOMAIN net[s][r] = 1 .. Len(net[s][r])
         /\ \A k \in DOMAIN net[s][r] : net[s][r][k] \in Messages /\ k \in Nat
         /\ net[s][r] # <<>> => 1 \in DOMAIN net[s][r] /\ Head(net[s][r]) = net[s][r][1]
<1>1. net[s][r] \in Seq(Messages)
  BY DEF Typed
<1>2. Len(net[s][r]) \in Nat /\ DOMAIN net[s][r] = 1 .. Len(net[s][r])
  BY <1>1, LenProperties
<1>3. \A k \in DOMAIN net[s][r] : net[s][r][k] \in Messages /\ k \in Nat
  BY <1>1, <1>2, ElementOfSeq
<1>4. net[s][r] # <<>> => 1 \in DOMAIN net[s][r] /\ Head(net[s][r]) = net[s][r][1]
  <2>1. net[s][r] # <<>> => Len(net[s][r]) # 0
    BY <1>1, EmptySeq
  <2>2. Head(net[s][r]) = net[s][r][1]
    BY <1>1
  <2> QED BY <1>2, <2>1, <2>2
<1> QED BY <1>1, <1>2, <1>3, <1>4

\* Of what is on its way from s to r, Coming is first.
LEMMA ComingFirst ==
  ASSUME Typed, NEW s \in Rank, NEW r \in Rank, Sorted(s, r), AllDue(s, r), Waiting(s, r)
  PROVE  /\ Coming(s, r) \in Messages /\ Due(s, r, Coming(s, r))
         /\ \A x : OnTheWay(s, r, x) => x = Coming(s, r).id \/ Earlier(Coming(s, r).id, x)
<1>1. CASE Places(r, s) # {}
  <2> DEFINE o == Oldest(r, s)
  <2>1. o \in Places(r, s) /\ o \in DOMAIN queue[r] /\ o \in Nat
        /\ \A k \in Places(r, s) : k \in Nat /\ o <= k
    BY <1>1, OldestIs DEF Places
  <2> HIDE DEF o
  <2>2. Coming(s, r) = queue[r][o].msg
    BY <1>1 DEF Coming, o
  <2>3. queue[r][o].msg \in Messages /\ Due(s, r, queue[r][o].msg)
    BY <2>1, EntryType DEF AllDue, InStream
  <2>4. ASSUME NEW k \in Places(r, s)
        PROVE  queue[r][k].msg.id = queue[r][o].msg.id
                 \/ Earlier(queue[r][o].msg.id, queue[r][k].msg.id)
    <3>1. k \in Nat /\ o \in Nat /\ o <= k
      BY <2>1
    <3>2. k = o \/ o < k
      BY <3>1
    <3> QED BY <2>1, <3>2 DEF Sorted
  <2>5. \A k \in DOMAIN net[s][r] : Earlier(queue[r][o].msg.id, net[s][r][k].id)
    BY <2>1 DEF Sorted
  <2> QED BY <2>2, <2>3, <2>4, <2>5 DEF OnTheWay, InStream
<1>2. CASE Places(r, s) = {}
  <2>1. net[s][r] # <<>>
    BY <1>2 DEF Waiting
  <2>2. 1 \in DOMAIN net[s][r] /\ Coming(s, r) = net[s][r][1]
    BY <1>2, <2>1, NetType DEF Coming
  <2>3. net[s][r][1] \in Messages /\ Due(s, r, net[s][r][1])
    BY <2>2, NetType DEF AllDue, InStream
  <2>4. ASSUME NEW k \in DOMAIN net[s][r]
        PROVE  net[s][r][k].id = net[s][r][1].id \/ Earlier(net[s][r][1].id, net[s][r][k].id)
    <3>1. k = 1 \/ 1 < k
      BY NetType
    <3> QED BY <2>2, <3>1 DEF Sorted
  <2> QED BY <1>2, <2>2, <2>3, <2>4 DEF OnTheWay, InStream
<1> QED BY <1>1, <1>2

\* What is sent for an operation that comes before one s has sent for has been
\* sent.
LEMMA SentBefore ==
  ASSUME Typed, NEW s \in Rank, NEW t \in Nat, NEW k \in Nat, NEW i,
         NEW t0 \in Nat, NEW k0 \in Nat, NEW i0, Sent(s, t, k, i),
         t0 < t \/ (t0 = t /\ k0 < k)
  PROVE  Sent(s, t0, k0, i0)
<1>1. task[s] \in Nat /\ at[s] \in Nat
  BY DEF Typed
<1> QED BY <1>1 DEF Sent, Before, Current

\* The message rank r is to receive now is the first on its way, if there is any.
LEMMA ComingIs ==
  ASSUME Inv, NEW r \in Rank, Now(r).do = "recv", NEW s \in Now(r).peers, Waiting(s, r)
  PROVE  /\ s \in Rank \ {r} /\ Coming(s, r) \in Messages /\ Due(s, r, Coming(s, r))
         /\ Coming(s, r).id = Now(r).id
         /\ Coming(s, r).id.task = task[r] /\ Coming(s, r).id.at = at[r]
         /\ task[r] <= Len(given)
<1> DEFINE m == Coming(s, r)
           t == m.id.task
           k == m.id.at
           T == task[r]
           A == at[r]
           x == Now(r).id
<1>0. Typed /\ Placed(r)
  BY DEF Inv
<1>1. s \in Rank \ {r} /\ Act(PlanOf(r, T, A), "recv", s, done[r] + 1, x)
  BY <1>0, NowActs
<1>2. Stream(s, r)
  BY <1>1 DEF Inv
<1>3. /\ m \in Messages /\ Due(s, r, m)
      /\ \A y : OnTheWay(s, r, y) => y = m.id \/ Earlier(m.id, y)
  BY <1>0, <1>1, <1>2, ComingFirst DEF Stream
<1>4. t \in Nat /\ k \in Nat /\ T \in Nat /\ A \in Nat /\ done[r] \in Nat
  BY <1>0, <1>3, MessageType DEF Typed
<1>5. /\ KnownOp(Op(T, A), T, A) /\ (T <= Len(given) => Given(T, A))
      /\ done[r] + 1 \in Int
  BY <1>0, PlaceKnown
<1> HIDE DEF m
<1>6. Given(t, k)
  BY <1>3 DEF Due
<1>7. PICK d \in Sending : \E i \in Int : Act(PlanOf(s, t, k), d, r, i, m.id) /\ Sent(s, t, k, i)
  BY <1>3 DEF Due
<1>8. PICK i \in Int : Act(PlanOf(s, t, k), d, r, i, m.id) /\ Sent(s, t, k, i)
  BY <1>7
<1>9. PICK j \in Int : Act(PlanOf(r, t, k), "recv", s, j, m.id) /\ ~Before(r, t, k, j)
  BY <1>3 DEF Due
<1>10. T < t \/ (T = t /\ A <= k)
  BY <1>4, <1>9 DEF Before
<1>11. T <= Len(given) /\ Given(T, A)
  <2>1. t <= Len(given) /\ Len(given) \in Nat
    BY <1>6, LenProperties, <1>0 DEF Given, Typed
  <2> QED BY <1>4, <1>5, <1>10, <2>1
<1>12. CASE T = t /\ A = k
  <2>1. KnownOp(Op(t, k), t, k)
    BY <1>5, <1>12
  <2>2. m.id = x
    BY <1>1, <1>5, <1>9, <1>12, <2>1, OneReceive DEF PlanOf
  <2> QED BY <1>1, <1>3, <1>11, <1>12, <2>2 DEF m
<1>13. CASE T < t \/ (T = t /\ A < k)
  <2>1. \E e \in Sending : \E h \in Int : Act(PlanOf(s, T, A), e, r, h, x)
    BY <1>1, <1>5, Matched DEF PlanOf
  <2>2. PICK e \in Sending : \E h \in Int : Act(PlanOf(s, T, A), e, r, h, x)
    BY <2>1
  <2>3. PICK h \in Int : Act(PlanOf(s, T, A), e, r, h, x)
    BY <2>2
  <2>4. Sent(s, T, A, h)
    BY <1>0, <1>1, <1>4, <1>8, <1>13, SentBefore
  <2>5. ~Before(r, T, A, done[r] + 1)
    BY <1>4 DEF Before
  <2>6. OnTheWay(s, r, x)
    BY <1>1, <1>2, <1>5, <1>11, <2>3, <2>4, <2>5 DEF Stream, Kept
  <2>7. x.task = T /\ x.at = A
    BY <1>1, <1>5, PlanActs DEF PlanOf
  <2>8. x = m.id \/ Earlier(m.id, x)
    BY <1>3, <2>6
  <2> QED BY <1>4, <1>13, <2>7, <2>8 DEF Earlier
<1> QED BY <1>4, <1>10, <1>12, <1>13

-----------------------------------------------------------------------------
(* What a step does to the messages on their way. *)

LEMMA SamePlans ==
  ASSUME given' = given
  PROVE  \A q, t, k : /\ PlanOf(q, t, k)' = PlanOf(q, t, k)
                      /\ Given(t, k)' <=> Given(t, k)
BY DEF PlanOf, Op, Given

\* Nothing s sends to r, or r receives from s, comes to be behind the rank.
SameSides(s, r) ==
  /\ \A t, k, j, x : Given(t, k) /\ Act(PlanOf(r, t, k), "recv", s, j, x)
        => (Before(r, t, k, j)' <=> Before(r, t, k, j))
  /\ \A t, k, d, i, x : Given(t, k) /\ d \in Sending /\ Act(PlanOf(s, t, k), d, r, i, x)
        => (Sent(s, t, k, i)' <=> Sent(s, t, k, i))

LEMMA SameDue ==
  ASSUME given' = given, NEW s, NEW r, SameSides(s, r), NEW m
  PROVE  Due(s, r, m)' <=> Due(s, r, m)
<1> DEFINE t == m.id.task
           k == m.id.at
<1>1. /\ Given(t, k)' <=> Given(t, k)
      /\ PlanOf(s, t, k)' = PlanOf(s, t, k)
      /\ PlanOf(r, t, k)' = PlanOf(r, t, k)
  BY SamePlans
<1>2. ASSUME Given(t, k)
      PROVE  /\ \A j, x : Act(PlanOf(r, t, k), "recv", s, j, x)
                  => (Before(r, t, k, j)' <=> Before(r, t, k, j))
             /\ \A d, i, x : d \in Sending /\ Act(PlanOf(s, t, k), d, r, i, x)
                  => (Sent(s, t, k, i)' <=> Sent(s, t, k, i))
  BY <1>2 DEF SameSides
<1> QED BY <1>1, <1>2 DEF Due

\* The same messages are on their way, in the right order.
LEMMA SameStream ==
  ASSUME given' = given, NEW s \in Rank, NEW r \in Rank, SameSides(s, r), Stream(s, r),
         \A m : InStream(s, r, m)' <=> InStream(s, r, m), Sorted(s, r)'
  PROVE  Stream(s, r)'
<1>1. AllDue(s, r)'
  <2>1. ASSUME NEW m, InStream(s, r, m)'
        PROVE  Due(s, r, m)'
    BY <2>1, SameDue DEF Stream, AllDue
  <2> QED BY <2>1 DEF AllDue
<1>2. Kept(s, r)'
  <2>1. \A x : OnTheWay(s, r, x)' <=> OnTheWay(s, r, x)
    BY DEF OnTheWay
  <2>2. ASSUME NEW t, NEW k, NEW d \in Sending, NEW i \in Int, NEW j \in Int, NEW x,
               Given(t, k)', Act(PlanOf(s, t, k), d, r, i, x)',
               Act(PlanOf(r, t, k), "recv", s, j, x)'
        PROVE  /\ Sent(s, t, k, i)' /\ ~Before(r, t, k, j)' => OnTheWay(s, r, x)'
               /\ Before(r, t, k, j)' => Sent(s, t, k, i)'
    <3>1. /\ Given(t, k) /\ Act(PlanOf(s, t, k), d, r, i, x)
          /\ Act(PlanOf(r, t, k), "recv", s, j, x)
      BY <2>2, SamePlans
    <3>2. /\ Before(r, t, k, j)' <=> Before(r, t, k, j)
          /\ Sent(s, t, k, i)' <=> Sent(s, t, k, i)
      BY <3>1 DEF SameSides
    <3> QED BY <2>1, <3>1, <3>2 DEF Stream, Kept
  <2> QED BY <2>2 DEF Kept
<1> QED BY <1>1, <1>2 DEF Stream

LEMMA UntouchedStream ==
  ASSUME given' = given, NEW s \in Rank, NEW r \in Rank, SameSides(s, r), Stream(s, r),
         queue'[r] = queue[r], net'[s][r] = net[s][r]
  PROVE  Stream(s, r)'
<1>1. Places(r, s)' = Places(r, s)
  BY DEF Places
<1>2. Sorted(s, r)'
  BY <1>1 DEF Stream, Sorted
<1>3. \A m : InStream(s, r, m)' <=> InStream(s, r, m)
  BY <1>1 DEF InStream
<1> QED BY <1>2, <1>3, SameStream

\* While no rank moves.
LEMMA StillSides ==
  ASSUME NEW s, NEW r, place' = place, waits' = waits
  PROVE  SameSides(s, r)
BY DEF SameSides, Before, Sent, Current, place

LEMMA QueueAppended ==
  ASSUME Typed, NEW r \in Rank, NEW e \in Entries, queue'[r] = Append(queue[r], e), NEW s
  PROVE  /\ Places(r, s)' = Places(r, s) \cup (IF e.from = s THEN {Len(queue[r]) + 1} ELSE {})
         /\ \A k \in Places(r, s) : queue'[r][k] = queue[r][k] /\ k \in Nat /\ k <= Len(queue[r])
         /\ queue'[r][Len(queue[r]) + 1] = e
<1>1. queue[r] \in Seq(Entries)
  BY DEF Typed
<1>2. DOMAIN queue[r] = 1 .. Len(queue[r]) /\ Len(queue[r]) \in Nat
  BY <1>1, LenProperties
<1>3. /\ Append(queue[r], e) \in Seq(Entries)
      /\ Len(Append(queue[r], e)) = Len(queue[r]) + 1
      /\ \A i \in 1 .. Len(queue[r]) : Append(queue[r], e)[i] = queue[r][i]
      /\ Append(queue[r], e)[Len(queue[r]) + 1] = e
  BY <1>1, AppendProperties
<1>4. DOMAIN queue'[r] = 1 .. Len(queue[r]) + 1
  BY <1>3, LenProperties
<1>5. \A k : k \in DOMAIN queue'[r] <=> k \in DOMAIN queue[r] \/ k = Len(queue[r]) + 1
  BY <1>2, <1>4
<1>6. \A k \in DOMAIN queue[r] : queue'[r][k] = queue[r][k] /\ k \in Nat /\ k <= Len(queue[r])
  BY <1>2, <1>3
<1>7. queue'[r][Len(queue[r]) + 1] = e
  BY <1>3
<1>8. Places(r, s)' = {k \in DOMAIN queue'[r] : queue'[r][k].from = s}
  BY DEF Places
<1>9. \A k : k \in Places(r, s)' <=>
          k \in Places(r, s) \/ (k = Len(queue[r]) + 1 /\ e.from = s)
  BY <1>5, <1>6, <1>7, <1>8 DEF Places
<1> QED BY <1>6, <1>7, <1>9 DEF Places

LEMMA GetStream ==
  ASSUME Inv, NEW q \in Rank, NEW p \in Rank, Get(q, p), NEW s \in Rank, NEW r \in Rank
  PROVE  Stream(s, r)' /\ \A m : InStream(s, r, m)' => InStream(s, r, m)
<1>0. Typed /\ Stream(s, r) /\ Stream(p, q)
  BY DEF Inv
<1> DEFINE h == Head(net[p][q])
           e == [from |-> p, msg |-> h]
<1>1. /\ net[p][q] # <<>> /\ net' = [net EXCEPT ![p][q] = Tail(@)]
      /\ queue' = [queue EXCEPT ![q] = Append(@, e)]
      /\ given' = given /\ place' = place /\ waits' = waits
  BY DEF Get
<1>2. /\ net'[p][q] = Tail(net[p][q])
      /\ \A a, b \in Rank : <<a, b>> # <<p, q>> => net'[a][b] = net[a][b]
      /\ queue'[q] = Append(queue[q], e)
      /\ \A b \in Rank : b # q => queue'[b] = queue[b]
  BY <1>0, <1>1 DEF Typed
<1>3. SameSides(s, r)
  BY <1>1, StillSides
<1>4. h \in Messages /\ h = net[p][q][1] /\ 1 \in DOMAIN net[p][q] /\ e \in Entries
  BY <1>0, <1>1, NetType DEF Entries
<1>5. e.from = p /\ e.msg = h
  OBVIOUS
<1> HIDE DEF h, e
<1>6. CASE r # q
  <2>1. net'[s][r] = net[s][r] /\ queue'[r] = queue[r]
    BY <1>2, <1>6
  <2>2. \A m : InStream(s, r, m)' => InStream(s, r, m)
    BY <2>1 DEF InStream, Places
  <2> QED BY <1>0, <1>1, <1>3, <2>1, <2>2, UntouchedStream
<1>7. CASE r = q /\ s # p
  <2>1. net'[s][r] = net[s][r]
    BY <1>2, <1>7
  <2>2. Places(r, s)' = Places(r, s) /\ \A k \in Places(r, s) : queue'[r][k] = queue[r][k]
    <3>1. /\ Places(r, s)' = Places(r, s) \cup (IF e.from = s THEN {Len(queue[r]) + 1} ELSE {})
          /\ \A k \in Places(r, s) : queue'[r][k] = queue[r][k] /\ k \in Nat /\ k <= Len(queue[r])
      BY <1>0, <1>2, <1>4, <1>7, QueueAppended
    <3> QED BY <1>5, <1>7, <3>1
  <2>3. Sorted(s, r)'
    BY <1>0, <2>1, <2>2 DEF Stream, Sorted
  <2>4. \A m : InStream(s, r, m)' <=> InStream(s, r, m)
    BY <2>1, <2>2 DEF InStream
  <2> QED BY <1>0, <1>1, <1>3, <2>3, <2>4, SameStream
<1>8. CASE r = q /\ s = p
  <2> DEFINE n == Len(queue[r]) + 1
  <2>1. /\ Places(r, s)' = Places(r, s) \cup {n}
        /\ \A k \in Places(r, s) : queue'[r][k] = queue[r][k] /\ k \in Nat /\ k < n
        /\ queue'[r][n].msg = h /\ n \in Nat
    <3>1. Len(queue[r]) \in Nat
      BY <1>0, LenProperties DEF Typed
    <3>2. /\ Places(r, s)' = Places(r, s) \cup (IF e.from = s THEN {Len(queue[r]) + 1} ELSE {})
          /\ \A k \in Places(r, s) : queue'[r][k] = queue[r][k] /\ k \in Nat /\ k <= Len(queue[r])
          /\ queue'[r][Len(queue[r]) + 1] = e
      BY <1>0, <1>2, <1>4, <1>8, QueueAppended
    <3> QED BY <1>5, <1>8, <3>1, <3>2
  <2>2. /\ DOMAIN net'[s][r] = 1 .. Len(net[s][r]) - 1
        /\ \A k \in 1 .. Len(net[s][r]) - 1 : net'[s][r][k] = net[s][r][k + 1]
        /\ DOMAIN net[s][r] = 1 .. Len(net[s][r]) /\ Len(net[s][r]) \in Nat
    <3>1. net[s][r] \in Seq(Messages) /\ net[s][r] # <<>>
      BY <1>0, <1>1, <1>8, NetType
    <3>2. /\ Tail(net[s][r]) \in Seq(Messages) /\ Len(Tail(net[s][r])) = Len(net[s][r]) - 1
          /\ \A k \in 1 .. Len(Tail(net[s][r])) : Tail(net[s][r])[k] = net[s][r][k + 1]
      BY <3>1, HeadTailProperties
    <3>3. DOMAIN Tail(net[s][r]) = 1 .. Len(Tail(net[s][r]))
      BY <3>2, LenProperties
    <3>4. net'[s][r] = Tail(net[s][r])
      BY <1>2, <1>8
    <3>5. DOMAIN net[s][r] = 1 .. Len(net[s][r]) /\ Len(net[s][r]) \in Nat
      BY <1>0, NetType
    <3>6. DOMAIN net'[s][r] = 1 .. Len(net[s][r]) - 1
      BY <3>2, <3>3, <3>4
    <3>7. \A k \in 1 .. Len(net[s][r]) - 1 : net'[s][r][k] = net[s][r][k + 1]
      BY <3>2, <3>4
    <3> QED BY <3>5, <3>6, <3>7
  <2> HIDE DEF n
  <2>3. \A k \in DOMAIN net'[s][r] : k + 1 \in DOMAIN net[s][r] /\ 1 < k + 1
          /\ net'[s][r][k] = net[s][r][k + 1] /\ k \in Nat
    BY <2>2
  <2>4. Sorted(s, r)'
    <3>1. ASSUME NEW k \in Places(r, s)', NEW l \in Places(r, s)', k < l
          PROVE  Earlier(queue'[r][k].msg.id, queue'[r][l].msg.id)
      <4>1. k \in Places(r, s) \cup {n} /\ l \in Places(r, s) \cup {n}
        BY <2>1
      <4>2. k # n
        BY <2>1, <3>1, <4>1
      <4>3. CASE l = n
        <5>1. Earlier(queue[r][k].msg.id, net[s][r][1].id)
          BY <1>0, <1>4, <1>8, <4>1, <4>2 DEF Stream, Sorted
        <5> QED BY <1>4, <1>8, <2>1, <4>1, <4>2, <4>3, <5>1
      <4>4. CASE l # n
        BY <1>0, <1>8, <2>1, <3>1, <4>1, <4>2, <4>4 DEF Stream, Sorted
      <4> QED BY <4>3, <4>4
    <3>2. ASSUME NEW k \in DOMAIN net'[s][r], NEW l \in DOMAIN net'[s][r], k < l
          PROVE  Earlier(net'[s][r][k].id, net'[s][r][l].id)
      <4>1. k + 1 < l + 1
        BY <2>3, <3>2
      <4> QED BY <1>0, <1>8, <2>3, <4>1 DEF Stream, Sorted
    <3>3. ASSUME NEW k \in Places(r, s)', NEW l \in DOMAIN net'[s][r]
          PROVE  Earlier(queue'[r][k].msg.id, net'[s][r][l].id)
      <4>1. CASE k = n
        <5>1. Earlier(net[s][r][1].id, net[s][r][l + 1].id)
          BY <1>0, <1>4, <1>8, <2>3 DEF Stream, Sorted
        <5> QED BY <1>4, <1>8, <2>1, <2>3, <4>1, <5>1
      <4>2. CASE k \in Places(r, s)
        BY <1>0, <1>8, <2>1, <2>3, <4>2 DEF Stream, Sorted
      <4> QED BY <2>1, <4>1, <4>2
    <3> QED BY <3>1, <3>2, <3>3 DEF Sorted, Earlier
  <2>5. \A m : InStream(s, r, m)' <=> InStream(s, r, m)
    <3>1. ASSUME NEW m, InStream(s, r, m)'
          PROVE  InStream(s, r, m)
      <4>1. CASE \E k \in Places(r, s)' : queue'[r][k].msg = m
        BY <1>4, <1>8, <2>1, <4>1 DEF InStream
      <4>2. CASE \E k \in DOMAIN net'[s][r] : net'[s][r][k] = m
        BY <2>3, <4>2 DEF InStream
      <4> QED BY <3>1, <4>1, <4>2 DEF InStream
    <3>2. ASSUME NEW m, InStream(s, r, m)
          PROVE  InStream(s, r, m)'
      <4>1. CASE \E k \in Places(r, s) : queue[r][k].msg = m
        BY <2>1, <4>1 DEF InStream
      <4>2. CASE \E k \in DOMAIN net[s][r] : net[s][r][k] = m
        <5>1. PICK k \in DOMAIN net[s][r] : net[s][r][k] = m
          BY <4>2
        <5>2. CASE k = 1
          <6>1. n \in Places(r, s)' /\ queue'[r][n].msg = m
            BY <1>4, <1>8, <2>1, <5>1, <5>2
          <6> QED BY <6>1 DEF InStream
        <5>3. CASE k # 1
          <6>1. k - 1 \in DOMAIN net'[s][r] /\ k - 1 + 1 = k
            BY <2>2, <5>3
          <6>2. net'[s][r][k - 1] = m
            BY <2>3, <5>1, <6>1
          <6> QED BY <6>1, <6>2 DEF InStream
        <5> QED BY <5>2, <5>3
      <4> QED BY <3>2, <4>1, <4>2 DEF InStream
    <3> QED BY <3>1, <3>2
  <2> QED BY <1>0, <1>1, <1>3, <1>8, <2>4, <2>5, SameStream
<1> QED BY <1>6, <1>7, <1>8

\* The message operation a rank is in, seen in its plan.
LEMMA CurrentIsNow ==
  ASSUME Typed, NEW q \in Rank, Placed(q), NEW t, NEW k, NEW d, NEW p, NEW i, NEW x,
         Act(PlanOf(q, t, k), d, p, i, x), Current(q, t, k, i)
  PROVE  d = Now(q).do /\ p \in Now(q).peers /\ x = Now(q).id
<1>1. Plan(q) = PlanOf(q, task[q], at[q]) /\ Now(q) = Plan(q)[done[q] + 1]
  BY PlaceKnown
<1> QED BY <1>1 DEF Act, Current

\* Rank q moves on: it sends to r, or receives from s, only as its present
\* message operation says.
LEMMA AdvanceSides ==
  ASSUME Inv, given' = given, NEW q \in Rank, task[q] <= Len(given), Advance(q), q \notin waits',
         \A a \in Rank \ {q} : a \in waits' <=> a \in waits,
         NEW s \in Rank, NEW r \in Rank,
         s = q => Now(q).do \notin Sending \/ r \notin Now(q).peers \/ q \in waits,
         r = q => Now(q).do # "recv" \/ s \notin Now(q).peers
  PROVE  SameSides(s, r)
<1>0. Typed /\ Placed(q)
  BY DEF Inv
<1>1. \A a \in Rank \ {q} : task'[a] = task[a] /\ at'[a] = at[a] /\ done'[a] = done[a]
  BY <1>0, Advances
<1>2. ASSUME NEW a \in Rank \ {q}, NEW t, NEW k, NEW i
      PROVE  (Before(a, t, k, i)' <=> Before(a, t, k, i)) /\ (Sent(a, t, k, i)' <=> Sent(a, t, k, i))
  BY <1>1 DEF Before, Sent, Current
<1>3. ASSUME NEW t, NEW k, NEW j, NEW x, Given(t, k), Act(PlanOf(r, t, k), "recv", s, j, x)
      PROVE  Before(r, t, k, j)' <=> Before(r, t, k, j)
  <2>1. CASE r = q
    <3>1. ~Current(q, t, k, j)
      BY <1>0, <1>3, <2>1, CurrentIsNow
    <3>2. j \in DOMAIN PlanOf(q, t, k)
      BY <1>3, <2>1 DEF Act
    <3>3. Before(q, t, k, j)' <=> Before(q, t, k, j) \/ Current(q, t, k, j)
      BY <1>0, <1>3, <3>2, AdvanceBefore
    <3> QED BY <2>1, <3>1, <3>3
  <2>2. CASE r # q
    BY <1>2, <2>2
  <2> QED BY <2>1, <2>2
<1>4. ASSUME NEW t, NEW k, NEW d \in Sending, NEW i, NEW x, Given(t, k),
             Act(PlanOf(s, t, k), d, r, i, x)
      PROVE  Sent(s, t, k, i)' <=> Sent(s, t, k, i)
  <2>1. CASE s = q
    <3>1. Current(q, t, k, i) => q \in waits
      BY <1>0, <1>4, <2>1, CurrentIsNow
    <3>2. i \in DOMAIN PlanOf(q, t, k)
      BY <1>4, <2>1 DEF Act
    <3>3. Before(q, t, k, i)' <=> Before(q, t, k, i) \/ Current(q, t, k, i)
      BY <1>0, <1>4, <3>2, AdvanceBefore
    <3>4. Sent(q, t, k, i)' <=> Before(q, t, k, i)'
      BY DEF Sent
    <3>5. Sent(q, t, k, i) <=> Before(q, t, k, i) \/ (q \in waits /\ Current(q, t, k, i))
      BY DEF Sent
    <3> QED BY <2>1, <3>1, <3>3, <3>4, <3>5
  <2>2. CASE s # q
    BY <1>2, <2>2
  <2> QED BY <2>1, <2>2
<1> QED BY <1>3, <1>4 DEF SameSides

Shift(o, k) == IF k < o THEN k ELSE k + 1

LEMMA QueueRemoved ==
  ASSUME Typed, NEW r \in Rank, NEW o \in DOMAIN queue[r],
         queue'[r] = RemoveAt(queue[r], o), NEW s
  PROVE  /\ \A k \in Places(r, s)' : /\ k \in Nat /\ Shift(o, k) \in Places(r, s) /\ Shift(o, k) # o
                                    /\ queue'[r][k] = queue[r][Shift(o, k)]
         /\ \A l \in Places(r, s) : l # o => \E k \in Places(r, s)' : queue'[r][k] = queue[r][l]
         /\ \A k, l \in Nat : k < l => Shift(o, k) < Shift(o, l)
<1>1. queue[r] \in Seq(Entries)
  BY DEF Typed
<1>2. DOMAIN queue[r] = 1 .. Len(queue[r]) /\ Len(queue[r]) \in Nat
  BY <1>1, LenProperties
<1>3. o \in 1 .. Len(queue[r]) /\ o \in Nat
  BY <1>2
<1>4. /\ RemoveAt(queue[r], o) \in Seq(Entries)
      /\ Len(RemoveAt(queue[r], o)) = Len(queue[r]) - 1
      /\ \A k \in 1 .. (Len(queue[r]) - 1) :
           RemoveAt(queue[r], o)[k] = IF k < o THEN queue[r][k] ELSE queue[r][k + 1]
  BY <1>1, <1>3, RemoveAtProperties
<1>5. DOMAIN queue'[r] = 1 .. Len(queue[r]) - 1
  BY <1>4, LenProperties
<1>6. \A k \in DOMAIN queue'[r] : /\ k \in Nat /\ Shift(o, k) \in DOMAIN queue[r] /\ Shift(o, k) # o
                                  /\ queue'[r][k] = queue[r][Shift(o, k)]
  BY <1>2, <1>3, <1>4, <1>5 DEF Shift
<1>7. \A l \in DOMAIN queue[r] : l # o =>
        \E k \in DOMAIN queue'[r] : queue'[r][k] = queue[r][l]
  <2>1. ASSUME NEW l \in DOMAIN queue[r], l # o
        PROVE  \E k \in DOMAIN queue'[r] : queue'[r][k] = queue[r][l]
    <3> DEFINE k == IF l < o THEN l ELSE l - 1
    <3>1. k \in DOMAIN queue'[r] /\ Shift(o, k) = l
      BY <1>2, <1>3, <1>5, <2>1 DEF Shift
    <3> QED BY <1>6, <3>1
  <2> QED BY <2>1
<1>8. Places(r, s)' = {k \in DOMAIN queue'[r] : queue'[r][k].from = s}
  BY DEF Places
<1>9. \A k, l \in Nat : k < l => Shift(o, k) < Shift(o, l)
  BY <1>3 DEF Shift
<1>10. \A k \in Places(r, s)' : /\ k \in Nat /\ Shift(o, k) \in Places(r, s) /\ Shift(o, k) # o
                                /\ queue'[r][k] = queue[r][Shift(o, k)]
  BY <1>6, <1>8 DEF Places
<1>11. \A l \in Places(r, s) : l # o => \E k \in Places(r, s)' : queue'[r][k] = queue[r][l]
  BY <1>7, <1>8 DEF Places
<1> QED BY <1>9, <1>10, <1>11

\* What is left in the queue stays in order.
LEMMA RemovedSorted ==
  ASSUME Typed, NEW s \in Rank, NEW r \in Rank, NEW o \in DOMAIN queue[r],
         queue'[r] = RemoveAt(queue[r], o), net'[s][r] = net[s][r], Sorted(s, r)
  PROVE  Sorted(s, r)'
<1>1. \A k \in Places(r, s)' : /\ k \in Nat /\ Shift(o, k) \in Places(r, s)
                               /\ queue'[r][k] = queue[r][Shift(o, k)]
  BY QueueRemoved
<1>2. \A k, l \in Nat : k < l => Shift(o, k) < Shift(o, l)
  BY QueueRemoved
<1>3. ASSUME NEW k \in Places(r, s)', NEW l \in Places(r, s)', k < l
      PROVE  Earlier(queue'[r][k].msg.id, queue'[r][l].msg.id)
  BY <1>1, <1>2, <1>3 DEF Sorted
<1>4. ASSUME NEW k \in Places(r, s)', NEW l \in DOMAIN net'[s][r]
      PROVE  Earlier(queue'[r][k].msg.id, net'[s][r][l].id)
  BY <1>1 DEF Sorted
<1>5. \A k, l \in DOMAIN net'[s][r] : k < l => Earlier(net'[s][r][k].id, net'[s][r][l].id)
  BY DEF Sorted
<1> QED BY <1>3, <1>4, <1>5 DEF Sorted, Earlier

\* No two messages on their way from s to r have one id.
LEMMA OnceOnTheWay ==
  ASSUME Typed, NEW s \in Rank, NEW r \in Rank, Sorted(s, r), NEW o \in Places(r, s)
  PROVE  /\ \A k \in Places(r, s) : queue[r][k].msg.id = queue[r][o].msg.id => k = o
         /\ \A k \in DOMAIN net[s][r] : net[s][r][k].id # queue[r][o].msg.id
<1>0. o \in DOMAIN queue[r]
  BY DEF Places
<1>1. \A x \in Ids : ~Earlier(x, x)
  BY DEF Ids, Earlier
<1>2. queue[r][o].msg.id \in Ids /\ o \in Nat
  BY <1>0, EntryType, MessageType
<1>3. ASSUME NEW k \in Places(r, s), queue[r][k].msg.id = queue[r][o].msg.id, k # o
      PROVE  FALSE
  <2>1. k \in Nat
    BY EntryType DEF Places
  <2>2. k < o \/ o < k
    BY <1>2, <1>3, <2>1
  <2> QED BY <1>1, <1>2, <1>3, <2>2 DEF Sorted
<1>4. ASSUME NEW k \in DOMAIN net[s][r], net[s][r][k].id = queue[r][o].msg.id
      PROVE  FALSE
  BY <1>1, <1>2, <1>4 DEF Sorted
<1> QED BY <1>3, <1>4

\* mp_recv takes the message it is to take.
LEMMA TakeIs ==
  ASSUME Inv, NEW q \in Rank, Take(q)
  PROVE  \E p \in Now(q).peers :
           /\ p \in Rank \ {q} /\ Now(q).do = "recv" /\ q \notin waits /\ waits' = waits
           /\ given' = given /\ net' = net /\ Advance(q) /\ task[q] <= Len(given)
           /\ Oldest(q, p) \in Places(q, p) /\ Oldest(q, p) \in DOMAIN queue[q]
           /\ queue'[q] = RemoveAt(queue[q], Oldest(q, p))
           /\ \A r \in Rank \ {q} : queue'[r] = queue[r]
           /\ queue[q][Oldest(q, p)].msg.id = Now(q).id
           /\ Due(p, q, queue[q][Oldest(q, p)].msg)
           /\ Act(PlanOf(q, task[q], at[q]), "recv", p, done[q] + 1, Now(q).id)
<1>0. Typed /\ Placed(q)
  BY DEF Inv
<1>1. /\ Now(q).do = "recv" /\ q \notin waits /\ waits' = waits
      /\ given' = given /\ net' = net /\ Advance(q)
  BY DEF Take, Works
<1>2. PICK p \in Now(q).peers :
        /\ Places(q, p) # {}
        /\ queue' = [queue EXCEPT ![q] = RemoveAt(@, Oldest(q, p))]
  BY DEF Take
<1>3. Waiting(p, q) /\ Coming(p, q) = queue[q][Oldest(q, p)].msg
  BY <1>2 DEF Waiting, Coming
<1>4. /\ p \in Rank \ {q} /\ Due(p, q, Coming(p, q)) /\ Coming(p, q).id = Now(q).id
      /\ task[q] <= Len(given)
  BY <1>1, <1>3, ComingIs
<1>5. Oldest(q, p) \in Places(q, p) /\ Oldest(q, p) \in DOMAIN queue[q]
  BY <1>0, <1>2, OldestIs DEF Places
<1>6. /\ queue'[q] = RemoveAt(queue[q], Oldest(q, p))
      /\ \A r \in Rank \ {q} : queue'[r] = queue[r]
  BY <1>0, <1>2 DEF Typed
<1>7. Act(PlanOf(q, task[q], at[q]), "recv", p, done[q] + 1, Now(q).id)
  BY <1>0, <1>1, NowActs
<1> QED BY <1>1, <1>3, <1>4, <1>5, <1>6, <1>7

\* What is left of the messages from s to r when one of them is taken.
LEMMA Remains ==
  ASSUME Typed, NEW s \in Rank, NEW r \in Rank, Sorted(s, r), NEW o \in Places(r, s),
         queue'[r] = RemoveAt(queue[r], o), net'[s][r] = net[s][r], NEW m
  PROVE  InStream(s, r, m)' <=> InStream(s, r, m) /\ m.id # queue[r][o].msg.id
<1>0. o \in DOMAIN queue[r]
  BY DEF Places
<1>1. /\ \A k \in Places(r, s)' : /\ Shift(o, k) \in Places(r, s) /\ Shift(o, k) # o
                                  /\ queue'[r][k] = queue[r][Shift(o, k)]
      /\ \A l \in Places(r, s) : l # o => \E k \in Places(r, s)' : queue'[r][k] = queue[r][l]
  BY <1>0, QueueRemoved
<1>2. /\ \A k \in Places(r, s) : queue[r][k].msg.id = queue[r][o].msg.id => k = o
      /\ \A k \in DOMAIN net[s][r] : net[s][r][k].id # queue[r][o].msg.id
  BY OnceOnTheWay
<1>3. ASSUME InStream(s, r, m)' PROVE InStream(s, r, m) /\ m.id # queue[r][o].msg.id
  <2>1. CASE \E k \in Places(r, s)' : queue'[r][k].msg = m
    <3>1. PICK k \in Places(r, s)' : queue'[r][k].msg = m
      BY <2>1
    <3>2. Shift(o, k) \in Places(r, s) /\ Shift(o, k) # o /\ queue[r][Shift(o, k)].msg = m
      BY <1>1, <3>1
    <3> QED BY <1>2, <3>2 DEF InStream
  <2>2. CASE \E k \in DOMAIN net[s][r] : net[s][r][k] = m
    BY <1>2, <2>2 DEF InStream
  <2> QED BY <1>3, <2>1, <2>2 DEF InStream
<1>4. ASSUME InStream(s, r, m), m.id # queue[r][o].msg.id PROVE InStream(s, r, m)'
  <2>1. CASE \E k \in Places(r, s) : queue[r][k].msg = m
    <3>1. PICK k \in Places(r, s) : queue[r][k].msg = m
      BY <2>1
    <3>2. k # o
      BY <1>4, <3>1
    <3>3. \E h \in Places(r, s)' : queue'[r][h] = queue[r][k]
      BY <1>1, <3>2
    <3> QED BY <3>1, <3>3 DEF InStream
  <2>2. CASE \E k \in DOMAIN net[s][r] : net[s][r][k] = m
    BY <2>2 DEF InStream
  <2> QED BY <1>4, <2>1, <2>2 DEF InStream
<1> QED BY <1>3, <1>4

\* The messages of the rank q has received from.
LEMMA TakenStream ==
  ASSUME Inv, NEW q \in Rank, NEW p \in Rank \ {q}, NEW o \in Places(q, p),
         given' = given, waits' = waits, Advance(q), task[q] <= Len(given),
         queue'[q] = RemoveAt(queue[q], o), net'[p][q] = net[p][q],
         queue[q][o].msg.id = Now(q).id, Due(p, q, queue[q][o].msg),
         Act(PlanOf(q, task[q], at[q]), "recv", p, done[q] + 1, Now(q).id)
  PROVE  Stream(p, q)' /\ \A m : InStream(p, q, m)' => InStream(p, q, m)
<1> DEFINE y == Now(q).id
<1>0. Typed /\ Placed(q) /\ Stream(p, q) /\ o \in DOMAIN queue[q]
  BY DEF Inv, Places
<1>1. task'[p] = task[p] /\ at'[p] = at[p] /\ done'[p] = done[p]
  BY <1>0, Advances
<1>2. \A t, k, i : Sent(p, t, k, i)' <=> Sent(p, t, k, i)
  BY <1>1 DEF Sent, Before, Current
<1>3. ASSUME NEW t, NEW k, Given(t, k), NEW j, NEW x, Act(PlanOf(q, t, k), "recv", p, j, x)
      PROVE  Before(q, t, k, j)' <=> Before(q, t, k, j) \/ x = y
  <2>1. Before(q, t, k, j)' <=> Before(q, t, k, j) \/ Current(q, t, k, j)
    <3>1. j \in DOMAIN PlanOf(q, t, k)
      BY <1>3 DEF Act
    <3> QED BY <1>0, <1>3, <3>1, AdvanceBefore
  <2>2. Current(q, t, k, j) => x = y
    BY <1>0, <1>3, CurrentIsNow
  <2>3. ASSUME x = y PROVE Current(q, t, k, j)
    <3>1. KnownOp(Op(t, k), t, k) /\ KnownOp(Op(task[q], at[q]), task[q], at[q])
          /\ done[q] + 1 \in Int
      BY <1>0, <1>3, GivenKnown, PlaceKnown DEF Typed
    <3>2. j \in Int
      <4>1. PlanOf(q, t, k) \in Seq(Step)
        BY <3>1, PlanType DEF PlanOf
      <4>2. DOMAIN PlanOf(q, t, k) \subseteq Int
        BY <4>1, LenProperties
      <4> QED BY <1>3, <4>2 DEF Act
    <3>3. y.task = task[q] /\ y.at = at[q]
      BY <3>1, PlanActs DEF PlanOf
    <3>4. x.task = t /\ x.at = k
      BY <1>3, <3>1, <3>2, PlanActs DEF PlanOf
    <3>5. t = task[q] /\ k = at[q]
      BY <2>3, <3>3, <3>4
    <3>6. j = done[q] + 1
      BY <1>3, <3>1, <3>2, <3>5, OneReceive DEF PlanOf
    <3> QED BY <3>5, <3>6 DEF Current
  <2> QED BY <2>1, <2>2, <2>3
<1>4. \A m : InStream(p, q, m)' <=> InStream(p, q, m) /\ m.id # y
  BY <1>0, Remains DEF Stream
<1>5. Sorted(p, q)'
  BY <1>0, RemovedSorted DEF Stream
<1>6. AllDue(p, q)'
  <2> SUFFICES ASSUME NEW m, InStream(p, q, m)' PROVE Due(p, q, m)'
    BY DEF AllDue
  <2> DEFINE t == m.id.task
             k == m.id.at
  <2>1. Due(p, q, m) /\ m.id # y
    BY <1>0, <1>4 DEF Stream, AllDue
  <2>2. Given(t, k) /\ Given(t, k)'
    BY <2>1, SamePlans DEF Due
  <2>3. \E j \in Int : Act(PlanOf(q, t, k), "recv", p, j, m.id) /\ ~Before(q, t, k, j)'
    <3>1. PICK j \in Int : Act(PlanOf(q, t, k), "recv", p, j, m.id) /\ ~Before(q, t, k, j)
      BY <2>1 DEF Due
    <3> QED BY <1>3, <2>1, <2>2, <3>1
  <2>4. \E d \in Sending : \E i \in Int : Act(PlanOf(p, t, k), d, q, i, m.id) /\ Sent(p, t, k, i)'
    BY <1>2, <2>1 DEF Due
  <2>5. m.id.kind = "cmd" => m.value = given[t]
    BY <2>1 DEF Due
  <2> QED BY <2>2, <2>3, <2>4, <2>5, SamePlans DEF Due
<1>7. Kept(p, q)'
  <2>1. ASSUME NEW t, NEW k, NEW d \in Sending, NEW i \in Int, NEW j \in Int, NEW x,
               Given(t, k)', Act(PlanOf(p, t, k), d, q, i, x)',
               Act(PlanOf(q, t, k), "recv", p, j, x)'
        PROVE  /\ Sent(p, t, k, i)' /\ ~Before(q, t, k, j)' => OnTheWay(p, q, x)'
               /\ Before(q, t, k, j)' => Sent(p, t, k, i)'
    <3>1. /\ Given(t, k) /\ Act(PlanOf(p, t, k), d, q, i, x)
          /\ Act(PlanOf(q, t, k), "recv", p, j, x)
      BY <2>1, SamePlans
    <3>2. Before(q, t, k, j)' <=> Before(q, t, k, j) \/ x = y
      BY <1>3, <3>1
    <3>3. /\ Sent(p, t, k, i) /\ ~Before(q, t, k, j) => OnTheWay(p, q, x)
          /\ Before(q, t, k, j) => Sent(p, t, k, i)
      BY <1>0, <3>1 DEF Stream, Kept
    <3>4. x # y /\ OnTheWay(p, q, x) => OnTheWay(p, q, x)'
      BY <1>4 DEF OnTheWay
    <3>5. ASSUME x = y PROVE Sent(p, t, k, i)
      <4>0. KnownOp(Op(t, k), t, k)
        BY <1>0, <3>1, GivenKnown DEF Typed
      <4>1. x.task = t /\ x.at = k
        BY <3>1, <4>0, PlanActs DEF PlanOf
      <4>2. PICK e \in Sending : \E h \in Int : Act(PlanOf(p, t, k), e, q, h, x) /\ Sent(p, t, k, h)
        BY <3>5, <4>1 DEF Due
      <4>3. PICK h \in Int : Act(PlanOf(p, t, k), e, q, h, x) /\ Sent(p, t, k, h)
        BY <4>2
      <4>4. h = i
        BY <3>1, <4>0, <4>3, OneSend DEF PlanOf
      <4> QED BY <4>3, <4>4
    <3> QED BY <1>2, <3>2, <3>3, <3>4, <3>5
  <2> QED BY <2>1 DEF Kept
<1> QED BY <1>4, <1>5, <1>6, <1>7 DEF Stream

LEMMA TakeStream ==
  ASSUME Inv, NEW q \in Rank, Take(q), NEW s \in Rank, NEW r \in Rank
  PROVE  Stream(s, r)' /\ \A m : InStream(s, r, m)' => InStream(s, r, m)
<1>0. Typed /\ Placed(q) /\ Stream(s, r)
  BY DEF Inv
<1>1. PICK p \in Now(q).peers :
           /\ p \in Rank \ {q} /\ Now(q).do = "recv" /\ q \notin waits /\ waits' = waits
           /\ given' = given /\ net' = net /\ Advance(q) /\ task[q] <= Len(given)
           /\ Oldest(q, p) \in Places(q, p) /\ Oldest(q, p) \in DOMAIN queue[q]
           /\ queue'[q] = RemoveAt(queue[q], Oldest(q, p))
           /\ \A a \in Rank \ {q} : queue'[a] = queue[a]
           /\ queue[q][Oldest(q, p)].msg.id = Now(q).id
           /\ Due(p, q, queue[q][Oldest(q, p)].msg)
           /\ Act(PlanOf(q, task[q], at[q]), "recv", p, done[q] + 1, Now(q).id)
  BY TakeIs
<1> DEFINE o == Oldest(q, p)
<1>2. "recv" \notin Sending
  BY DEF Sending
<1>3. CASE s = p /\ r = q
  <2> HIDE DEF o
  <2>1. o \in Places(q, p) /\ queue'[q] = RemoveAt(queue[q], o)
        /\ queue[q][o].msg.id = Now(q).id /\ Due(p, q, queue[q][o].msg)
    BY <1>1 DEF o
  <2> QED BY <1>1, <1>3, <2>1, TakenStream
<1>4. CASE ~(s = p /\ r = q)
  <2>1. r = q => s \notin Now(q).peers
    <3>1. ASSUME r = q, s \in Now(q).peers PROVE FALSE
      <4>1. Act(PlanOf(q, task[q], at[q]), "recv", s, done[q] + 1, Now(q).id)
        BY <1>0, <1>1, <3>1, NowActs
      <4>2. s = p
        BY <1>0, <1>1, <4>1, PlaceKnown, OneReceive DEF PlanOf
      <4> QED BY <1>4, <3>1, <4>2
    <3> QED BY <3>1
  <2>2. SameSides(s, r)
    BY <1>1, <1>2, <2>1, AdvanceSides
  <2>3. CASE r # q
    <3>1. queue'[r] = queue[r] /\ net'[s][r] = net[s][r]
      BY <1>1, <2>3
    <3>2. \A m : InStream(s, r, m)' => InStream(s, r, m)
      BY <3>1 DEF InStream, Places
    <3> QED BY <1>0, <1>1, <2>2, <3>1, <3>2, UntouchedStream
  <2>4. CASE r = q
    <3>0. s # p /\ o \in DOMAIN queue[q] /\ o \notin Places(q, s) /\ net'[s][r] = net[s][r]
          /\ queue'[q] = RemoveAt(queue[q], o)
      BY <1>1, <1>4, <2>4 DEF Places
    <3> HIDE DEF o
    <3>1. Sorted(s, r)'
      BY <1>0, <2>4, <3>0, RemovedSorted DEF Stream
    <3>2. /\ \A k \in Places(q, s)' : /\ Shift(o, k) \in Places(q, s)
                                      /\ queue'[q][k] = queue[q][Shift(o, k)]
          /\ \A l \in Places(q, s) : l # o => \E k \in Places(q, s)' : queue'[q][k] = queue[q][l]
      BY <1>0, <3>0, QueueRemoved
    <3>3. ASSUME NEW m PROVE InStream(s, r, m)' <=> InStream(s, r, m)
      <4>1. (\E k \in Places(q, s)' : queue'[q][k].msg = m) <=> \E k \in Places(q, s) : queue[q][k].msg = m
        BY <3>0, <3>2
      <4> QED BY <2>4, <3>0, <4>1 DEF InStream
    <3> QED BY <1>0, <1>1, <2>2, <3>1, <3>3, SameStream
  <2> QED BY <2>3, <2>4
<1> QED BY <1>3, <1>4

\* What a rank sends it sends in a command.
LEMMA SendingRuns ==
  ASSUME Typed, NEW q \in Rank, Placed(q), Now(q).do \in Sending
  PROVE  /\ Runs(q) /\ Given(task[q], at[q]) /\ task[q] <= Len(given)
         /\ Now(q).do \in {"forward", "report", "send"}
         /\ Now(q).do # "recv"
<1>1. Runs(q) /\ Now(q).do # "recv" /\ Now(q).do # "exec"
  BY NowAlone DEF Sending
<1>2. Given(task[q], at[q])
  BY <1>1, PlaceKnown
<1> QED BY <1>1, <1>2 DEF Runs, Sending

\* What mpy_send puts on its way.
Message(q) == [id |-> Now(q).id, value |-> Content(q, Now(q))]

LEMMA MessageIs ==
  ASSUME Typed, NEW q \in Rank, Placed(q), Now(q).do \in Sending
  PROVE  /\ Message(q).id = Now(q).id /\ Message(q).value = Content(q, Now(q))
         /\ Message(q) \in Messages
         /\ Now(q).id.task = task[q] /\ Now(q).id.at = at[q]
         /\ Now(q).id.kind = "cmd" => Message(q).value = given[task[q]]
<1> DEFINE x == Now(q).id
           op == Op(task[q], at[q])
<1>1. Now(q).peers # {}
  BY NowAlone
<1>2. PICK p \in Now(q).peers : Act(PlanOf(q, task[q], at[q]), Now(q).do, p, done[q] + 1, x)
  BY <1>1, NowActs
<1>3. /\ KnownOp(op, task[q], at[q]) /\ (op = "exec" <=> at[q] = 0) /\ done[q] + 1 \in Int
      /\ Runs(q)
  BY PlaceKnown, SendingRuns
<1>4. Act(Operation(op, q, task[q], at[q]), Now(q).do, p, done[q] + 1, x)
  BY <1>2 DEF PlanOf
<1> HIDE DEF op
<1>5. /\ x \in Ids /\ x.task = task[q] /\ x.at = at[q]
      /\ Now(q).do = "report" => x.kind \in Upward
      /\ Now(q).do = "forward" => x.kind \in Downward
      /\ Now(q).do = "send" => x.kind = "ring"
      /\ x.kind = "cmd" <=> op = "exec" /\ x.kind \in Downward
  BY <1>3, <1>4, PlanActs
<1>6. /\ Now(q).do = "forward" => Content(q, Now(q)) = top[q]
      /\ Now(q).do = "report" /\ x.kind = "in" => Content(q, Now(q)) \in [Rank -> Nat]
      /\ Now(q).do = "send" \/ (Now(q).do = "report" /\ x.kind # "in") => Content(q, Now(q)) = 1
  <2>1. sum[q] \in [Rank -> Nat] /\ Part(q) \in [Rank -> Nat]
    BY DEF Typed, Part
  <2> QED BY <2>1 DEF Content
<1>7. Now(q).do \in {"forward", "report", "send"}
  BY SendingRuns
<1>8. x.kind = "in" => Now(q).do = "report"
  BY <1>5, <1>7 DEF Downward
<1>9. x.kind = "cmd" => Now(q).do = "forward" /\ op = "exec"
  BY <1>5, <1>7 DEF Upward
<1>10. top[q] \in Values
  BY DEF Typed
<1>11. Content(q, Now(q)) \in Values /\ (x.kind = "in" => Content(q, Now(q)) \in [Rank -> Nat])
  BY <1>6, <1>7, <1>8, <1>10 DEF Values
<1>12. x.kind = "cmd" => Content(q, Now(q)) = given[task[q]]
  BY <1>3, <1>6, <1>9 DEF Runs
<1> QED BY <1>5, <1>11, <1>12 DEF Message, Messages

\* Rank q sends, and moves on or waits: that puts the message operation it is
\* in among those sent for, and no other.
LEMMA SendSides ==
  ASSUME Inv, NEW q \in Rank, Send(q), NEW t, NEW k, Given(t, k), NEW p, NEW x
  PROVE  /\ \A d, i : d \in Sending /\ Act(PlanOf(q, t, k), d, p, i, x) =>
              (Sent(q, t, k, i)' <=> Sent(q, t, k, i) \/ Current(q, t, k, i))
         /\ \A j : Act(PlanOf(q, t, k), "recv", p, j, x) =>
              (Before(q, t, k, j)' <=> Before(q, t, k, j))
         /\ \A a \in Rank \ {q} : \A i : /\ Sent(a, t, k, i)' <=> Sent(a, t, k, i)
                                         /\ Before(a, t, k, i)' <=> Before(a, t, k, i)
<1>0. Typed /\ Placed(q)
  BY DEF Inv
<1>1. given' = given /\ q \notin waits /\ Now(q).do \in Sending
  BY DEF Send, Works, Sending
<1>2. task[q] <= Len(given) /\ Now(q).do # "recv"
  BY <1>0, <1>1, SendingRuns
<1>3. CASE Advance(q) /\ waits' = waits
  <2>1. \A a \in Rank \ {q} : task'[a] = task[a] /\ at'[a] = at[a] /\ done'[a] = done[a]
    BY <1>0, <1>2, <1>3, Advances
  <2>2. \A i \in DOMAIN PlanOf(q, t, k) :
          Before(q, t, k, i)' <=> Before(q, t, k, i) \/ Current(q, t, k, i)
    BY <1>0, <1>2, <1>3, AdvanceBefore
  <2>3. \A i : (Sent(q, t, k, i)' <=> Before(q, t, k, i)') /\ (Sent(q, t, k, i) <=> Before(q, t, k, i))
    BY <1>1, <1>3 DEF Sent
  <2>4. \A d, i : d \in Sending /\ Act(PlanOf(q, t, k), d, p, i, x) =>
              (Sent(q, t, k, i)' <=> Sent(q, t, k, i) \/ Current(q, t, k, i))
    BY <2>2, <2>3 DEF Act
  <2>5. \A j : Act(PlanOf(q, t, k), "recv", p, j, x) =>
              (Before(q, t, k, j)' <=> Before(q, t, k, j))
    <3>1. \A j : Act(PlanOf(q, t, k), "recv", p, j, x) => ~Current(q, t, k, j)
      BY <1>0, <1>2, CurrentIsNow
    <3>2. \A j : Act(PlanOf(q, t, k), "recv", p, j, x) => j \in DOMAIN PlanOf(q, t, k)
      BY DEF Act
    <3> QED BY <2>2, <3>1, <3>2
  <2>6. \A a \in Rank \ {q} : \A i : /\ Sent(a, t, k, i)' <=> Sent(a, t, k, i)
                                     /\ Before(a, t, k, i)' <=> Before(a, t, k, i)
    BY <1>3, <2>1 DEF Sent, Before, Current
  <2> QED BY <2>4, <2>5, <2>6
<1>4. CASE waits' = waits \cup {q} /\ UNCHANGED place
  <2>1. task' = task /\ at' = at /\ done' = done
    BY <1>4 DEF place
  <2> QED BY <1>1, <1>4, <2>1 DEF Sent, Before, Current
<1> QED BY <1>3, <1>4 DEF Send

LEMMA SendNet ==
  ASSUME Inv, NEW q \in Rank, Send(q)
  PROVE  /\ Typed /\ Placed(q) /\ Now(q).do \in Sending /\ q \notin waits
         /\ given' = given /\ queue' = queue
         /\ \A s \in Rank \ {q} : net'[s] = net[s]
         /\ \A r \in Rank : net'[q][r] = IF r \in Now(q).peers
                                         THEN Append(net[q][r], Message(q)) ELSE net[q][r]
<1>1. Typed /\ Placed(q)
  BY DEF Inv
<1>2. Now(q).do \in Sending /\ q \notin waits /\ given' = given /\ queue' = queue
  BY DEF Send, Works, Sending
<1>3. net' = [net EXCEPT ![q] = [p \in Rank |->
            IF p \in Now(q).peers THEN Append(@[p], [id |-> Now(q).id, value |-> Content(q, Now(q))])
            ELSE @[p]]]
  BY DEF Send
<1>4. q \in DOMAIN net /\ DOMAIN net = Rank
  BY <1>1 DEF Typed
<1> QED BY <1>1, <1>2, <1>3, <1>4 DEF Message

LEMMA NetAppended ==
  ASSUME Typed, NEW s \in Rank, NEW r \in Rank, NEW m \in Messages,
         net'[s][r] = Append(net[s][r], m)
  PROVE  /\ \A k \in DOMAIN net[s][r] : k \in DOMAIN net'[s][r] /\ net'[s][r][k] = net[s][r][k]
         /\ \A k \in DOMAIN net'[s][r] :
              \/ k \in DOMAIN net[s][r]
              \/ net'[s][r][k] = m /\ \A l \in DOMAIN net'[s][r] : l \in Nat /\ l <= k
         /\ \E k \in DOMAIN net'[s][r] : net'[s][r][k] = m
<1>1. net[s][r] \in Seq(Messages) /\ Len(net[s][r]) \in Nat /\ DOMAIN net[s][r] = 1 .. Len(net[s][r])
  BY NetType
<1>2. /\ Append(net[s][r], m) \in Seq(Messages)
      /\ Len(Append(net[s][r], m)) = Len(net[s][r]) + 1
      /\ \A i \in 1 .. Len(net[s][r]) : Append(net[s][r], m)[i] = net[s][r][i]
      /\ Append(net[s][r], m)[Len(net[s][r]) + 1] = m
  BY <1>1, AppendProperties
<1>3. DOMAIN net'[s][r] = 1 .. Len(net[s][r]) + 1
  BY <1>2, LenProperties
<1> QED BY <1>1, <1>2, <1>3

\* The messages to a rank q sends to.
LEMMA SentStream ==
  ASSUME Inv, NEW q \in Rank, Send(q), NEW p \in Now(q).peers
  PROVE  Stream(q, p)' /\ \A m : InStream(q, p, m)' => InStream(q, p, m) \/ m = Message(q)
<1> DEFINE h == Message(q)
           T == task[q]
           A == at[q]
<1>0. /\ Typed /\ Placed(q) /\ Now(q).do \in Sending /\ q \notin waits
      /\ given' = given /\ queue' = queue
      /\ \A r \in Rank : r \in Now(q).peers => net'[q][r] = Append(net[q][r], h)
  BY SendNet
<1>1. /\ p \in Rank \ {q} /\ Act(PlanOf(q, T, A), Now(q).do, p, done[q] + 1, Now(q).id)
      /\ done[q] + 1 \in Int /\ KnownOp(Op(T, A), T, A)
  BY <1>0, NowActs, PlaceKnown
<1>2. /\ h \in Messages /\ h.id = Now(q).id /\ h.id.task = T /\ h.id.at = A
      /\ h.id.kind = "cmd" => h.value = given[T]
  BY <1>0, MessageIs
<1>3. Given(T, A)
  BY <1>0, SendingRuns
<1>4. Stream(q, p) /\ T \in Nat /\ A \in Nat /\ done[q] \in Nat
  BY <1>0, <1>1 DEF Inv, Typed
<1>5. net'[q][p] = Append(net[q][p], h)
  BY <1>0, <1>1
<1> HIDE DEF h
<1>6. /\ \A k \in DOMAIN net[q][p] : k \in DOMAIN net'[q][p] /\ net'[q][p][k] = net[q][p][k]
      /\ \A k \in DOMAIN net'[q][p] :
              \/ k \in DOMAIN net[q][p]
              \/ net'[q][p][k] = h /\ \A l \in DOMAIN net'[q][p] : l \in Nat /\ l <= k
      /\ \E k \in DOMAIN net'[q][p] : net'[q][p][k] = h
  BY <1>0, <1>1, <1>2, <1>5, NetAppended
<1>7. Places(p, q)' = Places(p, q) /\ queue'[p] = queue[p]
  BY <1>0 DEF Places
<1>8. \A m : InStream(q, p, m)' <=> InStream(q, p, m) \/ m = h
  <2>1. ASSUME NEW m PROVE (\E k \in DOMAIN net'[q][p] : net'[q][p][k] = m)
                             <=> (\E k \in DOMAIN net[q][p] : net[q][p][k] = m) \/ m = h
    BY <1>6
  <2> QED BY <1>7, <2>1 DEF InStream
<1>9. \A t, k, d, i, x : Given(t, k) /\ d \in Sending /\ Act(PlanOf(q, t, k), d, p, i, x) =>
        (Sent(q, t, k, i)' <=> Sent(q, t, k, i) \/ Current(q, t, k, i))
  BY SendSides
<1>10. \A t, k, i : Given(t, k) => (Before(p, t, k, i)' <=> Before(p, t, k, i))
  BY <1>1, SendSides
<1>11. ~Before(q, T, A, done[q] + 1) /\ ~Sent(q, T, A, done[q] + 1) /\ Current(q, T, A, done[q] + 1)
  BY <1>0, <1>4 DEF Before, Sent, Current
<1>12. \A m : InStream(q, p, m) => Earlier(m.id, h.id)
  <2> SUFFICES ASSUME NEW m, InStream(q, p, m) PROVE Earlier(m.id, h.id)
    OBVIOUS
  <2> DEFINE t == m.id.task
             k == m.id.at
  <2>1. Due(q, p, m)
    BY <1>4 DEF Stream, AllDue
  <2>2. PICK d \in Sending : \E i \in Int : Act(PlanOf(q, t, k), d, p, i, m.id) /\ Sent(q, t, k, i)
    BY <2>1 DEF Due
  <2>3. PICK i \in Int : Act(PlanOf(q, t, k), d, p, i, m.id) /\ Sent(q, t, k, i)
    BY <2>2
  <2>4. Before(q, t, k, i)
    BY <1>0, <2>3 DEF Sent
  <2>5. ~(t = T /\ k = A)
    <3>1. ASSUME t = T, k = A PROVE i = done[q] + 1
      BY <1>0, <1>1, <2>3, <3>1, OneSend DEF PlanOf
    <3> QED BY <1>11, <2>4, <3>1
  <2>6. t \in Nat /\ k \in Nat
    BY <1>0, <2>1, GivenKnown DEF Due, Typed
  <2> QED BY <1>2, <1>4, <2>4, <2>5, <2>6 DEF Before, Earlier
<1>13. Sorted(q, p)'
  <2>1. ASSUME NEW k \in Places(p, q), NEW l \in Places(p, q), k < l
        PROVE  Earlier(queue'[p][k].msg.id, queue'[p][l].msg.id)
    BY <1>4, <1>7, <2>1 DEF Stream, Sorted
  <2>2. ASSUME NEW k \in DOMAIN net'[q][p], NEW l \in DOMAIN net'[q][p], k < l
        PROVE  Earlier(net'[q][p][k].id, net'[q][p][l].id)
    <3>1. k \in DOMAIN net[q][p]
      <4>1. ASSUME k \notin DOMAIN net[q][p] PROVE FALSE
        <5>1. \A b \in DOMAIN net'[q][p] : b \in Nat /\ b <= k
          BY <1>6, <4>1
        <5>2. l \in Nat /\ k \in Nat /\ l <= k
          BY <5>1
        <5> QED BY <2>2, <5>2
      <4> QED BY <4>1
    <3>2. CASE l \in DOMAIN net[q][p]
      BY <1>4, <1>6, <2>2, <3>1, <3>2 DEF Stream, Sorted
    <3>3. CASE net'[q][p][l] = h
      <4>1. InStream(q, p, net[q][p][k])
        BY <3>1 DEF InStream
      <4> QED BY <1>6, <1>12, <3>1, <3>3, <4>1
    <3> QED BY <1>6, <3>2, <3>3
  <2>3. ASSUME NEW k \in Places(p, q), NEW l \in DOMAIN net'[q][p]
        PROVE  Earlier(queue'[p][k].msg.id, net'[q][p][l].id)
    <3>1. CASE l \in DOMAIN net[q][p]
      BY <1>4, <1>6, <1>7, <3>1 DEF Stream, Sorted
    <3>2. CASE net'[q][p][l] = h
      <4>1. InStream(q, p, queue[p][k].msg)
        BY DEF InStream
      <4> QED BY <1>7, <1>12, <3>2, <4>1
    <3> QED BY <1>6, <3>1, <3>2
  <2> QED BY <1>7, <2>1, <2>2, <2>3 DEF Sorted, Earlier
<1>14. AllDue(q, p)'
  <2>1. ASSUME NEW m, InStream(q, p, m) PROVE Due(q, p, m)'
    <3> DEFINE t == m.id.task
               k == m.id.at
    <3>1. Due(q, p, m)
      BY <1>4, <2>1 DEF Stream, AllDue
    <3>2. Given(t, k) /\ Given(t, k)'
      BY <1>0, <3>1, SamePlans DEF Due
    <3>3. \E j \in Int : Act(PlanOf(p, t, k), "recv", q, j, m.id) /\ ~Before(p, t, k, j)'
      BY <1>10, <3>1, <3>2 DEF Due
    <3>4. \E d \in Sending : \E i \in Int : Act(PlanOf(q, t, k), d, p, i, m.id) /\ Sent(q, t, k, i)'
      BY <1>9, <3>1, <3>2 DEF Due
    <3>5. m.id.kind = "cmd" => m.value = given[t]
      BY <3>1 DEF Due
    <3> QED BY <1>0, <3>2, <3>3, <3>4, <3>5, SamePlans DEF Due
  <2>2. ASSUME NEW m, m = h PROVE Due(q, p, m)'
    <3> DEFINE t == m.id.task
               k == m.id.at
    <3>0. t = T /\ k = A /\ m.id = Now(q).id
      BY <1>2, <2>2
    <3>1. Given(t, k) /\ Given(t, k)'
      BY <1>0, <1>3, <3>0, SamePlans
    <3>2. /\ Act(PlanOf(q, t, k), Now(q).do, p, done[q] + 1, m.id)
          /\ Current(q, t, k, done[q] + 1)
      BY <1>1, <1>11, <3>0
    <3>3. PICK i \in Int : i = done[q] + 1
      BY <1>1
    <3>4. PICK d \in Sending : d = Now(q).do
      BY <1>0
    <3>5. Act(PlanOf(q, t, k), d, p, i, m.id) /\ Sent(q, t, k, i)'
      BY <1>9, <3>1, <3>2, <3>3, <3>4
    <3>6. \E j \in Int : Act(PlanOf(p, t, k), "recv", q, j, m.id)
      BY <1>0, <1>1, <3>0, Matched DEF PlanOf
    <3>7. PICK j \in Int : Act(PlanOf(p, t, k), "recv", q, j, m.id)
      BY <3>6
    <3>8. ~Before(p, t, k, j)'
      <4>1. Before(p, t, k, j) => Sent(q, t, k, i)
        BY <1>4, <3>1, <3>5, <3>7 DEF Stream, Kept
      <4> QED BY <1>10, <1>11, <3>0, <3>1, <3>3, <4>1
    <3>9. m.id.kind = "cmd" => m.value = given[t]
      BY <1>2, <2>2
    <3> QED BY <1>0, <3>1, <3>5, <3>7, <3>8, <3>9, SamePlans DEF Due
  <2> QED BY <1>8, <2>1, <2>2 DEF AllDue
<1>15. Kept(q, p)'
  <2>1. ASSUME NEW t, NEW k, NEW d \in Sending, NEW i \in Int, NEW j \in Int, NEW x,
               Given(t, k)', Act(PlanOf(q, t, k), d, p, i, x)',
               Act(PlanOf(p, t, k), "recv", q, j, x)'
        PROVE  /\ Sent(q, t, k, i)' /\ ~Before(p, t, k, j)' => OnTheWay(q, p, x)'
               /\ Before(p, t, k, j)' => Sent(q, t, k, i)'
    <3>1. /\ Given(t, k) /\ Act(PlanOf(q, t, k), d, p, i, x)
          /\ Act(PlanOf(p, t, k), "recv", q, j, x)
      BY <1>0, <2>1, SamePlans
    <3>2. /\ Sent(q, t, k, i)' <=> Sent(q, t, k, i) \/ Current(q, t, k, i)
          /\ Before(p, t, k, j)' <=> Before(p, t, k, j)
      BY <1>9, <1>10, <3>1
    <3>3. /\ Sent(q, t, k, i) /\ ~Before(p, t, k, j) => OnTheWay(q, p, x)
          /\ Before(p, t, k, j) => Sent(q, t, k, i)
      BY <1>4, <3>1 DEF Stream, Kept
    <3>4. OnTheWay(q, p, x) => OnTheWay(q, p, x)'
      BY <1>8 DEF OnTheWay
    <3>5. Current(q, t, k, i) => x = h.id
      BY <1>0, <1>2, <3>1, CurrentIsNow
    <3>6. x = h.id => OnTheWay(q, p, x)'
      BY <1>8 DEF OnTheWay
    <3> QED BY <3>2, <3>3, <3>4, <3>5, <3>6
  <2> QED BY <2>1 DEF Kept
<1> QED BY <1>8, <1>13, <1>14, <1>15 DEF Stream, h

LEMMA SendStream ==
  ASSUME Inv, NEW q \in Rank, Send(q), NEW s \in Rank, NEW r \in Rank
  PROVE  /\ Stream(s, r)'
         /\ \A m : InStream(s, r, m)' =>
              InStream(s, r, m) \/ (s = q /\ r \in Now(q).peers /\ m = Message(q))
<1>0. /\ Typed /\ Placed(q) /\ Now(q).do \in Sending /\ q \notin waits
      /\ given' = given /\ queue' = queue
      /\ \A a \in Rank \ {q} : net'[a] = net[a]
      /\ \A a \in Rank : net'[q][a] = IF a \in Now(q).peers
                                         THEN Append(net[q][a], Message(q)) ELSE net[q][a]
  BY SendNet
<1>1. CASE s = q /\ r \in Now(q).peers
  BY <1>1, SentStream
<1>2. CASE ~(s = q /\ r \in Now(q).peers)
  <2>1. net'[s][r] = net[s][r] /\ queue'[r] = queue[r] /\ Stream(s, r)
    BY <1>0, <1>2 DEF Inv
  <2>2. SameSides(s, r)
    <3>1. ASSUME NEW t, NEW k, NEW j, NEW x, Given(t, k), Act(PlanOf(r, t, k), "recv", s, j, x)
          PROVE  Before(r, t, k, j)' <=> Before(r, t, k, j)
      BY <3>1, SendSides
    <3>2. ASSUME NEW t, NEW k, NEW d \in Sending, NEW i, NEW x, Given(t, k),
                 Act(PlanOf(s, t, k), d, r, i, x)
          PROVE  Sent(s, t, k, i)' <=> Sent(s, t, k, i)
      <4>1. CASE s = q
        <5>1. ~Current(q, t, k, i)
          BY <1>0, <1>2, <3>2, <4>1, CurrentIsNow
        <5> QED BY <3>2, <4>1, <5>1, SendSides
      <4>2. CASE s # q
        BY <3>2, <4>2, SendSides
      <4> QED BY <4>1, <4>2
    <3> QED BY <3>1, <3>2 DEF SameSides
  <2>3. \A m : InStream(s, r, m)' => InStream(s, r, m)
    BY <2>1 DEF InStream, Places
  <2> QED BY <1>0, <2>1, <2>2, <2>3, UntouchedStream
<1> QED BY <1>1, <1>2

\* Steps that send nothing and receive nothing.
LEMMA QuietStream ==
  ASSUME Inv, given' = given, net' = net, queue' = queue, NEW q \in Rank,
         NEW s \in Rank, NEW r \in Rank,
         \/ place' = place /\ waits' = waits
         \/ /\ Advance(q) /\ task[q] <= Len(given) /\ waits' = waits \ {q}
            /\ Now(q).do # "recv" /\ (Now(q).do \notin Sending \/ q \in waits)
  PROVE  Stream(s, r)'
<1>1. SameSides(s, r)
  <2>1. CASE place' = place /\ waits' = waits
    BY <2>1, StillSides
  <2>2. CASE /\ Advance(q) /\ task[q] <= Len(given) /\ waits' = waits \ {q}
             /\ Now(q).do # "recv" /\ (Now(q).do \notin Sending \/ q \in waits)
    <3>1. q \notin waits' /\ \A a \in Rank \ {q} : a \in waits' <=> a \in waits
      BY <2>2
    <3> QED BY <2>2, <3>1, AdvanceSides
  <2> QED BY <2>1, <2>2
<1> QED BY <1>1, UntouchedStream DEF Inv

LEMMA SendDoneStream ==
  ASSUME Inv, NEW q \in Rank, SendDone(q), NEW s \in Rank, NEW r \in Rank
  PROVE  Stream(s, r)'
<1>1. Typed /\ Placed(q) /\ Now(q).do \in Sending
  BY DEF Inv, SendDone, Placed
<1>2. task[q] <= Len(given) /\ Now(q).do # "recv"
  BY <1>1, SendingRuns
<1> QED BY <1>2, QuietStream DEF SendDone

\* What a rank does without peers it does in a command, but for mp_exec.
LEMMA AloneRuns ==
  ASSUME Typed, NEW q \in Rank, Placed(q), Now(q).do \in {"open", "load"}
  PROVE  /\ Runs(q) /\ task[q] <= Len(given) /\ Given(task[q], at[q]) /\ at[q] > 0
         /\ Now(q).do # "recv" /\ Now(q).do \notin Sending /\ q \notin waits
<1>1. Runs(q)
  BY NowAlone
<1>2. Now(q).do \notin Sending
  BY DEF Sending
<1>3. q \notin waits
  BY <1>2 DEF Placed
<1>4. at[q] > 0
  BY NowAlone
<1> QED BY <1>1, <1>2, <1>3, <1>4, PlaceKnown DEF Runs

LEMMA OpenStream ==
  ASSUME Inv, NEW outcome, Open(outcome), NEW s \in Rank, NEW r \in Rank
  PROVE  Stream(s, r)'
<1>1. Typed /\ Placed(0) /\ Now(0).do = "open" /\ 0 \in Rank
  BY RootHasStaff DEF Inv, Open, Works
<1>2. /\ task[0] <= Len(given) /\ Now(0).do # "recv" /\ Now(0).do \notin Sending
      /\ waits = waits \ {0}
  BY <1>1, AloneRuns
<1>3. given' = given /\ net' = net /\ queue' = queue /\ waits' = waits
      /\ (place' = place \/ Advance(0))
  BY DEF Open
<1> QED BY <1>1, <1>2, <1>3, QuietStream

LEMMA LoadStream ==
  ASSUME Inv, NEW q \in Rank, Load(q), NEW s \in Rank, NEW r \in Rank
  PROVE  Stream(s, r)'
<1>1. Typed /\ Placed(q) /\ Now(q).do = "load"
  BY DEF Inv, Load, Works
<1>2. /\ task[q] <= Len(given) /\ Now(q).do # "recv" /\ Now(q).do \notin Sending
      /\ waits = waits \ {q}
  BY <1>1, AloneRuns
<1>3. given' = given /\ net' = net /\ queue' = queue /\ waits' = waits
      /\ (place' = place \/ Advance(q))
  BY DEF Load
<1> QED BY <1>2, <1>3, QuietStream

\* After the recovery everything that was given is behind every rank.
LEMMA RecoverStream ==
  ASSUME Inv, Recover, NEW s \in Rank, NEW r \in Rank
  PROVE  Stream(s, r)'
<1>0. Len(given) \in Nat
  BY LenProperties DEF Inv, Typed
<1>1. /\ given' = given /\ net'[s][r] = <<>> /\ queue'[r] = <<>>
      /\ \A q \in Rank : task'[q] = Len(given) + 1
  BY DEF Recover, Rests
<1>2. Places(r, s)' = {} /\ DOMAIN net'[s][r] = {}
  BY <1>1 DEF Places
<1>3. Sorted(s, r)' /\ AllDue(s, r)'
  BY <1>2 DEF Sorted, AllDue, InStream
<1>4. \A q \in Rank : \A t, k, i : Given(t, k) => Before(q, t, k, i)'
  BY <1>0, <1>1 DEF Given, Before
<1>5. Kept(s, r)'
  BY <1>1, <1>4, SamePlans DEF Kept, Sent
<1> QED BY <1>3, <1>5 DEF Stream

\* A command is new to every rank but 0, and rank 0 is about to send it.
LEMMA ExecIs ==
  ASSUME Inv, NEW command \in Programs, Exec(command)
  PROVE  /\ Typed /\ 0 \in Rank /\ Idles(0) /\ task[0] = Len(given) + 1 /\ waits' = waits
         /\ 0 \notin waits /\ net' = net /\ queue' = queue
         /\ given' \in Seq(Programs) /\ Len(given') = Len(given) + 1 /\ Len(given) \in Nat
         /\ Len(given') <= MaxTasks
         /\ given'[Len(given) + 1] = command
         /\ \A t \in 1 .. Len(given) : given'[t] = given[t]
         /\ task' = task /\ at' = at /\ done'[0] = 1 /\ done' \in [Rank -> Nat]
         /\ \A q \in Rank \ {0} : done'[q] = done[q]
         /\ 1 < Len(PlanOf(0, Len(given) + 1, 0))
<1>0. Typed /\ 0 \in Rank /\ Placed(0) /\ Now(0).do = "exec" /\ 0 \notin waits
  BY RootHasStaff DEF Inv, Exec, Works
<1>1. Idles(0) /\ task[0] = Len(given) + 1
  BY <1>0, NowAlone DEF Placed
<1>2. /\ given' = Append(given, command) /\ Advance(0) /\ waits' = waits /\ net' = net
      /\ queue' = queue /\ Len(given) < MaxTasks
  BY DEF Exec
<1>3. /\ given' \in Seq(Programs) /\ Len(given') = Len(given) + 1 /\ Len(given) \in Nat
      /\ given'[Len(given) + 1] = command
      /\ \A t \in 1 .. Len(given) : given'[t] = given[t]
  BY <1>0, <1>2, AppendProperties, LenProperties DEF Typed
<1>4. Plan(0) = PlanOf(0, Len(given) + 1, 0) /\ Len(Plan(0)) \in Nat /\ 1 < Len(Plan(0))
  <2>1. Plan(0) = PlanOf(0, task[0], 0) /\ Len(Plan(0)) \in Nat
    BY <1>0, <1>1, PlaceKnown DEF Idles
  <2>2. KnownOp("exec", task[0], 0)
    BY <1>0 DEF KnownOp, AllOps, Typed
  <2>3. Len(Operation("exec", 0, task[0], 0)) >= 2
    BY <1>0, <2>2, PlanType
  <2> QED BY <1>1, <2>1, <2>3 DEF PlanOf, Op
<1>5. done[0] = 0 /\ done[0] + 1 < Len(Plan(0))
  BY <1>1, <1>4 DEF Idles
<1>6. done' = [done EXCEPT ![0] = @ + 1] /\ task' = task /\ at' = at
  BY <1>2, <1>5 DEF Advance
<1>7. /\ done'[0] = 1 /\ done' \in [Rank -> Nat]
      /\ \A q \in Rank \ {0} : done'[q] = done[q]
  BY <1>0, <1>5, <1>6 DEF Typed
<1>8. MaxTasks \in Nat
  BY ExecConstants
<1>9. Len(given') <= MaxTasks
  BY <1>2, <1>3, <1>8
<1> QED BY <1>0, <1>1, <1>2, <1>3, <1>4, <1>6, <1>7, <1>9

\* The commands given before stay what they are, and where the ranks are in
\* them; nothing of the new one has been sent or received.
LEMMA ExecSides ==
  ASSUME Inv, NEW command \in Programs, Exec(command), NEW q \in Rank,
         NEW n \in Nat, n = Len(given) + 1
  PROVE  /\ \A t, k : t \in 1 .. Len(given) =>
              /\ (Given(t, k)' <=> Given(t, k)) /\ PlanOf(q, t, k)' = PlanOf(q, t, k)
         /\ \A t, k, i : t \in 1 .. Len(given) =>
              /\ Before(q, t, k, i)' <=> Before(q, t, k, i)
              /\ Sent(q, t, k, i)' <=> Sent(q, t, k, i)
         /\ \A t, k : Given(t, k) => t \in 1 .. Len(given)
         /\ \A t, k : Given(t, k)' => t \in 1 .. Len(given) \/ t = n
         /\ \A k, d, p, i, x :
              Given(n, k)' /\ i \in Int /\ Act(PlanOf(q, n, k)', d, p, i, x) =>
              ~Sent(q, n, k, i)' /\ ~Before(q, n, k, i)'
<1>0. /\ Typed /\ 0 \in Rank /\ Idles(0) /\ task[0] = Len(given) + 1 /\ waits' = waits
      /\ 0 \notin waits
      /\ given' \in Seq(Programs) /\ Len(given') = Len(given) + 1 /\ Len(given) \in Nat
      /\ \A t \in 1 .. Len(given) : given'[t] = given[t]
      /\ task' = task /\ at' = at /\ done'[0] = 1
      /\ \A a \in Rank \ {0} : done'[a] = done[a]
  BY ExecIs
<1>1. Placed(q) /\ task[q] \in Nat /\ at[q] \in Nat /\ done[q] \in Nat
  BY <1>0 DEF Inv, Typed
<1>2. \A t, k : t \in 1 .. Len(given) =>
        /\ (Given(t, k)' <=> Given(t, k)) /\ PlanOf(q, t, k)' = PlanOf(q, t, k)
  BY <1>0 DEF Given, PlanOf, Op
<1>3. \A t, k, i : t \in 1 .. Len(given) =>
        /\ Before(q, t, k, i)' <=> Before(q, t, k, i)
        /\ Sent(q, t, k, i)' <=> Sent(q, t, k, i)
  <2>1. CASE q = 0
    BY <1>0, <2>1 DEF Before, Sent
  <2>2. CASE q # 0
    BY <1>0, <2>2 DEF Before, Sent, Current
  <2> QED BY <2>1, <2>2
<1>4. \A t, k : Given(t, k) => t \in 1 .. Len(given)
  BY DEF Given
<1>5. \A t, k : Given(t, k)' => t \in 1 .. Len(given) \/ t = n
  BY <1>0 DEF Given
<1>6. q \in waits => task[q] <= Len(given)
  BY <1>1 DEF Placed, Runs
<1>7. task[q] = Len(given) + 1 => Idles(q)
  BY <1>0, <1>1 DEF Placed, Runs
<1>8. ASSUME NEW k, NEW d, NEW p, NEW i \in Int, NEW x, Given(n, k)',
             Act(PlanOf(q, n, k)', d, p, i, x)
      PROVE  ~Sent(q, n, k, i)' /\ ~Before(q, n, k, i)'
  <2>1. KnownOp(Op(n, k)', n, k) /\ k \in Nat /\ (Op(n, k)' = "exec" <=> k = 0)
    <3>1. n \in 1 .. Len(given')
      BY <1>0
    <3>2. given'[n] \in Programs
      BY <1>0, <3>1, ElementOfSeq
    <3>3. given'[n] \in Seq(Operations)
      BY <3>2, ExecConstants
    <3>4. k \in 0 .. Len(given'[n])
      BY <1>8 DEF Given
    <3>5. Len(given'[n]) \in Nat
      BY <3>3, LenProperties
    <3>6. k = 0 \/ k \in 1 .. Len(given'[n])
      BY <3>4, <3>5
    <3>7. k # 0 => given'[n][k] \in Operations
      BY <3>3, <3>6, ElementOfSeq
    <3>8. n \in Nat /\ k \in Nat
      BY <1>0, <3>4
    <3> QED BY <3>6, <3>7, <3>8 DEF KnownOp, Op, AllOps, Operations
  <2>2. Act(Operation(Op(n, k)', q, n, k), d, p, i, x)
    BY <1>8 DEF PlanOf
  <2>3. i >= 1
    <3>1. Operation(Op(n, k)', q, n, k) \in Seq(Step)
      BY <2>1, PlanType
    <3>2. i \in DOMAIN Operation(Op(n, k)', q, n, k)
      BY <2>2 DEF Act
    <3> QED BY <3>1, <3>2, LenProperties
  <2>4. ~(q = 0 /\ k = 0 /\ i = 1)
    <3>1. ASSUME q = 0, k = 0, i = 1 PROVE FALSE
      <4>1. Op(n, k)' = "exec" /\ n \in Nat
        BY <2>1, <3>1 DEF KnownOp
      <4>2. Operation("exec", 0, n, 0)[1].peers = {}
        BY <1>0, <4>1, FirstOfCommand
      <4> QED BY <2>2, <3>1, <4>1, <4>2 DEF Act
    <3> QED BY <3>1
  <2>5. ~Before(q, n, k, i)'
    <3>1. CASE task[q] = n /\ q = 0
      BY <1>0, <1>7, <2>1, <2>3, <2>4, <3>1 DEF Before, Idles
    <3>2. CASE task[q] = n /\ q # 0
      BY <1>0, <1>1, <1>7, <2>1, <2>3, <3>2 DEF Before, Idles
    <3>3. CASE task[q] # n
      <4>1. task[q] < n
        BY <1>0, <1>1, <3>3 DEF Placed
      <4> QED BY <1>0, <1>1, <4>1 DEF Before
    <3> QED BY <3>1, <3>2, <3>3
  <2>6. ~(q \in waits' /\ Current(q, n, k, i)')
    BY <1>0, <1>1, <1>6 DEF Current
  <2> QED BY <2>5, <2>6 DEF Sent
<1> QED BY <1>2, <1>3, <1>4, <1>5, <1>8

LEMMA ExecStream ==
  ASSUME Inv, NEW command \in Programs, Exec(command), NEW s \in Rank, NEW r \in Rank
  PROVE  Stream(s, r)'
<1>0. Stream(s, r) /\ net' = net /\ queue' = queue /\ Len(given) \in Nat
      /\ \A t \in 1 .. Len(given) : given'[t] = given[t]
  BY ExecIs DEF Inv
<1>8. PICK n \in Nat : n = Len(given) + 1
  BY <1>0
<1>1. Places(r, s)' = Places(r, s)
  BY <1>0 DEF Places
<1>2. Sorted(s, r)'
  BY <1>0, <1>1 DEF Stream, Sorted
<1>3. \A m : InStream(s, r, m)' <=> InStream(s, r, m)
  BY <1>0, <1>1 DEF InStream
<1>4. \A t, k : Given(t, k) => /\ t \in 1 .. Len(given)
                               /\ Given(t, k)'
                               /\ PlanOf(s, t, k)' = PlanOf(s, t, k)
                               /\ PlanOf(r, t, k)' = PlanOf(r, t, k)
  BY <1>8, ExecSides
<1>5. \A t, k, i : Given(t, k) => /\ Before(r, t, k, i)' <=> Before(r, t, k, i)
                                  /\ Sent(s, t, k, i)' <=> Sent(s, t, k, i)
  BY <1>8, ExecSides
<1>6. AllDue(s, r)'
  <2> SUFFICES ASSUME NEW m, InStream(s, r, m)' PROVE Due(s, r, m)'
    BY DEF AllDue
  <2> DEFINE t == m.id.task
             k == m.id.at
  <2>1. Due(s, r, m)
    BY <1>0, <1>3 DEF Stream, AllDue
  <2>2. Given(t, k)
    BY <2>1 DEF Due
  <2>3. Given(t, k)' /\ PlanOf(s, t, k)' = PlanOf(s, t, k) /\ PlanOf(r, t, k)' = PlanOf(r, t, k)
        /\ given'[t] = given[t]
    BY <1>0, <1>4, <2>2
  <2>4. \E d \in Sending : \E i \in Int : Act(PlanOf(s, t, k), d, r, i, m.id) /\ Sent(s, t, k, i)'
    BY <1>5, <2>1, <2>2 DEF Due
  <2>5. \E j \in Int : Act(PlanOf(r, t, k), "recv", s, j, m.id) /\ ~Before(r, t, k, j)'
    BY <1>5, <2>1, <2>2 DEF Due
  <2>6. m.id.kind = "cmd" => m.value = given'[t]
    BY <2>1, <2>3 DEF Due
  <2> QED BY <2>3, <2>4, <2>5, <2>6 DEF Due
<1>7. Kept(s, r)'
  <2>0. \A x : OnTheWay(s, r, x)' <=> OnTheWay(s, r, x)
    BY <1>3 DEF OnTheWay
  <2>1. ASSUME NEW t, NEW k, NEW d \in Sending, NEW i \in Int, NEW j \in Int, NEW x,
               Given(t, k)', Act(PlanOf(s, t, k)', d, r, i, x),
               Act(PlanOf(r, t, k)', "recv", s, j, x)
        PROVE  /\ Sent(s, t, k, i)' /\ ~Before(r, t, k, j)' => OnTheWay(s, r, x)'
               /\ Before(r, t, k, j)' => Sent(s, t, k, i)'
    <3>1. CASE t \in 1 .. Len(given)
      <4>1. /\ Given(t, k) /\ Act(PlanOf(s, t, k), d, r, i, x)
            /\ Act(PlanOf(r, t, k), "recv", s, j, x)
        BY <1>8, <2>1, <3>1, ExecSides
      <4>2. /\ Before(r, t, k, j)' <=> Before(r, t, k, j)
            /\ Sent(s, t, k, i)' <=> Sent(s, t, k, i)
        BY <1>5, <4>1
      <4> QED BY <1>0, <2>0, <4>1, <4>2 DEF Stream, Kept
    <3>2. CASE t = n
      <4>1. Given(n, k)' /\ Act(PlanOf(s, n, k)', d, r, i, x) /\ Act(PlanOf(r, n, k)', "recv", s, j, x)
        BY <2>1, <3>2
      <4>2. ~Sent(s, n, k, i)' /\ ~Before(r, n, k, j)'
        BY <1>8, <4>1, ExecSides
      <4> QED BY <3>2, <4>2
    <3> QED BY <1>8, <2>1, <3>1, <3>2, ExecSides
  <2> QED BY <2>1 DEF Kept
<1> QED BY <1>2, <1>6, <1>7 DEF Stream

-----------------------------------------------------------------------------
(* Where the ranks are after a step. *)

\* A rank in a command moves on, or stays and perhaps waits for its isends.
LEMMA RunsPlaced ==
  ASSUME Inv, NEW q \in Rank, Runs(q), given' = given, program' = program,
         at[q] = 0 => top'[q] = top[q], \A a \in Rank \ {q} : top'[a] = top[a],
         \/ Advance(q) /\ waits' = waits \ {q}
         \/ /\ place' = place /\ top' = top
            /\ waits' = waits \/ (waits' = waits \cup {q} /\ Now(q).do \in Sending),
         NEW r \in Rank
  PROVE  Placed(r)'
<1>0. Typed /\ Placed(q) /\ Placed(r)
  BY DEF Inv
<1>1. CASE Advance(q) /\ waits' = waits \ {q}
  <2>1. task[q] <= Len(given)
    BY DEF Runs
  <2>2. CASE r = q
    <3>1. program'[q] = given[task[q]] /\ (at[q] = 0 => top'[q] = given[task[q]]) /\ q \notin waits'
      BY <1>1 DEF Runs
    <3> QED BY <1>0, <1>1, <2>1, <2>2, <3>1, AdvancePlaced
  <2>3. CASE r # q
    <3>1. /\ task'[r] = task[r] /\ at'[r] = at[r] /\ done'[r] = done[r]
          /\ program'[r] = program[r] /\ top'[r] = top[r] /\ (r \in waits' => r \in waits)
      BY <1>0, <1>1, <2>1, <2>3, Advances
    <3> QED BY <1>0, <3>1, StaysPlaced
  <2> QED BY <2>2, <2>3
<1>2. CASE /\ place' = place /\ top' = top
           /\ waits' = waits \/ (waits' = waits \cup {q} /\ Now(q).do \in Sending)
  <2>1. task' = task /\ at' = at /\ done' = done
    BY <1>2 DEF place
  <2>2. r \in waits' => r \in waits \/ (Runs(r) /\ Now(r).do \in Sending)
    BY <1>2
  <2> QED BY <1>0, <1>2, <2>1, <2>2, StaysPlaced
<1> QED BY <1>1, <1>2

LEMMA SendPlaced ==
  ASSUME Inv, NEW q \in Rank, Send(q), NEW r \in Rank
  PROVE  Placed(r)'
<1>1. Runs(q) /\ Now(q).do \in Sending /\ q \notin waits
  BY SendNet, SendingRuns
<1>2. /\ given' = given /\ program' = program /\ top' = top
      /\ (Advance(q) /\ waits' = waits \ {q}) \/ (place' = place /\ waits' = waits \cup {q})
  BY <1>1 DEF Send
<1> QED BY <1>1, <1>2, RunsPlaced

LEMMA SendDonePlaced ==
  ASSUME Inv, NEW q \in Rank, SendDone(q), NEW r \in Rank
  PROVE  Placed(r)'
<1>1. Runs(q)
  BY DEF SendDone, Inv, Placed
<1>2. /\ given' = given /\ program' = program /\ top' = top
      /\ Advance(q) /\ waits' = waits \ {q}
  BY DEF SendDone
<1> QED BY <1>1, <1>2, RunsPlaced

LEMMA OpenPlaced ==
  ASSUME Inv, NEW outcome, Open(outcome), NEW r \in Rank
  PROVE  Placed(r)'
<1>0. 0 \in Rank /\ Typed /\ Placed(0) /\ Now(0).do = "open"
  BY RootHasStaff DEF Inv, Open, Works
<1>1. Runs(0) /\ at[0] > 0 /\ 0 \notin waits
  BY <1>0, AloneRuns
<1>2. given' = given /\ program' = program /\ waits' = waits
      /\ (UNCHANGED <<place, top>> \/ (Advance(0) /\ top' = [top EXCEPT ![0] = <<outcome>>]))
  BY DEF Open
<1>3. at[0] # 0 /\ top \in [Rank -> Values]
  BY <1>0, <1>1 DEF Typed
<1>4. \A a \in Rank \ {0} : top'[a] = top[a]
  BY <1>2, <1>3
<1>5. waits = waits \ {0}
  BY <1>1
<1> QED BY <1>0, <1>1, <1>2, <1>3, <1>4, <1>5, RunsPlaced

LEMMA LoadPlaced ==
  ASSUME Inv, NEW q \in Rank, Load(q), NEW r \in Rank
  PROVE  Placed(r)'
<1>0. Typed /\ Placed(q) /\ Now(q).do = "load"
  BY DEF Inv, Load, Works
<1>1. Runs(q) /\ waits = waits \ {q}
  BY <1>0, AloneRuns
<1>2. given' = given /\ program' = program /\ waits' = waits /\ top' = top
      /\ (place' = place \/ Advance(q))
  BY DEF Load
<1> QED BY <1>1, <1>2, RunsPlaced

LEMMA GetPlaced ==
  ASSUME Inv, NEW q \in Rank, NEW p \in Rank, Get(q, p), NEW r \in Rank
  PROVE  Placed(r)'
<1>1. given' = given /\ place' = place /\ waits' = waits /\ program' = program /\ top' = top
  BY DEF Get
<1>2. task' = task /\ at' = at /\ done' = done
  BY <1>1 DEF place
<1> QED BY <1>1, <1>2, StaysPlaced DEF Inv

LEMMA RecoverPlaced ==
  ASSUME Inv, Recover, NEW r \in Rank
  PROVE  Placed(r)'
<1>1. /\ task'[r] = Len(given) + 1 /\ at'[r] = 0 /\ done'[r] = 0 /\ waits' = {}
      /\ given' = given
  BY DEF Recover, Rests
<1>2. Len(given) \in Nat
  BY LenProperties DEF Inv, Typed
<1> QED BY <1>1, <1>2 DEF Placed, Idles

LEMMA ExecPlaced ==
  ASSUME Inv, NEW command \in Programs, Exec(command), NEW r \in Rank
  PROVE  Placed(r)'
<1>0. /\ Typed /\ 0 \in Rank /\ Idles(0) /\ task[0] = Len(given) + 1 /\ waits' = waits
      /\ 0 \notin waits
      /\ given' \in Seq(Programs) /\ Len(given') = Len(given) + 1 /\ Len(given) \in Nat
      /\ given'[Len(given) + 1] = command
      /\ \A t \in 1 .. Len(given) : given'[t] = given[t]
      /\ task' = task /\ at' = at /\ done'[0] = 1
      /\ \A a \in Rank \ {0} : done'[a] = done[a]
      /\ 1 < Len(PlanOf(0, Len(given) + 1, 0))
  BY ExecIs
<1>1. Placed(r) /\ task[r] \in Nat /\ at[r] \in Nat /\ done[r] \in Nat
  BY <1>0 DEF Inv, Typed
<1>2. /\ program' = [program EXCEPT ![0] = command] /\ top' = [top EXCEPT ![0] = command]
      /\ program \in [Rank -> Values] /\ top \in [Rank -> Values]
  BY <1>0 DEF Exec, Typed
<1>3. CASE r = 0
  <2>1. task'[0] = Len(given') /\ at'[0] = 0
    BY <1>0, <1>1, <1>3 DEF Idles
  <2>2. program'[0] = command /\ top'[0] = command /\ given'[task'[0]] = command
    BY <1>0, <1>2, <2>1
  <2>3. (PlanOf(0, task[0], at[0]))' = PlanOf(0, Len(given) + 1, 0)
    BY <1>0, <2>1 DEF PlanOf, Op
  <2>4. command \in Seq(Operations)
    BY ExecConstants
  <2>5. Runs(0)'
    BY <1>0, <2>1, <2>2, <2>3, <2>4, LenProperties DEF Runs
  <2>6. ~Idles(0)'
    BY <1>0 DEF Idles
  <2>7. task'[0] \in 1 .. Len(given') + 1
    BY <1>0, <2>1
  <2> QED BY <1>0, <1>3, <2>1, <2>5, <2>6, <2>7 DEF Placed
<1>4. CASE r # 0
  <2>1. /\ task'[r] = task[r] /\ at'[r] = at[r] /\ done'[r] = done[r]
        /\ program'[r] = program[r] /\ top'[r] = top[r]
    BY <1>0, <1>2, <1>4
  <2>2. Idles(r)' <=> Idles(r)
    BY <2>1 DEF Idles
  <2>3. ASSUME Runs(r) PROVE Runs(r)'
    <3>1. task[r] \in 1 .. Len(given)
      BY <1>0, <1>1, <2>3 DEF Placed, Runs
    <3>2. given'[task[r]] = given[task[r]] /\ task[r] <= Len(given')
      BY <1>0, <1>1, <3>1
    <3>3. (PlanOf(r, task[r], at[r]))' = PlanOf(r, task[r], at[r])
      BY <2>1, <3>2 DEF PlanOf, Op
    <3> QED BY <2>1, <2>3, <3>2, <3>3 DEF Runs
  <2>4. r \in waits => Now(r)' = Now(r)
    <3>1. ASSUME r \in waits PROVE Now(r)' = Now(r)
      <4>1. Runs(r)
        BY <1>1, <3>1 DEF Placed
      <4> QED BY <2>1 DEF Now, Plan
    <3> QED BY <3>1
  <2>5. task'[r] \in 1 .. Len(given') + 1
    BY <1>0, <1>1, <2>1 DEF Placed
  <2> QED BY <1>0, <1>1, <1>4, <2>2, <2>3, <2>4, <2>5 DEF Placed
<1> QED BY <1>3, <1>4

\* mp_recv gives mp_exec the command, and nothing else touches it before the
\* rank has forwarded it.
LEMMA TakePlaced ==
  ASSUME Inv, NEW q \in Rank, Take(q), NEW r \in Rank
  PROVE  Placed(r)'
<1>0. Typed /\ Placed(q) /\ Placed(r)
  BY DEF Inv
<1>1. PICK p \in Now(q).peers :
        /\ Places(q, p) # {}
        /\ LET id == Now(q).id
              m == queue[q][Oldest(q, p)].msg IN
            /\ program' = (IF id.kind = "cmd"
                           THEN [program EXCEPT ![q] = m.value] ELSE program)
            /\ top' = (IF id.kind \in {"cmd", "out", "file"}
                       THEN [top EXCEPT ![q] = m.value] ELSE top)
  BY DEF Take
<1>2. /\ Now(q).do = "recv" /\ q \notin waits /\ waits' = waits /\ given' = given /\ Advance(q)
  BY DEF Take, Works
<1> DEFINE m == queue[q][Oldest(q, p)].msg
           x == Now(q).id
<1>3. Waiting(p, q) /\ Coming(p, q) = m
  BY <1>1 DEF Waiting, Coming
<1>4. Due(p, q, m) /\ m.id = x /\ m.id.task = task[q] /\ m.id.at = at[q] /\ task[q] <= Len(given)
  BY <1>2, <1>3, ComingIs
<1>5. program \in [Rank -> Values] /\ top \in [Rank -> Values]
  BY <1>0 DEF Typed
<1>6. x.kind = "cmd" => m.value = given[task[q]]
  BY <1>4 DEF Due
<1>7. /\ program' = (IF x.kind = "cmd" THEN [program EXCEPT ![q] = m.value] ELSE program)
      /\ top' = (IF x.kind \in {"cmd", "out", "file"} THEN [top EXCEPT ![q] = m.value] ELSE top)
  BY <1>1
<1> HIDE DEF m
<1>8. /\ x.kind = "cmd" => program'[q] = given[task[q]] /\ top'[q] = given[task[q]]
      /\ x.kind # "cmd" => program'[q] = program[q]
      /\ x.kind \notin {"cmd", "out", "file"} => top'[q] = top[q]
      /\ \A a \in Rank \ {q} : program'[a] = program[a] /\ top'[a] = top[a]
  BY <1>5, <1>6, <1>7
<1>9. (at[q] = 0 => x.kind = "cmd" \/ x.kind \notin {"cmd", "out", "file"})
  <2>1. /\ KnownOp(Op(task[q], at[q]), task[q], at[q]) /\ (Op(task[q], at[q]) = "exec" <=> at[q] = 0)
        /\ done[q] + 1 \in Int
    BY <1>0, PlaceKnown
  <2>2. Act(Operation(Op(task[q], at[q]), q, task[q], at[q]), "recv", p, done[q] + 1, x)
    BY <1>0, <1>2, NowActs DEF PlanOf
  <2>3. x.kind = "cmd" <=> Op(task[q], at[q]) = "exec" /\ x.kind \in Downward
    BY <2>1, <2>2, PlanActs
  <2> QED BY <2>1, <2>3 DEF Downward
<1>10. x.kind # "cmd" => Runs(q)
  <2>1. ASSUME Idles(q) PROVE x.kind = "cmd"
    <3>1. q # 0 /\ x = Id("cmd", task[q], 0)
      BY <1>0, <1>2, <2>1, NowAlone
    <3> QED BY <3>1 DEF Id
  <2> QED BY <1>0, <2>1 DEF Placed
<1>11. program'[q] = given[task[q]] /\ (at[q] = 0 => top'[q] = given[task[q]])
  <2>1. CASE x.kind = "cmd"
    BY <1>8, <2>1
  <2>2. CASE x.kind # "cmd"
    BY <1>8, <1>9, <1>10, <2>2 DEF Runs
  <2> QED BY <2>1, <2>2
<1>12. CASE r = q
  BY <1>0, <1>2, <1>4, <1>11, <1>12, AdvancePlaced
<1>13. CASE r # q
  <2>1. task'[r] = task[r] /\ at'[r] = at[r] /\ done'[r] = done[r]
    BY <1>0, <1>2, <1>4, <1>13, Advances
  <2> QED BY <1>0, <1>2, <1>8, <1>13, <2>1, StaysPlaced
<1> QED BY <1>12, <1>13

-----------------------------------------------------------------------------
(* The types after a step. *)

\* The types of the three variables of a place.
PlaceTyped == task \in [Rank -> Nat] /\ at \in [Rank -> Nat] /\ done \in [Rank -> Nat]

LEMMA AdvanceTyped ==
  ASSUME Inv, NEW q \in Rank, \/ place' = place
                              \/ Advance(q) /\ task[q] <= Len(given)
  PROVE  PlaceTyped'
<1>1. CASE place' = place
  BY <1>1 DEF Inv, Typed, place, PlaceTyped
<1>2. CASE Advance(q) /\ task[q] <= Len(given)
  BY <1>2, Advances DEF Inv, PlaceTyped
<1> QED BY <1>1, <1>2

LEMMA GetTyped ==
  ASSUME Inv, NEW q \in Rank, NEW p \in Rank, Get(q, p)
  PROVE  Typed'
<1>0. Typed
  BY DEF Inv
<1>1. /\ net[p][q] # <<>> /\ net' = [net EXCEPT ![p][q] = Tail(@)]
      /\ queue' = [queue EXCEPT ![q] = Append(@, [from |-> p, msg |-> Head(net[p][q])])]
      /\ UNCHANGED <<given, place, program, waits, top, sum, faulted, met>>
  BY DEF Get
<1>2. PlaceTyped'
  BY <1>1, AdvanceTyped
<1>3. net[p][q] \in Seq(Messages) /\ Head(net[p][q]) \in Messages /\ Tail(net[p][q]) \in Seq(Messages)
  BY <1>0, <1>1, NetType, HeadTailProperties
<1>4. net' \in [Rank -> [Rank -> Seq(Messages)]]
  BY <1>0, <1>1, <1>3 DEF Typed
<1>5. [from |-> p, msg |-> Head(net[p][q])] \in Entries
  BY <1>3 DEF Entries
<1>6. Append(queue[q], [from |-> p, msg |-> Head(net[p][q])]) \in Seq(Entries)
  BY <1>0, <1>5, AppendProperties DEF Typed
<1>7. queue' \in [Rank -> Seq(Entries)]
  BY <1>0, <1>1, <1>6 DEF Typed
<1> QED BY <1>0, <1>1, <1>2, <1>4, <1>7 DEF Typed, PlaceTyped

LEMMA TakeTyped ==
  ASSUME Inv, NEW q \in Rank, Take(q)
  PROVE  Typed'
<1>0. Typed /\ Placed(q)
  BY DEF Inv
<1>1. /\ Now(q).do = "recv" /\ Advance(q)
      /\ UNCHANGED <<given, net, waits, faulted>>
  BY DEF Take, Works
<1>2. PICK p \in Now(q).peers :
        /\ Places(q, p) # {}
        /\ LET id == Now(q).id
               m == queue[q][Oldest(q, p)].msg IN
            /\ queue' = [queue EXCEPT ![q] = RemoveAt(@, Oldest(q, p))]
            /\ program' = (IF id.kind = "cmd"
                           THEN [program EXCEPT ![q] = m.value] ELSE program)
            /\ top' = (IF id.kind \in {"cmd", "out", "file"}
                       THEN [top EXCEPT ![q] = m.value] ELSE top)
            /\ sum' = (IF id.kind = "in"
                       THEN [sum EXCEPT ![q] = Reduced(q, p, m.value)] ELSE sum)
            /\ met' = (IF q = 0 THEN [met EXCEPT ![0] = @ \cup Completed(id, Rest(0))]
                       ELSE met)
  BY DEF Take
<1> DEFINE id == Now(q).id
           m == queue[q][Oldest(q, p)].msg
<1>3. Waiting(p, q) /\ Coming(p, q) = m
  BY <1>2 DEF Waiting, Coming
<1>4. m \in Messages /\ m.id = id /\ task[q] <= Len(given)
  BY <1>1, <1>3, ComingIs
<1>5. m.value \in Values /\ (id.kind = "in" => m.value \in [Rank -> Nat]) /\ id \in Ids
  BY <1>4, MessageType
<1>6. PlaceTyped'
  BY <1>1, <1>4, AdvanceTyped
<1>7. queue' \in [Rank -> Seq(Entries)]
  <2>1. Oldest(q, p) \in 1 .. Len(queue[q])
    BY <1>0, <1>2, OldestIs
  <2>2. RemoveAt(queue[q], Oldest(q, p)) \in Seq(Entries)
    BY <1>0, <2>1, RemoveAtProperties DEF Typed
  <2> QED BY <1>0, <1>2, <2>2 DEF Typed
<1>8. /\ program' = (IF id.kind = "cmd" THEN [program EXCEPT ![q] = m.value] ELSE program)
      /\ top' = (IF id.kind \in {"cmd", "out", "file"} THEN [top EXCEPT ![q] = m.value] ELSE top)
      /\ sum' = (IF id.kind = "in" THEN [sum EXCEPT ![q] = Reduced(q, p, m.value)] ELSE sum)
      /\ met' = (IF q = 0 THEN [met EXCEPT ![0] = @ \cup Completed(id, Rest(0))] ELSE met)
  BY <1>2
<1>9. id.kind = "in" => Reduced(q, p, m.value) \in [Rank -> Nat]
  <2>1. sum[q] \in [Rank -> Nat] /\ Part(q) \in [Rank -> Nat]
    BY <1>0 DEF Typed, Part
  <2>2. \A a, b \in [Rank -> Nat] : Plus(a, b) \in [Rank -> Nat]
    BY DEF Plus
  <2> QED BY <1>5, <2>1, <2>2 DEF Reduced
<1>10. Completed(id, Rest(0)) \subseteq Ids
  BY <1>5 DEF Completed
<1> HIDE DEF m, id
<1>11. program' \in [Rank -> Values] /\ top' \in [Rank -> Values]
  BY <1>0, <1>5, <1>8 DEF Typed
<1>12. sum' \in [Rank -> [Rank -> Nat]]
  BY <1>0, <1>8, <1>9 DEF Typed
<1>13. met' \in [Rank -> SUBSET Ids]
  BY <1>0, <1>8, <1>10 DEF Typed
<1> QED BY <1>0, <1>1, <1>6, <1>7, <1>11, <1>12, <1>13 DEF Typed, PlaceTyped

LEMMA SendTyped ==
  ASSUME Inv, NEW q \in Rank, Send(q)
  PROVE  Typed'
<1>0. Typed /\ Placed(q) /\ Now(q).do \in Sending
  BY SendNet
<1>1. Runs(q) /\ Now(q) \in Step /\ task[q] <= Len(given)
  BY <1>0, SendingRuns, PlaceKnown
<1>2. PlaceTyped' /\ waits' \subseteq Rank
  <2>1. (Advance(q) /\ waits' = waits) \/ (place' = place /\ waits' = waits \cup {q})
    BY DEF Send
  <2> QED BY <1>0, <1>1, <2>1, AdvanceTyped DEF Typed
<1>3. net' \in [Rank -> [Rank -> Seq(Messages)]]
  <2>1. net' = [net EXCEPT ![q] = [p \in Rank |->
            IF p \in Now(q).peers THEN Append(@[p], [id |-> Now(q).id, value |-> Content(q, Now(q))])
            ELSE @[p]]]
    BY DEF Send
  <2>2. Message(q) \in Messages
    BY <1>0, MessageIs
  <2>3. \A p \in Rank : net[q][p] \in Seq(Messages) /\ Append(net[q][p], Message(q)) \in Seq(Messages)
    BY <1>0, <2>2, NetType, AppendProperties
  <2>4. [p \in Rank |-> IF p \in Now(q).peers THEN Append(net[q][p], Message(q)) ELSE net[q][p]]
          \in [Rank -> Seq(Messages)]
    BY <2>3
  <2>5. net' = [net EXCEPT ![q] =
          [p \in Rank |-> IF p \in Now(q).peers THEN Append(net[q][p], Message(q)) ELSE net[q][p]]]
    BY <2>1, <1>0 DEF Message, Typed
  <2> QED BY <1>0, <2>4, <2>5 DEF Typed
<1>4. met' \in [Rank -> SUBSET Ids]
  <2>1. met' = (IF Now(q).do = "report" THEN [met EXCEPT ![q] = @ \cup {Now(q).id}] ELSE met)
    BY DEF Send
  <2>2. Now(q).id \in Ids
    BY <1>1 DEF Step
  <2> QED BY <1>0, <2>1, <2>2 DEF Typed
<1>5. UNCHANGED <<given, program, queue, top, sum, faulted>>
  BY DEF Send
<1> QED BY <1>0, <1>2, <1>3, <1>4, <1>5 DEF Typed, PlaceTyped

\* The other steps change no message.
LEMMA QuietTyped ==
  ASSUME Inv, \/ \E command \in Programs : Exec(command)
              \/ \E q \in Rank : SendDone(q) \/ Load(q)
              \/ \E outcome \in Outcomes : Open(outcome)
              \/ Recover
  PROVE  Typed'
<1>0. Typed /\ 0 \in Rank
  BY RootHasStaff DEF Inv
<1>1. ASSUME NEW command \in Programs, Exec(command) PROVE Typed'
  <2>1. /\ given' \in Seq(Programs) /\ Len(given') <= MaxTasks
        /\ task' = task /\ at' = at /\ done' \in [Rank -> Nat]
    BY <1>1, ExecIs
  <2>2. /\ program' = [program EXCEPT ![0] = command] /\ top' = [top EXCEPT ![0] = command]
        /\ UNCHANGED <<net, queue, waits, sum, faulted, met>>
    BY <1>1 DEF Exec
  <2>3. command \in Values
    BY DEF Values, Texts
  <2> QED BY <1>0, <2>1, <2>2, <2>3 DEF Typed
<1>2. ASSUME NEW q \in Rank, SendDone(q) PROVE Typed'
  <2>1. task[q] <= Len(given)
    BY <1>2 DEF SendDone, Inv, Placed, Runs
  <2>2. Advance(q) /\ waits' = waits \ {q}
        /\ UNCHANGED <<given, program, net, queue, top, sum, faulted, met>>
    BY <1>2 DEF SendDone
  <2>3. PlaceTyped'
    BY <2>1, <2>2, AdvanceTyped
  <2> QED BY <1>0, <2>2, <2>3 DEF Typed, PlaceTyped
<1>3. ASSUME NEW q \in Rank, Load(q) PROVE Typed'
  <2>1. task[q] <= Len(given)
    BY <1>3, AloneRuns DEF Load, Works, Inv
  <2>2. /\ place' = place \/ Advance(q)
        /\ faulted' = faulted \cup {q} \/ faulted' = faulted
        /\ UNCHANGED <<given, program, net, queue, waits, top, sum, met>>
    BY <1>3 DEF Load
  <2>3. PlaceTyped'
    BY <2>1, <2>2, AdvanceTyped
  <2>4. faulted' \subseteq Rank
    BY <1>0, <2>2 DEF Typed
  <2> QED BY <1>0, <2>2, <2>3, <2>4 DEF Typed, PlaceTyped
<1>4. ASSUME NEW outcome \in Outcomes, Open(outcome) PROVE Typed'
  <2>1. task[0] <= Len(given)
    BY <1>0, <1>4, AloneRuns DEF Open, Works, Inv
  <2>2. /\ \/ place' = place /\ top' = top /\ faulted' = faulted \cup {0}
           \/ /\ Advance(0) /\ top' = [top EXCEPT ![0] = <<outcome>>] /\ faulted' = faulted
              /\ outcome # "unreadable"
        /\ UNCHANGED <<given, program, net, queue, waits, sum, met>>
    BY <1>4 DEF Open
  <2>3. PlaceTyped'
    BY <1>0, <2>1, <2>2, AdvanceTyped
  <2>4. faulted' \subseteq Rank
    BY <1>0, <2>2 DEF Typed
  <2>5. outcome # "unreadable" => <<outcome>> \in Values
    BY DEF Outcomes, Values, Texts
  <2>6. top' \in [Rank -> Values]
    BY <1>0, <2>2, <2>5 DEF Typed
  <2> QED BY <1>0, <2>2, <2>3, <2>4, <2>6 DEF Typed, PlaceTyped
<1>5. ASSUME Recover PROVE Typed'
  <2>1. /\ faulted' = {} /\ waits' = {}
        /\ task' = [r \in Rank |-> Len(given) + 1]
        /\ at' = [r \in Rank |-> 0] /\ done' = [r \in Rank |-> 0]
        /\ net' = [s \in Rank |-> [r \in Rank |-> <<>>]]
        /\ queue' = [r \in Rank |-> <<>>]
        /\ UNCHANGED <<given, program, top, sum, met>>
    BY <1>5 DEF Recover, Rests
  <2>2. Len(given) \in Nat /\ <<>> \in Seq(Messages) /\ <<>> \in Seq(Entries)
    BY <1>0, LenProperties DEF Typed
  <2>3. net' \in [Rank -> [Rank -> Seq(Messages)]] /\ queue' \in [Rank -> Seq(Entries)]
    BY <2>1, <2>2
  <2>4. task' \in [Rank -> Nat] /\ at' \in [Rank -> Nat] /\ done' \in [Rank -> Nat]
    BY <2>1, <2>2
  <2> QED BY <1>0, <2>1, <2>3, <2>4 DEF Typed
<1> QED BY <1>1, <1>2, <1>3, <1>4, <1>5

-----------------------------------------------------------------------------
(* The invariant. *)

LEMMA InitInv == Init => Inv
<1> SUFFICES ASSUME Init PROVE Inv
  OBVIOUS
<1>1. /\ given = <<>>
      /\ task = [r \in Rank |-> 1] /\ at = [r \in Rank |-> 0] /\ done = [r \in Rank |-> 0]
      /\ program = [r \in Rank |-> <<>>]
      /\ net = [s \in Rank |-> [r \in Rank |-> <<>>]]
      /\ queue = [r \in Rank |-> <<>>]
      /\ waits = {} /\ faulted = {}
      /\ top = [r \in Rank |-> <<>>]
      /\ sum = [r \in Rank |-> Part(r)]
      /\ met = [r \in Rank |-> {}]
  BY DEF Init
<1>2. given \in Seq(Programs) /\ Len(given) = 0 /\ 0 <= MaxTasks
  BY <1>1, ExecConstants, EmptySeq
<1>3. Typed
  <2>1. <<>> \in Seq(Messages) /\ <<>> \in Seq(Entries) /\ <<>> \in Values
    BY DEF Values, Texts
  <2>2. \A r \in Rank : Part(r) \in [Rank -> Nat]
    BY DEF Part
  <2>3. task \in [Rank -> Nat] /\ at \in [Rank -> Nat] /\ done \in [Rank -> Nat]
    BY <1>1
  <2>4. net \in [Rank -> [Rank -> Seq(Messages)]] /\ queue \in [Rank -> Seq(Entries)]
    BY <1>1, <2>1
  <2>5. program \in [Rank -> Values] /\ top \in [Rank -> Values]
    BY <1>1, <2>1
  <2>6. sum \in [Rank -> [Rank -> Nat]]
    BY <1>1, <2>2
  <2>7. met \in [Rank -> SUBSET Ids]
    BY <1>1
  <2> QED BY <1>1, <1>2, <2>3, <2>4, <2>5, <2>6, <2>7 DEF Typed
<1>4. \A r \in Rank : Placed(r)
  BY <1>1, <1>2 DEF Placed, Idles
<1>5. ASSUME NEW s \in Rank, NEW r \in Rank PROVE Stream(s, r)
  <2>1. queue[r] = <<>> /\ net[s][r] = <<>>
    BY <1>1
  <2>2. Places(r, s) = {} /\ DOMAIN net[s][r] = {}
    BY <2>1 DEF Places
  <2>3. \A t, k : ~Given(t, k)
    BY <1>2 DEF Given
  <2> QED BY <2>2, <2>3 DEF Stream, Sorted, AllDue, InStream, Kept
<1> QED BY <1>3, <1>4, <1>5 DEF Inv

\* Nothing changes.
LEMMA IdleInv == Inv /\ UNCHANGED job => Inv'
<1> SUFFICES ASSUME Inv, UNCHANGED job PROVE Inv'
  OBVIOUS
<1>1. /\ given' = given /\ task' = task /\ at' = at /\ done' = done /\ program' = program
      /\ net' = net /\ queue' = queue /\ waits' = waits /\ top' = top /\ sum' = sum
      /\ faulted' = faulted /\ met' = met /\ place' = place
  BY DEF job, place
<1>2. Typed'
  BY <1>1 DEF Inv, Typed
<1>3. \A r \in Rank : Placed(r)'
  BY <1>1, StaysPlaced DEF Inv
<1>4. \A s, r \in Rank : Stream(s, r)'
  <2> SUFFICES ASSUME NEW s \in Rank, NEW r \in Rank PROVE Stream(s, r)'
    OBVIOUS
  <2> QED BY <1>1, QuietStream, RootHasStaff
<1> QED BY <1>2, <1>3, <1>4 DEF Inv

\* To the job, mperr_fatal changes nothing that the ranks have done.
LEMMA NextIs == [Next]_vars => JobStep \/ UNCHANGED job
BY DEF Next, Lives, Abort, vars

LEMMA NextInv == Inv /\ [Next]_vars => Inv'
<1> SUFFICES ASSUME Inv, JobStep PROVE Inv'
  BY IdleInv, NextIs
<1>1. ASSUME NEW command \in Programs, Exec(command) PROVE Inv'
  <2>1. Typed'
    BY <1>1, QuietTyped
  <2> QED BY <1>1, <2>1, ExecPlaced, ExecStream DEF Inv
<1>2. ASSUME NEW r \in Rank, NEW s \in Rank, Get(r, s) PROVE Inv'
  BY <1>2, GetTyped, GetPlaced, GetStream DEF Inv
<1>3. ASSUME NEW r \in Rank, Take(r) PROVE Inv'
  BY <1>3, TakeTyped, TakePlaced, TakeStream DEF Inv
<1>4. ASSUME NEW r \in Rank, Send(r) PROVE Inv'
  BY <1>4, SendTyped, SendPlaced, SendStream DEF Inv
<1>5. ASSUME NEW r \in Rank, SendDone(r) PROVE Inv'
  <2>1. Typed'
    BY <1>5, QuietTyped
  <2> QED BY <1>5, <2>1, SendDonePlaced, SendDoneStream DEF Inv
<1>6. ASSUME NEW r \in Rank, Load(r) PROVE Inv'
  <2>1. Typed'
    BY <1>6, QuietTyped
  <2> QED BY <1>6, <2>1, LoadPlaced, LoadStream DEF Inv
<1>7. ASSUME NEW outcome \in Outcomes, Open(outcome) PROVE Inv'
  <2>1. Typed'
    BY <1>7, QuietTyped
  <2> QED BY <1>7, <2>1, OpenPlaced, OpenStream DEF Inv
<1>8. ASSUME Recover PROVE Inv'
  <2>1. Typed'
    BY <1>8, QuietTyped
  <2> QED BY <1>8, <2>1, RecoverPlaced, RecoverStream DEF Inv
<1> QED BY <1>1, <1>2, <1>3, <1>4, <1>5, <1>6, <1>7, <1>8 DEF JobStep, RankStep

\* The streams of messages between the ranks, mp_send to mp_recv, and the places
\* of the ranks in the commands always fit together.
THEOREM InvHolds == Spec => []Inv
<1>1. Init => Inv
  BY InitInv
<1>2. Inv /\ [Next]_vars => Inv'
  BY NextInv
<1> QED BY <1>1, <1>2, PTL DEF Spec

\* What a rank receives is what it waits for: each sender's messages arrive in
\* the order of the operations, and whatever has been sent and not received
\* waits for the same operation on both sides.
THEOREM NoCrosstalkCorrect == Spec => []NoCrosstalk
<1>1. Inv => NoCrosstalk
  BY ComingIs DEF NoCrosstalk
<1> QED BY <1>1, InvHolds, PTL

\* When every rank is in mpy_idler, every operation given is behind it, and no
\* message that is still on its way belongs to it.
THEOREM NothingLeftCorrect == Spec => []NothingLeft
<1>1. ASSUME Inv, Idle, NEW r \in Rank, NEW s \in Rank, NEW m, InStream(s, r, m) PROVE FALSE
  <2>1. Due(s, r, m)
    BY <1>1 DEF Inv, Stream, AllDue
  <2>2. Given(m.id.task, m.id.at) /\ \E j \in Int : ~Before(r, m.id.task, m.id.at, j)
    BY <2>1 DEF Due
  <2>3. task[r] = Len(given) + 1 /\ Len(given) \in Nat
    BY <1>1, LenProperties DEF Idle, Inv, Typed
  <2> QED BY <2>2, <2>3 DEF Given, Before
<1>2. ASSUME Inv, Idle, NEW r \in Rank PROVE queue[r] = <<>>
  <2>1. queue[r] \in Seq(Entries)
    BY <1>2 DEF Inv, Typed
  <2>2. ASSUME queue[r] # <<>> PROVE FALSE
    <3>1. 1 \in DOMAIN queue[r]
      BY <2>1, <2>2, EmptySeq, LenProperties
    <3>2. queue[r][1].from \in Rank
      BY <1>2, <3>1, EntryType DEF Inv
    <3>3. InStream(queue[r][1].from, r, queue[r][1].msg)
      BY <3>1 DEF InStream, Places
    <3> QED BY <1>1, <1>2, <3>2, <3>3
  <2> QED BY <2>2
<1>3. ASSUME Inv, Idle, NEW r \in Rank, NEW s \in Rank PROVE net[s][r] = <<>>
  <2>1. ASSUME net[s][r] # <<>> PROVE FALSE
    <3>1. 1 \in DOMAIN net[s][r]
      BY <1>3, <2>1, NetType DEF Inv
    <3>2. InStream(s, r, net[s][r][1])
      BY <3>1 DEF InStream
    <3> QED BY <1>1, <1>3, <3>2
  <2> QED BY <2>1
<1>4. Inv => NothingLeft
  BY <1>2, <1>3 DEF NothingLeft
<1> QED BY <1>4, InvHolds, PTL

-----------------------------------------------------------------------------
(* The ranks below a rank, and the parts of them that mp_handin adds up. *)

Closed(S) == \A p \in S : Staff(p) \subseteq S
Subtree(r) == {q \in Rank : \A S \in SUBSET Rank : r \in S /\ Closed(S) => q \in S}

LEMMA SubtreeLeast ==
  ASSUME NEW r \in Rank
  PROVE  /\ r \in Subtree(r) /\ Subtree(r) \in SUBSET Rank /\ Closed(Subtree(r))
         /\ \A S \in SUBSET Rank : r \in S /\ Closed(S) => Subtree(r) \subseteq S
<1>1. r \in Subtree(r) /\ Subtree(r) \in SUBSET Rank
  BY DEF Subtree
<1>2. \A S \in SUBSET Rank : r \in S /\ Closed(S) => Subtree(r) \subseteq S
  BY DEF Subtree
<1>3. ASSUME NEW p \in Subtree(r), NEW c \in Staff(p) PROVE c \in Subtree(r)
  <2>1. c \in Rank
    BY StaffSubset
  <2>2. \A S \in SUBSET Rank : r \in S /\ Closed(S) => c \in S
    BY DEF Subtree, Closed
  <2> QED BY <2>1, <2>2 DEF Subtree
<1> QED BY <1>1, <1>2, <1>3 DEF Closed

LEMMA SubtreeBoss ==
  ASSUME NEW r \in Rank, NEW q \in Subtree(r), q # r
  PROVE  q > r /\ q # 0 /\ Boss(q) \in Subtree(r)
<1> DEFINE S == {p \in Subtree(r) : p = r \/ (p > r /\ p # 0 /\ Boss(p) \in Subtree(r))}
<1>1. S \in SUBSET Rank /\ r \in S
  BY SubtreeLeast
<1>2. Closed(S)
  <2> SUFFICES ASSUME NEW p \in S, NEW c \in Staff(p) PROVE c \in S
    BY DEF Closed
  <2>1. p \in Subtree(r) /\ p \in Rank /\ (p = r \/ p > r)
    BY SubtreeLeast
  <2>2. c \in Subtree(r)
    BY <2>1, SubtreeLeast DEF Closed
  <2>3. c \in Rank /\ c > p /\ c # 0 /\ Boss(c) = p
    BY <2>1, StaffAbove
  <2>4. c > r
    BY <2>1, <2>3 DEF Rank
  <2> QED BY <2>1, <2>2, <2>3, <2>4
<1>3. Subtree(r) \subseteq S
  BY <1>1, <1>2, SubtreeLeast
<1> QED BY <1>3

LEMMA SubtreeRoot == Subtree(0) = Rank
<1>0. 0 \in Rank /\ Rank \subseteq Nat
  BY RootHasStaff DEF Rank
<1>1. ASSUME Rank \ Subtree(0) # {} PROVE FALSE
  <2> DEFINE x == Min(Rank \ Subtree(0))
  <2>1. x \in Rank \ Subtree(0) /\ \A y \in Rank \ Subtree(0) : x <= y
    BY <1>0, <1>1, Least
  <2> HIDE DEF x
  <2>2. x # 0
    BY <1>0, <2>1, SubtreeLeast
  <2>3. Boss(x) \in Rank /\ Boss(x) < x /\ x \in Staff(Boss(x))
    BY <2>1, <2>2, BossBelow
  <2>4. Boss(x) \in Subtree(0)
    <3>1. x \in Nat /\ Boss(x) \in Nat
      BY <1>0, <2>1, <2>3
    <3>2. ~(x <= Boss(x))
      BY <2>3, <3>1
    <3> QED BY <2>1, <2>3, <3>2
  <2> QED BY <1>0, <2>1, <2>3, <2>4, SubtreeLeast DEF Closed
<1> QED BY <1>0, <1>1, SubtreeLeast

\* The ranks under two of the staff of a rank are not the same, nor the rank.
LEMMA SubtreesApart ==
  ASSUME NEW q \in Rank, NEW b \in Staff(q), NEW c \in Staff(q), b # c
  PROVE  Subtree(b) \cap Subtree(c) = {} /\ q \notin Subtree(c)
<1>0. b \in Rank /\ c \in Rank /\ b > q /\ c > q /\ Boss(b) = q /\ Boss(c) = q
  BY StaffAbove
<1>1. \A x \in Subtree(c) : x > q
  <2>1. \A x \in Subtree(c) : x = c \/ x > c
    BY <1>0, SubtreeBoss
  <2>2. \A x \in Subtree(c) : x \in Rank
    BY <1>0, SubtreeLeast
  <2> QED BY <1>0, <2>1, <2>2 DEF Rank
<1>2. q \notin Subtree(c)
  BY <1>1 DEF Rank
<1> DEFINE S == {x \in Rank : x > q /\ x \notin Subtree(c)}
<1>3. b \in S
  BY <1>0, <1>2, SubtreeBoss
<1>4. Closed(S)
  <2> SUFFICES ASSUME NEW p \in S, NEW x \in Staff(p) PROVE x \in S
    BY DEF Closed
  <2>1. x \in Rank /\ x > p /\ Boss(x) = p /\ p \in Rank /\ p > q /\ p \notin Subtree(c)
    BY StaffAbove
  <2>2. x > q
    BY <2>1, <1>0 DEF Rank
  <2>3. x # c
    BY <1>0, <2>1 DEF Rank
  <2>4. x \notin Subtree(c)
    BY <1>0, <2>1, <2>3, SubtreeBoss
  <2> QED BY <2>1, <2>2, <2>4
<1>5. Subtree(b) \subseteq S
  BY <1>0, <1>3, <1>4, SubtreeLeast
<1> QED BY <1>2, <1>5

\* Rank q and the ranks under the first d of its staff.
Sofar(q, d) == {q} \cup UNION {Subtree(q * Fan + i) : i \in 1 .. d}

LEMMA SofarNone ==
  ASSUME NEW q \in Rank
  PROVE  Sofar(q, 0) = {q}
<1>1. 1 .. 0 = {}
  OBVIOUS
<1> QED BY <1>1 DEF Sofar

LEMMA SofarMore ==
  ASSUME NEW q \in Rank, NEW d \in Nat, d + 1 <= Count(q)
  PROVE  /\ Sofar(q, d + 1) = Sofar(q, d) \cup Subtree(q * Fan + (d + 1))
         /\ Sofar(q, d) \cap Subtree(q * Fan + (d + 1)) = {}
         /\ Sofar(q, d) \subseteq Rank /\ Subtree(q * Fan + (d + 1)) \subseteq Rank
<1>0. Count(q) \in Nat /\ \A i \in 1 .. Count(q) : q * Fan + i \in Staff(q)
  BY StaffNumbered
<1>1. \A i : i \in 1 .. d + 1 <=> i \in 1 .. d \/ i = d + 1
  OBVIOUS
<1>2. Sofar(q, d + 1) = Sofar(q, d) \cup Subtree(q * Fan + (d + 1))
  <2>1. ASSUME NEW x PROVE (\E i \in 1 .. d + 1 : x \in Subtree(q * Fan + i)) <=>
                             (\E i \in 1 .. d : x \in Subtree(q * Fan + i))
                               \/ x \in Subtree(q * Fan + (d + 1))
    BY <1>1
  <2>2. \A e : \A x : x \in Sofar(q, e) <=> x = q \/ \E i \in 1 .. e : x \in Subtree(q * Fan + i)
    BY DEF Sofar
  <2> QED BY <2>1, <2>2
<1>3. d + 1 \in 1 .. Count(q) /\ \A i \in 1 .. d : i \in 1 .. Count(q) /\ i # d + 1
  BY <1>0
<1>4. \A i \in 1 .. d : q * Fan + i # q * Fan + (d + 1)
  <2>1. q * Fan \in Int
    BY FanAssumption DEF Rank
  <2> QED BY <2>1
<1>5. \A i \in 1 .. d : Subtree(q * Fan + i) \cap Subtree(q * Fan + (d + 1)) = {}
  BY <1>0, <1>3, <1>4, SubtreesApart
<1>6. q \notin Subtree(q * Fan + (d + 1))
  <2> DEFINE c == q * Fan + (d + 1)
  <2>1. c \in Staff(q)
    BY <1>0, <1>3
  <2> HIDE DEF c
  <2>2. c \in Rank /\ c > q
    BY <2>1, StaffAbove
  <2>3. q \notin Subtree(c)
    <3>1. ASSUME q \in Subtree(c) PROVE FALSE
      <4>1. q > c
        BY <2>2, <3>1, SubtreeBoss DEF Rank
      <4> QED BY <2>2, <4>1 DEF Rank
    <3> QED BY <3>1
  <2> QED BY <2>3 DEF c
<1>7. \A i \in 1 .. Count(q) : Subtree(q * Fan + i) \subseteq Rank
  BY <1>0, StaffSubset, SubtreeLeast
<1>8. Sofar(q, d) \subseteq Rank
  BY <1>3, <1>7 DEF Sofar
<1>9. Sofar(q, d) \cap Subtree(q * Fan + (d + 1)) = {}
  BY <1>5, <1>6 DEF Sofar
<1> QED BY <1>2, <1>3, <1>7, <1>8, <1>9

LEMMA SofarAll ==
  ASSUME NEW q \in Rank
  PROVE  Sofar(q, Count(q)) = Subtree(q)
<1>0. /\ Count(q) \in Nat /\ \A i \in 1 .. Count(q) : q * Fan + i \in Staff(q)
      /\ \A c \in Staff(q) : c - q * Fan \in 1 .. Count(q) /\ c \in Int
  BY StaffNumbered
<1>1. \A x : x \in Sofar(q, Count(q)) <=> x = q \/ \E c \in Staff(q) : x \in Subtree(c)
  <2>1. ASSUME NEW c \in Staff(q) PROVE \E i \in 1 .. Count(q) : c = q * Fan + i
    <3>1. q * Fan \in Int
      BY FanAssumption DEF Rank
    <3>2. c = q * Fan + (c - q * Fan)
      BY <1>0, <3>1
    <3> QED BY <1>0, <3>2
  <2>2. \A x : x \in Sofar(q, Count(q)) <=> x = q \/ \E i \in 1 .. Count(q) : x \in Subtree(q * Fan + i)
    BY DEF Sofar
  <2> QED BY <1>0, <2>1, <2>2
<1>2. Closed(Subtree(q)) /\ q \in Subtree(q) /\ Subtree(q) \in SUBSET Rank
  BY SubtreeLeast
<1>3. \A c \in Staff(q) : Subtree(c) \subseteq Subtree(q)
  BY <1>2, StaffSubset, SubtreeLeast DEF Closed
<1>4. Sofar(q, Count(q)) \in SUBSET Rank
  BY <1>1, <1>2, <1>3
<1>5. Closed(Sofar(q, Count(q)))
  <2> SUFFICES ASSUME NEW p \in Sofar(q, Count(q)), NEW c \in Staff(p)
               PROVE  c \in Sofar(q, Count(q))
    BY DEF Closed
  <2>1. CASE p = q
    <3>1. c \in Staff(q) /\ c \in Rank
      BY <2>1, StaffSubset
    <3>2. c \in Subtree(c)
      BY <3>1, SubtreeLeast
    <3> QED BY <1>1, <3>1, <3>2
  <2>2. CASE \E b \in Staff(q) : p \in Subtree(b)
    <3>1. PICK b \in Staff(q) : p \in Subtree(b)
      BY <2>2
    <3>2. c \in Subtree(b)
      BY <3>1, StaffSubset, SubtreeLeast DEF Closed
    <3> QED BY <1>1, <3>1, <3>2
  <2> QED BY <1>1, <2>1, <2>2
<1>6. Subtree(q) \subseteq Sofar(q, Count(q))
  <2>1. q \in Sofar(q, Count(q))
    BY <1>1
  <2> QED BY <1>4, <1>5, <2>1, SubtreeLeast
<1> QED BY <1>1, <1>2, <1>3, <1>6

\* The sum of the parts of the ranks of S.
Ind(S) == [q \in Rank |-> IF q \in S THEN 1 ELSE 0]

LEMMA IndType ==
  /\ \A S : Ind(S) \in [Rank -> {0, 1}]
  /\ \A r \in Rank : Part(r) = Ind({r})
  /\ Ind(Rank) = [r \in Rank |-> 1]
BY DEF Ind, Part

LEMMA IndPlus ==
  ASSUME NEW A, NEW B, A \cap B = {}
  PROVE  Plus(Ind(A), Ind(B)) = Ind(A \cup B)
<1>1. \A q \in Rank : Plus(Ind(A), Ind(B))[q] = Ind(A \cup B)[q]
  BY DEF Plus, Ind
<1> QED BY <1>1 DEF Plus, Ind

-----------------------------------------------------------------------------
(* What the ranks know of each other: a rank that has a message of an upward *)
(* operation from another, on its way or received, has it from one that has  *)
(* reached the operation, and so have all the ranks below that one.          *)

Learnt(s, r) ==
  \A m : InStream(s, r, m) =>
    /\ m.id.kind \in Upward => m.id \in met[s]
    /\ m.id.kind = "in" => m.value = Ind(Subtree(s))

Heard(q) ==
  \A i, x : \A c \in Rank :
    i \in 1 .. done[q] /\ Act(PlanOf(q, task[q], at[q]), "recv", c, i, x) /\ x.kind \in Upward
      => x \in met[c]

Added(q) == Op(task[q], at[q]) = "in" /\ done[q] > 0 => sum[q] = Ind(Sofar(q, done[q]))

Spread(q) == \A id \in met[q] : \A c \in Staff(q) : id \in met[c]

MetInv ==
  /\ \A s, r \in Rank : Learnt(s, r)
  /\ \A q \in Rank : Heard(q) /\ Added(q) /\ Spread(q) /\ sum[q] \in [Rank -> {0, 1}]

\* An mp_handin: from each of the staff in turn, then to the boss.
LEMMA InPlan ==
  ASSUME Typed, NEW q \in Rank, Placed(q), Op(task[q], at[q]) = "in"
  PROVE  /\ Now(q).do = "recv" => /\ done[q] + 1 <= Count(q)
                                  /\ Now(q).peers = {q * Fan + (done[q] + 1)}
         /\ Now(q).do # "recv" => /\ q # 0 /\ Now(q).do = "report" /\ done[q] = Count(q)
                                  /\ done[q] + 1 = Len(PlanOf(q, task[q], at[q]))
         /\ q = 0 => Len(PlanOf(q, task[q], at[q])) = Count(q)
         /\ Now(q).id.kind = "in" /\ Count(q) \in Nat
         /\ \A i \in 1 .. Count(q) : PlanOf(q, task[q], at[q])[i].id = Now(q).id
<1> DEFINE x == Id("in", task[q], at[q])
           i == done[q] + 1
           a == PlanOf(q, task[q], at[q])
<1>1. /\ task[q] \in Nat /\ at[q] \in Nat /\ done[q] \in Nat /\ Now(q) \in Step
      /\ i \in Int /\ Now(q) = a[i] /\ i \in 1 .. Len(a) /\ i \in DOMAIN a
  BY PlaceKnown
<1>2. x \in Ids /\ x.kind = "in"
  BY <1>1 DEF Ids, Kinds, Id
<1>3. a = Up(q, x)
  BY DEF PlanOf, Operation
<1>4. Count(q) \in Nat
  BY StaffNumbered
<1> HIDE DEF x, a
<1>5. /\ Len(a) = Count(q) + (IF q = 0 THEN 0 ELSE 1)
      /\ \A d, p, y : \A j \in Int : Act(a, d, p, j, y) <=>
              /\ y = x
              /\ \/ d = "recv" /\ j \in 1..Count(q) /\ p = q * Fan + j
                 \/ q # 0 /\ d = "report" /\ p = Boss(q) /\ j = Count(q) + 1
  BY <1>2, <1>3, UpShape
<1>6. CASE i <= Count(q)
  <2>1. i \in 1 .. Count(q)
    BY <1>1, <1>4, <1>6
  <2>2. Act(a, "recv", q * Fan + i, i, x)
    BY <1>1, <1>5, <2>1
  <2>3. Now(q).do = "recv" /\ q * Fan + i \in Now(q).peers /\ Now(q).id = x
    BY <1>1, <2>2 DEF Act
  <2>4. \A p \in Now(q).peers : p = q * Fan + i
    <3>1. \A p \in Now(q).peers : Act(a, "recv", p, i, x)
      BY <1>1, <2>3 DEF Act
    <3> QED BY <1>1, <1>5, <3>1
  <2>5. \A j \in 1 .. Count(q) : a[j].id = x
    <3>1. \A j \in 1 .. Count(q) : Act(a, "recv", q * Fan + j, j, x)
      BY <1>5
    <3> QED BY <3>1 DEF Act
  <2> QED BY <1>2, <1>4, <1>5, <1>6, <2>3, <2>4, <2>5 DEF a
<1>7. CASE i > Count(q)
  <2>1. q # 0 /\ i = Count(q) + 1 /\ i = Len(a)
    BY <1>1, <1>4, <1>5, <1>7
  <2>2. Act(a, "report", Boss(q), i, x)
    BY <1>1, <1>5, <2>1
  <2>3. Now(q).do = "report" /\ Now(q).id = x
    BY <1>1, <2>2 DEF Act
  <2>4. done[q] = Count(q)
    BY <1>1, <1>4, <2>1
  <2>5. \A j \in 1 .. Count(q) : a[j].id = x
    <3>1. \A j \in 1 .. Count(q) : Act(a, "recv", q * Fan + j, j, x)
      BY <1>5
    <3> QED BY <3>1 DEF Act
  <2> QED BY <1>2, <1>4, <2>1, <2>3, <2>4, <2>5 DEF a
<1> QED BY <1>1, <1>4, <1>6, <1>7

\* A rank that does nothing.
LEMMA StaysHere ==
  ASSUME NEW q \in Rank, Heard(q), Added(q), task'[q] = task[q], at'[q] = at[q],
         done'[q] = done[q], sum'[q] = sum[q], Op(task[q], at[q])' = Op(task[q], at[q]),
         \A c \in Rank : met[c] \subseteq met'[c]
  PROVE  Heard(q)' /\ Added(q)'
<1>1. PlanOf(q, task[q], at[q])' = PlanOf(q, task[q], at[q])
  BY DEF PlanOf
<1>2. Heard(q)'
  BY <1>1 DEF Heard
<1>3. Added(q)'
  BY DEF Added
<1> QED BY <1>2, <1>3

\* A rank that moves on, from something else than a receive.
LEMMA AdvanceHere ==
  ASSUME Inv, NEW q \in Rank, Heard(q), Added(q), Advance(q), task[q] <= Len(given),
         given' = given, Now(q).do # "recv", sum'[q] = sum[q],
         \A c \in Rank : met[c] \subseteq met'[c]
  PROVE  Heard(q)' /\ Added(q)'
<1>0. Typed /\ Placed(q) /\ done[q] \in Nat
  BY DEF Inv, Typed
<1>1. CASE /\ task'[q] = task[q] /\ at'[q] = at[q] /\ done'[q] = done[q] + 1
           /\ done[q] + 1 < Len(PlanOf(q, task[q], at[q]))
  <2>1. Op(task[q], at[q])' = Op(task[q], at[q])
    BY <1>1 DEF Op
  <2>2. PlanOf(q, task[q], at[q])' = PlanOf(q, task[q], at[q])
    BY <1>1, <2>1 DEF PlanOf
  <2>3. \A c, x : ~Act(PlanOf(q, task[q], at[q]), "recv", c, done[q] + 1, x)
    BY <1>0, CurrentIsNow DEF Current
  <2>4. Heard(q)'
    <3>1. ASSUME NEW i, NEW x, NEW c \in Rank, i \in 1 .. done'[q],
                 Act(PlanOf(q, task[q], at[q]), "recv", c, i, x), x.kind \in Upward
          PROVE  x \in met'[c]
      <4>1. i \in 1 .. done[q] \/ i = done[q] + 1
        BY <1>0, <1>1, <3>1
      <4> QED BY <2>3, <3>1, <4>1 DEF Heard
    <3> QED BY <2>2, <3>1 DEF Heard
  <2>5. Op(task[q], at[q]) # "in"
    BY <1>0, <1>1, InPlan
  <2>6. Added(q)'
    BY <2>1, <2>5 DEF Added
  <2> QED BY <2>4, <2>6
<1>2. CASE done'[q] = 0
  BY <1>2 DEF Heard, Added
<1> QED BY <1>0, <1>1, <1>2, Advances

\* What the message says that mp_recv finds.
LEMMA TakeLearns ==
  ASSUME Inv, MetInv, NEW q \in Rank, Take(q)
  PROVE  /\ Now(q).id.kind \in Upward => \A c \in Now(q).peers : Now(q).id \in met[c]
         /\ sum'[q] = IF Op(task[q], at[q]) = "in" THEN Ind(Sofar(q, done[q] + 1)) ELSE sum[q]
         /\ \A a \in Rank \ {q} : sum'[a] = sum[a]
         /\ met' = IF q = 0 THEN [met EXCEPT ![0] = @ \cup Completed(Now(q).id, Rest(0))] ELSE met
         /\ Op(task[q], at[q]) = "in" => done[q] + 1 <= Count(q)
<1>0. Typed /\ Placed(q) /\ Now(q).do = "recv" /\ done[q] \in Nat
  BY DEF Inv, Take, Works, Typed
<1>1. PICK p \in Now(q).peers :
        /\ Places(q, p) # {}
        /\ LET id == Now(q).id
               m == queue[q][Oldest(q, p)].msg IN
            /\ sum' = (IF id.kind = "in"
                       THEN [sum EXCEPT ![q] = Reduced(q, p, m.value)] ELSE sum)
            /\ met' = (IF q = 0 THEN [met EXCEPT ![0] = @ \cup Completed(id, Rest(0))]
                       ELSE met)
  BY DEF Take
<1> DEFINE m == queue[q][Oldest(q, p)].msg
           x == Now(q).id
           T == task[q]
           A == at[q]
<1>2. Waiting(p, q) /\ Coming(p, q) = m
  BY <1>1 DEF Waiting, Coming
<1>3. m.id = x /\ p \in Rank
  BY <1>0, <1>2, ComingIs
<1>4. InStream(p, q, m)
  <2>1. Oldest(q, p) \in Places(q, p)
    BY <1>0, <1>1, OldestIs
  <2> QED BY <2>1 DEF InStream
<1>5. /\ x.kind \in Upward => x \in met[p]
      /\ x.kind = "in" => m.value = Ind(Subtree(p))
  BY <1>3, <1>4 DEF MetInv, Learnt
<1>6. /\ KnownOp(Op(T, A), T, A) /\ done[q] + 1 \in Int
      /\ Act(Operation(Op(T, A), q, T, A), "recv", p, done[q] + 1, x)
  BY <1>0, NowActs, PlaceKnown DEF PlanOf
<1>7. \A c \in Now(q).peers : c = p
  <2>1. ASSUME NEW c \in Now(q).peers PROVE c = p
    <3>1. Act(Operation(Op(T, A), q, T, A), "recv", c, done[q] + 1, x)
      BY <1>0, NowActs DEF PlanOf
    <3> QED BY <1>6, <3>1, OneReceive
  <2> QED BY <2>1
<1>8. x.kind = "in" <=> Op(T, A) = "in"
  BY <1>6, PlanActs
<1>9. /\ sum' = (IF x.kind = "in" THEN [sum EXCEPT ![q] = Reduced(q, p, m.value)] ELSE sum)
      /\ met' = (IF q = 0 THEN [met EXCEPT ![0] = @ \cup Completed(Now(q).id, Rest(0))] ELSE met)
      /\ sum \in [Rank -> [Rank -> Nat]]
  BY <1>0, <1>1 DEF Typed
<1>10. Op(T, A) = "in" => done[q] + 1 <= Count(q) /\ p = q * Fan + (done[q] + 1)
  BY <1>0, InPlan
<1>11. ASSUME Op(T, A) = "in" PROVE Reduced(q, p, m.value) = Ind(Sofar(q, done[q] + 1))
  <2>1. m.value = Ind(Subtree(p)) /\ p = q * Fan + (done[q] + 1)
    BY <1>5, <1>8, <1>10, <1>11
  <2>2. /\ Sofar(q, done[q] + 1) = Sofar(q, done[q]) \cup Subtree(p)
        /\ Sofar(q, done[q]) \cap Subtree(p) = {}
    BY <1>0, <1>10, <1>11, SofarMore
  <2>3. Plus(Ind(Sofar(q, done[q])), m.value) = Ind(Sofar(q, done[q] + 1))
    BY <2>1, <2>2, IndPlus
  <2>4. CASE done[q] = 0
    <3>1. p = q * Fan + 1
      BY <2>1, <2>4
    <3>2. Ind(Sofar(q, done[q])) = Part(q)
      BY <2>4, SofarNone, IndType
    <3> QED BY <2>3, <3>1, <3>2 DEF Reduced
  <2>5. CASE done[q] # 0
    <3>1. p # q * Fan + 1
      <4>1. q * Fan \in Int
        BY FanAssumption DEF Rank
      <4> QED BY <1>0, <2>1, <2>5, <4>1
    <3>2. sum[q] = Ind(Sofar(q, done[q]))
      BY <1>0, <1>11, <2>5 DEF MetInv, Added
    <3> QED BY <2>3, <3>1, <3>2 DEF Reduced
  <2> QED BY <2>4, <2>5
<1>12. x.kind \in Upward => \A c \in Now(q).peers : x \in met[c]
  BY <1>5, <1>7
<1> HIDE DEF m
<1>13. sum'[q] = IF Op(T, A) = "in" THEN Ind(Sofar(q, done[q] + 1)) ELSE sum[q]
  BY <1>8, <1>9, <1>11
<1>14. \A a \in Rank \ {q} : sum'[a] = sum[a]
  BY <1>9
<1> QED BY <1>9, <1>10, <1>12, <1>13, <1>14

\* An upward operation that rank 0 completes has been reached by all its staff.
LEMMA TakeSpread ==
  ASSUME Inv, MetInv, Take(0), NEW x \in Completed(Now(0).id, Rest(0)), NEW c \in Staff(0)
  PROVE  x \in met[c]
<1> DEFINE T == task[0]
           A == at[0]
           a == PlanOf(0, T, A)
<1>0. 0 \in Rank /\ Typed /\ Placed(0) /\ Now(0).do = "recv" /\ c \in Rank
  BY RootHasStaff, StaffSubset DEF Inv, Take, Works
<1>1. x = Now(0).id /\ x.kind \in Upward /\ \A m \in Rest(0) : m.id # x
  BY DEF Completed, Upward
<1>2. /\ KnownOp(Op(T, A), T, A) /\ done[0] + 1 \in Int /\ done[0] \in Nat
      /\ Plan(0) = a /\ a \in Seq(Step)
  BY <1>0, PlaceKnown
<1>3. PICK p \in Now(0).peers : Act(a, "recv", p, done[0] + 1, x)
  BY <1>0, <1>1, NowActs, NowAlone
<1> HIDE DEF a
<1>4. \E j \in Int : Act(a, "recv", c, j, x)
  BY <1>0, <1>1, <1>2, <1>3, Collects DEF a, PlanOf
<1>5. PICK j \in Int : Act(a, "recv", c, j, x)
  BY <1>4
<1>6. DOMAIN a = 1 .. Len(a) /\ Len(a) \in Nat
  BY <1>2, LenProperties
<1>7. j \in 1 .. Len(a) /\ a[j].id = x /\ c \in a[j].peers
  BY <1>5, <1>6 DEF Act
<1>8. ~(j \in done[0] + 2 .. Len(a))
  <2>1. Rest(0) = {a[i] : i \in done[0] + 2 .. Len(a)}
    BY <1>2 DEF Rest
  <2> QED BY <1>1, <1>7, <2>1
<1>9. j \in 1 .. done[0] \/ j = done[0] + 1
  BY <1>2, <1>6, <1>7, <1>8
<1>10. CASE j \in 1 .. done[0]
  BY <1>0, <1>1, <1>5, <1>10 DEF MetInv, Heard, a
<1>11. CASE j = done[0] + 1
  <2>1. c \in Now(0).peers
    BY <1>0, <1>7, <1>11, PlaceKnown DEF a
  <2> QED BY <1>0, <1>1, <2>1, TakeLearns
<1> QED BY <1>9, <1>10, <1>11

LEMMA TakeMet ==
  ASSUME Inv, MetInv, NEW q \in Rank, Take(q)
  PROVE  MetInv'
<1>0. Typed /\ Placed(q) /\ done[q] \in Nat
  BY DEF Inv, Typed
<1>1. /\ Now(q).id.kind \in Upward => \A c \in Now(q).peers : Now(q).id \in met[c]
      /\ sum'[q] = IF Op(task[q], at[q]) = "in" THEN Ind(Sofar(q, done[q] + 1)) ELSE sum[q]
      /\ \A a \in Rank \ {q} : sum'[a] = sum[a]
      /\ met' = IF q = 0 THEN [met EXCEPT ![0] = @ \cup Completed(Now(q).id, Rest(0))] ELSE met
  BY TakeLearns
<1>2. given' = given /\ Advance(q) /\ task[q] <= Len(given)
  BY TakeIs
<1>3. met \in [Rank -> SUBSET Ids] /\ 0 \in Rank
  BY <1>0, RootHasStaff DEF Typed
<1>4. /\ \A c \in Rank : met[c] \subseteq met'[c]
      /\ \A c \in Rank \ {0} : met'[c] = met[c]
      /\ q = 0 => met'[0] = met[0] \cup Completed(Now(0).id, Rest(0))
      /\ q # 0 => met' = met
  BY <1>1, <1>3
<1>5. ASSUME NEW s \in Rank, NEW r \in Rank PROVE Learnt(s, r)'
  <2>1. \A m : InStream(s, r, m)' => InStream(s, r, m)
    BY TakeStream
  <2> QED BY <1>4, <2>1 DEF MetInv, Learnt
<1>6. ASSUME NEW a \in Rank PROVE Spread(a)'
  <2> SUFFICES ASSUME NEW id \in met'[a], NEW c \in Staff(a) PROVE id \in met'[c]
    BY DEF Spread
  <2>1. c \in Rank
    BY StaffSubset
  <2>2. CASE id \in met[a]
    BY <1>4, <2>1, <2>2 DEF MetInv, Spread
  <2>3. CASE id \notin met[a]
    <3>1. a = 0 /\ q = 0 /\ id \in Completed(Now(0).id, Rest(0))
      BY <1>4, <2>3
    <3> QED BY <1>4, <2>1, <3>1, TakeSpread
  <2> QED BY <2>2, <2>3
<1>7. ASSUME NEW a \in Rank PROVE sum'[a] \in [Rank -> {0, 1}]
  <2>1. CASE a = q
    BY <1>1, <2>1, IndType DEF MetInv
  <2>2. CASE a # q
    BY <1>1, <2>2 DEF MetInv
  <2> QED BY <2>1, <2>2
<1>8. ASSUME NEW a \in Rank PROVE Heard(a)' /\ Added(a)'
  <2>1. CASE a # q
    <3>1. task'[a] = task[a] /\ at'[a] = at[a] /\ done'[a] = done[a]
      BY <1>0, <1>2, <2>1, Advances
    <3>2. Op(task[a], at[a])' = Op(task[a], at[a])
      BY <1>2, <3>1 DEF Op
    <3> QED BY <1>1, <1>4, <2>1, <3>1, <3>2, StaysHere DEF MetInv
  <2>2. CASE a = q /\ done'[q] = 0
    BY <2>2 DEF Heard, Added
  <2>3. CASE a = q /\ task'[q] = task[q] /\ at'[q] = at[q] /\ done'[q] = done[q] + 1
    <3>1. Op(task[q], at[q])' = Op(task[q], at[q])
      BY <1>2, <2>3 DEF Op
    <3>2. PlanOf(q, task[q], at[q])' = PlanOf(q, task[q], at[q])
      BY <2>3, <3>1 DEF PlanOf
    <3>3. Added(q)'
      BY <1>1, <2>3, <3>1 DEF Added
    <3>4. Heard(q)'
      <4>1. ASSUME NEW i, NEW x, NEW c \in Rank, i \in 1 .. done'[q],
                   Act(PlanOf(q, task[q], at[q]), "recv", c, i, x), x.kind \in Upward
            PROVE  x \in met'[c]
        <5>1. i \in 1 .. done[q] \/ i = done[q] + 1
          BY <1>0, <2>3, <4>1
        <5>2. CASE i \in 1 .. done[q]
          BY <1>4, <4>1, <5>2 DEF MetInv, Heard
        <5>3. CASE i = done[q] + 1
          <6>1. c \in Now(q).peers /\ x = Now(q).id
            BY <1>0, <4>1, <5>3, CurrentIsNow DEF Current
          <6> QED BY <1>1, <1>4, <4>1, <6>1
        <5> QED BY <5>1, <5>2, <5>3
      <4> QED BY <3>2, <4>1 DEF Heard
    <3> QED BY <2>3, <3>3, <3>4
  <2> QED BY <1>0, <1>2, <2>1, <2>2, <2>3, Advances
<1> QED BY <1>5, <1>6, <1>7, <1>8 DEF MetInv

\* What a rank reports it has heard of from all its staff.
LEMMA SendLearns ==
  ASSUME Inv, MetInv, NEW q \in Rank, Send(q)
  PROVE  /\ Now(q).id.kind \in Upward => Now(q).do = "report"
         /\ Now(q).id.kind = "in" => Message(q).value = Ind(Subtree(q))
         /\ Now(q).do = "report" => q # 0 /\ \A c \in Staff(q) : Now(q).id \in met[c]
<1> DEFINE x == Now(q).id
           T == task[q]
           A == at[q]
           a == PlanOf(q, T, A)
<1>0. Typed /\ Placed(q) /\ Now(q).do \in Sending /\ Now(q).do # "recv" /\ done[q] \in Nat
  BY SendNet, SendingRuns DEF Typed
<1>1. KnownOp(Op(T, A), T, A) /\ done[q] + 1 \in Int
  BY <1>0, PlaceKnown
<1>2. PICK p \in Now(q).peers : Act(Operation(Op(T, A), q, T, A), Now(q).do, p, done[q] + 1, x)
  BY <1>0, NowActs, NowAlone DEF PlanOf
<1>3. /\ Now(q).do = "report" => x.kind \in Upward /\ q # 0
      /\ Now(q).do = "forward" => x.kind \in Downward
      /\ Now(q).do = "send" => x.kind = "ring"
      /\ x.kind = "in" <=> Op(T, A) = "in"
  <2> DEFINE op == Op(T, A)
             i == done[q] + 1
  <2>1. KnownOp(op, T, A) /\ i \in Int /\ Act(Operation(op, q, T, A), Now(q).do, p, i, x)
    BY <1>1, <1>2
  <2> HIDE DEF op, i, x, T, A
  <2>2. /\ Now(q).do = "report" => x.kind \in Upward /\ q # 0
        /\ Now(q).do = "forward" => x.kind \in Downward
        /\ Now(q).do = "send" => x.kind = "ring"
        /\ x.kind = "in" <=> op = "in"
    BY <2>1, PlanActs
  <2> QED BY <2>2 DEF op
<1>4. x.kind \in Upward => Now(q).do = "report"
  BY <1>0, <1>3 DEF Sending, Upward, Downward
<1>5. ASSUME x.kind = "in" PROVE Message(q).value = Ind(Subtree(q))
  <2>1. Op(T, A) = "in" /\ Now(q).do = "report"
    BY <1>3, <1>4, <1>5 DEF Upward
  <2>2. Message(q).value = IF Staff(q) = {} THEN Part(q) ELSE sum[q]
    BY <1>5, <2>1 DEF Message, Content
  <2>3. done[q] = Count(q)
    BY <1>0, <2>1, InPlan
  <2>4. CASE Staff(q) = {}
    <3>1. Count(q) = 0
      BY <2>4, StaffNumbered
    <3>2. Subtree(q) = {q}
      BY <3>1, SofarNone, SofarAll
    <3> QED BY <2>2, <2>4, <3>2, IndType
  <2>5. CASE Staff(q) # {}
    <3>1. Count(q) # 0 /\ Count(q) \in Nat
      BY <2>5, StaffNumbered
    <3>2. sum[q] = Ind(Sofar(q, Count(q)))
      BY <2>1, <2>3, <3>1 DEF MetInv, Added
    <3> QED BY <2>2, <2>5, <3>2, SofarAll
  <2> QED BY <2>4, <2>5
<1>6. ASSUME Now(q).do = "report", NEW c \in Staff(q) PROVE x \in met[c]
  <2>0. c \in Rank
    BY StaffSubset
  <2>1. x.kind \in Upward
    BY <1>3, <1>6
  <2>2. /\ \E j \in Int : Act(Operation(Op(T, A), q, T, A), "recv", c, j, x)
        /\ \A j \in Int : Act(Operation(Op(T, A), q, T, A), "recv", c, j, x) => j < done[q] + 1
    BY <1>1, <1>2, <1>6, <2>1, Collects
  <2>3. PICK j \in Int : Act(a, "recv", c, j, x)
    BY <2>2 DEF PlanOf
  <2>4. j < done[q] + 1
    BY <2>2, <2>3 DEF PlanOf
  <2>5. j >= 1
    <3>1. a \in Seq(Step)
      BY <1>0, PlaceKnown
    <3> QED BY <2>3, <3>1, LenProperties DEF Act
  <2>6. j \in 1 .. done[q]
    BY <1>0, <2>4, <2>5
  <2> QED BY <2>0, <2>1, <2>3, <2>6 DEF MetInv, Heard
<1> QED BY <1>3, <1>4, <1>5, <1>6

LEMMA SendMet ==
  ASSUME Inv, MetInv, NEW q \in Rank, Send(q)
  PROVE  MetInv'
<1>0. /\ Typed /\ Placed(q) /\ Now(q).do \in Sending /\ Now(q).do # "recv"
      /\ task[q] <= Len(given) /\ Message(q).id = Now(q).id
  BY SendNet, SendingRuns, MessageIs
<1>1. /\ given' = given /\ sum' = sum
      /\ met' = (IF Now(q).do = "report" THEN [met EXCEPT ![q] = @ \cup {Now(q).id}] ELSE met)
      /\ Advance(q) \/ place' = place
  BY DEF Send
<1>2. /\ \A c \in Rank : met[c] \subseteq met'[c]
      /\ \A c \in Rank \ {q} : met'[c] = met[c]
      /\ Now(q).do = "report" => met'[q] = met[q] \cup {Now(q).id}
      /\ Now(q).do # "report" => met' = met
  BY <1>0, <1>1 DEF Typed
<1>3. /\ Now(q).id.kind \in Upward => Now(q).do = "report"
      /\ Now(q).id.kind = "in" => Message(q).value = Ind(Subtree(q))
      /\ Now(q).do = "report" => q # 0 /\ \A c \in Staff(q) : Now(q).id \in met[c]
  BY SendLearns
<1>4. ASSUME NEW s \in Rank, NEW r \in Rank PROVE Learnt(s, r)'
  <2> SUFFICES ASSUME NEW m, InStream(s, r, m)'
               PROVE  /\ m.id.kind \in Upward => m.id \in met'[s]
                      /\ m.id.kind = "in" => m.value = Ind(Subtree(s))
    BY DEF Learnt, Ind, Subtree, Closed
  <2>1. CASE InStream(s, r, m)
    BY <1>2, <2>1 DEF MetInv, Learnt
  <2>2. CASE s = q /\ m = Message(q)
    BY <1>0, <1>2, <1>3, <2>2
  <2> QED BY <2>1, <2>2, SendStream
<1>5. ASSUME NEW a \in Rank PROVE Spread(a)'
  <2> SUFFICES ASSUME NEW id \in met'[a], NEW c \in Staff(a) PROVE id \in met'[c]
    BY DEF Spread
  <2>1. c \in Rank
    BY StaffSubset
  <2>2. CASE id \in met[a]
    BY <1>2, <2>1, <2>2 DEF MetInv, Spread
  <2>3. CASE id \notin met[a]
    BY <1>2, <1>3, <2>1, <2>3
  <2> QED BY <2>2, <2>3
<1>6. ASSUME NEW a \in Rank PROVE Heard(a)' /\ Added(a)'
  <2>1. CASE place' = place
    <3>1. task' = task /\ at' = at /\ done' = done
      BY <2>1 DEF place
    <3>2. Op(task[a], at[a])' = Op(task[a], at[a])
      BY <1>1, <3>1 DEF Op
    <3> QED BY <1>1, <1>2, <3>1, <3>2, StaysHere DEF MetInv
  <2>2. CASE Advance(q) /\ a = q
    BY <1>0, <1>1, <1>2, <2>2, AdvanceHere DEF MetInv
  <2>3. CASE Advance(q) /\ a # q
    <3>1. task'[a] = task[a] /\ at'[a] = at[a] /\ done'[a] = done[a]
      BY <1>0, <2>3, Advances
    <3>2. Op(task[a], at[a])' = Op(task[a], at[a])
      BY <1>1, <3>1 DEF Op
    <3> QED BY <1>1, <1>2, <3>1, <3>2, StaysHere DEF MetInv
  <2> QED BY <1>1, <2>1, <2>2, <2>3
<1> QED BY <1>1, <1>4, <1>5, <1>6 DEF MetInv

\* Steps that send, receive and report nothing.
LEMMA QuietMet ==
  ASSUME Inv, MetInv, given' = given, net' = net, queue' = queue, met' = met, sum' = sum,
         NEW q \in Rank,
         place' = place \/ (Advance(q) /\ task[q] <= Len(given) /\ Now(q).do # "recv")
  PROVE  MetInv'
<1>1. ASSUME NEW s \in Rank, NEW r \in Rank PROVE Learnt(s, r)'
  <2>1. \A m : InStream(s, r, m)' => InStream(s, r, m)
    BY DEF InStream, Places
  <2> QED BY <2>1 DEF MetInv, Learnt
<1>2. ASSUME NEW a \in Rank PROVE Spread(a)' /\ sum'[a] \in [Rank -> {0, 1}]
  BY DEF MetInv, Spread
<1>3. ASSUME NEW a \in Rank PROVE Heard(a)' /\ Added(a)'
  <2>0. Heard(a) /\ Added(a) /\ sum'[a] = sum[a] /\ \A c \in Rank : met[c] \subseteq met'[c]
    BY DEF MetInv
  <2>1. CASE Advance(q) /\ task[q] <= Len(given) /\ Now(q).do # "recv" /\ a = q
    BY <2>0, <2>1, AdvanceHere
  <2>2. ASSUME task'[a] = task[a], at'[a] = at[a], done'[a] = done[a]
        PROVE  Heard(a)' /\ Added(a)'
    <3>1. Op(task[a], at[a])' = Op(task[a], at[a])
      BY <2>2 DEF Op
    <3> QED BY <2>0, <2>2, <3>1, StaysHere
  <2>3. CASE Advance(q) /\ task[q] <= Len(given) /\ a # q
    BY <2>2, <2>3, Advances DEF Inv
  <2>4. CASE place' = place
    BY <2>2, <2>4 DEF place
  <2> QED BY <2>1, <2>3, <2>4
<1> QED BY <1>1, <1>2, <1>3 DEF MetInv

LEMMA GetMet ==
  ASSUME Inv, MetInv, NEW q \in Rank, NEW p \in Rank, Get(q, p)
  PROVE  MetInv'
<1>1. given' = given /\ place' = place /\ met' = met /\ sum' = sum
  BY DEF Get
<1>2. task' = task /\ at' = at /\ done' = done
  BY <1>1 DEF place
<1>3. ASSUME NEW s \in Rank, NEW r \in Rank PROVE Learnt(s, r)'
  <2>1. \A m : InStream(s, r, m)' => InStream(s, r, m)
    BY GetStream
  <2> QED BY <1>1, <2>1 DEF MetInv, Learnt
<1>4. ASSUME NEW a \in Rank PROVE Heard(a)' /\ Added(a)' /\ Spread(a)' /\ sum'[a] \in [Rank -> {0, 1}]
  <2>1. Op(task[a], at[a])' = Op(task[a], at[a])
    BY <1>1, <1>2 DEF Op
  <2>2. Spread(a)' /\ sum'[a] \in [Rank -> {0, 1}]
    BY <1>1 DEF MetInv, Spread
  <2> QED BY <1>1, <1>2, <2>1, <2>2, StaysHere DEF MetInv
<1> QED BY <1>3, <1>4 DEF MetInv

LEMMA ExecMet ==
  ASSUME Inv, MetInv, NEW command \in Programs, Exec(command)
  PROVE  MetInv'
<1>0. /\ Typed /\ 0 \in Rank /\ Idles(0) /\ task[0] = Len(given) + 1
      /\ net' = net /\ queue' = queue
      /\ Len(given) \in Nat
      /\ \A t \in 1 .. Len(given) : given'[t] = given[t]
      /\ task' = task /\ at' = at /\ done'[0] = 1
      /\ \A q \in Rank \ {0} : done'[q] = done[q]
  BY ExecIs
<1>1. met' = met /\ sum' = sum
  BY DEF Exec
<1>2. ASSUME NEW s \in Rank, NEW r \in Rank PROVE Learnt(s, r)'
  <2>1. \A m : InStream(s, r, m)' => InStream(s, r, m)
    BY <1>0 DEF InStream, Places
  <2> QED BY <1>1, <2>1 DEF MetInv, Learnt
<1>3. ASSUME NEW a \in Rank PROVE Op(task[a], at[a])' = Op(task[a], at[a])
  <2>1. CASE at[a] = 0
    BY <1>0, <2>1 DEF Op
  <2>2. CASE at[a] # 0
    <3>1. Placed(a) /\ Runs(a)
      BY <2>2 DEF Inv, Placed, Idles
    <3>2. task[a] \in Nat
      BY <1>0 DEF Typed
    <3>3. task[a] \in 1 .. Len(given)
      BY <1>0, <3>1, <3>2 DEF Placed, Runs
    <3> QED BY <1>0, <2>2, <3>3 DEF Op
  <2> QED BY <2>1, <2>2
<1>4. ASSUME NEW a \in Rank PROVE Heard(a)' /\ Added(a)'
  <2>1. CASE a # 0
    BY <1>0, <1>1, <1>3, <2>1, StaysHere DEF MetInv
  <2>2. CASE a = 0
    <3>1. at'[0] = 0 /\ Op(task[0], at[0])' = "exec"
      BY <1>0 DEF Idles, Op
    <3>2. Added(0)'
      BY <3>1 DEF Added
    <3>3. \A c, x : ~Act(PlanOf(0, task[0], at[0])', "recv", c, 1, x)
      <4>1. PlanOf(0, task[0], at[0])' = Operation("exec", 0, task[0], 0)
        BY <1>0, <3>1 DEF PlanOf
      <4>2. Operation("exec", 0, task[0], 0)[1].do = "exec"
        BY <1>0, FirstOfCommand DEF Typed
      <4> QED BY <4>1, <4>2 DEF Act
    <3>4. \A i : i \in 1 .. done'[0] => i = 1
      BY <1>0
    <3>5. Heard(0)'
      BY <3>3, <3>4 DEF Heard
    <3> QED BY <2>2, <3>2, <3>5
  <2> QED BY <2>1, <2>2
<1>5. ASSUME NEW a \in Rank PROVE Spread(a)' /\ sum'[a] \in [Rank -> {0, 1}]
  BY <1>1 DEF MetInv, Spread
<1> QED BY <1>2, <1>4, <1>5 DEF MetInv

LEMMA RecoverMet ==
  ASSUME Inv, MetInv, Recover
  PROVE  MetInv'
<1>1. /\ \A r, s \in Rank : net'[s][r] = <<>> /\ queue'[r] = <<>>
      /\ \A r \in Rank : done'[r] = 0
      /\ met' = met /\ sum' = sum
  BY DEF Recover, Rests
<1>2. ASSUME NEW s \in Rank, NEW r \in Rank PROVE Learnt(s, r)'
  <2>1. net'[s][r] = <<>> /\ queue'[r] = <<>>
    BY <1>1
  <2>2. \A m : ~InStream(s, r, m)'
    BY <2>1 DEF InStream, Places
  <2> QED BY <2>2 DEF Learnt
<1>3. ASSUME NEW a \in Rank PROVE Heard(a)' /\ Added(a)' /\ Spread(a)' /\ sum'[a] \in [Rank -> {0, 1}]
  <2>1. Heard(a)' /\ Added(a)'
    BY <1>1 DEF Heard, Added
  <2>2. Spread(a)' /\ sum'[a] \in [Rank -> {0, 1}]
    BY <1>1 DEF MetInv, Spread
  <2> QED BY <2>1, <2>2
<1> QED BY <1>2, <1>3 DEF MetInv

LEMMA InitMet == Init => MetInv
<1> SUFFICES ASSUME Init PROVE MetInv
  OBVIOUS
<1>1. /\ net = [s \in Rank |-> [r \in Rank |-> <<>>]] /\ queue = [r \in Rank |-> <<>>]
      /\ done = [r \in Rank |-> 0] /\ sum = [r \in Rank |-> Part(r)] /\ met = [r \in Rank |-> {}]
  BY DEF Init
<1>2. ASSUME NEW s \in Rank, NEW r \in Rank PROVE Learnt(s, r)
  <2>1. net[s][r] = <<>> /\ queue[r] = <<>>
    BY <1>1
  <2> QED BY <2>1 DEF Learnt, InStream, Places
<1>3. ASSUME NEW q \in Rank PROVE Heard(q) /\ Added(q) /\ Spread(q) /\ sum[q] \in [Rank -> {0, 1}]
  <2>1. done[q] = 0 /\ sum[q] = Part(q) /\ met[q] = {}
    BY <1>1
  <2>2. Heard(q) /\ Added(q) /\ Spread(q)
    BY <2>1 DEF Heard, Added, Spread
  <2>3. Part(q) \in [Rank -> {0, 1}]
    BY DEF Part
  <2> QED BY <2>1, <2>2, <2>3
<1> QED BY <1>2, <1>3 DEF MetInv

LEMMA NextMet == Inv /\ MetInv /\ [Next]_vars => MetInv'
<1> SUFFICES ASSUME Inv, MetInv, [Next]_vars PROVE MetInv'
  OBVIOUS
<1>1. ASSUME NEW r \in Rank, SendDone(r) PROVE MetInv'
  <2>1. Typed /\ Placed(r) /\ Now(r).do \in Sending
    BY <1>1 DEF SendDone, Inv, Placed
  <2>2. task[r] <= Len(given) /\ Now(r).do # "recv"
    BY <2>1, SendingRuns
  <2>3. Advance(r) /\ given' = given /\ net' = net /\ queue' = queue /\ met' = met /\ sum' = sum
    BY <1>1 DEF SendDone
  <2> QED BY <2>2, <2>3, QuietMet
<1>2. ASSUME NEW r \in Rank, Load(r) PROVE MetInv'
  <2>1. task[r] <= Len(given) /\ Now(r).do # "recv"
    BY <1>2, AloneRuns DEF Load, Works, Inv
  <2>2. /\ place' = place \/ Advance(r)
        /\ given' = given /\ net' = net /\ queue' = queue /\ met' = met /\ sum' = sum
    BY <1>2 DEF Load
  <2> QED BY <2>1, <2>2, QuietMet
<1>3. ASSUME NEW outcome \in Outcomes, Open(outcome) PROVE MetInv'
  <2>0. 0 \in Rank
    BY RootHasStaff
  <2>1. task[0] <= Len(given) /\ Now(0).do # "recv"
    BY <1>3, <2>0, AloneRuns DEF Open, Works, Inv
  <2>2. /\ place' = place \/ Advance(0)
        /\ given' = given /\ net' = net /\ queue' = queue /\ met' = met /\ sum' = sum
    BY <1>3 DEF Open
  <2> QED BY <2>0, <2>1, <2>2, QuietMet
<1>4. ASSUME UNCHANGED job PROVE MetInv'
  <2>1. place' = place /\ given' = given /\ net' = net /\ queue' = queue /\ met' = met /\ sum' = sum
    BY <1>4 DEF job
  <2> QED BY <2>1, RootHasStaff, QuietMet
<1>5. ASSUME JobStep PROVE MetInv'
  BY <1>1, <1>2, <1>3, <1>5, ExecMet, GetMet, TakeMet, SendMet, RecoverMet DEF JobStep, RankStep
<1> QED BY <1>4, <1>5, NextIs

\* What a message of mp_handin, or an acknowledgement of mpy_bcast, says of the
\* ranks below its sender is true.
THEOREM MetHolds == Spec => [](Inv /\ MetInv)
<1>1. Init => Inv /\ MetInv
  BY InitInv, InitMet
<1>2. Inv /\ MetInv /\ [Next]_vars => (Inv /\ MetInv)'
  BY NextInv, NextMet
<1> QED BY <1>1, <1>2, PTL DEF Spec

\* The types of the parallel tasks; no rank sends to itself, and no part is in
\* a sum twice.
THEOREM ExecTypeCorrect == Spec => []TypeOK
<1>1. ASSUME Inv, NEW r \in Rank, NEW m PROVE ~InStream(r, r, m)
  <2>1. ASSUME InStream(r, r, m) PROVE FALSE
    <3> DEFINE t == m.id.task
               k == m.id.at
    <3>1. Due(r, r, m)
      BY <1>1, <2>1 DEF Inv, Stream, AllDue
    <3>2. Given(t, k) /\ \E j \in Int : Act(PlanOf(r, t, k), "recv", r, j, m.id)
      BY <3>1 DEF Due
    <3>3. KnownOp(Op(t, k), t, k)
      BY <1>1, <3>2, GivenKnown DEF Inv, Typed
    <3> QED BY <3>2, <3>3, PlanActs DEF PlanOf
  <2> QED BY <2>1
<1>2. ASSUME Inv PROVE given \in Seq(Programs) /\ Len(given) <= MaxTasks
                       /\ waits \subseteq Rank /\ faulted \subseteq Rank
  BY <1>2 DEF Inv, Typed
<1>3. ASSUME Inv, NEW r \in Rank
      PROVE  /\ task[r] \in 1 .. Len(given) + 1 /\ at[r] \in Nat
             /\ done[r] \in 0 .. Len(Plan(r)) - 1
             /\ Now(r).peers \subseteq Rank \ {r}
  <2>1. Typed /\ Placed(r)
    BY <1>3 DEF Inv
  <2>2. done[r] \in Nat /\ at[r] \in Nat /\ Len(Plan(r)) \in Nat /\ done[r] + 1 \in 1 .. Len(Plan(r))
    BY <2>1, PlaceKnown
  <2>3. done[r] \in 0 .. Len(Plan(r)) - 1
    BY <2>2
  <2>4. Now(r).peers \subseteq Rank \ {r}
    BY <2>1, NowActs
  <2> QED BY <2>1, <2>2, <2>3, <2>4 DEF Placed
<1>4. ASSUME Inv, NEW r \in Rank, NEW k \in DOMAIN queue[r]
      PROVE  queue[r][k].from \in Rank \ {r}
  <2>1. queue[r][k].from \in Rank
    BY <1>4, EntryType DEF Inv
  <2>2. queue[r][k].from = r => InStream(r, r, queue[r][k].msg)
    BY <1>4 DEF InStream, Places
  <2> QED BY <1>1, <1>4, <2>1, <2>2
<1>5. ASSUME Inv, NEW r \in Rank PROVE net[r][r] = <<>>
  <2>1. ASSUME net[r][r] # <<>> PROVE FALSE
    <3>1. 1 \in DOMAIN net[r][r]
      BY <1>5, <2>1, NetType DEF Inv
    <3>2. InStream(r, r, net[r][r][1])
      BY <3>1 DEF InStream
    <3> QED BY <1>1, <1>5, <3>2
  <2> QED BY <2>1
<1>6. ASSUME Inv, MetInv PROVE sum \in [Rank -> [Rank -> {0, 1}]]
  <2>1. sum \in [Rank -> [Rank -> Nat]]
    BY <1>6 DEF Inv, Typed
  <2>2. \A q \in Rank : sum[q] \in [Rank -> {0, 1}]
    BY <1>6 DEF MetInv
  <2> QED BY <2>1, <2>2
<1>7. Inv /\ MetInv /\ aborted \in BOOLEAN => TypeOK
  BY <1>2, <1>3, <1>4, <1>5, <1>6 DEF TypeOK
<1>8. Spec => [](aborted \in BOOLEAN)
  <2>1. Init => aborted \in BOOLEAN
    BY DEF Init
  <2>2. aborted \in BOOLEAN /\ [Next]_vars => (aborted \in BOOLEAN)'
    BY DEF Next, Lives, Abort, vars
  <2> QED BY <2>1, <2>2, PTL DEF Spec
<1> QED BY <1>7, <1>8, MetHolds, PTL

\* An upward operation that rank 0 has completed has been reached by all its
\* staff, by theirs, and so on down the tree.
THEOREM SynchronizesCorrect == Spec => []Synchronizes
<1>1. ASSUME MetInv, NEW id \in met[0], NEW r \in Rank PROVE id \in met[r]
  <2> DEFINE S == {q \in Rank : id \in met[q]}
  <2>1. S \in SUBSET Rank /\ 0 \in S /\ 0 \in Rank
    BY RootHasStaff
  <2>2. Closed(S)
    BY <1>1, StaffSubset DEF Closed, MetInv, Spread
  <2>3. Rank \subseteq S
    BY <2>1, <2>2, SubtreeLeast, SubtreeRoot
  <2> QED BY <2>3
<1>2. MetInv => Synchronizes
  BY <1>1 DEF Synchronizes
<1> QED BY <1>2, MetHolds, PTL

\* When mp_handin returns on rank 0, rank 0 has added to its own part those of
\* the subtrees of its staff: each rank is in one of them.
THEOREM TotalRightCorrect == Spec => TotalRight
<1> DEFINE Total == \A id \in met'[0] \ met[0] : id.kind = "in" => sum'[0] = [r \in Rank |-> 1]
<1>1. ASSUME Inv, MetInv, Take(0), NEW id \in met'[0] \ met[0], id.kind = "in"
      PROVE  sum'[0] = [r \in Rank |-> 1]
  <2>0. 0 \in Rank /\ Typed /\ Placed(0) /\ met \in [Rank -> SUBSET Ids] /\ Now(0).do = "recv"
    BY <1>1, RootHasStaff DEF Inv, Typed, Take, Works
  <2>1. /\ sum'[0] = IF Op(task[0], at[0]) = "in" THEN Ind(Sofar(0, done[0] + 1)) ELSE sum[0]
        /\ met' = [met EXCEPT ![0] = @ \cup Completed(Now(0).id, Rest(0))]
        /\ Op(task[0], at[0]) = "in" => done[0] + 1 <= Count(0)
    BY <1>1, <2>0, TakeLearns
  <2>2. id \in Completed(Now(0).id, Rest(0))
    BY <1>1, <2>0, <2>1
  <2>3. id = Now(0).id /\ \A m \in Rest(0) : m.id # Now(0).id
    BY <2>2 DEF Completed
  <2>4. Op(task[0], at[0]) = "in"
    <3>1. PICK p \in Now(0).peers : TRUE
      BY <2>0, NowAlone
    <3>2. Act(Operation(Op(task[0], at[0]), 0, task[0], at[0]), "recv", p, done[0] + 1, id)
      BY <2>0, <2>3, NowActs DEF PlanOf
    <3>3. KnownOp(Op(task[0], at[0]), task[0], at[0]) /\ done[0] + 1 \in Int
      BY <2>0, PlaceKnown
    <3> QED BY <1>1, <2>0, <3>2, <3>3, PlanActs
  <2>5. /\ Len(PlanOf(0, task[0], at[0])) = Count(0) /\ Count(0) \in Nat
        /\ \A i \in 1 .. Count(0) : PlanOf(0, task[0], at[0])[i].id = Now(0).id
    BY <2>0, <2>4, InPlan
  <2>6. done[0] \in Nat /\ Plan(0) = PlanOf(0, task[0], at[0])
    BY <2>0, PlaceKnown
  <2>7. done[0] + 1 = Count(0)
    <3>1. ASSUME done[0] + 2 <= Count(0) PROVE FALSE
      <4>1. done[0] + 2 \in 1 .. Count(0) /\ done[0] + 2 \in done[0] + 2 .. Len(Plan(0))
        BY <2>5, <2>6, <3>1
      <4>2. Plan(0)[done[0] + 2] \in Rest(0)
        BY <4>1 DEF Rest
      <4> QED BY <2>3, <2>5, <2>6, <4>1, <4>2
    <3> QED BY <2>1, <2>4, <2>5, <2>6, <3>1
  <2>8. sum'[0] = Ind(Rank)
    BY <2>0, <2>1, <2>4, <2>7, SofarAll, SubtreeRoot
  <2> QED BY <2>8, IndType
<1>2. ASSUME Inv, MetInv, JobStep, ~Take(0) PROVE met'[0] = met[0]
  <2>0. met \in [Rank -> SUBSET Ids] /\ 0 \in Rank
    BY <1>2, RootHasStaff DEF Inv, Typed
  <2>1. ASSUME NEW q \in Rank, Take(q) PROVE met'[0] = met[0]
    <3>1. q # 0
      BY <1>2, <2>1
    <3> QED BY <1>2, <2>1, <3>1, TakeLearns
  <2>2. ASSUME NEW q \in Rank, Send(q) PROVE met'[0] = met[0]
    <3>1. Now(q).do = "report" => q # 0
      BY <1>2, <2>2, SendLearns
    <3>2. met' = (IF Now(q).do = "report" THEN [met EXCEPT ![q] = @ \cup {Now(q).id}] ELSE met)
      BY <2>2 DEF Send
    <3> QED BY <2>0, <3>1, <3>2
  <2> QED BY <1>2, <2>1, <2>2 DEF JobStep, RankStep, Exec, Get, SendDone, Load, Open, Recover
<1>3. ASSUME Inv, MetInv, [Next]_vars PROVE [Total]_vars
  <2>1. CASE UNCHANGED job
    BY <2>1 DEF job
  <2>2. CASE JobStep
    BY <1>1, <1>2, <1>3, <2>2
  <2> QED BY <1>3, <2>1, <2>2, NextIs
<1>4. Inv /\ MetInv /\ [Next]_vars => [Total]_vars
  BY <1>3
<1> QED BY <1>4, MetHolds, PTL DEF Spec, TotalRight
=============================================================================
