---------------------------- MODULE MpyHaltProofs ---------------------------
(***************************************************************************)
(* What the invariant of a round says of the recovery as a whole, for      *)
(* every size of the job, every fan-out and every bound: the count rank 0  *)
(* waits on is exact, nothing is left to clear when it passes id=5, every  *)
(* rank agrees on the fault rank, all is quiet when rank 0 returns, the    *)
(* recovery implements the halt of MpyHalt, and the one assertion of       *)
(* mpy_recover that can fail takes two faults.                             *)
(*                                                                         *)
(* MpyRecoverProofs shows of every step what it does to the phases, the    *)
(* edges of the tree and the fault rank.  What is left of the invariant    *)
(* are the sums: every data message sent and received is on the account    *)
(* of some rank, a report moves it from the account of its sender to that  *)
(* of the boss, and rank 0 has all of them in the end.                     *)
(***************************************************************************)
EXTENDS MpyRecoverProofs

-----------------------------------------------------------------------------
(* Data in transit: it is ahead of every control message.                  *)

DataIn(c) == {k \in DOMAIN c : c[k] = Data}
Prefix(c) == \A k \in DataIn(c) : \A j \in 1 .. k : j \in DataIn(c)

LEMMA DataTail ==
  ASSUME NEW c \in Seq(Message), c # << >>, Head(c) = Data, Prefix(c)
  PROVE  /\ Prefix(Tail(c))
         /\ \E n \in DataIn(c) : DataIn(Tail(c)) = DataIn(c) \ {n}
<1> DEFINE d == Tail(c)
           Gaps == {k \in Nat : k >= 1 /\ k + 1 \notin DataIn(c)}
<1>1. /\ Len(c) \in Nat /\ Len(c) >= 1 /\ DOMAIN c = 1 .. Len(c)
      /\ DOMAIN d = 1 .. Len(c) - 1
      /\ \A i \in 1 .. Len(c) - 1 : d[i] = c[i + 1]
      /\ c[1] = Data
  BY ChanType, ChanTail
<1>2. \A k \in Int : k \in DataIn(d) <=> (k >= 1 /\ k + 1 \in DataIn(c))
  <2> HIDE DEF d
  <2> QED BY <1>1 DEF DataIn
<1>3. DataIn(c) \subseteq 1 .. Len(c) /\ DataIn(d) \subseteq 1 .. Len(c) - 1
      /\ 1 \in DataIn(c)
  <2> HIDE DEF d
  <2> QED BY <1>1 DEF DataIn
<1> HIDE DEF d
<1>4. Prefix(d)
  <2> SUFFICES ASSUME NEW k \in DataIn(d), NEW j \in 1 .. k
               PROVE  j \in DataIn(d)
    BY DEF Prefix
  <2>1. k \in Int /\ k + 1 \in DataIn(c) /\ j + 1 \in 1 .. k + 1
    BY <1>1, <1>2, <1>3
  <2>2. j + 1 \in DataIn(c)
    BY <2>1 DEF Prefix
  <2> QED BY <1>2, <2>2
<1>5. Len(c) \in Gaps
  BY <1>1, <1>3
<1>6. PICK n \in Gaps : \A k \in Gaps : ~(k < n)
  <2> DEFINE R == OpToRel(<, Nat)
  <2>1. IsWellFoundedOn(R, Nat)
    BY NatLessThanWellFounded
  <2>2. Gaps # {} /\ Gaps \subseteq Nat
    BY <1>5
  <2>3. \A k, n \in Gaps : <<k, n>> \notin R => ~(k < n)
    BY DEF OpToRel
  <2> HIDE DEF R, Gaps
  <2>4. PICK n \in Gaps : \A k \in Gaps : <<k, n>> \notin R
    BY <2>1, <2>2, WFMin
  <2> QED BY <2>3, <2>4
<1>7. n \in Nat /\ n >= 1 /\ n + 1 \notin DataIn(c)
  OBVIOUS
<1>8. n \in DataIn(c)
  <2>1. CASE n = 1
    BY <1>3, <2>1
  <2>2. CASE n # 1
    <3>1. n - 1 \in Nat /\ n - 1 >= 1 /\ n - 1 < n /\ (n - 1) + 1 = n
      BY <1>7, <2>2
    <3>2. n - 1 \notin Gaps
      BY <1>6, <3>1
    <3> QED BY <3>1, <3>2
  <2> QED BY <2>1, <2>2
<1>9. \A k \in DataIn(c) : k <= n
  <2> SUFFICES ASSUME NEW k \in DataIn(c), ~(k <= n)
               PROVE  FALSE
    OBVIOUS
  <2>1. k \in Int /\ n + 1 \in 1 .. k
    BY <1>3, <1>7
  <2> QED BY <1>7, <2>1 DEF Prefix
<1>10. ASSUME NEW k
       PROVE  k \in DataIn(d) <=> k \in DataIn(c) /\ k # n
  <2>1. ASSUME k \in DataIn(d)
        PROVE  k \in DataIn(c) /\ k # n
    <3>1. k \in Int /\ k >= 1 /\ k + 1 \in DataIn(c)
      BY <1>1, <1>2, <1>3, <2>1
    <3>2. k \in 1 .. k + 1
      BY <3>1
    <3> QED BY <1>7, <3>1, <3>2 DEF Prefix
  <2>2. ASSUME k \in DataIn(c), k # n
        PROVE  k \in DataIn(d)
    <3>1. k \in Int /\ k >= 1 /\ k + 1 <= n
      BY <1>1, <1>3, <1>7, <1>9, <2>2
    <3>2. k + 1 \in 1 .. n
      BY <1>7, <3>1
    <3>3. k + 1 \in DataIn(c)
      BY <1>8, <3>2 DEF Prefix
    <3> QED BY <1>2, <3>1, <3>3
  <2> QED BY <2>1, <2>2
<1>11. DataIn(d) = DataIn(c) \ {n}
  BY <1>10
<1> QED BY <1>4, <1>8, <1>11 DEF d

LEMMA DataTailControl ==
  ASSUME NEW c \in Seq(Message), c # << >>, Head(c) # Data, Prefix(c)
  PROVE  Prefix(Tail(c)) /\ DataIn(Tail(c)) = DataIn(c)
<1> DEFINE d == Tail(c)
<1>1. /\ Len(c) \in Nat /\ Len(c) >= 1 /\ DOMAIN c = 1 .. Len(c)
      /\ DOMAIN d = 1 .. Len(c) - 1
      /\ \A i \in 1 .. Len(c) - 1 : d[i] = c[i + 1]
      /\ c[1] # Data
  BY ChanType, ChanTail
<1> HIDE DEF d
<1>2. DataIn(c) = {}
  <2> SUFFICES ASSUME NEW k \in DataIn(c)
               PROVE  FALSE
    OBVIOUS
  <2>1. 1 \in 1 .. k
    BY <1>1 DEF DataIn
  <2> QED BY <1>1, <2>1 DEF Prefix, DataIn
<1>3. DataIn(d) = {}
  <2> SUFFICES ASSUME NEW k \in DataIn(d)
               PROVE  FALSE
    OBVIOUS
  <2>1. k + 1 \in DataIn(c)
    BY <1>1 DEF DataIn
  <2> QED BY <1>2, <2>1
<1> QED BY <1>2, <1>3 DEF Prefix, d

LEMMA DataRemoved ==
  ASSUME NEW c \in Seq(Message), NEW i \in DOMAIN c, c[i] # Data,
         \A j \in 1 .. i - 1 : c[j] = Data, Prefix(c)
  PROVE  Prefix(RemoveAt(c, i)) /\ DataIn(RemoveAt(c, i)) = DataIn(c)
<1> DEFINE d == RemoveAt(c, i)
<1>1. /\ Len(c) \in Nat /\ DOMAIN c = 1 .. Len(c) /\ i \in 1 .. Len(c)
      /\ DOMAIN d = 1 .. Len(c) - 1
      /\ \A k \in 1 .. Len(c) - 1 : d[k] = IF k < i THEN c[k] ELSE c[k + 1]
  <2>1. Len(c) \in Nat /\ DOMAIN c = 1 .. Len(c)
    BY ChanType
  <2>2. /\ d \in Seq(Message) /\ Len(d) = Len(c) - 1
        /\ \A k \in 1 .. Len(c) - 1 : d[k] = IF k < i THEN c[k] ELSE c[k + 1]
    BY <2>1, RemoveAtProperties
  <2> HIDE DEF d
  <2> QED BY <2>1, <2>2, ChanType
<1> HIDE DEF d
<1>2. \A k \in DataIn(c) : k \in 1 .. Len(c) /\ k < i
  <2> SUFFICES ASSUME NEW k \in DataIn(c), ~(k < i)
               PROVE  FALSE
    BY <1>1 DEF DataIn
  <2>1. i \in 1 .. k
    BY <1>1 DEF DataIn
  <2> QED BY <2>1 DEF Prefix, DataIn
<1>3. ASSUME NEW k \in DataIn(d)
      PROVE  k \in DataIn(c)
  <2>1. k \in 1 .. Len(c) - 1 /\ d[k] = Data
    BY <1>1 DEF DataIn
  <2>2. CASE k < i
    BY <1>1, <2>1, <2>2 DEF DataIn
  <2>3. CASE ~(k < i)
    <3>1. k + 1 \in DataIn(c) /\ ~(k + 1 < i)
      BY <1>1, <2>1, <2>3 DEF DataIn
    <3> QED BY <1>2, <3>1
  <2> QED BY <2>2, <2>3
<1>4. ASSUME NEW k \in DataIn(c)
      PROVE  k \in DataIn(d)
  BY <1>1, <1>2 DEF DataIn
<1>5. DataIn(d) = DataIn(c)
  BY <1>3, <1>4
<1> QED BY <1>5 DEF Prefix, d

LEMMA DataAppended ==
  ASSUME NEW c \in Seq(Message), NEW m \in Message, Prefix(c)
  PROVE  /\ m # Data => /\ DataIn(Append(c, m)) = DataIn(c)
                        /\ Prefix(Append(c, m))
         /\ m = Data /\ Plain(c) =>
              /\ DataIn(Append(c, m)) = DataIn(c) \cup {Len(c) + 1}
              /\ Len(c) + 1 \notin DataIn(c)
              /\ Len(c) = 0 \/ Len(c) \in DataIn(c)
              /\ Prefix(Append(c, m))
<1> DEFINE d == Append(c, m)
           n == Len(c) + 1
<1>1. /\ Len(c) \in Nat /\ DOMAIN c = 1 .. Len(c) /\ DOMAIN d = 1 .. n
      /\ \A i \in DOMAIN c : d[i] = c[i]
      /\ d[n] = m
  BY ChanType, ChanAppend
<1> HIDE DEF d
<1>2. CASE m # Data
  <2>1. DataIn(d) = DataIn(c)
    BY <1>1, <1>2 DEF DataIn
  <2> QED BY <1>2, <2>1 DEF Prefix, d
<1>3. CASE m = Data
  <2>1. DataIn(d) = DataIn(c) \cup {n} /\ n \notin DataIn(c)
    BY <1>1, <1>3 DEF DataIn
  <2>2. Plain(c) => DataIn(c) = 1 .. Len(c)
    BY <1>1 DEF Plain, DataIn
  <2>3. ASSUME Plain(c)
        PROVE  Prefix(d)
    <3>1. DataIn(d) = 1 .. n
      BY <1>1, <2>1, <2>2, <2>3
    <3> QED BY <1>1, <3>1 DEF Prefix
  <2>4. Plain(c) => Len(c) = 0 \/ Len(c) \in DataIn(c)
    BY <1>1, <2>2
  <2> QED BY <1>3, <2>1, <2>3, <2>4 DEF d
<1> QED BY <1>2, <1>3
-----------------------------------------------------------------------------
TransitOf(ch) ==
  {t \in Rank \X Rank \X (1 .. MaxSends) : t[3] \in DataIn(ch[t[1]][t[2]])}

Ahead(ch, n) ==
  n <= MaxSends /\ \A q, r \in Rank : Prefix(ch[q][r]) /\ DataIn(ch[q][r]) \subseteq 1 .. n

LEMMA TransitIs == InTransit = TransitOf(chan) /\ InTransit' = TransitOf(chan')
BY DEF InTransit, TransitOf, DataIn

LEMMA AheadOf ==
  ASSUME NEW ch \in [Rank -> [Rank -> Seq(Message)]], NEW n \in Nat
  PROVE  (/\ n <= MaxSends
          /\ \A q, r \in Rank : \A i \in DOMAIN ch[q][r] :
               ch[q][r][i] = Data => i <= n /\ \A j \in 1 .. i : ch[q][r][j] = Data)
         <=> Ahead(ch, n)
<1>1. ASSUME NEW c \in Seq(Message)
      PROVE  (\A i \in DOMAIN c :
                c[i] = Data => i <= n /\ \A j \in 1 .. i : c[j] = Data)
             <=> Prefix(c) /\ DataIn(c) \subseteq 1 .. n
  <2>1. DOMAIN c = 1 .. Len(c) /\ Len(c) \in Nat
    BY ChanType
  <2>2. ASSUME \A i \in DOMAIN c :
                 c[i] = Data => i <= n /\ \A j \in 1 .. i : c[j] = Data
        PROVE  Prefix(c) /\ DataIn(c) \subseteq 1 .. n
    BY <2>1, <2>2 DEF Prefix, DataIn
  <2>3. ASSUME Prefix(c), DataIn(c) \subseteq 1 .. n, NEW i \in DOMAIN c,
               c[i] = Data
        PROVE  i <= n /\ \A j \in 1 .. i : c[j] = Data
    <3>1. i \in DataIn(c)
      BY <2>3 DEF DataIn
    <3>2. \A j \in 1 .. i : j \in DataIn(c)
      BY <2>3, <3>1 DEF Prefix
    <3> QED BY <2>3, <3>1, <3>2 DEF DataIn
  <2> QED BY <2>2, <2>3
<1>2. \A q, r \in Rank : ch[q][r] \in Seq(Message)
  OBVIOUS
<1> QED BY <1>1, <1>2 DEF Ahead

LEMMA AheadIs ==
  /\ TypeOK => (DataInv <=> Ahead(chan, sends))
  /\ TypeOK' => (DataInv' <=> Ahead(chan', sends'))
<1>1. TypeOK => (DataInv <=> Ahead(chan, sends))
  BY AheadOf DEF TypeOK, DataInv
<1>2. TypeOK' => (DataInv' <=> Ahead(chan', sends'))
  BY AheadOf DEF TypeOK, DataInv
<1> QED BY <1>1, <1>2

LEMMA TransitType ==
  ASSUME NEW ch
  PROVE  /\ IsFiniteSet(TransitOf(ch)) /\ Cardinality(TransitOf(ch)) \in Nat
<1> DEFINE P == (Rank \X Rank) \X (1 .. MaxSends)
           T == TransitOf(ch)
           f == [t \in T |-> << <<t[1], t[2]>>, t[3] >>]
<1>1. IsFiniteSet(P)
  <2>1. IsFiniteSet(Rank)
    BY RankFinite
  <2>2. IsFiniteSet(1 .. MaxSends)
    BY BoundsAssumption, FS_Interval
  <2> QED BY <2>1, <2>2, FS_Product
<1>2. f \in Injection(T, P)
  <2>1. f \in [T -> P]
    BY DEF TransitOf
  <2>2. ASSUME NEW a \in T, NEW b \in T, f[a] = f[b]
        PROVE  a = b
    <3>1. a = <<a[1], a[2], a[3]>> /\ b = <<b[1], b[2], b[3]>>
      BY DEF TransitOf
    <3>2. a[1] = b[1] /\ a[2] = b[2] /\ a[3] = b[3]
      BY <2>2
    <3> QED BY <3>1, <3>2
  <2> QED BY <2>1, <2>2 DEF Injection, IsInjective
<1> HIDE DEF f, P, T
<1>3. IsFiniteSet(T)
  BY <1>1, <1>2, FS_Injection
<1> QED BY <1>3, FS_CardinalityType DEF T

LEMMA TransitMember ==
  ASSUME NEW ch, NEW n \in Nat, Ahead(ch, n), NEW q \in Rank, NEW r \in Rank, NEW k
  PROVE  <<q, r, k>> \in TransitOf(ch) <=> k \in DataIn(ch[q][r])
<1>1. DataIn(ch[q][r]) \subseteq 1 .. MaxSends
  BY BoundsAssumption DEF Ahead
<1> QED BY <1>1 DEF TransitOf

\* A receipt, or a control message, in the channel from p to t.
LEMMA TransitOne ==
  ASSUME NEW ch, NEW ch2, NEW n \in Nat, Ahead(ch, n), NEW p \in Rank, NEW t \in Rank,
         \A q, r \in Rank : q # p \/ r # t => ch2[q][r] = ch[q][r],
         Prefix(ch2[p][t])
  PROVE  /\ DataIn(ch2[p][t]) = DataIn(ch[p][t]) =>
              Ahead(ch2, n) /\ TransitOf(ch2) = TransitOf(ch)
         /\ (\E k \in DataIn(ch[p][t]) : DataIn(ch2[p][t]) = DataIn(ch[p][t]) \ {k}) =>
              /\ Ahead(ch2, n)
              /\ Cardinality(TransitOf(ch2)) = Cardinality(TransitOf(ch)) - 1
              /\ Cardinality(TransitOf(ch)) >= 1
<1>1. CASE DataIn(ch2[p][t]) = DataIn(ch[p][t])
  <2>1. \A q, r \in Rank : DataIn(ch2[q][r]) = DataIn(ch[q][r])
    BY <1>1
  <2>2. Ahead(ch2, n)
    BY <1>1 DEF Ahead
  <2>3. TransitOf(ch2) = TransitOf(ch)
    BY <2>1 DEF TransitOf
  <2> QED BY <1>1, <2>2, <2>3
<1>2. ASSUME NEW k \in DataIn(ch[p][t]),
             DataIn(ch2[p][t]) = DataIn(ch[p][t]) \ {k}
      PROVE  /\ Ahead(ch2, n)
             /\ Cardinality(TransitOf(ch2)) = Cardinality(TransitOf(ch)) - 1
             /\ Cardinality(TransitOf(ch)) >= 1
  <2>1. Ahead(ch2, n)
    <3> SUFFICES ASSUME NEW q \in Rank, NEW r \in Rank
                 PROVE  Prefix(ch2[q][r]) /\ DataIn(ch2[q][r]) \subseteq 1 .. n
      BY DEF Ahead
    <3>1. Prefix(ch[q][r]) /\ DataIn(ch[q][r]) \subseteq 1 .. n
      BY DEF Ahead
    <3>2. CASE q = p /\ r = t
      BY <1>2, <3>1, <3>2
    <3>3. CASE q # p \/ r # t
      BY <3>1, <3>3
    <3> QED BY <3>2, <3>3
  <2> DEFINE x == <<p, t, k>>
  <2>2. x \in TransitOf(ch)
    BY TransitMember
  <2>3. TransitOf(ch2) = TransitOf(ch) \ {x}
    <3>1. ASSUME NEW q \in Rank, NEW r \in Rank, NEW i \in 1 .. MaxSends
          PROVE  <<q, r, i>> \in TransitOf(ch2) <=>
                   <<q, r, i>> \in TransitOf(ch) /\ <<q, r, i>> # x
      <4>1. /\ <<q, r, i>> \in TransitOf(ch2) <=> i \in DataIn(ch2[q][r])
            /\ <<q, r, i>> \in TransitOf(ch) <=> i \in DataIn(ch[q][r])
        BY <2>1, TransitMember
      <4>2. CASE q = p /\ r = t
        BY <1>2, <4>1, <4>2
      <4>3. CASE q # p \/ r # t
        BY <4>1, <4>3
      <4> QED BY <4>2, <4>3
    <3>2. \A z \in TransitOf(ch) \cup TransitOf(ch2) :
            \E q, r \in Rank : \E i \in 1 .. MaxSends : z = <<q, r, i>>
      BY DEF TransitOf
    <3> HIDE DEF x
    <3> QED BY <3>1, <3>2
  <2> DEFINE T == TransitOf(ch)
  <2>4. IsFiniteSet(T) /\ Cardinality(T) \in Nat /\ x \in T
    BY <2>2, TransitType
  <2>5. Cardinality(T \ {x}) \in Nat
    BY <2>3, TransitType
  <2> HIDE DEF x, T
  <2>6. Cardinality(T \ {x}) = Cardinality(T) - 1
    BY <2>4, FS_RemoveElement
  <2>7. Cardinality(T) >= 1
    BY <2>4, <2>5, <2>6
  <2> QED BY <2>1, <2>3, <2>6, <2>7 DEF T
<1> QED BY <1>1, <1>2

LEMMA TransitSent ==
  ASSUME NEW ch, NEW ch2, NEW n \in Nat, Ahead(ch, n), NEW r \in Rank,
         NEW D \in SUBSET Rank, n + Cardinality(D) <= MaxSends,
         \A q \in D : ch[r][q] \in Seq(Message) /\ Plain(ch[r][q]),
         \A p, q \in Rank :
           ch2[p][q] = IF p = r /\ q \in D THEN Append(ch[r][q], Data) ELSE ch[p][q]
  PROVE  /\ Ahead(ch2, n + Cardinality(D))
         /\ Cardinality(TransitOf(ch2)) = Cardinality(TransitOf(ch)) + Cardinality(D)
<1> DEFINE k == Cardinality(D)
           Next1(q) == Len(ch[r][q]) + 1
           N == {<<r, q, Next1(q)>> : q \in D}
<1>0. IsFiniteSet(D) /\ k \in Nat /\ (k = 0 <=> D = {})
  BY RankFinite, FS_Subset, FS_CardinalityType, FS_EmptySet
<1>1. ASSUME NEW q \in D
      PROVE  /\ DataIn(ch2[r][q]) = DataIn(ch[r][q]) \cup {Next1(q)}
             /\ Next1(q) \notin DataIn(ch[r][q])
             /\ Prefix(ch2[r][q]) /\ Next1(q) \in 1 .. n + 1
  <2>1. /\ ch[r][q] \in Seq(Message) /\ Plain(ch[r][q]) /\ Prefix(ch[r][q])
        /\ ch2[r][q] = Append(ch[r][q], Data) /\ DataIn(ch[r][q]) \subseteq 1 .. n
    BY DEF Ahead
  <2>2. Len(ch[r][q]) \in Nat
    BY <2>1, ChanType
  <2> QED BY <2>1, <2>2, DataAppended, DataType
<1>2. ASSUME NEW p \in Rank, NEW q \in Rank, ~(p = r /\ q \in D)
      PROVE  ch2[p][q] = ch[p][q]
  BY <1>2
<1> HIDE DEF Next1
<1>3. Ahead(ch2, n + k)
  <2> SUFFICES ASSUME NEW p \in Rank, NEW q \in Rank
               PROVE  Prefix(ch2[p][q]) /\ DataIn(ch2[p][q]) \subseteq 1 .. n + k
    BY DEF Ahead
  <2>1. Prefix(ch[p][q]) /\ DataIn(ch[p][q]) \subseteq 1 .. n
    BY DEF Ahead
  <2>2. CASE p = r /\ q \in D
    <3>1. k >= 1
      BY <1>0, <2>2
    <3> HIDE DEF k
    <3>2. DataIn(ch2[p][q]) = DataIn(ch[p][q]) \cup {Next1(q)}
          /\ Prefix(ch2[p][q]) /\ Next1(q) \in 1 .. n + 1
      BY <1>1, <2>2
    <3> QED BY <1>0, <2>1, <3>1, <3>2
  <2>3. CASE ~(p = r /\ q \in D)
    <3> HIDE DEF k
    <3> QED BY <1>0, <1>2, <2>1, <2>3
  <2> QED BY <2>2, <2>3
<1>4. TransitOf(ch2) = TransitOf(ch) \cup N
  <2>1. ASSUME NEW p \in Rank, NEW q \in Rank, NEW i
        PROVE  <<p, q, i>> \in TransitOf(ch2) <=>
                 <<p, q, i>> \in TransitOf(ch) \/ <<p, q, i>> \in N
    <3>1. /\ <<p, q, i>> \in TransitOf(ch2) <=> i \in DataIn(ch2[p][q])
          /\ <<p, q, i>> \in TransitOf(ch) <=> i \in DataIn(ch[p][q])
      <4>1. n + k \in Nat
        BY <1>0
      <4> HIDE DEF k
      <4> QED BY <1>3, <4>1, TransitMember
    <3>2. <<p, q, i>> \in N <=> p = r /\ q \in D /\ i = Next1(q)
      OBVIOUS
    <3>3. CASE p = r /\ q \in D
      BY <1>1, <3>1, <3>2, <3>3
    <3>4. CASE ~(p = r /\ q \in D)
      BY <1>2, <3>1, <3>2, <3>4
    <3> QED BY <3>3, <3>4
  <2>2. \A z \in TransitOf(ch2) \cup TransitOf(ch) \cup N :
          \E p, q \in Rank : \E i : z = <<p, q, i>>
    <3>1. \A z \in TransitOf(ch2) \cup TransitOf(ch) :
            \E p, q \in Rank : \E i : z = <<p, q, i>>
      BY DEF TransitOf
    <3>2. \A z \in N : \E p, q \in Rank : \E i : z = <<p, q, i>>
      OBVIOUS
    <3> QED BY <3>1, <3>2
  <2> HIDE DEF N
  <2> QED BY <2>1, <2>2
<1>5. TransitOf(ch) \cap N = {}
  <2> SUFFICES ASSUME NEW q \in D, <<r, q, Next1(q)>> \in TransitOf(ch)
               PROVE  FALSE
    OBVIOUS
  <2> QED BY <1>1, TransitMember
<1>6. IsFiniteSet(N) /\ Cardinality(N) = k
  <2> DEFINE f == [q \in D |-> <<r, q, Next1(q)>>]
  <2>1. f \in Bijection(D, N)
    BY DEF Bijection, Injection, Surjection, IsInjective
  <2> HIDE DEF f
  <2> QED BY <1>0, <2>1, FS_Bijection DEF ExistsBijection
<1> HIDE DEF N, k
<1>7. Cardinality(TransitOf(ch) \cap N) = 0
  BY <1>5, FS_EmptySet
<1>8. Cardinality(TransitOf(ch2)) = Cardinality(TransitOf(ch)) + k
  <2> DEFINE T == TransitOf(ch)
  <2>1. IsFiniteSet(T) /\ Cardinality(T) \in Nat
    BY TransitType
  <2> HIDE DEF T
  <2>2. Cardinality(T \cup N) = Cardinality(T) + Cardinality(N) - Cardinality(T \cap N)
    BY <1>6, <2>1, FS_Union
  <2> QED BY <1>0, <1>4, <1>6, <1>7, <2>1, <2>2 DEF T
<1> QED BY <1>3, <1>8 DEF k

\* Data is sent on empty channels, or behind other data.
LEMMA OutPlain ==
  ASSUME FlowInv, EdgeInv, WaveInv, NEW r \in Rank, NEW D \in SUBSET Rank,
         DoSend(r, D), NEW q \in Rank
  PROVE  Plain(chan[r][q])
<1>1. phase[r] \in {"task", "idle"} /\ (r # 0 /\ phase[r] = "idle" => mpyQueue[r] # << >>)
  BY DEF DoSend
<1>2. CASE q \in Staff(r)
  <2>1. q # 0 /\ r = Boss(q) /\ EdgeOf(q, r)
    BY <1>2, StaffInvertsBoss DEF EdgeInv
  <2> QED BY <1>1, <2>1 DEF EdgeOf, Apart, Told, Aware, Reporting, Counting,
                            Clearing, Quiescing
<1>3. CASE r \in Staff(q)
  <2>1. r # 0 /\ q = Boss(r) /\ EdgeOf(r, q)
    BY <1>3, StaffInvertsBoss DEF EdgeInv
  <2>2. ~Clearing(r, q)
    <3> SUFFICES ASSUME Clearing(r, q)
                 PROVE  FALSE
      OBVIOUS
    <3>1. phase[q] = "ack" /\ phase[r] = "idle"
      BY <1>1 DEF Clearing, Quiescing
    <3>2. phase[0] = "ack"
      BY <3>1, RootAck
    <3>3. mpyQueue[r] = << >>
      BY <3>2 DEF WaveInv
    <3> QED BY <1>1, <2>1, <3>1, <3>3
  <2> QED BY <1>1, <2>1, <2>2 DEF EdgeOf, Apart, Told, Aware, Reporting, Counting,
                            Quiescing, Silent, Outside
<1>4. CASE q \notin Staff(r) /\ r \notin Staff(q)
  <2>1. chan[r][q] \in Seq(OnEdge(r, q))
    BY DEF FlowInv, ControlFollowsTree
  <2>2. OnEdge(r, q) \subseteq {Data}
    BY <1>4 DEF OnEdge
  <2>3. \A i \in 1 .. Len(chan[r][q]) : chan[r][q][i] = Data
    BY <2>1, <2>2, ElementOfSeq
  <2>4. DOMAIN chan[r][q] = 1 .. Len(chan[r][q])
    BY <2>1, LenProperties
  <2> QED BY <2>3, <2>4 DEF Plain
<1> QED BY <1>2, <1>3, <1>4

\* What a step does to the data in transit.
LEMMA TransitSends ==
  ASSUME FlowInv, TypeOK', EdgeInv, WaveInv, DataInv, NEW r \in Rank,
         NEW D \in SUBSET Rank, DoSend(r, D)
  PROVE  /\ DataInv'
         /\ Cardinality(InTransit') = Cardinality(InTransit) + Cardinality(D)
<1>1. TypeOK /\ Ahead(chan, sends) /\ sends \in Nat
  BY AheadIs DEF FlowInv, TypeOK
<1>2. \A p, q \in Rank :
        chan'[p][q] = IF p = r /\ q \in D THEN Append(chan[r][q], Data) ELSE chan[p][q]
  BY <1>1, SentAt DEF DoSend
<1>3. \A q \in D : chan[r][q] \in Seq(Message) /\ Plain(chan[r][q])
  <2>1. \A q \in D : chan[r][q] \in Seq(Message)
    BY <1>1 DEF TypeOK
  <2> QED BY <2>1, OutPlain
<1>4. sends' = sends + Cardinality(D) /\ sends' <= MaxSends
  BY DEF DoSend
<1>5. /\ Ahead(chan', sends')
      /\ Cardinality(TransitOf(chan')) = Cardinality(TransitOf(chan)) + Cardinality(D)
  BY <1>1, <1>2, <1>3, <1>4, TransitSent
<1> QED BY <1>5, AheadIs, TransitIs

LEMMA TransitTakes ==
  ASSUME FlowInv, TypeOK', DataInv, NEW r \in Rank, NEW q \in Rank,
         sends' = sends
  PROVE  /\ TakesData(r, q) =>
              /\ DataInv' /\ Cardinality(InTransit') = Cardinality(InTransit) - 1
              /\ Cardinality(InTransit) >= 1
         /\ (\E m : Takes(r, q, m)) => DataInv' /\ InTransit' = InTransit
<1>0. TypeOK /\ Ahead(chan, sends) /\ sends \in Nat
  BY AheadIs DEF FlowInv, TypeOK
<1>1. chan[q][r] \in Seq(Message) /\ Prefix(chan[q][r])
  BY <1>0 DEF TypeOK, Ahead
<1>2. ASSUME TakesData(r, q)
      PROVE  /\ DataInv' /\ Cardinality(InTransit') = Cardinality(InTransit) - 1
             /\ Cardinality(InTransit) >= 1
  <2>1. /\ Prefix(chan'[q][r])
        /\ \E k \in DataIn(chan[q][r]) :
             DataIn(chan'[q][r]) = DataIn(chan[q][r]) \ {k}
    BY <1>1, <1>2, DataTail DEF TakesData
  <2>2. \A p, s \in Rank : p # q \/ s # r => chan'[p][s] = chan[p][s]
    BY <1>2 DEF TakesData, Others
  <2>3. /\ Ahead(chan', sends)
        /\ Cardinality(TransitOf(chan')) = Cardinality(TransitOf(chan)) - 1
        /\ Cardinality(TransitOf(chan)) >= 1
    BY <1>0, <2>1, <2>2, TransitOne
  <2> QED BY <2>3, AheadIs, TransitIs
<1>3. ASSUME NEW m, Takes(r, q, m)
      PROVE  DataInv' /\ InTransit' = InTransit
  <2>1. Prefix(chan'[q][r]) /\ DataIn(chan'[q][r]) = DataIn(chan[q][r])
    <3>1. CASE TakesHead(r, q, m)
      BY <1>1, <1>3, <3>1, DataTailControl DEF Takes, TakesHead
    <3>2. CASE TakesFirst(r, q, m)
      <4>1. PICK i \in DOMAIN chan[q][r] :
              /\ chan[q][r][i] = m
              /\ \A j \in 1 .. i - 1 : chan[q][r][j] = Data
              /\ chan'[q][r] = RemoveAt(chan[q][r], i)
        BY <3>2 DEF TakesFirst
      <4> QED BY <1>1, <1>3, <4>1, DataRemoved DEF Takes
    <3> QED BY <1>3, <3>1, <3>2 DEF Takes
  <2>2. \A p, s \in Rank : p # q \/ s # r => chan'[p][s] = chan[p][s]
    BY <1>3 DEF Takes, Others
  <2>3. Ahead(chan', sends) /\ TransitOf(chan') = TransitOf(chan)
    BY <1>0, <2>1, <2>2, TransitOne
  <2> QED BY <2>3, AheadIs, TransitIs
<1> QED BY <1>2, <1>3

LEMMA CountsAreInt ==
  ASSUME TypeOK, NEW r \in Rank
  PROVE  /\ net[r] \in Int /\ mpyNet[r] \in Int /\ count[r] \in Int
         /\ net[r] + mpyNet[r] \in Int /\ count[r] - mpyNet[r] \in Int
<1>1. net[r] \in Int /\ mpyNet[r] \in Int /\ count[r] \in Int
  BY DEF TypeOK
<1> QED BY <1>1

LEMMA TransitControl ==
  ASSUME FlowInv, TypeOK', DataInv, NEW r \in Rank, NEW D, NEW w \in Message,
         w # Data, sends' = sends, chan' = Sent(chan, r, D, w)
  PROVE  DataInv' /\ InTransit' = InTransit
<1>0. TypeOK /\ Ahead(chan, sends) /\ sends \in Nat
  BY AheadIs DEF FlowInv, TypeOK
<1>1. ASSUME NEW p \in Rank, NEW q \in Rank
      PROVE  Prefix(chan'[p][q]) /\ DataIn(chan'[p][q]) = DataIn(chan[p][q])
  <2>1. chan[p][q] \in Seq(Message)
    BY <1>0 DEF TypeOK
  <2>2. Prefix(chan[p][q])
    BY <1>0 DEF Ahead
  <2>3. chan'[p][q] = Append(chan[p][q], w) \/ chan'[p][q] = chan[p][q]
    <3>1. \A a, s \in Rank : chan'[a][s] =
            IF a = r /\ s \in D THEN Append(chan[r][s], w) ELSE chan[a][s]
      BY <1>0, SentAt
    <3> QED BY <3>1
  <2> QED BY <2>1, <2>2, <2>3, DataAppended
<1>2. Ahead(chan', sends')
  BY <1>0, <1>1 DEF Ahead
<1>3. TransitOf(chan') = TransitOf(chan)
  BY <1>1 DEF TransitOf
<1> QED BY <1>2, <1>3, AheadIs, TransitIs

LEMMA TransitUp ==
  ASSUME FlowInv, TypeOK', DataInv, NEW r \in Rank, NEW b, NEW w \in Message,
         w # Data, sends' = sends, chan' = Sent(chan, r, {b}, w)
  PROVE  DataInv' /\ InTransit' = InTransit
<1> DEFINE D == {b}
<1>1. chan' = Sent(chan, r, D, w)
  OBVIOUS
<1> HIDE DEF D
<1> QED BY <1>1, TransitControl

LEMMA TransitStays ==
  ASSUME DataInv, sends' = sends, chan' = chan
  PROVE  DataInv' /\ InTransit' = InTransit
BY DEF DataInv, InTransit

\* The data in transit before and after a step.
Transits(r) ==
  \/ \E D \in SUBSET Rank :
       DoSend(r, D) /\ Cardinality(InTransit') = Cardinality(InTransit) + Cardinality(D)
  \/ /\ \E q \in Rank : DoQueue(r, q) \/ DoThrow(r, q)
     /\ Cardinality(InTransit') = Cardinality(InTransit) - 1
     /\ Cardinality(InTransit) >= 1 /\ sends' = sends
  \/ /\ ~\E D \in SUBSET Rank : DoSend(r, D)
     /\ ~\E q \in Rank : DoQueue(r, q) \/ DoThrow(r, q)
     /\ InTransit' = InTransit /\ sends' = sends

LEMMA DataStep ==
  ASSUME FlowInv, TypeOK', LocalInv, EdgeInv, WaveInv, DataInv, NEW r \in Rank, Does(r)
  PROVE  DataInv' /\ Transits(r)
<1>1. CASE \E D \in SUBSET Rank : DoSend(r, D)
  BY <1>1, TransitSends DEF Transits
<1>2. CASE \E q \in Rank : DoQueue(r, q) \/ DoThrow(r, q)
  BY <1>2, TransitTakes DEF Transits, DoQueue, DoThrow
<1>3. CASE /\ ~\E D \in SUBSET Rank : DoSend(r, D)
           /\ ~\E q \in Rank : DoQueue(r, q) \/ DoThrow(r, q)
  <2> DEFINE Good == DataInv' /\ InTransit' = InTransit /\ sends' = sends
  <2>1. sends' = sends
    BY <1>3 DEF Does, Idles, DoWork, DoCatch, DoFault, DoHear, DoDrain, DoListen,
                DoAlert, DoSpread, DoTally, DoReport, DoClear, DoPause, DoCount,
                DoPass, DoAck, DoReturn, DoLeave, Enters
  <2>2. chan' = chan => Good
    BY <2>1, TransitStays
  <2>3. (\E q \in Rank : \E m : Takes(r, q, m)) => Good
    BY <2>1, TransitTakes
  <2>4. ASSUME NEW D, NEW w \in Message, w # Data, chan' = Sent(chan, r, D, w)
        PROVE  Good
    BY <2>1, <2>4, TransitControl
  <2>5. ASSUME NEW b, NEW w \in Message, w # Data, chan' = Sent(chan, r, {b}, w)
        PROVE  Good
    BY <2>1, <2>5, TransitUp
  <2>6. ASSUME NEW id \in 1 .. 6, NEW n \in Int, NEW k \in Int
        PROVE  Control(id, n, k) \in Message /\ Control(id, n, k) # Data
    BY <2>6, ControlType, DataId DEF Control
  <2>7. net[r] + mpyNet[r] \in Int /\ count[r] - mpyNet[r] \in Int
    BY CountsAreInt DEF FlowInv
  <2> HIDE DEF Good
  <2>8. ASSUME NEW q \in Rank, NEW m \in Message,
               \/ DoCatch(r, q, m) \/ DoHear(r, q, m) \/ DoDrain(r, q, m)
               \/ DoListen(r, q, m) \/ DoTally(r, q, m) \/ DoClear(r, q, m)
               \/ DoAck(r, q, m)
        PROVE  Good
    BY <2>3, <2>8 DEF DoCatch, DoHear, DoDrain, DoListen, DoTally, DoClear, DoAck
  <2>9. ASSUME \/ Idles \/ DoWork(r) \/ (\E m \in Message : DoFault(r, m))
               \/ DoPause(r) \/ DoLeave(r)
        PROVE  Good
    BY <2>2, <2>9 DEF Idles, DoWork, DoFault, DoPause, DoLeave
  <2>10. ASSUME DoAlert(r)
         PROVE  Good
    <3>1. msg[r] \in Message /\ msg[r] # Data
      BY <2>10, DataId DEF FlowInv, TypeOK, AlertKept, DoAlert
    <3> QED BY <2>5, <2>10, <3>1 DEF DoAlert
  <2>11. ASSUME NEW f \in Int, DoSpread(r, f)
         PROVE  Good
    BY <2>4, <2>6, <2>11 DEF DoSpread
  <2>12. ASSUME DoReport(r)
         PROVE  Good
    <3>1. PICK n \in Nat :
            chan' = IF r = 0 THEN chan
                    ELSE Sent(chan, r, {Boss(r)}, Control(3, net[r] + mpyNet[r], n))
      BY <2>12 DEF DoReport
    <3> DEFINE w == Control(3, net[r] + mpyNet[r], n)
    <3>2. n \in Int
      OBVIOUS
    <3>3. w \in Message /\ w # Data
      BY <2>6, <2>7, <3>2
    <3>4. chan' = chan \/ chan' = Sent(chan, r, {Boss(r)}, w)
      BY <3>1
    <3> HIDE DEF w
    <3> QED BY <2>2, <2>5, <3>3, <3>4
  <2>13. ASSUME DoCount(r)
         PROVE  Good
    <3> DEFINE w == Control(4, count[r] - mpyNet[r], 0)
    <3>1. w \in Message /\ w # Data
      BY <2>6, <2>7
    <3>2. chan' = chan \/ chan' = Sent(chan, r, {Boss(r)}, w)
      BY <2>13 DEF DoCount
    <3> HIDE DEF w
    <3> QED BY <2>2, <2>5, <3>1, <3>2
  <2>14. ASSUME DoPass(r)
         PROVE  Good
    BY <2>4, <2>6, <2>14 DEF DoPass
  <2>15. ASSUME DoReturn(r)
         PROVE  Good
    <3> DEFINE w == Control(6, 0, 0)
    <3>1. w \in Message /\ w # Data
      BY <2>6
    <3>2. chan' = chan \/ chan' = Sent(chan, r, {Boss(r)}, w)
      BY <2>15 DEF DoReturn
    <3> HIDE DEF w
    <3> QED BY <2>2, <2>5, <3>1, <3>2
  <2>16. Good
    BY <1>3, <2>8, <2>9, <2>10, <2>11, <2>12, <2>13, <2>14, <2>15, Zenon DEF Does
  <2> QED BY <1>3, <2>16 DEF Good, Transits
<1> QED BY <1>1, <1>2, <1>3

-----------------------------------------------------------------------------
(* The sums of the model, by their definition.                             *)

LEMMA TotalIs ==
  ASSUME NEW f
  PROVE  Total(f) = SumOver(f, Rank)
<1> DEFINE G == CHOOSE F :
             F = [s \in SUBSET Rank |->
                    IF s = {} THEN 0
                    ELSE f[CHOOSE x \in s : TRUE] + F[s \ {CHOOSE x \in s : TRUE}]]
<1>1. Total(f) = G[Rank]
  BY DEF Total, MapThenSumSet, MapThenFoldSet
<1>2. Sums(G, f, Rank)
  <2>1. \E F : Sums(F, f, Rank)
    BY RankFinite, SumsExist
  <2> QED BY <2>1 DEF Sums, Chosen
<1> HIDE DEF G
<1> QED BY <1>1, <1>2, RankFinite, SumOverAny

CountsAt(c) == {i \in DOMAIN c : c[i].id = 4}
Amounts(c) == [i \in DOMAIN c |-> c[i].n1]

\* The sum of the id=4 messages of a channel.
WayOf(c) == SumOver(Amounts(c), CountsAt(c))

LEMMA CountedIs ==
  ASSUME NEW c, IsFiniteSet(CountsAt(c))
  PROVE  MapThenSumSet(LAMBDA i : c[i].n1, CountsAt(c)) = WayOf(c)
<1> DEFINE S == CountsAt(c)
           f == Amounts(c)
<1>0. \A i \in S : f[i] = c[i].n1
  BY DEF CountsAt, Amounts
<1> HIDE DEF S, f
<1> DEFINE Is(F) ==
             F = [s \in SUBSET S |->
                    IF s = {} THEN 0
                    ELSE c[CHOOSE x \in s : TRUE].n1 + F[s \ {CHOOSE x \in s : TRUE}]]
           G == CHOOSE F : Is(F)
<1>1. MapThenSumSet(LAMBDA i : c[i].n1, S) = G[S]
  BY DEF MapThenSumSet, MapThenFoldSet
<1>2. ASSUME NEW F
      PROVE  Is(F) <=> Sums(F, f, S)
  <2> DEFINE A == [s \in SUBSET S |->
                     IF s = {} THEN 0 ELSE f[Chosen(s)] + F[s \ {Chosen(s)}]]
             B == [s \in SUBSET S |->
                     IF s = {} THEN 0 ELSE c[Chosen(s)].n1 + F[s \ {Chosen(s)}]]
  <2>1. \A s \in SUBSET S : s # {} => f[Chosen(s)] = c[Chosen(s)].n1
    BY <1>0, ChosenType
  <2>2. \A s \in SUBSET S : A[s] = B[s]
    BY <2>1
  <2>3. A = B
    BY <2>2
  <2> QED BY <2>3 DEF Sums, Chosen
<1> HIDE DEF Is
<1>4. IsFiniteSet(S)
  BY DEF S
<1>3. Is(G)
  <2>1. \E F : Is(F)
    BY <1>2, <1>4, SumsExist
  <2> QED BY <2>1
<1> HIDE DEF G
<1>5. G[S] = SumOver(f, S)
  BY <1>2, <1>3, <1>4, SumOverAny
<1> QED BY <1>1, <1>5 DEF S, f, WayOf

LEMMA CountsType ==
  ASSUME NEW c \in Seq(Message)
  PROVE  /\ IsFiniteSet(CountsAt(c)) /\ CountsAt(c) \subseteq DOMAIN c
         /\ CountsAt(c) \subseteq Int
         /\ \A i \in CountsAt(c) : Amounts(c)[i] = c[i].n1 /\ Amounts(c)[i] \in Int
         /\ WayOf(c) \in Int
<1>1. DOMAIN c = 1 .. Len(c) /\ Len(c) \in Nat /\ \A i \in DOMAIN c : c[i] \in Message
  BY ChanType
<1>2. CountsAt(c) \subseteq 1 .. Len(c)
  BY <1>1 DEF CountsAt
<1>3. IsFiniteSet(CountsAt(c))
  <2> DEFINE I == 1 .. Len(c)
  <2>1. IsFiniteSet(I)
    BY <1>1, FS_Interval
  <2>2. CountsAt(c) \in SUBSET I
    BY <1>2
  <2> HIDE DEF I
  <2> QED BY <2>1, <2>2, FS_Subset
<1>4. \A i \in CountsAt(c) : Amounts(c)[i] = c[i].n1 /\ Amounts(c)[i] \in Int
  BY <1>1 DEF CountsAt, Amounts, Message
<1>5. WayOf(c) \in Int
  BY <1>3, <1>4, SumOverType DEF WayOf
<1> QED BY <1>1, <1>2, <1>3, <1>4, <1>5

LEMMA OnItsWayIs ==
  /\ TypeOK => \A r \in Rank : OnItsWay(r) = IF r = 0 THEN 0 ELSE WayOf(chan[r][Boss(r)])
  /\ TypeOK' => \A r \in Rank :
                  OnItsWay(r)' = IF r = 0 THEN 0 ELSE WayOf(chan'[r][Boss(r)])
<1>1. ASSUME TypeOK, NEW r \in Rank
      PROVE  OnItsWay(r) = IF r = 0 THEN 0 ELSE WayOf(chan[r][Boss(r)])
  <2>1. CASE r = 0
    BY <2>1 DEF OnItsWay
  <2>2. CASE r # 0
    <3>1. chan[r][Boss(r)] \in Seq(Message)
      BY <1>1, <2>2, BossRank DEF TypeOK
    <3>2. OnItsWay(r) = MapThenSumSet(LAMBDA i : chan[r][Boss(r)][i].n1,
                                      CountsAt(chan[r][Boss(r)]))
      BY <2>2 DEF OnItsWay, CountsAt, MapThenSumSet, MapThenFoldSet
    <3>3. IsFiniteSet(CountsAt(chan[r][Boss(r)]))
      BY <3>1, CountsType
    <3> DEFINE c == chan[r][Boss(r)]
    <3>4. MapThenSumSet(LAMBDA i : c[i].n1, CountsAt(c)) = WayOf(c)
      <4> HIDE DEF c
      <4>1. IsFiniteSet(CountsAt(c))
        BY <3>3 DEF c
      <4> QED BY <4>1, CountedIs
    <3> QED BY <2>2, <3>2, <3>4
  <2> QED BY <2>1, <2>2
<1>2. ASSUME TypeOK', NEW r \in Rank
      PROVE  OnItsWay(r)' = IF r = 0 THEN 0 ELSE WayOf(chan'[r][Boss(r)])
  <2>1. CASE r = 0
    BY <2>1 DEF OnItsWay
  <2>2. CASE r # 0
    <3>1. chan'[r][Boss(r)] \in Seq(Message)
      BY <1>2, <2>2, BossRank DEF TypeOK
    <3>2. OnItsWay(r)' = MapThenSumSet(LAMBDA i : chan'[r][Boss(r)][i].n1,
                                       CountsAt(chan'[r][Boss(r)]))
      BY <2>2 DEF OnItsWay, CountsAt, MapThenSumSet, MapThenFoldSet
    <3>3. IsFiniteSet(CountsAt(chan'[r][Boss(r)]))
      BY <3>1, CountsType
    <3> DEFINE c == chan'[r][Boss(r)]
    <3>4. MapThenSumSet(LAMBDA i : c[i].n1, CountsAt(c)) = WayOf(c)
      <4> HIDE DEF c
      <4>1. IsFiniteSet(CountsAt(c))
        BY <3>3 DEF c
      <4> QED BY <4>1, CountedIs
    <3> QED BY <2>2, <3>2, <3>4
  <2> QED BY <2>1, <2>2
<1> QED BY <1>1, <1>2

LEMMA WayNone ==
  ASSUME NEW c, \A i \in DOMAIN c : c[i].id # 4
  PROVE  WayOf(c) = 0
<1>1. CountsAt(c) = {}
  BY DEF CountsAt
<1> QED BY <1>1, SumOverEmpty DEF WayOf

LEMMA WayNat ==
  ASSUME NEW c \in Seq(Message), \A i \in DOMAIN c : c[i].id = 4 => c[i].n1 >= 1
  PROVE  WayOf(c) \in Nat
<1>1. \A i \in CountsAt(c) : Amounts(c)[i] \in Nat
  <2>1. \A i \in CountsAt(c) : i \in DOMAIN c /\ c[i].id = 4
    BY DEF CountsAt
  <2> QED BY <2>1, CountsType
<1> QED BY <1>1, CountsType, SumOverNat DEF WayOf

LEMMA WayAppend ==
  ASSUME NEW c \in Seq(Message), NEW m \in Message
  PROVE  WayOf(Append(c, m)) = WayOf(c) + IF m.id = 4 THEN m.n1 ELSE 0
<1> DEFINE d == Append(c, m)
           n == Len(c) + 1
           S == CountsAt(c)
           T == CountsAt(d)
           f == Amounts(c)
           g == Amounts(d)
<1>1. /\ d \in Seq(Message) /\ DOMAIN d = 1 .. n /\ DOMAIN c = 1 .. Len(c)
      /\ Len(c) \in Nat /\ \A i \in DOMAIN c : d[i] = c[i]
      /\ d[n] = m /\ m.n1 \in Int
  BY ChanType, ChanAppend DEF Message
<1>2. /\ IsFiniteSet(S) /\ \A i \in S : f[i] = c[i].n1 /\ f[i] \in Int
      /\ WayOf(c) \in Int
  BY CountsType
<1>3. /\ IsFiniteSet(T) /\ \A i \in T : g[i] = d[i].n1 /\ g[i] \in Int
  <2> HIDE DEF d
  <2> QED BY <1>1, CountsType
<1> HIDE DEF d, f, g
<1>4. /\ T = IF m.id = 4 THEN S \cup {n} ELSE S
      /\ n \notin S /\ S \subseteq DOMAIN c
  BY <1>1 DEF CountsAt
<1> HIDE DEF n, S, T
<1>5. SumOver(g, S) = SumOver(f, S)
  <2>1. \A i \in S : f[i] = g[i]
    BY <1>1, <1>2, <1>3, <1>4
  <2> QED BY <1>2, <2>1, SumOverSame
<1>6. CASE m.id = 4
  <2>1. n \in T /\ T \ {n} = S
    BY <1>4, <1>6
  <2>2. SumOver(g, T) = g[n] + SumOver(g, T \ {n})
    BY <1>3, <2>1, SumOverRemove
  <2>3. g[n] = m.n1
    BY <1>1, <1>3, <2>1
  <2>4. SumOver(g, T) = m.n1 + SumOver(f, S)
    BY <1>5, <2>1, <2>2, <2>3
  <2>5. SumOver(f, S) = WayOf(c) /\ SumOver(g, T) = WayOf(d)
    BY DEF WayOf, S, T, f, g
  <2>6. WayOf(d) = WayOf(c) + m.n1
    BY <1>1, <1>2, <2>4, <2>5
  <2> QED BY <1>6, <2>6 DEF d
<1>7. CASE m.id # 4
  <2>1. T = S
    BY <1>4, <1>7
  <2>2. SumOver(f, S) = WayOf(c) /\ SumOver(g, T) = WayOf(d)
    BY DEF WayOf, S, T, f, g
  <2>3. WayOf(d) = WayOf(c)
    BY <1>5, <2>1, <2>2
  <2> QED BY <1>2, <1>7, <2>3 DEF d
<1> QED BY <1>6, <1>7

LEMMA WayTail ==
  ASSUME NEW c \in Seq(Message), c # << >>
  PROVE  WayOf(Tail(c)) = WayOf(c) - IF Head(c).id = 4 THEN Head(c).n1 ELSE 0
<1> DEFINE d == Tail(c)
           h == Head(c)
           S == CountsAt(c)
           R == S \ {1}
           T == CountsAt(d)
           f == Amounts(c)
           g == Amounts(d)
<1>1. /\ d \in Seq(Message) /\ DOMAIN d = 1 .. Len(c) - 1 /\ DOMAIN c = 1 .. Len(c)
      /\ Len(c) \in Nat /\ Len(c) >= 1
      /\ \A i \in 1 .. Len(c) - 1 : d[i] = c[i + 1]
      /\ h = c[1] /\ h.n1 \in Int
  BY ChanType, ChanTail DEF Message
<1>2. /\ IsFiniteSet(S) /\ \A i \in S : f[i] = c[i].n1 /\ f[i] \in Int
      /\ WayOf(c) \in Int
  BY CountsType
<1>3. /\ IsFiniteSet(T) /\ \A i \in T : g[i] = d[i].n1 /\ g[i] \in Int
      /\ WayOf(d) \in Int
  <2> HIDE DEF d
  <2> QED BY <1>1, CountsType
<1> HIDE DEF d, f, g, h
<1>4. /\ R \subseteq 2 .. Len(c)
      /\ \A i \in Int : i \in T <=> i + 1 \in R
      /\ T \subseteq Int
      /\ 1 \in S <=> h.id = 4
  BY <1>1 DEF CountsAt
<1>5. T = {i - 1 : i \in R}
  <2>1. ASSUME NEW k
        PROVE  k \in T <=> \E i \in R : k = i - 1
    <3>1. ASSUME k \in T
          PROVE  \E i \in R : k = i - 1
      <4>1. k \in Int /\ k + 1 \in R /\ k = (k + 1) - 1
        BY <1>4, <3>1
      <4> QED BY <4>1
    <3>2. ASSUME NEW i \in R, k = i - 1
          PROVE  k \in T
      <4>1. k \in Int /\ k + 1 = i
        BY <1>1, <1>4, <3>2
      <4> QED BY <1>4, <4>1
    <3> QED BY <3>1, <3>2
  <2> HIDE DEF T, R
  <2> QED BY <2>1
<1>6. SumOver(g, T) = SumOver(f, R)
  <2>1. IsFiniteSet(R)
    <3> HIDE DEF S
    <3> QED BY <1>2, FS_Subset
  <2>2. R \subseteq Int /\ \A i \in R : f[i] \in Int /\ g[i - 1] = f[i]
    <3> SUFFICES ASSUME NEW i \in R
                 PROVE  i \in Int /\ f[i] \in Int /\ g[i - 1] = f[i]
      OBVIOUS
    <3>1. i \in 2 .. Len(c) /\ i \in S
      BY <1>4
    <3>2. i - 1 \in T /\ i - 1 \in 1 .. Len(c) - 1 /\ (i - 1) + 1 = i
      BY <1>1, <1>4, <1>5, <3>1
    <3> HIDE DEF T, R, S
    <3>3. i \in Int /\ i \in 1 .. Len(c)
      BY <1>1, <3>1
    <3>4. d[i - 1] = c[(i - 1) + 1]
      BY <1>1, <3>2
    <3>5. d[i - 1] = c[i]
      BY <3>2, <3>4
    <3>6. g[i - 1] = d[i - 1].n1
      BY <1>3, <3>2
    <3>7. f[i] = c[i].n1 /\ f[i] \in Int
      BY <1>2, <3>1
    <3> QED BY <3>3, <3>5, <3>6, <3>7
  <2> HIDE DEF R, T
  <2> QED BY <1>5, <2>1, <2>2, SumOverShift
<1>7. SumOver(f, S) = WayOf(c) /\ SumOver(g, T) = WayOf(d)
  BY DEF WayOf, f, g
<1>8. CASE h.id = 4
  <2>1. 1 \in S /\ f[1] = h.n1
    BY <1>1, <1>2, <1>4, <1>8
  <2> HIDE DEF S, T
  <2>2. SumOver(f, S) = f[1] + SumOver(f, R)
    BY <1>2, <2>1, SumOverRemove
  <2>3. WayOf(c) = h.n1 + WayOf(d)
    BY <1>6, <1>7, <2>1, <2>2
  <2> QED BY <1>1, <1>2, <1>3, <1>8, <2>3 DEF d, h
<1>9. CASE h.id # 4
  <2>1. R = S
    BY <1>4, <1>9
  <2> HIDE DEF S, T, R
  <2>2. WayOf(c) = WayOf(d)
    BY <1>6, <1>7, <2>1
  <2> QED BY <1>2, <1>9, <2>2 DEF d, h
<1> QED BY <1>8, <1>9

-----------------------------------------------------------------------------
(* Shares of the messages sent and received.                               *)

Shares == [Rank -> Nat]

LEMMA ShareTotal ==
  ASSUME NEW S \in Shares
  PROVE  /\ Total(S) \in Nat
         /\ \A a \in Rank : S[a] <= Total(S)
         /\ Total(S) <= MaxSends => S \in [Rank -> 0 .. MaxSends]
<1>1. Total(S) = SumOver(S, Rank)
  BY TotalIs
<1>2. \A a \in Rank : S[a] \in Nat
  BY DEF Shares
<1>3. Total(S) \in Nat /\ \A a \in Rank : S[a] <= Total(S)
  BY <1>1, <1>2, RankFinite, SumOverNat
<1>4. MaxSends \in Nat
  BY BoundsAssumption
<1>5. ASSUME Total(S) <= MaxSends, NEW a \in Rank
      PROVE  S[a] \in 0 .. MaxSends
  BY <1>2, <1>3, <1>4, <1>5
<1> QED BY <1>3, <1>5 DEF Shares

LEMMA ShareZero ==
  ASSUME NEW S \in Shares, \A a \in Rank : S[a] = 0
  PROVE  Total(S) = 0
<1> DEFINE z == [a \in Rank |-> 0]
<1>1. S = z
  BY DEF Shares
<1>2. Total(S) = SumOver(S, Rank)
  BY TotalIs
<1>3. SumOver(S, Rank) = SumOver(S, Rank) - SumOver(S, Rank)
  BY <1>1, RankFinite, SumOverDifference
<1>4. SumOver(S, Rank) \in Int
  BY <1>1, RankFinite, SumOverType
<1> QED BY <1>2, <1>3, <1>4

\* The account of a grows by x.
Grown(S, a, x) == [S EXCEPT ![a] = @ + x]

LEMMA ShareGrows ==
  ASSUME NEW S \in Shares, NEW a \in Rank, NEW x \in Int, S[a] + x >= 0
  PROVE  /\ Grown(S, a, x) \in Shares
         /\ Grown(S, a, x)[a] = S[a] + x
         /\ \A p \in Rank : p # a => Grown(S, a, x)[p] = S[p]
         /\ Total(Grown(S, a, x)) = Total(S) + x
<1> DEFINE T == Grown(S, a, x)
<1>1. /\ T \in Shares /\ T[a] = S[a] + x
      /\ \A p \in Rank : p # a => T[p] = S[p]
  BY DEF Grown, Shares
<1>2. Total(S) = SumOver(S, Rank) /\ Total(T) = SumOver(T, Rank)
  BY TotalIs
<1> HIDE DEF T
<1>3. \A p \in Rank : S[p] \in Int /\ T[p] \in Int
  BY <1>1 DEF Shares
<1>4. SumOver(T, Rank) = SumOver(S, Rank) - S[a] + T[a]
  <2>1. \A p \in Rank : p # a => S[p] = T[p]
    BY <1>1
  <2> QED BY <1>3, <2>1, RankFinite, SumOverChange
<1>5. SumOver(S, Rank) \in Int
  BY <1>3, RankFinite, SumOverType
<1> QED BY <1>1, <1>2, <1>3, <1>4, <1>5 DEF T

\* x moves from the account of q to that of r.
Moved(S, q, r, x) == Grown(Grown(S, q, -x), r, x)

LEMMA ShareMoves ==
  ASSUME NEW S \in Shares, NEW q \in Rank, NEW r \in Rank, q # r, NEW x \in Int,
         0 <= x, x <= S[q]
  PROVE  /\ Moved(S, q, r, x) \in Shares
         /\ Moved(S, q, r, x)[q] = S[q] - x
         /\ Moved(S, q, r, x)[r] = S[r] + x
         /\ \A p \in Rank : p # q /\ p # r => Moved(S, q, r, x)[p] = S[p]
         /\ Total(Moved(S, q, r, x)) = Total(S)
<1> DEFINE y == -x
           T == Grown(S, q, y)
<1>1. S[q] \in Nat /\ S[r] \in Nat /\ y \in Int /\ S[q] + y >= 0
  BY DEF Shares
<1>2. /\ T \in Shares /\ T[q] = S[q] + y
      /\ \A p \in Rank : p # q => T[p] = S[p]
      /\ Total(T) = Total(S) + y
  <2> HIDE DEF y, T
  <2> QED BY <1>1, ShareGrows DEF T
<1>3. T[r] + x >= 0
  BY <1>1, <1>2
<1>4. Moved(S, q, r, x) = Grown(T, r, x)
  BY DEF Moved
<1>5. Total(S) \in Nat
  BY ShareTotal
<1> HIDE DEF T
<1> DEFINE U == Grown(T, r, x)
<1>6. /\ U \in Shares /\ U[r] = T[r] + x
      /\ \A p \in Rank : p # r => U[p] = T[p]
      /\ Total(U) = Total(T) + x
  BY <1>2, <1>3, ShareGrows
<1> HIDE DEF U
<1>7. U[q] = S[q] - x /\ U[r] = S[r] + x /\ Total(U) = Total(S)
  BY <1>1, <1>2, <1>5, <1>6
<1>8. \A p \in Rank : p # q /\ p # r => U[p] = S[p]
  BY <1>2, <1>6
<1> QED BY <1>4, <1>6, <1>7, <1>8 DEF U
-----------------------------------------------------------------------------
(* The credit, with shares that are not bounded.                           *)

OwnCredit ==
  \E S, V \in Shares : Totals(S, V) /\ \A r \in Rank : mpyNet[r] = S[r] - V[r]
RoundCredit ==
  \E S, V \in Shares : Totals(S, V) /\ \A r \in Rank : AccountOf(r, S, V)
CountsPositive ==
  \A q, r \in Rank : \A i \in DOMAIN chan[q][r] :
    chan[q][r][i].id = 4 => chan[q][r][i].n1 >= 1

LEMMA CreditOpen ==
  ASSUME CreditInv
  PROVE  /\ OwnCredit /\ CountsPositive
         /\ phase[0] \notin {"ack", "leaving"} => RoundCredit
<1>1. [Rank -> 0 .. MaxSends] \subseteq Shares
  BY BoundsAssumption DEF Shares
<1> QED BY <1>1 DEF CreditInv, OwnCredit, RoundCredit, CountsPositive

LEMMA SharesFit ==
  ASSUME NEW S \in Shares, NEW V \in Shares, NEW n \in Nat, n <= MaxSends,
         NEW k \in Nat, Total(S) = n, Total(V) + k = n
  PROVE  S \in [Rank -> 0 .. MaxSends] /\ V \in [Rank -> 0 .. MaxSends]
<1>1. Total(V) \in Nat /\ MaxSends \in Nat
  BY ShareTotal, BoundsAssumption
<1>2. Total(S) <= MaxSends /\ Total(V) <= MaxSends
  BY <1>1
<1> QED BY <1>2, ShareTotal

LEMMA CreditClose ==
  ASSUME TypeOK', DataInv', OwnCredit', CountsPositive',
         phase'[0] \notin {"ack", "leaving"} => RoundCredit'
  PROVE  CreditInv'
<1>1. sends' \in Nat /\ sends' <= MaxSends
  BY DEF TypeOK, DataInv
<1>2. Cardinality(InTransit') \in Nat
  BY TransitIs, TransitType
<1>3. ASSUME NEW S \in Shares, NEW V \in Shares, Totals(S, V)'
      PROVE  S \in [Rank -> 0 .. MaxSends] /\ V \in [Rank -> 0 .. MaxSends]
  <2>1. Total(S) = sends' /\ Total(V) + Cardinality(InTransit') = sends'
    BY <1>3 DEF Totals
  <2> QED BY <1>1, <1>2, <2>1, SharesFit
<1>4. \E S, V \in [Rank -> 0 .. MaxSends] :
        Totals(S, V)' /\ \A r \in Rank : mpyNet'[r] = S[r] - V[r]
  BY <1>3 DEF OwnCredit
<1>5. phase'[0] \notin {"ack", "leaving"} =>
        \E S, V \in [Rank -> 0 .. MaxSends] :
          Totals(S, V)' /\ \A r \in Rank : AccountOf(r, S, V)'
  BY <1>3 DEF RoundCredit
<1> QED BY <1>4, <1>5 DEF CreditInv, CountsPositive

\* Every data message counts on the account of its sender, then of its receiver.
LEMMA OwnStep ==
  ASSUME TypeOK, NEW r \in Rank, Does(r), Alone(r), Transits(r), OwnCredit
  PROVE  OwnCredit'
<1>1. PICK S \in Shares, V \in Shares :
        Totals(S, V) /\ \A p \in Rank : mpyNet[p] = S[p] - V[p]
  BY DEF OwnCredit
<1>2. \A p \in Rank : p # r => mpyNet'[p] = mpyNet[p]
  BY DEF Alone, Same
<1>3. S[r] \in Nat /\ V[r] \in Nat /\ mpyNet[r] = S[r] - V[r]
  BY <1>1 DEF Shares
<1>4. /\ Total(S) = sends /\ Total(V) + Cardinality(InTransit) = sends
      /\ Total(S) \in Nat /\ Total(V) \in Nat /\ Cardinality(InTransit) \in Nat
  BY <1>1, ShareTotal, TransitIs, TransitType DEF Totals
<1>5. ASSUME NEW D \in SUBSET Rank, DoSend(r, D),
             Cardinality(InTransit') = Cardinality(InTransit) + Cardinality(D)
      PROVE  OwnCredit'
  <2> DEFINE k == Cardinality(D)
             T == Grown(S, r, k)
  <2>1. k \in Nat
    <3>1. IsFiniteSet(D)
      BY RankFinite, FS_Subset
    <3> QED BY <3>1, FS_CardinalityType
  <2>2. sends' = sends + k /\ mpyNet'[r] = mpyNet[r] + k
    BY <1>5 DEF DoSend
  <2>3. Cardinality(InTransit') = Cardinality(InTransit) + k
    BY <1>5
  <2> HIDE DEF k
  <2>4. /\ T \in Shares /\ T[r] = S[r] + k /\ Total(T) = Total(S) + k
        /\ \A p \in Rank : p # r => T[p] = S[p]
    BY <1>3, <2>1, ShareGrows
  <2> HIDE DEF T
  <2>5. \A p \in Rank : mpyNet'[p] = T[p] - V[p]
    BY <1>1, <1>2, <1>3, <2>1, <2>2, <2>4
  <2>6. Totals(T, V)'
    BY <1>4, <2>1, <2>2, <2>3, <2>4 DEF Totals
  <2> QED BY <2>4, <2>5, <2>6 DEF OwnCredit
<1>6. ASSUME NEW q \in Rank, DoQueue(r, q) \/ DoThrow(r, q),
             Cardinality(InTransit') = Cardinality(InTransit) - 1,
             sends' = sends
      PROVE  OwnCredit'
  <2> DEFINE T == Grown(V, r, 1)
  <2>2. mpyNet'[r] = mpyNet[r] - 1
    BY <1>6 DEF DoQueue, DoThrow
  <2>4. /\ T \in Shares /\ T[r] = V[r] + 1 /\ Total(T) = Total(V) + 1
        /\ \A p \in Rank : p # r => T[p] = V[p]
    BY <1>3, ShareGrows
  <2> HIDE DEF T
  <2>5. \A p \in Rank : mpyNet'[p] = S[p] - T[p]
    BY <1>1, <1>2, <1>3, <2>2, <2>4
  <2>6. Totals(S, T)'
    BY <1>4, <1>6, <2>4 DEF Totals
  <2> QED BY <2>4, <2>5, <2>6 DEF OwnCredit
<1>7. CASE /\ ~\E D \in SUBSET Rank : DoSend(r, D)
           /\ ~\E q \in Rank : DoQueue(r, q) \/ DoThrow(r, q)
           /\ InTransit' = InTransit /\ sends' = sends
  <2>1. mpyNet' = mpyNet
    BY <1>7 DEF Does, Idles, DoWork, DoCatch, DoFault, DoHear, DoDrain, DoListen,
                DoAlert, DoSpread, DoTally, DoReport, DoClear, DoPause, DoCount,
                DoPass, DoAck, DoReturn, DoLeave, Enters
  <2>2. Totals(S, V)'
    BY <1>1, <1>7 DEF Totals
  <2> QED BY <1>1, <2>1, <2>2 DEF OwnCredit
<1> QED BY <1>5, <1>6, <1>7 DEF Transits

LEMMA AwaitedType ==
  ASSUME TypeOK, LocalInv, CountsPositive, NEW r \in Rank
  PROVE  /\ OnItsWay(r) \in Nat /\ Unreported(r) \in Nat /\ Awaited(r) \in Nat
         /\ Awaited(r) = OnItsWay(r) + Unreported(r)
<1>1. OnItsWay(r) \in Nat
  <2>1. CASE r = 0
    BY <2>1, OnItsWayIs
  <2>2. CASE r # 0
    <3>1. Boss(r) \in Rank
      BY <2>2, BossRank
    <3>2. chan[r][Boss(r)] \in Seq(Message)
      BY <3>1 DEF TypeOK
    <3>3. WayOf(chan[r][Boss(r)]) \in Nat
      BY <3>1, <3>2, WayNat DEF CountsPositive
    <3> QED BY <2>2, <3>3, OnItsWayIs
  <2> QED BY <2>1, <2>2
<1>2. Unreported(r) \in Nat
  <2>1. count[r] \in Int /\ mpyNet[r] \in Int
    BY CountsAreInt
  <2>2. phase[r] \in {"clear", "clearing"} => mpyNet[r] <= count[r]
    BY <2>1 DEF LocalInv, LocalOf
  <2> QED BY <2>1, <2>2 DEF Unreported
<1> QED BY <1>1, <1>2 DEF Awaited

LEMMA AmountShort ==
  ASSUME TypeOK, LocalInv, CountsPositive, CreditInv,
         phase[0] \notin {"ack", "leaving"},
         NEW r \in Rank, phase[r] \in Quiescing
  PROVE  Unreported(r) = count[r] - mpyNet[r] /\ count[r] - mpyNet[r] \in 0 .. 63
<1>1. PICK V \in [Rank -> 0 .. MaxSends] : Awaited(r) <= V[r]
  BY DEF CreditInv, AccountOf
<1>2. Awaited(r) = OnItsWay(r) + Unreported(r) /\ OnItsWay(r) \in Nat
      /\ Unreported(r) \in Nat
  BY AwaitedType
<1>3. V[r] <= 63 /\ V[r] \in Nat
  <2>1. V[r] \in 0 .. MaxSends /\ MaxSends \in Nat /\ MaxSends <= 63
    BY BoundsAssumption, SmallAssumption
  <2> QED BY <2>1
<1>4. Unreported(r) = count[r] - mpyNet[r]
  BY DEF Unreported, Quiescing
<1>5. count[r] - mpyNet[r] \in Int
  BY CountsAreInt
<1> QED BY <1>1, <1>2, <1>3, <1>4, <1>5

LEMMA CountsPositiveStep ==
  ASSUME FlowInv, LocalInv, EdgeInv, WaveInv, CreditInv, NEW r \in Rank, Does(r)
  PROVE  CountsPositive'
<1>1. TypeOK /\ AlertKept /\ CountsPositive
  BY CreditOpen DEF FlowInv
<1> SUFFICES ASSUME NEW p \in Rank, NEW q \in Rank, NEW i \in DOMAIN chan'[p][q],
                    chan'[p][q][i].id = 4
             PROVE  chan'[p][q][i].n1 >= 1
  BY DEF CountsPositive
<1> DEFINE m == chan'[p][q][i]
<1>2. CASE Old(p, q, m)
  BY <1>1, <1>2 DEF Old, CountsPositive
<1>3. CASE New(r, p, q, m)
  <2>1. m.id = 4
    OBVIOUS
  <2> HIDE DEF m
  <2>2. DoCount(r) /\ m = Control(4, count[r] - mpyNet[r], 0)
    BY <1>1, <1>3, <2>1, DataId DEF New, DoAlert, AlertKept, Control
  <2>3. phase[0] \notin {"ack", "leaving"}
    BY <2>2, WaveDoes
  <2>4. phase[r] \in Quiescing /\ mpyNet[r] < count[r]
    BY <2>2 DEF DoCount, Quiescing
  <2>5. count[r] - mpyNet[r] \in 0 .. 63
    BY <1>1, <2>3, <2>4, AmountShort
  <2>6. count[r] \in Int /\ mpyNet[r] \in Int
    BY <1>1, CountsAreInt
  <2> DEFINE x == count[r] - mpyNet[r]
  <2>7. x \in -63 .. 63 /\ x >= 1
    BY <2>4, <2>5, <2>6
  <2> HIDE DEF x
  <2>8. Carried(x) = x
    BY <2>7, CarriedIsFaithful
  <2>9. m.n1 = x
    BY <2>2, <2>8 DEF Control, x
  <2> QED BY <2>7, <2>9 DEF m
<1> QED BY <1>1, <1>2, <1>3, OldOrNew

-----------------------------------------------------------------------------
(* The accounts of one round, when one rank takes a step.                  *)

\* p does nothing, and its boss does nothing with its account.
Undisturbed(p) ==
  /\ Same(p)
  /\ p # 0 /\ phase[p] \in Quiescing =>
       /\ OnItsWay(p)' = OnItsWay(p)
       /\ tally'[Boss(p)][p] = tally[Boss(p)][p]
       /\ \A i \in DOMAIN chan'[p][Boss(p)] :
            Old(p, Boss(p), chan'[p][Boss(p)][i])

Agree(S, T, p) == T[p] = S[p]

LEMMA UndisturbedAccount ==
  ASSUME NEW p \in Rank, Undisturbed(p), NEW S, NEW V, AccountOf(p, S, V),
         NEW T, NEW W, Agree(S, T, p), Agree(V, W, p)
  PROVE  AccountOf(p, T, W)'
<1>1. /\ phase'[p] = phase[p] /\ mpyNet'[p] = mpyNet[p] /\ net'[p] = net[p]
      /\ count'[p] = count[p]
  BY DEF Undisturbed, Same
<1>2. T[p] = S[p] /\ W[p] = V[p]
  BY DEF Agree
<1>3. CASE phase[p] \notin Quiescing
  BY <1>1, <1>2, <1>3 DEF AccountOf
<1>4. CASE phase[p] \in Quiescing
  <2>1. Unreported(p)' = Unreported(p)
    BY <1>1 DEF Unreported
  <2>2. OnItsWay(p)' = OnItsWay(p)
    BY <1>4 DEF Undisturbed, OnItsWay
  <2>3. Awaited(p)' = Awaited(p)
    BY <2>1, <2>2 DEF Awaited
  <2>4. phase[p] \notin Outside \cup {"drain", "alert", "alertdrain", "tally"}
    BY <1>4 DEF Quiescing, Outside
  <2>5. CASE p = 0
    <3>1. Awaited(0) <= V[0] /\ net[0] - Awaited(0) = S[0] - V[0]
      BY <1>4, <2>5 DEF AccountOf
    <3>2. Awaited(p)' <= W[p] /\ (p = 0 => net'[0] - Awaited(0)' = T[0] - W[0])
      BY <1>1, <1>2, <2>3, <2>5, <3>1
    <3> QED BY <1>1, <2>4, <2>5, <3>2 DEF AccountOf
  <2>6. CASE p # 0
    <3> DEFINE b == Boss(p)
               c == chan[p][b]
               d == chan'[p][b]
    <3>1. /\ Awaited(p) <= V[p]
          /\ tally[b][p] = 0 =>
               \A i \in DOMAIN c : c[i].id = 3 => c[i].n1 - Awaited(p) = S[p] - V[p]
          /\ tally[b][p] # 0 => S[p] + Awaited(p) = V[p]
      BY <1>4, <2>6 DEF AccountOf
    <3>2. tally'[b][p] = tally[b][p] /\ \A i \in DOMAIN d : \E j \in DOMAIN c : c[j] = d[i]
      BY <1>4, <2>6 DEF Undisturbed, Old
    <3> HIDE DEF b
    <3>3. /\ Awaited(p)' <= W[p]
          /\ tally'[b][p] = 0 =>
               \A i \in DOMAIN d : d[i].id = 3 => d[i].n1 - Awaited(p)' = T[p] - W[p]
          /\ tally'[b][p] # 0 => T[p] + Awaited(p)' = W[p]
      BY <1>2, <2>3, <3>1, <3>2
    <3> QED BY <1>1, <2>4, <2>6, <3>3 DEF AccountOf, b
  <2> QED BY <2>5, <2>6
<1> QED BY <1>3, <1>4

LEMMA UndisturbedAway ==
  ASSUME TypeOK, TypeOK', NEW r \in Rank, Alone(r), NEW p \in Rank, p # r,
         p = 0 \/ Boss(p) # r \/ phase[p] \notin Quiescing
  PROVE  Undisturbed(p)
<1>1. Same(p)
  BY DEF Alone
<1>2. ASSUME p # 0, phase[p] \in Quiescing
      PROVE  /\ OnItsWay(p)' = OnItsWay(p)
             /\ tally'[Boss(p)][p] = tally[Boss(p)][p]
             /\ \A i \in DOMAIN chan'[p][Boss(p)] :
                  Old(p, Boss(p), chan'[p][Boss(p)][i])
  <2>1. Boss(p) \in Rank /\ Boss(p) # r
    BY <1>2, BossRank
  <2>2. chan'[p][Boss(p)] = chan[p][Boss(p)] /\ tally'[Boss(p)] = tally[Boss(p)]
    BY <2>1 DEF Alone, Same
  <2>3. OnItsWay(p)' = OnItsWay(p)
    BY <1>2, <2>2, OnItsWayIs
  <2> QED BY <2>2, <2>3 DEF Old
<1> QED BY <1>1, <1>2 DEF Undisturbed

LEMMA UndisturbedStaff ==
  ASSUME TypeOK, TypeOK', NEW r \in Rank, Alone(r), NEW p \in Rank, p # r,
         chan'[p][r] = chan[p][r], tally'[r][p] = tally[r][p]
  PROVE  Undisturbed(p)
<1>1. CASE p = 0 \/ Boss(p) # r \/ phase[p] \notin Quiescing
  BY <1>1, UndisturbedAway
<1>2. CASE ~(p = 0 \/ Boss(p) # r \/ phase[p] \notin Quiescing)
  <2>1. Same(p)
    BY DEF Alone
  <2>2. OnItsWay(p)' = OnItsWay(p)
    BY <1>2, OnItsWayIs
  <2> QED BY <1>2, <2>1, <2>2 DEF Undisturbed, Old
<1> QED BY <1>1, <1>2

LEMMA UndisturbedThrow ==
  ASSUME TypeOK, TypeOK', NEW r \in Rank, Alone(r), NEW q \in Rank,
         TakesData(r, q), tally'[r] = tally[r], NEW p \in Rank, p # r
  PROVE  Undisturbed(p)
<1>1. CASE p # q
  BY <1>1, UndisturbedStaff DEF TakesData, Others
<1>2. CASE p = q
  <2>1. CASE p = 0 \/ Boss(p) # r \/ phase[p] \notin Quiescing
    BY <2>1, UndisturbedAway
  <2>2. CASE ~(p = 0 \/ Boss(p) # r \/ phase[p] \notin Quiescing)
    <3>1. Same(p)
      BY DEF Alone
    <3>2. OnItsWay(p)' = OnItsWay(p)
      <4> DEFINE c == chan[p][r]
      <4>1. c \in Seq(Message) /\ c # << >> /\ Head(c) = Data
        BY <1>2 DEF TypeOK, TakesData
      <4>2. chan'[p][r] = Tail(c)
        BY <1>2 DEF TakesData
      <4> HIDE DEF c
      <4>3. WayOf(Tail(c)) = WayOf(c) - 0
        BY <4>1, WayTail, DataId
      <4>4. WayOf(c) \in Int
        BY <4>1, CountsType
      <4>5. WayOf(Tail(c)) = WayOf(c)
        BY <4>3, <4>4
      <4>6. OnItsWay(p) = WayOf(c) /\ OnItsWay(p)' = WayOf(chan'[p][r])
        BY <2>2, OnItsWayIs DEF c
      <4> QED BY <4>2, <4>5, <4>6
    <3>3. \A i \in DOMAIN chan'[p][r] : Old(p, r, chan'[p][r][i])
      BY <1>2, TakesKeeps
    <3> QED BY <2>2, <3>1, <3>2, <3>3 DEF Undisturbed
  <2> QED BY <2>1, <2>2
<1> QED BY <1>1, <1>2

\* Before r has passed on the verdict, nobody reports to it.
Before == Outside \cup {"drain", "alert", "alertdrain"}

LEMMA UndisturbedBefore ==
  ASSUME TypeOK, TypeOK', EdgeInv, NEW r \in Rank, Alone(r), phase[r] \in Before,
         NEW p \in Rank, p # r
  PROVE  Undisturbed(p)
<1>1. ASSUME p # 0, Boss(p) = r
      PROVE  phase[p] \notin Quiescing
  <2>1. EdgeOf(p, r)
    BY <1>1 DEF EdgeInv
  <2> QED BY <2>1 DEF EdgeOf, Apart, Told, Aware, Reporting, Counting, Clearing,
                      Before, Outside, Quiescing
<1> QED BY <1>1, UndisturbedAway

\* The account of a rank that is quiescing.
LEMMA QuiescingAccount ==
  ASSUME TypeOK, NEW r \in Rank, NEW S \in Shares, NEW V \in Shares,
         AccountOf(r, S, V), NEW T, NEW W, Agree(S, T, r),
         phase[r] \in Quiescing, phase'[r] \in Quiescing,
         Awaited(r) \in Int, net[0] \in Int,
         NEW d \in Int, NEW e \in Int, d <= e,
         Awaited(r)' = Awaited(r) + d, W[r] = V[r] + e,
         r = 0 => net'[0] = net[0] + d - e,
         r # 0 => /\ d = e /\ tally'[Boss(r)][r] = tally[Boss(r)][r]
                  /\ \A i \in DOMAIN chan'[r][Boss(r)] :
                       chan'[r][Boss(r)][i].id = 3 =>
                         Old(r, Boss(r), chan'[r][Boss(r)][i])
  PROVE  AccountOf(r, T, W)'
<1>1. S[r] \in Nat /\ V[r] \in Nat /\ T[r] = S[r]
  BY DEF Shares, Agree
<1>2. phase'[r] \notin Outside \cup {"drain", "alert", "alertdrain", "tally"}
  BY DEF Quiescing, Outside
<1>3. CASE r = 0
  <2>1. Awaited(0) <= V[0] /\ net[0] - Awaited(0) = S[0] - V[0]
    BY <1>3 DEF AccountOf
  <2>2. Awaited(r)' <= W[r] /\ (r = 0 => net'[0] - Awaited(0)' = T[0] - W[0])
    <3> DEFINE A == Awaited(0)
               B == Awaited(0)'
    <3>1. A \in Int /\ B = A + d /\ A <= V[0] /\ net[0] - A = S[0] - V[0]
      BY <1>3, <2>1
    <3> HIDE DEF A, B
    <3>2. B <= W[0] /\ net'[0] - B = T[0] - W[0]
      BY <1>1, <1>3, <3>1
    <3> QED BY <1>3, <3>2 DEF B
  <2> QED BY <1>2, <1>3, <2>2 DEF AccountOf
<1>4. CASE r # 0
  <2> DEFINE b == Boss(r)
             c == chan[r][b]
             x == chan'[r][b]
             A == Awaited(r)
             B == Awaited(r)'
  <2>1. /\ A <= V[r] /\ A \in Int /\ B = A + d /\ d = e
        /\ tally[b][r] = 0 =>
             \A i \in DOMAIN c : c[i].id = 3 => c[i].n1 - A = S[r] - V[r]
        /\ tally[b][r] # 0 => S[r] + A = V[r]
        /\ tally'[b][r] = tally[b][r]
    BY <1>4 DEF AccountOf
  <2>2. \A i \in DOMAIN x : x[i].id = 3 => \E j \in DOMAIN c : c[j] = x[i]
    BY <1>4 DEF Old
  <2>3. /\ B <= W[r]
        /\ tally'[b][r] # 0 => T[r] + B = W[r]
    <3> HIDE DEF A, B, b
    <3> QED BY <1>1, <2>1
  <2>4. ASSUME tally'[b][r] = 0, NEW i \in DOMAIN x, x[i].id = 3
        PROVE  x[i].n1 - B = T[r] - W[r]
    <3>1. PICK j \in DOMAIN c : c[j] = x[i]
      BY <2>2, <2>4
    <3> DEFINE n == x[i].n1
    <3>2. n - A = S[r] - V[r]
      BY <2>1, <2>4, <3>1
    <3>4. n \in Int
      <4>1. Boss(r) \in Rank
        BY <1>4, BossRank
      <4>2. c \in Seq(Message)
        BY <4>1 DEF TypeOK
      <4> HIDE DEF c, x
      <4>3. c[j] \in Message
        BY <3>1, <4>2, ChanType
      <4> QED BY <3>1, <4>3 DEF Message
    <3> HIDE DEF A, B, b, c, n
    <3>3. n - B = T[r] - W[r]
      BY <1>1, <2>1, <3>2, <3>4
    <3> QED BY <3>3 DEF n
  <2> QED BY <1>2, <1>4, <2>3, <2>4 DEF AccountOf
<1> QED BY <1>3, <1>4

LEMMA AccountBefore ==
  ASSUME NEW r \in Rank, NEW S, NEW V, phase'[r] \in Before,
         mpyNet'[r] = S[r] - V[r]
  PROVE  AccountOf(r, S, V)'
BY DEF AccountOf, Before, Outside, Quiescing

LEMMA AccountTally ==
  ASSUME NEW r \in Rank, NEW S, NEW V, phase'[r] = "tally",
         mpyNet'[r] + net'[r] = S[r] - V[r]
  PROVE  AccountOf(r, S, V)'
BY DEF AccountOf, Outside, Quiescing

\* S and V account for the messages of the round.
Accounts(S, V) ==
  /\ S \in Shares /\ V \in Shares
  /\ Totals(S, V)
  /\ \A p \in Rank : AccountOf(p, S, V)

LEMMA TotalsType ==
  ASSUME NEW S \in Shares, NEW V \in Shares, Totals(S, V)
  PROVE  /\ Total(S) = sends /\ Total(V) + Cardinality(InTransit) = sends
         /\ Total(S) \in Nat /\ Total(V) \in Nat /\ Cardinality(InTransit) \in Nat
BY ShareTotal, TransitIs, TransitType DEF Totals

LEMMA SendCredit ==
  ASSUME FlowInv, TypeOK', EdgeInv, NEW r \in Rank, Alone(r),
         NEW D \in SUBSET Rank, DoSend(r, D),
         Cardinality(InTransit') = Cardinality(InTransit) + Cardinality(D),
         NEW S, NEW V, Accounts(S, V)
  PROVE  RoundCredit'
<1> DEFINE k == Cardinality(D)
           T == Grown(S, r, k)
<1>1. k \in Nat
  <2>1. IsFiniteSet(D)
    BY RankFinite, FS_Subset
  <2> QED BY <2>1, FS_CardinalityType
<1>2. sends' = sends + k /\ mpyNet'[r] = mpyNet[r] + k
  BY DEF DoSend
<1>3. Cardinality(InTransit') = Cardinality(InTransit) + k
  OBVIOUS
<1>4. /\ TypeOK /\ phase[r] \in Before /\ phase'[r] \in Before
  BY DEF FlowInv, DoSend, Before, Outside
<1>5. S \in Shares /\ V \in Shares /\ Totals(S, V) /\ S[r] \in Nat /\ V[r] \in Nat
  BY DEF Accounts, Shares
<1> HIDE DEF k
<1>6. /\ T \in Shares /\ T[r] = S[r] + k /\ Total(T) = Total(S) + k
      /\ \A p \in Rank : p # r => T[p] = S[p]
  BY <1>1, <1>5, ShareGrows
<1> HIDE DEF T
<1>7. Totals(T, V)'
  BY <1>1, <1>2, <1>3, <1>5, <1>6, TotalsType DEF Totals
<1>8. ASSUME NEW p \in Rank, p # r
      PROVE  AccountOf(p, T, V)'
  <2>1. Undisturbed(p)
    BY <1>4, <1>8, UndisturbedBefore
  <2>2. Agree(S, T, p) /\ Agree(V, V, p) /\ AccountOf(p, S, V)
    BY <1>6, <1>8 DEF Agree, Accounts
  <2> QED BY <2>1, <2>2, UndisturbedAccount
<1>9. AccountOf(r, T, V)'
  <2>1. mpyNet[r] = S[r] - V[r]
    BY <1>4 DEF Accounts, AccountOf, Before
  <2>2. mpyNet'[r] = T[r] - V[r]
    BY <1>1, <1>2, <1>5, <1>6, <2>1
  <2> QED BY <1>4, <2>2, AccountBefore
<1> QED BY <1>5, <1>6, <1>7, <1>8, <1>9 DEF RoundCredit

LEMMA ThrowCredit ==
  ASSUME FlowInv, TypeOK', LocalInv, CountsPositive, NEW r \in Rank, Alone(r),
         phase[r] # "ack", NEW q \in Rank, DoQueue(r, q) \/ DoThrow(r, q),
         Cardinality(InTransit') = Cardinality(InTransit) - 1, sends' = sends,
         NEW S, NEW V, Accounts(S, V)
  PROVE  RoundCredit'
<1> DEFINE T == Grown(V, r, 1)
<1>1. /\ mpyNet'[r] = mpyNet[r] - 1 /\ TakesData(r, q)
      /\ tally' = tally /\ net' = net /\ count' = count
  BY DEF DoQueue, DoThrow
<1>2. /\ TypeOK /\ mpyNet[r] \in Int /\ net[r] \in Int /\ count[r] \in Int
      /\ net[0] \in Int
  BY CountsAreInt, ZeroRank DEF FlowInv
<1>3. S \in Shares /\ V \in Shares /\ Totals(S, V) /\ S[r] \in Nat /\ V[r] \in Nat
  BY DEF Accounts, Shares
<1>4. /\ T \in Shares /\ T[r] = V[r] + 1 /\ Total(T) = Total(V) + 1
      /\ \A p \in Rank : p # r => T[p] = V[p]
  BY <1>3, ShareGrows
<1> HIDE DEF T
<1>5. Totals(S, T)'
  BY <1>3, <1>4, TotalsType DEF Totals
<1>6. ASSUME NEW p \in Rank, p # r
      PROVE  AccountOf(p, S, T)'
  <2>1. Undisturbed(p)
    BY <1>1, <1>2, <1>6, UndisturbedThrow
  <2>2. Agree(S, S, p) /\ Agree(V, T, p) /\ AccountOf(p, S, V)
    BY <1>4, <1>6 DEF Agree, Accounts
  <2> QED BY <2>1, <2>2, UndisturbedAccount
<1>7. /\ \/ phase[r] \in Before \cup {"tally"} /\ phase'[r] = phase[r]
         \/ phase[r] \in Quiescing /\ phase'[r] = "clearing"
      /\ AccountOf(r, S, V)
  BY DEF DoQueue, DoThrow, Before, Outside, Accounts
<1>8. CASE phase[r] \in Before /\ phase'[r] = phase[r]
  <2>1. mpyNet[r] = S[r] - V[r]
    BY <1>7, <1>8 DEF AccountOf, Before
  <2>2. mpyNet'[r] = S[r] - T[r]
    BY <1>1, <1>2, <1>3, <1>4, <2>1
  <2>3. AccountOf(r, S, T)'
    BY <1>8, <2>2, AccountBefore
  <2> QED BY <1>3, <1>4, <1>5, <1>6, <2>3 DEF RoundCredit
<1>9. CASE phase[r] = "tally" /\ phase'[r] = phase[r]
  <2>1. mpyNet[r] + net[r] = S[r] - V[r]
    BY <1>7, <1>9 DEF AccountOf
  <2>2. mpyNet'[r] + net'[r] = S[r] - T[r]
    BY <1>1, <1>2, <1>3, <1>4, <2>1
  <2>3. AccountOf(r, S, T)'
    BY <1>9, <2>2, AccountTally
  <2> QED BY <1>3, <1>4, <1>5, <1>6, <2>3 DEF RoundCredit
<1>10. CASE phase[r] \in Quiescing /\ phase'[r] = "clearing"
  <2>1. Awaited(r) = OnItsWay(r) + Unreported(r) /\ OnItsWay(r) \in Nat
    BY <1>2, AwaitedType
  <2>2. /\ Unreported(r) = count[r] - mpyNet[r]
        /\ Unreported(r)' = count[r] - (mpyNet[r] - 1)
    BY <1>1, <1>10 DEF Unreported, Quiescing
  <2>3. r # 0 => chan'[r][Boss(r)] = chan[r][Boss(r)] /\ Boss(r) \in Rank /\ Boss(r) # r
    BY <1>1, BossRank, RankInt DEF TakesData, Others
  <2>4. OnItsWay(r)' = OnItsWay(r)
    BY <1>2, <2>3, OnItsWayIs
  <2>5. Awaited(r)' = OnItsWay(r)' + Unreported(r)'
    BY DEF Awaited
  <2>6. Awaited(r)' = Awaited(r) + 1 /\ Awaited(r) \in Int
    BY <1>2, <2>1, <2>2, <2>4, <2>5
  <2>7. r # 0 => /\ 1 = 1 /\ tally'[Boss(r)][r] = tally[Boss(r)][r]
                 /\ \A i \in DOMAIN chan'[r][Boss(r)] :
                      chan'[r][Boss(r)][i].id = 3 =>
                        Old(r, Boss(r), chan'[r][Boss(r)][i])
    BY <1>1, <2>3 DEF Old
  <2>8. r = 0 => net'[0] = net[0] + 1 - 1
    BY <1>1, <1>2
  <2>9. Agree(S, S, r) /\ phase'[r] \in Quiescing
    BY <1>10 DEF Agree, Quiescing
  <2>10. AccountOf(r, S, T)'
    BY <1>2, <1>3, <1>4, <1>7, <1>10, <2>6, <2>7, <2>8, <2>9, QuiescingAccount
  <2> QED BY <1>3, <1>4, <1>5, <1>6, <2>10 DEF RoundCredit
<1> QED BY <1>7, <1>8, <1>9, <1>10

\* Before the verdict, and when the verdict is passed on.
LEMMA BeforeCredit ==
  ASSUME FlowInv, TypeOK', EdgeInv, NEW r \in Rank, Alone(r), phase[r] \in Before,
         mpyNet' = mpyNet, InTransit' = InTransit, sends' = sends,
         phase'[r] \in Before \/ (phase'[r] = "tally" /\ net'[r] = 0),
         NEW S, NEW V, Accounts(S, V)
  PROVE  RoundCredit'
<1>1. Totals(S, V)' /\ S \in Shares /\ V \in Shares
  BY DEF Accounts, Totals
<1>2. ASSUME NEW p \in Rank, p # r
      PROVE  AccountOf(p, S, V)'
  <2>1. Undisturbed(p)
    BY <1>2, UndisturbedBefore DEF FlowInv
  <2>2. Agree(S, S, p) /\ Agree(V, V, p) /\ AccountOf(p, S, V)
    BY DEF Agree, Accounts
  <2> QED BY <2>1, <2>2, UndisturbedAccount
<1>3. mpyNet[r] = S[r] - V[r]
  BY DEF Accounts, AccountOf, Before
<1>4. CASE phase'[r] \in Before
  <2>1. AccountOf(r, S, V)'
    BY <1>3, <1>4, AccountBefore
  <2> QED BY <1>1, <1>2, <2>1 DEF RoundCredit
<1>5. CASE phase'[r] = "tally" /\ net'[r] = 0
  <2>1. mpyNet[r] \in Int
    BY CountsAreInt DEF FlowInv
  <2>2. mpyNet'[r] + net'[r] = S[r] - V[r]
    BY <1>3, <1>5, <2>1
  <2>3. AccountOf(r, S, V)'
    BY <1>5, <2>2, AccountTally
  <2> QED BY <1>1, <1>2, <2>3 DEF RoundCredit
<1> QED BY <1>4, <1>5

LEMMA TakesWay ==
  ASSUME TypeOK, TypeOK', CountsPositive', NEW q \in Rank, q # 0, NEW r \in Rank,
         r = Boss(q), NEW m \in Message, TakesHead(r, q, m)
  PROVE  /\ m.id # 4 => OnItsWay(q)' = OnItsWay(q)
         /\ m.id = 4 => OnItsWay(q)' = OnItsWay(q) - m.n1
         /\ OnItsWay(q) \in Int /\ OnItsWay(q)' \in Nat /\ m.n1 \in Int
<1> DEFINE c == chan[q][r]
           d == chan'[q][r]
<1>1. c \in Seq(Message) /\ c # << >> /\ Head(c) = m /\ d = Tail(c)
  BY DEF TypeOK, TakesHead
<1>2. OnItsWay(q) = WayOf(c) /\ OnItsWay(q)' = WayOf(d)
  BY OnItsWayIs
<1>3. d \in Seq(Message)
  BY DEF TypeOK
<1>4. \A i \in DOMAIN d : d[i].id = 4 => d[i].n1 >= 1
  BY DEF CountsPositive
<1> HIDE DEF c, d
<1>5. WayOf(d) \in Nat /\ WayOf(c) \in Int
  BY <1>1, <1>3, <1>4, WayNat, CountsType
<1>6. WayOf(Tail(c)) = WayOf(c) - IF m.id = 4 THEN m.n1 ELSE 0
  BY <1>1, WayTail
<1>7. m.n1 \in Int
  BY DEF Message
<1> QED BY <1>1, <1>2, <1>5, <1>6, <1>7

\* Who sends what to a rank that listens for id=3 and id=4.
LEMMA ReportEdge ==
  ASSUME TypeOK, EdgeInv, NEW r \in Rank, NEW q \in Staff(r), NEW m, m # Data,
         TakesHead(r, q, m), phase[r] \in {"tally"} \cup Quiescing
  PROVE  /\ q \in Rank /\ q # 0 /\ q # r /\ Boss(q) = r
         /\ m.id = 3 => Reporting(q, r) /\ Counts(chan'[q][r])
         /\ m.id = 4 => Counting(q, r)
<1>1. q \in Rank /\ q # 0 /\ Boss(q) = r
  BY StaffInvertsBoss DEF Staff
<1>2. q # r
  BY <1>1, BossRank, RankInt
<1>3. EdgeOf(q, r)
  BY <1>1 DEF EdgeInv
<1>4. /\ MaybeAlert(chan[q][r]) => m.id = 1
      /\ WithReport(chan[q][r]) => \/ m.id = 1
                                   \/ m.id = 3 /\ Counts(chan'[q][r])
      /\ Counts(chan[q][r]) => m.id = 4
  BY <1>1, TakesHeadChan
<1> QED BY <1>1, <1>2, <1>3, <1>4
        DEF EdgeOf, Apart, Told, Aware, Reporting, Counting, Clearing, Before,
            Outside, Quiescing

LEMMA TallyReportCredit ==
  ASSUME FlowInv, TypeOK', LocalInv, EdgeInv, CountsPositive, CountsPositive',
         NEW r \in Rank, Alone(r), NEW q \in Rank, NEW m \in Message,
         DoTally(r, q, m), m.id = 3, InTransit' = InTransit, sends' = sends,
         NEW S, NEW V, Accounts(S, V)
  PROVE  RoundCredit'
<1>0. TypeOK
  BY DEF FlowInv
<1>6. PICK A \in Nat : A = Awaited(q)
  BY <1>0, AwaitedType
<1> DEFINE x == S[q]
           y == V[q] - A
           T == Moved(S, q, r, x)
           W == Moved(V, q, r, y)
<1>1. /\ phase[r] = "tally" /\ phase'[r] = "tally" /\ q \in Staff(r)
      /\ TakesHead(r, q, m) /\ m # Data /\ Others(r, q)
      /\ tally[r][q] = 0 /\ tally'[r][q] = 1
      /\ \A p \in Rank : p # q => tally'[r][p] = tally[r][p]
      /\ net'[r] = net[r] + m.n1 /\ mpyNet' = mpyNet
  BY DEF DoTally, Takes
<1>2. /\ q # 0 /\ q # r /\ Boss(q) = r /\ Reporting(q, r) /\ Counts(chan'[q][r])
  BY <1>0, <1>1, ReportEdge
<1>3. OnItsWay(q)' = OnItsWay(q) /\ m.n1 \in Int
  BY <1>0, <1>1, <1>2, TakesWay
<1>4. Same(q) /\ phase[q] \in Quiescing
  BY <1>2 DEF Alone, Reporting
<1>5. Awaited(q)' = Awaited(q)
  BY <1>3, <1>4 DEF Awaited, Unreported, Same
<1>7. A <= V[q] /\ m.n1 - A = S[q] - V[q]
  <2>1. AccountOf(q, S, V)
    BY DEF Accounts
  <2>2. \E i \in DOMAIN chan[q][r] : chan[q][r][i] = m
    BY <1>0, TakesElement DEF DoTally
  <2> QED BY <1>1, <1>2, <1>4, <1>6, <2>1, <2>2 DEF AccountOf
<1>8. /\ S \in Shares /\ V \in Shares /\ Totals(S, V)
      /\ S[r] \in Nat /\ V[r] \in Nat /\ S[q] \in Nat /\ V[q] \in Nat
  BY DEF Accounts, Shares
<1>9. x \in Int /\ 0 <= x /\ x <= S[q] /\ y \in Int /\ 0 <= y /\ y <= V[q]
  BY <1>6, <1>7, <1>8
<1> HIDE DEF x, y
<1>10. /\ T \in Shares /\ T[q] = S[q] - x /\ T[r] = S[r] + x /\ Total(T) = Total(S)
       /\ \A p \in Rank : p # q /\ p # r => T[p] = S[p]
  BY <1>2, <1>8, <1>9, ShareMoves
<1>11. /\ W \in Shares /\ W[q] = V[q] - y /\ W[r] = V[r] + y /\ Total(W) = Total(V)
       /\ \A p \in Rank : p # q /\ p # r => W[p] = V[p]
  BY <1>2, <1>8, <1>9, ShareMoves
<1> HIDE DEF T, W
<1>12. Totals(T, W)'
  BY <1>8, <1>10, <1>11 DEF Totals
<1>13. ASSUME NEW p \in Rank, p # r, p # q
       PROVE  AccountOf(p, T, W)'
  <2>1. Undisturbed(p)
    BY <1>0, <1>1, <1>13, UndisturbedStaff DEF Others
  <2>2. Agree(S, T, p) /\ Agree(V, W, p) /\ AccountOf(p, S, V)
    BY <1>10, <1>11, <1>13 DEF Agree, Accounts
  <2> QED BY <2>1, <2>2, UndisturbedAccount
<1>14. AccountOf(q, T, W)'
  <2>1. T[q] = 0 /\ W[q] = A
    BY <1>6, <1>8, <1>10, <1>11 DEF x, y
  <2>2. Awaited(q)' <= W[q] /\ T[q] + Awaited(q)' = W[q]
    <3>1. Awaited(q)' = A
      BY <1>5, <1>6
    <3> QED BY <1>6, <2>1, <3>1
  <2>3. phase'[q] \in Quiescing /\ tally'[Boss(q)][q] # 0
    BY <1>1, <1>2, <1>4 DEF Same
  <2>4. phase'[q] \notin Before \cup {"tally"}
    BY <2>3 DEF Quiescing, Before, Outside
  <2> QED BY <1>2, <2>2, <2>3, <2>4 DEF AccountOf, Before
<1>15. AccountOf(r, T, W)'
  <2>1. mpyNet[r] + net[r] = S[r] - V[r]
    BY <1>1 DEF Accounts, AccountOf
  <2>2. mpyNet[r] \in Int /\ net[r] \in Int
    BY <1>0, CountsAreInt
  <2>3. T[r] - W[r] = (S[r] - V[r]) + m.n1
    <3>1. T[r] = S[r] + S[q] /\ W[r] = V[r] + (V[q] - A)
      BY <1>10, <1>11 DEF x, y
    <3>2. m.n1 - A = S[q] - V[q] /\ m.n1 \in Int
      BY <1>3, <1>7
    <3>3. A \in Nat /\ S[r] \in Nat /\ V[r] \in Nat /\ S[q] \in Nat /\ V[q] \in Nat
      BY <1>6, <1>8
    <3> QED BY <3>1, <3>2, <3>3
  <2>4. mpyNet'[r] = mpyNet[r] /\ net'[r] = net[r] + m.n1
    BY <1>1
  <2>5. mpyNet'[r] + net'[r] = T[r] - W[r]
    BY <1>3, <1>8, <2>1, <2>2, <2>3, <2>4
  <2> QED BY <1>1, <2>5, AccountTally
<1> QED BY <1>10, <1>11, <1>12, <1>13, <1>14, <1>15 DEF RoundCredit

\* id=4 moves n1 received messages from the account of its sender.
LEMMA MovesCount ==
  ASSUME FlowInv, TypeOK', LocalInv, EdgeInv, CountsPositive, CountsPositive',
         NEW r \in Rank, Alone(r), NEW q \in Staff(r), NEW m \in Message,
         phase[r] \in {"tally"} \cup Quiescing,
         Takes(r, q, m), TakesHead(r, q, m), m.id = 4, tally' = tally,
         InTransit' = InTransit, sends' = sends, NEW S, NEW V, Accounts(S, V)
  PROVE  /\ m.n1 \in Nat
         /\ \E W \in Shares :
              /\ W[r] = V[r] + m.n1
              /\ Totals(S, W)'
              /\ \A p \in Rank : p # r => AccountOf(p, S, W)'
<1> DEFINE n == m.n1
           W == Moved(V, q, r, n)
<1>0. TypeOK
  BY DEF FlowInv
<1>1. m # Data /\ Others(r, q)
  BY DEF Takes
<1>2. /\ q \in Rank /\ q # 0 /\ q # r /\ Boss(q) = r /\ Counting(q, r)
  BY <1>0, <1>1, ReportEdge
<1>3. /\ OnItsWay(q)' = OnItsWay(q) - n /\ n \in Int /\ OnItsWay(q)' \in Nat
      /\ OnItsWay(q) \in Int
  BY <1>0, <1>2, TakesWay
<1>4. n >= 1
  <2>1. \E i \in DOMAIN chan[q][r] : chan[q][r][i] = m
    BY <1>0, <1>2, TakesElement
  <2> QED BY <1>2, <2>1 DEF CountsPositive
<1>5. Same(q) /\ phase[q] \in Quiescing /\ phase'[q] \in Quiescing
  BY <1>2 DEF Alone, Counting, Same
<1>6. /\ Awaited(q) = OnItsWay(q) + Unreported(q) /\ Awaited(q) \in Nat
      /\ Unreported(q) \in Nat
  BY <1>0, <1>2, AwaitedType
<1>7. Awaited(q)' = Awaited(q) + (-n)
  <2>1. Unreported(q)' = Unreported(q)
    BY <1>5 DEF Unreported, Same
  <2>2. Awaited(q)' = OnItsWay(q)' + Unreported(q)'
    BY DEF Awaited
  <2> QED BY <1>3, <1>6, <2>1, <2>2
<1>8. AccountOf(q, S, V) /\ Awaited(q) <= V[q]
  BY <1>2, <1>5 DEF Accounts, AccountOf
<1>9. /\ S \in Shares /\ V \in Shares /\ Totals(S, V)
      /\ S[r] \in Nat /\ V[r] \in Nat /\ S[q] \in Nat /\ V[q] \in Nat
  BY <1>2 DEF Accounts, Shares
<1>10. 0 <= n /\ n <= V[q]
  BY <1>3, <1>4, <1>6, <1>8, <1>9
<1> HIDE DEF n
<1>11. /\ W \in Shares /\ W[q] = V[q] - n /\ W[r] = V[r] + n /\ Total(W) = Total(V)
       /\ \A p \in Rank : p # q /\ p # r => W[p] = V[p]
  BY <1>2, <1>3, <1>9, <1>10, ShareMoves
<1> HIDE DEF W
<1>12. Totals(S, W)'
  BY <1>9, <1>11 DEF Totals
<1>13. ASSUME NEW p \in Rank, p # r, p # q
       PROVE  AccountOf(p, S, W)'
  <2>1. Undisturbed(p)
    BY <1>0, <1>1, <1>13, UndisturbedStaff DEF Others
  <2>2. Agree(S, S, p) /\ Agree(V, W, p) /\ AccountOf(p, S, V)
    BY <1>11, <1>13 DEF Agree, Accounts
  <2> QED BY <2>1, <2>2, UndisturbedAccount
<1>14. AccountOf(q, S, W)'
  <2> DEFINE d == -n
  <2>1. d \in Int /\ d <= d /\ Awaited(q)' = Awaited(q) + d /\ W[q] = V[q] + d
    BY <1>3, <1>7, <1>9, <1>11
  <2>2. /\ d = d /\ tally'[Boss(q)][q] = tally[Boss(q)][q]
        /\ \A i \in DOMAIN chan'[q][Boss(q)] :
             chan'[q][Boss(q)][i].id = 3 => Old(q, Boss(q), chan'[q][Boss(q)][i])
    BY <1>0, <1>2, TakesKeeps
  <2>3. Agree(S, S, q) /\ net[0] \in Int /\ Awaited(q) \in Int
    BY <1>0, <1>6, ZeroRank, CountsAreInt DEF Agree
  <2> HIDE DEF d
  <2> QED BY <1>0, <1>2, <1>5, <1>8, <1>9, <2>1, <2>2, <2>3, QuiescingAccount
<1>15. \A p \in Rank : p # r => AccountOf(p, S, W)'
  BY <1>13, <1>14
<1>16. n \in Nat
  BY <1>3, <1>10
<1> QED BY <1>11, <1>12, <1>15, <1>16 DEF n

LEMMA TallyCountCredit ==
  ASSUME FlowInv, TypeOK', LocalInv, EdgeInv, CountsPositive, CountsPositive',
         NEW r \in Rank, Alone(r), NEW q \in Rank, NEW m \in Message,
         DoTally(r, q, m), m.id = 4, InTransit' = InTransit, sends' = sends,
         NEW S, NEW V, Accounts(S, V)
  PROVE  RoundCredit'
<1>0. TypeOK
  BY DEF FlowInv
<1>1. /\ phase[r] = "tally" /\ phase'[r] = "tally" /\ q \in Staff(r)
      /\ TakesHead(r, q, m) /\ Takes(r, q, m) /\ tally' = tally
      /\ net'[r] = net[r] - m.n1 /\ mpyNet' = mpyNet
  BY DEF DoTally
<1>2. PICK W \in Shares : /\ W[r] = V[r] + m.n1
                          /\ Totals(S, W)'
                          /\ \A p \in Rank : p # r => AccountOf(p, S, W)'
  BY <1>1, MovesCount
<1>3. m.n1 \in Nat
  BY <1>1, MovesCount
<1>4. S \in Shares /\ V \in Shares /\ S[r] \in Nat /\ V[r] \in Nat
  BY DEF Accounts, Shares
<1>5. mpyNet[r] + net[r] = S[r] - V[r]
  BY <1>1 DEF Accounts, AccountOf
<1>6. mpyNet[r] \in Int /\ net[r] \in Int
  BY <1>0, CountsAreInt
<1>7. mpyNet'[r] + net'[r] = S[r] - W[r]
  BY <1>1, <1>2, <1>3, <1>4, <1>5, <1>6
<1>8. AccountOf(r, S, W)'
  BY <1>1, <1>7, AccountTally
<1> QED BY <1>2, <1>4, <1>8 DEF RoundCredit

LEMMA ClearCredit ==
  ASSUME FlowInv, TypeOK', LocalInv, EdgeInv, CountsPositive, CountsPositive',
         NEW r \in Rank, Alone(r), NEW q \in Rank, NEW m \in Message,
         DoClear(r, q, m), m.id = 4, InTransit' = InTransit, sends' = sends,
         NEW S, NEW V, Accounts(S, V)
  PROVE  RoundCredit'
<1>0. TypeOK
  BY DEF FlowInv
<1>1. /\ phase[r] \in Quiescing /\ phase'[r] = "clearing"
      /\ TakesHead(r, q, m) /\ Takes(r, q, m) /\ tally' = tally
      /\ count'[r] = count[r] + m.n1 /\ mpyNet' = mpyNet /\ net' = net
  BY DEF DoClear
<1>2. q \in Staff(r)
  BY ClearMessage
<1>3. PICK W \in Shares : /\ W[r] = V[r] + m.n1
                          /\ Totals(S, W)'
                          /\ \A p \in Rank : p # r => AccountOf(p, S, W)'
  BY <1>1, <1>2, MovesCount
<1>4. m.n1 \in Nat
  BY <1>1, <1>2, MovesCount
<1>5. S \in Shares /\ V \in Shares /\ AccountOf(r, S, V)
  BY DEF Accounts
<1>6. r # 0 => chan'[r][Boss(r)] = chan[r][Boss(r)] /\ Boss(r) \in Rank /\ Boss(r) # r
  BY <1>1, BossRank, RankInt DEF Takes, Others
<1>7. OnItsWay(r)' = OnItsWay(r)
  BY <1>0, <1>6, OnItsWayIs
<1>8. /\ Unreported(r) = count[r] - mpyNet[r]
      /\ Unreported(r)' = (count[r] + m.n1) - mpyNet[r]
  BY <1>1 DEF Unreported, Quiescing
<1>9. Awaited(r) = OnItsWay(r) + Unreported(r) /\ OnItsWay(r) \in Nat
      /\ Awaited(r) \in Int
  BY <1>0, AwaitedType
<1>10. Awaited(r)' = OnItsWay(r)' + Unreported(r)'
  BY DEF Awaited
<1>11. count[r] \in Int /\ mpyNet[r] \in Int /\ net[0] \in Int
  BY <1>0, ZeroRank, CountsAreInt
<1>12. Awaited(r)' = Awaited(r) + m.n1
  BY <1>4, <1>7, <1>8, <1>9, <1>10, <1>11
<1>13. AccountOf(r, S, W)'
  <2> DEFINE n == m.n1
  <2>1. n \in Int /\ n <= n /\ Awaited(r)' = Awaited(r) + n /\ W[r] = V[r] + n
    BY <1>3, <1>4, <1>12
  <2>2. r # 0 => /\ n = n /\ tally'[Boss(r)][r] = tally[Boss(r)][r]
                 /\ \A i \in DOMAIN chan'[r][Boss(r)] :
                      chan'[r][Boss(r)][i].id = 3 =>
                        Old(r, Boss(r), chan'[r][Boss(r)][i])
    BY <1>1, <1>6 DEF Old
  <2>3. Agree(S, S, r) /\ phase'[r] \in Quiescing
    BY <1>1 DEF Agree, Quiescing
  <2>4. r = 0 => net'[0] = net[0] + n - n
    BY <1>1, <1>4, <1>11
  <2> HIDE DEF n
  <2> QED BY <1>0, <1>1, <1>5, <1>9, <1>11, <2>1, <2>2, <2>3, <2>4, QuiescingAccount
<1> QED BY <1>3, <1>5, <1>13 DEF RoundCredit

\* r moves on by itself, having sent at most one message, to its boss.
LEMMA UndisturbedSent ==
  ASSUME TypeOK, TypeOK', NEW r \in Rank, Alone(r), tally'[r] = tally[r],
         \A p \in Rank : p # r => chan'[p][r] = chan[p][r],
         NEW p \in Rank, p # r
  PROVE  Undisturbed(p)
BY UndisturbedStaff

LEMMA SentElsewhere ==
  ASSUME TypeOK, NEW r \in Rank, NEW b, NEW w, chan' = Sent(chan, r, {b}, w)
  PROVE  \A p \in Rank : p # r => chan'[p] = chan[p]
<1> DEFINE D == {b}
<1>1. chan' = Sent(chan, r, D, w)
  OBVIOUS
<1> HIDE DEF D
<1> QED BY <1>1 DEF Sent, TypeOK

LEMMA ReportCredit ==
  ASSUME FlowInv, TypeOK', LocalInv, EdgeInv, CountsPositive, DataInv,
         NEW r \in Rank, Alone(r), DoReport(r), InTransit' = InTransit,
         sends' = sends, NEW S, NEW V, Accounts(S, V)
  PROVE  RoundCredit'
<1>0. TypeOK
  BY DEF FlowInv
<1>1. /\ phase[r] = "tally" /\ phase'[r] = "clear" /\ tally' = tally
      /\ net'[r] = net[r] + mpyNet[r] /\ count'[r] = mpyNet[r] /\ mpyNet' = mpyNet
  BY DEF DoReport
<1>2. net[r] \in Int /\ mpyNet[r] \in Int
  BY <1>0, CountsAreInt
<1>3. PICK x \in Int : x = net[r] + mpyNet[r]
  BY <1>2
<1>4. /\ S \in Shares /\ V \in Shares /\ Totals(S, V) /\ S[r] \in Nat /\ V[r] \in Nat
  BY DEF Accounts, Shares
<1>5. x = S[r] - V[r]
  BY <1>1, <1>2, <1>3 DEF Accounts, AccountOf
<1>6. x \in -63 .. 63
  <2>1. sends \in Nat /\ sends <= 63
    <3>1. MaxSends <= 63 /\ MaxSends \in Nat /\ sends \in Nat /\ sends <= MaxSends
      BY <1>0, BoundsAssumption, SmallAssumption DEF DataInv, TypeOK
    <3> QED BY <3>1
  <2>2. S[r] <= Total(S) /\ V[r] <= Total(V)
    BY <1>4, ShareTotal
  <2>3. /\ Total(S) = sends /\ Total(V) + Cardinality(InTransit) = sends
        /\ Total(S) \in Nat /\ Total(V) \in Nat /\ Cardinality(InTransit) \in Nat
    BY <1>4, TotalsType
  <2>4. S[r] <= 63 /\ V[r] <= 63
    BY <1>4, <2>1, <2>2, <2>3
  <2> QED BY <1>4, <1>5, <2>4
<1>7. Totals(S, V)'
  BY <1>4 DEF Totals
<1>8. CASE r = 0
  <2>1. ASSUME NEW p \in Rank, p # r
        PROVE  AccountOf(p, S, V)'
    <3>1. chan' = chan
      BY <1>8 DEF DoReport
    <3>2. Undisturbed(p)
      BY <1>0, <1>1, <2>1, <3>1, UndisturbedSent
    <3>3. Agree(S, S, p) /\ Agree(V, V, p) /\ AccountOf(p, S, V)
      BY DEF Agree, Accounts
    <3> QED BY <3>2, <3>3, UndisturbedAccount
  <2>2. AccountOf(r, S, V)'
    <3>1. OnItsWay(r)' = 0
      BY <1>8, OnItsWayIs
    <3>2. Unreported(r)' = 0
      BY <1>1, <1>2 DEF Unreported
    <3>3. Awaited(r)' = 0
      BY <3>1, <3>2 DEF Awaited
    <3>4. net'[0] = S[0] - V[0]
      BY <1>1, <1>3, <1>5, <1>8
    <3>5. Awaited(r)' <= V[r] /\ net'[0] - Awaited(0)' = S[0] - V[0]
      <4> DEFINE A == Awaited(r)'
      <4>1. A = 0 /\ net'[0] = S[0] - V[0] /\ S[0] \in Nat /\ V[0] \in Nat
        BY <1>4, <1>8, <3>3, <3>4
      <4> HIDE DEF A
      <4>2. A <= V[0] /\ net'[0] - A = S[0] - V[0]
        BY <4>1
      <4> QED BY <1>8, <4>2 DEF A
    <3> QED BY <1>1, <1>8, <3>5 DEF AccountOf, Outside
  <2> QED BY <1>4, <1>7, <2>1, <2>2 DEF RoundCredit
<1>9. CASE r # 0
  <2> DEFINE b == Boss(r)
             c == chan[r][b]
             d == chan'[r][b]
  <2>1. PICK n \in Nat : chan' = Sent(chan, r, {b}, Control(3, x, n))
    BY <1>3, <1>9 DEF DoReport
  <2> DEFINE w == Control(3, x, n)
  <2>2. b \in Rank /\ w \in Message /\ w.id = 3 /\ w.n1 = x
    <3>1. Carried(x) = x
      BY <1>6, CarriedIsFaithful
    <3> QED BY <1>3, <1>9, <3>1, BossRank, ControlType DEF Control
  <2>3. tally[b][r] = 0 /\ MaybeAlert(c)
    <3>1. EdgeOf(r, b)
      BY <1>9 DEF EdgeInv
    <3> QED BY <1>1, <3>1 DEF EdgeOf, Apart, Told, Aware, Reporting, Counting,
                              Clearing, Outside, Quiescing
  <2>4. d = Append(c, w)
    <3> HIDE DEF w
    <3>1. chan' = Sent(chan, r, {b}, w)
      BY <2>1 DEF w
    <3> QED BY <1>0, <1>9, <2>2, <3>1, SentUp
  <2>5. c \in Seq(Message) /\ \A i \in DOMAIN c : c[i].id \in {0, 1}
    <3>1. c \in Seq(Message)
      BY <1>0, <2>2 DEF TypeOK
    <3> QED BY <2>3, <3>1, DataId DEF MaybeAlert
  <2> HIDE DEF w
  <2>6. ASSUME NEW p \in Rank, p # r
        PROVE  AccountOf(p, S, V)'
    <3>1. chan'[p][r] = chan[p][r]
      BY <1>0, <2>1, <2>6, SentElsewhere
    <3>2. Undisturbed(p)
      BY <1>0, <1>1, <2>6, <3>1, UndisturbedStaff
    <3>3. Agree(S, S, p) /\ Agree(V, V, p) /\ AccountOf(p, S, V)
      BY DEF Agree, Accounts
    <3> QED BY <3>2, <3>3, UndisturbedAccount
  <2>7. Awaited(r)' = 0
    <3>1. OnItsWay(r)' = WayOf(d)
      BY <1>9, OnItsWayIs
    <3>2. WayOf(d) = 0
      <4> HIDE DEF c, d
      <4>1. WayOf(c) = 0
        BY <2>5, WayNone
      <4>2. WayOf(d) = WayOf(c) + 0
        BY <2>2, <2>4, <2>5, WayAppend
      <4> QED BY <4>1, <4>2
    <3>3. Unreported(r)' = 0
      BY <1>1, <1>2 DEF Unreported
    <3> QED BY <3>1, <3>2, <3>3 DEF Awaited
  <2>8. AccountOf(r, S, V)'
    <3>1. tally'[b][r] = 0
      BY <1>1, <2>3
    <3>2. ASSUME NEW i \in DOMAIN d, d[i].id = 3
          PROVE  d[i].n1 = x
      <4> HIDE DEF c, d, b
      <4>1. /\ DOMAIN d = 1 .. Len(c) + 1 /\ d[Len(c) + 1] = w /\ Len(c) \in Nat
            /\ DOMAIN c = 1 .. Len(c) /\ \A j \in DOMAIN c : d[j] = c[j]
        BY <2>2, <2>4, <2>5, ChanType, ChanAppend
      <4>2. i \in DOMAIN c => FALSE
        BY <2>5, <3>2, <4>1
      <4>3. i = Len(c) + 1
        BY <3>2, <4>1, <4>2
      <4> QED BY <2>2, <4>1, <4>3
    <3>3. /\ Awaited(r)' <= V[r]
          /\ \A i \in DOMAIN d : d[i].id = 3 => d[i].n1 - Awaited(r)' = S[r] - V[r]
      <4> DEFINE A == Awaited(r)'
      <4>1. A = 0
        BY <2>7
      <4> HIDE DEF A, d
      <4>2. A <= V[r] /\ \A i \in DOMAIN d : d[i].id = 3 => d[i].n1 - A = S[r] - V[r]
        <5>1. x - A = S[r] - V[r] /\ A <= V[r]
          BY <1>3, <1>4, <1>5, <4>1
        <5> QED BY <3>2, <5>1
      <4> QED BY <4>2 DEF A
    <3> QED BY <1>1, <1>9, <3>1, <3>3 DEF AccountOf, Outside
  <2> QED BY <1>4, <1>7, <2>6, <2>8 DEF RoundCredit
<1> QED BY <1>8, <1>9

LEMMA CountCredit ==
  ASSUME FlowInv, TypeOK', LocalInv, CreditInv, CountsPositive,
         phase[0] \notin {"ack", "leaving"}, NEW r \in Rank, Alone(r),
         DoCount(r), InTransit' = InTransit, sends' = sends,
         NEW S, NEW V, Accounts(S, V)
  PROVE  RoundCredit'
<1>0. TypeOK
  BY DEF FlowInv
<1>1. /\ phase[r] \in Quiescing /\ phase'[r] = "clear" /\ tally' = tally
      /\ net'[r] = net[r] - (count[r] - mpyNet[r]) /\ count'[r] = mpyNet[r]
      /\ mpyNet' = mpyNet
  BY DEF DoCount, Quiescing
<1>2. PICK x \in 0 .. 63 : x = count[r] - mpyNet[r]
  BY <1>0, <1>1, AmountShort
<1>3. /\ net[0] \in Int /\ net[r] \in Int /\ mpyNet[r] \in Int /\ count[r] \in Int
  BY <1>0, ZeroRank, CountsAreInt
<1>4. /\ S \in Shares /\ V \in Shares /\ Totals(S, V) /\ AccountOf(r, S, V)
      /\ V[r] \in Nat
  BY DEF Accounts, Shares
<1>5. Totals(S, V)'
  BY <1>4 DEF Totals
<1>6. /\ Awaited(r) = OnItsWay(r) + Unreported(r) /\ OnItsWay(r) \in Nat
      /\ Unreported(r) = x /\ Awaited(r) \in Nat /\ Unreported(r)' = 0
  <2>1. Unreported(r) = x /\ Unreported(r)' = 0
    BY <1>1, <1>2, <1>3 DEF Unreported, Quiescing
  <2> QED BY <1>0, <2>1, AwaitedType
<1>7. Awaited(r)' = OnItsWay(r)'
  <2>1. Awaited(r)' = OnItsWay(r)' + 0
    BY <1>6 DEF Awaited
  <2>2. OnItsWay(r)' \in Int
    <3>1. CASE r = 0
      BY <3>1, OnItsWayIs
    <3>2. CASE r # 0
      <4>1. Boss(r) \in Rank
        BY <3>2, BossRank
      <4>2. chan'[r][Boss(r)] \in Seq(Message)
        BY <4>1 DEF TypeOK
      <4> QED BY <3>2, <4>2, OnItsWayIs, CountsType
    <3> QED BY <3>1, <3>2
  <2> QED BY <2>1, <2>2
<1>8. Agree(S, S, r) /\ phase'[r] \in Quiescing /\ Awaited(r) \in Int
  BY <1>1, <1>6 DEF Agree, Quiescing
<1>9. CASE r = 0
  <2>1. ASSUME NEW p \in Rank, p # r
        PROVE  AccountOf(p, S, V)'
    <3>1. chan' = chan
      BY <1>9 DEF DoCount
    <3>2. Undisturbed(p)
      BY <1>0, <1>1, <2>1, <3>1, UndisturbedSent
    <3>3. Agree(S, S, p) /\ Agree(V, V, p) /\ AccountOf(p, S, V)
      BY DEF Agree, Accounts
    <3> QED BY <3>2, <3>3, UndisturbedAccount
  <2>2. AccountOf(r, S, V)'
    <3> DEFINE d == -x
    <3>1. OnItsWay(r)' = 0 /\ OnItsWay(r) = 0
      BY <1>0, <1>9, OnItsWayIs
    <3>2. d \in Int /\ d <= 0 /\ Awaited(r)' = Awaited(r) + d
      BY <1>2, <1>6, <1>7, <3>1
    <3>3. r = 0 => net'[0] = net[0] + d - 0
      BY <1>1, <1>2, <1>3
    <3>4. V[r] = V[r] + 0
      BY <1>4
    <3> HIDE DEF d
    <3> QED BY <1>0, <1>1, <1>3, <1>4, <1>8, <1>9, <3>2, <3>3, <3>4, QuiescingAccount
  <2> QED BY <1>4, <1>5, <2>1, <2>2 DEF RoundCredit
<1>10. CASE r # 0
  <2> DEFINE b == Boss(r)
             c == chan[r][b]
             d == chan'[r][b]
             w == Control(4, x, 0)
  <2>1. chan' = Sent(chan, r, {b}, w)
    BY <1>2, <1>10 DEF DoCount
  <2>2. b \in Rank /\ w \in Message /\ w.id = 4 /\ w.n1 = x
    <3>1. x \in -63 .. 63
      BY <1>2
    <3>2. Carried(x) = x
      BY <3>1, CarriedIsFaithful
    <3> QED BY <1>2, <1>10, <3>2, BossRank, ControlType DEF Control
  <2> HIDE DEF w
  <2>3. d = Append(c, w)
    BY <1>0, <1>10, <2>1, <2>2, SentUp
  <2>4. c \in Seq(Message)
    BY <1>0, <2>2 DEF TypeOK
  <2>5. ASSUME NEW p \in Rank, p # r
        PROVE  AccountOf(p, S, V)'
    <3>1. chan'[p][r] = chan[p][r]
      BY <1>0, <2>1, <2>5, SentElsewhere
    <3>2. Undisturbed(p)
      BY <1>0, <1>1, <2>5, <3>1, UndisturbedStaff
    <3>3. Agree(S, S, p) /\ Agree(V, V, p) /\ AccountOf(p, S, V)
      BY DEF Agree, Accounts
    <3> QED BY <3>2, <3>3, UndisturbedAccount
  <2>6. OnItsWay(r)' = OnItsWay(r) + x
    <3>1. OnItsWay(r)' = WayOf(d) /\ OnItsWay(r) = WayOf(c)
      BY <1>0, <1>10, OnItsWayIs
    <3>2. WayOf(d) = WayOf(c) + x
      <4> HIDE DEF c, d
      <4> QED BY <2>2, <2>3, <2>4, WayAppend
    <3> QED BY <3>1, <3>2
  <2>7. Awaited(r)' = Awaited(r) + 0
    BY <1>2, <1>6, <1>7, <2>6
  <2>8. ASSUME NEW i \in DOMAIN d, d[i].id = 3
        PROVE  Old(r, b, d[i])
    <3> HIDE DEF c, d, b
    <3>1. /\ DOMAIN d = 1 .. Len(c) + 1 /\ d[Len(c) + 1] = w /\ Len(c) \in Nat
          /\ DOMAIN c = 1 .. Len(c) /\ \A j \in DOMAIN c : d[j] = c[j]
      BY <2>2, <2>3, <2>4, ChanType, ChanAppend
    <3>2. i \in DOMAIN c
      BY <2>2, <2>8, <3>1
    <3>3. c[i] = d[i]
      BY <3>1, <3>2
    <3> QED BY <3>2, <3>3 DEF Old, c
  <2>9. r # 0 => /\ 0 = 0 /\ tally'[Boss(r)][r] = tally[Boss(r)][r]
                 /\ \A i \in DOMAIN chan'[r][Boss(r)] :
                      chan'[r][Boss(r)][i].id = 3 =>
                        Old(r, Boss(r), chan'[r][Boss(r)][i])
    BY <1>1, <2>8
  <2>10. V[r] = V[r] + 0
    BY <1>4
  <2>11. AccountOf(r, S, V)'
    BY <1>0, <1>1, <1>3, <1>4, <1>8, <1>10, <2>7, <2>9, <2>10, QuiescingAccount
  <2> QED BY <1>4, <1>5, <2>5, <2>11 DEF RoundCredit
<1> QED BY <1>9, <1>10

\* Rank 0 returns: what is left of the round is the count of each rank.
LEMMA RoundOver ==
  ASSUME FlowInv, LocalInv, EdgeInv, WaveInv, DataInv, OwnCredit, NEW r \in Rank,
         Does(r), Alone(r), phase[0] \in {"ack", "leaving"},
         phase'[0] \notin {"ack", "leaving"}
  PROVE  RoundCredit'
<1>1. r = 0
  BY ZeroRank DEF Alone, Same
<1>2. DoLeave(0)
  BY <1>1, WaveDoes
     DEF Idles, DoClear, Quiescing, DoPause, DoPass, DoAck, DoReturn
<1>3. /\ phase[0] = "leaving" /\ phase'[0] = "idle"
      /\ chan' = chan /\ mpyNet' = mpyNet /\ sends' = sends
  BY <1>2 DEF DoLeave
<1>4. \A p \in Rank : phase'[p] \in Before
  <2>1. \A p \in Rank : phase[p] \in {"leaving", "idle"}
    BY <1>3, AllLeft
  <2>2. \A p \in Rank : p # 0 => phase'[p] = phase[p]
    BY <1>1 DEF Alone, Same
  <2> QED BY <1>3, <2>1, <2>2 DEF Before, Outside
<1>5. PICK S \in Shares, V \in Shares :
        Totals(S, V) /\ \A p \in Rank : mpyNet[p] = S[p] - V[p]
  BY DEF OwnCredit
<1>6. Totals(S, V)'
  <2>1. InTransit' = InTransit
    BY <1>3, TransitStays
  <2> QED BY <1>3, <1>5, <2>1 DEF Totals
<1>7. \A p \in Rank : AccountOf(p, S, V)'
  BY <1>3, <1>4, <1>5, AccountBefore
<1> QED BY <1>6, <1>7 DEF RoundCredit

\* The boss of a rank that has heard id=5 is waiting for id=6.
LEMMA CompleteHeard ==
  ASSUME FlowInv, EdgeInv, phase[0] # "ack", NEW r \in Rank, Does(r)
  PROVE  /\ \A q \in Rank, m \in Message : DoClear(r, q, m) => m.id = 4
         /\ r # 0 => ~DoPass(r)
<1>1. ASSUME r # 0
      PROVE  EdgeOf(r, Boss(r)) /\ ~Clearing(r, Boss(r))
  <2>1. EdgeOf(r, Boss(r)) /\ Boss(r) \in Rank
    BY <1>1, BossRank DEF EdgeInv
  <2>2. Boss(r) \in Rank /\ phase[Boss(r)] # "ack"
    BY <2>1, RootAck
  <2> QED BY <2>1, <2>2 DEF Clearing
<1>2. ASSUME NEW q \in Rank, NEW m \in Message, DoClear(r, q, m), m.id # 4
      PROVE  FALSE
  <2>1. r # 0 /\ q = Boss(r) /\ m.id = 5
    BY <1>2, ClearMessage
  <2>2. phase[r] \in Quiescing /\ TakesHead(r, q, m) /\ m # Data
    BY <1>2 DEF DoClear, Takes
  <2>3. ~Plain(chan[q][r])
    BY <2>2, TakesHeadChan DEF FlowInv
  <2> QED BY <1>1, <2>1, <2>2, <2>3
          DEF EdgeOf, Apart, Told, Aware, Reporting, Counting, Outside, Working,
              Quiescing
<1>3. ASSUME r # 0, DoPass(r)
      PROVE  FALSE
  <2>1. phase[r] = "clearing" /\ heard[r] = 5
    BY <1>3 DEF DoPass
  <2> QED BY <1>1, <1>3, <2>1
          DEF EdgeOf, Apart, Told, Aware, Reporting, Counting, Outside, Working,
              Quiescing
<1> QED BY <1>2, <1>3

LEMMA IdleCredit ==
  ASSUME FlowInv, TypeOK', NEW r \in Rank, Alone(r),
         Idles \/ DoPause(r), LocalInv, InTransit' = InTransit, sends' = sends,
         NEW S, NEW V, Accounts(S, V)
  PROVE  RoundCredit'
<1>1. TypeOK
  BY DEF FlowInv
<1>2. chan' = chan /\ tally' = tally /\ mpyNet' = mpyNet /\ net' = net
      /\ count' = count
  BY DEF Idles, DoPause
<1>3. S \in Shares /\ V \in Shares /\ Totals(S, V)'
  BY DEF Accounts, Totals
<1>4. ASSUME NEW p \in Rank, p # r
      PROVE  AccountOf(p, S, V)'
  <2>1. Undisturbed(p)
    BY <1>1, <1>2, <1>4, UndisturbedSent
  <2>2. Agree(S, S, p) /\ Agree(V, V, p) /\ AccountOf(p, S, V)
    BY DEF Agree, Accounts
  <2> QED BY <2>1, <2>2, UndisturbedAccount
<1>5. AccountOf(r, S, V)'
  <2>0. AccountOf(r, S, V)
    BY DEF Accounts
  <2>1. CASE Idles
    <3>3. OnItsWay(r)' = OnItsWay(r)
      BY <1>1, <1>2, OnItsWayIs
    <3>1. Undisturbed(r)
      BY <2>1, <3>3 DEF Idles, Undisturbed, Same, Old
    <3>2. Agree(S, S, r) /\ Agree(V, V, r)
      BY DEF Agree
    <3> QED BY <2>0, <3>1, <3>2, UndisturbedAccount
  <2>2. CASE DoPause(r)
    <3>1. phase[r] = "clearing" /\ phase'[r] = "clear"
      BY <2>2 DEF DoPause
    <3>2. Unreported(r)' = Unreported(r)
      BY <1>2, <3>1 DEF Unreported
    <3>3. OnItsWay(r)' = OnItsWay(r)
      BY <1>1, <1>2, OnItsWayIs
    <3>4. Awaited(r)' = Awaited(r)
      BY <3>2, <3>3 DEF Awaited
    <3>5. Awaited(0)' = Awaited(0) \/ r # 0
      BY <3>4
    <3> QED BY <1>2, <2>0, <3>1, <3>4, <3>5 DEF AccountOf, Outside, Quiescing
  <2> QED BY <2>1, <2>2
<1> QED BY <1>3, <1>4, <1>5 DEF RoundCredit

LEMMA RoundStep ==
  ASSUME FlowInv, TypeOK', LocalInv, EdgeInv, WaveInv, DataInv, CreditInv,
         CountsPositive, CountsPositive', NEW r \in Rank, Does(r), Alone(r),
         Transits(r), phase[0] \notin {"ack", "leaving"},
         phase'[0] \notin {"ack", "leaving"}, RoundCredit
  PROVE  RoundCredit'
<1>1. PICK S, V : Accounts(S, V)
  BY DEF RoundCredit, Accounts
<1>2. phase[r] # "ack"
  BY RootAck
<1>3. ASSUME NEW D \in SUBSET Rank, DoSend(r, D),
             Cardinality(InTransit') = Cardinality(InTransit) + Cardinality(D)
      PROVE  RoundCredit'
  BY <1>1, <1>3, SendCredit
<1>4. ASSUME NEW q \in Rank, DoQueue(r, q) \/ DoThrow(r, q),
             Cardinality(InTransit') = Cardinality(InTransit) - 1, sends' = sends
      PROVE  RoundCredit'
  BY <1>1, <1>2, <1>4, ThrowCredit
<1>5. CASE /\ ~\E D \in SUBSET Rank : DoSend(r, D)
           /\ ~\E q \in Rank : DoQueue(r, q) \/ DoThrow(r, q)
           /\ InTransit' = InTransit /\ sends' = sends
  <2>1. ASSUME phase[r] \in Before, mpyNet' = mpyNet,
               phase'[r] \in Before \/ (phase'[r] = "tally" /\ net'[r] = 0)
        PROVE  RoundCredit'
    BY <1>1, <1>5, <2>1, BeforeCredit
  <2>2. ASSUME Idles \/ DoPause(r)
        PROVE  RoundCredit'
    BY <1>1, <1>5, <2>2, IdleCredit
  <2>3. ASSUME DoWork(r)
        PROVE  RoundCredit'
    BY <2>1, <2>3 DEF DoWork, Before, Outside, Early
  <2>4. ASSUME NEW q \in Rank, NEW m \in Message,
               DoCatch(r, q, m) \/ DoHear(r, q, m) \/ DoDrain(r, q, m)
                 \/ DoListen(r, q, m)
        PROVE  RoundCredit'
    BY <2>1, <2>4 DEF DoCatch, DoHear, DoDrain, DoListen, Enters, Before, Outside,
                      Early
  <2>5. ASSUME NEW m \in Message, DoFault(r, m)
        PROVE  RoundCredit'
    BY <2>1, <2>5 DEF DoFault, Enters, Before, Outside, Early
  <2>6. ASSUME DoAlert(r)
        PROVE  RoundCredit'
    BY <2>1, <2>6 DEF DoAlert, Before, Outside
  <2>7. ASSUME NEW f \in Int, DoSpread(r, f)
        PROVE  RoundCredit'
    BY <2>1, <2>7 DEF DoSpread, Before, Outside
  <2>8. ASSUME NEW q \in Rank, NEW m \in Message, DoTally(r, q, m)
        PROVE  RoundCredit'
    <3>1. CASE m.id = 3
      BY <1>1, <1>5, <2>8, <3>1, TallyReportCredit
    <3>2. CASE m.id = 4
      BY <1>1, <1>5, <2>8, <3>2, TallyCountCredit
    <3> QED BY <2>8, <3>1, <3>2 DEF DoTally
  <2>9. ASSUME DoReport(r)
        PROVE  RoundCredit'
    BY <1>1, <1>5, <2>9, ReportCredit
  <2>10. ASSUME NEW q \in Rank, NEW m \in Message, DoClear(r, q, m)
         PROVE  RoundCredit'
    <3>1. m.id = 4
      BY <2>10, CompleteHeard
    <3> QED BY <1>1, <1>5, <2>10, <3>1, ClearCredit
  <2>11. ASSUME DoCount(r)
         PROVE  RoundCredit'
    BY <1>1, <1>5, <2>11, CountCredit
  <2>12. ~DoPass(r)
    BY CompleteHeard DEF DoPass
  <2>13. ~DoReturn(r) /\ \A q \in Rank, m \in Message : ~DoAck(r, q, m)
    BY <1>2 DEF DoReturn, DoAck
  <2>14. ASSUME DoLeave(r)
         PROVE  RoundCredit'
    BY <2>1, <2>14 DEF DoLeave, Before, Outside
  <2> QED BY <1>5, <2>2, <2>3, <2>4, <2>5, <2>6, <2>7, <2>8, <2>9, <2>10, <2>11,
             <2>12, <2>13, <2>14, Zenon DEF Does
<1> QED BY <1>3, <1>4, <1>5 DEF Transits

LEMMA CreditStep ==
  ASSUME FlowInv, TypeOK', LocalInv, EdgeInv, WaveInv, DataInv, CreditInv,
         NEW r \in Rank, Does(r), Alone(r)
  PROVE  CreditInv'
<1>1. /\ OwnCredit /\ CountsPositive
      /\ phase[0] \notin {"ack", "leaving"} => RoundCredit
  BY CreditOpen
<1>2. DataInv' /\ Transits(r)
  BY DataStep
<1>3. CountsPositive'
  BY CountsPositiveStep
<1>4. OwnCredit'
  BY <1>1, <1>2, OwnStep DEF FlowInv
<1>5. ASSUME phase'[0] \notin {"ack", "leaving"}
      PROVE  RoundCredit'
  <2>1. CASE phase[0] \in {"ack", "leaving"}
    BY <1>1, <1>5, <2>1, RoundOver
  <2>2. CASE phase[0] \notin {"ack", "leaving"}
    BY <1>1, <1>2, <1>3, <1>5, <2>2, RoundStep
  <2> QED BY <2>1, <2>2
<1> QED BY <1>2, <1>3, <1>4, <1>5, CreditClose

-----------------------------------------------------------------------------
(* What the count of rank 0 says.                                          *)

\* The count that rank 0 waits on: data in transit, and data dropped that rank
\* 0 has not heard of.
LEMMA RootCount ==
  ASSUME FlowInv, LocalInv, EdgeInv, CreditInv, phase[0] \in Quiescing,
         NEW A \in Shares, \A p \in Rank : A[p] = Awaited(p)
  PROVE  net[0] = Cardinality(InTransit) + Total(A)
<1>0. TypeOK /\ 0 \in Rank
  BY ZeroRank DEF FlowInv
<1>1. phase[0] \notin {"ack", "leaving"}
  BY DEF Quiescing
<1>2. PICK S \in Shares, V \in Shares :
        Totals(S, V) /\ \A p \in Rank : AccountOf(p, S, V)
  BY <1>1, CreditOpen DEF RoundCredit
<1>3. /\ \A r \in Rank : phase[r] \in Quiescing
      /\ \A s \in Rank \ {0} : Counting(s, Boss(s))
  BY AllQuiescing
<1>4. /\ net[0] \in Int
      /\ \A p \in Rank : S[p] \in Nat /\ V[p] \in Nat /\ A[p] \in Nat
  BY <1>0, CountsAreInt DEF Shares
<1>5. net[0] - A[0] = S[0] - V[0]
  BY <1>0, <1>2, <1>3 DEF AccountOf
<1>6. ASSUME NEW p \in Rank, p # 0
      PROVE  S[p] + A[p] = V[p]
  <2>1. tally[Boss(p)][p] # 0
    BY <1>3, <1>6 DEF Counting
  <2> QED BY <1>2, <1>3, <1>6, <2>1 DEF AccountOf
<1>7. PICK n \in Int : n = net[0]
  BY <1>4
<1> DEFINE D == [p \in Rank |-> IF p = 0 THEN A[0] - n ELSE A[p]]
<1>8. \A p \in Rank : /\ D[p] \in Int /\ D[p] = V[p] - S[p]
                      /\ p # 0 => A[p] = D[p]
  BY <1>0, <1>4, <1>5, <1>6, <1>7
<1>9. D[0] = A[0] - n
  BY <1>0
<1> HIDE DEF D
<1>10. SumOver(D, Rank) = SumOver(V, Rank) - SumOver(S, Rank)
  BY <1>4, <1>8, RankFinite, SumOverDifference
<1>11. SumOver(D, Rank) = SumOver(A, Rank) - A[0] + D[0]
  BY <1>0, <1>4, <1>8, RankFinite, SumOverChange
<1>12. /\ SumOver(S, Rank) = Total(S) /\ SumOver(V, Rank) = Total(V)
       /\ SumOver(A, Rank) = Total(A) /\ Total(A) \in Nat
  BY TotalIs, ShareTotal
<1>13. /\ Total(S) = sends /\ Total(V) + Cardinality(InTransit) = sends
       /\ Total(S) \in Nat /\ Total(V) \in Nat /\ Cardinality(InTransit) \in Nat
  BY <1>2, TotalsType
<1>14. A[0] \in Nat
  BY <1>0, <1>4
<1>15. Total(V) - Total(S) = Total(A) - A[0] + (A[0] - n)
  BY <1>9, <1>10, <1>11, <1>12
<1>16. Total(V) - Total(S) = Total(A) - n
  BY <1>7, <1>12, <1>14, <1>15
<1> QED BY <1>7, <1>12, <1>13, <1>16

LEMMA AwaitedShares ==
  ASSUME TypeOK, LocalInv, CountsPositive
  PROVE  \E A \in Shares : \A p \in Rank : A[p] = Awaited(p)
<1> DEFINE A == [p \in Rank |-> Awaited(p)]
<1>1. \A p \in Rank : Awaited(p) \in Nat
  BY AwaitedType
<1>2. A \in Shares
  BY <1>1 DEF Shares
<1> QED BY <1>2

\* A count of zero says that there is nothing left to clear.
LEMMA CountedOut ==
  ASSUME FlowInv, LocalInv, EdgeInv, DataInv, CreditInv,
         phase[0] = "clear", net[0] = 0
  PROVE  InTransit = {} /\ Settled
<1>0. TypeOK /\ CountsPositive
  BY CreditOpen DEF FlowInv
<1>1. phase[0] = "clear" /\ net[0] = 0
  OBVIOUS
<1>2. PICK A \in Shares : \A p \in Rank : A[p] = Awaited(p)
  BY <1>0, AwaitedShares
<1>3. phase[0] \in Quiescing
  BY <1>1 DEF Quiescing
<1>4. net[0] = Cardinality(InTransit) + Total(A)
  BY <1>2, <1>3, RootCount
<1>5. Cardinality(InTransit) \in Nat /\ Total(A) \in Nat /\ IsFiniteSet(InTransit)
  BY TransitIs, TransitType, ShareTotal
<1>6. Cardinality(InTransit) = 0 /\ Total(A) = 0
  BY <1>1, <1>4, <1>5
<1>7. InTransit = {}
  BY <1>5, <1>6, FS_EmptySet
<1>8. ASSUME NEW p \in Rank
      PROVE  Unreported(p) = 0 /\ OnItsWay(p) = 0
  <2>1. A[p] <= Total(A) /\ A[p] \in Nat
    BY ShareTotal DEF Shares
  <2>2. Awaited(p) = 0
    BY <1>2, <1>6, <2>1
  <2> QED BY <1>0, <2>2, AwaitedType
<1>9. /\ \A r \in Rank : phase[r] \in Quiescing
      /\ \A s \in Rank \ {0} : Counting(s, Boss(s))
  BY <1>3, AllQuiescing
<1>10. ASSUME NEW q \in Rank, NEW r \in Rank, NEW i \in DOMAIN chan[q][r]
       PROVE  chan[q][r][i] # Data
  <2>1. SUFFICES ASSUME chan[q][r][i] = Data
                 PROVE  FALSE
    OBVIOUS
  <2>2. i <= sends /\ sends <= MaxSends
    BY <2>1 DEF DataInv
  <2>3. chan[q][r] \in Seq(Message)
    BY <1>0 DEF TypeOK
  <2>4. i \in Nat /\ i >= 1
    BY <2>3, ChanType
  <2>5. sends \in Nat /\ MaxSends \in Nat
    BY <1>0, BoundsAssumption DEF TypeOK
  <2>6. i \in 1 .. MaxSends
    BY <2>2, <2>4, <2>5
  <2>7. <<q, r, i>> \in InTransit
    BY <2>1, <2>6 DEF InTransit
  <2> QED BY <1>7, <2>7
<1>11. ASSUME NEW q \in Rank, NEW r \in Rank, NEW i \in DOMAIN chan[q][r]
       PROVE  FALSE
  <2>1. chan[q][r][i] \in OnEdge(q, r)
    <3>1. chan[q][r] \in Seq(OnEdge(q, r))
      BY DEF FlowInv, ControlFollowsTree
    <3> QED BY <3>1, LenProperties, ElementOfSeq
  <2>2. CASE q \in Staff(r)
    <3>1. q # 0 /\ Boss(q) = r
      BY <2>2, StaffInvertsBoss
    <3>2. Counts(chan[q][r])
      BY <1>9, <3>1 DEF Counting
    <3>3. OnItsWay(q) = WayOf(chan[q][r])
      BY <1>0, <3>1, OnItsWayIs
    <3> DEFINE c == chan[q][r]
    <3>4. /\ c \in Seq(Message) /\ i \in DOMAIN c /\ c[i].id = 4 /\ WayOf(c) = 0
          /\ \A j \in DOMAIN c : c[j].id = 4 => c[j].n1 >= 1
      <4>1. c \in Seq(Message)
        BY <1>0 DEF TypeOK
      <4> QED BY <1>0, <1>8, <3>2, <3>3, <4>1 DEF Counts, CountsPositive
    <3> HIDE DEF c
    <3>5. \A j \in CountsAt(c) : Amounts(c)[j] \in Nat /\ Amounts(c)[j] = c[j].n1
      <4>1. \A j \in CountsAt(c) : j \in DOMAIN c /\ c[j].id = 4
        BY DEF CountsAt
      <4> QED BY <3>4, <4>1, CountsType
    <3>6. i \in CountsAt(c) /\ IsFiniteSet(CountsAt(c))
      BY <3>4, CountsType DEF CountsAt
    <3>7. Amounts(c)[i] <= 0
      BY <3>4, <3>5, <3>6, SumOverNat DEF WayOf
    <3>8. c[i].n1 >= 1 /\ c[i].n1 \in Nat
      BY <3>4, <3>5, <3>6
    <3> QED BY <3>5, <3>6, <3>7, <3>8
  <2>3. CASE r \in Staff(q)
    <3>1. r # 0 /\ Boss(r) = q
      BY <2>3, StaffInvertsBoss
    <3>2. Plain(chan[q][r])
      BY <1>9, <3>1 DEF Counting
    <3> QED BY <1>10, <3>2 DEF Plain
  <2> QED BY <1>10, <2>1, <2>2, <2>3 DEF OnEdge
<1> QED BY <1>7, <1>8, <1>11 DEF Settled, Hushed

\* Rank 0 ends the recovery when there is nothing left to clear.
LEMMA PassSettled ==
  ASSUME FlowInv, LocalInv, EdgeInv, DataInv, CreditInv, DoPass(0)
  PROVE  InTransit = {} /\ Settled
<1>1. phase[0] = "clear" /\ net[0] = 0
  BY DEF DoPass, LocalInv, RootLocal
<1> QED BY <1>1, CountedOut

-----------------------------------------------------------------------------
(* The messages of the halted task that are left.                          *)

Lengths(Q) == [r \in Rank |-> Len(Q[r])]
Queued(Q) == MapThenSumSet(LAMBDA r : Len(Q[r]), Rank)

LEMMA QueuedIs ==
  ASSUME NEW Q
  PROVE  Queued(Q) = SumOver(Lengths(Q), Rank)
<1> DEFINE f == Lengths(Q)
           S == Rank
<1>0. IsFiniteSet(S) /\ \A r \in S : f[r] = Len(Q[r])
  BY RankFinite DEF Lengths
<1> HIDE DEF S, f
<1> DEFINE Is(F) ==
             F = [s \in SUBSET S |->
                    IF s = {} THEN 0
                    ELSE Len(Q[CHOOSE x \in s : TRUE])
                           + F[s \ {CHOOSE x \in s : TRUE}]]
           G == CHOOSE F : Is(F)
<1>1. MapThenSumSet(LAMBDA r : Len(Q[r]), S) = G[S]
  BY DEF MapThenSumSet, MapThenFoldSet
<1>2. ASSUME NEW F
      PROVE  Is(F) <=> Sums(F, f, S)
  <2> DEFINE A == [s \in SUBSET S |->
                     IF s = {} THEN 0 ELSE f[Chosen(s)] + F[s \ {Chosen(s)}]]
             B == [s \in SUBSET S |->
                     IF s = {} THEN 0 ELSE Len(Q[Chosen(s)]) + F[s \ {Chosen(s)}]]
  <2>1. \A s \in SUBSET S : s # {} => f[Chosen(s)] = Len(Q[Chosen(s)])
    BY <1>0, ChosenType
  <2>2. \A s \in SUBSET S : A[s] = B[s]
    BY <2>1
  <2>3. A = B
    BY <2>2
  <2> QED BY <2>3 DEF Sums, Chosen
<1> HIDE DEF Is
<1>3. Is(G)
  <2>1. \E F : Is(F)
    BY <1>0, <1>2, SumsExist
  <2> QED BY <2>1
<1> HIDE DEF G
<1>4. G[S] = SumOver(f, S)
  BY <1>0, <1>2, <1>3, SumOverAny
<1> QED BY <1>1, <1>4 DEF S, f, Queued

LEMMA TotalChange ==
  ASSUME NEW f, NEW g, NEW a \in Rank, \A r \in Rank : f[r] \in Int /\ g[r] \in Int,
         \A r \in Rank : r # a => f[r] = g[r]
  PROVE  SumOver(g, Rank) = SumOver(f, Rank) - f[a] + g[a]
BY RankFinite, SumOverChange

LEMMA QueuedChange ==
  ASSUME NEW P \in [Rank -> Seq(Rank)], NEW Q \in [Rank -> Seq(Rank)], NEW a \in Rank,
         \A r \in Rank : r # a => Q[r] = P[r]
  PROVE  /\ Queued(P) \in Nat /\ Queued(Q) \in Nat
         /\ Queued(Q) = Queued(P) - Len(P[a]) + Len(Q[a])
         /\ Len(P[a]) \in Nat /\ Len(Q[a]) \in Nat
<1> DEFINE f == Lengths(P)
           g == Lengths(Q)
<1>1. \A r \in Rank : /\ f[r] = Len(P[r]) /\ g[r] = Len(Q[r])
                      /\ f[r] \in Nat /\ g[r] \in Nat
                      /\ r # a => f[r] = g[r]
  <2>1. ASSUME NEW r \in Rank
        PROVE  Len(P[r]) \in Nat /\ Len(Q[r]) \in Nat
    <3>1. P[r] \in Seq(Rank) /\ Q[r] \in Seq(Rank)
      OBVIOUS
    <3> QED BY <3>1, LenProperties
  <2> QED BY <2>1 DEF Lengths
<1>2. Queued(P) = SumOver(f, Rank) /\ Queued(Q) = SumOver(g, Rank)
  BY QueuedIs
<1> HIDE DEF f, g
<1>3. SumOver(f, Rank) \in Nat /\ SumOver(g, Rank) \in Nat
  BY <1>1, RankFinite, SumOverNat
<1>4. SumOver(g, Rank) = SumOver(f, Rank) - f[a] + g[a]
  <2>1. \A r \in Rank : f[r] \in Int /\ g[r] \in Int
    BY <1>1
  <2>2. \A r \in Rank : r # a => f[r] = g[r]
    BY <1>1
  <2> QED BY <2>1, <2>2, TotalChange
<1> QED BY <1>1, <1>2, <1>3, <1>4

LEMMA PendingIs ==
  /\ PendingNow = Cardinality(InTransit) + Queued(mpyQueue)
  /\ PendingNow' = Cardinality(InTransit') + Queued(mpyQueue')
  /\ PendingInv <=> PendingNow <= sends
  /\ PendingInv' <=> PendingNow' <= sends'
<1>1. PendingNow = Cardinality(InTransit) + Queued(mpyQueue)
  BY DEF PendingNow, Queued
<1>2. PendingNow' = Cardinality(InTransit') + Queued(mpyQueue')
  BY DEF PendingNow, Queued, MapThenSumSet, MapThenFoldSet
<1>3. PendingInv <=> PendingNow <= sends
  BY DEF PendingInv, PendingNow
<1>4. PendingInv' <=> PendingNow' <= sends'
  BY DEF PendingInv, PendingNow
<1> QED BY <1>1, <1>2, <1>3, <1>4

\* What a step does to the messages that are pending.
LEMMA QueueDoes ==
  ASSUME FlowInv, LocalInv, NEW r \in Rank, Does(r)
  PROVE  \/ mpyQueue'[r] = mpyQueue[r]
         \/ Len(mpyQueue'[r]) = Len(mpyQueue[r]) - 1
         \/ Len(mpyQueue'[r]) = 0
         \/ \E q \in Rank : DoQueue(r, q) /\ mpyQueue'[r] = Append(mpyQueue[r], q)
<1>1. Len(<< >>) = 0
  OBVIOUS
<1> QED BY <1>1 DEF Does, Idles, DoSend, DoWork, DoQueue, DoCatch, DoFault, DoHear,
                    DoThrow, DoDrain, DoListen, DoAlert, DoSpread, DoTally, DoReport,
                    DoClear, DoPause, DoCount, DoPass, DoAck, DoReturn, DoLeave,
                    Enters, QueueShorter

LEMMA PendingStep ==
  ASSUME FlowInv, TypeOK', LocalInv, NEW r \in Rank, Does(r), Alone(r), Transits(r),
         PendingInv
  PROVE  /\ PendingInv'
         /\ (~\E D \in SUBSET Rank : DoSend(r, D)) => PendingNow' <= PendingNow
<1> DEFINE n == Queued(mpyQueue)
           m == Queued(mpyQueue')
           j == Len(mpyQueue[r])
           k == Len(mpyQueue'[r])
           t == Cardinality(InTransit)
           u == Cardinality(InTransit')
<1>1. n \in Nat /\ m \in Nat /\ m = n - j + k /\ j \in Nat /\ k \in Nat
  <2>1. mpyQueue \in [Rank -> Seq(Rank)] /\ mpyQueue' \in [Rank -> Seq(Rank)]
    BY DEF FlowInv, TypeOK
  <2>2. \A p \in Rank : p # r => mpyQueue'[p] = mpyQueue[p]
    BY DEF Alone, Same
  <2> QED BY <2>1, <2>2, QueuedChange
<1>2. t \in Nat /\ u \in Nat
  BY TransitIs, TransitType
<1>3. sends \in Nat /\ sends' \in Nat /\ t + n <= sends
  <2>1. sends \in Nat /\ sends' \in Nat
    BY DEF FlowInv, TypeOK
  <2> QED BY <2>1, PendingIs
<1>4. \/ k = j \/ k = j - 1 \/ k = 0
      \/ k = j + 1 /\ \E q \in Rank : DoQueue(r, q)
  <2>1. ASSUME NEW q \in Rank, mpyQueue'[r] = Append(mpyQueue[r], q)
        PROVE  k = j + 1
    <3>1. mpyQueue[r] \in Seq(Rank)
      BY DEF FlowInv, TypeOK
    <3> QED BY <2>1, <3>1, AppendProperties
  <2> QED BY <2>1, QueueDoes
<1>5. PendingNow = t + n /\ PendingNow' = u + m
  BY PendingIs
<1> HIDE DEF n, m, j, k, t, u
<1>6. ASSUME NEW D \in SUBSET Rank, DoSend(r, D),
             Cardinality(InTransit') = Cardinality(InTransit) + Cardinality(D)
      PROVE  u + m <= sends'
  <2>1. ~\E q \in Rank : DoQueue(r, q)
    BY <1>6, ZeroRank DEF DoSend, DoQueue, TypeOK, FlowInv
  <2> DEFINE d == Cardinality(D)
  <2>2. d \in Nat
    <3>1. IsFiniteSet(D)
      BY RankFinite, FS_Subset
    <3> QED BY <3>1, FS_CardinalityType
  <2>3. sends' = sends + d /\ u = t + d
    BY <1>6 DEF DoSend, u, t
  <2> HIDE DEF d
  <2> QED BY <1>1, <1>2, <1>3, <1>4, <2>1, <2>2, <2>3
<1>7. ASSUME NEW q \in Rank, DoQueue(r, q) \/ DoThrow(r, q),
             Cardinality(InTransit') = Cardinality(InTransit) - 1, sends' = sends
      PROVE  u + m <= sends' /\ u + m <= t + n
  <2>1. u = t - 1
    BY <1>7 DEF u, t
  <2> QED BY <1>1, <1>2, <1>3, <1>4, <1>7, <2>1
<1>8. CASE /\ ~\E q \in Rank : DoQueue(r, q) \/ DoThrow(r, q)
           /\ InTransit' = InTransit /\ sends' = sends
  <2>1. u = t
    BY <1>8 DEF u, t
  <2>2. u + m <= sends' /\ u + m <= t + n
    BY <1>1, <1>2, <1>3, <1>4, <1>8, <2>1
  <2> QED BY <1>5, <2>2, PendingIs
<1>9. \/ \E D \in SUBSET Rank : DoSend(r, D)
      \/ PendingNow' <= PendingNow
  BY <1>5, <1>7, <1>8 DEF Transits
<1>10. u + m <= sends'
  BY <1>3, <1>5, <1>6, <1>7, <1>8, PendingIs DEF Transits
<1> QED BY <1>5, <1>9, <1>10, PendingIs

-----------------------------------------------------------------------------
(* The induction.                                                          *)

LEMMA RoundInit ==
  ASSUME Init
  PROVE  RoundInv
<1>1. /\ \A r \in Rank : /\ phase[r] = "task" /\ mpyNet[r] = 0 /\ ~quiet[r]
                         /\ \A q \in Rank : chan[q][r] = << >> /\ tally[r][q] = 0
      /\ sends = 0
  BY DEF Init
<1>2. 0 \in Rank /\ MaxSends \in Nat
  BY ZeroRank, BoundsAssumption
<1>3. \A s \in Rank \ {0} : Boss(s) \in Rank
  BY BossRank
<1>4. LocalInv
  BY <1>1, <1>2 DEF LocalInv, LocalOf, RootLocal, Halting
<1>5. EdgeInv
  BY <1>1, <1>3 DEF EdgeInv, EdgeOf, Apart, HasVerdict, Plain, MaybeAlert, Outside
<1>6. DataInv
  BY <1>1, <1>2 DEF DataInv
<1>7. FrankInv
  BY <1>1, <1>3 DEF FrankInv, NamedInv, FrankOf, Judged, HasVerdict
<1>8. WaveInv
  BY <1>1, <1>2 DEF WaveInv
<1>9. InTransit = {}
  BY <1>1 DEF InTransit
<1>10. Cardinality(InTransit) = 0
  BY <1>9, FS_EmptySet
<1>11. CreditInv
  <2> DEFINE Z == [r \in Rank |-> 0]
  <2>1. Z \in [Rank -> 0 .. MaxSends] /\ Z \in Shares
    BY <1>2 DEF Shares
  <2>2. Total(Z) = 0
    BY <2>1, ShareZero
  <2>3. Totals(Z, Z)
    BY <1>1, <1>10, <2>2 DEF Totals
  <2>4. \A r \in Rank : mpyNet[r] = Z[r] - Z[r]
    BY <1>1
  <2> HIDE DEF Z
  <2>5. \A r \in Rank : AccountOf(r, Z, Z)
    BY <1>1, <2>4 DEF AccountOf, Outside, Quiescing
  <2>6. \A q, r \in Rank : \A i \in DOMAIN chan[q][r] :
          chan[q][r][i].id = 4 => chan[q][r][i].n1 >= 1
    BY <1>1
  <2> QED BY <2>1, <2>3, <2>4, <2>5, <2>6 DEF CreditInv
<1>12. PendingNow = 0 /\ PendingInv
  <2>1. mpyQueue \in [Rank -> Seq(Rank)] /\ \A r \in Rank : Len(mpyQueue[r]) = 0
    BY EmptySeq DEF Init
  <2> DEFINE f == Lengths(mpyQueue)
  <2>2. f \in Shares /\ \A r \in Rank : f[r] = 0
    BY <2>1 DEF Lengths, Shares
  <2> HIDE DEF f
  <2>3. SumOver(f, Rank) = 0
    BY <2>2, ShareZero, TotalIs
  <2>4. Queued(mpyQueue) = 0
    BY <2>3, QueuedIs DEF f
  <2> QED BY <1>1, <1>10, <2>4, PendingIs
<1> QED BY <1>4, <1>5, <1>6, <1>7, <1>8, <1>11, <1>12 DEF RoundInv

LEMMA RoundDoes ==
  ASSUME FlowInv, FlowInv', RoundInv, NEW r \in Rank, Does(r), Alone(r)
  PROVE  RoundInv' /\ Transits(r)
<1>1. /\ LocalInv /\ EdgeInv /\ DataInv /\ FrankInv /\ WaveInv /\ CreditInv
      /\ PendingInv
  BY DEF RoundInv
<1>2. TypeOK'
  BY DEF FlowInv
<1>3. Does(r) /\ Alone(r)
  OBVIOUS
<1>4. r = 0 /\ DoPass(0) => Settled /\ Hushed
  BY <1>1, PassSettled DEF Settled
<1>5. LocalInv'
  BY <1>1, <1>3, LocalStep
<1>6. EdgeInv'
  BY <1>1, <1>3, <1>4, EdgeStep
<1>7. DataInv' /\ Transits(r)
  BY <1>1, <1>2, <1>3, DataStep
<1>8. FrankInv'
  BY <1>1, <1>3, FrankStep
<1>9. WaveInv'
  BY <1>1, <1>3, <1>4, WaveStep
<1>10. CreditInv'
  BY <1>1, <1>2, <1>3, CreditStep
<1>11. PendingInv'
  BY <1>1, <1>2, <1>3, <1>7, PendingStep
<1> QED BY <1>5, <1>6, <1>7, <1>8, <1>9, <1>10, <1>11 DEF RoundInv

\* Every step of the job is one of some rank, or leaves all but fatal as it is.
LEMMA NextDoes ==
  ASSUME FlowInv, RoundInv, [Next]_vars
  PROVE  \E r \in Rank : Does(r) /\ Alone(r)
<1>1. LocalInv /\ EdgeInv
  BY DEF RoundInv
<1>2. ASSUME NEW r \in Rank, Acts(r)
      PROVE  Does(r) /\ Alone(r)
  BY <1>1, <1>2, StepDoes
<1>3. CASE UNCHANGED vars
  <2>1. Idles
    BY <1>3 DEF vars, locals, Idles
  <2> QED BY <2>1, AloneIdles, ZeroRank DEF Does
<1>4. CASE Next /\ ~UNCHANGED vars
  <2>1. MpExec \/ Complete \/ \E r \in Rank : Step(r)
    BY <1>4 DEF Next, Rest
  <2>2. \E r \in Rank : Acts(r)
    BY <2>1, ZeroRank DEF Acts
  <2> QED BY <1>2, <2>2
<1> QED BY <1>3, <1>4

\* In every job, whatever ranks fault and in whatever order alerts, data, counts
\* and acknowledgements arrive: each edge of the tree is at one of the places of
\* the protocol (mpy.c:838-871) with no other message on it, and each data
\* message is accounted for by one rank.
THEOREM RoundCorrect == Spec => [](FlowInv /\ RoundInv)
<1>1. Init => RoundInv
  BY RoundInit
<1>2. FlowInv /\ FlowInv' /\ RoundInv /\ [Next]_vars => RoundInv'
  BY NextDoes, RoundDoes
<1>3. Spec => []FlowInv
  BY FlowInductive
<1> QED BY <1>1, <1>2, <1>3, PTL DEF Spec

-----------------------------------------------------------------------------
(* What the invariant says of the recovery.                                *)

LEMMA AgreedOf ==
  ASSUME FlowInv, RoundInv
  PROVE  FrankAgreed
<1>0. EdgeInv /\ FrankInv /\ WaveInv /\ NamedInv
  BY DEF RoundInv, FrankInv
<1>1. ASSUME NEW r \in Rank, phase[r] \in {"tally", "clear", "clearing", "ack"}
      PROVE  frank[r] = frank[0] /\ frank[r] \in faulted
  <2>1. phase[r] \in Judging /\ Judged(r)
    BY <1>1 DEF Judging, Quiescing, Judged
  <2> QED BY <1>0, <2>1, OneFrank DEF NamedInv
<1>2. ASSUME NEW r \in Rank, phase[0] = "leaving"
      PROVE  frank[r] = frank[0] /\ frank[r] \in faulted
  BY <1>0, <1>2 DEF WaveInv
<1> QED BY <1>1, <1>2 DEF FrankAgreed

\* The verdict reaches every rank unharmed: all that have heard it agree with
\* rank 0 on the fault rank, and it is one whose code did fault (frank of
\* mpy_recover, and its return value).
THEOREM AgreedCorrect == Spec => []FrankAgreed
<1>1. Spec => [](FlowInv /\ RoundInv)
  BY RoundCorrect
<1> QED BY <1>1, AgreedOf, PTL

LEMMA ClearedOf ==
  ASSUME FlowInv, RoundInv
  PROVE  NothingLeftToClear
<1> SUFFICES ASSUME NEW p \in Rank, phase[p] = "ack"
             PROVE  InTransit = {} /\ \A r \in Rank : phase[r] \notin Working
  BY DEF NothingLeftToClear
<1>1. EdgeInv /\ WaveInv
  BY DEF RoundInv
<1>2. phase[0] = "ack"
  BY <1>1, RootAck
<1>3. \A q, r \in Rank : \A i \in DOMAIN chan[q][r] : chan[q][r][i] # Data
  BY <1>1, <1>2, DataId DEF WaveInv
<1>4. InTransit = {}
  BY <1>3 DEF InTransit
<1>5. \A r \in Rank : phase[r] \notin Working
  BY <1>1, <1>2 DEF WaveInv, Stopped, Working
<1> QED BY <1>4, <1>5

\* "Recovery complete" (id=5) is passed down only when no data message is left
\* anywhere and no rank is still at work: the loop of mpy_recover at 1019 ends
\* in time.
THEOREM ClearedCorrect == Spec => []NothingLeftToClear
<1>1. Spec => [](FlowInv /\ RoundInv)
  BY RoundCorrect
<1> QED BY <1>1, ClearedOf, PTL

LEMMA LeftOf ==
  ASSUME FlowInv, RoundInv
  PROVE  QuietWhenRootLeaves
<1> SUFFICES ASSUME phase[0] = "leaving", NEW r \in Rank
             PROVE  /\ r # 0 => phase[r] \in {"idle", "leaving"}
                    /\ mpyQueue[r] = << >>
                    /\ \A q \in Rank : \A i \in DOMAIN chan[q][r] :
                         chan[q][r][i].id = 6 /\ phase[q] = "leaving"
  BY DEF QuietWhenRootLeaves
<1>1. EdgeInv /\ WaveInv
  BY DEF RoundInv
<1>2. phase[r] \in {"leaving", "idle"} /\ \A q \in Rank : chan[q][r] = << >>
  BY <1>1, AllLeft
<1>3. mpyQueue[r] = << >>
  BY <1>1 DEF WaveInv
<1> QED BY <1>2, <1>3

\* When rank 0 is about to return from mpy_recover, every other rank is back in
\* its idle loop or on its way there, and nothing of the halted task or of the
\* protocol is in transit or queued.
THEOREM QuietCorrect == Spec => []QuietWhenRootLeaves
<1>1. Spec => [](FlowInv /\ RoundInv)
  BY RoundCorrect
<1> QED BY <1>1, LeftOf, PTL

LEMMA UnreportedIs ==
  ASSUME NEW S, IsFiniteSet(S), NEW f, \A r \in S : f[r] = Unreported(r)
  PROVE  MapThenSumSet(Unreported, S) = SumOver(f, S)
<1> DEFINE Is(F) ==
             F = [s \in SUBSET S |->
                    IF s = {} THEN 0
                    ELSE Unreported(CHOOSE x \in s : TRUE)
                           + F[s \ {CHOOSE x \in s : TRUE}]]
           G == CHOOSE F : Is(F)
<1>1. MapThenSumSet(Unreported, S) = G[S]
  BY DEF MapThenSumSet, MapThenFoldSet
<1>2. ASSUME NEW F
      PROVE  Is(F) <=> Sums(F, f, S)
  <2> DEFINE A == [s \in SUBSET S |->
                     IF s = {} THEN 0 ELSE f[Chosen(s)] + F[s \ {Chosen(s)}]]
             B == [s \in SUBSET S |->
                     IF s = {} THEN 0 ELSE Unreported(Chosen(s)) + F[s \ {Chosen(s)}]]
  <2>1. \A s \in SUBSET S : s # {} => f[Chosen(s)] = Unreported(Chosen(s))
    BY ChosenType
  <2>2. \A s \in SUBSET S : A[s] = B[s]
    BY <2>1
  <2>3. A = B
    BY <2>2
  <2> QED BY <2>3 DEF Sums, Chosen
<1> HIDE DEF Is
<1>3. Is(G)
  <2>1. \E F : Is(F)
    BY <1>2, SumsExist
  <2> QED BY <2>1
<1> HIDE DEF G
<1> QED BY <1>1, <1>2, <1>3, SumOverAny

LEMMA OnTheirWayIs ==
  ASSUME NEW S, IsFiniteSet(S), NEW f, \A r \in S : f[r] = OnItsWay(r)
  PROVE  MapThenSumSet(OnItsWay, S) = SumOver(f, S)
<1> DEFINE Is(F) ==
             F = [s \in SUBSET S |->
                    IF s = {} THEN 0
                    ELSE OnItsWay(CHOOSE x \in s : TRUE)
                           + F[s \ {CHOOSE x \in s : TRUE}]]
           G == CHOOSE F : Is(F)
<1>1. MapThenSumSet(OnItsWay, S) = G[S]
  BY DEF MapThenSumSet, MapThenFoldSet
<1>2. ASSUME NEW F
      PROVE  Is(F) <=> Sums(F, f, S)
  <2> DEFINE A == [s \in SUBSET S |->
                     IF s = {} THEN 0 ELSE f[Chosen(s)] + F[s \ {Chosen(s)}]]
             B == [s \in SUBSET S |->
                     IF s = {} THEN 0 ELSE OnItsWay(Chosen(s)) + F[s \ {Chosen(s)}]]
  <2>1. \A s \in SUBSET S : s # {} => f[Chosen(s)] = OnItsWay(Chosen(s))
    BY ChosenType
  <2>2. \A s \in SUBSET S : A[s] = B[s]
    BY <2>1
  <2>3. A = B
    BY <2>2
  <2> QED BY <2>3 DEF Sums, Chosen
<1> HIDE DEF Is
<1>3. Is(G)
  <2>1. \E F : Is(F)
    BY <1>2, SumsExist
  <2> QED BY <2>1
<1> HIDE DEF G
<1> QED BY <1>1, <1>2, <1>3, SumOverAny

LEMMA ExactOf ==
  ASSUME FlowInv, RoundInv
  PROVE  NetExact
<1> SUFFICES ASSUME phase[0] \in {"clear", "clearing"}
             PROVE  net[0] = Cardinality(InTransit)
                             + MapThenSumSet(Unreported, Rank)
                             + MapThenSumSet(OnItsWay, Rank)
  BY DEF NetExact
<1>1. LocalInv /\ EdgeInv /\ CreditInv
  BY DEF RoundInv
<1>2. TypeOK /\ CountsPositive
  BY <1>1, CreditOpen DEF FlowInv
<1>3. PICK A \in Shares : \A p \in Rank : A[p] = Awaited(p)
  BY <1>1, <1>2, AwaitedShares
<1>4. net[0] = Cardinality(InTransit) + Total(A)
  <2>1. phase[0] \in Quiescing
    BY DEF Quiescing
  <2> QED BY <1>1, <1>3, <2>1, RootCount
<1> DEFINE U == [p \in Rank |-> Unreported(p)]
           O == [p \in Rank |-> OnItsWay(p)]
<1>5. \A p \in Rank : /\ U[p] = Unreported(p) /\ O[p] = OnItsWay(p)
                      /\ U[p] \in Nat /\ O[p] \in Nat /\ A[p] = O[p] + U[p]
  BY <1>1, <1>2, <1>3, AwaitedType
<1> HIDE DEF U, O
<1>6. MapThenSumSet(Unreported, Rank) = SumOver(U, Rank)
  BY <1>5, RankFinite, UnreportedIs
<1>7. MapThenSumSet(OnItsWay, Rank) = SumOver(O, Rank)
  BY <1>5, RankFinite, OnTheirWayIs
<1>8. SumOver(O, Rank) = SumOver(A, Rank) - SumOver(U, Rank)
  <2>1. \A p \in Rank : A[p] \in Int /\ U[p] \in Int /\ O[p] = A[p] - U[p]
    BY <1>5
  <2> QED BY <2>1, RankFinite, SumOverDifference
<1>9. SumOver(U, Rank) \in Nat /\ SumOver(A, Rank) \in Nat
  BY <1>5, RankFinite, SumOverNat
<1>10. Cardinality(InTransit) \in Nat
  BY TransitIs, TransitType
<1>11. Total(A) = SumOver(A, Rank)
  BY TotalIs
<1> QED BY <1>4, <1>6, <1>7, <1>8, <1>9, <1>10, <1>11

\* The count rank 0 waits on is exact, whatever the order in which data, id=3
\* and id=4 arrive: it ends neither early nor late (net of mpy_recover).
THEOREM ExactCorrect == Spec => []NetExact
<1>1. Spec => [](FlowInv /\ RoundInv)
  BY RoundCorrect
<1> QED BY <1>1, ExactOf, PTL

-----------------------------------------------------------------------------
(* The refinement of MpyHalt.                                              *)

LEMMA PendingMoves ==
  ASSUME FlowInv, FlowInv', RoundInv, RoundInv', NEW r \in Rank, Does(r), Alone(r),
         Transits(r)
  PROVE  /\ PendingNow \in Nat /\ PendingNow' \in 0 .. MaxSends
         /\ (~\E D \in SUBSET Rank : DoSend(r, D)) => PendingNow' \in 0 .. PendingNow
         /\ \A q \in Rank : DoThrow(r, q) => PendingNow > 0 /\ PendingNow' = PendingNow - 1
         /\ mpyQueue' = mpyQueue /\ InTransit' = InTransit => PendingNow' = PendingNow
<1> DEFINE n == Queued(mpyQueue)
           m == Queued(mpyQueue')
           t == Cardinality(InTransit)
           u == Cardinality(InTransit')
<1>1. TypeOK /\ TypeOK' /\ LocalInv /\ PendingInv /\ PendingInv' /\ sends' <= MaxSends
  BY DEF FlowInv, RoundInv, DataInv
<1>2. mpyQueue \in [Rank -> Seq(Rank)] /\ mpyQueue' \in [Rank -> Seq(Rank)]
      /\ sends' \in Nat
  BY <1>1 DEF TypeOK
<1>3. n \in Nat /\ m \in Nat
  <2>1. Queued(mpyQueue) \in Nat
    BY <1>2, QueuedChange
  <2>2. Queued(mpyQueue') \in Nat
    BY <1>2, QueuedChange
  <2> QED BY <2>1, <2>2
<1>4. t \in Nat /\ u \in Nat
  BY TransitIs, TransitType
<1>5. PendingNow = t + n /\ PendingNow' = u + m /\ PendingNow' <= sends'
  BY <1>1, PendingIs
<1>6. mpyQueue' = mpyQueue => m = n
  OBVIOUS
<1>7. InTransit' = InTransit => u = t
  OBVIOUS
<1>8. ASSUME NEW q \in Rank, DoThrow(r, q)
      PROVE  u = t - 1 /\ t >= 1 /\ mpyQueue' = mpyQueue
  <2>1. phase[r] \in Halting
    BY <1>8 DEF DoThrow, Halting, Quiescing
  <2>2. ~\E D \in SUBSET Rank : DoSend(r, D)
    BY <2>1 DEF DoSend, Halting
  <2> QED BY <1>8, <2>2 DEF Transits, DoThrow
<1>9. (~\E D \in SUBSET Rank : DoSend(r, D)) => PendingNow' <= PendingNow
  BY <1>1, PendingStep
<1>10. MaxSends \in Nat
  BY BoundsAssumption
<1> HIDE DEF n, m, t, u
<1> QED BY <1>1, <1>2, <1>3, <1>4, <1>5, <1>6, <1>7, <1>8, <1>9, <1>10

\* What a step is to somebody who does not see how the halt is organised.
LEMMA HaltKinds ==
  ASSUME NEW r \in Rank, Does(r), Transits(r)
  PROVE  \/ phase[r] \in Early /\ phase'[r] \in Early
         \/ /\ phase[r] \in Early /\ phase'[r] = "drain"
            /\ ~\E D \in SUBSET Rank : DoSend(r, D)
         \/ \E q \in Rank : DoThrow(r, q)
         \/ /\ mpyQueue' = mpyQueue /\ InTransit' = InTransit
            /\ \/ phase'[r] = phase[r]
               \/ phase[r] \in Halted \ Stopped /\ phase'[r] \in Halted \ Stopped
               \/ DoReport(r)
               \/ phase[r] \in Quiescing /\ phase'[r] \in Quiescing \cup {"ack"}
               \/ DoReturn(r) \/ DoLeave(r)
<1> DEFINE Works == phase[r] \in Early /\ phase'[r] \in Early
           Moves == \/ phase'[r] = phase[r]
                    \/ phase[r] \in Halted \ Stopped /\ phase'[r] \in Halted \ Stopped
                    \/ DoReport(r)
                    \/ phase[r] \in Quiescing /\ phase'[r] \in Quiescing \cup {"ack"}
                    \/ DoReturn(r) \/ DoLeave(r)
           Joins == /\ phase[r] \in Early /\ phase'[r] = "drain"
                    /\ ~\E D \in SUBSET Rank : DoSend(r, D)
<1>1. ASSUME NEW D \in SUBSET Rank, DoSend(r, D)
      PROVE  Works
  BY <1>1 DEF DoSend, Early
<1>2. ASSUME NEW q \in Rank, DoQueue(r, q)
      PROVE  Works
  BY <1>2 DEF DoQueue, Early
<1>3. DoWork(r) => Works
  BY DEF DoWork
<1>4. ASSUME NEW q \in Rank, NEW m \in Message, DoCatch(r, q, m)
      PROVE  Works
  BY <1>4 DEF DoCatch, Early
<1>5. ASSUME NEW m \in Message, Enters(r, m)
      PROVE  Joins
  BY <1>5 DEF Enters, DoSend
<1>6. \/ Works
      \/ \E m \in Message : Enters(r, m)
      \/ \E q \in Rank : DoThrow(r, q)
      \/ mpyQueue' = mpyQueue /\ Moves
  <2>1. ASSUME NEW q \in Rank, NEW m \in Message, DoDrain(r, q, m) \/ DoListen(r, q, m)
        PROVE  mpyQueue' = mpyQueue /\ Moves
    BY <2>1 DEF DoDrain, DoListen, Halted, Halting, Stopped
  <2>2. ASSUME NEW q \in Rank, NEW m \in Message,
               DoTally(r, q, m) \/ DoClear(r, q, m) \/ DoAck(r, q, m)
        PROVE  mpyQueue' = mpyQueue /\ Moves
    BY <2>2 DEF DoTally, DoClear, DoAck, Quiescing
  <2>3. ASSUME DoAlert(r) \/ \E f \in Int : DoSpread(r, f)
        PROVE  mpyQueue' = mpyQueue /\ Moves
    BY <2>3 DEF DoAlert, DoSpread, Halted, Halting, Stopped
  <2>4. ASSUME DoPause(r) \/ DoCount(r) \/ DoPass(r)
        PROVE  mpyQueue' = mpyQueue /\ Moves
    BY <2>4, ZeroRank DEF DoPause, DoCount, DoPass, Quiescing
  <2>5. ASSUME Idles \/ DoReport(r) \/ DoReturn(r) \/ DoLeave(r)
        PROVE  mpyQueue' = mpyQueue /\ Moves
    BY <2>5 DEF Idles, DoReport, DoReturn, DoLeave
  <2> HIDE DEF Works, Moves
  <2> QED BY <1>1, <1>2, <1>3, <1>4, <2>1, <2>2, <2>3, <2>4, <2>5
          DEF Does, DoFault, DoHear
<1>7. \/ Works
      \/ \E q \in Rank : DoThrow(r, q)
      \/ InTransit' = InTransit
  <2> HIDE DEF Works
  <2> QED BY <1>1, <1>2 DEF Transits
<1> HIDE DEF Works, Moves, Joins
<1>8. \/ Works \/ Joins \/ \E q \in Rank : DoThrow(r, q)
      \/ mpyQueue' = mpyQueue /\ InTransit' = InTransit /\ Moves
  BY <1>5, <1>6, <1>7
<1> QED BY <1>8 DEF Works, Moves, Joins

\* Before rank 0 knows that everybody is halted.
LEMMA HaltEarly ==
  ASSUME FlowInv, FlowInv', RoundInv, RoundInv', NEW r \in Rank, Does(r), Alone(r),
         Transits(r), phase[0] \notin Stopped, phase'[0] \notin Stopped
  PROVE  Halt!Next \/ UNCHANGED Halt!vars
<1>1. /\ JoinedNow = {p \in Rank : phase[p] \in Halted}
      /\ JoinedNow' = {p \in Rank : phase'[p] \in Halted}
      /\ ReturnedNow = {} /\ ReturnedNow' = {}
  BY DEF JoinedNow, ReturnedNow
<1>2. \A p \in Rank : p # r => phase'[p] = phase[p]
  BY DEF Alone, Same
<1>3. CASE phase[r] \in Early /\ phase'[r] \in Early
  <2>1. phase[r] \notin Halted /\ phase'[r] \notin Halted
    BY <1>3 DEF Early, Halted, Halting
  <2>2. JoinedNow' = JoinedNow /\ JoinedNow # Rank
    BY <1>1, <1>2, <2>1
  <2>3. PendingNow' \in 0 .. MaxSends
    BY PendingMoves
  <2> QED BY <1>1, <2>2, <2>3 DEF Halt!Next, Halt!Work
<1>4. CASE /\ phase[r] \in Early /\ phase'[r] = "drain"
           /\ ~\E D \in SUBSET Rank : DoSend(r, D)
  <2>1. phase[r] \notin Halted /\ phase'[r] \in Halted
    BY <1>4 DEF Early, Halted, Halting
  <2>2. r \notin JoinedNow /\ JoinedNow' = JoinedNow \cup {r}
    BY <1>1, <1>2, <2>1
  <2>3. PendingNow' \in 0 .. PendingNow
    BY <1>4, PendingMoves
  <2> QED BY <1>1, <2>2, <2>3 DEF Halt!Next, Halt!Join
<1>5. CASE \E q \in Rank : DoThrow(r, q)
  <2>1. PICK q \in Rank : DoThrow(r, q)
    BY <1>5
  <2>2. phase[r] \in Halted <=> phase'[r] \in Halted
    BY <2>1 DEF DoThrow, Quiescing, Halted, Halting
  <2>3. JoinedNow' = JoinedNow
    BY <1>1, <1>2, <2>2
  <2>4. PendingNow > 0 /\ PendingNow' = PendingNow - 1
    BY <2>1, PendingMoves
  <2> QED BY <1>1, <2>3, <2>4 DEF Halt!Next, Halt!Discard
<1>6. CASE /\ mpyQueue' = mpyQueue /\ InTransit' = InTransit
           /\ \/ phase'[r] = phase[r]
              \/ phase[r] \in Halted \ Stopped /\ phase'[r] \in Halted \ Stopped
              \/ DoReport(r)
              \/ phase[r] \in Quiescing /\ phase'[r] \in Quiescing \cup {"ack"}
              \/ DoReturn(r) \/ DoLeave(r)
  <2>1. ~DoReturn(r)
    <3>1. SUFFICES ASSUME phase[r] = "ack"
                   PROVE  FALSE
      BY DEF DoReturn
    <3>2. phase[0] = "ack"
      BY <3>1, RootAck DEF RoundInv
    <3> QED BY <3>2 DEF Stopped
  <2>2. phase[r] \in Halted <=> phase'[r] \in Halted
    BY <1>6, <2>1 DEF DoReport, DoLeave, Quiescing, Halted, Halting
  <2>3. JoinedNow' = JoinedNow
    BY <1>1, <1>2, <2>2
  <2>4. PendingNow' = PendingNow
    BY <1>6, PendingMoves
  <2> QED BY <1>1, <2>3, <2>4 DEF Halt!vars
<1> QED BY <1>3, <1>4, <1>5, <1>6, HaltKinds

\* Rank 0 has heard from everybody.
LEMMA HaltKnown ==
  ASSUME FlowInv, FlowInv', RoundInv, RoundInv', NEW r \in Rank, Does(r), Alone(r),
         Transits(r), phase[0] \notin Stopped, phase'[0] \in Stopped
  PROVE  UNCHANGED Halt!vars
<1>0. r = 0 /\ TypeOK /\ EdgeInv
  BY ZeroRank DEF Alone, Same, FlowInv, RoundInv
<1>1. DoReport(0) /\ mpyQueue' = mpyQueue /\ InTransit' = InTransit
  <2>1. \A q \in Rank : ~DoThrow(0, q)
    BY DEF DoThrow, Stopped, Quiescing
  <2>2. ~DoReturn(0) /\ ~DoLeave(0)
    BY DEF DoReturn, DoLeave, Stopped
  <2> QED BY <1>0, <2>1, <2>2, HaltKinds DEF Early, Stopped, Quiescing
<1>2. phase[0] = "tally" /\ AllReported(0)
  BY <1>1 DEF DoReport
<1>3. \A p \in Rank : p # 0 => phase[p] \in Quiescing /\ phase'[p] = phase[p]
  <2> DEFINE P == {p \in Rank : p # 0 => phase[p] \in Quiescing}
  <2>1. ASSUME NEW s \in Rank \ {0}, Boss(s) \in P
        PROVE  s \in P
    <3>1. EdgeOf(s, Boss(s)) /\ s \in Staff(Boss(s))
      BY <1>0, BossRank DEF EdgeInv
    <3>2. CASE Boss(s) = 0
      <4>1. tally[0][s] # 0
        BY <1>2, <3>1, <3>2 DEF AllReported
      <4> QED BY <1>2, <3>1, <3>2, <4>1
              DEF EdgeOf, Apart, Told, Aware, Reporting, Counting, Clearing, Outside
    <3>3. CASE Boss(s) # 0
      <4>1. phase[Boss(s)] \in Quiescing
        BY <2>1, <3>3
      <4> QED BY <3>1, <4>1
              DEF EdgeOf, Apart, Told, Aware, Reporting, Counting, Clearing,
                  Outside, Quiescing
    <3> QED BY <3>2, <3>3
  <2>2. 0 \in P
    BY ZeroRank
  <2>3. \A p \in Rank : p \in P
    <3> HIDE DEF P
    <3> QED BY <2>1, <2>2, TreeInduction
  <2> QED BY <1>0, <2>3 DEF Alone, Same
<1>4. JoinedNow = Rank /\ JoinedNow' = Rank
  <2>1. \A p \in Rank : phase[p] \in Halted
    BY <1>2, <1>3 DEF Halted, Halting, Quiescing
  <2> QED BY <2>1 DEF JoinedNow
<1>5. ReturnedNow = {} /\ ReturnedNow' = {}
  <2>1. \A p \in Rank \ {0} : phase'[p] \in Halted
    BY <1>3 DEF Halted, Halting, Quiescing
  <2> QED BY <2>1 DEF ReturnedNow
<1>6. PendingNow' = PendingNow
  BY <1>1, PendingMoves
<1> QED BY <1>4, <1>5, <1>6 DEF Halt!vars

\* Everybody is halted; the messages of the task are thrown away.
LEMMA HaltClears ==
  ASSUME FlowInv, FlowInv', RoundInv, RoundInv', NEW r \in Rank, Does(r), Alone(r),
         Transits(r), phase[0] \in Quiescing, phase'[0] \in Stopped
  PROVE  Halt!Next \/ UNCHANGED Halt!vars
<1>1. \A p \in Rank : phase[p] \in Quiescing
  BY AllQuiescing DEF RoundInv
<1>2. \A p \in Rank : p # r => phase'[p] = phase[p]
  BY DEF Alone, Same
<1>3. phase[r] \in Quiescing
  BY <1>1
<1>4. \/ \E q \in Rank : DoThrow(r, q)
      \/ /\ mpyQueue' = mpyQueue /\ InTransit' = InTransit
         /\ phase'[r] \in Quiescing \cup {"ack"}
  BY <1>3, HaltKinds DEF Early, DoReport, DoReturn, DoLeave, Stopped, Quiescing
<1>5. phase'[r] \in Halted
  BY <1>4 DEF DoThrow, Halted, Halting, Quiescing
<1>6. JoinedNow = Rank /\ JoinedNow' = Rank
  BY DEF JoinedNow, Stopped, Quiescing
<1>7. ReturnedNow = {} /\ ReturnedNow' = {}
  <2>1. \A p \in Rank : phase[p] \in Halted /\ phase'[p] \in Halted
    BY <1>1, <1>2, <1>5 DEF Halted, Halting, Quiescing
  <2> QED BY <2>1 DEF ReturnedNow
<1>8. ASSUME NEW q \in Rank, DoThrow(r, q)
      PROVE  Halt!Discard
  <2>1. PendingNow > 0 /\ PendingNow' = PendingNow - 1
    BY <1>8, PendingMoves
  <2> QED BY <1>6, <1>7, <2>1 DEF Halt!Discard
<1>9. mpyQueue' = mpyQueue /\ InTransit' = InTransit => PendingNow' = PendingNow
  BY PendingMoves
<1> QED BY <1>4, <1>6, <1>7, <1>8, <1>9 DEF Halt!Next, Halt!vars

\* During the wave nothing is pending.
LEMMA NothingPending ==
  ASSUME FlowInv, RoundInv, phase[0] \in {"ack", "leaving"}
  PROVE  PendingNow = 0
<1>1. WaveInv /\ mpyQueue \in [Rank -> Seq(Rank)]
  BY DEF RoundInv, FlowInv, TypeOK
<1>2. \A q, r \in Rank : \A i \in DOMAIN chan[q][r] : chan[q][r][i] # Data
  BY <1>1, DataId DEF WaveInv
<1>3. InTransit = {}
  BY <1>2 DEF InTransit
<1>4. Cardinality(InTransit) = 0
  BY <1>3, FS_EmptySet
<1>5. \A r \in Rank : mpyQueue[r] = << >>
  BY <1>1 DEF WaveInv
<1> DEFINE f == Lengths(mpyQueue)
<1>6. f \in Shares /\ \A r \in Rank : f[r] = 0
  BY <1>5 DEF Lengths, Shares
<1> HIDE DEF f
<1>7. SumOver(f, Rank) = 0
  BY <1>6, ShareZero, TotalIs
<1>8. Queued(mpyQueue) = 0
  BY <1>7, QueuedIs DEF f
<1> QED BY <1>4, <1>8, PendingIs

\* The ranks return.
LEMMA HaltReturns ==
  ASSUME FlowInv, FlowInv', RoundInv, RoundInv', NEW r \in Rank, Does(r), Alone(r),
         Transits(r), phase[0] \in {"ack", "leaving"}
  PROVE  Halt!Next \/ UNCHANGED Halt!vars
<1>0. PendingNow = 0 /\ TypeOK /\ WaveInv
  BY NothingPending DEF FlowInv, RoundInv
<1>1. /\ \/ Idles
         \/ \E q \in Rank, m \in Message : DoClear(r, q, m) /\ m.id = 5
         \/ DoPause(r)
         \/ DoPass(r)
         \/ \E q \in Rank, m \in Message : DoAck(r, q, m)
         \/ DoReturn(r)
         \/ DoLeave(r)
      /\ ~\E D \in SUBSET Rank : DoSend(r, D)
  BY WaveDoes DEF RoundInv
<1>2. \A p \in Rank : p # r => phase'[p] = phase[p]
  BY DEF Alone, Same
<1>3. PendingNow' = 0
  <2>1. PendingNow' \in 0 .. PendingNow
    BY <1>1, PendingMoves
  <2> QED BY <1>0, <2>1
<1>4. \A p \in Rank : phase[p] \in {"clear", "clearing", "ack", "leaving", "idle"}
  BY <1>0 DEF WaveInv, Stopped
<1>5. JoinedNow = Rank /\ ReturnedNow = {p \in Rank \ {0} : phase[p] \notin Halted}
  BY DEF JoinedNow, ReturnedNow, Stopped
<1>6. CASE r = 0 /\ DoLeave(0)
  <2>1. \A p \in Rank : phase[p] \in {"leaving", "idle"}
    BY <1>0, <1>6, AllLeft DEF DoLeave, RoundInv
  <2>2. \A p \in Rank : phase[p] \notin Halted /\ phase'[p] \notin Halted
    BY <1>2, <1>6, <2>1 DEF DoLeave, Halted, Halting
  <2>3. JoinedNow' = {} /\ ReturnedNow' = {}
    <3>1. phase'[0] \notin Stopped
      BY <1>6 DEF DoLeave, Stopped
    <3> QED BY <2>2, <3>1 DEF JoinedNow, ReturnedNow
  <2>4. ReturnedNow = Rank \ {0}
    BY <1>5, <2>2
  <2> QED BY <1>0, <1>3, <1>5, <2>3, <2>4 DEF Halt!Next, Halt!ReturnRoot
<1>7. ASSUME ~(r = 0 /\ DoLeave(0))
      PROVE  /\ JoinedNow' = Rank
             /\ ReturnedNow' = {p \in Rank \ {0} : phase'[p] \notin Halted}
  <2>1. phase'[0] \in Stopped
    <3>1. CASE r # 0
      BY <1>2, <3>1, ZeroRank DEF Stopped
    <3>2. CASE r = 0
      BY <1>1, <1>7, <3>2
         DEF Idles, DoClear, DoPause, DoPass, DoAck, DoReturn, Stopped
    <3> QED BY <3>1, <3>2
  <2> QED BY <2>1 DEF JoinedNow, ReturnedNow
<1>8. CASE r # 0 /\ DoReturn(r)
  <2>1. phase[r] \in Halted /\ phase'[r] \notin Halted
    BY <1>8 DEF DoReturn, Halted, Halting
  <2>2. r \in Rank \ (ReturnedNow \cup {0}) /\ ReturnedNow' = ReturnedNow \cup {r}
    BY <1>2, <1>5, <1>7, <1>8, <2>1
  <2> QED BY <1>0, <1>3, <1>5, <1>7, <1>8, <2>2 DEF Halt!Next, Halt!Return
<1>9. CASE ~(r = 0 /\ DoLeave(0)) /\ ~(r # 0 /\ DoReturn(r))
  <2>1. r # 0 => (phase[r] \in Halted <=> phase'[r] \in Halted)
    BY <1>1, <1>9, ZeroRank DEF Idles, DoClear, DoPause, DoPass, DoAck, DoLeave,
                      Quiescing, Halted, Halting
  <2>2. ReturnedNow' = ReturnedNow
    BY <1>2, <1>5, <1>7, <1>9, <2>1
  <2> QED BY <1>0, <1>3, <1>5, <1>7, <1>9, <2>2 DEF Halt!vars
<1> QED BY <1>6, <1>8, <1>9

LEMMA HaltStep ==
  ASSUME FlowInv, FlowInv', RoundInv, RoundInv', [Next]_vars
  PROVE  [Halt!Next]_(Halt!vars)
<1>1. PICK r \in Rank : Does(r) /\ Alone(r)
  BY NextDoes
<1>2. Transits(r)
  BY <1>1, RoundDoes
<1>3. CASE phase[0] \notin Stopped
  BY <1>1, <1>2, <1>3, HaltEarly, HaltKnown
<1>4. CASE phase[0] \in Quiescing
  <2>1. phase'[0] \in Stopped
    <3>1. phase[r] \in Quiescing
      BY <1>4, AllQuiescing DEF RoundInv
    <3>2. CASE r # 0
      BY <1>1, <1>4, <3>2, ZeroRank DEF Alone, Same, Stopped, Quiescing
    <3>3. CASE r = 0
      BY <1>1, <1>2, <3>1, <3>3, HaltKinds
         DEF DoThrow, Early, DoReport, DoReturn, DoLeave, Stopped, Quiescing
    <3> QED BY <3>2, <3>3
  <2> QED BY <1>1, <1>2, <1>4, <2>1, HaltClears
<1>5. CASE phase[0] \in {"ack", "leaving"}
  BY <1>1, <1>2, <1>5, HaltReturns
<1> QED BY <1>3, <1>4, <1>5 DEF Stopped, Quiescing

LEMMA HaltInit ==
  ASSUME Init
  PROVE  Halt!Init
<1>1. \A r \in Rank : /\ phase[r] = "task"
                      /\ \A q \in Rank : chan[q][r] = << >>
  BY DEF Init
<1>2. JoinedNow = {} /\ ReturnedNow = {}
  <2>1. phase[0] \notin Stopped /\ \A r \in Rank : phase[r] \notin Halted
    BY <1>1, ZeroRank DEF Stopped, Halted, Halting
  <2> QED BY <2>1 DEF JoinedNow, ReturnedNow
<1>3. PendingNow = 0
  <2>1. InTransit = {}
    BY <1>1 DEF InTransit
  <2>2. Cardinality(InTransit) = 0
    BY <2>1, FS_EmptySet
  <2>3. mpyQueue \in [Rank -> Seq(Rank)] /\ \A r \in Rank : Len(mpyQueue[r]) = 0
    BY EmptySeq DEF Init
  <2> DEFINE f == Lengths(mpyQueue)
  <2>4. f \in Shares /\ \A r \in Rank : f[r] = 0
    BY <2>3 DEF Lengths, Shares
  <2> HIDE DEF f
  <2>5. SumOver(f, Rank) = 0
    BY <2>4, ShareZero, TotalIs
  <2>6. Queued(mpyQueue) = 0
    BY <2>5, QueuedIs DEF f
  <2> QED BY <2>2, <2>6, PendingIs
<1> QED BY <1>2, <1>3 DEF Halt!Init

\* The recovery of mpy.c keeps the promise of its README: it implements the halt
\* of MpyHalt.  Nobody goes back to its idle loop before every rank has joined
\* and every message of the halted task is received or thrown away, and rank 0
\* returns last.
THEOREM HaltCorrect == Spec => HaltSpec
<1>1. Init => Halt!Init
  BY HaltInit
<1>2. /\ FlowInv /\ RoundInv /\ (FlowInv /\ RoundInv)' /\ [Next]_vars
      => [Halt!Next]_(Halt!vars)
  BY HaltStep
<1>3. Spec => [](FlowInv /\ RoundInv)
  BY RoundCorrect
<1> QED BY <1>1, <1>2, <1>3, PTL DEF Spec, HaltSpec, Halt!Spec

-----------------------------------------------------------------------------
(* The assertions.                                                         *)

\* The control message r finds at the head of a channel, wherever it is in the
\* protocol.
LEMMA HeadHeard ==
  ASSUME FlowInv, EdgeInv, NEW r \in Rank, NEW q \in Rank, HasControl(q, r),
         NEW m, m = Head(chan[q][r])
  PROVE  /\ phase[r] \in Early \cup {"drain", "alert", "alertdrain"} =>
              m.id \in {1, 2}
         /\ phase[r] = "tally" =>
              /\ q \in Staff(r)
              /\ \/ m.id = 1
                 \/ m.id = 3 /\ tally[r][q] = 0
                 \/ m.id = 4 /\ tally[r][q] # 0
         /\ phase[r] \in Quiescing => m.id \in {4, 5}
         /\ phase[r] = "ack" => q \in Staff(r) /\ m.id = 6 /\ tally[r][q] < 2
<1> DEFINE c == chan[q][r]
<1>0. TypeOK
  BY DEF FlowInv
<1>1. /\ c # << >> /\ m # Data /\ 1 \in DOMAIN c /\ c[1] = m /\ m \in Message
      /\ c \in Seq(Message)
  <2>1. Has(q, r) /\ m # Data
    BY DEF HasControl
  <2>2. c \in Seq(Message)
    BY <1>0 DEF TypeOK
  <2> QED BY <1>0, <2>1, <2>2, HeadElement DEF Has
<1>2. /\ ~Plain(c)
      /\ MaybeAlert(c) => m.id = 1
      /\ WithVerdict(c) => m.id = 2
      /\ WithReport(c) => m.id \in {1, 3}
  BY <1>1, TailControl
<1>3. /\ Counts(c) => m.id = 4
      /\ \A id : Only(c, id) => m.id = id
  BY <1>1 DEF Counts, Only
<1>4. \/ q \in Staff(r) /\ m.id \in Reports
      \/ r \in Staff(q) /\ m.id \in Orders
  <2>1. c \in Seq(OnEdge(q, r))
    BY DEF FlowInv, ControlFollowsTree
  <2>2. m \in OnEdge(q, r)
    BY <1>1, <2>1, LenProperties, ElementOfSeq
  <2> QED BY <1>1, <2>2 DEF OnEdge
<1>5. ASSUME phase[r] \in Early \cup {"drain", "alert", "alertdrain"}
      PROVE  m.id \in {1, 2}
  BY <1>1, <1>5, EarlyMessage
<1>6. CASE q \in Staff(r)
  <2>1. EdgeOf(q, r) /\ r \notin Staff(q)
    BY <1>6, StaffInvertsBoss, BossRank DEF EdgeInv
  <2>2. m.id \in Reports
    BY <1>4, <2>1
  <2>3. tally[r][q] \in 0 .. 2
    BY <1>0, <1>6 DEF TypeOK
  <2> HIDE DEF c
  <2>4. phase[r] = "tally" =>
          \/ m.id = 1
          \/ m.id = 3 /\ tally[r][q] = 0
          \/ m.id = 4 /\ tally[r][q] # 0
    BY <1>2, <1>3, <2>1 DEF EdgeOf, Apart, Told, Aware, Reporting, Counting,
                            Clearing, Outside, c
  <2>5. phase[r] \in Quiescing => m.id = 4
    BY <1>2, <1>3, <2>1 DEF EdgeOf, Apart, Told, Aware, Reporting, Counting,
                            Clearing, Outside, Quiescing, c
  <2>6. phase[r] = "ack" => m.id = 6 /\ tally[r][q] = 1
    BY <1>1, <1>3, <2>1 DEF EdgeOf, Apart, Told, Aware, Reporting, Counting,
                            Clearing, Outside, Quiescing, c
  <2> QED BY <1>5, <1>6, <2>4, <2>5, <2>6
<1>7. CASE r \in Staff(q)
  <2>1. r # 0 /\ q = Boss(r) /\ EdgeOf(r, q) /\ q \notin Staff(r)
    BY <1>7, StaffInvertsBoss, BossRank DEF EdgeInv
  <2> HIDE DEF c
  <2>2. phase[r] # "tally" /\ phase[r] # "ack"
    BY <1>1, <1>2, <2>1 DEF EdgeOf, Apart, Told, Aware, Reporting, Counting,
                            Clearing, Outside, Quiescing, c
  <2>3. phase[r] \in Quiescing => m.id = 5
    BY <1>1, <1>2, <1>3, <2>1 DEF EdgeOf, Apart, Told, Aware, Reporting,
                  Counting, Clearing, Outside, Working, Quiescing, c
  <2> QED BY <1>5, <2>2, <2>3
<1> QED BY <1>4, <1>6, <1>7

\* The sends of the verdict have completed when mpy_recover tests them.
LEMMA StaffHasHeard ==
  ASSUME EdgeInv, NEW r \in Rank, phase[r] \in Quiescing \cup {"leaving"}
  PROVE  StaffSendsDone(r)
<1> SUFFICES ASSUME NEW q \in Staff(r)
             PROVE  ~ControlPending(r, q)
  BY DEF StaffSendsDone
<1>1. EdgeOf(q, r)
  BY StaffSubset, StaffInvertsBoss DEF EdgeInv
<1>2. Plain(chan[r][q])
  BY <1>1 DEF EdgeOf, Apart, Told, Aware, Reporting, Counting, Clearing,
              Quiescing
<1> QED BY <1>2 DEF Plain, ControlPending

\* A rank that has heard id=5: the count has come out, here and everywhere.
LEMMA HeardCleared ==
  ASSUME EdgeInv, LocalInv, WaveInv, NEW r \in Rank, phase[r] = "clearing",
         heard[r] = 5
  PROVE  Hushed /\ Unreported(r) = 0
<1>1. r # 0
  BY DEF LocalInv, RootLocal
<1>2. Boss(r) \in Rank /\ EdgeOf(r, Boss(r))
  BY <1>1, BossRank DEF EdgeInv
<1>3. phase[Boss(r)] = "ack"
  BY <1>2 DEF EdgeOf, Apart, Told, Aware, Reporting, Counting, Clearing,
              Outside, Working, Quiescing
<1>4. phase[0] = "ack"
  BY <1>2, <1>3, RootAck
<1> QED BY <1>4 DEF WaveInv, Hushed

\* The requests mpy_recover knows of are those in mpy_request: s is one more,
\* or 0 or 1 where mpy_isend_wait is not called again.
Known(r) == slots[r] > 1 => phase[r] \in Halting /\ slots[r] = isends[r] + 1
RequestInv == \A r \in Rank : Known(r)

\* id=5 says "complete": its count is 0, in transit and in mperr_msg.  The first
\* loop of mpy_recover has an alert there, or the verdict.
PassInv ==
  /\ \A p, q \in Rank : \A i \in DOMAIN chan[p][q] :
       chan[p][q][i].id = 5 => chan[p][q][i].n1 = 0
  /\ \A r \in Rank : /\ phase[r] = "clearing" /\ heard[r] = 5 => msg[r].n1 = 0
                     /\ phase[r] = "drain" => msg[r].id \in {1, 2}

LEMMA TestsomeKnown ==
  ASSUME TypeOK, NEW r \in Rank, NEW a \in Nat, NEW s \in Nat,
         TestsomeOf(r, a, s), s > 1 => s = a + 1
  PROVE  /\ slots'[r] > 1 => slots'[r] = isends'[r] + 1
         /\ \A p \in Rank \ {r} : slots'[p] = slots[p] /\ isends'[p] = isends[p]
<1>1. isends \in [Rank -> Nat] /\ slots \in [Rank -> Nat]
  BY DEF TypeOK
<1>2. CASE s <= 1
  BY <1>1, <1>2 DEF TestsomeOf
<1>3. CASE ~(s <= 1)
  <2>1. PICK k \in 0 .. a :
          /\ isends' = [isends EXCEPT ![r] = k]
          /\ slots' = [slots EXCEPT ![r] = IF k = a THEN 0 ELSE k + 1]
    BY <1>3 DEF TestsomeOf
  <2> QED BY <1>1, <2>1
<1> QED BY <1>2, <1>3

\* The steps that test the requests of a rank, in mpy_recover or on entering it.
LEMMA BeginKnown ==
  ASSUME TypeOK, RequestInv, NEW r \in Rank, phase[r] \notin Halting, NEW m,
         NEW own, NEW a \in Nat, Begin(r, m, own, a), Alone(r)
  PROVE  RequestInv'
<1>1. CASE m.id \notin {1, 2}
  BY <1>1 DEF Begin, RequestInv, Known
<1>2. CASE m.id \in {1, 2}
  <2>1. TestsomeOf(r, a, a + 1) /\ phase' = [phase EXCEPT ![r] = "drain"]
    BY <1>2 DEF Begin
  <2>2. /\ slots'[r] > 1 => slots'[r] = isends'[r] + 1
        /\ \A p \in Rank \ {r} : slots'[p] = slots[p] /\ isends'[p] = isends[p]
    BY <2>1, TestsomeKnown
  <2>3. phase'[r] = "drain"
    BY <2>1 DEF TypeOK
  <2>4. \A p \in Rank \ {r} : phase'[p] = phase[p]
    BY DEF Alone, Same
  <2> QED BY <2>2, <2>3, <2>4 DEF RequestInv, Known, Halting
<1> QED BY <1>1, <1>2

LEMMA TestsKnown ==
  ASSUME TypeOK, RequestInv, NEW r \in Rank, NEW more, Testsome(r, more),
         phase'[r] \in Halting, Alone(r)
  PROVE  RequestInv'
<1>1. \A p \in Rank \ {r} : phase'[p] = phase[p]
  BY DEF Alone, Same
<1>2. CASE UNCHANGED <<isends, slots>>
  BY <1>1, <1>2 DEF RequestInv, Known
<1>3. CASE more
  <2>1. /\ isends[r] \in Nat /\ slots[r] \in Nat
        /\ slots[r] > 1 => slots[r] = isends[r] + 1
    BY DEF TypeOK, RequestInv, Known
  <2>2. /\ slots'[r] > 1 => slots'[r] = isends'[r] + 1
        /\ \A p \in Rank \ {r} : slots'[p] = slots[p] /\ isends'[p] = isends[p]
    BY <1>3, <2>1, TestsomeKnown DEF Testsome
  <2> QED BY <1>1, <2>2 DEF RequestInv, Known
<1> QED BY <1>2, <1>3 DEF Testsome

LEMMA KeepsKnown ==
  ASSUME RequestInv, NEW r \in Rank, UNCHANGED <<isends, slots>>,
         phase[r] \in Halting => phase'[r] \in Halting, Alone(r)
  PROVE  RequestInv'
BY DEF RequestInv, Known, Alone, Same

LEMMA TaskKnown ==
  ASSUME TypeOK, RequestInv, NEW r \in Rank, Alone(r),
         \/ Program(r) \/ SendDone(r) \/ Attend(r)
         \/ \E q \in Rank : HearCaught(r, q)
         \/ MpExecIdle(r)
         \/ r = 0 /\ MpExec
  PROVE  RequestInv'
<1>0. isends \in [Rank -> Nat] /\ slots \in [Rank -> Nat]
  BY DEF TypeOK
<1>1. CASE Fault(r)
  <2>1. phase[r] \notin Halting /\ isends[r] \in Nat
    BY <1>0, <1>1 DEF Fault, Halting
  <2> QED BY <1>1, <2>1, BeginKnown DEF Fault
<1>2. ASSUME NEW q \in Rank, HearControl(r, q)
      PROVE  RequestInv'
  <2>1. phase[r] \notin Halting /\ isends[r] \in Nat
    BY <1>0, <1>2 DEF HearControl, Halting
  <2> QED BY <1>2, <2>1, BeginKnown DEF HearControl
<1>3. ASSUME NEW q \in Rank, SendInterrupted(r, q)
      PROVE  RequestInv'
  <2>1. PICK i \in DOMAIN chan[q][r], a \in 0 .. Incomplete(r) :
          Begin(r, chan[q][r][i], FALSE, a)
    BY <1>3 DEF SendInterrupted
  <2>2. phase[r] \notin Halting /\ a \in Nat
    BY <1>3 DEF SendInterrupted, Halting
  <2> QED BY <2>1, <2>2, BeginKnown
<1>4. ASSUME NEW D, StartSend(r, D), phase[r] \notin Halting
      PROVE  RequestInv'
  <2>1. /\ slots' = slots /\ ~(slots[r] > 1)
        /\ \A p \in Rank \ {r} : isends'[p] = isends[p] /\ phase'[p] = phase[p]
    BY <1>0, <1>4 DEF StartSend, RequestInv, Known, Alone, Same
  <2> QED BY <2>1 DEF RequestInv, Known
<1>5. CASE \E D \in SUBSET Rank : MpSend(r, D)
  BY <1>4, <1>5 DEF MpSend, Halting
<1>6. CASE MpExecIdle(r)
  <2>1. phase[r] \notin Halting
    BY <1>6 DEF MpExecIdle, Halting
  <2>2. (\E D : StartSend(r, D)) \/ UNCHANGED <<isends, slots>>
    BY <1>6 DEF MpExecIdle
  <2> QED BY <1>4, <2>1, <2>2, KeepsKnown
<1>7. CASE r = 0 /\ MpExec
  BY <1>4, <1>7 DEF MpExec, Halting
<1>8. CASE \E q \in Rank : MpRecv(r, q) \/ Enqueue(r, q) \/ HearCaught(r, q)
  <2>1. UNCHANGED <<isends, slots>> /\ phase' = phase
    BY <1>8 DEF MpRecv, Enqueue, HearCaught
  <2> QED BY <2>1, KeepsKnown
<1>9. CASE Finish(r)
  <2>1. UNCHANGED <<isends, slots>> /\ phase[r] \notin Halting
    BY <1>9 DEF Finish, Halting
  <2> QED BY <2>1, KeepsKnown
<1>10. CASE SendDone(r)
  <2>1. /\ slots' = slots /\ ~(slots[r] > 1)
        /\ \A p \in Rank \ {r} : isends'[p] = isends[p] /\ phase'[p] = phase[p]
    BY <1>0, <1>10 DEF SendDone, RequestInv, Known, Alone, Same, Halting
  <2> QED BY <2>1 DEF RequestInv, Known
<1> QED BY <1>1, <1>2, <1>3, <1>5, <1>6, <1>7, <1>8, <1>9, <1>10
        DEF Program, Attend

LEMMA PassClearedKnown ==
  ASSUME TypeOK, RequestInv, NEW r \in Rank, PassCleared(r),
         phase[r] \in Halting, Alone(r)
  PROVE  RequestInv'
<1>1. CASE UNCHANGED <<isends, slots, phase>>
  BY <1>1, KeepsKnown
<1>2. CASE phase' = [phase EXCEPT ![r] = "ack"] /\ Testsome(r, TRUE)
  <2>1. phase'[r] \in Halting
    BY <1>2 DEF TypeOK, Halting
  <2> QED BY <1>2, <2>1, TestsKnown
<1> QED BY <1>1, <1>2 DEF PassCleared, Die

LEMMA RecoverKnown ==
  ASSUME TypeOK, RequestInv, NEW r \in Rank, Alone(r),
         Recover(r) \/ (r = 0 /\ Complete)
  PROVE  RequestInv'
<1>d. CASE \E reason : Die(reason)
  BY <1>d, KeepsKnown DEF Die
<1>0. \A x : phase' = [phase EXCEPT ![r] = x] => phase'[r] = x
  BY DEF TypeOK
<1>1. ASSUME NEW q \in Rank, ~\E reason : Die(reason),
             \/ DrainControl(r, q)
             \/ AlertControl(r, q)
             \/ TallyControl(r, q)
             \/ ClearData(r, q)
             \/ ClearControl(r, q)
      PROVE  RequestInv'
  <2>1. \E more : Testsome(r, more)
    BY <1>1 DEF DrainControl, AlertControl, TallyControl, ClearData, ClearControl
  <2>2. phase'[r] \in Halting
    <3>1. CASE DrainControl(r, q) \/ TallyControl(r, q)
      BY <1>1, <3>1 DEF DrainControl, TallyControl, Halting
    <3>2. CASE AlertControl(r, q)
      BY <1>0, <1>1, <3>2 DEF AlertControl, Halting
    <3>3. CASE ClearData(r, q) \/ ClearControl(r, q)
      BY <1>0, <1>1, <3>3 DEF ClearData, ClearControl, Halting
    <3> QED BY <1>1, <3>1, <3>2, <3>3
  <2> QED BY <2>1, <2>2, TestsKnown
<1>2. ASSUME NEW f, Spread(r, f)
      PROVE  RequestInv'
  BY <1>0, <1>2, TestsKnown DEF Spread, Halting
<1>3. CASE (DrainEmpty(r) \/ AlertEmpty(r)) /\ ~\E reason : Die(reason)
  <2>1. \/ \E f : Spread(r, f)
        \/ phase' = [phase EXCEPT ![r] = "alert"] /\ Testsome(r, TRUE)
    BY <1>3 DEF DrainEmpty, AlertEmpty
  <2> QED BY <1>0, <1>2, <2>1, TestsKnown DEF Halting
<1>4. CASE \/ \E q \in Rank : Discard(r, q)
           \/ (\E q \in Rank : AckControl(r, q)) /\ ~\E reason : Die(reason)
  <2>1. UNCHANGED <<isends, slots, phase>>
    BY <1>4 DEF Discard, AckControl
  <2> QED BY <2>1, KeepsKnown
<1>5. CASE Report(r) \/ Acknowledge(r)
  <2>1. UNCHANGED <<isends, slots>> /\ phase'[r] \in Halting
    BY <1>0, <1>5 DEF Report, Acknowledge, Halting
  <2> QED BY <2>1, KeepsKnown
<1>6. CASE ClearReport(r) /\ ~\E reason : Die(reason)
  <2>1. UNCHANGED <<isends, slots>> /\ phase'[r] \in Halting
    BY <1>0, <1>6 DEF ClearReport, Halting
  <2> QED BY <2>1, KeepsKnown
<1>7. CASE ClearEmpty(r) /\ ~\E reason : Die(reason)
  <2>1. phase[r] \in Halting
    BY <1>7 DEF ClearEmpty, Halting
  <2>2. \/ PassCleared(r)
        \/ UNCHANGED <<isends, slots>> /\ phase' = [phase EXCEPT ![r] = "clear"]
    BY <1>7 DEF ClearEmpty
  <2> QED BY <1>0, <2>1, <2>2, PassClearedKnown, KeepsKnown DEF Halting
<1>8. CASE Leave(r) /\ ~\E reason : Die(reason)
  <2>1. slots' = [slots EXCEPT ![r] = 1] /\ isends' = isends
    BY <1>8 DEF Leave
  <2>2. \A p \in Rank : slots'[p] = IF p = r THEN 1 ELSE slots[p]
    BY <2>1 DEF TypeOK
  <2> QED BY <2>1, <2>2 DEF RequestInv, Known, Alone, Same
<1>9. CASE r = 0 /\ Complete /\ ~\E reason : Die(reason)
  BY <1>9, PassClearedKnown DEF Complete, Halting
<1> QED BY <1>d, <1>1, <1>3, <1>4, <1>5, <1>6, <1>7, <1>8, <1>9
        DEF Recover, Recovering

LEMMA RequestStep ==
  ASSUME TypeOK, RequestInv, [Next]_vars
  PROVE  RequestInv'
<1>1. CASE UNCHANGED vars
  BY <1>1 DEF vars, RequestInv, Known
<1>2. ASSUME NEW r \in Rank, Acts(r)
      PROVE  RequestInv'
  BY <1>2, ActsAlone, TaskKnown, RecoverKnown DEF Acts, Step
<1>3. CASE MpExec \/ Complete \/ \E r \in Rank : Step(r)
  BY <1>2, <1>3, ZeroRank DEF Acts
<1> QED BY <1>1, <1>3 DEF Next, Rest

LEMMA PassStep ==
  ASSUME TypeOK, PassInv, NEW r \in Rank, Does(r), Alone(r)
  PROVE  PassInv'
<1>1. ASSUME NEW p \in Rank, NEW q \in Rank, NEW i \in DOMAIN chan'[p][q],
             chan'[p][q][i].id = 5
      PROVE  chan'[p][q][i].n1 = 0
  <2> DEFINE m == chan'[p][q][i]
  <2>0. m.id = 5
    BY <1>1
  <2>1. Old(p, q, m) \/ New(r, p, q, m)
    BY OldOrNew
  <2> SUFFICES m.n1 = 0
    OBVIOUS
  <2> HIDE DEF m
  <2>2. CASE Old(p, q, m)
    BY <2>0, <2>2 DEF Old, PassInv
  <2>3. CASE New(r, p, q, m)
    <3>1. m = Control(5, 0, 0) \/ (DoAlert(r) /\ m = msg[r])
      BY <2>0, <2>3, DataId DEF New, Control
    <3>2. Carried(0) = 0
      BY CarriedIsFaithful
    <3>3. CASE m = Control(5, 0, 0)
      BY <3>2, <3>3 DEF Control
    <3>4. CASE DoAlert(r) /\ m = msg[r]
      BY <2>0, <3>4 DEF DoAlert, PassInv
    <3> QED BY <3>1, <3>3, <3>4
  <2> QED BY <2>1, <2>2, <2>3
<1> DEFINE Good ==
      /\ phase'[r] = "clearing" /\ heard'[r] = 5 => msg'[r].n1 = 0
      /\ phase'[r] = "drain" => msg'[r].id \in {1, 2}
<1>2. /\ phase[r] = "clearing" /\ heard[r] = 5 => msg[r].n1 = 0
      /\ phase[r] = "drain" => msg[r].id \in {1, 2}
  BY DEF PassInv
<1>3. ASSUME Idles
      PROVE  Good
  BY <1>2, <1>3 DEF Idles
<1>4. ASSUME \/ \E D \in SUBSET Rank : DoSend(r, D)
             \/ DoWork(r)
             \/ \E q \in Rank : DoQueue(r, q)
             \/ \E q \in Rank, m \in Message : DoCatch(r, q, m)
      PROVE  Good
  BY <1>4 DEF DoSend, DoWork, DoQueue, DoCatch, Early
<1>5. ASSUME \/ \E m \in Message : DoFault(r, m)
             \/ \E q \in Rank, m \in Message : DoHear(r, q, m)
      PROVE  Good
  BY <1>5 DEF DoFault, DoHear, Enters
<1>6. ASSUME \E q \in Rank : DoThrow(r, q)
      PROVE  Good
  BY <1>2, <1>6, Phases DEF DoThrow, Heard, Quiescing
<1>7. ASSUME \E q \in Rank, m \in Message :
               \/ DoDrain(r, q, m)
               \/ DoListen(r, q, m)
               \/ DoTally(r, q, m)
               \/ DoAck(r, q, m)
      PROVE  Good
  BY <1>7 DEF DoDrain, DoListen, DoTally, DoAck
<1>8. ASSUME NEW q \in Rank, NEW m \in Message, DoClear(r, q, m)
      PROVE  Good
  <2>1. PICK i \in DOMAIN chan[q][r] : chan[q][r][i] = m
    BY <1>8, TakesElement DEF DoClear
  <2>2. m.id = 5 => m.n1 = 0
    BY <2>1 DEF PassInv
  <2> QED BY <1>8, <2>2 DEF DoClear
<1>9. ASSUME DoAlert(r) \/ (\E f \in Int : DoSpread(r, f)) \/ DoReport(r)
      PROVE  Good
  BY <1>9 DEF DoAlert, DoSpread, DoReport
<1>10. ASSUME DoPause(r) \/ DoCount(r) \/ DoPass(r) \/ DoReturn(r) \/ DoLeave(r)
      PROVE  Good
  BY <1>10 DEF DoPause, DoCount, DoPass, DoReturn, DoLeave
<1>11. Good
  BY <1>3, <1>4, <1>5, <1>6, <1>7, <1>8, <1>9, <1>10 DEF Does
<1>12. \A p \in Rank :
         /\ phase'[p] = "clearing" /\ heard'[p] = 5 => msg'[p].n1 = 0
         /\ phase'[p] = "drain" => msg'[p].id \in {1, 2}
  BY <1>11 DEF PassInv, Alone, Same
<1> QED BY <1>1, <1>12 DEF PassInv

\* Both, of every behaviour.
AssertInv == RequestInv /\ PassInv

LEMMA AssertInit ==
  ASSUME Init
  PROVE  AssertInv
BY DEF Init, AssertInv, RequestInv, Known, PassInv

LEMMA AssertStep ==
  ASSUME FlowInv, RoundInv, AssertInv, [Next]_vars
  PROVE  AssertInv'
BY NextDoes, RequestStep, PassStep DEF AssertInv, FlowInv, RoundInv

\* No rank waits for requests that are not there.
LEMMA RequestThere ==
  ASSUME TypeOK, RequestInv, NEW r \in Rank
  PROVE  ~NoRequest(r)
<1>1. isends[r] \in Nat /\ slots[r] > 1 => slots[r] = isends[r] + 1
  BY DEF TypeOK, RequestInv, Known
<1> QED BY <1>1 DEF NoRequest, TypeOK

\* The last wave finds no data send unfinished.
LEMMA PassSurvives ==
  ASSUME FlowInv, RoundInv, NEW r \in Rank, PassCleared(r),
         \/ r = 0 /\ phase[r] = "clear" /\ net[0] = 0
         \/ phase[r] = "clearing" /\ heard[r] = 5
  PROVE  fatal' = fatal
<1>1. EdgeInv /\ LocalInv /\ DataInv /\ CreditInv /\ WaveInv
  BY DEF RoundInv
<1>2. StaffSendsDone(r)
  BY <1>1, StaffHasHeard DEF Quiescing
<1>3. Hushed
  BY <1>1, CountedOut, HeardCleared DEF Settled
<1>4. Incomplete(r) = 0
  <2>1. {q \in Rank : \E i \in DOMAIN chan[r][q] : chan[r][q][i] = Data} = {}
    BY <1>3, DataId DEF Hushed
  <2> QED BY <2>1, FS_EmptySet DEF Incomplete
<1>5. ~CannotFinish(r)
  BY <1>4 DEF CannotFinish
<1> QED BY <1>2, <1>5 DEF PassCleared

\* A count below zero cannot be.
LEMMA NetNat ==
  ASSUME FlowInv, RoundInv, phase[0] = "clear"
  PROVE  net[0] >= 0
<1>1. FlowInv /\ LocalInv /\ EdgeInv /\ CreditInv /\ TypeOK /\ CountsPositive
  BY CreditOpen DEF RoundInv, FlowInv
<1>2. PICK A \in Shares : \A p \in Rank : A[p] = Awaited(p)
  BY <1>1, AwaitedShares
<1>3. net[0] = Cardinality(InTransit) + Total(A)
  BY <1>1, <1>2, RootCount DEF Quiescing
<1>4. Cardinality(InTransit) \in Nat /\ Total(A) \in Nat
  BY TransitIs, TransitType, ShareTotal
<1> QED BY <1>3, <1>4

LateReason == "expecting id=3 or id=4 message"

\* An alert has reached a rank that waits for the reports of its staff.
LateAlert ==
  \E r \in Rank : phase[r] = "tally" /\ \E q \in Rank : <<q, r>> \in Alerts

\* A step that fails no assertion but perhaps the one on late alerts.
Survives == fatal' = fatal \/ (fatal' = LateReason /\ LateAlert)

LEMMA BeginSurvives ==
  ASSUME NEW r \in Rank, NEW m, NEW own, NEW a, Begin(r, m, own, a),
         m.id \in {1, 2}
  PROVE  fatal' = fatal
BY DEF Begin

LEMMA TaskSurvives ==
  ASSUME FlowInv, RoundInv, NEW r \in Rank,
         \/ Program(r) \/ SendDone(r) \/ Attend(r)
         \/ \E q \in Rank : HearCaught(r, q)
         \/ MpExecIdle(r)
         \/ r = 0 /\ MpExec
  PROVE  fatal' = fatal
<1>0. EdgeInv /\ LocalInv
  BY DEF RoundInv
<1>1. CASE Fault(r)
  <2>1. quiet[r] => msg[r].id \in {1, 2}
    BY <1>0 DEF LocalInv, LocalOf
  <2>2. Control(1, r, 0).id = 1
    BY DEF Control
  <2> QED BY <1>1, <2>1, <2>2, BeginSurvives DEF Fault
<1>2. ASSUME NEW q \in Rank, HearControl(r, q)
      PROVE  fatal' = fatal
  <2>1. Head(chan[q][r]).id \in {1, 2}
    BY <1>0, <1>2, HeadHeard DEF HearControl, Early
  <2> QED BY <1>2, <2>1, BeginSurvives DEF HearControl
<1>3. ASSUME NEW q \in Rank, SendInterrupted(r, q)
      PROVE  fatal' = fatal
  <2>1. PICK i \in DOMAIN chan[q][r], a \in 0 .. Incomplete(r) :
          chan[q][r][i] # Data /\ Begin(r, chan[q][r][i], FALSE, a)
    BY <1>3 DEF SendInterrupted
  <2>2. chan[q][r][i].id \in {1, 2}
    BY <1>0, <1>3, <2>1, EarlyMessage DEF SendInterrupted, Early
  <2> QED BY <2>1, <2>2, BeginSurvives
<1>4. ASSUME NEW D, StartSend(r, D)
      PROVE  fatal' = fatal
  BY <1>4 DEF StartSend
<1>5. CASE \E D : MpSend(r, D)
  BY <1>4, <1>5 DEF MpSend
<1>6. CASE MpExecIdle(r)
  BY <1>4, <1>6 DEF MpExecIdle
<1>7. CASE r = 0 /\ MpExec
  BY <1>4, <1>7 DEF MpExec
<1>8. CASE \E q \in Rank : MpRecv(r, q) \/ Enqueue(r, q) \/ HearCaught(r, q)
  BY <1>8 DEF MpRecv, Enqueue, HearCaught
<1>9. CASE Finish(r) \/ SendDone(r)
  BY <1>9 DEF Finish, SendDone
<1> QED BY <1>1, <1>2, <1>3, <1>5, <1>6, <1>7, <1>8, <1>9 DEF Program, Attend

\* What mpy_recover does with the head of a channel.
LEMMA ReceiptSurvives ==
  ASSUME FlowInv, RoundInv, NEW r \in Rank, NEW q \in Rank,
         \/ Discard(r, q)
         \/ DrainControl(r, q)
         \/ AlertControl(r, q)
         \/ TallyControl(r, q)
         \/ ClearData(r, q)
         \/ ClearControl(r, q)
         \/ AckControl(r, q)
  PROVE  Survives
<1>0. EdgeInv /\ TypeOK
  BY DEF RoundInv, FlowInv
<1> DEFINE m == Head(chan[q][r])
<1>1. ASSUME HasControl(q, r)
      PROVE  /\ phase[r] \in Early \cup {"drain", "alert", "alertdrain"} =>
                  m.id \in {1, 2}
             /\ phase[r] = "tally" =>
                  /\ q \in Staff(r)
                  /\ \/ m.id = 1
                     \/ m.id = 3 /\ tally[r][q] = 0
                     \/ m.id = 4 /\ tally[r][q] # 0
             /\ phase[r] \in Quiescing => m.id \in {4, 5}
             /\ phase[r] = "ack" => q \in Staff(r) /\ m.id = 6 /\ tally[r][q] < 2
  BY <1>0, <1>1, HeadHeard
<1>2. CASE Discard(r, q) \/ ClearData(r, q)
  BY <1>2 DEF Discard, ClearData, Survives
<1>3. CASE DrainControl(r, q)
  <2>1. m.id \in {1, 2}
    BY <1>1, <1>3 DEF DrainControl
  <2> QED BY <1>3, <2>1 DEF DrainControl, Survives
<1>4. CASE AlertControl(r, q)
  <2>1. m.id \in {1, 2}
    BY <1>1, <1>4 DEF AlertControl
  <2> QED BY <1>4, <2>1 DEF AlertControl, Survives
<1>5. CASE TallyControl(r, q)
  <2>1. HasControl(q, r) /\ phase[r] = "tally"
    BY <1>5 DEF TallyControl
  <2>t. /\ q \in Staff(r)
        /\ m.id = 1 \/ (m.id = 3 /\ tally[r][q] = 0) \/ (m.id = 4 /\ tally[r][q] # 0)
    BY <1>1, <2>1
  <2>2. CASE m.id = 1
    <3>1. 1 \in DOMAIN chan[q][r] /\ chan[q][r][1] = m
      BY <1>0, <2>1, HeadElement DEF HasControl
    <3>2. <<q, r>> \in Alerts
      BY <2>2, <3>1 DEF Alerts
    <3>3. LateAlert
      BY <2>1, <3>2 DEF LateAlert
    <3>4. fatal' = LateReason
      <4>1. m.id \notin {3, 4}
        BY <2>2
      <4> HIDE DEF m
      <4>2. Die(LateReason)
        BY <1>5, <2>t, <4>1 DEF TallyControl, LateReason, m
      <4> QED BY <4>2 DEF Die
    <3> QED BY <3>3, <3>4 DEF Survives
  <2>3. CASE m.id # 1
    <3> HIDE DEF m
    <3>t. m.id \in {3, 4} /\ (m.id = 3 => tally[r][q] = 0)
          /\ (m.id = 4 => tally[r][q] # 0)
      BY <2>t, <2>3
    <3>1. UNCHANGED fatal
      BY <1>5, <2>t, <3>t DEF TallyControl, m
    <3> QED BY <3>1 DEF Survives
  <2> QED BY <2>2, <2>3
<1>6. CASE ClearControl(r, q)
  <2>1. phase[r] \in Quiescing
    BY <1>6 DEF ClearControl, CanClear, Quiescing
  <2>2. m.id \in {4, 5}
    BY <1>1, <1>6, <2>1 DEF ClearControl
  <2> QED BY <1>6, <2>2 DEF ClearControl, Survives
<1>7. CASE AckControl(r, q)
  <2>1. q \in Staff(r) /\ m.id = 6 /\ ~(tally[r][q] >= 2)
    <3>1. q \in Staff(r) /\ m.id = 6 /\ tally[r][q] < 2
      BY <1>1, <1>7 DEF AckControl
    <3>2. tally[r][q] \in Int
      BY <1>0, CounterType
    <3> QED BY <3>1, <3>2
  <2> QED BY <1>7, <2>1 DEF AckControl, Survives
<1> QED BY <1>2, <1>3, <1>4, <1>5, <1>6, <1>7

\* What mpy_recover does on its own.
LEMMA RecoverSurvives ==
  ASSUME FlowInv, RoundInv, AssertInv, NEW r \in Rank,
         Recover(r) \/ (r = 0 /\ Complete)
  PROVE  Survives
<1>0. EdgeInv /\ LocalInv /\ WaveInv /\ TypeOK
  BY DEF RoundInv, FlowInv
<1>1. CASE \E q \in Rank : \/ Discard(r, q)
                           \/ DrainControl(r, q)
                           \/ AlertControl(r, q)
                           \/ TallyControl(r, q)
                           \/ ClearData(r, q)
                           \/ ClearControl(r, q)
                           \/ AckControl(r, q)
  BY <1>1, ReceiptSurvives
<1>2. CASE DrainEmpty(r)
  <2>1. r = 0 => id0[0] = 1
    BY <1>0, <1>2 DEF DrainEmpty, LocalInv, RootLocal
  <2> QED BY <1>2, <2>1 DEF DrainEmpty, Spread, Survives
<1>3. CASE AlertEmpty(r)
  BY <1>3 DEF AlertEmpty, Spread, Survives
<1>4. CASE Report(r) \/ Acknowledge(r)
  BY <1>4 DEF Report, Acknowledge, Survives
<1>5. CASE ClearEmpty(r)
  <2>1. phase[r] = "clearing" /\ (heard[r] = 5 => msg[r].n1 = 0)
    BY <1>5 DEF ClearEmpty, AssertInv, PassInv
  <2> QED BY <1>5, <2>1, PassSurvives DEF ClearEmpty, Survives
<1>6. CASE ClearReport(r)
  <2>1. phase[r] = "clearing" /\ mpyNet[r] < count[r]
    BY <1>6 DEF ClearReport
  <2>2. Unreported(r) # 0
    <3>1. mpyNet[r] \in Int /\ count[r] \in Int
      BY <1>0 DEF TypeOK
    <3> QED BY <2>1, <3>1 DEF Unreported
  <2>3. heard[r] # 5
    BY <1>0, <2>1, <2>2, HeardCleared
  <2> QED BY <1>6, <2>3 DEF ClearReport, Survives
<1>7. CASE Leave(r)
  <2>1. StaffSendsDone(r)
    BY <1>0, <1>7, StaffHasHeard DEF Leave
  <2> QED BY <1>7, <2>1 DEF Leave, Survives
<1>8. CASE r = 0 /\ Complete
  <2>1. phase[0] = "clear" /\ (net[0] = 0 \/ net[0] < 0)
    BY <1>8 DEF Complete, NoneOutstanding
  <2>2. net[0] = 0
    <3>1. net[0] >= 0 /\ net[0] \in Int
      BY <1>0, <2>1, NetNat, ZeroRank DEF TypeOK
    <3> QED BY <2>1, <3>1
  <2>3. PassCleared(0)
    BY <1>8, <2>2 DEF Complete, NoneOutstanding
  <2> QED BY <1>8, <2>1, <2>2, <2>3, PassSurvives DEF Survives
<1>9. ~NoRequest(r)
  BY <1>0, RequestThere DEF AssertInv
<1> QED BY <1>1, <1>2, <1>3, <1>4, <1>5, <1>6, <1>7, <1>8, <1>9
        DEF Recover, Recovering

LEMMA StepSurvives ==
  ASSUME FlowInv, RoundInv, AssertInv, [Next]_vars
  PROVE  Survives
<1>1. CASE UNCHANGED vars
  BY <1>1 DEF vars, Survives
<1>2. CASE MpExec \/ Complete \/ \E r \in Rank : Step(r)
  BY <1>2, TaskSurvives, RecoverSurvives, ZeroRank DEF Step, Survives
<1> QED BY <1>1, <1>2 DEF Next, Rest

-----------------------------------------------------------------------------
(* A single fault.                                                         *)

\* There is an alert at a, where b = a, or on its way from a to b.
AlertAt(a, b) ==
  \/ a = b /\ phase[a] = "drain" /\ id0[a] = 1
  \/ \E i \in DOMAIN chan[a][b] : chan[a][b][i].id = 1

LEMMA AlertsIs ==
  /\ \A a, b \in Rank : <<a, b>> \in Alerts <=> AlertAt(a, b)
  /\ \A e \in Alerts : \E a, b \in Rank : e = <<a, b>> /\ AlertAt(a, b)
  /\ \A a, b \in Rank : <<a, b>> \in Alerts' <=> AlertAt(a, b)'
  /\ \A e \in Alerts' : \E a, b \in Rank : e = <<a, b>> /\ AlertAt(a, b)'
BY DEF Alerts, AlertAt

\* An alert is on an edge of the tree.
LEMMA AlertOnEdge ==
  ASSUME NEW r \in Rank, NEW c \in Seq(OnEdge(r, r))
  PROVE  \A i \in DOMAIN c : c[i].id # 1
<1> SUFFICES ASSUME NEW i \in DOMAIN c, c[i].id = 1
             PROVE  FALSE
  OBVIOUS
<1>1. c[i] \in OnEdge(r, r)
  BY LenProperties, ElementOfSeq
<1>2. r \in Staff(r)
  BY <1>1, DataId DEF OnEdge, Orders
<1> QED BY <1>2, StaffInvertsBoss, BossRank

\* A rank that is to pass an alert on has just entered mpy_recover with it, or
\* had it before.
LEMMA DrainAlert ==
  ASSUME LocalInv, NEW r \in Rank, Does(r), phase'[r] = "drain", id0'[r] = 1
  PROVE  \/ phase[r] = "drain" /\ id0[r] = 1
         \/ \E m \in Message : DoFault(r, m)
         \/ \E q \in Rank, m \in Message : DoHear(r, q, m) /\ m.id = 1
<1>1. CASE Idles
  BY <1>1 DEF Idles
<1>2. CASE \/ \E D \in SUBSET Rank : DoSend(r, D)
           \/ DoWork(r)
           \/ \E q \in Rank : DoQueue(r, q)
           \/ \E q \in Rank, m \in Message : DoCatch(r, q, m)
  BY <1>2 DEF DoSend, DoWork, DoQueue, DoCatch, Early
<1>3. CASE \E q \in Rank, m \in Message : DoHear(r, q, m)
  BY <1>3 DEF DoHear, Enters
<1>4. CASE \E q \in Rank : DoThrow(r, q)
  BY <1>4 DEF DoThrow
<1>5. ASSUME NEW q \in Rank, NEW m \in Message, DoDrain(r, q, m)
      PROVE  phase[r] = "drain" /\ id0[r] = 1
  <2>1. id0[r] \in {1, 2}
    BY <1>5 DEF DoDrain, LocalInv, LocalOf
  <2>2. m.id \in {1, 2} /\ 1 = IF id0[r] < m.id THEN m.id ELSE id0[r]
    BY <1>5 DEF DoDrain
  <2> QED BY <1>5, <2>1, <2>2 DEF DoDrain
<1>6. CASE \E q \in Rank, m \in Message :
             \/ DoListen(r, q, m)
             \/ DoTally(r, q, m)
             \/ DoClear(r, q, m)
             \/ DoAck(r, q, m)
  BY <1>6 DEF DoListen, DoTally, DoClear, DoAck
<1>7. CASE DoAlert(r) \/ (\E f \in Int : DoSpread(r, f)) \/ DoReport(r)
  BY <1>7 DEF DoAlert, DoSpread, DoReport
<1>8. CASE DoPause(r) \/ DoCount(r) \/ DoPass(r) \/ DoReturn(r) \/ DoLeave(r)
  BY <1>8 DEF DoPause, DoCount, DoPass, DoReturn, DoLeave
<1> QED BY <1>1, <1>2, <1>3, <1>4, <1>5, <1>6, <1>7, <1>8 DEF Does

\* Where alerts come from.
LEMMA AlertFrom ==
  ASSUME FlowInv, LocalInv, NEW r \in Rank, Does(r), Alone(r),
         NEW a \in Rank, NEW b \in Rank, AlertAt(a, b)', ~AlertAt(a, b)
  PROVE  \/ a = r /\ b = r /\ \E m \in Message : DoFault(r, m)
         \/ /\ a = r /\ b = r
            /\ \E q \in Rank, m \in Message : DoHear(r, q, m) /\ m.id = 1
         \/ a = r /\ b = Boss(r) /\ DoAlert(r)
<1>1. CASE a = b /\ phase'[a] = "drain" /\ id0'[a] = 1
  <2>1. a = r
    BY <1>1 DEF Alone, Same, AlertAt
  <2> QED BY <1>1, <2>1, DrainAlert DEF AlertAt
<1>2. CASE \E i \in DOMAIN chan'[a][b] : chan'[a][b][i].id = 1
  <2>1. PICK i \in DOMAIN chan'[a][b] : chan'[a][b][i].id = 1
    BY <1>2
  <2>2. TypeOK
    BY DEF FlowInv
  <2> DEFINE m == chan'[a][b][i]
  <2>3. Old(a, b, m) \/ New(r, a, b, m)
    BY <2>2, OldOrNew
  <2>4. ~Old(a, b, m)
    BY <2>1 DEF Old, AlertAt
  <2>5. m.id = 1
    BY <2>1
  <2> HIDE DEF m
  <2>6. DoAlert(r) /\ a = r /\ b = Boss(r)
    BY <2>3, <2>4, <2>5, DataId DEF New, Control
  <2> QED BY <2>6
<1> QED BY <1>1, <1>2 DEF AlertAt

LEMMA RootDecides ==
  ASSUME LocalInv, NEW r \in Rank, Does(r), Alone(r), phase'[0] \in Judging,
         phase[0] \notin Judging
  PROVE  r = 0 /\ phase[0] = "drain" /\ id0[0] = 1 /\ phase'[0] = "tally"
<1>1. r = 0
  BY ZeroRank DEF Alone, Same
<1>2. CASE Idles
  BY <1>1, <1>2 DEF Idles
<1>3. CASE \/ \E D \in SUBSET Rank : DoSend(r, D)
           \/ DoWork(r)
           \/ \E q \in Rank : DoQueue(r, q)
           \/ \E q \in Rank, m \in Message : DoCatch(r, q, m)
  BY <1>1, <1>3 DEF DoSend, DoWork, DoQueue, DoCatch, Early, Judging, Quiescing
<1>4. CASE \/ \E q \in Rank, m \in Message : DoHear(r, q, m)
           \/ \E m \in Message : DoFault(r, m)
  BY <1>1, <1>4 DEF DoHear, DoFault, Enters, Judging, Quiescing
<1>5. CASE \E q \in Rank : DoThrow(r, q)
  BY <1>1, <1>5 DEF DoThrow, Judging, Quiescing
<1>6. CASE \E q \in Rank, m \in Message :
             \/ DoDrain(r, q, m)
             \/ DoListen(r, q, m)
             \/ DoTally(r, q, m)
             \/ DoClear(r, q, m)
             \/ DoAck(r, q, m)
  BY <1>1, <1>6 DEF DoDrain, DoListen, DoTally, DoClear, DoAck, Judging, Quiescing
<1>7. CASE DoAlert(r) \/ DoReport(r)
  BY <1>1, <1>7 DEF DoAlert, DoReport, Judging, Quiescing
<1>8. CASE DoPause(r) \/ DoCount(r) \/ DoPass(r) \/ DoReturn(r) \/ DoLeave(r)
  BY <1>1, <1>8 DEF DoPause, DoCount, DoPass, DoReturn, DoLeave, Judging, Quiescing
<1>9. CASE \E f \in Int : DoSpread(r, f)
  BY <1>1, <1>9 DEF DoSpread, LocalInv, RootLocal
<1> QED BY <1>2, <1>3, <1>4, <1>5, <1>6, <1>7, <1>8, <1>9 DEF Does

\* A rank of the recovery stays in it, until id=6.
LEMMA HaltedStays ==
  ASSUME NEW r \in Rank, Does(r), phase[r] \in Halted
  PROVE  phase'[r] \in Halted \/ (phase[r] = "ack" /\ phase'[r] = "leaving")
<1>2. CASE Idles
  BY <1>2 DEF Idles
<1>3. CASE \/ \E D \in SUBSET Rank : DoSend(r, D)
           \/ DoWork(r)
           \/ \E q \in Rank : DoQueue(r, q)
           \/ \E q \in Rank, m \in Message : DoCatch(r, q, m)
  BY <1>3 DEF DoSend, DoWork, DoQueue, DoCatch, Early, Halted, Halting
<1>4. CASE \/ \E q \in Rank, m \in Message : DoHear(r, q, m)
           \/ \E m \in Message : DoFault(r, m)
  BY <1>4 DEF DoHear, DoFault, Enters, Halted, Halting
<1>5. CASE \E q \in Rank : DoThrow(r, q)
  BY <1>5 DEF DoThrow, Halted, Halting
<1>6. CASE \E q \in Rank, m \in Message :
             \/ DoDrain(r, q, m)
             \/ DoListen(r, q, m)
             \/ DoTally(r, q, m)
             \/ DoClear(r, q, m)
             \/ DoAck(r, q, m)
  BY <1>6 DEF DoDrain, DoListen, DoTally, DoClear, DoAck, Halted, Halting
<1>7. CASE DoAlert(r) \/ DoReport(r) \/ \E f \in Int : DoSpread(r, f)
  BY <1>7 DEF DoAlert, DoReport, DoSpread, Halted, Halting
<1>8. CASE DoPause(r) \/ DoCount(r) \/ DoPass(r) \/ DoReturn(r) \/ DoLeave(r)
  BY <1>8 DEF DoPause, DoCount, DoPass, DoReturn, DoLeave, Halted, Halting
<1> QED BY <1>2, <1>3, <1>4, <1>5, <1>6, <1>7, <1>8 DEF Does

\* The ranks that have faulted change when one does, and when rank 0 leaves.
LEMMA FaultedDoes ==
  ASSUME NEW r \in Rank, Does(r)
  PROVE  \/ faulted' = faulted
         \/ \E m \in Message : DoFault(r, m)
         \/ r = 0 /\ DoLeave(0) /\ faulted' = {}
<1>3. CASE \/ Idles
           \/ \E D \in SUBSET Rank : DoSend(r, D)
           \/ DoWork(r)
           \/ \E q \in Rank : DoQueue(r, q)
           \/ \E q \in Rank, m \in Message : DoCatch(r, q, m)
  BY <1>3 DEF Idles, DoSend, DoWork, DoQueue, DoCatch
<1>4. CASE \E q \in Rank, m \in Message : DoHear(r, q, m)
  BY <1>4 DEF DoHear
<1>5. CASE \E q \in Rank : DoThrow(r, q)
  BY <1>5 DEF DoThrow
<1>6. CASE \E q \in Rank, m \in Message :
             \/ DoDrain(r, q, m)
             \/ DoListen(r, q, m)
             \/ DoTally(r, q, m)
             \/ DoClear(r, q, m)
             \/ DoAck(r, q, m)
  BY <1>6 DEF DoDrain, DoListen, DoTally, DoClear, DoAck
<1>7. CASE DoAlert(r) \/ DoReport(r) \/ \E f \in Int : DoSpread(r, f)
  BY <1>7 DEF DoAlert, DoReport, DoSpread
<1>8. CASE DoPause(r) \/ DoCount(r) \/ DoPass(r) \/ DoReturn(r)
  BY <1>8 DEF DoPause, DoCount, DoPass, DoReturn
<1>9. CASE DoLeave(r)
  BY <1>9 DEF DoLeave
<1> QED BY <1>3, <1>4, <1>5, <1>6, <1>7, <1>8, <1>9 DEF Does

\* The bound of the model on faults.
LEMMA FaultsBounded ==
  ASSUME TypeOK, [Next]_vars, Cardinality(faulted) <= MaxFaults
  PROVE  Cardinality(faulted') <= MaxFaults
<1>1. MaxFaults \in Nat /\ Cardinality({}) = 0
  BY BoundsAssumption, FS_EmptySet
<1>2. CASE faulted' = faulted \/ faulted' = {}
  BY <1>1, <1>2
<1>3. CASE UNCHANGED vars
  BY <1>2, <1>3 DEF vars
<1>4. CASE MpExec \/ Complete
  BY <1>2, <1>4 DEF MpExec, StartSend, Complete, PassCleared, Die
<1>5. ASSUME NEW r \in Rank, Step(r)
      PROVE  Cardinality(faulted') <= MaxFaults
  <2>1. CASE Fault(r)
    BY <2>1 DEF Fault
  <2>2. CASE \/ \E D \in SUBSET Rank : MpSend(r, D)
             \/ \E from \in Rank : MpRecv(r, from)
             \/ Finish(r) \/ SendDone(r) \/ Attend(r) \/ MpExecIdle(r)
             \/ \E q \in Rank : HearCaught(r, q)
    BY <1>2, <2>2 DEF MpSend, StartSend, MpRecv, Finish, SendDone, Attend,
                      Enqueue, HearControl, SendInterrupted, MpExecIdle, HearCaught
  <2>3. CASE \E reason : Die(reason)
    BY <1>2, <2>3 DEF Die
  <2>4. CASE Recover(r) /\ ~\E reason : Die(reason)
    BY <1>2, <2>4 DEF Recover, Recovering, Discard, DrainControl, DrainEmpty, AlertControl,
         AlertEmpty, Spread, TallyControl, Report, ClearData, ClearControl,
         ClearEmpty, ClearReport, PassCleared, AckControl, Acknowledge, Leave
  <2> QED BY <1>5, <2>1, <2>2, <2>3, <2>4 DEF Step, Program
<1> QED BY <1>3, <1>4, <1>5 DEF Next, Rest

\* The only fault there is finds nothing of a recovery.
LEMMA FaultIsFirst ==
  ASSUME MaxFaults <= 1, FlowInv, RoundInv, OneAlert, NEW r \in Rank,
         NEW m \in Message, DoFault(r, m), Cardinality(faulted') <= MaxFaults
  PROVE  faulted = {} /\ Alerts = {} /\ phase[0] \notin Judging
<1>1. phase[r] = "task" /\ faulted' = faulted \cup {r}
  BY DEF DoFault
<1>2. r \notin faulted
  <2>1. phase[r] \notin Halted /\ phase[r] \notin Stopped \cup {"idle"}
    BY <1>1 DEF Halted, Halting, Stopped
  <2>2. phase[0] \notin {"ack", "leaving"}
    BY <2>1 DEF RoundInv, WaveInv
  <2> QED BY <2>1, <2>2 DEF OneAlert
<1>3. IsFiniteSet(faulted) /\ Cardinality(faulted) \in Nat
  BY RankFinite, FS_Subset, FS_CardinalityType DEF FlowInv, TypeOK
<1>4. Cardinality(faulted') = Cardinality(faulted) + 1
  BY <1>1, <1>2, <1>3, FS_AddElement
<1>5. Cardinality(faulted) = 0
  BY <1>3, <1>4, BoundsAssumption
<1>6. faulted = {}
  BY <1>3, <1>5, FS_EmptySet
<1>7. Alerts = {}
  BY <1>6 DEF OneAlert
<1>8. ~Judged(0)
  BY <1>6, ZeroRank DEF RoundInv, FrankInv, NamedInv
<1> QED BY <1>6, <1>7, <1>8 DEF Judged, Judging, Quiescing

\* What a step does to the alert: nothing, raise it, end it, or move it.
LEMMA AlertMoves ==
  ASSUME MaxFaults <= 1, FlowInv, FlowInv', RoundInv, OneAlert,
         Cardinality(faulted') <= MaxFaults, NEW r \in Rank, Does(r), Alone(r)
  PROVE  /\ \A a, b \in Alerts' : a = b
         /\ Alerts' # {} => Alerts # {} \/ \E m \in Message : DoFault(r, m)
<1>0. TypeOK /\ LocalInv /\ EdgeInv
  BY DEF FlowInv, RoundInv
<1>1. CASE Alerts' \subseteq Alerts
  BY <1>1 DEF OneAlert
<1>2. CASE ~(Alerts' \subseteq Alerts)
  <2> DEFINE Fresh(a, b) == AlertAt(a, b)' /\ ~AlertAt(a, b)
             Raised == \E m \in Message : DoFault(r, m)
             Heard4 == \E q \in Rank, m \in Message : DoHear(r, q, m) /\ m.id = 1
  <2>1. \A a, b \in Rank : Fresh(a, b) =>
          \/ a = r /\ b = r /\ (Raised \/ Heard4)
          \/ a = r /\ b = Boss(r) /\ DoAlert(r)
    BY <1>0, AlertFrom
  <2>2. /\ Raised \/ Heard4 => phase[r] \in Early
        /\ DoAlert(r) => phase[r] = "drain"
    BY DEF DoFault, DoHear, Enters, DoAlert
  <2>3. PICK x \in Rank, y \in Rank : Fresh(x, y)
    BY <1>2, AlertsIs
  <2>4. \A a, b \in Rank : Fresh(a, b) => a = x /\ b = y
    <3> HIDE DEF Fresh, Raised, Heard4
    <3> QED BY <2>1, <2>2, <2>3 DEF Early
  <2>5. ASSUME Raised
        PROVE  Alerts = {}
    BY <2>5, FaultIsFirst
  <2>6. ASSUME NEW q \in Rank, NEW m \in Message, DoHear(r, q, m), m.id = 1
        PROVE  <<q, r>> \in Alerts /\ <<q, r>> \notin Alerts'
    <3>1. Takes(r, q, m) /\ phase[r] \in Early
      BY <2>6 DEF DoHear, Enters
    <3>2. Apart(q, r) /\ q \in Staff(r) /\ q # 0 /\ r = Boss(q)
      BY <1>0, <2>6, <3>1, EarlyTakes
    <3>3. Plain(chan'[q][r])
      BY <1>0, <3>1, <3>2, TakesChan DEF Apart
    <3>4. \E i \in DOMAIN chan[q][r] : chan[q][r][i] = m
      BY <1>0, <3>1, TakesElement
    <3>5. AlertAt(q, r)
      BY <2>6, <3>4 DEF AlertAt
    <3>6. q # r
      BY <3>2, BossRank
    <3>7. ~AlertAt(q, r)'
      BY <3>3, <3>6, DataId DEF AlertAt, Plain
    <3> QED BY <3>5, <3>7, AlertsIs
  <2>7. ASSUME DoAlert(r)
        PROVE  <<r, r>> \in Alerts /\ <<r, r>> \notin Alerts'
    <3>1. <<r, r>> \in Alerts
      BY <2>7, AlertsIs DEF AlertAt, DoAlert
    <3>2. chan'[r][r] \in Seq(OnEdge(r, r))
      BY DEF FlowInv, ControlFollowsTree, OnEdge
    <3>3. \A i \in DOMAIN chan'[r][r] : chan'[r][r][i].id # 1
      BY <3>2, AlertOnEdge
    <3>4. ~AlertAt(r, r)'
      BY <2>7, <3>3 DEF AlertAt, DoAlert
    <3> QED BY <3>1, <3>4, AlertsIs
  <2>8. Raised \/ Alerts # {}
    BY <2>1, <2>3, <2>6, <2>7
  <2>9. \A e \in Alerts : e \notin Alerts'
    BY <2>1, <2>3, <2>5, <2>6, <2>7 DEF OneAlert
  <2>10. \A e \in Alerts' : e = <<x, y>>
    <3> SUFFICES ASSUME NEW a \in Rank, NEW b \in Rank, <<a, b>> \in Alerts'
                 PROVE  <<a, b>> = <<x, y>>
      BY AlertsIs
    <3>1. Fresh(a, b)
      BY <2>9, AlertsIs
    <3> HIDE DEF Fresh
    <3> QED BY <2>4, <3>1
  <2> QED BY <2>8, <2>10
<1> QED BY <1>1, <1>2

LEMMA OneAlertStep ==
  ASSUME MaxFaults <= 1, FlowInv, FlowInv', RoundInv, OneAlert, [Next]_vars
  PROVE  OneAlert'
<1>0. TypeOK /\ LocalInv /\ EdgeInv /\ WaveInv
  BY DEF FlowInv, RoundInv
<1>1. Cardinality(faulted') <= MaxFaults
  BY <1>0, FaultsBounded DEF OneAlert
<1>2. PICK r \in Rank : Does(r) /\ Alone(r)
  BY NextDoes
<1>3. /\ \A a, b \in Alerts' : a = b
      /\ Alerts' # {} => Alerts # {} \/ \E m \in Message : DoFault(r, m)
  BY <1>1, <1>2, AlertMoves
<1>4. ASSUME NEW m \in Message, DoFault(r, m)
      PROVE  faulted = {} /\ phase[0] \notin Judging
             /\ faulted' = {r} /\ phase'[r] = "drain"
  <2>1. faulted = {} /\ phase[0] \notin Judging
    BY <1>1, <1>4, FaultIsFirst
  <2> QED BY <1>4, <2>1 DEF DoFault, Enters
<1>5. ASSUME r = 0, DoLeave(0)
      PROVE  Alerts = {}
  <2>1. phase[0] = "leaving"
    BY <1>5 DEF DoLeave
  <2>2. /\ \A p \in Rank : phase[p] # "drain"
        /\ \A p, q \in Rank : chan[p][q] = << >>
    BY <1>0, <2>1, AllLeft
  <2>3. \A p, q \in Rank : ~AlertAt(p, q)
    BY <2>2 DEF AlertAt
  <2> QED BY <2>3, AlertsIs
<1>6. ASSUME Alerts' # {}
      PROVE  faulted' # {} /\ phase'[0] \notin Judging
  <2>1. CASE \E m \in Message : DoFault(r, m)
    <3>1. /\ faulted' = {r} /\ phase[0] \notin Judging /\ phase'[r] = "drain"
          /\ faulted = {}
      BY <1>4, <2>1
    <3>2. phase'[0] \notin Judging
      <4>1. CASE r = 0
        BY <3>1, <4>1 DEF Judging, Quiescing
      <4>2. CASE r # 0
        BY <1>2, <3>1, <4>2, ZeroRank DEF Alone, Same
      <4> QED BY <4>1, <4>2
    <3> QED BY <3>1, <3>2
  <2>2. CASE ~\E m \in Message : DoFault(r, m)
    <3>1. Alerts # {} /\ faulted # {} /\ phase[0] \notin Judging
      BY <1>3, <1>6, <2>2 DEF OneAlert, Judging, Quiescing
    <3>2. faulted' = faulted
      BY <1>2, <1>5, <2>2, <3>1, FaultedDoes
    <3>3. ASSUME phase'[0] \in Judging
          PROVE  FALSE
      <4>1. r = 0 /\ phase[0] = "drain" /\ id0[0] = 1 /\ phase'[0] = "tally"
        BY <1>0, <1>2, <3>1, <3>3, RootDecides
      <4>2. \A a, b \in Rank : AlertAt(a, b) => a = 0 /\ b = 0
        <5>1. AlertAt(0, 0)
          BY <4>1 DEF AlertAt
        <5> SUFFICES ASSUME NEW a \in Rank, NEW b \in Rank, AlertAt(a, b)
                     PROVE  a = 0 /\ b = 0
          OBVIOUS
        <5>2. <<0, 0>> \in Alerts /\ <<a, b>> \in Alerts
          BY <5>1, AlertsIs, ZeroRank
        <5>3. <<a, b>> = <<0, 0>>
          BY <5>2 DEF OneAlert
        <5> QED BY <5>3
      <4>3. chan'[0][0] \in Seq(OnEdge(0, 0))
        BY ZeroRank DEF FlowInv, ControlFollowsTree, OnEdge
      <4>4. ~AlertAt(0, 0)'
        BY <4>1, <4>3, AlertOnEdge, ZeroRank DEF AlertAt
      <4>5. PICK a \in Rank, b \in Rank : AlertAt(a, b)'
        BY <1>6, AlertsIs
      <4>6. ~AlertAt(a, b)
        BY <4>2, <4>4, <4>5
      <4>7. (\E q \in Rank, m \in Message : DoHear(r, q, m)) \/ DoAlert(r)
        BY <1>0, <1>2, <2>2, <4>5, <4>6, AlertFrom
      <4> QED BY <4>1, <4>7 DEF DoHear, Enters, DoAlert, Early
    <3> QED BY <3>1, <3>2, <3>3
  <2> QED BY <2>1, <2>2
<1>7. ASSUME NEW p \in faulted'
      PROVE  phase'[p] \in Halted \/ phase'[0] \in {"ack", "leaving"}
  <2>1. CASE \E m \in Message : DoFault(r, m)
    BY <1>4, <1>7, <2>1 DEF Halted, Halting
  <2>2. CASE faulted' = faulted /\ ~(r = 0 /\ DoLeave(0))
    <3>1. p \in Rank /\ (phase[p] \in Halted \/ phase[0] \in {"ack", "leaving"})
      BY <1>0, <1>7, <2>2 DEF TypeOK, OneAlert
    <3>2. phase[0] \in {"ack", "leaving"} => phase'[0] \in {"ack", "leaving"}
      <4>1. CASE r # 0
        BY <1>2, <4>1, ZeroRank DEF Alone, Same
      <4>2. CASE r = 0
        BY <1>0, <1>2, <2>2, <4>2, WaveDoes
           DEF Idles, DoPause, DoPass, DoAck, DoReturn, DoLeave, DoClear,
               Quiescing
      <4> QED BY <4>1, <4>2
    <3>3. ASSUME phase[p] \in Halted, p = r
          PROVE  phase'[p] \in Halted \/ phase'[0] \in {"ack", "leaving"}
      <4>1. phase'[r] \in Halted \/ (phase[r] = "ack" /\ phase'[r] = "leaving")
        BY <1>2, <3>3, HaltedStays
      <4>2. phase[r] = "ack" => phase[0] = "ack"
        BY <1>0, RootAck
      <4> QED BY <3>2, <3>3, <4>1, <4>2
    <3>4. ASSUME p # r
          PROVE  phase'[p] = phase[p]
      BY <1>2, <3>1, <3>4 DEF Alone, Same
    <3> QED BY <3>1, <3>2, <3>3, <3>4
  <2>3. CASE faulted' = {}
    BY <1>7, <2>3
  <2>4. CASE r = 0 /\ DoLeave(0)
    BY <1>7, <2>4 DEF DoLeave
  <2> QED BY <1>2, <2>1, <2>2, <2>3, <2>4, FaultedDoes
<1> QED BY <1>1, <1>3, <1>6, <1>7 DEF OneAlert, Judging, Quiescing

\* Of the assertions in Reasons, in a job of up to 63 ranks and messages
\* (SmallAssumption) and with any number of faults, the only one that can fail
\* is that on the reports a rank waits for, where an alert arrives instead
\* (mpy.c:990).
THEOREM OnlyLateAlerts == Spec => [](fatal \in {"none", LateReason})
<1> DEFINE Survived == AssertInv /\ fatal \in {"none", LateReason}
<1>1. Init => Survived
  BY AssertInit DEF Init
<1>2. FlowInv /\ FlowInv' /\ RoundInv /\ Survived /\ [Next]_vars => Survived'
  BY AssertStep, StepSurvives DEF Survives
<1>3. Spec => [](FlowInv /\ RoundInv)
  BY RoundCorrect
<1> HIDE DEF Survived
<1>4. Spec => []Survived
  BY <1>1, <1>2, <1>3, PTL DEF Spec
<1>5. Survived => fatal \in {"none", LateReason}
  BY DEF Survived
<1> QED BY <1>4, <1>5, PTL

\* In such a job, where at most one rank faults before everybody is back in its
\* idle loop, none of the assertions in Reasons fails (mpy.c:951-1072).
THEOREM NeverFatalCorrect ==
  ASSUME MaxFaults <= 1
  PROVE  Spec => []NeverFatal
<1>1. Init => OneAlert
  <2> SUFFICES ASSUME Init PROVE OneAlert
    OBVIOUS
  <2>1. /\ \A r \in Rank : phase[r] = "task" /\ \A q \in Rank : chan[q][r] = << >>
        /\ faulted = {}
    BY DEF Init
  <2>2. Alerts = {}
    BY <2>1, AlertsIs DEF AlertAt
  <2> QED BY <2>1, <2>2, FS_EmptySet, BoundsAssumption DEF OneAlert
<1>2. Init => NeverFatal
  BY DEF Init, NeverFatal
<1>3. /\ FlowInv /\ FlowInv' /\ RoundInv /\ AssertInv /\ OneAlert /\ NeverFatal
      /\ [Next]_vars
      => AssertInv' /\ OneAlert' /\ NeverFatal'
  <2> SUFFICES ASSUME FlowInv, FlowInv', RoundInv, AssertInv, OneAlert,
                      NeverFatal, [Next]_vars
               PROVE  AssertInv' /\ OneAlert' /\ NeverFatal'
    OBVIOUS
  <2>1. OneAlert'
    BY OneAlertStep
  <2>2. ~LateAlert
    <3>1. \A r \in Rank : phase[r] = "tally" => phase[0] \in Judging
      BY RootJudging DEF RoundInv, Judging
    <3> QED BY <3>1 DEF LateAlert, OneAlert, Judging, Quiescing
  <2>3. NeverFatal'
    BY <2>2, StepSurvives DEF Survives, NeverFatal
  <2> QED BY <2>1, <2>3, AssertStep
<1>4. Spec => [](FlowInv /\ RoundInv)
  BY RoundCorrect
<1>5. Init => AssertInv
  BY AssertInit
<1> QED BY <1>1, <1>2, <1>3, <1>4, <1>5, PTL DEF Spec
=============================================================================
