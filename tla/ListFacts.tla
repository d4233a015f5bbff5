------------------------------ MODULE ListFacts ------------------------------
(***************************************************************************)
(* Facts that the proofs about tables, lists and counts need: taking an    *)
(* element out of a sequence (RemoveAt of SequencesExt), putting one in    *)
(* (InsertAt) and putting one at the head; and the theory of finite sums   *)
(* (MapThenSumSet of FiniteSetsExt).                                       *)
(***************************************************************************)
EXTENDS Integers, SequencesExt, SequenceTheorems, FiniteSetTheorems, TLAPS

\* RemoveAt shifts what comes after the place by one (SequencesExt).
LEMMA RemoveAtProperties ==
  ASSUME NEW S, NEW s \in Seq(S), NEW i \in 1..Len(s)
  PROVE  /\ RemoveAt(s, i) \in Seq(S)
         /\ Len(RemoveAt(s, i)) = Len(s) - 1
         /\ \A k \in 1..(Len(s) - 1) :
              RemoveAt(s, i)[k] = IF k < i THEN s[k] ELSE s[k + 1]
<1> DEFINE a == SubSeq(s, 1, i - 1)
           b == SubSeq(s, i + 1, Len(s))
<1>0. Len(s) \in Nat /\ i \in Nat /\ 1 <= i /\ i <= Len(s)
  <2>1. Len(s) \in Nat
    BY LenProperties
  <2> QED
    BY <2>1
<1>1. a \in Seq(S) /\ Len(a) = i - 1 /\ \A k \in 1..(i - 1) : a[k] = s[k]
  BY <1>0, SubSeqProperties
<1>2. b \in Seq(S) /\ Len(b) = Len(s) - i /\ \A k \in 1..(Len(s) - i) : b[k] = s[i + k]
  BY <1>0, SubSeqProperties
<1>3. RemoveAt(s, i) = a \o b
  BY DEF RemoveAt
<1> HIDE DEF a, b
<1>4. a \o b \in Seq(S) /\ Len(a \o b) = Len(s) - 1
  <2>1. a \o b \in Seq(S) /\ Len(a \o b) = Len(a) + Len(b)
    BY <1>1, <1>2, ConcatProperties
  <2> QED
    BY <2>1, <1>0, <1>1, <1>2
<1>5. ASSUME NEW k \in 1..(Len(s) - 1)
      PROVE  (a \o b)[k] = IF k < i THEN s[k] ELSE s[k + 1]
  <2>1. CASE k < i
    BY <2>1, <1>0, <1>1, <1>2, ConcatProperties
  <2>2. CASE k >= i
    <3>1. (a \o b)[k] = b[k - (i - 1)]
      BY <2>2, <1>0, <1>1, <1>2, ConcatProperties
    <3>2. k - (i - 1) \in 1..(Len(s) - i) /\ i + (k - (i - 1)) = k + 1
      BY <2>2, <1>0
    <3> QED
      BY <3>1, <3>2, <1>2, <2>2, <1>0
  <2>3. k < i \/ k >= i
    BY <1>0
  <2> QED
    BY <2>1, <2>2, <2>3, Zenon
<1> QED
  BY <1>3, <1>4, <1>5

\* <<e>> \o s begins with e and goes on with s.
LEMMA PrependProperties ==
  ASSUME NEW S, NEW s \in Seq(S), NEW e \in S
  PROVE  /\ <<e>> \o s \in Seq(S)
         /\ Len(<<e>> \o s) = Len(s) + 1
         /\ (<<e>> \o s)[1] = e
         /\ \A k \in 2..(Len(s) + 1) : (<<e>> \o s)[k] = s[k - 1]
<1>1. <<e>> \in Seq(S) /\ Len(<<e>>) = 1 /\ <<e>>[1] = e
  OBVIOUS
<1>2. Len(s) \in Nat
  BY LenProperties
<1> QED
  BY <1>1, <1>2, ConcatProperties
\* InsertAt puts an element at a place and shifts the rest by one (SequencesExt).
LEMMA InsertAtProperties ==
  ASSUME NEW S, NEW s \in Seq(S), NEW i \in 1..(Len(s) + 1), NEW e \in S
  PROVE  /\ InsertAt(s, i, e) \in Seq(S)
         /\ Len(InsertAt(s, i, e)) = Len(s) + 1
         /\ \A k \in 1..(Len(s) + 1) :
              InsertAt(s, i, e)[k] = IF k < i THEN s[k] ELSE IF k = i THEN e ELSE s[k - 1]
<1> DEFINE a == SubSeq(s, 1, i - 1)
           b == SubSeq(s, i, Len(s))
           ae == a \o <<e>>
<1>0. Len(s) \in Nat /\ i \in Nat /\ 1 <= i /\ i <= Len(s) + 1
  <2>1. Len(s) \in Nat
    BY LenProperties
  <2> QED
    BY <2>1
<1>1. a \in Seq(S) /\ Len(a) = i - 1 /\ \A k \in 1..(i - 1) : a[k] = s[k]
  BY <1>0, SubSeqProperties
<1>2. b \in Seq(S) /\ Len(b) = Len(s) - i + 1
      /\ \A k \in 1..(Len(s) - i + 1) : b[k] = s[i + k - 1]
  BY <1>0, SubSeqProperties
<1>3. InsertAt(s, i, e) = ae \o b
  BY DEF InsertAt
<1>4. <<e>> \in Seq(S) /\ Len(<<e>>) = 1 /\ <<e>>[1] = e
  OBVIOUS
<1> HIDE DEF a, b
<1>5. ae \in Seq(S) /\ Len(ae) = i /\ \A k \in 1..i : ae[k] = IF k < i THEN s[k] ELSE e
  BY <1>0, <1>1, <1>4, ConcatProperties
<1> HIDE DEF ae
<1>6. ae \o b \in Seq(S) /\ Len(ae \o b) = Len(s) + 1
  <2>1. ae \o b \in Seq(S) /\ Len(ae \o b) = Len(ae) + Len(b)
    BY <1>2, <1>5, ConcatProperties
  <2> QED
    BY <2>1, <1>0, <1>2, <1>5
<1>7. ASSUME NEW k \in 1..(Len(s) + 1)
      PROVE  (ae \o b)[k] = IF k < i THEN s[k] ELSE IF k = i THEN e ELSE s[k - 1]
  <2>1. CASE k <= i
    BY <2>1, <1>0, <1>2, <1>5, ConcatProperties
  <2>2. CASE k > i
    <3>1. (ae \o b)[k] = b[k - i]
      BY <2>2, <1>0, <1>2, <1>5, ConcatProperties
    <3>2. k - i \in 1..(Len(s) - i + 1) /\ i + (k - i) - 1 = k - 1
      BY <2>2, <1>0
    <3> QED
      BY <3>1, <3>2, <1>2, <2>2, <1>0
  <2>3. k <= i \/ k > i
    BY <1>0
  <2> QED
    BY <2>1, <2>2, <2>3, Zenon
<1> QED
  BY <1>3, <1>6, <1>7

-----------------------------------------------------------------------------
(* Finite sums.  MapThenSumSet(op, S) is, by its definition, a recursive   *)
(* function on the subsets of S applied to S; tlapm sees such a function   *)
(* as a CHOOSE.  What follows shows that the function exists and is the    *)
(* only one, and then how a sum changes when its terms or its index set    *)
(* do.  Sums are of functions: SumOver(f, S) is the sum of f[x], x \in S.  *)

\* The subsets of a finite set are well-founded under inclusion: what holds of
\* a subset when it holds of all smaller ones holds of every subset.
LEMMA SetInduction ==
  ASSUME NEW S, IsFiniteSet(S), NEW P,
         \A T \in SUBSET S : (\A U \in SUBSET T : U # T => U \in P) => T \in P
  PROVE  \A T \in SUBSET S : T \in P
<1> DEFINE Bad == (SUBSET S) \ P
           R == StrictSubsetOrdering(S)
           All == SUBSET S
<1> SUFFICES ASSUME Bad # {} PROVE FALSE
  OBVIOUS
<1>1. IsWellFoundedOn(R, All)
  <2>1. FiniteSubsetsOf(S) = All
    BY FS_FiniteSubsetsOfFinite
  <2>2. IsWellFoundedOn(R, FiniteSubsetsOf(S))
    BY FS_StrictSubsetOrderingWellFounded
  <2> QED BY <2>1, <2>2
<1>2. PICK T \in Bad : \A U \in Bad : ~(<<U, T>> \in R)
  <2>1. Bad \subseteq All
    OBVIOUS
  <2> HIDE DEF Bad, R, All
  <2> QED BY <1>1, <2>1, WFMin
<1>3. \A U \in SUBSET T : U # T => U \in P
  BY <1>2 DEF StrictSubsetOrdering
<1> QED BY <1>2, <1>3

Chosen(s) == CHOOSE x \in s : TRUE

\* F is the sum of f over every subset of S, as MapThenSumSet builds it.
Sums(F, f, S) ==
  F = [s \in SUBSET S |->
         IF s = {} THEN 0 ELSE f[Chosen(s)] + F[s \ {Chosen(s)}]]

SumOver(f, S) == (CHOOSE F : Sums(F, f, S))[S]

LEMMA ChosenType ==
  ASSUME NEW s, s # {}
  PROVE  Chosen(s) \in s
BY DEF Chosen

LEMMA SumsAgree ==
  ASSUME NEW f, NEW S, IsFiniteSet(S), NEW F, Sums(F, f, S),
         NEW R, S \subseteq R, NEW G, Sums(G, f, R)
  PROVE  \A T \in SUBSET S : F[T] = G[T]
<1> DEFINE P == {T \in SUBSET S : F[T] = G[T]}
<1>1. ASSUME NEW T \in SUBSET S, \A U \in SUBSET T : U # T => U \in P
      PROVE  T \in P
  <2>1. CASE T = {}
    <3>1. F[T] = 0 /\ G[T] = 0
      BY <2>1 DEF Sums
    <3> QED BY <3>1
  <2>2. CASE T # {}
    <3>1. Chosen(T) \in T
      BY <2>2, ChosenType
    <3>2. T \ {Chosen(T)} \in P
      BY <1>1, <3>1
    <3>3. T \in SUBSET R
      OBVIOUS
    <3>4. F[T] = f[Chosen(T)] + F[T \ {Chosen(T)}]
      BY <2>2 DEF Sums
    <3>5. G[T] = f[Chosen(T)] + G[T \ {Chosen(T)}]
      BY <2>2, <3>3 DEF Sums
    <3> QED BY <3>2, <3>4, <3>5
  <2> QED BY <2>1, <2>2
<1>2. \A T \in SUBSET S : T \in P
  <2> HIDE DEF P
  <2> QED BY <1>1, SetInduction
<1> QED BY <1>2

LEMMA SumsExist ==
  ASSUME NEW f, NEW S, IsFiniteSet(S)
  PROVE  \E F : Sums(F, f, S)
<1> DEFINE P == {T \in SUBSET S : \E F : Sums(F, f, T)}
           Of(T) == CHOOSE F : Sums(F, f, T)
<1>1. ASSUME NEW T \in SUBSET S, \A U \in SUBSET T : U # T => U \in P
      PROVE  T \in P
  <2>1. CASE T = {}
    <3> DEFINE F == [s \in SUBSET T |-> 0]
    <3>1. Sums(F, f, T)
      BY <2>1 DEF Sums
    <3> QED BY <3>1
  <2>2. CASE T # {}
    <3> DEFINE Less(U) == U \ {Chosen(U)}
               F == [s \in SUBSET T |->
                       IF s = {} THEN 0 ELSE f[Chosen(s)] + Of(Less(s))[Less(s)]]
    <3>1. ASSUME NEW U \in SUBSET T, U # T
          PROVE  Sums(Of(U), f, U)
      BY <1>1, <3>1
    <3>2. ASSUME NEW U \in SUBSET T, U # {}
          PROVE  Less(U) \in SUBSET T /\ Less(U) # T /\ Less(U) \in SUBSET U
      BY <3>2, ChosenType
    <3>3. ASSUME NEW U \in SUBSET T, U # {}
          PROVE  F[Less(U)] = Of(Less(U))[Less(U)]
      <4> DEFINE W == Less(U)
      <4>1. W \in SUBSET T /\ W # T
        BY <3>2, <3>3
      <4>2. Sums(Of(W), f, W)
        BY <3>1, <4>1
      <4> HIDE DEF W
      <4>3. CASE W = {}
        <5>1. Of(W)[W] = 0
          BY <4>2, <4>3 DEF Sums
        <5> QED BY <5>1, <4>1, <4>3 DEF W
      <4>4. CASE W # {}
        <5>1. Less(W) \in SUBSET T /\ Less(W) # T /\ Less(W) \in SUBSET W
          BY <4>1, <4>4, <3>2
        <5>2. Sums(Of(Less(W)), f, Less(W))
          BY <5>1, <3>1
        <5>3. IsFiniteSet(Less(W))
          BY <5>1, FS_Subset
        <5>4. Of(Less(W))[Less(W)] = Of(W)[Less(W)]
          <6> DEFINE V == Less(W)
                     A == Of(V)
                     B == Of(W)
          <6>1. IsFiniteSet(V) /\ V \subseteq W /\ Sums(A, f, V) /\ Sums(B, f, W)
            BY <4>2, <5>1, <5>2, <5>3
          <6> HIDE DEF V, A, B
          <6>2. A[V] = B[V]
            BY <6>1, SumsAgree
          <6> QED BY <6>2 DEF V, A, B
        <5>5. Of(W)[W] = f[Chosen(W)] + Of(W)[Less(W)]
          <6> DEFINE B == Of(W)
          <6>1. Sums(B, f, W)
            BY <4>2
          <6> HIDE DEF B
          <6>2. B[W] = f[Chosen(W)] + B[W \ {Chosen(W)}]
            BY <6>1, <4>4 DEF Sums
          <6> QED BY <6>2 DEF B
        <5>6. F[W] = f[Chosen(W)] + Of(Less(W))[Less(W)]
          BY <4>1, <4>4
        <5> QED BY <5>4, <5>5, <5>6 DEF W
      <4> QED BY <4>3, <4>4
    <3>4. F = [s \in SUBSET T |->
                 IF s = {} THEN 0 ELSE f[Chosen(s)] + F[s \ {Chosen(s)}]]
      <4> HIDE DEF Of
      <4>1. \A U \in SUBSET T : U # {} => F[U \ {Chosen(U)}] = Of(Less(U))[Less(U)]
        BY <3>3
      <4> DEFINE H == [U \in SUBSET T |-> F[U \ {Chosen(U)}]]
      <4>2. \A U \in SUBSET T : U # {} => H[U] = Of(Less(U))[Less(U)]
        BY <4>1
      <4>3. F = [s \in SUBSET T |-> IF s = {} THEN 0 ELSE f[Chosen(s)] + H[s]]
        <5> HIDE DEF H
        <5> QED BY <4>2
      <4>4. \A U \in SUBSET T : H[U] = F[U \ {Chosen(U)}]
        OBVIOUS
      <4> HIDE DEF H, F
      <4> QED BY <4>3, <4>4
    <3>5. Sums(F, f, T)
      <4> HIDE DEF F
      <4> QED BY <3>4 DEF Sums
    <3> HIDE DEF F
    <3> QED BY <3>5
  <2> QED BY <2>1, <2>2
<1>2. \A T \in SUBSET S : T \in P
  <2> HIDE DEF P
  <2> QED BY <1>1, SetInduction
<1> QED BY <1>2
LEMMA SumOverAny ==
  ASSUME NEW f, NEW S, IsFiniteSet(S), NEW R, S \subseteq R, NEW G,
         Sums(G, f, R)
  PROVE  G[S] = SumOver(f, S)
<1> DEFINE F == CHOOSE F : Sums(F, f, S)
<1>1. Sums(F, f, S)
  BY SumsExist
<1> HIDE DEF F
<1>2. F[S] = G[S]
  BY <1>1, SumsAgree
<1> QED BY <1>2 DEF F, SumOver

LEMMA SumOverEmpty ==
  ASSUME NEW f
  PROVE  SumOver(f, {}) = 0
<1> DEFINE F == [s \in SUBSET {} |-> 0]
<1>1. Sums(F, f, {})
  BY DEF Sums
<1>2. F[{}] = 0
  OBVIOUS
<1> HIDE DEF F
<1> QED BY <1>1, <1>2, SumOverAny, FS_EmptySet

LEMMA SumOverChosen ==
  ASSUME NEW f, NEW S, IsFiniteSet(S), S # {}
  PROVE  SumOver(f, S) = f[Chosen(S)] + SumOver(f, S \ {Chosen(S)})
<1>1. PICK F : Sums(F, f, S)
  BY SumsExist
<1>2. F[S] = f[Chosen(S)] + F[S \ {Chosen(S)}]
  BY <1>1 DEF Sums
<1>3. F[S] = SumOver(f, S)
  BY <1>1, SumOverAny
<1> DEFINE T == S \ {Chosen(S)}
<1>4. IsFiniteSet(T) /\ T \subseteq S
  BY FS_Subset
<1>5. F[T] = SumOver(f, T)
  <2> HIDE DEF T
  <2> QED BY <1>1, <1>4, SumOverAny
<1> QED BY <1>2, <1>3, <1>5

LEMMA SumOverType ==
  ASSUME NEW S, IsFiniteSet(S), NEW f, \A x \in S : f[x] \in Int
  PROVE  SumOver(f, S) \in Int
<1> DEFINE P == {T \in SUBSET S : SumOver(f, T) \in Int}
<1>1. ASSUME NEW T \in SUBSET S, \A U \in SUBSET T : U # T => U \in P
      PROVE  T \in P
  <2>1. CASE T = {}
    BY <2>1, SumOverEmpty
  <2>2. CASE T # {}
    <3>1. Chosen(T) \in T
      BY <2>2, ChosenType
    <3>2. T \ {Chosen(T)} \in P
      BY <1>1, <3>1
    <3>3. f[Chosen(T)] \in Int /\ SumOver(f, T \ {Chosen(T)}) \in Int
      BY <3>1, <3>2
    <3>4. SumOver(f, T) = f[Chosen(T)] + SumOver(f, T \ {Chosen(T)})
      BY <2>2, FS_Subset, SumOverChosen
    <3>5. SumOver(f, T) \in Int
      BY <3>3, <3>4
    <3> QED BY <3>5
  <2> QED BY <2>1, <2>2
<1>2. \A T \in SUBSET S : T \in P
  <2> HIDE DEF P
  <2> QED BY <1>1, SetInduction
<1> QED BY <1>2

\* Any element may be taken out of a sum.
LEMMA SumOverRemove ==
  ASSUME NEW S, IsFiniteSet(S), NEW f, \A x \in S : f[x] \in Int
  PROVE  \A a \in S : SumOver(f, S) = f[a] + SumOver(f, S \ {a})
<1> DEFINE P == {T \in SUBSET S :
                   \A a \in T : SumOver(f, T) = f[a] + SumOver(f, T \ {a})}
<1>1. ASSUME NEW T \in SUBSET S, \A U \in SUBSET T : U # T => U \in P
      PROVE  T \in P
  <2> SUFFICES ASSUME NEW a \in T
               PROVE  SumOver(f, T) = f[a] + SumOver(f, T \ {a})
    OBVIOUS
  <2> DEFINE c == Chosen(T)
             V == T \ {a}
             W == T \ {c}
             X == (T \ {a}) \ {c}
  <2>1. c \in T
    BY ChosenType
  <2>2. SumOver(f, T) = f[c] + SumOver(f, W)
    BY FS_Subset, SumOverChosen
  <2>3. CASE a = c
    BY <2>2, <2>3
  <2>4. CASE a # c
    <3>1. V \in P /\ W \in P /\ c \in V /\ a \in W
      <4>1. V \in SUBSET T /\ V # T /\ W \in SUBSET T /\ W # T
        BY <2>1
      <4> QED BY <1>1, <2>1, <2>4, <4>1
    <3>2. SumOver(f, V) = f[c] + SumOver(f, X)
      BY <3>1
    <3>3. SumOver(f, W) = f[a] + SumOver(f, X)
      <4>1. W \ {a} = X
        OBVIOUS
      <4> QED BY <3>1, <4>1
    <3>4. SumOver(f, X) \in Int /\ f[a] \in Int /\ f[c] \in Int
      <4>1. X \in SUBSET S /\ IsFiniteSet(X)
        BY FS_Subset
      <4> QED BY <2>1, <4>1, SumOverType
    <3> HIDE DEF c, V, W, X
    <3>5. SumOver(f, T) = f[a] + SumOver(f, V)
      BY <2>2, <3>2, <3>3, <3>4
    <3> QED BY <3>5 DEF V
  <2> QED BY <2>3, <2>4
<1>2. \A T \in SUBSET S : T \in P
  <2> HIDE DEF P
  <2> QED BY <1>1, SetInduction
<1> QED BY <1>2

\* Sums of functions that agree.
LEMMA SumOverSame ==
  ASSUME NEW S, IsFiniteSet(S), NEW f, NEW g, \A x \in S : f[x] = g[x]
  PROVE  SumOver(f, S) = SumOver(g, S)
<1> DEFINE P == {T \in SUBSET S : SumOver(f, T) = SumOver(g, T)}
<1>1. ASSUME NEW T \in SUBSET S, \A U \in SUBSET T : U # T => U \in P
      PROVE  T \in P
  <2>1. CASE T = {}
    BY <2>1, SumOverEmpty
  <2>2. CASE T # {}
    <3>1. Chosen(T) \in T
      BY <2>2, ChosenType
    <3>2. T \ {Chosen(T)} \in P
      BY <1>1, <3>1
    <3>3. IsFiniteSet(T)
      BY FS_Subset
    <3>4. SumOver(f, T) = f[Chosen(T)] + SumOver(f, T \ {Chosen(T)})
      BY <2>2, <3>3, SumOverChosen
    <3>5. SumOver(g, T) = g[Chosen(T)] + SumOver(g, T \ {Chosen(T)})
      BY <2>2, <3>3, SumOverChosen
    <3> QED BY <3>1, <3>2, <3>4, <3>5
  <2> QED BY <2>1, <2>2
<1>2. \A T \in SUBSET S : T \in P
  <2> HIDE DEF P
  <2> QED BY <1>1, SetInduction
<1> QED BY <1>2

\* A sum after one of its terms has changed.
LEMMA SumOverChange ==
  ASSUME NEW S, IsFiniteSet(S), NEW f, NEW g, NEW a \in S,
         \A x \in S : f[x] \in Int /\ g[x] \in Int,
         \A x \in S : x # a => f[x] = g[x]
  PROVE  SumOver(g, S) = SumOver(f, S) - f[a] + g[a]
<1> DEFINE T == S \ {a}
<1>1. IsFiniteSet(T) /\ \A x \in T : f[x] = g[x]
  BY FS_Subset
<1>2. SumOver(f, T) = SumOver(g, T) /\ SumOver(f, T) \in Int
  <2>1. \A x \in T : f[x] \in Int
    OBVIOUS
  <2> HIDE DEF T
  <2> QED BY <1>1, <2>1, SumOverSame, SumOverType
<1>3. SumOver(f, S) = f[a] + SumOver(f, T) /\ SumOver(g, S) = g[a] + SumOver(g, T)
  BY SumOverRemove
<1>4. f[a] \in Int /\ g[a] \in Int
  OBVIOUS
<1> HIDE DEF T
<1> QED BY <1>2, <1>3, <1>4

\* The sum of a difference.
LEMMA SumOverDifference ==
  ASSUME NEW S, IsFiniteSet(S), NEW f, NEW g, NEW h,
         \A x \in S : f[x] \in Int /\ g[x] \in Int /\ h[x] = f[x] - g[x]
  PROVE  SumOver(h, S) = SumOver(f, S) - SumOver(g, S)
<1> DEFINE P == {T \in SUBSET S :
                   SumOver(h, T) = SumOver(f, T) - SumOver(g, T)}
<1>1. ASSUME NEW T \in SUBSET S, \A U \in SUBSET T : U # T => U \in P
      PROVE  T \in P
  <2>1. CASE T = {}
    BY <2>1, SumOverEmpty
  <2>2. CASE T # {}
    <3> DEFINE c == Chosen(T)
               U == T \ {c}
    <3>1. c \in T
      BY <2>2, ChosenType
    <3>2. U \in P
      BY <1>1, <3>1
    <3>3. IsFiniteSet(T) /\ IsFiniteSet(U) /\ U \subseteq S
      BY FS_Subset
    <3>4. /\ SumOver(f, T) = f[c] + SumOver(f, U)
          /\ SumOver(g, T) = g[c] + SumOver(g, U)
          /\ SumOver(h, T) = h[c] + SumOver(h, U)
      BY <2>2, <3>3, SumOverChosen
    <3>5. SumOver(f, U) \in Int /\ SumOver(g, U) \in Int
      <4> HIDE DEF U
      <4>1. \A x \in U : f[x] \in Int /\ g[x] \in Int
        BY <3>3
      <4> QED BY <3>3, <4>1, SumOverType
    <3>6. f[c] \in Int /\ g[c] \in Int /\ h[c] = f[c] - g[c]
      BY <3>1
    <3>7. SumOver(h, U) = SumOver(f, U) - SumOver(g, U)
      BY <3>2
    <3> HIDE DEF c, U
    <3>8. SumOver(h, T) = SumOver(f, T) - SumOver(g, T)
      BY <3>4, <3>5, <3>6, <3>7
    <3> QED BY <3>8
  <2> QED BY <2>1, <2>2
<1>2. \A T \in SUBSET S : T \in P
  <2> HIDE DEF P
  <2> QED BY <1>1, SetInduction
<1> QED BY <1>2

\* A sum of naturals is a natural, and no term is larger.
LEMMA SumOverNat ==
  ASSUME NEW S, IsFiniteSet(S), NEW f, \A x \in S : f[x] \in Nat
  PROVE  /\ SumOver(f, S) \in Nat
         /\ \A a \in S : f[a] <= SumOver(f, S)
<1> DEFINE P == {T \in SUBSET S : SumOver(f, T) \in Nat}
<1>1. ASSUME NEW T \in SUBSET S, \A U \in SUBSET T : U # T => U \in P
      PROVE  T \in P
  <2>1. CASE T = {}
    BY <2>1, SumOverEmpty
  <2>2. CASE T # {}
    <3>1. Chosen(T) \in T
      BY <2>2, ChosenType
    <3>2. T \ {Chosen(T)} \in P
      BY <1>1, <3>1
    <3>3. f[Chosen(T)] \in Nat /\ SumOver(f, T \ {Chosen(T)}) \in Nat
      BY <3>1, <3>2
    <3>4. SumOver(f, T) = f[Chosen(T)] + SumOver(f, T \ {Chosen(T)})
      BY <2>2, FS_Subset, SumOverChosen
    <3>5. SumOver(f, T) \in Nat
      BY <3>3, <3>4
    <3> QED BY <3>5
  <2> QED BY <2>1, <2>2
<1>2. \A T \in SUBSET S : T \in P
  <2> HIDE DEF P
  <2> QED BY <1>1, SetInduction
<1>3. ASSUME NEW a \in S
      PROVE  f[a] <= SumOver(f, S)
  <2>1. SumOver(f, S) = f[a] + SumOver(f, S \ {a})
    BY SumOverRemove
  <2>2. SumOver(f, S \ {a}) \in Nat /\ f[a] \in Nat
    BY <1>2
  <2> QED BY <2>1, <2>2
<1> QED BY <1>2, <1>3

\* A sum over indices that have all moved down by one.
LEMMA SumOverShift ==
  ASSUME NEW S, IsFiniteSet(S), S \subseteq Int, NEW f, NEW g,
         \A i \in S : f[i] \in Int /\ g[i - 1] = f[i]
  PROVE  SumOver(g, {i - 1 : i \in S}) = SumOver(f, S)
<1> DEFINE D(T) == {i - 1 : i \in T}
           P == {T \in SUBSET S :
                   IsFiniteSet(D(T)) /\ SumOver(g, D(T)) = SumOver(f, T)}
<1>1. ASSUME NEW T \in SUBSET S, \A U \in SUBSET T : U # T => U \in P
      PROVE  T \in P
  <2>1. CASE T = {}
    <3>1. D(T) = {}
      BY <2>1
    <3> QED BY <2>1, <3>1, SumOverEmpty, FS_EmptySet
  <2>2. CASE T # {}
    <3> DEFINE c == Chosen(T)
               U == T \ {c}
    <3>1. c \in T
      BY <2>2, ChosenType
    <3>2. U \in P
      BY <1>1, <3>1
    <3>3. IsFiniteSet(T)
      BY FS_Subset
    <3>4. SumOver(f, T) = f[c] + SumOver(f, U)
      BY <2>2, <3>3, SumOverChosen
    <3>5. D(T) \ {c - 1} = D(U) /\ D(T) = D(U) \cup {c - 1} /\ c - 1 \in D(T)
      <4>1. T \subseteq Int
        OBVIOUS
      <4>2. ASSUME NEW y \in U
            PROVE  y - 1 # c - 1
        <5>1. y \in Int /\ c \in Int /\ y # c
          BY <3>1, <4>1
        <5> HIDE DEF c, U
        <5> QED BY ONLY <5>1
      <4>3. T = U \cup {c}
        BY <3>1
      <4> HIDE DEF c, U
      <4> QED BY <4>2, <4>3
    <3>6. IsFiniteSet(D(U)) /\ SumOver(g, D(U)) = SumOver(f, U)
      BY <3>2
    <3>7. IsFiniteSet(D(T))
      <4> DEFINE d == D(U)
      <4>1. IsFiniteSet(d) /\ D(T) = d \cup {c - 1}
        BY <3>5, <3>6
      <4> HIDE DEF d, D, c
      <4> QED BY <4>1, FS_AddElement
    <3>8. ASSUME NEW x \in D(T)
          PROVE  g[x] \in Int
      <4>1. PICK i \in T : x = i - 1
        OBVIOUS
      <4> QED BY <4>1
    <3>9. g[c - 1] = f[c]
      BY <3>1
    <3> HIDE DEF c, U, D
    <3>10. SumOver(g, D(T)) = g[c - 1] + SumOver(g, D(T) \ {c - 1})
      BY <3>5, <3>7, <3>8, SumOverRemove
    <3>11. SumOver(g, D(T)) = SumOver(f, T)
      BY <3>4, <3>5, <3>6, <3>9, <3>10
    <3> QED BY <3>7, <3>11
  <2> QED BY <2>1, <2>2
<1>2. \A T \in SUBSET S : T \in P
  <2> HIDE DEF P
  <2> QED BY <1>1, SetInduction
<1> QED BY <1>2
=============================================================================
