--------------------------- MODULE YetiHashProofs ---------------------------
(***************************************************************************)
(* For any keys, any hash function, any size of the table and any number   *)
(* of interrupts: every entry is in one list only and in its place         *)
(* (Placed), whatever was interrupted, and a lookup finds it; and the      *)
(* table implements HashMap.                                               *)
(*                                                                         *)
(* Placed is not inductive by itself: that an entry is not put in a list   *)
(* twice needs to know that the entry in the hand of rehash, and the key   *)
(* that h_insert has not found, stay absent (Absent); and that a lookup    *)
(* may use the present size needs to know when rehash has been through     *)
(* (Sized).                                                                *)
(*                                                                         *)
(* For HashMap three more things are needed: what the call in progress is  *)
(* and has done so far (OpInv), that a scan of a table that was whole has  *)
(* given just the entries up to one place of one list (ScanInv), and that  *)
(* the count is one a size_t can hold (CountInv).                          *)
(***************************************************************************)
EXTENDS YetiHash, ListFacts, FiniteSetTheorems, FunctionTheorems

Lists(n) == [0..n-1 -> Seq(Keys)]

\* k is in one of the lists of b.
Holds(b, k) == \E i \in DOMAIN b : \E p \in DOMAIN b[i] : b[i][p] = k

\* The call in progress has a key.
WithKey ==
  \/ pc \in {"find", "store", "replace", "create", "count", "pop", "uncount"}
  \/ pc \in {"enter", "walk", "link"} /\ after # "sweep"

CallTyped == WithKey => op.key \in Keys /\ op.val \in Values \cup {Junk}

AtRest ==
  /\ pc \notin {"walk", "link"} => slot = 0 /\ pos = 1
  /\ pc \notin {"link", "uncount"} => hand = {}

Sized ==
  /\ pc \in {"find", "store", "sweep", "replace", "create", "count"} => newSize = size
  /\ pc \in {"walk", "link"} => newSize = 2 * size

\* The entry in the hand of rehash is in no list, nor is the key of a call that
\* is to create its entry.
Absent ==
  /\ pc = "link" =>
       \E k \in Keys : hand = {k} /\ ~Holds(bucket, k) /\ Target(k) # slot
  /\ pc = "link" => slot < size
  /\ pc = "create" \/ (after = "create" /\ pc \in {"enter", "walk", "link"}) =>
       ~Holds(bucket, op.key) /\ op.key \notin hand

HashInv ==
  TableTyped /\ Once /\ InPlace /\ Passed /\ CallTyped /\ AtRest /\ Sized /\ Absent

-----------------------------------------------------------------------------
(* Lists with one entry less or more. *)

\* The lists b with the entry at place p of list i taken out: each place of
\* them holds what one place of b holds, that one excepted.
Dropped(b, i, p) == [b EXCEPT ![i] = RemoveAt(b[i], p)]
Was(i, p, j, q) == IF j = i /\ q >= p THEN q + 1 ELSE q

LEMMA DroppedIs ==
  ASSUME NEW n \in Nat, NEW b \in Lists(n), NEW i \in 0..n-1, NEW p \in DOMAIN b[i]
  PROVE  /\ Dropped(b, i, p) \in Lists(n)
         /\ \A j \in 0..n-1 : \A q \in DOMAIN Dropped(b, i, p)[j] :
              /\ Was(i, p, j, q) \in DOMAIN b[j]
              /\ Dropped(b, i, p)[j][q] = b[j][Was(i, p, j, q)]
              /\ j = i => Was(i, p, j, q) # p
<1> DEFINE d == Dropped(b, i, p)
<1>1. b[i] \in Seq(Keys) /\ p \in 1..Len(b[i]) /\ Len(b[i]) \in Nat
  <2>1. b[i] \in Seq(Keys)
    BY DEF Lists
  <2> QED
    BY <2>1, LenProperties
<1>2. /\ RemoveAt(b[i], p) \in Seq(Keys)
      /\ Len(RemoveAt(b[i], p)) = Len(b[i]) - 1
      /\ \A k \in 1..(Len(b[i]) - 1) :
           RemoveAt(b[i], p)[k] = IF k < p THEN b[i][k] ELSE b[i][k + 1]
  BY <1>1, RemoveAtProperties
<1>3. /\ d[i] = RemoveAt(b[i], p)
      /\ \A j \in 0..n-1 : j # i => d[j] = b[j]
      /\ d \in Lists(n)
  BY <1>2 DEF Lists, Dropped
<1>4. DOMAIN d[i] = 1..(Len(b[i]) - 1) /\ DOMAIN b[i] = 1..Len(b[i])
  <2>1. DOMAIN RemoveAt(b[i], p) = 1..(Len(b[i]) - 1)
    BY <1>2, LenProperties
  <2> QED
    BY <2>1, <1>1, <1>3, LenProperties
<1> HIDE DEF d
<1>5. ASSUME NEW j \in 0..n-1, NEW q \in DOMAIN d[j]
      PROVE  /\ Was(i, p, j, q) \in DOMAIN b[j]
             /\ d[j][q] = b[j][Was(i, p, j, q)]
             /\ j = i => Was(i, p, j, q) # p
  <2>1. CASE j # i
    BY <2>1, <1>3 DEF Was
  <2>2. CASE j = i
    <3>1. q \in 1..(Len(b[i]) - 1)
      BY <2>2, <1>4
    <3>2. CASE q >= p
      <4>1. Was(i, p, j, q) = q + 1
        BY <2>2, <3>2 DEF Was
      <4>2. q + 1 \in 1..Len(b[i]) /\ q + 1 # p /\ ~(q < p)
        BY <3>1, <3>2, <1>1
      <4>3. d[i][q] = b[i][q + 1]
        BY <3>1, <4>2, <1>2, <1>3
      <4> QED
        BY <2>2, <4>1, <4>2, <4>3, <1>4
    <3>3. CASE q < p
      <4>1. Was(i, p, j, q) = q
        BY <2>2, <3>1, <3>3, <1>1 DEF Was
      <4>2. q \in 1..Len(b[i]) /\ q # p
        BY <3>1, <3>3, <1>1
      <4>3. d[i][q] = b[i][q]
        BY <3>1, <3>3, <1>2, <1>3
      <4> QED
        BY <2>2, <4>1, <4>2, <4>3, <1>4
    <3> QED
      BY <3>1, <3>2, <3>3, <1>1
  <2> QED
    BY <2>1, <2>2
<1> QED
  BY <1>3, <1>5 DEF d

\* The lists b with k at the head of list i.
Headed(b, i, k) == [b EXCEPT ![i] = <<k>> \o b[i]]

LEMMA HeadedIs ==
  ASSUME NEW n \in Nat, NEW b \in Lists(n), NEW i \in 0..n-1, NEW k \in Keys
  PROVE  /\ Headed(b, i, k) \in Lists(n)
         /\ \A j \in 0..n-1 : j # i => Headed(b, i, k)[j] = b[j]
         /\ \A q \in DOMAIN Headed(b, i, k)[i] :
              /\ q \in Nat
              /\ \/ q = 1 /\ Headed(b, i, k)[i][q] = k
                 \/ /\ q > 1 /\ q - 1 \in DOMAIN b[i]
                    /\ Headed(b, i, k)[i][q] = b[i][q - 1]
<1>1. b[i] \in Seq(Keys) /\ Len(b[i]) \in Nat /\ DOMAIN b[i] = 1..Len(b[i])
  <2>1. b[i] \in Seq(Keys)
    BY DEF Lists
  <2> QED
    BY <2>1, LenProperties
<1>2. /\ <<k>> \o b[i] \in Seq(Keys)
      /\ Len(<<k>> \o b[i]) = Len(b[i]) + 1
      /\ (<<k>> \o b[i])[1] = k
      /\ \A q \in 2..(Len(b[i]) + 1) : (<<k>> \o b[i])[q] = b[i][q - 1]
  BY <1>1, PrependProperties
<1>3. DOMAIN (<<k>> \o b[i]) = 1..(Len(b[i]) + 1)
  BY <1>2, LenProperties
<1>4. /\ Headed(b, i, k)[i] = <<k>> \o b[i]
      /\ \A j \in 0..n-1 : j # i => Headed(b, i, k)[j] = b[j]
      /\ Headed(b, i, k) \in Lists(n)
  BY <1>2 DEF Lists, Headed
<1>5. ASSUME NEW q \in 1..(Len(b[i]) + 1)
      PROVE  /\ q \in Nat
             /\ \/ q = 1 /\ Headed(b, i, k)[i][q] = k
                \/ /\ q > 1 /\ q - 1 \in DOMAIN b[i]
                   /\ Headed(b, i, k)[i][q] = b[i][q - 1]
  <2>1. CASE q = 1
    BY <2>1, <1>2, <1>4
  <2>2. CASE q > 1
    BY <2>2, <1>1, <1>2, <1>4
  <2> QED
    BY <2>1, <2>2
<1> QED
  BY <1>3, <1>4, <1>5

-----------------------------------------------------------------------------
(* Where entries belong. *)

\* A hash modulo the size of the array is an index of it.
LEMMA Index == ASSUME NEW h \in Nat, NEW n \in Nat \ {0} PROVE h % n \in 0..n-1
  OBVIOUS

LEMMA Places ==
  ASSUME TableTyped
  PROVE  /\ size \in Nat \ {0} /\ newSize \in Nat \ {0} /\ size <= newSize
         /\ \A k \in Keys : Home(k) \in 0..size-1 /\ Target(k) \in 0..newSize-1
         /\ bucket \in Lists(newSize) /\ DOMAIN bucket = 0..newSize-1
         /\ \A i \in 0..newSize-1 :
              /\ DOMAIN bucket[i] = 1..Len(bucket[i]) /\ Len(bucket[i]) \in Nat
              /\ \A p \in DOMAIN bucket[i] : bucket[i][p] \in Keys
<1>1. size \in Nat \ {0} /\ newSize \in Nat \ {0} /\ size <= newSize
  BY DEF TableTyped
<1>2. \A k \in Keys : Hash[k] \in Nat
  BY HashAssumption
<1>3. bucket \in Lists(newSize) /\ DOMAIN bucket = 0..newSize-1
  BY DEF TableTyped, Lists
<1>4. \A i \in 0..newSize-1 : bucket[i] \in Seq(Keys)
  BY <1>3 DEF Lists
<1>5. \A i \in 0..newSize-1 :
         /\ DOMAIN bucket[i] = 1..Len(bucket[i]) /\ Len(bucket[i]) \in Nat
         /\ \A p \in DOMAIN bucket[i] : bucket[i][p] \in Keys
  BY <1>4, LenProperties, ElementOfSeq
<1>6. \A k \in Keys : Home(k) \in 0..size-1 /\ Target(k) \in 0..newSize-1
  BY <1>1, <1>2, Index DEF Home, Target
<1> QED
  BY <1>1, <1>3, <1>5, <1>6

\* When no growth is pending, the list of Home is the only one to look in.
LEMMA LookupFinds ==
  ASSUME TableTyped, InPlace, newSize = size, NEW k \in Keys
  PROVE  In(k, Home(k)) <=> Holds(bucket, k)
<1>1. \A i \in DOMAIN bucket : \A p \in DOMAIN bucket[i] : Home(bucket[i][p]) = i
  BY DEF InPlace, Home, Target
<1>2. Home(k) \in DOMAIN bucket
  BY Places
<1> QED
  BY <1>1, <1>2 DEF In, Holds

-----------------------------------------------------------------------------
(* The steps that leave the lists alone. *)

LEMMA HashInit == Init => HashInv
<1> SUFFICES ASSUME Init PROVE HashInv
  OBVIOUS
<1> USE HashAssumption DEF Init
<1>1. Cardinality({}) = 0
  BY FS_EmptySet
<1>2. bucket \in [0..newSize-1 -> Seq(Keys)] /\ \A i \in DOMAIN bucket : DOMAIN bucket[i] = {}
  BY DEF Empty
<1>3. TableTyped
  <2>1. size \in Nat \ {0} /\ newSize \in {size, 2 * size}
    OBVIOUS
  <2> QED
    BY <1>1, <1>2, <2>1 DEF TableTyped
<1>4. Once /\ InPlace /\ Passed
  BY <1>2 DEF Once, InPlace, Passed
<1> QED
  BY <1>3, <1>4 DEF HashInv, CallTyped, WithKey, AtRest, Sized, Absent

\* Nothing that is said of the lists changes when they and the sizes do not.
LEMMA ListsKept ==
  ASSUME Once, InPlace, UNCHANGED <<bucket, size, newSize>>
  PROVE  /\ Once' /\ InPlace'
         /\ \A k : Holds(bucket, k)' <=> Holds(bucket, k)
<1>1. Once'
  BY DEF Once
<1>2. InPlace'
  BY DEF InPlace, Home, Target
<1> QED
  BY <1>1, <1>2 DEF Holds

\* A call returns, or is abandoned.
LEMMA ReturnKeeps ==
  ASSUME HashInv, Return, UNCHANGED <<bucket, size, newSize>>,
         value' \in [Keys -> Values \cup {Junk}]
  PROVE  HashInv'
<1> USE DEF HashInv
<1>1. Once' /\ InPlace'
  BY ListsKept
<1>2. Cardinality({}) = 0
  BY FS_EmptySet
<1>3. TableTyped'
  BY <1>2 DEF TableTyped, Return
<1> QED
  BY <1>1, <1>3 DEF Return, Passed, CallTyped, WithKey, AtRest, Sized, Absent

\* The call goes from one place to the next without a change of the lists.
LEMMA OnwardKeeps ==
  ASSUME HashInv, UNCHANGED <<bucket, size, newSize>>,
         value' \in [Keys -> Values \cup {Junk}],
         UNCHANGED <<slot, pos, hand>>,
         pc' \in {"ready", "enter", "find", "store", "sweep", "replace", "pop"},
         pc \notin {"walk", "link", "uncount"},
         after' \in {"find", "store", "sweep", "create"},
         pc' \in {"find", "store", "sweep", "replace"} => newSize = size,
         CallTyped',
         pc' = "enter" => after' # "create"
  PROVE  HashInv'
<1> USE DEF HashInv
<1>1. Once' /\ InPlace'
  BY ListsKept
<1>2. TableTyped'
  BY DEF TableTyped
<1> QED
  BY <1>1, <1>2 DEF Passed, AtRest, Sized, Absent

LEMMA StartKeeps ==
  /\ \A k \in Keys : HashInv /\ (Start("get", k, Junk) \/ Start("pop", k, Junk)) => HashInv'
  /\ \A k \in Keys, v \in Values : HashInv /\ Start("set", k, v) => HashInv'
  /\ HashInv /\ Start("free", Junk, Junk) => HashInv'
<1> USE DEF Start, At, table
<1>1. HashInv => value \in [Keys -> Values \cup {Junk}]
  BY DEF HashInv, TableTyped
<1>2. ASSUME HashInv, NEW k \in Keys, Start("get", k, Junk) PROVE HashInv'
  BY <1>1, <1>2, OnwardKeeps DEF CallTyped, WithKey
<1>3. ASSUME HashInv, NEW k \in Keys, Start("pop", k, Junk) PROVE HashInv'
  BY <1>1, <1>3, OnwardKeeps DEF CallTyped, WithKey
<1>4. ASSUME HashInv, NEW k \in Keys, NEW v \in Values, Start("set", k, v) PROVE HashInv'
  BY <1>1, <1>4, OnwardKeeps DEF CallTyped, WithKey
<1>5. ASSUME HashInv, Start("free", Junk, Junk) PROVE HashInv'
  BY <1>1, <1>5, OnwardKeeps DEF CallTyped, WithKey
<1> HIDE DEF Start
<1> QED
  BY <1>2, <1>3, <1>4, <1>5

LEMMA EnterKeeps == HashInv /\ Enter => HashInv'
<1> SUFFICES ASSUME HashInv, Enter PROVE HashInv'
  OBVIOUS
<1> USE DEF HashInv, Enter, At, table
<1>1. TableTyped' /\ Once' /\ InPlace'
  <2>1. TableTyped'
    BY DEF TableTyped
  <2> QED
    BY <2>1, ListsKept
<1>2. Passed'
  <2>1. slot' = 0 /\ pos' = 1
    BY DEF AtRest
  <2>2. \A i \in 0..newSize-1 : i >= 0 /\ \A p \in DOMAIN bucket[i] : p >= 1
    BY Places
  <2> QED
    BY <2>1, <2>2, Places DEF Passed
<1>3. CallTyped'
  BY DEF CallTyped, WithKey, TableTyped
<1>4. AtRest'
  BY DEF AtRest, TableTyped
<1>5. Sized'
  <2>1. size \in Nat \ {0} /\ newSize \in {size, 2 * size}
    BY DEF TableTyped
  <2>2. CASE newSize > size
    BY <2>1, <2>2 DEF Sized, MustResume
  <2>3. CASE ~(newSize > size)
    <3>1. newSize = size /\ pc' \in {"find", "store", "sweep", "create"}
      BY <2>1, <2>3 DEF MustResume, TableTyped
    <3> QED
      BY <3>1 DEF Sized
  <2> QED
    BY <2>2, <2>3
<1>6. Absent'
  <2>1. pc' # "link"
    BY DEF TableTyped
  <2>2. pc' = "create" \/ after' = "create" => after = "create" /\ pc = "enter"
    BY DEF TableTyped
  <2>3. \A k : Holds(bucket, k)' <=> Holds(bucket, k)
    BY ListsKept
  <2> QED
    BY <2>1, <2>2, <2>3 DEF Absent
<1> QED
  BY <1>1, <1>2, <1>3, <1>4, <1>5, <1>6

-----------------------------------------------------------------------------
(* rehash. *)

\* One more place of the list of the present slot has been passed.
LEMMA KeepKeeps == HashInv /\ Keep => HashInv'
<1> SUFFICES ASSUME HashInv, Keep PROVE HashInv'
  OBVIOUS
<1> USE DEF HashInv, Keep, At, table
<1>1. TableTyped' /\ Once' /\ InPlace'
  <2>1. TableTyped'
    BY DEF TableTyped
  <2> QED
    BY <2>1, ListsKept
<1>2. Passed'
  <2> SUFFICES ASSUME NEW i \in 0..newSize-1, NEW p \in DOMAIN bucket[i],
                      i < slot \/ (i = slot /\ p < pos + 1)
               PROVE  Target(bucket[i][p]) = i
    BY Places DEF Passed, Target
  <2>1. CASE i < slot \/ (i = slot /\ p < pos)
    BY <2>1, Places DEF Passed
  <2>2. CASE i = slot /\ p = pos
    BY <2>2 DEF Moves, Current, Chain
  <2> HIDE DEF Keep
  <2>3. TableTyped /\ pos \in Nat
    BY DEF TableTyped
  <2> HIDE DEF HashInv
  <2>4. p \in 1..Len(bucket[i]) /\ Len(bucket[i]) \in Nat
    BY <2>3, Places
  <2>5. p \in Nat /\ pos \in Nat
    BY <2>3, <2>4
  <2>6. p < pos + 1 <=> p < pos \/ p = pos
    BY <2>5
  <2> QED
    BY <2>1, <2>2, <2>6, Zenon
<1>3. CallTyped' /\ AtRest' /\ Sized'
  BY DEF CallTyped, WithKey, AtRest, Sized
<1>4. Absent'
  <2>1. \A k : Holds(bucket, k)' <=> Holds(bucket, k)
    BY ListsKept
  <2> QED
    BY <2>1 DEF Absent
<1> QED
  BY <1>1, <1>2, <1>3, <1>4

LEMMA NextSlotKeeps == HashInv /\ NextSlot => HashInv'
<1> SUFFICES ASSUME HashInv, NextSlot PROVE HashInv'
  OBVIOUS
<1> USE DEF HashInv, NextSlot, At, table
<1>1. TableTyped' /\ Once' /\ InPlace'
  <2>1. TableTyped'
    BY DEF TableTyped
  <2> QED
    BY <2>1, ListsKept
<1>2. Passed'
  <2> SUFFICES ASSUME NEW i \in 0..newSize-1, NEW p \in DOMAIN bucket[i],
                      i < slot + 1 \/ (i = slot + 1 /\ p < 1)
               PROVE  Target(bucket[i][p]) = i
    BY Places DEF Passed, Target
  <2>1. p \in Nat /\ p >= 1 /\ p <= Len(bucket[i]) /\ Len(bucket[i]) \in Nat
    BY Places
  <2>2. slot \in Nat /\ pos \in Nat
    BY DEF TableTyped
  <2>3. CASE i < slot
    BY <2>3, Places DEF Passed
  <2>4. CASE i = slot
    <3>1. p < pos
      BY <2>1, <2>2, <2>4 DEF AtEntry, Chain
    <3> QED
      BY <3>1, <2>4, Places DEF Passed
  <2> QED
    BY <2>1, <2>2, <2>3, <2>4
<1>3. CallTyped' /\ AtRest' /\ Sized'
  BY DEF CallTyped, WithKey, AtRest, Sized
<1>4. Absent'
  <2>1. \A k : Holds(bucket, k)' <=> Holds(bucket, k)
    BY ListsKept
  <2> QED
    BY <2>1 DEF Absent
<1> QED
  BY <1>1, <1>2, <1>3, <1>4

\* Every slot has been passed: what was right for the new size is now right.
LEMMA RehashedKeeps == HashInv /\ Rehashed => HashInv'
<1> SUFFICES ASSUME HashInv, Rehashed PROVE HashInv'
  OBVIOUS
<1> USE DEF HashInv, Rehashed, At
<1>1. newSize = 2 * size
  BY DEF Sized
<1>2. TableTyped'
  <2>1. size' \in Nat \ {0} /\ newSize' \in {size', 2 * size'} /\ slot' \in 0..size'
    BY <1>1 DEF TableTyped
  <2> QED
    BY <2>1 DEF TableTyped
<1>3. Once'
  BY DEF Once
<1>4. InPlace'
  <2> SUFFICES ASSUME NEW i \in 0..newSize-1, NEW p \in DOMAIN bucket[i]
               PROVE  Target(bucket[i][p]) = i
    BY Places DEF InPlace, Target, Home
  <2>1. CASE i < size
    BY <2>1, Places DEF Passed
  <2>2. CASE ~(i < size)
    BY <2>2, Places DEF InPlace
  <2> QED
    BY <2>1, <2>2
<1>5. Passed'
  BY DEF Passed, TableTyped
<1>6. CallTyped'
  BY DEF CallTyped, WithKey, TableTyped
<1>7. AtRest' /\ Sized'
  BY DEF AtRest, Sized, TableTyped
<1>8. Absent'
  BY DEF Absent, Holds, TableTyped
<1> QED
  BY <1>2, <1>3, <1>4, <1>5, <1>6, <1>7, <1>8

\* The lists when the entry at place p of list i is taken out: everything that
\* is said of them still holds, and the entry is in none.
LEMMA DroppedKeeps ==
  ASSUME TableTyped, Once, InPlace, NEW i \in 0..newSize-1, NEW p \in DOMAIN bucket[i],
         bucket' = Dropped(bucket, i, p), UNCHANGED <<size, newSize>>
  PROVE  /\ bucket' \in Lists(newSize)
         /\ Once' /\ InPlace'
         /\ ~Holds(bucket', bucket[i][p])
         /\ \A k : Holds(bucket', k) => Holds(bucket, k)
<1>1. bucket \in Lists(newSize) /\ newSize \in Nat
  BY Places
<1> DEFINE d == Dropped(bucket, i, p)
<1>2. /\ d \in Lists(newSize) /\ DOMAIN d = 0..newSize-1
      /\ \A j \in 0..newSize-1 : \A q \in DOMAIN d[j] :
           /\ Was(i, p, j, q) \in DOMAIN bucket[j]
           /\ d[j][q] = bucket[j][Was(i, p, j, q)]
           /\ j = i => Was(i, p, j, q) # p
  <2>1. d \in Lists(newSize) => DOMAIN d = 0..newSize-1
    BY DEF Lists
  <2> QED
    BY <1>1, <2>1, DroppedIs
<1>3. bucket' = d
  OBVIOUS
<1>4. DOMAIN bucket = 0..newSize-1
  BY Places
<1>5. \A j \in 0..newSize-1 : \A q \in DOMAIN d[j] : q \in Nat
  <2>1. \A j \in 0..newSize-1 : d[j] \in Seq(Keys)
    BY <1>2 DEF Lists
  <2>2. \A j \in 0..newSize-1 : DOMAIN d[j] = 1..Len(d[j])
    BY <2>1, LenProperties
  <2> QED
    BY <2>2
<1> HIDE DEF d
<1>6. Once'
  <2> SUFFICES ASSUME NEW j \in 0..newSize-1, NEW l \in 0..newSize-1,
                      NEW q \in DOMAIN d[j], NEW r \in DOMAIN d[l],
                      d[j][q] = d[l][r]
               PROVE  j = l /\ q = r
    BY <1>2, <1>3 DEF Once
  <2>1. j = l /\ Was(i, p, j, q) = Was(i, p, l, r)
    BY <1>2, <1>4 DEF Once
  <2>2. p \in Nat /\ q \in Nat /\ r \in Nat
    BY <1>5, Places
  <2> QED
    BY <2>1, <2>2 DEF Was
<1>7. InPlace'
  <2> SUFFICES ASSUME NEW j \in 0..newSize-1, NEW q \in DOMAIN d[j]
               PROVE  Target(d[j][q]) = j \/ (j < size /\ Home(d[j][q]) = j)
    BY <1>2, <1>3 DEF InPlace, Target, Home
  <2> QED
    BY <1>2, <1>4 DEF InPlace
<1>8. ~Holds(d, bucket[i][p])
  <2> SUFFICES ASSUME NEW j \in 0..newSize-1, NEW q \in DOMAIN d[j],
                      d[j][q] = bucket[i][p]
               PROVE  FALSE
    BY <1>2 DEF Holds
  <2> QED
    BY <1>2, <1>4 DEF Once
<1>9. \A k : Holds(d, k) => Holds(bucket, k)
  BY <1>2, <1>4 DEF Holds
<1> QED
  BY <1>2, <1>3, <1>6, <1>7, <1>8, <1>9

LEMMA UnlinkKeeps == HashInv /\ Unlink => HashInv'
<1> SUFFICES ASSUME HashInv, Unlink PROVE HashInv'
  OBVIOUS
<1> USE DEF HashInv, Unlink, At
<1>1. /\ slot \in 0..newSize-1 /\ slot < size
      /\ pos \in DOMAIN bucket[slot] /\ bucket[slot][pos] \in Keys
      /\ Current = bucket[slot][pos]
  <2>1. slot \in 0..newSize-1 /\ slot < size
    BY Places DEF TableTyped, AtEntry
  <2>2. pos \in 1..Len(bucket[slot])
    BY <2>1, Places DEF TableTyped, AtEntry, Chain
  <2> QED
    BY <2>1, <2>2, Places DEF Current, Chain
<1>2. bucket' = Dropped(bucket, slot, pos)
  BY DEF Dropped, Chain
<1>3. PICK c \in Keys : c = bucket[slot][pos]
  BY <1>1
<1>4. /\ bucket' \in Lists(newSize)
      /\ Once' /\ InPlace'
      /\ ~Holds(bucket', c)
      /\ \A k : Holds(bucket', k) => Holds(bucket, k)
  <2>1. /\ bucket' \in Lists(newSize)
        /\ Once' /\ InPlace'
        /\ ~Holds(bucket', bucket[slot][pos])
        /\ \A k : Holds(bucket', k) => Holds(bucket, k)
    BY <1>1, <1>2, DroppedKeeps
  <2> QED
    BY <2>1, <1>3
<1>5. hand' = {c} /\ slot' = slot /\ size' = size /\ newSize' = newSize /\ pc' = "link"
  BY <1>1, <1>3
<1>6. Target(c) # slot
  BY <1>1, <1>3 DEF Moves
<1>7. TableTyped'
  <2>1. Cardinality({c}) = 1
    BY FS_Singleton
  <2>2. Cardinality(hand') <= 1 /\ hand' \in SUBSET Keys
    BY <1>5, <2>1
  <2> QED
    BY <1>4, <2>2 DEF TableTyped, Lists
<1>8. Passed'
  <2> SUFFICES ASSUME NEW i \in 0..newSize-1, NEW p \in DOMAIN bucket'[i],
                      i < slot \/ (i = slot /\ p < pos)
               PROVE  Target(bucket'[i][p]) = i
    BY <1>4 DEF Passed, Target, Lists
  <2> DEFINE w == Was(slot, pos, i, p)
  <2>1. w = p
    <3>1. p \in Nat /\ pos \in Nat /\ slot \in Nat
      <4>1. bucket'[i] \in Seq(Keys)
        BY <1>4 DEF Lists
      <4>2. DOMAIN bucket'[i] = 1..Len(bucket'[i])
        BY <4>1, LenProperties
      <4> QED
        BY <4>2 DEF TableTyped
    <3> QED
      BY <3>1 DEF Was
  <2>2. w \in DOMAIN bucket[i] /\ bucket'[i][p] = bucket[i][w]
    <3>1. newSize \in Nat /\ bucket \in Lists(newSize)
      BY Places
    <3>2. p \in DOMAIN Dropped(bucket, slot, pos)[i]
      BY <1>2
    <3> QED
      <4>1. /\ Was(slot, pos, i, p) \in DOMAIN bucket[i]
            /\ Dropped(bucket, slot, pos)[i][p] = bucket[i][Was(slot, pos, i, p)]
        BY <3>1, <3>2, <1>1, DroppedIs
      <4> QED
        BY <4>1, <1>2
  <2> HIDE DEF w
  <2> QED
    BY <2>1, <2>2, Places DEF Passed
<1>9. CallTyped' /\ AtRest' /\ Sized'
  BY DEF CallTyped, WithKey, AtRest, Sized
<1>10. Absent'
  <2>1. ASSUME after = "create" PROVE ~Holds(bucket', op.key) /\ op.key # c
    <3>1. ~Holds(bucket, op.key)
      BY <2>1 DEF Absent
    <3>2. Holds(bucket, c)
      BY <1>1, <1>3, Places DEF Holds
    <3> QED
      BY <3>1, <3>2, <1>4
  <2>2. \A k : Holds(bucket, k)' <=> Holds(bucket', k)
    BY DEF Holds
  <2>3. Target(c)' # slot'
    BY <1>5, <1>6 DEF Target
  <2>4. \E k \in Keys : hand' = {k} /\ ~Holds(bucket, k)' /\ Target(k)' # slot'
    BY <1>4, <1>5, <2>2, <2>3
  <2>5. slot' < size'
    BY <1>1, <1>5
  <2>6. after' = after /\ op' = op
    OBVIOUS
  <2>7. after' = "create" => ~Holds(bucket, op.key)' /\ op'.key \notin hand'
    BY <1>5, <2>1, <2>2, <2>6
  <2> QED
    BY <1>5, <2>4, <2>5, <2>7 DEF Absent
<1> QED
  BY <1>4, <1>7, <1>8, <1>9, <1>10

\* The lists when an entry that was in none is put at the head of list i, where
\* the new size or the present one places it.
LEMMA HeadedKeeps ==
  ASSUME TableTyped, Once, InPlace, NEW i \in 0..newSize-1, NEW k \in Keys,
         ~Holds(bucket, k), Target(k) = i \/ (i < size /\ Home(k) = i),
         bucket' = Headed(bucket, i, k), UNCHANGED <<size, newSize>>
  PROVE  /\ bucket' \in Lists(newSize)
         /\ Once' /\ InPlace'
         /\ \A e : Holds(bucket', e) => e = k \/ Holds(bucket, e)
<1> DEFINE d == Headed(bucket, i, k)
<1>1. newSize \in Nat /\ bucket \in Lists(newSize) /\ DOMAIN bucket = 0..newSize-1
  BY Places
<1>2. /\ d \in Lists(newSize) /\ DOMAIN d = 0..newSize-1
      /\ \A j \in 0..newSize-1 : j # i => d[j] = bucket[j]
      /\ \A q \in DOMAIN d[i] :
           /\ q \in Nat
           /\ \/ q = 1 /\ d[i][q] = k
              \/ q > 1 /\ q - 1 \in DOMAIN bucket[i] /\ d[i][q] = bucket[i][q - 1]
  <2>1. d \in Lists(newSize) => DOMAIN d = 0..newSize-1
    BY DEF Lists
  <2> QED
    BY <1>1, <2>1, HeadedIs
<1>3. bucket' = d
  OBVIOUS
<1>4. \A j \in 0..newSize-1 : \A q \in DOMAIN bucket[j] : bucket[j][q] # k
  BY <1>1 DEF Holds
<1> HIDE DEF d
<1>5. Once'
  <2> SUFFICES ASSUME NEW j \in 0..newSize-1, NEW l \in 0..newSize-1,
                      NEW q \in DOMAIN d[j], NEW r \in DOMAIN d[l],
                      d[j][q] = d[l][r]
               PROVE  j = l /\ q = r
    BY <1>2, <1>3 DEF Once
  <2>1. CASE j # i /\ l # i
    BY <2>1, <1>1, <1>2 DEF Once
  <2>2. CASE j = i /\ l # i
    <3>1. r \in DOMAIN bucket[l] /\ d[l][r] = bucket[l][r]
      BY <2>2, <1>2
    <3> QED
      BY <2>2, <3>1, <1>1, <1>2, <1>4 DEF Once
  <2>3. CASE j # i /\ l = i
    <3>1. q \in DOMAIN bucket[j] /\ d[j][q] = bucket[j][q] /\ bucket[j][q] # k
      BY <2>3, <1>2, <1>4
    <3>2. r - 1 \in DOMAIN bucket[i] /\ d[i][r] = bucket[i][r - 1]
      BY <2>3, <3>1, <1>2
    <3> QED
      BY <2>3, <3>1, <3>2, <1>1 DEF Once
  <2>4. CASE j = i /\ l = i
    <3>1. /\ q \in Nat /\ r \in Nat
          /\ \/ q = 1 /\ d[i][q] = k
             \/ q > 1 /\ q - 1 \in DOMAIN bucket[i] /\ d[i][q] = bucket[i][q - 1]
          /\ \/ r = 1 /\ d[i][r] = k
             \/ r > 1 /\ r - 1 \in DOMAIN bucket[i] /\ d[i][r] = bucket[i][r - 1]
      BY <2>4, <1>2
    <3>2. CASE q > 1 /\ r > 1
      <4>1. q - 1 = r - 1
        BY <2>4, <3>1, <3>2, <1>1 DEF Once
      <4> QED
        BY <2>4, <3>1, <4>1
    <3> QED
      BY <2>4, <3>1, <3>2, <1>4
  <2> QED
    BY <2>1, <2>2, <2>3, <2>4
<1>6. InPlace'
  <2> SUFFICES ASSUME NEW j \in 0..newSize-1, NEW q \in DOMAIN d[j]
               PROVE  Target(d[j][q]) = j \/ (j < size /\ Home(d[j][q]) = j)
    BY <1>2, <1>3 DEF InPlace, Target, Home
  <2>1. CASE j # i
    BY <2>1, <1>1, <1>2 DEF InPlace
  <2>2. CASE j = i
    BY <2>2, <1>1, <1>2 DEF InPlace
  <2> QED
    BY <2>1, <2>2
<1>7. \A e : Holds(d, e) => e = k \/ Holds(bucket, e)
  <2> SUFFICES ASSUME NEW j \in 0..newSize-1, NEW q \in DOMAIN d[j], d[j][q] # k
               PROVE  Holds(bucket, d[j][q])
    BY <1>2 DEF Holds
  <2>1. CASE j # i
    BY <2>1, <1>1, <1>2 DEF Holds
  <2>2. CASE j = i
    BY <2>2, <1>1, <1>2 DEF Holds
  <2> QED
    BY <2>1, <2>2
<1> QED
  BY <1>2, <1>3, <1>5, <1>6, <1>7

\* The entry in the hand goes where the new size wants it, which is not the
\* slot being looked at.
LEMMA LinkKeeps == HashInv /\ Link => HashInv'
<1> SUFFICES ASSUME HashInv, Link PROVE HashInv'
  OBVIOUS
<1> USE DEF HashInv, Link, At
<1>1. PICK c \in Keys : hand = {c} /\ ~Holds(bucket, c) /\ Target(c) # slot
  BY DEF Absent
<1>2. PICK i \in 0..newSize-1 : i = Target(c)
  BY Places
<1>3. bucket' = Headed(bucket, i, c)
  BY <1>1, <1>2 DEF Headed
<1>4. /\ bucket' \in Lists(newSize)
      /\ Once' /\ InPlace'
      /\ \A e : Holds(bucket', e) => e = c \/ Holds(bucket, e)
  BY <1>1, <1>2, <1>3, HeadedKeeps
<1>5. TableTyped'
  <2>1. Cardinality(hand') <= 1
    BY FS_EmptySet
  <2>2. pos' = pos
    BY DEF AfterMove
  <2> QED
    BY <1>4, <2>1, <2>2 DEF TableTyped, Lists
<1>6. Passed'
  <2> SUFFICES ASSUME NEW j \in 0..newSize-1, NEW q \in DOMAIN bucket'[j],
                      j < slot \/ (j = slot /\ q < pos)
               PROVE  Target(bucket'[j][q]) = j
    BY <1>4 DEF Passed, Target, Lists, AfterMove
  <2>1. newSize \in Nat /\ bucket \in Lists(newSize)
    BY Places
  <2>2. CASE j # i
    <3>1. bucket'[j] = bucket[j]
      BY <2>1, <2>2, <1>3, HeadedIs
    <3> QED
      BY <3>1, Places DEF Passed
  <2>3. CASE j = i
    <3>1. \/ bucket'[j][q] = c
          \/ q - 1 \in DOMAIN bucket[j] /\ bucket'[j][q] = bucket[j][q - 1]
      <4>1. q \in DOMAIN Headed(bucket, i, c)[i]
        BY <2>3, <1>3
      <4>2. \/ Headed(bucket, i, c)[i][q] = c
            \/ /\ q - 1 \in DOMAIN bucket[i]
               /\ Headed(bucket, i, c)[i][q] = bucket[i][q - 1]
        BY <2>1, <4>1, HeadedIs
      <4> QED
        BY <2>3, <4>2, <1>3
    <3>2. j < slot
      BY <2>3, <1>1, <1>2
    <3> QED
      BY <2>3, <3>1, <3>2, <1>2, Places DEF Passed
  <2> QED
    BY <2>2, <2>3
<1>7. CallTyped' /\ AtRest' /\ Sized'
  BY DEF CallTyped, WithKey, AtRest, Sized
<1>8. Absent'
  <2>1. pc' = "walk" /\ hand' = {} /\ after' = after /\ op' = op
    OBVIOUS
  <2>2. after = "create" => ~Holds(bucket', op.key)
    BY <1>1, <1>4 DEF Absent
  <2>3. \A k : Holds(bucket, k)' <=> Holds(bucket', k)
    BY DEF Holds
  <2> QED
    BY <2>1, <2>2, <2>3 DEF Absent
<1> QED
  BY <1>4, <1>5, <1>6, <1>7, <1>8

LEMMA RehashKeeps == HashInv /\ Rehash => HashInv'
  BY KeepKeeps, UnlinkKeeps, LinkKeeps, NextSlotKeeps, RehashedKeeps DEF Rehash

-----------------------------------------------------------------------------
(* h_find, h_insert, h_pop and h_delete. *)

\* The steps that end a call and leave the lists alone.
LEMMA EndsKeep ==
  ASSUME HashInv, Find \/ Replaced \/ Count \/ NoMemory \/ Uncount \/ PopMissed
  PROVE  HashInv'
<1>1. value \in [Keys -> Values \cup {Junk}]
  BY HashAssumption DEF HashInv, TableTyped
<1>2. ASSUME Find \/ NoMemory \/ PopMissed PROVE HashInv'
  BY <1>1, <1>2, ReturnKeeps DEF Find, NoMemory, PopMissed, table
<1>3. ASSUME Replaced PROVE HashInv'
  <2>1. op.val \in Values \cup {Junk}
    BY <1>3 DEF HashInv, CallTyped, WithKey, Replaced, At
  <2> QED
    BY <2>1, <1>1, <1>3, ReturnKeeps DEF Replaced
<1>4. ASSUME Count PROVE HashInv'
  BY <1>1, <1>4, ReturnKeeps DEF Count
<1>5. ASSUME Uncount PROVE HashInv'
  <2>1. value' \in [Keys -> Values \cup {Junk}]
    BY <1>1, <1>5 DEF Uncount
  <2> QED
    BY <2>1, <1>5, ReturnKeeps DEF Uncount
<1> QED
  BY <1>2, <1>3, <1>4, <1>5

LEMMA ReplaceKeeps == HashInv /\ Replace => HashInv'
<1> SUFFICES ASSUME HashInv, Replace PROVE HashInv'
  OBVIOUS
<1>1. value' \in [Keys -> Values \cup {Junk}]
  BY DEF HashInv, TableTyped, Replace
<1>2. CallTyped' /\ newSize = size
  BY DEF HashInv, CallTyped, WithKey, Sized, Replace, At, Goto
<1>3. after' \in {"find", "store", "sweep", "create"}
  BY DEF HashInv, TableTyped, Replace, Goto
<1> QED
  BY <1>1, <1>2, <1>3, OnwardKeeps DEF Replace, At, Goto

\* The array gets as many empty lists as it had.
LEMMA GrowKeeps == HashInv /\ Grow => HashInv'
<1> SUFFICES ASSUME HashInv, Grow PROVE HashInv'
  OBVIOUS
<1> USE DEF HashInv, Grow, IsNew, At
<1>1. newSize = size /\ size \in Nat \ {0} /\ op.key \in Keys
  BY DEF Sized, TableTyped, CallTyped, WithKey
<1>2. ~Holds(bucket, op.key)
  BY <1>1, LookupFinds
<1>3. /\ bucket \in Lists(size) /\ DOMAIN bucket = 0..size-1
      /\ \A i \in 0..size-1 : \A p \in DOMAIN bucket[i] : Home(bucket[i][p]) = i
  BY <1>1, Places DEF InPlace, Home, Target
<1>4. /\ bucket' \in Lists(2 * size) /\ DOMAIN bucket' = 0..2*size-1
      /\ \A i \in 0..size-1 : bucket'[i] = bucket[i]
      /\ \A i \in 0..2*size-1 : i \notin 0..size-1 => DOMAIN bucket'[i] = {}
  <2>1. \A i \in 0..2*size-1 : i < size => i \in 0..size-1
    BY <1>1
  <2>2. <<>> \in Seq(Keys) /\ DOMAIN <<>> = {}
    OBVIOUS
  <2>3. \A i \in 0..2*size-1 : (IF i < size THEN bucket[i] ELSE <<>>) \in Seq(Keys)
    BY <1>3, <2>1, <2>2 DEF Lists
  <2>4. bucket' \in Lists(2 * size) /\ DOMAIN bucket' = 0..2*size-1
    BY <2>3 DEF Lists
  <2>5. \A i \in 0..size-1 : i \in 0..2*size-1 /\ i < size
    BY <1>1
  <2>6. \A i \in 0..2*size-1 : i \notin 0..size-1 => ~(i < size)
    BY <1>1
  <2> QED
    BY <2>2, <2>4, <2>5, <2>6
<1>5. TableTyped'
  BY <1>1, <1>4 DEF TableTyped, Lists
<1>6. Once'
  BY <1>3, <1>4 DEF Once
<1>7. InPlace'
  <2> SUFFICES ASSUME NEW i \in 0..2*size-1, NEW p \in DOMAIN bucket'[i]
               PROVE  i < size /\ Hash[bucket'[i][p]] % size = i
    BY <1>4 DEF InPlace, Home
  <2>1. i \in 0..size-1
    BY <1>4
  <2> QED
    BY <2>1, <1>3, <1>4 DEF Home
<1>8. CallTyped' /\ AtRest' /\ Sized' /\ Passed'
  BY <1>1 DEF CallTyped, WithKey, AtRest, Sized, Passed
<1>9. Absent'
  <2>1. pc' = "enter" /\ hand' = {} /\ op' = op
    BY DEF AtRest
  <2>2. ~Holds(bucket, op.key)'
    BY <1>2, <1>3, <1>4, <2>1 DEF Holds
  <2> QED
    BY <2>1, <2>2 DEF Absent
<1> QED
  BY <1>5, <1>6, <1>7, <1>8, <1>9

LEMMA CreateKeeps == HashInv /\ Create => HashInv'
<1> SUFFICES ASSUME HashInv, Create PROVE HashInv'
  OBVIOUS
<1> USE DEF HashInv, Create, IsNew, At, Goto
<1>1. newSize = size /\ op.key \in Keys /\ op.val \in Values \cup {Junk}
  BY DEF Sized, CallTyped, WithKey
<1>2. ~Holds(bucket, op.key)
  BY <1>1, LookupFinds DEF Absent
<1>3. PICK i \in 0..newSize-1 : i = Home(op.key)
  BY <1>1, Places
<1>4. PICK k \in Keys : k = op.key
  BY <1>1
<1>5. bucket' = Headed(bucket, i, k)
  BY <1>3, <1>4 DEF Headed
<1>6. /\ bucket' \in Lists(newSize)
      /\ Once' /\ InPlace'
  <2>1. Target(k) = i
    BY <1>1, <1>3, <1>4 DEF Target, Home
  <2> QED
    BY <2>1, <1>2, <1>4, <1>5, HeadedKeeps
<1>7. TableTyped'
  <2>1. value' \in [Keys -> Values \cup {Junk}]
    BY <1>1 DEF TableTyped
  <2> QED
    BY <2>1, <1>6 DEF TableTyped, Lists
<1>8. CallTyped' /\ AtRest' /\ Sized' /\ Passed' /\ Absent'
  BY <1>1 DEF CallTyped, WithKey, AtRest, Sized, Passed, Absent
<1> QED
  BY <1>6, <1>7, <1>8

LEMMA PopFoundKeeps == HashInv /\ PopFound => HashInv'
<1> SUFFICES ASSUME HashInv, PopFound PROVE HashInv'
  OBVIOUS
<1> USE DEF HashInv, PopFound, At
<1>1. op.key \in Keys
  BY DEF CallTyped, WithKey
<1>2. PICK i \in 0..newSize-1 : i = Home(op.key)
  BY <1>1, Places
<1>3. PICK p \in DOMAIN bucket[i] : bucket' = Dropped(bucket, i, p)
  BY <1>2 DEF Dropped
<1>4. bucket' \in Lists(newSize) /\ Once' /\ InPlace'
  BY <1>3, DroppedKeeps
<1>5. TableTyped'
  <2>1. PICK k \in Keys : k = op.key
    BY <1>1
  <2>2. Cardinality({k}) = 1
    BY FS_Singleton
  <2>3. Cardinality(hand') <= 1 /\ hand' \in SUBSET Keys
    BY <2>1, <2>2
  <2> QED
    BY <1>4, <2>3 DEF TableTyped, Lists
<1>6. CallTyped' /\ AtRest' /\ Sized' /\ Passed' /\ Absent'
  BY DEF CallTyped, WithKey, AtRest, Sized, Passed, Absent
<1> QED
  BY <1>4, <1>5, <1>6

\* The table is thrown away, and the next one is empty.
LEMMA DiscardKeeps == HashInv /\ Discard /\ Return => HashInv'
<1> SUFFICES ASSUME Discard, Return PROVE HashInv'
  OBVIOUS
<1> USE HashAssumption DEF Discard, Return
<1>1. Cardinality({}) = 0
  BY FS_EmptySet
<1>2. /\ bucket' \in [0..MinSize-1 -> Seq(Keys)]
      /\ \A i \in DOMAIN bucket' : DOMAIN bucket'[i] = {}
  BY DEF Empty
<1>3. TableTyped'
  <2>1. /\ size' \in Nat \ {0} /\ newSize' \in {size', 2 * size'}
        /\ value' \in [Keys -> Values \cup {Junk}]
    OBVIOUS
  <2> QED
    BY <1>1, <1>2, <2>1 DEF TableTyped
<1>4. Once' /\ InPlace' /\ Passed'
  BY <1>2 DEF Once, InPlace, Passed
<1> QED
  BY <1>3, <1>4 DEF HashInv, CallTyped, WithKey, AtRest, Sized, Absent

-----------------------------------------------------------------------------
(* Reading the lists, and signals. *)

LEMMA ReadsKeep ==
  ASSUME HashInv, UNCHANGED <<call, bucket, value, size, newSize>>
  PROVE  HashInv'
<1> USE DEF HashInv, call
<1>1. Once' /\ InPlace' /\ \A k : Holds(bucket, k)' <=> Holds(bucket, k)
  BY ListsKept
<1>2. TableTyped'
  BY DEF TableTyped
<1>3. Passed'
  BY DEF Passed, Target
<1>4. CallTyped' /\ AtRest' /\ Sized'
  BY DEF CallTyped, WithKey, AtRest, Sized
<1>5. Absent'
  BY <1>1 DEF Absent, Target
<1> QED
  BY <1>1, <1>2, <1>3, <1>4, <1>5

LEMMA ReadersKeep ==
  ASSUME HashInv, ListKeys \/ Stat \/ First \/ Following \/ Sigint \/ UNCHANGED vars
  PROVE  HashInv'
<1>1. ASSUME ListKeys \/ Stat \/ Following PROVE HashInv'
  BY <1>1, ReadsKeep DEF ListKeys, Stat, Following, Reads
<1>2. ASSUME First \/ Sigint \/ UNCHANGED vars PROVE HashInv'
  BY <1>2, ReadsKeep DEF First, Sigint, vars, table
<1> QED
  BY <1>1, <1>2

LEMMA AbortKeeps == HashInv /\ Abort => HashInv'
<1> SUFFICES ASSUME HashInv, Abort PROVE HashInv'
  OBVIOUS
<1>1. CASE op.name = "free"
  BY <1>1, DiscardKeeps DEF Abort
<1>2. CASE op.name # "free"
  <2>1. value \in [Keys -> Values \cup {Junk}]
    BY DEF HashInv, TableTyped
  <2> QED
    BY <2>1, <1>2, ReturnKeeps DEF Abort, table
<1> QED
  BY <1>1, <1>2

LEMMA OverrunKeeps == HashInv /\ Overrun => HashInv'
<1> SUFFICES ASSUME HashInv, Overrun PROVE HashInv'
  OBVIOUS
<1> USE DEF Overrun, Goto, At, table
<1>1. Once' /\ InPlace'
  BY DEF HashInv, Once, InPlace, Home, Target
<1>2. TableTyped' /\ CallTyped'
  BY DEF HashInv, TableTyped, CallTyped, WithKey
<1>3. AtRest' /\ Sized' /\ Passed' /\ Absent'
  BY DEF HashInv, AtRest, Sized, Passed, Absent
<1> QED BY <1>1, <1>2, <1>3 DEF HashInv

-----------------------------------------------------------------------------
LEMMA HashStep == HashInv /\ [Next]_vars => HashInv'
<1> SUFFICES ASSUME HashInv, [Next]_vars PROVE HashInv'
  OBVIOUS
<1>1. CASE Calls
  <2>1. ASSUME ListKeys \/ Stat \/ First \/ Following PROVE HashInv'
    BY <2>1, ReadersKeep
  <2> QED
    BY <1>1, <2>1, StartKeeps, OverrunKeeps DEF Calls
<1>2. CASE Step
  <2>1. ASSUME Sweep PROVE HashInv'
    BY <2>1, DiscardKeeps DEF Sweep
  <2>2. ASSUME Insert PROVE HashInv'
    BY <2>2, EndsKeep, ReplaceKeeps, GrowKeeps, CreateKeeps DEF Insert
  <2>3. ASSUME Find \/ PopMissed \/ Uncount \/ PopFound PROVE HashInv'
    BY <2>3, EndsKeep, PopFoundKeeps
  <2> QED
    BY <1>2, <2>1, <2>2, <2>3, EnterKeeps, RehashKeeps DEF Step
<1>3. CASE Sigint \/ UNCHANGED vars
  BY <1>3, ReadersKeep
<1>4. CASE Abort
  BY <1>4, AbortKeeps
<1> QED
  BY <1>1, <1>2, <1>3, <1>4 DEF Next

\* The inductive invariant holds in every state of the table.
LEMMA HashInvariant == Spec => []HashInv
<1>1. Init => HashInv
  BY HashInit
<1>2. HashInv /\ [Next]_vars => HashInv'
  BY HashStep
<1> QED
  BY <1>1, <1>2, PTL DEF Spec

\* The lists, the sizes and the place in a call are well typed, whatever is
\* interrupted: the array has as many lists as the new size says (rehash,
\* h_insert).
THEOREM TableTypeCorrect == Spec => []TableTyped
<1>1. HashInv => TableTyped
  BY DEF HashInv
<1> QED
  BY <1>1, HashInvariant, PTL

\* Every entry is in one list only, once, and in the list where the present or
\* the new size puts it; and what rehash has passed is where the new size wants
\* it (h_insert, rehash, h_pop).
THEOREM PlacedCorrect == Spec => []Placed
<1>1. HashInv => Placed
  BY DEF HashInv, Placed
<1> QED
  BY <1>1, HashInvariant, PTL

\* A lookup gives the value of an entry that is in some list, and says that there
\* is none only when it is in no list, whatever was interrupted before (h_find).
THEOREM LookupCorrect ==
  Spec => [][Find => result' = IF op.key \in Present
                               THEN <<"value", value[op.key]>> ELSE Nil]_vars
<1> DEFINE Right == result' = IF op.key \in Present
                             THEN <<"value", value[op.key]>> ELSE Nil
<1>1. ASSUME HashInv, Find PROVE Right
  <2>1. newSize = size /\ op.key \in Keys
    BY <1>1 DEF HashInv, Sized, CallTyped, WithKey, Find, At
  <2>2. In(op.key, Home(op.key)) <=> Holds(bucket, op.key)
    BY <1>1, <2>1, LookupFinds DEF HashInv
  <2>3. Holds(bucket, op.key) <=> op.key \in Present
    BY <2>1 DEF Holds, Present, In
  <2> QED
    BY <1>1, <2>2, <2>3 DEF Find
<1> HIDE DEF Right
<1>2. HashInv => [Find => Right]_vars
  BY <1>1
<1>3. Spec => [][Find => Right]_vars
  BY <1>2, HashInvariant, PTL
<1> QED
  BY <1>3 DEF Right

-----------------------------------------------------------------------------
(* The refinement of HashMap. *)

Rehashing == pc \in {"enter", "walk", "link"}

\* What the call in progress is, and what it has done so far.
OpInv ==
  /\ \/ pc \in {"store", "replace", "create", "count"}
     \/ Rehashing /\ after \in {"store", "create"}
     => op.name = "set"
  /\ pc = "sweep" \/ (Rehashing /\ after = "sweep") => op.name = "free"
  /\ pc = "ready" => op.name = "none"
  /\ op.name = "set" => op.val \in Values /\ scan = <<>>
  /\ op.name = "free" => scan = <<>> /\ result = Nil
  /\ pc = "replace" => value[op.key] = Junk /\ Holds(bucket, op.key)
  /\ pc = "uncount" => hand = {op.key} /\ ~Holds(bucket, op.key)
  /\ pc \in {"pop", "uncount"} => scan = <<>>

\* A scan that has come to place p of list i has been at place r of list l.
Before(l, r, i, p) == l < i \/ (l = i /\ r <= p)

\* The entries it has given.
Upto(i, p) ==
  {k \in Keys : \E l \in 0..size-1 : \E r \in DOMAIN bucket[l] :
     bucket[l][r] = k /\ Before(l, r, i, p)}

ScanAt(i, p) ==
  Last(scan) = bucket[i][p] /\ {scan[j] : j \in DOMAIN scan} = Upto(i, p)

ScanInv ==
  /\ scan \in Seq(Keys) /\ sound \in BOOLEAN
  /\ scan # <<>> /\ sound =>
       newSize = size /\ \E i \in 0..size-1 : \E p \in DOMAIN bucket[i] : ScanAt(i, p)

CountInv == number \in 0..Word-1

LEMMA PresentIs ==
  /\ Present \subseteq Keys /\ \A k \in Keys : k \in Present <=> Holds(bucket, k)
  /\ Present' \subseteq Keys
  /\ \A k \in Keys : k \in Present' <=> Holds(bucket, k)'
BY DEF Present, In, Holds

\* What a step that overruns no array is to HashMap.
Implements == Map!Operation \/ UNCHANGED Map!data

LEMMA MapKept ==
  ASSUME UNCHANGED <<bucket, value, hand>>,
         (pc # "replace" /\ pc' # "replace") \/ UNCHANGED <<pc, op>>
  PROVE  AsMap' = AsMap
<1>1. Present' = Present
  BY DEF Present, In
<1> QED
  BY <1>1 DEF AsMap

LEMMA Stutters ==
  ASSUME AsMap' = AsMap, AsCount' = AsCount, Torn' = Torn,
         UNCHANGED <<scan, sound, result>>
  PROVE  Implements
BY DEF Implements, Map!data

LEMMA Small == ASSUME NEW n \in 0..Word-1 PROVE n % Word = n
  BY HashAssumption

LEMMA StartMaps ==
  ASSUME HashInv, NEW name, NEW k, NEW v, Start(name, k, v)
  PROVE  Implements
<1> USE DEF Start, At, table
<1>1. AsMap' = AsMap
  BY MapKept
<1>2. AsCount' = AsCount
  BY DEF AsCount
<1>3. Torn' \in {Torn, FALSE}
  BY DEF Torn
<1>4. Map!Begin
  BY <1>1, <1>2, <1>3 DEF Map!Begin, Map!Nil, Nil
<1> QED
  BY <1>4 DEF Implements, Map!Operation

\* The steps of a call between its stores.
LEMMA OnwardMaps ==
  ASSUME HashInv, Enter \/ Keep \/ NextSlot \/ Rehashed
  PROVE  Implements
<1>1. /\ UNCHANGED <<bucket, value, hand, number, scan, sound, result>>
      /\ pc \in {"enter", "walk"}
      /\ pc' \in {"walk", "find", "store", "sweep", "create"}
  BY DEF Enter, Keep, NextSlot, Rehashed, At, table, HashInv, TableTyped
<1>2. AsMap' = AsMap
  BY <1>1, MapKept
<1> QED
  BY <1>1, <1>2, Stutters DEF AsCount, Torn

\* The entry at place p of list i leaves the lists, and no other does.
LEMMA DroppedHolds ==
  ASSUME TableTyped, Once, InPlace, NEW i \in 0..newSize-1, NEW p \in DOMAIN bucket[i],
         bucket' = Dropped(bucket, i, p), UNCHANGED <<size, newSize>>
  PROVE  /\ bucket[i][p] \in Keys /\ Holds(bucket, bucket[i][p])
         /\ \A k : Holds(bucket', k) <=> Holds(bucket, k) /\ k # bucket[i][p]
<1>1. /\ bucket[i] \in Seq(Keys) /\ p \in 1..Len(bucket[i]) /\ Len(bucket[i]) \in Nat
      /\ DOMAIN bucket = 0..newSize-1 /\ bucket[i][p] \in Keys
      /\ \A j \in 0..newSize-1 : DOMAIN bucket[j] = 1..Len(bucket[j])
  BY Places DEF Lists
<1>2. ~Holds(bucket', bucket[i][p]) /\ \A k : Holds(bucket', k) => Holds(bucket, k)
  BY DroppedKeeps
<1> DEFINE d == RemoveAt(bucket[i], p)
<1>3. /\ d \in Seq(Keys) /\ Len(d) = Len(bucket[i]) - 1
      /\ \A q \in 1..(Len(bucket[i]) - 1) :
           d[q] = IF q < p THEN bucket[i][q] ELSE bucket[i][q + 1]
  BY <1>1, RemoveAtProperties
<1>4. DOMAIN d = 1..(Len(bucket[i]) - 1)
  BY <1>3, LenProperties
<1>5. /\ DOMAIN bucket' = 0..newSize-1 /\ bucket'[i] = d
      /\ \A j \in 0..newSize-1 : j # i => bucket'[j] = bucket[j]
  BY <1>1 DEF Dropped
<1> HIDE DEF d
<1>6. ASSUME NEW j \in 0..newSize-1, NEW q \in DOMAIN bucket[j],
             bucket[j][q] # bucket[i][p]
      PROVE  Holds(bucket', bucket[j][q])
  <2>1. CASE j # i
    BY <2>1, <1>5 DEF Holds
  <2>2. CASE j = i /\ q < p
    <3>1. q \in DOMAIN d /\ d[q] = bucket[i][q]
      BY <2>2, <1>1, <1>3, <1>4
    <3> QED BY <2>2, <3>1, <1>5 DEF Holds
  <2>3. CASE j = i /\ q > p
    <3>1. q - 1 \in 1..(Len(bucket[i]) - 1) /\ ~(q - 1 < p) /\ (q - 1) + 1 = q
      BY <2>3, <1>1
    <3>2. q - 1 \in DOMAIN d /\ d[q - 1] = bucket[i][q]
      BY <3>1, <1>3, <1>4
    <3> QED BY <2>3, <3>2, <1>5 DEF Holds
  <2>4. j = i => q # p /\ q \in Int /\ p \in Int
    BY <1>1, <1>6
  <2> QED BY <2>1, <2>2, <2>3, <2>4
<1>7. \A k : Holds(bucket, k) /\ k # bucket[i][p] => Holds(bucket', k)
  BY <1>1, <1>6 DEF Holds
<1>8. Holds(bucket, bucket[i][p])
  BY <1>1 DEF Holds
<1> QED BY <1>1, <1>2, <1>7, <1>8

\* The entry put at the head of list i joins the others.
LEMMA HeadedHolds ==
  ASSUME TableTyped, Once, InPlace, NEW i \in 0..newSize-1, NEW k \in Keys,
         ~Holds(bucket, k), Target(k) = i \/ (i < size /\ Home(k) = i),
         bucket' = Headed(bucket, i, k), UNCHANGED <<size, newSize>>
  PROVE  \A e : Holds(bucket', e) <=> e = k \/ Holds(bucket, e)
<1>1. /\ bucket[i] \in Seq(Keys) /\ Len(bucket[i]) \in Nat
      /\ DOMAIN bucket = 0..newSize-1
      /\ \A j \in 0..newSize-1 : DOMAIN bucket[j] = 1..Len(bucket[j])
  BY Places DEF Lists
<1>2. \A e : Holds(bucket', e) => e = k \/ Holds(bucket, e)
  BY HeadedKeeps
<1> DEFINE d == <<k>> \o bucket[i]
<1>3. /\ d \in Seq(Keys) /\ Len(d) = Len(bucket[i]) + 1 /\ d[1] = k
      /\ \A q \in 2..(Len(bucket[i]) + 1) : d[q] = bucket[i][q - 1]
  BY <1>1, PrependProperties
<1>4. DOMAIN d = 1..(Len(bucket[i]) + 1)
  BY <1>3, LenProperties
<1>5. /\ DOMAIN bucket' = 0..newSize-1 /\ bucket'[i] = d
      /\ \A j \in 0..newSize-1 : j # i => bucket'[j] = bucket[j]
  BY <1>1 DEF Headed
<1> HIDE DEF d
<1>6. ASSUME NEW j \in 0..newSize-1, NEW q \in DOMAIN bucket[j]
      PROVE  Holds(bucket', bucket[j][q])
  <2>1. CASE j # i
    BY <2>1, <1>5 DEF Holds
  <2>2. CASE j = i
    <3>1. q + 1 \in 2..(Len(bucket[i]) + 1) /\ (q + 1) - 1 = q
      BY <2>2, <1>1
    <3>2. q + 1 \in DOMAIN d /\ d[q + 1] = bucket[i][q]
      BY <3>1, <1>1, <1>3, <1>4
    <3> QED BY <2>2, <3>2, <1>5 DEF Holds
  <2> QED BY <2>1, <2>2
<1>7. \A e : Holds(bucket, e) => Holds(bucket', e)
  BY <1>1, <1>6 DEF Holds
<1>8. Holds(bucket', k)
  <2>1. 1 \in DOMAIN d
    BY <1>1, <1>4
  <2> QED BY <2>1, <1>3, <1>5 DEF Holds
<1> QED BY <1>2, <1>7, <1>8

\* The entries do not change when one of them is taken from a list into the
\* hand or put back.
LEMMA MapMoved ==
  ASSUME Present' \cup hand' = Present \cup hand, value' = value,
         pc # "replace", pc' # "replace"
  PROVE  AsMap' = AsMap
BY DEF AsMap

\* An entry taken out of the lists.
LEMMA Taken ==
  ASSUME HashInv, NEW i \in 0..newSize-1, NEW p \in DOMAIN bucket[i],
         bucket' = Dropped(bucket, i, p), UNCHANGED <<size, newSize>>
  PROVE  /\ bucket[i][p] \in Present
         /\ Present' = Present \ {bucket[i][p]}
<1>1. /\ bucket[i][p] \in Keys /\ Holds(bucket, bucket[i][p])
      /\ \A k : Holds(bucket', k) <=> Holds(bucket, k) /\ k # bucket[i][p]
  BY DroppedHolds DEF HashInv
<1>2. \A k : Holds(bucket, k)' <=> Holds(bucket', k)
  BY DEF Holds
<1> QED BY <1>1, <1>2, PresentIs

\* An entry put in the list it belongs to.
LEMMA Joined ==
  ASSUME HashInv, NEW i \in 0..newSize-1, NEW k \in Keys,
         ~Holds(bucket, k), Target(k) = i \/ (i < size /\ Home(k) = i),
         bucket' = Headed(bucket, i, k), UNCHANGED <<size, newSize>>
  PROVE  k \notin Present /\ Present' = Present \cup {k}
<1>1. \A e : Holds(bucket', e) <=> e = k \/ Holds(bucket, e)
  BY HeadedHolds DEF HashInv
<1>2. \A e : Holds(bucket, e)' <=> Holds(bucket', e)
  BY DEF Holds
<1> QED BY <1>1, <1>2, PresentIs

LEMMA MoveMaps ==
  ASSUME HashInv, Unlink \/ Link
  PROVE  Implements
<1>1. /\ UNCHANGED <<value, number, scan, sound, result, size, newSize>>
      /\ pc \in {"walk", "link"} /\ pc' \in {"walk", "link"}
  BY DEF Unlink, Link, At
<1>2. CASE Unlink
  <2>1. /\ slot \in 0..newSize-1 /\ pos \in DOMAIN bucket[slot]
        /\ Current = bucket[slot][pos]
    <3>1. slot \in 0..newSize-1 /\ slot < size
      BY <1>2, Places DEF HashInv, TableTyped, AtEntry, Unlink
    <3>2. pos \in 1..Len(bucket[slot])
      BY <1>2, <3>1, Places DEF HashInv, TableTyped, AtEntry, Chain, Unlink
    <3> QED BY <3>1, <3>2, Places DEF Current, Chain, HashInv
  <2>2. bucket' = Dropped(bucket, slot, pos) /\ hand' = {Current} /\ hand = {}
    BY <1>2 DEF Unlink, Dropped, Chain, At, HashInv, AtRest
  <2>3. Present' \cup hand' = Present \cup hand
    BY <1>1, <2>1, <2>2, Taken
  <2> QED BY <1>1, <2>3, MapMoved, Stutters DEF AsCount, Torn
<1>3. CASE Link
  <2>1. PICK c \in Keys : hand = {c} /\ ~Holds(bucket, c)
    BY <1>3 DEF HashInv, Absent, Link, At
  <2>2. PICK i \in 0..newSize-1 : i = Target(c)
    BY Places DEF HashInv
  <2>3. bucket' = Headed(bucket, i, c) /\ hand' = {}
    BY <1>3, <2>1, <2>2 DEF Headed, Link
  <2>4. Present' \cup hand' = Present \cup hand
    BY <1>1, <2>1, <2>2, <2>3, Joined
  <2> QED BY <1>1, <2>4, MapMoved, Stutters DEF AsCount, Torn
<1> QED BY <1>2, <1>3

\* What is mapped to the map of HashMap.
LEMMA EntriesAre ==
  /\ Map!Entries = Present \cup hand
  /\ \A k \in Present \cup hand :
       AsMap[k] = IF pc = "replace" /\ k = op.key THEN op.val ELSE value[k]
BY DEF Map!Entries, AsMap

\* Where h_find and h_insert are when they look for the key.
LEMMA Looking ==
  ASSUME HashInv, pc \in {"find", "store", "create"}
  PROVE  /\ op.key \in Keys /\ hand = {} /\ newSize = size /\ size \in Nat
         /\ ~Torn
         /\ In(op.key, Home(op.key)) <=> op.key \in Present
         /\ pc = "create" => op.key \notin Present
<1>1. op.key \in Keys /\ hand = {} /\ newSize = size /\ size \in Nat
  BY DEF HashInv, TableTyped, CallTyped, WithKey, AtRest, Sized
<1>2. In(op.key, Home(op.key)) <=> Holds(bucket, op.key)
  BY <1>1, LookupFinds DEF HashInv
<1>3. pc = "create" => ~Holds(bucket, op.key)
  BY DEF HashInv, Absent
<1> QED BY <1>1, <1>2, <1>3, PresentIs DEF Torn

LEMMA FindMaps ==
  ASSUME HashInv, Find
  PROVE  Implements
<1> USE DEF Find, At, Return, table
<1>1. /\ op.key \in Keys /\ hand = {} /\ newSize = size /\ size \in Nat
      /\ ~Torn
      /\ In(op.key, Home(op.key)) <=> op.key \in Present
  BY Looking
<1>2. AsMap' = AsMap
  BY <1>1, MapKept
<1>3. AsCount' = AsCount /\ Torn' = Torn
  BY <1>1 DEF AsCount, Torn
<1>4. result' = IF op.key \in Map!Entries THEN <<"value", AsMap[op.key]>> ELSE Nil
  BY <1>1, EntriesAre
<1>5. Map!Get(op.key)
  BY <1>1, <1>2, <1>3, <1>4 DEF Map!Get, Map!Value, Map!Nil, Nil
<1> QED BY <1>1, <1>5 DEF Implements, Map!Operation

LEMMA ReplaceMaps ==
  ASSUME HashInv, OpInv, Replace
  PROVE  Implements
<1> USE DEF Replace, At, Goto
<1>1. /\ op.key \in Keys /\ hand = {} /\ newSize = size /\ size \in Nat
      /\ ~Torn
      /\ op.key \in Present
  BY Looking
<1>2. op.val \in Values /\ value \in [Keys -> Values \cup {Junk}]
  BY DEF OpInv, HashInv, TableTyped
<1>3. Present' = Present
  BY DEF Present, In
<1>4. AsMap' = [e \in Map!Entries \cup {op.key} |->
                  IF e = op.key THEN op.val ELSE AsMap[e]]
  <2>1. Present \subseteq Keys
    BY PresentIs
  <2>2. \A e \in Keys : e # op.key => value'[e] = value[e]
    BY <1>2
  <2>3. AsMap' = [e \in Present |-> IF e = op.key THEN op.val ELSE value'[e]]
    BY <1>1, <1>3 DEF AsMap
  <2>4. Map!Entries \cup {op.key} = Present
    BY <1>1, EntriesAre
  <2>5. \A e \in Present : AsMap[e] = value[e]
    BY <1>1, EntriesAre
  <2> QED BY <2>1, <2>2, <2>3, <2>4, <2>5
<1>5. AsCount' = AsCount /\ Torn' = Torn /\ op.key \in Map!Entries
  BY <1>1, EntriesAre DEF AsCount, Torn
<1>6. Map!Put(op.key, op.val)
  BY <1>1, <1>4, <1>5 DEF Map!Put
<1> QED BY <1>1, <1>2, <1>6 DEF Implements, Map!Operation

LEMMA ReplacedMaps ==
  ASSUME HashInv, OpInv, Replaced
  PROVE  Implements
<1> USE DEF Replaced, At, Return
<1>1. hand = {} /\ newSize = size /\ size \in Nat /\ value \in [Keys -> Values \cup {Junk}]
  BY DEF HashInv, AtRest, Sized, TableTyped
<1>2. Present' = Present /\ Present \subseteq Keys
  BY PresentIs DEF Present, In
<1>3. \A e \in Present : value'[e] = IF e = op.key THEN op.val ELSE value[e]
  BY <1>1, <1>2
<1>4. AsMap' = AsMap
  BY <1>1, <1>2, <1>3 DEF AsMap
<1>5. AsCount' = AsCount /\ Torn' = Torn
  BY <1>1 DEF AsCount, Torn
<1> QED BY <1>4, <1>5, Stutters

LEMMA GrowMaps ==
  ASSUME HashInv, Grow
  PROVE  Implements
<1> USE DEF Grow, IsNew, At
<1>1. newSize = size /\ size \in Nat \ {0} /\ hand' = hand
  BY DEF HashInv, TableTyped, Sized
<1>2. DOMAIN bucket = 0..size-1
  BY <1>1, Places DEF HashInv
<1>3. /\ DOMAIN bucket' = 0..2*size-1
      /\ \A i \in 0..size-1 : i \in 0..2*size-1 /\ bucket'[i] = bucket[i]
      /\ \A i \in 0..2*size-1 : i \notin 0..size-1 => DOMAIN bucket'[i] = {}
  <2>1. \A i \in 0..size-1 : i \in 0..2*size-1 /\ i < size
    BY <1>1
  <2>2. \A i \in 0..2*size-1 : i \notin 0..size-1 => ~(i < size)
    BY <1>1
  <2>3. DOMAIN <<>> = {}
    OBVIOUS
  <2> QED BY <2>1, <2>2, <2>3
<1>4. \A k : Holds(bucket', k) <=> Holds(bucket, k)
  <2> DEFINE b == bucket'
  <2>1. /\ DOMAIN b = 0..2*size-1
        /\ \A i \in 0..size-1 : i \in 0..2*size-1 /\ b[i] = bucket[i]
        /\ \A i \in 0..2*size-1 : i \notin 0..size-1 => DOMAIN b[i] = {}
    BY <1>3
  <2> HIDE DEF b
  <2>2. \A k : Holds(b, k) => Holds(bucket, k)
    BY <1>2, <2>1 DEF Holds
  <2>3. \A k : Holds(bucket, k) => Holds(b, k)
    BY <1>2, <2>1 DEF Holds
  <2> QED BY <2>2, <2>3 DEF b
<1>5. \A k : Holds(bucket, k)' <=> Holds(bucket', k)
  BY DEF Holds
<1>6. Present' = Present
  BY <1>4, <1>5, PresentIs
<1>7. AsMap' = AsMap
  BY <1>1, <1>6, MapMoved
<1> QED BY <1>1, <1>7, Stutters DEF AsCount, Torn

LEMMA CreateMaps ==
  ASSUME HashInv, OpInv, CountInv, Create
  PROVE  Implements
<1> USE DEF Create, IsNew, At, Goto
<1>1. /\ op.key \in Keys /\ hand = {} /\ newSize = size /\ size \in Nat
      /\ ~Torn
      /\ op.key \notin Present
  BY Looking
<1>2. op.val \in Values /\ scan = <<>> /\ value \in [Keys -> Values \cup {Junk}]
  BY DEF OpInv, HashInv, TableTyped
<1>3. PICK i \in 0..newSize-1 : i = Home(op.key)
  BY <1>1, Places DEF HashInv
<1>4. PICK k \in Keys : k = op.key
  BY <1>1
<1>5. bucket' = Headed(bucket, i, k) /\ ~Holds(bucket, k)
  BY <1>1, <1>3, <1>4, PresentIs DEF Headed
<1>6. Present' = Present \cup {op.key}
  BY <1>1, <1>3, <1>4, <1>5, Joined
<1>7. AsMap' = [e \in Map!Entries \cup {op.key} |->
                  IF e = op.key THEN op.val ELSE AsMap[e]]
  <2>1. Present \subseteq Keys
    BY PresentIs
  <2>2. \A e \in Keys : value'[e] = IF e = op.key THEN op.val ELSE value[e]
    BY <1>2
  <2>3. AsMap' = [e \in Present \cup {op.key} |-> value'[e]]
    BY <1>1, <1>6 DEF AsMap
  <2>4. Map!Entries = Present
    BY <1>1, EntriesAre
  <2>5. \A e \in Present : AsMap[e] = value[e]
    BY <1>1, EntriesAre
  <2> QED BY <1>1, <2>1, <2>2, <2>3, <2>4, <2>5
<1>8. AsCount' = (AsCount + 1) % Word
  BY Small DEF AsCount, CountInv
<1>9. Torn' = Torn /\ op.key \notin Map!Entries
  BY <1>1, EntriesAre DEF Torn
<1>10. Map!Put(op.key, op.val)
  BY <1>1, <1>2, <1>7, <1>8, <1>9 DEF Map!Put
<1> QED BY <1>1, <1>2, <1>10 DEF Implements, Map!Operation

LEMMA CountMaps ==
  ASSUME HashInv, CountInv, Count
  PROVE  Implements
<1> USE DEF Count, At, Return
<1>1. hand = {} /\ newSize = size /\ size \in Nat
  BY DEF HashInv, TableTyped, AtRest, Sized
<1>2. AsMap' = AsMap
  BY <1>1, MapKept
<1>3. number' \in 0..Word-1
  BY HashAssumption DEF CountInv
<1>4. AsCount' = AsCount
  BY <1>3, Small DEF AsCount
<1> QED BY <1>1, <1>2, <1>4, Stutters DEF Torn

LEMMA NoMemoryMaps ==
  ASSUME HashInv, NoMemory
  PROVE  Implements
<1> USE DEF NoMemory, IsNew, At, Return, table
<1>1. hand = {} /\ newSize = size /\ size \in Nat
  BY DEF HashInv, TableTyped, AtRest, Sized
<1>2. AsMap' = AsMap
  BY <1>1, MapKept
<1>3. AsCount' = AsCount /\ Torn' = Torn
  BY <1>1 DEF AsCount, Torn
<1>4. Map!NoMemory
  BY <1>2, <1>3 DEF Map!NoMemory, Map!Failed, Failed
<1> QED BY <1>4 DEF Implements, Map!Operation

LEMMA PopMaps ==
  ASSUME HashInv, OpInv, CountInv, PopFound \/ Uncount \/ PopMissed
  PROVE  Implements
<1>1. op.key \in Keys
  BY DEF HashInv, CallTyped, WithKey, PopFound, Uncount, PopMissed, At
<1>2. CASE PopFound
  <2>1. PICK i \in 0..newSize-1 : i = Home(op.key)
    BY <1>1, Places DEF HashInv
  <2>2. PICK p \in DOMAIN bucket[i] :
           bucket[i][p] = op.key /\ bucket' = Dropped(bucket, i, p)
    BY <1>2, <2>1 DEF Dropped, PopFound
  <2>3. hand' = {op.key} /\ hand = {} /\ pc = "pop" /\ pc' = "uncount"
    BY <1>2 DEF PopFound, At, HashInv, AtRest
  <2>4. UNCHANGED <<value, number, scan, sound, result, size, newSize>>
    BY <1>2 DEF PopFound, At
  <2>5. Present' \cup hand' = Present \cup hand
    BY <2>2, <2>3, <2>4, Taken
  <2>6. AsMap' = AsMap
    BY <2>3, <2>4, <2>5, MapMoved
  <2> QED BY <2>3, <2>4, <2>6, Stutters DEF AsCount, Torn
<1>3. CASE Uncount
  <2> USE DEF Uncount, At, Return
  <2>1. hand = {op.key} /\ op.key \notin Present
    BY <1>1, <1>3, PresentIs DEF OpInv
  <2>2. Present' = Present /\ Present \subseteq Keys
    BY <1>3, PresentIs DEF Present, In
  <2>3. value \in [Keys -> Values \cup {Junk}]
    BY DEF HashInv, TableTyped
  <2>4. AsMap' = Map!Without(op.key)
    <3>1. Map!Entries \ {op.key} = Present
      BY <2>1, EntriesAre
    <3>2. \A e \in Present : AsMap[e] = value[e] /\ value'[e] = value[e]
      BY <1>3, <2>1, <2>2, <2>3, EntriesAre
    <3>3. AsMap' = [e \in Present |-> value'[e]]
      BY <1>3, <2>2 DEF AsMap
    <3> QED BY <3>1, <3>2, <3>3 DEF Map!Without
  <2>5. AsCount' = (AsCount - 1) % Word
    <3>1. number' \in 0..Word-1 /\ number' = (number - 1) % Word
      BY <1>3, HashAssumption DEF CountInv
    <3>2. AsCount = number
      BY <1>3, Small DEF AsCount, CountInv
    <3>3. AsCount' = number'
      BY <1>3, <3>1, Small DEF AsCount
    <3> QED BY <3>1, <3>2, <3>3
  <2>6. Torn' = Torn
    BY <1>3 DEF Torn
  <2>7. op.key \in Map!Entries /\ result' = <<"value", AsMap[op.key]>>
    BY <1>3, <2>1, EntriesAre
  <2>8. Map!Pop(op.key)
    BY <1>3, <2>4, <2>5, <2>6, <2>7 DEF Map!Pop, Map!Value
  <2> QED BY <1>1, <2>8 DEF Implements, Map!Operation
<1>4. CASE PopMissed
  <2> USE DEF PopMissed, At, Return, table
  <2>1. hand = {}
    BY <1>4 DEF HashInv, AtRest
  <2>2. AsMap' = AsMap
    BY <1>4, <2>1, MapKept
  <2>3. op.key \in Map!Entries => Torn
    <3>1. CASE newSize = size
      <4>1. op.key \notin Present
        BY <1>1, <1>4, <3>1, LookupFinds, PresentIs DEF HashInv
      <4> QED BY <2>1, <4>1, EntriesAre
    <3>2. CASE newSize # size
      BY <1>4, <3>2, Places DEF HashInv, Torn
    <3> QED BY <3>1, <3>2
  <2>4. AsCount' = AsCount /\ Torn' = Torn
    BY <1>4 DEF AsCount, Torn
  <2>5. Map!Pop(op.key)
    BY <1>4, <2>2, <2>3, <2>4 DEF Map!Pop, Map!Nil, Nil
  <2> QED BY <1>1, <2>5 DEF Implements, Map!Operation
<1> QED BY <1>2, <1>3, <1>4

\* A map without entries.
LEMMA NoEntries ==
  ASSUME NEW f, f = [x \in DOMAIN f |-> f[x]], DOMAIN f = {}
  PROVE  f = <<>>
<1>1. f = [x \in 1..0 |-> f[x]]
  OBVIOUS
<1>2. DOMAIN <<>> = {} /\ <<>> = [x \in 1..0 |-> <<>>[x]]
  OBVIOUS
<1> QED BY <1>1, <1>2

LEMMA FreeMaps ==
  ASSUME Discard, hand' = {}, pc' = "ready", scan' = <<>>, sound' \in {sound, TRUE},
         UNCHANGED result
  PROVE  Implements
<1>1. MinSize \in Nat /\ \A i \in DOMAIN bucket' : DOMAIN bucket'[i] = {}
  BY HashAssumption DEF Discard, Empty
<1>2. Present' = {}
  BY <1>1 DEF Present, In
<1>3. AsMap' = <<>>
  <2> DEFINE f == AsMap'
  <2>1. f = [x \in DOMAIN f |-> f[x]] /\ DOMAIN f = {}
    BY <1>2 DEF AsMap
  <2> HIDE DEF f
  <2>2. f = <<>>
    BY <2>1, NoEntries
  <2> QED BY <2>2 DEF f
<1>4. AsCount' = 0
  <2>1. 0 % Word = 0
    BY HashAssumption
  <2>2. AsCount' = (0 + 0) % Word
    BY DEF AsCount, Discard
  <2> QED BY <2>1, <2>2
<1>5. Torn' = FALSE
  BY <1>1 DEF Torn, Discard
<1>6. Map!Free
  BY <1>3, <1>4, <1>5 DEF Map!Free
<1> QED BY <1>6 DEF Implements, Map!Operation

LEMMA SweepMaps ==
  ASSUME HashInv, OpInv, Sweep
  PROVE  Implements
<1>1. op.name = "free" /\ scan = <<>>
  BY DEF OpInv, Sweep, At
<1> QED BY <1>1, FreeMaps DEF Sweep, At, Return

LEMMA SigintMaps ==
  ASSUME Sigint
  PROVE  Implements
<1>1. AsMap' = AsMap
  BY MapKept DEF Sigint, table, call
<1> QED BY <1>1, Stutters DEF Sigint, table, call, AsCount, Torn

\* A call that is abandoned has lost the entry in its hand, the value it was
\* replacing, or the count of the entry it made.
LEMMA AbortMaps ==
  ASSUME HashInv, OpInv, CountInv, Abort
  PROVE  Implements
<1>1. CASE op.name = "free"
  BY <1>1, FreeMaps DEF Abort, Return, OpInv
<1>2. CASE op.name # "free"
  <2> USE DEF Abort, Return, table
  <2>1. /\ Present' = Present /\ hand' = {} /\ pc' = "ready" /\ number' = number
        /\ Torn' \in BOOLEAN
    BY <1>2 DEF Present, In, Torn
  <2>2. AsMap' = [k \in Present |-> value[k]]
    BY <1>2, <2>1 DEF AsMap
  <2>3. AsCount' = number /\ (pc # "count" => AsCount = number)
    BY <2>1, Small DEF AsCount, CountInv
  <2>4. CASE hand # {}
    <3>1. pc \in {"link", "uncount"}
      BY <2>4 DEF HashInv, AtRest
    <3>2. PICK k \in Keys : hand = {k} /\ ~Holds(bucket, k)
      <4>1. pc = "uncount" => op.key \in Keys
        BY DEF HashInv, CallTyped, WithKey
      <4> QED BY <3>1, <4>1 DEF HashInv, Absent, OpInv
    <3>3. k \notin Present /\ Map!Entries \ {k} = Present /\ k \in Map!Entries
      BY <3>2, PresentIs, EntriesAre
    <3>4. \A e \in Present : AsMap[e] = value[e]
      BY <3>1, EntriesAre
    <3>5. AsMap' = Map!Without(k)
      BY <2>2, <3>3, <3>4 DEF Map!Without
    <3>6. AsCount' = AsCount
      BY <2>3, <3>1
    <3>7. Map!Interrupt
      BY <2>1, <3>3, <3>5, <3>6 DEF Map!Interrupt, Map!Nil, Nil
    <3> QED BY <3>7 DEF Implements, Map!Operation
  <2>5. CASE hand = {} /\ pc = "replace"
    <3>1. op.key \in Keys
      BY <2>5 DEF HashInv, CallTyped, WithKey
    <3>2. op.key \in Map!Entries /\ Map!Entries = Present /\ value[op.key] = Junk
      BY <2>5, <3>1, PresentIs, EntriesAre DEF OpInv
    <3>3. \A e \in Present : e # op.key => AsMap[e] = value[e]
      BY <2>5, EntriesAre
    <3>4. AsMap' = [AsMap EXCEPT ![op.key] = Junk]
      BY <2>2, <3>2, <3>3 DEF Map!Entries
    <3>5. AsCount' = AsCount
      BY <2>3, <2>5
    <3>6. Map!Interrupt
      BY <2>1, <3>2, <3>4, <3>5 DEF Map!Interrupt, Map!Nil, Nil
    <3> QED BY <3>6 DEF Implements, Map!Operation
  <2>6. CASE hand = {} /\ pc # "replace"
    <3>1. AsMap' = AsMap
      BY <2>2, <2>6 DEF AsMap
    <3>2. AsCount' = AsCount \/ AsCount' = (AsCount - 1) % Word
      <4>1. CASE pc # "count"
        BY <2>3, <4>1
      <4>2. CASE pc = "count"
        <5>1. AsCount = (number + 1) % Word
          BY <4>2 DEF AsCount
        <5>2. Word \in Nat \ {0} /\ number \in 0..Word-1
          BY HashAssumption DEF CountInv
        <5>3. CASE number + 1 < Word
          <6>1. number + 1 \in 0..Word-1
            BY <5>2, <5>3
          <6>2. AsCount = number + 1
            BY <5>1, <6>1, Small
          <6>3. AsCount - 1 = number
            BY <5>2, <6>2
          <6> QED BY <2>3, <5>2, <6>3, Small
        <5>4. CASE number + 1 = Word
          <6>1. AsCount = 0
            BY <5>1, <5>2, <5>4
          <6>2. (0 - 1) % Word = Word - 1
            BY <5>2
          <6> QED BY <2>3, <5>2, <5>4, <6>1, <6>2
        <5> QED BY <5>2, <5>3, <5>4
      <4> QED BY <4>1, <4>2
    <3>3. Map!Interrupt
      BY <2>1, <3>1, <3>2 DEF Map!Interrupt, Map!Nil, Nil
    <3> QED BY <3>3 DEF Implements, Map!Operation
  <2> QED BY <2>4, <2>5, <2>6
<1> QED BY <1>1, <1>2

-----------------------------------------------------------------------------
(* The calls that read the lists. *)

LEMMA Least ==
  ASSUME NEW S \in SUBSET Nat, S # {}
  PROVE  Min(S) \in S /\ \A y \in S : Min(S) <= y
<1>1. PICK x \in S : \A y \in S : ~(<<y, x>> \in OpToRel(<, Nat))
  BY WFMin, NatLessThanWellFounded
<1>2. \A y, z \in Nat : y < z => <<y, z>> \in OpToRel(<, Nat)
  BY DEF OpToRel
<1>3. \A y \in S : x <= y
  <2> SUFFICES ASSUME NEW y \in S, ~(x <= y) PROVE FALSE
    OBVIOUS
  <2>1. y < x
    OBVIOUS
  <2> QED BY <1>1, <1>2, <2>1
<1> QED BY <1>3 DEF Min

\* Every entry is found at one place.
LEMMA FoundIs ==
  ASSUME TableTyped, Once
  PROVE  /\ Cardinality(Found) = Cardinality(Listed)
         /\ Cardinality(Found) \in 0..Word-1
         /\ Listed \subseteq Present
         /\ newSize = size => Listed = Present
<1>1. /\ DOMAIN bucket = 0..newSize-1 /\ size \in Nat \ {0} /\ size <= newSize
      /\ newSize \in Nat
      /\ \A i \in 0..newSize-1 : \A p \in DOMAIN bucket[i] : bucket[i][p] \in Keys
  BY Places
<1>2. 0..size-1 \subseteq 0..newSize-1
  BY <1>1
<1>3. \A e : e \in Found <=>
        \E i \in 0..size-1 : \E p \in DOMAIN bucket[i] : e = <<i, p>>
  BY DEF Found
<1>4. \A e \in Found : bucket[e[1]][e[2]] \in Keys /\ bucket[e[1]][e[2]] \in Present
  BY <1>1, <1>2, <1>3 DEF Present, In
<1>5. Listed \subseteq Present /\ Listed \subseteq Keys
  BY <1>4 DEF Listed
<1>6. newSize = size => Listed = Present
  <2> SUFFICES ASSUME newSize = size, NEW k \in Present
               PROVE  k \in Listed
    BY <1>5
  <2>1. PICK i \in 0..size-1 : \E p \in DOMAIN bucket[i] : bucket[i][p] = k
    BY <1>1 DEF Present, In
  <2>2. PICK p \in DOMAIN bucket[i] : bucket[i][p] = k
    BY <2>1
  <2>3. <<i, p>> \in Found
    BY <1>3
  <2> QED BY <2>2, <2>3 DEF Listed
<1>7. IsFiniteSet(Listed) /\ Cardinality(Listed) \in Nat
      /\ Cardinality(Listed) <= Cardinality(Keys) /\ Cardinality(Keys) \in Nat
  BY <1>5, KeysAssumption, FS_Subset, FS_CardinalityType
<1> DEFINE f == [e \in Found |-> bucket[e[1]][e[2]]]
<1>8. f \in Injection(Found, Listed)
  <2>1. f \in [Found -> Listed]
    BY DEF Listed
  <2>2. ASSUME NEW a \in Found, NEW b \in Found, f[a] = f[b]
        PROVE  a = b
    <3>1. PICK i \in 0..size-1 : \E p \in DOMAIN bucket[i] : a = <<i, p>>
      BY <1>3
    <3>2. PICK p \in DOMAIN bucket[i] : a = <<i, p>>
      BY <3>1
    <3>3. PICK j \in 0..size-1 : \E q \in DOMAIN bucket[j] : b = <<j, q>>
      BY <1>3
    <3>4. PICK q \in DOMAIN bucket[j] : b = <<j, q>>
      BY <3>3
    <3>5. bucket[i][p] = bucket[j][q]
      BY <2>2, <3>2, <3>4
    <3> QED BY <1>1, <1>2, <3>2, <3>4, <3>5 DEF Once
  <2> QED BY <2>1, <2>2, Fun_IsInj
<1>9. f \in Surjection(Found, Listed)
  <2>1. f \in [Found -> Listed] /\ \A k \in Listed : \E e \in Found : f[e] = k
    BY DEF Listed
  <2> QED BY <2>1, Fun_IsSurj
<1>10. Cardinality(Found) = Cardinality(Listed)
  BY <1>7, <1>8, <1>9, FS_Injection
<1> QED
  BY <1>5, <1>6, <1>7, <1>10, KeysAssumption, HashAssumption

LEMMA SameCardinality == ASSUME NEW S PROVE Map!Cardinality(S) = Cardinality(S)
  BY DEF Map!Cardinality, Cardinality

\* What the calls that read the lists are to HashMap, between two calls.
LEMMA Resting ==
  ASSUME HashInv, CountInv, pc = "ready"
  PROVE  /\ Map!Entries = Present /\ AsCount = number
         /\ ~Torn => newSize = size
         /\ size \in Nat \ {0} /\ newSize \in Nat /\ size <= newSize
<1>1. hand = {}
  BY DEF HashInv, AtRest
<1>2. size \in Nat \ {0} /\ newSize \in Nat /\ size <= newSize
  BY Places DEF HashInv
<1> QED BY <1>1, <1>2, EntriesAre, Small DEF AsCount, CountInv, Torn

LEMMA ListKeysMaps ==
  ASSUME HashInv, CountInv, ListKeys
  PROVE  Implements
<1> USE DEF ListKeys, Reads, At, call
<1>1. Map!Entries = Present /\ AsCount = number /\ (~Torn => newSize = size)
  BY Resting
<1>2. AsMap' = AsMap
  BY MapKept
<1>3. AsCount' = AsCount /\ Torn' = Torn
  BY DEF AsCount, Torn
<1>4. /\ Cardinality(Found) = Cardinality(Listed) /\ Listed \subseteq Present
      /\ newSize = size => Listed = Present
  BY FoundIs DEF HashInv
<1>5. Map!Sees(Listed)
  BY <1>1, <1>4 DEF Map!Sees
<1>6. Map!ListKeys(Listed)
  <2>1. result' = IF AsCount = 0 THEN Nil
                  ELSE IF Cardinality(Listed) > AsCount THEN Failed
                  ELSE <<"keys", Listed, AsCount - Cardinality(Listed)>>
    BY <1>1, <1>4
  <2>2. UNCHANGED <<scan, sound>>
    OBVIOUS
  <2>3. Map!KeysFit
    BY <1>1 DEF Map!KeysFit, Map!AsLong, KeysFit, AsLong
  <2> QED BY <1>2, <1>3, <1>5, <2>1, <2>2, <2>3, SameCardinality
          DEF Map!ListKeys, Map!Nil, Map!Failed, Nil, Failed
<1>7. Listed \in SUBSET Keys
  BY <1>4, PresentIs
<1> QED BY <1>6, <1>7 DEF Implements, Map!Operation

LEMMA StatMaps ==
  ASSUME HashInv, CountInv, Stat
  PROVE  Implements
<1> USE DEF Stat, Reads, At, call
<1>1. Map!Entries = Present /\ AsCount = number /\ (~Torn => newSize = size)
  BY Resting
<1>2. AsMap' = AsMap
  BY MapKept
<1>3. /\ Cardinality(Found) = Cardinality(Listed) /\ Listed \subseteq Present
      /\ newSize = size => Listed = Present
      /\ Cardinality(Found) \in 0..Word-1
  BY FoundIs DEF HashInv
<1>4. AsCount' = Cardinality(Listed) /\ Torn' = Torn
  <2>1. AsCount' = (number' + 0) % Word
    BY DEF AsCount
  <2>2. number' \in 0..Word-1 /\ number' + 0 = number'
    BY <1>3
  <2>3. AsCount' = number'
    BY <2>1, <2>2, Small
  <2> QED BY <2>3, <1>3 DEF Torn
<1>5. Map!Sees(Listed)
  BY <1>1, <1>3 DEF Map!Sees
<1>6. Map!Stat(Listed)
  <2>1. result' = IF AsCount # Cardinality(Listed) THEN Failed ELSE Nil
    BY <1>1, <1>3
  <2>2. UNCHANGED <<scan, sound>>
    OBVIOUS
  <2>3. Map!StatFits
    BY <1>1 DEF Map!StatFits, Map!AsLong, StatFits, AsLong
  <2> QED BY <1>2, <1>4, <1>5, <2>1, <2>2, <2>3, SameCardinality
          DEF Map!Stat, Map!Nil, Map!Failed, Nil, Failed
<1>7. Listed \in SUBSET Keys
  BY <1>3, PresentIs
<1> QED BY <1>6, <1>7 DEF Implements, Map!Operation

-----------------------------------------------------------------------------
(* A scan. *)

\* The next list that is not empty.
LEMMA FromListIs ==
  ASSUME TableTyped, NEW i \in Nat
  PROVE  \/ FromList(i) = <<>> /\ \A j \in i .. size-1 : bucket[j] = <<>>
         \/ \E j \in i .. size-1 : /\ FromList(i) = bucket[j] /\ bucket[j] # <<>>
                                   /\ \A l \in i .. j-1 : bucket[l] = <<>>
<1> DEFINE full == {j \in i .. size-1 : bucket[j] # <<>>}
<1>1. size \in Nat
  BY Places
<1>2. CASE full = {}
  BY <1>2 DEF FromList
<1>3. CASE full # {}
  <2>1. full \in SUBSET Nat
    BY <1>1
  <2> DEFINE j == Min(full)
  <2>2. j \in full /\ \A l \in full : j <= l
    BY <1>3, <2>1, Least
  <2>3. FromList(i) = bucket[j]
    BY <1>3 DEF FromList
  <2> HIDE DEF j
  <2>4. \A l \in i .. j-1 : bucket[l] = <<>>
    BY <1>1, <2>2
  <2> QED BY <2>2, <2>3, <2>4
<1> QED BY <1>2, <1>3

\* The place of the first entry of a list.
LEMMA FirstOf ==
  ASSUME TableTyped, NEW j \in 0..size-1, bucket[j] # <<>>
  PROVE  /\ 1 \in DOMAIN bucket[j] /\ Head(bucket[j]) = bucket[j][1]
         /\ bucket[j][1] \in Keys
<1>1. bucket[j] \in Seq(Keys) /\ j \in 0..newSize-1
  BY Places DEF Lists
<1>2. Len(bucket[j]) \in Nat /\ Len(bucket[j]) # 0 /\ DOMAIN bucket[j] = 1..Len(bucket[j])
  BY <1>1, EmptySeq, LenProperties
<1> QED BY <1>1, <1>2, Places

\* Place <<j, q>> follows place <<i, p>> in the order of a scan.
Follows(i, p, j, q) ==
  \A l \in 0..size-1 : \A r \in DOMAIN bucket[l] :
    Before(l, r, j, q) <=> Before(l, r, i, p) \/ (l = j /\ r = q)

\* What h_next looks for, from place <<i, p>>.
NextPlace(i, p, n) ==
  \/ /\ n = <<>>
     /\ \A l \in 0..size-1 : \A r \in DOMAIN bucket[l] : Before(l, r, i, p)
  \/ /\ n # <<>>
     /\ \E j \in 0..size-1 : \E q \in DOMAIN bucket[j] :
          /\ Head(n) = bucket[j][q] /\ Follows(i, p, j, q)
          /\ ~Before(j, q, i, p)

LEMMA FromListNext ==
  ASSUME TableTyped, NEW i \in Int, NEW p \in Int, i + 1 \in Nat,
         \A r \in DOMAIN bucket[i] : i \in 0..size-1 => r <= p
  PROVE  NextPlace(i, p, FromList(i + 1))
<1>1. /\ size \in Nat
      /\ \A l \in 0..size-1 : /\ l \in 0..newSize-1 /\ Len(bucket[l]) \in Nat
                              /\ DOMAIN bucket[l] = 1..Len(bucket[l])
  BY Places
<1>2. DOMAIN <<>> = {}
  OBVIOUS
<1> DEFINE n == FromList(i + 1)
<1>3. CASE n = <<>> /\ \A j \in i + 1 .. size-1 : bucket[j] = <<>>
  <2>1. \A l \in 0..size-1 : \A r \in DOMAIN bucket[l] : ~(l \in i + 1 .. size-1)
    BY <1>2, <1>3
  <2>2. \A l \in 0..size-1 : \A r \in DOMAIN bucket[l] : Before(l, r, i, p)
    BY <1>1, <2>1 DEF Before
  <2> QED BY <1>3, <2>2 DEF NextPlace
<1>4. CASE \E j \in i + 1 .. size-1 : /\ n = bucket[j] /\ bucket[j] # <<>>
                                      /\ \A l \in i + 1 .. j-1 : bucket[l] = <<>>
  <2>1. PICK j \in i + 1 .. size-1 : /\ n = bucket[j] /\ bucket[j] # <<>>
                                     /\ \A l \in i + 1 .. j-1 : bucket[l] = <<>>
    BY <1>4
  <2>2. j \in 0..size-1 /\ j > i
    BY <1>1
  <2>3. 1 \in DOMAIN bucket[j] /\ Head(n) = bucket[j][1]
    BY <2>1, <2>2, FirstOf
  <2> HIDE DEF n
  <2>4. \A l \in 0..size-1 : \A r \in DOMAIN bucket[l] :
           /\ ~(l \in i + 1 .. j-1) /\ r \in Nat /\ r >= 1
           /\ l = i => r <= p
    BY <1>1, <1>2, <2>1
  <2>5. Follows(i, p, j, 1)
    BY <1>1, <2>2, <2>4 DEF Follows, Before
  <2>6. n # <<>> /\ ~Before(j, 1, i, p)
    BY <2>1, <2>2 DEF Before
  <2>7. NextPlace(i, p, n)
    BY <2>2, <2>3, <2>5, <2>6 DEF NextPlace
  <2> QED BY <2>7 DEF n
<1> QED BY <1>3, <1>4, FromListIs

LEMMA NextAfterIs ==
  ASSUME TableTyped, NEW k \in Keys, In(k, Home(k))
  PROVE  \E p \in DOMAIN bucket[Home(k)] :
           bucket[Home(k)][p] = k /\ NextPlace(Home(k), p, NextAfter(k))
<1> DEFINE i == Home(k)
           b == bucket[i]
           p == CHOOSE x \in DOMAIN b : b[x] = k
           rest == SubSeq(b, 1 + p, Len(b))
<1>1. i \in 0..size-1 /\ i \in 0..newSize-1 /\ size \in Nat
  BY Places
<1>2. b \in Seq(Keys) /\ Len(b) \in Nat /\ DOMAIN b = 1..Len(b)
  BY <1>1, Places DEF Lists
<1>3. p \in DOMAIN b /\ b[p] = k
  BY DEF In
<1>4. NextAfter(k) = IF rest # <<>> THEN rest ELSE FromList(i + 1)
  BY DEF NextAfter
<1>5. p \in 1..Len(b)
  BY <1>2, <1>3
<1> HIDE DEF i, b, p
<1>6. CASE p = Len(b)
  <2>1. rest = <<>>
    BY <1>2, <1>6
  <2>2. \A r \in DOMAIN b : r <= p
    BY <1>2, <1>6
  <2>3. NextPlace(i, p, FromList(i + 1))
    BY <1>1, <1>5, <2>2, FromListNext DEF b
  <2> QED BY <1>3, <1>4, <2>1, <2>3 DEF i, b
<1>7. CASE p < Len(b)
  <2>1. rest # <<>> /\ Head(rest) = b[p + 1] /\ p + 1 \in DOMAIN b
    <3>1. Len(rest) = Len(b) - p /\ rest[1] = b[p + 1]
      BY <1>2, <1>5, <1>7
    <3>2. rest \in Seq(Keys)
      BY <1>2, <1>5, <1>7
    <3> HIDE DEF rest
    <3>3. Len(rest) > 0
      BY <1>2, <1>5, <1>7, <3>1
    <3> QED BY <1>2, <1>5, <1>7, <3>1, <3>2, <3>3
  <2>2. \A l \in 0..size-1 : \A r \in DOMAIN bucket[l] : r \in Nat
    BY Places
  <2>3. Follows(i, p, i, p + 1)
    BY <1>1, <1>5, <2>2 DEF Follows, Before
  <2>4. ~Before(i, p + 1, i, p)
    BY <1>1, <1>5 DEF Before
  <2>5. NextPlace(i, p, rest)
    <3> HIDE DEF rest
    <3> QED BY <1>1, <2>1, <2>3, <2>4 DEF NextPlace, b
  <2> QED BY <1>3, <1>4, <2>1, <2>5 DEF i, b
<1>8. p = Len(b) \/ p < Len(b)
  <2> DEFINE m == Len(b)
  <2>1. m \in Nat /\ p \in 1..m
    BY <1>2, <1>5
  <2> HIDE DEF rest, m
  <2>2. p = m \/ p < m
    BY <2>1
  <2> QED BY <2>2 DEF m
<1> QED BY <1>6, <1>7, <1>8

LEMMA NextPresent ==
  ASSUME TableTyped, NEW i, NEW p, NEW n, NextPlace(i, p, n), n # <<>>
  PROVE  Head(n) \in Present
<1>1. PICK j \in 0..size-1 : \E q \in DOMAIN bucket[j] : Head(n) = bucket[j][q]
  BY DEF NextPlace
<1>2. /\ j \in 0..newSize-1 /\ DOMAIN bucket = 0..newSize-1
      /\ \A q \in DOMAIN bucket[j] : bucket[j][q] \in Keys
  BY Places
<1> QED BY <1>1, <1>2 DEF Present, In

LEMMA ScanStep ==
  ASSUME TableTyped, Once, newSize = size,
         NEW i, NEW p, NEW n, NextPlace(i, p, n)
  PROVE  /\ n = <<>> => Upto(i, p) = Present
         /\ n # <<>> =>
              /\ Head(n) \notin Upto(i, p)
              /\ \E j \in 0..size-1 : \E q \in DOMAIN bucket[j] :
                   Head(n) = bucket[j][q] /\ Upto(j, q) = Upto(i, p) \cup {Head(n)}
<1>1. /\ DOMAIN bucket = 0..size-1
      /\ \A l \in 0..size-1 : \A r \in DOMAIN bucket[l] : bucket[l][r] \in Keys
  BY Places
<1>2. ASSUME n = <<>>
      PROVE  Upto(i, p) = Present
  <2>1. \A l \in 0..size-1 : \A r \in DOMAIN bucket[l] : Before(l, r, i, p)
    BY <1>2 DEF NextPlace
  <2> QED BY <1>1, <2>1 DEF Upto, Present, In
<1>3. ASSUME n # <<>>
      PROVE  /\ Head(n) \notin Upto(i, p)
             /\ \E j \in 0..size-1 : \E q \in DOMAIN bucket[j] :
                  Head(n) = bucket[j][q] /\ Upto(j, q) = Upto(i, p) \cup {Head(n)}
  <2>1. PICK j \in 0..size-1 : \E q \in DOMAIN bucket[j] :
               /\ Head(n) = bucket[j][q] /\ Follows(i, p, j, q)
               /\ ~Before(j, q, i, p)
    BY <1>3 DEF NextPlace
  <2>2. PICK q \in DOMAIN bucket[j] :
               /\ Head(n) = bucket[j][q] /\ Follows(i, p, j, q)
               /\ ~Before(j, q, i, p)
    BY <2>1
  <2>3. \A l \in 0..size-1 : \A r \in DOMAIN bucket[l] :
          /\ Before(l, r, j, q) <=> Before(l, r, i, p) \/ (l = j /\ r = q)
          /\ bucket[l][r] = Head(n) => l = j /\ r = q
    BY <1>1, <2>2 DEF Follows, Once
  <2>4. Head(n) \notin Upto(i, p)
    BY <2>2, <2>3 DEF Upto
  <2>5. Upto(j, q) = Upto(i, p) \cup {Head(n)}
    <3>1. Head(n) \in Keys
      BY <1>1, <2>2
    <3> QED BY <2>2, <2>3, <3>1 DEF Upto
  <2> QED BY <2>2, <2>4, <2>5
<1> QED BY <1>2, <1>3

\* The place a scan begins at.
LEMMA FromStart ==
  ASSUME TableTyped
  PROVE  NextPlace(-1, 0, FromList(0)) /\ Upto(-1, 0) = {}
<1>1. NextPlace(-1, 0, FromList(-1 + 1))
  BY FromListNext
<1>2. Upto(-1, 0) = {}
  BY DEF Upto, Before
<1> QED BY <1>1, <1>2

LEMMA FirstMaps ==
  ASSUME HashInv, CountInv, First
  PROVE  Implements
<1> USE DEF First, call, table
<1> DEFINE n == FromList(0)
<1>1. /\ Map!Entries = Present /\ (~Torn => newSize = size)
      /\ size \in Nat /\ newSize \in Nat /\ size <= newSize
  BY Resting
<1>2. AsMap' = AsMap
  BY MapKept
<1>3. AsCount' = AsCount /\ Torn' = Torn
  BY DEF AsCount, Torn
<1>4. NextPlace(-1, 0, n) /\ Upto(-1, 0) = {}
  BY FromStart DEF HashInv
<1>5. sound' = ~Torn
  BY <1>1 DEF Torn
<1> HIDE DEF n
<1>6. CASE n = <<>>
  <2>1. result' = Nil /\ scan' = <<>>
    BY <1>6 DEF Give, n
  <2>2. Torn \/ AsMap = <<>>
    <3> SUFFICES ASSUME ~Torn PROVE AsMap = <<>>
      OBVIOUS
    <3>1. Present = {}
      BY <1>1, <1>4, <1>6, ScanStep DEF HashInv
    <3>2. DOMAIN AsMap = {}
      BY <1>1, <3>1 DEF Map!Entries
    <3>3. AsMap = [x \in DOMAIN AsMap |-> AsMap[x]]
      BY DEF AsMap
    <3> QED BY <3>2, <3>3, NoEntries
  <2>3. Map!First
    BY <1>2, <1>3, <1>5, <2>1, <2>2 DEF Map!First, Map!Nil, Nil
  <2> QED BY <2>3 DEF Implements, Map!Operation
<1>7. CASE n # <<>>
  <2>1. result' = <<"key", Head(n)>> /\ scan' = <<Head(n)>>
    BY <1>7 DEF Give, n
  <2>2. Head(n) \in Map!Entries
    BY <1>1, <1>4, <1>7, NextPresent DEF HashInv
  <2>3. Map!First
    BY <1>2, <1>3, <1>5, <2>1, <2>2 DEF Map!First, Map!Key
  <2> QED BY <2>3 DEF Implements, Map!Operation
<1> QED BY <1>6, <1>7

\* Where a scan is when h_next is called.
LEMMA AtLast ==
  ASSUME HashInv, ScanInv, scan # <<>>, In(Last(scan), Home(Last(scan)))
  PROVE  \E i \in Int, p \in Int :
           /\ NextPlace(i, p, NextAfter(Last(scan)))
           /\ sound => newSize = size /\ {scan[j] : j \in DOMAIN scan} = Upto(i, p)
<1> DEFINE k == Last(scan)
           h == Home(k)
<1>1. k \in Keys
  <2>1. scan \in Seq(Keys) /\ Len(scan) \in Nat /\ Len(scan) # 0
        /\ DOMAIN scan = 1..Len(scan)
    BY EmptySeq, LenProperties DEF ScanInv
  <2>2. Len(scan) \in DOMAIN scan
    BY <2>1
  <2>3. scan[Len(scan)] \in Keys
    BY <2>1, <2>2, ElementOfSeq
  <2> QED BY <2>3 DEF Last
<1>2. h \in 0..size-1 /\ h \in 0..newSize-1
  BY <1>1, Places DEF HashInv
<1>3. PICK p \in DOMAIN bucket[h] : bucket[h][p] = k /\ NextPlace(h, p, NextAfter(k))
  BY <1>1, NextAfterIs DEF HashInv
<1>4. DOMAIN bucket = 0..newSize-1 /\ p \in Int /\ h \in Int
  BY <1>2, Places DEF HashInv
<1> HIDE DEF k, h
<1>5. ASSUME sound
      PROVE  newSize = size /\ {scan[j] : j \in DOMAIN scan} = Upto(h, p)
  <2>1. newSize = size /\ \E i \in 0..size-1 : \E q \in DOMAIN bucket[i] : ScanAt(i, q)
    BY <1>5 DEF ScanInv
  <2>2. PICK i \in 0..size-1 : \E q \in DOMAIN bucket[i] : ScanAt(i, q)
    BY <2>1
  <2>3. PICK q \in DOMAIN bucket[i] : ScanAt(i, q)
    BY <2>2
  <2>4. bucket[i][q] = k
    BY <2>3 DEF ScanAt, k
  <2>5. i = h /\ q = p
    BY <1>2, <1>3, <1>4, <2>1, <2>4 DEF HashInv, Once
  <2> QED BY <2>1, <2>3, <2>5 DEF ScanAt
<1> QED BY <1>3, <1>4, <1>5 DEF k

LEMMA FollowingMaps ==
  ASSUME HashInv, CountInv, ScanInv, Following
  PROVE  Implements
<1> USE DEF Following, Reads, At, call
<1> DEFINE n == NextAfter(Last(scan))
<1>1. Map!Entries = Present
  BY Resting
<1>2. AsMap' = AsMap
  BY MapKept
<1>3. AsCount' = AsCount /\ Torn' = Torn /\ UNCHANGED sound
  BY DEF AsCount, Torn
<1>4. PICK i \in Int, p \in Int :
           /\ NextPlace(i, p, n)
           /\ sound => newSize = size /\ {scan[j] : j \in DOMAIN scan} = Upto(i, p)
  BY AtLast
<1>5. sound => newSize = size /\ Map!Seen = Upto(i, p)
  BY <1>4 DEF Map!Seen
<1> HIDE DEF n
<1>6. CASE n = <<>>
  <2>1. result' = Nil /\ scan' = <<>>
    BY <1>6 DEF Give, n
  <2>2. sound => Map!Seen = Map!Entries
    BY <1>1, <1>4, <1>5, <1>6, ScanStep DEF HashInv
  <2>3. Map!Following
    BY <1>2, <1>3, <2>1, <2>2 DEF Map!Following, Map!Nil, Nil
  <2> QED BY <2>3 DEF Implements, Map!Operation
<1>7. CASE n # <<>>
  <2>1. result' = <<"key", Head(n)>> /\ scan' = Append(scan, Head(n))
    BY <1>7 DEF Give, n
  <2>2. Head(n) \in Map!Entries
    BY <1>1, <1>4, <1>7, NextPresent DEF HashInv
  <2>3. sound => Head(n) \notin Map!Seen
    BY <1>4, <1>5, <1>7, ScanStep DEF HashInv
  <2>4. Map!Following
    BY <1>2, <1>3, <2>1, <2>2, <2>3 DEF Map!Following, Map!Key
  <2> QED BY <2>4 DEF Implements, Map!Operation
<1> QED BY <1>6, <1>7

-----------------------------------------------------------------------------
(* The rest of the invariant. *)

\* The call returns, or is abandoned; or there is none.
LEMMA ReturnOp == Return => OpInv'
BY DEF Return, NoOp, OpInv, Rehashing

LEMMA RestOp == OpInv /\ pc = "ready" /\ UNCHANGED <<pc, op>> => OpInv'
BY DEF OpInv, Rehashing

LEMMA StartOp ==
  /\ \A k \in Keys : Start("get", k, Junk) \/ Start("pop", k, Junk) => OpInv'
  /\ \A k \in Keys, v \in Values : Start("set", k, v) => OpInv'
  /\ Start("free", Junk, Junk) => OpInv'
BY DEF Start, OpInv, Rehashing, At

LEMMA RehashOp == HashInv /\ OpInv /\ (Enter \/ Rehash) => OpInv'
<1> SUFFICES ASSUME HashInv, OpInv, Enter \/ Rehash PROVE OpInv'
  OBVIOUS
<1>1. /\ UNCHANGED <<op, after, scan, result>>
      /\ pc \in {"enter", "walk", "link"}
      /\ pc' \in {"walk", "link", after}
      /\ after \in {"find", "store", "sweep", "create"}
  BY DEF Enter, Rehash, Keep, Unlink, Link, NextSlot, Rehashed, At, HashInv, TableTyped
<1> QED
  BY <1>1 DEF OpInv, Rehashing

LEMMA StoreOp == HashInv /\ OpInv /\ (Replace \/ Grow \/ Create) => OpInv'
<1> SUFFICES ASSUME HashInv, OpInv, Replace \/ Grow \/ Create PROVE OpInv'
  OBVIOUS
<1>1. /\ UNCHANGED <<op, scan, result>>
      /\ pc \in {"store", "create"}
      /\ op.name = "set" /\ op.val \in Values /\ scan = <<>>
  BY DEF Replace, Grow, Create, IsNew, At, Goto, OpInv
<1>2. CASE Replace
  <2>1. op.key \in Keys /\ Holds(bucket, op.key)
    <3>1. op.key \in Keys /\ op.key \in Present
      BY <1>2, Looking DEF Replace, At
    <3> QED BY <3>1, PresentIs
  <2>2. value'[op.key] = Junk
    BY <1>2, <2>1 DEF Replace, HashInv, TableTyped
  <2>3. Holds(bucket', op.key) /\ pc' = "replace"
    BY <1>2, <2>1 DEF Replace, Goto, Holds
  <2>4. Holds(bucket, op.key)'
    BY <1>1, <2>3 DEF Holds
  <2> QED BY <1>1, <2>2, <2>3, <2>4 DEF OpInv, Rehashing
<1>3. CASE Grow \/ Create
  <2>1. pc' \in {"enter", "count"} /\ (pc' = "enter" => after' = "create")
    BY <1>3 DEF Grow, Create, Goto
  <2> QED BY <1>1, <2>1 DEF OpInv, Rehashing
<1> QED BY <1>2, <1>3

LEMMA PopOp == HashInv /\ OpInv /\ PopFound => OpInv'
<1> SUFFICES ASSUME HashInv, OpInv, PopFound PROVE OpInv'
  OBVIOUS
<1>1. /\ UNCHANGED <<op, scan, result, size, newSize>> /\ pc = "pop" /\ pc' = "uncount"
      /\ hand' = {op.key} /\ scan = <<>> /\ op.key \in Keys
  BY DEF PopFound, At, OpInv, HashInv, CallTyped, WithKey
<1>2. PICK i \in 0..newSize-1 : i = Home(op.key)
  BY <1>1, Places DEF HashInv
<1>3. PICK p \in DOMAIN bucket[i] :
         bucket[i][p] = op.key /\ bucket' = Dropped(bucket, i, p)
  BY <1>2 DEF Dropped, PopFound
<1>4. ~Holds(bucket', op.key)
  BY <1>1, <1>3, DroppedHolds DEF HashInv
<1>5. ~Holds(bucket, op.key)'
  BY <1>1, <1>4 DEF Holds
<1> QED BY <1>1, <1>5 DEF OpInv, Rehashing

LEMMA OpStep == HashInv /\ OpInv /\ [Next]_vars => OpInv'
<1> SUFFICES ASSUME HashInv, OpInv, [Next]_vars PROVE OpInv'
  OBVIOUS
<1>1. CASE Calls
  <2>1. CASE ListKeys \/ Stat \/ First \/ Following
    BY <2>1, RestOp DEF ListKeys, Stat, First, Following, Reads, At, call
  <2>2. CASE Overrun
    BY <2>2 DEF Overrun, Goto, OpInv, Rehashing
  <2> QED BY <1>1, <2>1, <2>2, StartOp DEF Calls
<1>2. CASE Step
  <2>1. CASE Find \/ Replaced \/ Count \/ NoMemory \/ PopMissed \/ Uncount \/ Sweep
    BY <2>1, ReturnOp DEF Find, Replaced, Count, NoMemory, PopMissed, Uncount, Sweep
  <2> QED BY <1>2, <2>1, RehashOp, StoreOp, PopOp DEF Step, Insert
<1>3. CASE Sigint \/ UNCHANGED vars
  <2>1. UNCHANGED <<bucket, value, pc, op, after, hand, scan>> /\ result' = result
    BY <1>3 DEF Sigint, vars, table, call
  <2> QED BY <2>1 DEF OpInv, Rehashing, Holds
<1>4. CASE Abort
  BY <1>4, ReturnOp DEF Abort
<1> QED BY <1>1, <1>2, <1>3, <1>4 DEF Next

\* A scan stays where it is as long as the lists do.
LEMMA ScanKept ==
  ASSUME ScanInv, UNCHANGED <<bucket, size, newSize, scan, sound>>
  PROVE  ScanInv'
<1>1. \A i, p : Upto(i, p)' = Upto(i, p)
  BY DEF Upto, Before
<1>2. \A i, p : ScanAt(i, p)' <=> ScanAt(i, p)
  BY <1>1 DEF ScanAt
<1> QED BY <1>2 DEF ScanInv

\* There is none once it has ended or the table is to change, and one that is
\* not sound may be anywhere.
LEMMA NoScan ==
  ASSUME scan' \in Seq(Keys), sound' \in BOOLEAN, scan' = <<>> \/ ~sound'
  PROVE  ScanInv'
BY DEF ScanInv

LEMMA FirstScan == HashInv /\ First => ScanInv'
<1> SUFFICES ASSUME HashInv, First PROVE ScanInv'
  OBVIOUS
<1> USE DEF First, table
<1> DEFINE n == FromList(0)
<1>1. TableTyped /\ Once /\ NextPlace(-1, 0, n) /\ Upto(-1, 0) = {}
  BY FromStart DEF HashInv
<1>2. sound' = (size = newSize) /\ UNCHANGED <<bucket, size, newSize>>
  OBVIOUS
<1>3. CASE n = <<>>
  BY <1>2, <1>3, NoScan DEF Give
<1>4. CASE n # <<>>
  <2>1. scan' = <<Head(n)>>
    BY <1>4
  <2> HIDE DEF n, First
  <2>2. Head(n) \in Keys
    BY <1>1, <1>4, NextPresent, PresentIs
  <2>3. scan' \in Seq(Keys) /\ Last(scan') = Head(n)
        /\ {scan'[j] : j \in DOMAIN scan'} = {Head(n)}
    BY <2>1, <2>2 DEF Last
  <2>4. CASE newSize # size
    BY <1>2, <2>3, <2>4, NoScan
  <2>5. CASE newSize = size
    <3>1. PICK i \in 0..size-1 : \E p \in DOMAIN bucket[i] :
                 Head(n) = bucket[i][p] /\ Upto(i, p) = {} \cup {Head(n)}
      BY <1>1, <1>4, <2>5, ScanStep
    <3>2. PICK p \in DOMAIN bucket[i] :
                 Head(n) = bucket[i][p] /\ Upto(i, p) = {} \cup {Head(n)}
      BY <3>1
    <3>3. Upto(i, p)' = Upto(i, p)
      BY <1>2 DEF Upto, Before
    <3>4. ScanAt(i, p)'
      BY <1>2, <2>3, <3>2, <3>3 DEF ScanAt
    <3> QED BY <1>2, <2>3, <2>5, <3>4 DEF ScanInv
  <2> QED BY <2>4, <2>5
<1> QED BY <1>3, <1>4

LEMMA FollowingScan == HashInv /\ ScanInv /\ Following => ScanInv'
<1> SUFFICES ASSUME HashInv, ScanInv, Following PROVE ScanInv'
  OBVIOUS
<1> USE DEF Following, Reads, At
<1> DEFINE n == NextAfter(Last(scan))
<1>1. PICK i \in Int, p \in Int :
           /\ NextPlace(i, p, n)
           /\ sound => newSize = size /\ {scan[j] : j \in DOMAIN scan} = Upto(i, p)
  BY AtLast
<1>2. TableTyped /\ Once /\ scan \in Seq(Keys) /\ sound \in BOOLEAN
      /\ UNCHANGED <<bucket, size, newSize, sound>>
  BY DEF HashInv, ScanInv
<1>3. CASE n = <<>>
  BY <1>2, <1>3, NoScan DEF Give
<1>4. CASE n # <<>>
  <2>1. scan' = Append(scan, Head(n))
    BY <1>4
  <2> HIDE DEF n, Following
  <2>2. Head(n) \in Keys
    BY <1>1, <1>2, <1>4, NextPresent, PresentIs
  <2>3. scan' \in Seq(Keys) /\ scan' # <<>> /\ Last(scan') = Head(n)
        /\ {scan'[j] : j \in DOMAIN scan'} = {scan[j] : j \in DOMAIN scan} \cup {Head(n)}
    <3> DEFINE m == Len(scan)
    <3>1. m \in Nat /\ DOMAIN scan = 1..m
      BY <1>2, LenProperties
    <3>2. /\ scan' \in Seq(Keys) /\ Len(scan') = m + 1 /\ DOMAIN scan' = 1..(m + 1)
          /\ \A j \in 1..m : scan'[j] = scan[j]
          /\ scan'[m + 1] = Head(n)
      BY <1>2, <2>1, <2>2, AppendProperties, LenProperties
    <3> HIDE DEF m
    <3>3. Last(scan') = Head(n)
      BY <3>2 DEF Last
    <3>4. {scan'[j] : j \in 1..(m + 1)} = {scan[j] : j \in 1..m} \cup {Head(n)}
      <4>1. \A j \in 1..(m + 1) : j \in 1..m \/ j = m + 1
        BY <3>1
      <4>2. 1..m \subseteq 1..(m + 1) /\ m + 1 \in 1..(m + 1)
        BY <3>1
      <4> QED BY <3>2, <4>1, <4>2
    <3>5. scan' # <<>>
      BY <3>1, <3>2
    <3> QED BY <3>1, <3>2, <3>3, <3>4, <3>5
  <2>4. CASE ~sound
    BY <1>2, <2>3, <2>4, NoScan
  <2>5. CASE sound
    <3>1. PICK j \in 0..size-1 : \E q \in DOMAIN bucket[j] :
                 Head(n) = bucket[j][q] /\ Upto(j, q) = Upto(i, p) \cup {Head(n)}
      BY <1>1, <1>2, <1>4, <2>5, ScanStep
    <3>2. PICK q \in DOMAIN bucket[j] :
                 Head(n) = bucket[j][q] /\ Upto(j, q) = Upto(i, p) \cup {Head(n)}
      BY <3>1
    <3>3. Upto(j, q)' = Upto(j, q)
      BY <1>2 DEF Upto, Before
    <3>4. ScanAt(j, q)'
      BY <1>1, <1>2, <2>3, <2>5, <3>2, <3>3 DEF ScanAt
    <3> QED BY <1>1, <1>2, <2>3, <2>5, <3>4 DEF ScanInv
  <2> QED BY <2>4, <2>5
<1> QED BY <1>3, <1>4

LEMMA ScanInvStep == HashInv /\ OpInv /\ ScanInv /\ [Next]_vars => ScanInv'
<1> SUFFICES ASSUME HashInv, OpInv, ScanInv, [Next]_vars PROVE ScanInv'
  OBVIOUS
<1>1. scan \in Seq(Keys) /\ sound \in BOOLEAN /\ <<>> \in Seq(Keys)
  BY DEF ScanInv
<1>2. CASE Calls
  <2>1. ASSUME NEW name, NEW k, NEW v, Start(name, k, v)
        PROVE  ScanInv'
    <3>1. CASE name = "get"
      BY <2>1, <3>1, ScanKept DEF Start, At, table
    <3>2. CASE name # "get"
      BY <1>1, <2>1, <3>2, NoScan DEF Start, At
    <3> QED BY <3>1, <3>2
  <2>2. CASE ListKeys \/ Stat
    BY <2>2, ScanKept DEF ListKeys, Stat, Reads, At
  <2>3. CASE Overrun
    BY <2>3, ScanKept DEF Overrun, At, table
  <2> QED BY <1>2, <2>1, <2>2, <2>3, FirstScan, FollowingScan DEF Calls
<1>3. CASE Step
  <2>1. CASE \/ Enter \/ Keep \/ NextSlot \/ Find \/ Replace \/ Replaced \/ Count
             \/ NoMemory \/ Uncount \/ PopMissed
    <3>1. CASE Enter \/ Keep \/ NextSlot \/ Find \/ Replace
      BY <3>1, ScanKept DEF Enter, Keep, NextSlot, Find, Replace, At, table
    <3>2. CASE Replaced \/ Count \/ NoMemory \/ Uncount \/ PopMissed
      BY <3>2, ScanKept DEF Replaced, Count, NoMemory, IsNew, Uncount, PopMissed, At, table
    <3> QED BY <2>1, <3>1, <3>2
  <2>2. CASE Unlink \/ Link \/ Rehashed
    <3>1. newSize # size
      BY <2>2 DEF Unlink, Link, Rehashed, At, HashInv, Sized, TableTyped
    <3>2. UNCHANGED <<scan, sound>> /\ (scan = <<>> \/ ~sound)
      BY <2>2, <3>1 DEF Unlink, Link, Rehashed, At, ScanInv
    <3> QED BY <1>1, <3>2, NoScan
  <2>3. CASE Grow \/ Create \/ PopFound \/ Sweep
    <3>1. UNCHANGED <<scan, sound>> /\ scan = <<>>
      BY <2>3 DEF Grow, Create, IsNew, PopFound, Sweep, At, OpInv
    <3> QED BY <1>1, <3>1, NoScan
  <2> QED BY <1>3, <2>1, <2>2, <2>3 DEF Step, Rehash, Insert
<1>4. CASE Sigint \/ UNCHANGED vars
  BY <1>4, ScanKept DEF Sigint, vars, table
<1>5. CASE Abort
  BY <1>1, <1>5, NoScan DEF Abort
<1> QED BY <1>2, <1>3, <1>4, <1>5 DEF Next

LEMMA CountStep == HashInv /\ CountInv /\ [Next]_vars => CountInv'
<1> SUFFICES ASSUME HashInv, CountInv, [Next]_vars PROVE CountInv'
  OBVIOUS
<1> USE DEF CountInv
<1>1. 0 \in 0..Word-1 /\ (number + 1) % Word \in 0..Word-1
      /\ (number - 1) % Word \in 0..Word-1
  BY HashAssumption
<1>2. CASE Calls
  <2>1. CASE Stat
    BY <2>1, FoundIs DEF Stat, HashInv
  <2>2. CASE ~Stat
    <3>1. UNCHANGED number
      BY <1>2, <2>2 DEF Calls, Start, ListKeys, Overrun, First, Following, table
    <3> QED BY <3>1
  <2> QED BY <2>1, <2>2
<1>3. CASE Step
  <2>1. CASE Count \/ Uncount \/ Sweep
    BY <1>1, <2>1 DEF Count, Uncount, Sweep, Discard
  <2>2. CASE ~(Count \/ Uncount \/ Sweep)
    <3>1. UNCHANGED number
      BY <1>3, <2>2 DEF Step, Rehash, Insert, Enter, Keep, Unlink, Link, NextSlot, Rehashed,
                   Find, Replace, Replaced, Grow, Create, NoMemory, PopFound,
                   PopMissed, table
    <3> QED BY <3>1
  <2> QED BY <2>1, <2>2
<1>4. CASE Sigint \/ UNCHANGED vars
  BY <1>4 DEF Sigint, vars, table
<1>5. CASE Abort
  BY <1>1, <1>5 DEF Abort, Discard, table
<1> QED BY <1>2, <1>3, <1>4, <1>5 DEF Next

\* What is true in every state of the table.
FullInv == HashInv /\ OpInv /\ ScanInv /\ CountInv

LEMMA FullInit == Init => FullInv
<1> SUFFICES ASSUME Init PROVE FullInv
  OBVIOUS
<1>1. OpInv
  BY DEF Init, OpInv, Rehashing, NoOp
<1>2. ScanInv
  BY DEF Init, ScanInv
<1>3. CountInv
  BY HashAssumption DEF Init, CountInv
<1> QED BY <1>1, <1>2, <1>3, HashInit DEF FullInv

LEMMA FullStep == FullInv /\ [Next]_vars => FullInv'
BY HashStep, OpStep, ScanInvStep, CountStep DEF FullInv

LEMMA FullInvariant == Spec => []FullInv
<1>1. Init => FullInv
  BY FullInit
<1>2. FullInv /\ [Next]_vars => FullInv'
  BY FullStep
<1> QED
  BY <1>1, <1>2, PTL DEF Spec

LEMMA MapInit == Init => Map!Init
<1> SUFFICES ASSUME Init PROVE Map!Init
  OBVIOUS
<1>1. MinSize \in Nat /\ \A i \in DOMAIN bucket : DOMAIN bucket[i] = {}
  BY HashAssumption DEF Init, Empty
<1>2. Present = {} /\ hand = {}
  BY <1>1 DEF Init, Present, In
<1>3. AsMap = <<>>
  <2>1. AsMap = [x \in DOMAIN AsMap |-> AsMap[x]] /\ DOMAIN AsMap = {}
    BY <1>2 DEF AsMap
  <2> QED BY <2>1, NoEntries
<1>4. AsCount = 0
  <2>1. 0 % Word = 0
    BY HashAssumption
  <2>2. AsCount = (0 + 0) % Word
    BY DEF AsCount, Init
  <2> QED BY <2>1, <2>2
<1>5. Torn = FALSE
  BY HashAssumption DEF Torn, Init
<1> QED BY <1>3, <1>4, <1>5 DEF Map!Init, Init, Nil, Map!Nil

LEMMA OperationStep ==
  ASSUME FullInv, [Next]_vars, ~Overrun
  PROVE  Implements
<1> USE DEF FullInv
<1>1. CASE Calls
  BY <1>1, StartMaps, ListKeysMaps, StatMaps, FirstMaps, FollowingMaps DEF Calls
<1>2. CASE Step
  BY <1>2, OnwardMaps, MoveMaps, FindMaps, ReplaceMaps, ReplacedMaps, GrowMaps,
     CreateMaps, CountMaps, NoMemoryMaps, PopMaps, SweepMaps
     DEF Step, Rehash, Insert
<1>3. CASE UNCHANGED vars
  <2>1. AsMap' = AsMap
    BY <1>3, MapKept DEF vars, table, call
  <2> QED BY <1>3, <2>1, Stutters DEF vars, table, call, AsCount, Torn
<1>4. CASE Sigint \/ Abort
  BY <1>4, SigintMaps, AbortMaps
<1> QED BY <1>1, <1>2, <1>3, <1>4 DEF Next

\* Arrays are overrun by the calls that Overrun is about and by no other step.
LEMMA OnlyOverrun ==
  ASSUME HashInv, Next, ~Overrun
  PROVE  pc # "overrun" /\ pc' # "overrun"
<1>1. pc # "overrun" /\ after # "overrun"
  BY DEF Next, HashInv, TableTyped
<1>2. ASSUME Calls PROVE pc' # "overrun"
  BY <1>1, <1>2 DEF Calls, Start, ListKeys, Stat, First, Following, Reads, At, call
<1>3. ASSUME Step PROVE pc' # "overrun"
  <2>1. ASSUME Enter \/ Rehash PROVE pc' # "overrun"
    BY <1>1, <2>1 DEF Enter, Rehash, Keep, Unlink, Link, NextSlot, Rehashed
  <2>2. ASSUME Insert PROVE pc' # "overrun"
    BY <2>2 DEF Insert, Replace, Replaced, Grow, Create, Count, NoMemory, Return, Goto
  <2> QED BY <1>3, <2>1, <2>2
          DEF Step, Find, PopFound, PopMissed, Uncount, Sweep, Return
<1>4. ASSUME Sigint \/ Abort PROVE pc' # "overrun"
  BY <1>1, <1>4 DEF Sigint, Abort, Return, call
<1> QED BY <1>1, <1>2, <1>3, <1>4 DEF Next

\* The array is too small just where HashMap says so.
LEMMA OverrunMaps ==
  ASSUME HashInv, CountInv, Overrun
  PROVE  Map!Overrun
<1> USE DEF Overrun, Goto, At, table
<1>1. AsMap' = AsMap
  BY MapKept
<1>2. AsCount = number /\ AsCount' = AsCount
  BY Small DEF AsCount, CountInv
<1>3. Torn' = Torn
  BY DEF Torn
<1>4. ~(Map!KeysFit /\ Map!StatFits)
  BY <1>2 DEF Map!KeysFit, Map!StatFits, Map!AsLong, KeysFit, StatFits, AsLong
<1> QED BY <1>1, <1>2, <1>3, <1>4 DEF Map!Overrun, Map!data

LEMMA MapStep == FullInv /\ [Next]_vars => [Map!Next]_(Map!vars)
<1> SUFFICES ASSUME FullInv, [Next]_vars PROVE [Map!Next]_(Map!vars)
  OBVIOUS
<1>1. CASE Next /\ Overrun
  BY <1>1, OverrunMaps DEF FullInv, Next, Overrun, At, Map!Next
<1>2. CASE ~Overrun
  <2>1. Implements
    BY <1>2, OperationStep
  <2>2. (pc = "overrun")' = (pc = "overrun") /\ (Next => pc # "overrun")
    BY <1>2, OnlyOverrun DEF FullInv, vars, call, Next
  <2>3. CASE Next
    BY <2>1, <2>2, <2>3 DEF Implements, Map!Next, Map!vars
  <2>4. CASE UNCHANGED vars
    <3>1. AsMap' = AsMap
      BY <2>4, MapKept DEF vars, table, call
    <3> QED BY <2>4, <3>1 DEF vars, table, call, AsCount, Torn, Map!vars, Map!data
  <2> QED BY <2>3, <2>4
<1>3. CASE UNCHANGED vars /\ Overrun
  BY <1>3 DEF vars, call, Overrun, Goto, At
<1> QED BY <1>1, <1>2, <1>3

\* The table is well typed, whatever is interrupted, its count included: a
\* count that an interrupt has left wrong is still one a size_t holds, and
\* h_stat finds no more entries than a size_t can count (h_insert, Y_h_pop,
\* Y_h_stat).
THEOREM HashTypeCorrect == Spec => []TypeOK
<1>1. FullInv => TypeOK
  BY DEF FullInv, HashInv, CountInv, TypeOK
<1> QED
  BY <1>1, FullInvariant, PTL

\* A table is the finite map of HashMap: a lookup finds every entry, a call that
\* is cut short costs one entry, one value or one count, and a scan of a table
\* that was not torn when it began gives every entry once (h_find, h_insert,
\* rehash, Y_h_pop, Y_h_first, Y_h_next, Y_h_keys, Y_h_stat).  Arrays are overrun
\* only by Y_h_keys and Y_h_stat, and only when such costs have brought the count
\* below zero; nothing is claimed from there on.
THEOREM MapCorrect == Spec => MapSpec
<1>1. Init => Map!Init
  BY MapInit
<1>2. FullInv /\ [Next]_vars => [Map!Next]_(Map!vars)
  BY MapStep
<1> QED
  BY <1>1, <1>2, FullInvariant, PTL DEF Spec, MapSpec, Map!Spec
=============================================================================
