--------------------------- MODULE YorAfterProofs ---------------------------
(***************************************************************************)
(* For any functions, arguments, delays and sizes: the indices of the      *)
(* queue of after functions stay within its array; what an error has       *)
(* cleared does not run, as long as no request to cancel has freed an      *)
(* active slot since the error; and as long as nothing was cancelled, the  *)
(* lists have every slot once and the calls run in their order.            *)
(*                                                                         *)
(* An error frees every slot, those on the free list too, and so may make  *)
(* a cycle of that list, in which a slot is taken while it is in use.      *)
(* What saves the cleared calls is that the array is used from its start   *)
(* after an error: their slots are a rest of the array that neither the    *)
(* active list nor a freed slot leads into, except at its first slot, and  *)
(* the cycle can only close once that rest has been used up (Apart).       *)
(*                                                                         *)
(* While nothing was cancelled, the slots in use stand in a line in which  *)
(* the calls are to run: the active ones, then those that wait, in the     *)
(* order of their alarms.  The others are linked from the free head        *)
(* (LineInv).                                                              *)
(***************************************************************************)
EXTENDS YorAfter, ListFacts, FiniteSetTheorems, WellFoundedInduction

SlotType == [f : Funcs \cup {None}, d : Args \cup {NoArg, Dropped}, next : Int, call : Nat]
Alarm == [time : Nat, slot : Nat]
Links == {End, Waiting}

ListOK ==
  /\ n \in 0..MaxSlots
  /\ list \in [0..(n - 1) -> SlotType]
  /\ \A i \in 0..(n - 1) :
       list[i].next \in 0..(n - 1) \cup Links /\ list[i].call \in 0..Len(due)

HeadsOK ==
  /\ ai \in 0..(n - 1) \cup Links /\ aj \in 0..(n - 1) \cup Links
  /\ ak \in 0..(n - 1) \cup {End}

AlarmsOK ==
  /\ alarms \in Seq(Alarm)
  /\ \A x \in 1..Len(alarms) : alarms[x].slot \in 0..(n - 1)

WalkOK ==
  /\ walk \in [i : Int, j : Int, f : Funcs \cup {None}, d : Args \cup {NoArg}]
  /\ walk.i \in 0..(n - 1) \cup Links /\ walk.j \in 0..(n - 1) \cup {End}

\* Every task and every alarm comes from a call of its own.
CountsOK ==
  /\ now \in 0..MaxTime /\ tasks \in 0..MaxCalls /\ undone \in 0..MaxUndo
  /\ due \in Seq(Nat) /\ Len(due) <= MaxCalls
  /\ tasks + Len(alarms) <= Len(due)
  /\ busy \in {"idle", "running", "cancelling"}

CallsOK == gone \subseteq 1..Len(due) /\ cleared \subseteq gone

TypeInv == ListOK /\ HeadsOK /\ AlarmsOK /\ WalkOK /\ CountsOK /\ CallsOK

-----------------------------------------------------------------------------
(* The array. *)

LEMMA SizeIs ==
  ASSUME NEW N \in Nat, NEW S, NEW l \in [0..(N - 1) -> S]
  PROVE  DOMAIN l = 0..(N - 1) /\ Cardinality(DOMAIN l) = N
<1>1. Cardinality(0..(N - 1)) = IF 0 > N - 1 THEN 0 ELSE N - 1 - 0 + 1
  BY FS_Interval
<1> QED
  BY <1>1

LEMMA SlotsAre ==
  ASSUME ListOK
  PROVE  Slots = 0..(n - 1) /\ n \in Nat
BY AfterConstants DEF ListOK, Slots

LEMMA CallsAre ==
  ASSUME due \in Seq(Nat)
  PROVE  Calls = 1..Len(due) /\ Len(due) \in Nat
BY LenProperties DEF Calls

LEMMA KeptAre ==
  ASSUME due \in Seq(Nat)
  PROVE  Kept \subseteq 1..Len(due)
BY CallsAre DEF Kept

LEMMA FreedType ==
  ASSUME NEW slot \in SlotType, NEW next \in Int
  PROVE  /\ Freed(slot, next) \in SlotType
         /\ Freed(slot, next).next = next
         /\ Freed(slot, next).call \in {slot.call, 0}
<1>1. CASE slot.f \in ByName
  <2> DEFINE d == IF slot.d \in ByRef \cup {NoArg} THEN slot.d ELSE Dropped
  <2>1. Freed(slot, next) = [slot EXCEPT !.next = next, !.d = d]
    BY <1>1 DEF Freed
  <2>2. d \in Args \cup {NoArg, Dropped}
    BY DEF SlotType
  <2> HIDE DEF d
  <2> QED
    BY <2>1, <2>2 DEF SlotType
<1>2. CASE slot.f \notin ByName
  BY <1>2 DEF Freed, SlotType, NoCall
<1> QED
  BY <1>1, <1>2

\* The type invariant of the module is part of TypeInv.
LEMMA TypeInvImpliesTypeOK == TypeInv => TypeOK
<1> SUFFICES ASSUME TypeInv PROVE TypeOK
  OBVIOUS
<1> USE DEF TypeInv
<1>1. Slots = 0..(n - 1) /\ n \in 0..MaxSlots
  BY SlotsAre DEF ListOK
<1>2. Calls = 1..Len(due) /\ Len(due) \in Nat
  BY CallsAre DEF CountsOK
<1>3. \E k \in 0..MaxSlots : Slots = 0..(k - 1)
  BY <1>1
<1>4. \A i \in Slots :
        /\ list[i].f \in Funcs \cup {None}
        /\ list[i].d \in Args \cup {NoArg, Dropped}
        /\ list[i].next \in Slots \cup {End, Waiting}
        /\ list[i].call \in Calls \cup {NoCall}
  <2> SUFFICES ASSUME NEW i \in 0..(n - 1)
               PROVE  /\ list[i].f \in Funcs \cup {None}
                      /\ list[i].d \in Args \cup {NoArg, Dropped}
                      /\ list[i].next \in Slots \cup {End, Waiting}
                      /\ list[i].call \in Calls \cup {NoCall}
    BY <1>1
  <2>1. list[i] \in SlotType
    BY DEF ListOK
  <2>2. list[i].call \in Calls \cup {NoCall}
    BY <1>2 DEF ListOK, NoCall
  <2> QED
    BY <2>1, <2>2, <1>1 DEF ListOK, SlotType, Links
<1>5. \A x \in DOMAIN alarms : alarms[x].time \in Nat /\ alarms[x].slot \in Slots
  <2>1. DOMAIN alarms = 1..Len(alarms) /\ \A x \in 1..Len(alarms) : alarms[x] \in Alarm
    BY LenProperties, ElementOfSeq DEF AlarmsOK
  <2> QED
    BY <2>1, <1>1 DEF AlarmsOK, Alarm
<1>6. ai \in Slots \cup {End, Waiting} /\ ak \in Slots \cup {End} /\ aj \in Slots \cup {End, Waiting}
  BY <1>1 DEF HeadsOK, Links
<1>7. gone \subseteq Calls /\ cleared \subseteq gone
  BY <1>2 DEF CallsOK
<1> QED
  BY <1>3, <1>4, <1>5, <1>6, <1>7 DEF TypeOK, CountsOK
-----------------------------------------------------------------------------
(* What the operations on the array return. *)

\* Max of FiniteSetsExt, for a set of indices.
LEMMA MaxIs ==
  ASSUME NEW N \in Nat, NEW S \in SUBSET (0..(N - 1)), S # {}
  PROVE  Max(S) \in S /\ \A y \in S : Max(S) >= y
<1> DEFINE R == OpToRel(<, Nat)
           T == {N - x : x \in S}
<1>0. \A x \in S : x \in Int /\ N - x \in Nat
  OBVIOUS
<1>1. T \subseteq Nat /\ T # {}
  BY <1>0, Zenon
<1>2. \E x \in T : \A y \in T : ~ (<<y, x>> \in R)
  BY <1>1, WFMin, NatLessThanWellFounded
<1>3. \A x, y \in Nat : y < x => <<y, x>> \in R
  BY DEF OpToRel
<1> HIDE DEF R
<1>4. PICK x \in S : \A y \in S : ~ (<<N - y, N - x>> \in R)
  BY <1>2
<1>5. \A y \in S : x >= y
  <2> SUFFICES ASSUME NEW y \in S, ~ (x >= y) PROVE FALSE
    OBVIOUS
  <2>1. N - y < N - x
    BY <1>0
  <2>2. <<N - y, N - x>> \in R
    BY <1>0, <1>3, <2>1
  <2> QED
    BY <1>4, <2>2
<1> QED
  BY <1>5 DEF Max

\* A step that changes the array to one of the same size.
LEMMA SameSize ==
  ASSUME TypeInv, NEW S, list' \in [0..(n - 1) -> S]
  PROVE  n' = n
<1>1. n \in Nat
  BY SlotsAre DEF TypeInv
<1> QED
  BY <1>1, SizeIs DEF n, Slots

LEMMA AllFreedArray ==
  ASSUME TypeInv, AllFreed
  PROVE  /\ n' = n /\ list' \in [0..(n - 1) -> SlotType]
         /\ \A i \in 0..(n - 1) :
              /\ list'[i].next = IF i = n - 1 THEN aj ELSE i + 1
              /\ list'[i].call \in {list[i].call, 0}
         /\ aj' = IF n = 0 THEN aj ELSE 0
         /\ ai' = End /\ ak' = End
<1>1. Slots = 0..(n - 1) /\ n \in Nat /\ aj \in Int
  BY SlotsAre DEF TypeInv, HeadsOK, Links, End, Waiting
<1>2. list' = [i \in 0..(n - 1) |-> Freed(list[i], IF i = n - 1 THEN aj ELSE i + 1)]
  BY <1>1 DEF AllFreed
<1>3. ASSUME NEW i \in 0..(n - 1)
      PROVE  /\ list'[i] \in SlotType
             /\ list'[i].next = IF i = n - 1 THEN aj ELSE i + 1
             /\ list'[i].call \in {list[i].call, 0}
  <2>1. list[i] \in SlotType
    BY DEF TypeInv, ListOK
  <2> DEFINE next == IF i = n - 1 THEN aj ELSE i + 1
  <2>2. next \in Int
    BY <1>1
  <2>3. list'[i] = Freed(list[i], next)
    BY <1>2
  <2> HIDE DEF next
  <2>4. list'[i] \in SlotType /\ list'[i].next = next /\ list'[i].call \in {list[i].call, 0}
    BY <2>1, <2>2, <2>3, FreedType
  <2> QED
    BY <2>4 DEF next
<1>4. list' \in [0..(n - 1) -> SlotType]
  BY <1>2, <1>3
<1>5. n' = n
  BY <1>4, SameSize
<1> QED
  BY <1>3, <1>4, <1>5 DEF AllFreed

LEMMA OneFreedArray ==
  ASSUME TypeInv, NEW i \in 0..(n - 1), list' = [list EXCEPT ![i] = Freed(@, aj)]
  PROVE  /\ n' = n /\ list' \in [0..(n - 1) -> SlotType]
         /\ list'[i].next = aj /\ list'[i].call \in {list[i].call, 0}
         /\ \A k \in 0..(n - 1) : k # i => list'[k] = list[k]
<1>1. aj \in Int /\ list \in [0..(n - 1) -> SlotType]
  BY DEF TypeInv, HeadsOK, ListOK, Links, End, Waiting
<1>2. /\ Freed(list[i], aj) \in SlotType /\ Freed(list[i], aj).next = aj
      /\ Freed(list[i], aj).call \in {list[i].call, 0}
  BY <1>1, FreedType
<1>3. /\ list' \in [0..(n - 1) -> SlotType]
      /\ list'[i] = Freed(list[i], aj)
      /\ \A k \in 0..(n - 1) : k # i => list'[k] = list[k]
  BY <1>1, <1>2
<1> QED
  BY <1>2, <1>3, SameSize

\* The slot before w among those that are freed with it, or else the former head.
Below(W, w) == IF {v \in W : v < w} = {} THEN aj ELSE Max({v \in W : v < w})

LEMMA WaitingFreedArray ==
  ASSUME TypeInv, NEW W \in SUBSET (0..(n - 1)), WaitingFreed(W)
  PROVE  /\ n' = n /\ list' \in [0..(n - 1) -> SlotType]
         /\ \A w \in W : list'[w].next = Below(W, w) /\ list'[w].call \in {list[w].call, 0}
         /\ \A w \in W : Below(W, w) = aj \/ (Below(W, w) \in W /\ Below(W, w) < w)
         /\ \A k \in 0..(n - 1) : k \notin W => list'[k] = list[k]
         /\ W = {} => aj' = aj
         /\ W # {} => aj' \in W /\ \A w \in W : aj' >= w
<1>1. /\ Slots = 0..(n - 1) /\ n \in Nat /\ aj \in Int
      /\ list \in [0..(n - 1) -> SlotType]
  BY SlotsAre DEF TypeInv, HeadsOK, ListOK, Links, End, Waiting
<1>2. list' = [i \in 0..(n - 1) |-> IF i \notin W THEN list[i] ELSE Freed(list[i], Below(W, i))]
  BY <1>1 DEF WaitingFreed, Below
<1>3. ASSUME NEW w \in W
      PROVE  Below(W, w) = aj \/ (Below(W, w) \in W /\ Below(W, w) < w)
  <2> DEFINE B == {v \in W : v < w}
  <2>1. CASE B = {}
    BY <2>1 DEF Below
  <2>2. CASE B # {}
    <3>1. B \in SUBSET (0..(n - 1))
      OBVIOUS
    <3>2. Max(B) \in B
      BY <3>1, <2>2, <1>1, MaxIs
    <3> QED
      BY <3>2, <2>2 DEF Below
  <2> QED
    BY <2>1, <2>2
<1>4. ASSUME NEW w \in W
      PROVE  /\ list'[w] \in SlotType /\ list'[w].next = Below(W, w)
             /\ list'[w].call \in {list[w].call, 0}
  <2> DEFINE b == Below(W, w)
  <2>0. b = aj \/ b \in W
    BY <1>3, Zenon
  <2>1. b \in Int
    <3> HIDE DEF b
    <3>1. W \subseteq Int
      BY <1>1
    <3> QED
      BY <1>1, <2>0, <3>1, Zenon
  <2>2. list[w] \in SlotType
    BY <1>1
  <2>3. list'[w] = Freed(list[w], b)
    BY <1>2
  <2> HIDE DEF b
  <2>4. list'[w] \in SlotType /\ list'[w].next = b /\ list'[w].call \in {list[w].call, 0}
    BY <2>1, <2>2, <2>3, FreedType
  <2> QED
    BY <2>4 DEF b
<1>5. \A k \in 0..(n - 1) : k \notin W => list'[k] = list[k] /\ list'[k] \in SlotType
  BY <1>1, <1>2
<1>6. list' \in [0..(n - 1) -> SlotType]
  BY <1>2, <1>4, <1>5
<1>7. n' = n
  BY <1>6, SameSize
<1>8. W # {} => Max(W) \in W /\ \A w \in W : Max(W) >= w
  BY <1>1, MaxIs
<1> QED
  BY <1>3, <1>4, <1>5, <1>6, <1>7, <1>8 DEF WaitingFreed
\* The array that a call finds: the former one if a slot is free, and else one
\* with as many slots again, of which the first new one is taken.
LEMMA LengthenedArray ==
  ASSUME TypeInv, aj >= 0 \/ 2 * n <= MaxSlots
  PROVE  \E N \in n..MaxSlots :
           /\ Lengthened.list \in [0..(N - 1) -> SlotType]
           /\ \A i \in 0..(n - 1) : Lengthened.list[i] = list[i]
           /\ \A i \in n..(N - 1) :
                /\ Lengthened.list[i].call = 0
                /\ Lengthened.list[i].next \in 0..(N - 1) \cup {End}
           /\ Lengthened.head \in 0..(N - 1)
           /\ aj >= 0 => N = n /\ Lengthened.head = aj
<1>1. /\ Slots = 0..(n - 1) /\ n \in Nat /\ n <= MaxSlots
      /\ list \in [0..(n - 1) -> SlotType] /\ aj \in 0..(n - 1) \cup {-1, -2}
  BY SlotsAre, AfterConstants DEF TypeInv, HeadsOK, ListOK, Links, End, Waiting
<1>2. CASE aj >= 0
  <2>1. Lengthened.list = list /\ Lengthened.head = aj /\ aj \in 0..(n - 1)
    BY <1>1, <1>2 DEF Lengthened
  <2>2. n \in n..MaxSlots /\ n..(n - 1) = {}
    BY <1>1, AfterConstants
  <2> QED
    BY <1>1, <2>1, <2>2
<1>3. CASE ~ (aj >= 0)
  <2> DEFINE k == IF n = 0 THEN Chunk ELSE 2 * n
             fresh(i) == [f |-> None, d |-> NoArg, call |-> NoCall,
                          next |-> IF i < k - 1 THEN i + 1 ELSE End]
             l == [i \in 0..(k - 1) |-> IF i \in 0..(n - 1) THEN list[i] ELSE fresh(i)]
  <2>1. k \in Nat /\ n < k /\ k <= MaxSlots
    BY <1>1, <1>3, AfterConstants
  <2>2. Lengthened.list = l /\ Lengthened.head = n
    BY <1>1, <1>3 DEF Lengthened
  <2>3. \A i \in 0..(k - 1) :
          fresh(i) \in SlotType /\ fresh(i).call = 0 /\ fresh(i).next \in 0..(k - 1) \cup {End}
    <3> HIDE DEF k
    <3> QED
      BY <2>1 DEF SlotType, NoCall, End
  <2> HIDE DEF fresh, k
  <2>4. l \in [0..(k - 1) -> SlotType]
    BY <1>1, <2>3
  <2>5. \A i \in 0..(n - 1) : l[i] = list[i]
    BY <1>1, <2>1
  <2>6. \A i \in n..(k - 1) : i \in 0..(k - 1) /\ l[i] = fresh(i)
    BY <1>1, <2>1
  <2>7. k \in n..MaxSlots /\ n \in 0..(k - 1)
    BY <1>1, <2>1, AfterConstants
  <2> HIDE DEF l
  <2> QED
    BY <1>3, <2>2, <2>3, <2>4, <2>5, <2>6, <2>7
<1> QED
  BY <1>2, <1>3

LEMMA CountTo ==
  ASSUME NEW N \in Nat
  PROVE  IsFiniteSet(1..N) /\ Cardinality(1..N) = N
<1>1. IsFiniteSet(1..N) /\ Cardinality(1..N) = IF 1 > N THEN 0 ELSE N - 1 + 1
  BY FS_Interval
<1> QED
  BY <1>1

\* One alarm is added to those there are.
LEMMA AlarmSetSeq ==
  ASSUME TypeInv, NEW time \in Nat, NEW slot \in Nat, AlarmSet(time, slot)
  PROVE  /\ alarms' \in Seq(Alarm) /\ Len(alarms') = Len(alarms) + 1
         /\ \A x \in 1..Len(alarms') :
              \/ alarms'[x] = [time |-> time, slot |-> slot]
              \/ \E y \in 1..Len(alarms) : alarms'[x] = alarms[y]
<1> DEFINE E == {x \in DOMAIN alarms : alarms[x].time <= time}
           e == [time |-> time, slot |-> slot]
           k == Cardinality(E) + 1
<1>1. alarms \in Seq(Alarm) /\ Len(alarms) \in Nat /\ DOMAIN alarms = 1..Len(alarms)
  BY LenProperties DEF TypeInv, AlarmsOK
<1>2. IsFiniteSet(1..Len(alarms)) /\ Cardinality(1..Len(alarms)) = Len(alarms)
  BY <1>1, CountTo
<1>3. Cardinality(E) \in Nat /\ Cardinality(E) <= Len(alarms)
  <2>1. E \subseteq 1..Len(alarms)
    BY <1>1
  <2>2. IsFiniteSet(E) /\ Cardinality(E) <= Cardinality(1..Len(alarms))
    BY <1>2, <2>1, FS_Subset
  <2> QED
    BY <1>2, <2>2, FS_CardinalityType
<1>4. k \in 1..(Len(alarms) + 1) /\ e \in Alarm
  BY <1>1, <1>3 DEF Alarm
<1>5. alarms' = InsertAt(alarms, k, e)
  BY DEF AlarmSet
<1> HIDE DEF E, e, k
<1>6. /\ alarms' \in Seq(Alarm) /\ Len(alarms') = Len(alarms) + 1
      /\ \A x \in 1..(Len(alarms) + 1) :
           alarms'[x] = IF x < k THEN alarms[x] ELSE IF x = k THEN e ELSE alarms[x - 1]
  <2> DEFINE t == InsertAt(alarms, k, e)
  <2>1. /\ t \in Seq(Alarm) /\ Len(t) = Len(alarms) + 1
        /\ \A x \in 1..(Len(alarms) + 1) :
             t[x] = IF x < k THEN alarms[x] ELSE IF x = k THEN e ELSE alarms[x - 1]
    BY <1>1, <1>4, InsertAtProperties
  <2> HIDE DEF t
  <2> QED
    BY <1>5, <2>1 DEF t
<1>7. ASSUME NEW x \in 1..(Len(alarms) + 1)
      PROVE  alarms'[x] = e \/ \E y \in 1..Len(alarms) : alarms'[x] = alarms[y]
  <2>1. CASE x < k
    <3>1. x \in 1..Len(alarms)
      BY <1>1, <1>4, <2>1
    <3> QED
      BY <1>6, <2>1, <3>1
  <2>2. CASE x = k
    BY <1>6, <2>2, <1>4
  <2>3. CASE x > k
    <3>1. x - 1 \in 1..Len(alarms)
      BY <1>1, <1>4, <2>3
    <3>2. alarms'[x] = alarms[x - 1]
      BY <1>4, <1>6, <2>3
    <3> QED
      BY <3>1, <3>2
  <2>4. x < k \/ x = k \/ x > k
    BY <1>4
  <2> QED
    BY <2>1, <2>2, <2>3, <2>4, Zenon
<1> QED
  BY <1>6, <1>7 DEF e
-----------------------------------------------------------------------------
(* Types. *)

LEMMA InitTypes == Init => TypeInv
<1> SUFFICES ASSUME Init PROVE TypeInv
  OBVIOUS
<1> USE AfterConstants DEF Init
<1>1. list = [i \in {} |-> NoWalk] /\ 0..(0 - 1) = {}
  OBVIOUS
<1>2. list \in [0..(0 - 1) -> SlotType]
  BY <1>1
<1>3. n = 0
  BY <1>2, SizeIs DEF n, Slots
<1>4. ListOK
  BY <1>1, <1>2, <1>3 DEF ListOK
<1>5. HeadsOK
  BY <1>3 DEF HeadsOK, Links, End
<1>6. AlarmsOK
  BY DEF AlarmsOK
<1>7. WalkOK
  BY <1>3 DEF WalkOK, NoWalk, Links, End
<1>8. CountsOK /\ CallsOK
  BY DEF CountsOK, CallsOK
<1> QED
  BY <1>4, <1>5, <1>6, <1>7, <1>8 DEF TypeInv

\* What is in the array after a step that keeps its size and the calls.
LEMMA ArrayKept ==
  ASSUME TypeInv, n' = n, due' = due, list' \in [0..(n - 1) -> SlotType],
         \A i \in 0..(n - 1) :
           list'[i].next \in 0..(n - 1) \cup Links /\ list'[i].call \in 0..Len(due)
  PROVE  ListOK'
BY DEF TypeInv, ListOK

LEMMA AllFreedTypes ==
  ASSUME TypeInv, AllFreed, due' = due
  PROVE  ListOK' /\ HeadsOK' /\ n' = n
<1>1. /\ n' = n /\ list' \in [0..(n - 1) -> SlotType]
      /\ \A i \in 0..(n - 1) :
           /\ list'[i].next = IF i = n - 1 THEN aj ELSE i + 1
           /\ list'[i].call \in {list[i].call, 0}
      /\ aj' = IF n = 0 THEN aj ELSE 0
      /\ ai' = End /\ ak' = End
  BY AllFreedArray
<1>2. n \in Nat /\ aj \in 0..(n - 1) \cup Links
  BY SlotsAre DEF TypeInv, HeadsOK
<1>3. Len(due) \in Nat
  BY CallsAre DEF TypeInv, CountsOK
<1>4. \A i \in 0..(n - 1) : list'[i].next \in 0..(n - 1) \cup Links
  BY <1>1, <1>2
<1>5. \A i \in 0..(n - 1) : list'[i].call \in 0..Len(due)
  BY <1>1, <1>3 DEF TypeInv, ListOK
<1>6. ListOK'
  BY <1>1, <1>4, <1>5, ArrayKept
<1>7. aj' \in 0..(n - 1) \cup Links
  BY <1>1, <1>2
<1> QED
  BY <1>1, <1>6, <1>7 DEF HeadsOK, Links

LEMMA ClearedTypes ==
  ASSUME TypeInv, Cleared, undone' \in 0..MaxUndo
  PROVE  TypeInv'
<1>1. AllFreed /\ due' = due /\ now' = now /\ tasks' = 0 /\ alarms' = <<>>
  BY DEF Cleared
<1>2. ListOK' /\ HeadsOK' /\ n' = n
  BY <1>1, AllFreedTypes
<1>3. Len(due) \in Nat /\ MaxCalls \in Nat
  BY CallsAre, AfterConstants DEF TypeInv, CountsOK
<1>4. AlarmsOK'
  BY <1>1 DEF AlarmsOK
<1>5. WalkOK'
  BY <1>2 DEF Cleared, WalkOK, NoWalk, Links, End
<1>6. CountsOK'
  BY <1>1, <1>3 DEF Cleared, TypeInv, CountsOK
<1>7. CallsOK'
  BY <1>1, KeptAre DEF Cleared, TypeInv, CallsOK, CountsOK
<1> QED
  BY <1>2, <1>4, <1>5, <1>6, <1>7 DEF TypeInv

LEMMA RingTypes ==
  ASSUME TypeInv, Ring
  PROVE  /\ TypeInv' /\ n' = n
         /\ \A x \in 1..Len(alarms') :
              \E y \in 1..Len(alarms) : alarms'[x] = alarms[y]
<1> DEFINE i == alarms[1].slot
<1>1. /\ alarms \in Seq(Alarm) /\ Len(alarms) \in Nat /\ alarms # <<>>
      /\ alarms' = Tail(alarms) /\ Len(alarms) >= 1
  BY LenProperties, EmptySeq DEF TypeInv, AlarmsOK, Ring, AlarmDue
<1>2. /\ alarms' \in Seq(Alarm) /\ Len(alarms') = Len(alarms) - 1
      /\ \A x \in 1..Len(alarms') : x + 1 \in 1..Len(alarms) /\ alarms'[x] = alarms[x + 1]
  BY <1>1, HeadTailProperties
<1>3. i \in 0..(n - 1) /\ Head(alarms).slot = i
  BY <1>1 DEF TypeInv, AlarmsOK
<1>4. /\ list \in [0..(n - 1) -> SlotType] /\ Slots = 0..(n - 1)
      /\ ak \in 0..(n - 1) \cup {End} /\ Len(due) \in Nat
  BY SlotsAre, CallsAre DEF TypeInv, ListOK, HeadsOK, CountsOK
<1> HIDE DEF i
<1>5. ASSUME list[i].next = Waiting
      PROVE  ListOK' /\ HeadsOK' /\ n' = n /\ tasks' + Len(alarms') <= Len(due) /\ tasks' \in 0..MaxCalls
  <2>1. /\ list' = [s \in 0..(n - 1) |->
              IF s = i THEN [list[s] EXCEPT !.next = End]
              ELSE IF s = ak THEN [list[s] EXCEPT !.next = i] ELSE list[s]]
        /\ ai' = (IF ak >= 0 THEN ai ELSE i) /\ ak' = i /\ tasks' = tasks + 1
    BY <1>3, <1>4, <1>5 DEF Ring, Activated
  <2>2. \A s \in 0..(n - 1) :
          /\ list'[s] \in SlotType
          /\ list'[s].next \in 0..(n - 1) \cup Links /\ list'[s].call \in 0..Len(due)
    <3> SUFFICES ASSUME NEW s \in 0..(n - 1)
                 PROVE  /\ list'[s] \in SlotType
                        /\ list'[s].next \in 0..(n - 1) \cup Links
                        /\ list'[s].call \in 0..Len(due)
      OBVIOUS
    <3>1. /\ list[s] \in SlotType /\ list[s].next \in 0..(n - 1) \cup Links
          /\ list[s].call \in 0..Len(due)
      BY DEF TypeInv, ListOK
    <3>2. CASE s = i
      BY <2>1, <3>1, <3>2 DEF SlotType, Links, End
    <3>3. CASE s # i /\ s = ak
      <4>1. i \in Int
        BY <1>3
      <4> QED
        BY <1>3, <2>1, <3>1, <3>3, <4>1 DEF SlotType, Links
    <3>4. CASE s # i /\ s # ak
      BY <2>1, <3>1, <3>4
    <3> QED
      BY <3>2, <3>3, <3>4
  <2>3. list' \in [0..(n - 1) -> SlotType]
    BY <2>1, <2>2
  <2>4. n' = n /\ due' = due
    BY <2>3, SameSize DEF Ring, ghosts
  <2>5. ListOK'
    BY <2>2, <2>3, <2>4, ArrayKept
  <2>6. HeadsOK'
    BY <1>3, <2>1, <2>4 DEF Ring, TypeInv, HeadsOK
  <2>7. tasks' + Len(alarms') <= Len(due) /\ tasks' \in 0..MaxCalls
    <3>1. /\ tasks \in Nat /\ MaxCalls \in Nat /\ Len(due) <= MaxCalls
          /\ tasks + Len(alarms) <= Len(due) /\ Len(alarms') = Len(alarms) - 1
      BY <1>2, AfterConstants DEF TypeInv, CountsOK
    <3> QED
      BY <1>1, <1>4, <2>1, <3>1
  <2> QED
    BY <2>4, <2>5, <2>6, <2>7
<1>6. ASSUME list[i].next # Waiting
      PROVE  ListOK' /\ HeadsOK' /\ n' = n /\ tasks' + Len(alarms') <= Len(due) /\ tasks' \in 0..MaxCalls
  <2>1. UNCHANGED <<list, ai, ak, tasks>> /\ due' = due
    BY <1>3, <1>6 DEF Ring, ghosts
  <2>2. n' = n
    BY <2>1 DEF n, Slots
  <2>3. ListOK' /\ HeadsOK'
    BY <2>1, <2>2 DEF Ring, TypeInv, ListOK, HeadsOK
  <2>4. tasks' + Len(alarms') <= Len(due) /\ tasks' \in 0..MaxCalls
    BY <1>1, <1>2, <1>4, <2>1 DEF TypeInv, CountsOK
  <2> QED
    BY <2>1, <2>2, <2>3, <2>4
<1>7. ListOK' /\ HeadsOK' /\ n' = n /\ tasks' + Len(alarms') <= Len(due) /\ tasks' \in 0..MaxCalls
  BY <1>5, <1>6
<1>8. AlarmsOK'
  BY <1>2, <1>7 DEF TypeInv, AlarmsOK
<1>9. WalkOK'
  BY <1>7 DEF Ring, TypeInv, WalkOK
<1>10. CountsOK' /\ CallsOK'
  BY <1>7 DEF Ring, ghosts, TypeInv, CountsOK, CallsOK
<1> QED
  BY <1>2, <1>7, <1>8, <1>9, <1>10 DEF TypeInv
LEMMA RunTaskTypes ==
  ASSUME TypeInv, RunTask
  PROVE  TypeInv'
<1>1. /\ Slots = 0..(n - 1) /\ n \in Nat /\ Len(due) \in Nat
      /\ ai \in 0..(n - 1) /\ aj \in 0..(n - 1) \cup Links
  BY SlotsAre, CallsAre DEF RunTask, TypeInv, HeadsOK, CountsOK, Links, End, Waiting
<1>2. /\ n' = n /\ list' \in [0..(n - 1) -> SlotType]
      /\ list'[ai].next = aj /\ list'[ai].call \in {list[ai].call, 0}
      /\ \A k \in 0..(n - 1) : k # ai => list'[k] = list[k]
  BY <1>1, OneFreedArray DEF RunTask
<1>3. \A k \in 0..(n - 1) :
        list[k].next \in 0..(n - 1) \cup Links /\ list[k].call \in 0..Len(due)
  BY DEF TypeInv, ListOK
<1>4. \A k \in 0..(n - 1) :
        list'[k].next \in 0..(n - 1) \cup Links /\ list'[k].call \in 0..Len(due)
  BY <1>1, <1>2, <1>3
<1>5. ListOK'
  BY <1>2, <1>4, ArrayKept DEF RunTask
<1>6. HeadsOK'
  <2>1. ak \in 0..(n - 1) \cup {End}
    BY DEF TypeInv, HeadsOK
  <2>2. ai' \in 0..(n - 1) \cup Links /\ ak' \in 0..(n - 1) \cup {End} /\ aj' = ai
    BY <1>1, <1>3, <2>1 DEF RunTask
  <2> QED
    BY <1>1, <1>2, <2>2 DEF HeadsOK
<1>7. AlarmsOK' /\ WalkOK' /\ CallsOK'
  BY <1>2 DEF RunTask, TypeInv, AlarmsOK, WalkOK, CallsOK
<1>8. CountsOK'
  <2>1. /\ tasks \in 0..MaxCalls /\ tasks > 0 /\ MaxCalls \in Nat /\ Len(alarms) \in Nat
        /\ tasks + Len(alarms) <= Len(due)
    BY LenProperties, AfterConstants DEF RunTask, TypeInv, CountsOK, AlarmsOK
  <2>2. tasks - 1 \in 0..MaxCalls /\ (tasks - 1) + Len(alarms) <= Len(due)
    BY <1>1, <2>1
  <2> QED
    BY <2>2 DEF RunTask, TypeInv, CountsOK
<1> QED
  BY <1>5, <1>6, <1>7, <1>8 DEF TypeInv

\* What a call of after does to the array, which may grow: the slot i is taken.
LEMMA AfterArray ==
  ASSUME TypeInv, NEW secs \in Delays, NEW f \in Funcs, NEW d \in Args \cup {NoArg},
         After(secs, f, d)
  PROVE  \E N \in n..MaxSlots : \E i \in 0..(N - 1) :
           /\ n' = N /\ list' \in [0..(N - 1) -> SlotType]
           /\ list'[i].next = Waiting /\ list'[i].call = Len(due) + 1
           /\ \A k \in 0..(n - 1) : k # i => list'[k] = list[k]
           /\ \A k \in n..(N - 1) :
                k # i => list'[k].call = 0 /\ list'[k].next \in 0..(N - 1) \cup {End}
           /\ aj >= 0 => N = n /\ i = aj /\ aj' = list[aj].next
           /\ aj' \in 0..(N - 1) \cup Links
           /\ AlarmSet(now + secs, i)
<1> DEFINE l == Lengthened.list
           i == Lengthened.head
<1>1. /\ Slots = 0..(n - 1) /\ n \in Nat /\ Len(due) \in Nat
      /\ MaxSlots \in Nat
  BY SlotsAre, CallsAre, AfterConstants DEF TypeInv, CountsOK
<1>2. aj >= 0 \/ 2 * n <= MaxSlots
  BY DEF After
<1>3. PICK N \in n..MaxSlots :
        /\ l \in [0..(N - 1) -> SlotType]
        /\ \A k \in 0..(n - 1) : l[k] = list[k]
        /\ \A k \in n..(N - 1) : l[k].call = 0 /\ l[k].next \in 0..(N - 1) \cup {End}
        /\ i \in 0..(N - 1)
        /\ aj >= 0 => N = n /\ i = aj
  BY <1>2, LengthenedArray
<1> DEFINE slot == [f |-> f, d |-> d, next |-> Waiting, call |-> Len(due) + 1]
<1>4. /\ aj' = l[i].next /\ list' = [l EXCEPT ![i] = slot] /\ AlarmSet(now + secs, i)
  BY DEF After
<1>5. slot \in SlotType /\ slot.next = Waiting /\ slot.call = Len(due) + 1
  BY <1>1 DEF SlotType, Waiting
<1> HIDE DEF l, i, slot
<1>6. /\ list' \in [0..(N - 1) -> SlotType] /\ list'[i] = slot
      /\ \A k \in 0..(N - 1) : k # i => list'[k] = l[k]
  BY <1>3, <1>4, <1>5
<1>7. N \in Nat /\ n <= N
  BY <1>1
<1>8. n' = N
  BY <1>6, <1>7, SizeIs DEF n, Slots
<1>9. \A k \in 0..(n - 1) : k # i => list'[k] = list[k]
  BY <1>1, <1>3, <1>6, <1>7
<1>10. \A k \in n..(N - 1) :
         k # i => list'[k].call = 0 /\ list'[k].next \in 0..(N - 1) \cup {End}
  BY <1>1, <1>3, <1>6, <1>7
<1>11. aj >= 0 => aj' = list[aj].next
  BY <1>3, <1>4
<1>12. l[i].next \in 0..(N - 1) \cup Links
  <2>1. CASE i \in 0..(n - 1)
    BY <1>1, <1>3, <1>7, <2>1 DEF TypeInv, ListOK, Links
  <2>2. CASE i \in n..(N - 1)
    BY <1>3, <2>2 DEF Links
  <2>3. i \in 0..(n - 1) \/ i \in n..(N - 1)
    BY <1>1, <1>3, <1>7
  <2> QED
    BY <2>1, <2>2, <2>3, Zenon
<1>13. list'[i].next = Waiting /\ list'[i].call = Len(due) + 1 /\ aj' \in 0..(N - 1) \cup Links
  BY <1>4, <1>5, <1>6, <1>12, Zenon
<1> QED
  BY <1>3, <1>4, <1>6, <1>8, <1>9, <1>10, <1>11, <1>13

LEMMA AfterTypes ==
  ASSUME TypeInv, NEW secs \in Delays, NEW f \in Funcs, NEW d \in Args \cup {NoArg},
         After(secs, f, d)
  PROVE  TypeInv'
<1>0. PICK N \in n..MaxSlots : \E i \in 0..(N - 1) :
        /\ n' = N /\ list' \in [0..(N - 1) -> SlotType]
        /\ list'[i].next = Waiting /\ list'[i].call = Len(due) + 1
        /\ \A k \in 0..(n - 1) : k # i => list'[k] = list[k]
        /\ \A k \in n..(N - 1) :
             k # i => list'[k].call = 0 /\ list'[k].next \in 0..(N - 1) \cup {End}
        /\ aj' \in 0..(N - 1) \cup Links
        /\ AlarmSet(now + secs, i)
  BY AfterArray
<1>1. PICK i \in 0..(N - 1) :
        /\ n' = N /\ list' \in [0..(N - 1) -> SlotType]
        /\ list'[i].next = Waiting /\ list'[i].call = Len(due) + 1
        /\ \A k \in 0..(n - 1) : k # i => list'[k] = list[k]
        /\ \A k \in n..(N - 1) :
             k # i => list'[k].call = 0 /\ list'[k].next \in 0..(N - 1) \cup {End}
        /\ aj' \in 0..(N - 1) \cup Links
        /\ AlarmSet(now + secs, i)
  BY <1>0
<1>2. /\ n \in Nat /\ N \in 0..MaxSlots /\ n <= N /\ Len(due) \in Nat
      /\ now \in Nat /\ now + secs \in Nat /\ i \in Nat
  BY <1>1, SlotsAre, CallsAre, AfterConstants DEF TypeInv, ListOK, CountsOK
<1>3. due' = Append(due, now + secs) /\ due \in Seq(Nat) /\ Len(due) < MaxCalls
  BY DEF After, TypeInv, CountsOK
<1>4. due' \in Seq(Nat) /\ Len(due') = Len(due) + 1
  BY <1>2, <1>3, AppendProperties
<1>5. ListOK'
  <2>1. \A k \in 0..(n - 1) :
          list[k].next \in 0..(n - 1) \cup Links /\ list[k].call \in 0..Len(due)
    BY DEF TypeInv, ListOK
  <2>2. ASSUME NEW k \in 0..(N - 1)
        PROVE  list'[k].next \in 0..(N - 1) \cup Links /\ list'[k].call \in 0..Len(due')
    <3>1. CASE k = i
      BY <1>1, <1>2, <1>4, <3>1 DEF Links
    <3>2. CASE k # i /\ k \in 0..(n - 1)
      <4>1. list'[k] = list[k]
        BY <1>1, <3>2
      <4> QED
        BY <1>2, <1>4, <2>1, <3>2, <4>1
    <3>3. CASE k # i /\ k \in n..(N - 1)
      BY <1>1, <1>2, <1>4, <3>3 DEF Links
    <3>4. k \in 0..(n - 1) \/ k \in n..(N - 1)
      BY <1>2
    <3> QED
      BY <3>1, <3>2, <3>3, <3>4, Zenon
  <2> QED
    BY <1>1, <1>2, <2>2 DEF ListOK
<1>6. HeadsOK'
  BY <1>1, <1>2 DEF After, TypeInv, HeadsOK
<1>7. /\ alarms' \in Seq(Alarm) /\ Len(alarms') = Len(alarms) + 1
      /\ \A x \in 1..Len(alarms') :
           \/ alarms'[x] = [time |-> now + secs, slot |-> i]
           \/ \E y \in 1..Len(alarms) : alarms'[x] = alarms[y]
  BY <1>1, <1>2, AlarmSetSeq
<1>8. AlarmsOK'
  <2>1. \A y \in 1..Len(alarms) : alarms[y].slot \in 0..(N - 1)
    BY <1>2 DEF TypeInv, AlarmsOK
  <2>2. \A x \in 1..Len(alarms') : alarms'[x].slot \in 0..(N - 1)
    BY <1>7, <2>1
  <2> QED
    BY <1>1, <1>7, <2>2 DEF AlarmsOK
<1>9. WalkOK'
  BY <1>1, <1>2 DEF After, TypeInv, WalkOK
<1>10. CountsOK'
  <2>1. /\ tasks \in Nat /\ Len(alarms) \in Nat /\ tasks + Len(alarms) <= Len(due)
        /\ MaxCalls \in Nat
    BY LenProperties, AfterConstants DEF TypeInv, CountsOK, AlarmsOK
  <2>2. tasks + Len(alarms') <= Len(due') /\ Len(due') <= MaxCalls
    BY <1>2, <1>3, <1>4, <1>7, <2>1
  <2> QED
    BY <1>4, <2>2 DEF After, TypeInv, CountsOK
<1>11. CallsOK'
  BY <1>2, <1>4 DEF After, TypeInv, CallsOK
<1> QED
  BY <1>5, <1>6, <1>8, <1>9, <1>10, <1>11 DEF TypeInv
\* A turn of the loop over the active list that frees the slot it is at.
LEMMA WalkMatchTypes ==
  ASSUME TypeInv, WalkActive, Matches(walk.i, walk.f, walk.d)
  PROVE  /\ TypeInv' /\ n' = n
         /\ \A k \in 0..(n - 1) : list'[k].call \in {list[k].call, 0}
<1> DEFINE i == walk.i
           j == walk.j
           freed == Freed(list[i], aj)
           next == list[i].next
<1>1. /\ Slots = 0..(n - 1) /\ n \in Nat /\ Len(due) \in Nat
      /\ i \in 0..(n - 1) /\ j \in 0..(n - 1) \cup {End}
      /\ aj \in 0..(n - 1) \cup Links /\ list \in [0..(n - 1) -> SlotType]
  BY SlotsAre, CallsAre
     DEF WalkActive, TypeInv, WalkOK, HeadsOK, ListOK, CountsOK, Links, End, Waiting
<1>2. \A k \in 0..(n - 1) :
        /\ list[k] \in SlotType /\ list[k].next \in 0..(n - 1) \cup Links
        /\ list[k].call \in 0..Len(due)
  BY DEF TypeInv, ListOK
<1>3. /\ freed \in SlotType /\ freed.next \in 0..(n - 1) \cup Links
      /\ freed.call \in 0..Len(due) /\ freed.call \in {list[i].call, 0}
  <2>1. aj \in Int
    BY <1>1 DEF Links, End, Waiting
  <2>2. freed \in SlotType /\ freed.next = aj /\ freed.call \in {list[i].call, 0}
    BY <1>1, <1>2, <2>1, FreedType
  <2> QED
    BY <1>1, <1>2, <2>2
<1> DEFINE b == [list EXCEPT ![i] = freed]
<1>4. /\ list' = (IF j >= 0 THEN [b EXCEPT ![j].next = next] ELSE b)
      /\ ai' = (IF j >= 0 THEN ai ELSE next)
      /\ ak' = (IF i = ak THEN j ELSE ak)
      /\ aj' = i
      /\ walk' = [walk EXCEPT !.j = i, !.i = aj]
  BY DEF WalkActive
<1>5. next \in 0..(n - 1) \cup Links
  BY <1>1, <1>2
<1> HIDE DEF i, j, freed, next
<1>6. /\ b \in [0..(n - 1) -> SlotType]
      /\ \A k \in 0..(n - 1) :
           /\ b[k].next \in 0..(n - 1) \cup Links /\ b[k].call \in 0..Len(due)
           /\ b[k].call \in {list[k].call, 0}
  BY <1>1, <1>2, <1>3
<1> HIDE DEF b
<1>7. /\ list' \in [0..(n - 1) -> SlotType]
      /\ \A k \in 0..(n - 1) :
           /\ list'[k].next \in 0..(n - 1) \cup Links /\ list'[k].call \in 0..Len(due)
           /\ list'[k].call \in {list[k].call, 0}
  <2>1. CASE j >= 0
    <3> DEFINE changed == [b[j] EXCEPT !.next = next]
    <3>1. j \in 0..(n - 1) /\ list' = [b EXCEPT ![j] = changed]
      BY <1>1, <1>4, <2>1 DEF End
    <3>2. next \in Int
      BY <1>5 DEF Links, End, Waiting
    <3>3. changed \in SlotType /\ changed.next = next /\ changed.call = b[j].call
      BY <1>6, <3>1, <3>2 DEF SlotType
    <3> HIDE DEF changed
    <3> QED
      BY <1>5, <1>6, <3>1, <3>3
  <2>2. CASE ~ (j >= 0)
    BY <1>4, <1>6, <2>2
  <2> QED
    BY <2>1, <2>2
<1>8. n' = n
  BY <1>7, SameSize
<1>9. ListOK'
  BY <1>7, <1>8, ArrayKept DEF WalkActive
<1>10. HeadsOK'
  BY <1>1, <1>4, <1>5, <1>8 DEF TypeInv, HeadsOK
<1>11. WalkOK'
  <2>1. walk \in [i : Int, j : Int, f : Funcs \cup {None}, d : Args \cup {NoArg}]
    BY DEF TypeInv, WalkOK
  <2>2. i \in Int /\ aj \in Int
    BY <1>1 DEF Links, End, Waiting
  <2>3. /\ walk' \in [i : Int, j : Int, f : Funcs \cup {None}, d : Args \cup {NoArg}]
        /\ walk'.i = aj /\ walk'.j = i
    BY <1>4, <2>1, <2>2
  <2> QED
    BY <1>1, <1>8, <2>3 DEF WalkOK
<1>12. AlarmsOK' /\ CountsOK' /\ CallsOK'
  BY <1>8 DEF WalkActive, TypeInv, AlarmsOK, CountsOK, CallsOK
<1> QED
  BY <1>7, <1>8, <1>9, <1>10, <1>11, <1>12 DEF TypeInv

LEMMA WalkOnTypes ==
  ASSUME TypeInv, WalkActive, ~ Matches(walk.i, walk.f, walk.d)
  PROVE  TypeInv' /\ UNCHANGED <<slots, alarms, cleared, ran, detoured, due>>
<1>1. /\ UNCHANGED <<slots, detoured>>
      /\ walk' = [walk EXCEPT !.j = walk.i, !.i = list[walk.i].next]
      /\ UNCHANGED <<now, alarms, tasks, busy, undone, due, ran, gone, cleared>>
  BY DEF WalkActive
<1>2. list' = list /\ ai' = ai /\ ak' = ak /\ aj' = aj /\ n' = n
  BY <1>1 DEF slots, n, Slots
<1>3. walk.i \in 0..(n - 1) /\ list[walk.i].next \in 0..(n - 1) \cup Links /\ n \in Nat
  BY SlotsAre DEF WalkActive, TypeInv, WalkOK, ListOK, Links, End, Waiting
<1>4. WalkOK'
  <2>1. walk \in [i : Int, j : Int, f : Funcs \cup {None}, d : Args \cup {NoArg}]
    BY DEF TypeInv, WalkOK
  <2>2. list[walk.i].next \in Int /\ walk.i \in Int
    BY <1>3 DEF Links, End, Waiting
  <2>3. /\ walk' \in [i : Int, j : Int, f : Funcs \cup {None}, d : Args \cup {NoArg}]
        /\ walk'.i = list[walk.i].next /\ walk'.j = walk.i
    BY <1>1, <2>1, <2>2
  <2> QED
    BY <1>2, <1>3, <2>3 DEF WalkOK
<1>5. ListOK' /\ HeadsOK' /\ AlarmsOK' /\ CountsOK' /\ CallsOK'
  BY <1>1, <1>2 DEF TypeInv, ListOK, HeadsOK, AlarmsOK, CountsOK, CallsOK
<1> QED
  BY <1>1, <1>4, <1>5 DEF TypeInv

\* The slots that the loop over the waiting slots frees.
Cancellable == {i \in Slots : list[i].next = Waiting /\ MatchesWaiting(i, walk.f, walk.d)}

LEMMA CancelWaitingTypes ==
  ASSUME TypeInv, CancelWaiting
  PROVE  TypeInv'
<1> DEFINE W == Cancellable
<1>1. /\ Slots = 0..(n - 1) /\ n \in Nat /\ Len(due) \in Nat
      /\ aj \in 0..(n - 1) \cup Links
  BY SlotsAre, CallsAre DEF TypeInv, HeadsOK, CountsOK
<1>2. W \in SUBSET (0..(n - 1)) /\ WaitingFreed(W) /\ due' = due
  BY <1>1 DEF Cancellable, CancelWaiting
<1> HIDE DEF W
<1>3. /\ n' = n /\ list' \in [0..(n - 1) -> SlotType]
      /\ \A w \in W : list'[w].next = Below(W, w) /\ list'[w].call \in {list[w].call, 0}
      /\ \A w \in W : Below(W, w) = aj \/ (Below(W, w) \in W /\ Below(W, w) < w)
      /\ \A k \in 0..(n - 1) : k \notin W => list'[k] = list[k]
      /\ W = {} => aj' = aj
      /\ W # {} => aj' \in W /\ \A w \in W : aj' >= w
  BY <1>2, WaitingFreedArray
<1>4. \A k \in 0..(n - 1) :
        list[k].next \in 0..(n - 1) \cup Links /\ list[k].call \in 0..Len(due)
  BY DEF TypeInv, ListOK
<1>5. ASSUME NEW k \in 0..(n - 1)
      PROVE  list'[k].next \in 0..(n - 1) \cup Links /\ list'[k].call \in 0..Len(due)
  <2>1. CASE k \in W
    <3>1. Below(W, k) \in 0..(n - 1) \cup Links
      BY <1>1, <1>2, <1>3, <2>1, Zenon
    <3> QED
      BY <1>1, <1>3, <1>4, <2>1, <3>1
  <2>2. CASE k \notin W
    BY <1>3, <1>4, <2>2
  <2> QED
    BY <2>1, <2>2
<1>6. ListOK'
  BY <1>2, <1>3, <1>5, ArrayKept
<1>7. aj' \in 0..(n - 1) \cup Links
  BY <1>1, <1>2, <1>3, Zenon
<1>8. HeadsOK' /\ AlarmsOK' /\ CountsOK' /\ CallsOK'
  BY <1>3, <1>7 DEF CancelWaiting, TypeInv, HeadsOK, AlarmsOK, CountsOK, CallsOK
<1>9. WalkOK'
  BY <1>3 DEF CancelWaiting, WalkOK, NoWalk, Links, End
<1> QED
  BY <1>6, <1>8, <1>9 DEF TypeInv

LEMMA CancelTypes ==
  ASSUME TypeInv, NEW f \in Funcs, NEW d \in Args \cup {NoArg}, Cancel(f, d)
  PROVE  TypeInv' /\ UNCHANGED <<slots, alarms, cleared, ran, detoured, due>>
<1>1. /\ UNCHANGED <<now, alarms, slots, tasks, due, ran, cleared, spoiled, detoured>>
      /\ busy' = "cancelling" /\ undone < MaxUndo /\ undone' = undone + 1
      /\ walk' = [i |-> ai, j |-> End, f |-> f, d |-> d]
  BY DEF Cancel
<1>2. list' = list /\ ai' = ai /\ ak' = ak /\ aj' = aj /\ n' = n
  BY <1>1 DEF slots, n, Slots
<1>3. ai \in 0..(n - 1) \cup Links /\ n \in Nat
  BY SlotsAre DEF TypeInv, HeadsOK
<1>4. WalkOK'
  <2>1. ai \in Int
    BY <1>3 DEF Links, End, Waiting
  <2> QED
    BY <1>1, <1>2, <1>3, <2>1 DEF WalkOK, End
<1>5. CallsOK'
  <2>1. Pending \subseteq 1..Len(due)
    BY CallsAre DEF Pending, TypeInv, CountsOK
  <2>2. gone' \subseteq gone \cup Pending /\ gone \subseteq gone'
    BY DEF Cancel
  <2> QED
    BY <1>1, <2>1, <2>2 DEF TypeInv, CallsOK
<1>6. ListOK' /\ HeadsOK' /\ AlarmsOK'
  BY <1>1, <1>2 DEF TypeInv, ListOK, HeadsOK, AlarmsOK
<1>7. CountsOK'
  BY <1>1, AfterConstants DEF TypeInv, CountsOK
<1> QED
  BY <1>1, <1>4, <1>5, <1>6, <1>7 DEF TypeInv

LEMMA CancelAllTypes ==
  ASSUME TypeInv, CancelAll
  PROVE  TypeInv' /\ n' = n
<1>1. AllFreed /\ due' = due /\ undone < MaxUndo /\ undone' = undone + 1
  BY DEF CancelAll
<1>2. ListOK' /\ HeadsOK' /\ n' = n
  BY <1>1, AllFreedTypes
<1>3. CallsOK'
  BY KeptAre DEF CancelAll, TypeInv, CallsOK, CountsOK
<1>4. AlarmsOK' /\ WalkOK'
  BY <1>2 DEF CancelAll, TypeInv, AlarmsOK, WalkOK
<1>5. CountsOK'
  BY <1>1, AfterConstants DEF CancelAll, TypeInv, CountsOK
<1> QED
  BY <1>2, <1>3, <1>4, <1>5 DEF TypeInv

\* The steps that leave the array, its lists and the alarms as they are.
LEMMA QuietTypes ==
  ASSUME TypeInv, Tick \/ Typed \/ Finish \/ UNCHANGED vars
  PROVE  TypeInv' /\ UNCHANGED <<slots, alarms, cleared, ran, detoured, due>>
<1>1. UNCHANGED <<slots, alarms, tasks, walk, undone, ghosts>>
  BY DEF Tick, Typed, Finish, vars, slots, ghosts
<1>2. UNCHANGED <<list, ai, ak, aj, due, ran, gone, cleared, detoured>> /\ n' = n
  BY <1>1 DEF slots, ghosts, n, Slots
<1>3. ListOK' /\ HeadsOK' /\ AlarmsOK' /\ WalkOK' /\ CallsOK'
  BY <1>1, <1>2 DEF TypeInv, ListOK, HeadsOK, AlarmsOK, WalkOK, CallsOK
<1>4. now' \in 0..MaxTime /\ busy' \in {"idle", "running", "cancelling"}
  BY AfterConstants DEF Tick, Typed, Finish, vars, TypeInv, CountsOK
<1>5. CountsOK'
  BY <1>1, <1>2, <1>4 DEF TypeInv, CountsOK
<1> QED
  BY <1>1, <1>2, <1>3, <1>5 DEF TypeInv

LEMMA NextTypes == TypeInv /\ [Next]_vars => TypeInv'
<1> SUFFICES ASSUME TypeInv, [Next]_vars PROVE TypeInv'
  OBVIOUS
<1>1. CASE Tick \/ Typed \/ Finish \/ UNCHANGED vars
  BY <1>1, QuietTypes
<1>2. CASE Ring
  BY <1>2, RingTypes
<1>3. CASE RunTask
  BY <1>3, RunTaskTypes
<1>4. CASE BadLink \/ Runaway
  <2>1. Cleared /\ undone' \in 0..MaxUndo
    BY <1>4 DEF BadLink, Runaway, TypeInv, CountsOK
  <2> QED
    BY <2>1, ClearedTypes
<1>5. CASE Fault
  <2>1. Cleared /\ undone' \in 0..MaxUndo
    BY <1>5, AfterConstants DEF Fault, TypeInv, CountsOK
  <2> QED
    BY <2>1, ClearedTypes
<1>6. CASE \E secs \in Delays, f \in Funcs, d \in Args \cup {NoArg} : After(secs, f, d)
  BY <1>6, AfterTypes
<1>7. CASE CancelAll
  BY <1>7, CancelAllTypes
<1>8. CASE \E f \in Funcs, d \in Args \cup {NoArg} : Cancel(f, d)
  BY <1>8, CancelTypes
<1>9. CASE WalkActive
  BY <1>9, WalkMatchTypes, WalkOnTypes
<1>10. CASE CancelWaiting
  BY <1>10, CancelWaitingTypes
<1> QED
  BY <1>1, <1>2, <1>3, <1>4, <1>5, <1>6, <1>7, <1>8, <1>9, <1>10 DEF Next

\* The indices of the queue and the numbers in it stay within its bounds, for
\* any sizes and functions (ym_after_list and its heads).
THEOREM AfterTypeCorrect == Spec => []TypeOK
<1>1. Init => TypeInv
  BY InitTypes
<1>2. TypeInv /\ [Next]_vars => TypeInv'
  BY NextTypes
<1>3. TypeInv => TypeOK
  BY TypeInvImpliesTypeOK
<1> QED
  BY <1>1, <1>2, <1>3, PTL DEF Spec
-----------------------------------------------------------------------------
(* What an error has cleared does not run. *)

\* The slots that still hold a call that an error has cleared.
Stale == {i \in 0..(n - 1) : list[i].call \in cleared}

\* From slot m on, the array of N slots has not been used since the error: each
\* of these slots but the last is linked to the next one.  F is what was freed
\* and A what is active: neither leads into the rest but F to m, and r numbers
\* F and A in the direction of their links.
ApartBy(N, l, first, last, free, stale, m, A, F, r) ==
  /\ \A i \in stale : i >= m /\ (i = N - 1 => i \notin A)
  /\ \A i \in m..(N - 2) : l[i].next = i + 1 /\ i \notin A /\ i \notin F
  /\ A \cap F = {} /\ m \notin F
  /\ free \in F \cup {m}
  /\ \A x \in F : l[x].next = m \/ (l[x].next \in F /\ r[l[x].next] < r[x])
  /\ first \in A \cup {End} /\ last \in A \cup {End}
  /\ \A x \in A : l[x].next = End \/ (l[x].next \in A /\ r[l[x].next] > r[x])
  /\ last \in A => \A x \in A : r[x] <= r[last]

Apart ==
  \/ detoured
  \/ Stale = {}
  \/ \E m \in 0..(n - 1), A, F \in SUBSET (0..(n - 1)), r \in [0..(n - 1) -> Int] :
       ApartBy(n, list, ai, ak, aj, Stale, m, A, F, r)

\* No alarm is set for them.
StaleIsSilent == \A x \in 1..Len(alarms) : alarms[x].slot \notin Stale

StaleInv == Apart /\ StaleIsSilent

LEMMA StaleShrinks ==
  ASSUME TypeInv, n' = n, cleared' = cleared,
         \A k \in 0..(n - 1) : list'[k].call \in {list[k].call, 0}
  PROVE  Stale' \subseteq Stale
<1>1. 0 \notin cleared
  BY DEF TypeInv, CallsOK
<1> QED
  BY <1>1 DEF Stale

\* The first slot of the rest is not active while there is a cleared call.
LEMMA RestNotActive ==
  ASSUME TypeInv, NEW s \in Stale, NEW m \in 0..(n - 1), NEW A, NEW F, NEW r,
         ApartBy(n, list, ai, ak, aj, Stale, m, A, F, r)
  PROVE  m \notin A
<1>1. n \in Nat /\ s \in 0..(n - 1) /\ s >= m /\ (s = n - 1 => s \notin A)
  BY SlotsAre DEF TypeInv, Stale, ApartBy
<1>2. CASE m = n - 1
  BY <1>1, <1>2
<1>3. CASE m # n - 1
  <2>1. m \in m..(n - 2)
    BY <1>1, <1>3
  <2> QED
    BY <2>1 DEF ApartBy
<1> QED
  BY <1>2, <1>3

\* When every slot is freed the rest is the whole array.
LEMMA AllFreedApart ==
  ASSUME TypeInv, AllFreed
  PROVE  Apart'
<1> DEFINE r == [i \in 0..(n - 1) |-> 0]
<1>1. /\ n' = n /\ n \in Nat /\ ai' = End /\ ak' = End
      /\ \A i \in 0..(n - 1) : list'[i].next = IF i = n - 1 THEN aj ELSE i + 1
      /\ aj' = IF n = 0 THEN aj ELSE 0
  BY AllFreedArray, SlotsAre DEF TypeInv
<1>2. CASE n = 0
  <2>1. Stale' = {}
    BY <1>1, <1>2 DEF Stale
  <2> QED
    BY <2>1 DEF Apart
<1>3. CASE n # 0
  <2>1. \A i \in Stale' : i \in 0..(n - 1)
    BY <1>1 DEF Stale
  <2>2. \A i \in 0..(n - 2) : list'[i].next = i + 1
    BY <1>1
  <2>3. ApartBy(n, list', End, End, 0, Stale', 0, {}, {}, r)
    BY <1>1, <2>1, <2>2 DEF ApartBy
  <2>4. 0 \in 0..(n - 1) /\ r \in [0..(n - 1) -> Int]
    BY <1>1, <1>3
  <2> HIDE DEF r
  <2>5. ApartBy(n', list', ai', ak', aj', Stale', 0, {}, {}, r)
    BY <1>1, <1>3, <2>3
  <2> QED
    BY <1>1, <2>4, <2>5 DEF Apart
<1> QED
  BY <1>2, <1>3
LEMMA RingApart ==
  ASSUME TypeInv, StaleIsSilent, Ring, NEW st \in Stale,
         NEW m \in 0..(n - 1), NEW A \in SUBSET (0..(n - 1)),
         NEW F \in SUBSET (0..(n - 1)), NEW r \in [0..(n - 1) -> Int],
         ApartBy(n, list, ai, ak, aj, Stale, m, A, F, r)
  PROVE  Apart'
<1> DEFINE i == alarms[1].slot
           A1 == IF ak \in A THEN A \cup {i} ELSE {i}
           r1 == [r EXCEPT ![i] = IF ak \in A THEN r[ak] + 1 ELSE 0]
<1>1. /\ alarms # <<>> /\ Len(alarms) \in Nat /\ 1 \in 1..Len(alarms)
      /\ cleared' = cleared /\ detoured' = detoured /\ aj' = aj
  BY LenProperties, EmptySeq DEF Ring, AlarmDue, ghosts, TypeInv, AlarmsOK
<1>2. i \in 0..(n - 1) /\ i \notin Stale /\ Head(alarms).slot = i
  BY <1>1 DEF StaleIsSilent, TypeInv, AlarmsOK
<1>3. /\ Slots = 0..(n - 1) /\ n \in Nat /\ list \in [0..(n - 1) -> SlotType] /\ n' = n
      /\ ak \in 0..(n - 1) \cup {End}
  BY SlotsAre, RingTypes DEF TypeInv, ListOK, HeadsOK
<1>4. m \notin A
  BY RestNotActive
<1> HIDE DEF i
<1>5. CASE list[i].next # Waiting
  <2>1. UNCHANGED <<list, ai, ak>>
    BY <1>2, <1>5 DEF Ring
  <2>2. Stale' = Stale
    BY <1>1, <1>3, <2>1 DEF Stale
  <2> QED
    BY <1>1, <1>3, <2>1, <2>2 DEF Apart
<1>6. CASE list[i].next = Waiting
  <2>1. /\ list' = [s \in 0..(n - 1) |->
              IF s = i THEN [list[s] EXCEPT !.next = End]
              ELSE IF s = ak THEN [list[s] EXCEPT !.next = i] ELSE list[s]]
        /\ ai' = (IF ak >= 0 THEN ai ELSE i) /\ ak' = i
    BY <1>2, <1>3, <1>6 DEF Ring, Activated
  <2>2. /\ list'[i].next = End
        /\ ak \in 0..(n - 1) /\ ak # i => list'[ak].next = i
        /\ \A s \in 0..(n - 1) : s # i /\ s # ak => list'[s] = list[s]
        /\ \A s \in 0..(n - 1) : list'[s].call = list[s].call
    <3>1. \A s \in 0..(n - 1) : list[s] \in SlotType
      BY <1>3
    <3> QED
      BY <1>2, <2>1, <3>1 DEF SlotType
  <2>3. Stale' = Stale
    BY <1>1, <1>3, <2>2 DEF Stale
  <2>4. i \notin A /\ i \notin F /\ i \notin m..(n - 2) /\ (ak \in A => ak # i)
    <3>1. list[i].next = -2 /\ n \in Nat
      BY <1>3, <1>6 DEF Waiting
    <3>0. -2 \notin A /\ -2 \notin F /\ m # -2
      BY <3>1
    <3>2. i \notin A
      <4>1. \A x \in A : list[x].next = -1 \/ list[x].next \in A
        BY DEF ApartBy, End
      <4>2. -1 # -2
        OBVIOUS
      <4> QED
        BY <3>0, <3>1, <4>1, <4>2
    <3>3. i \notin F
      <4>1. \A x \in F : list[x].next = m \/ list[x].next \in F
        BY DEF ApartBy
      <4> QED
        BY <3>0, <3>1, <4>1
    <3>4. \A s \in m..(n - 2) : list[s].next = s + 1
      BY DEF ApartBy
    <3>5. i \notin m..(n - 2)
      <4> SUFFICES ASSUME i \in m..(n - 2) PROVE FALSE
        OBVIOUS
      <4>1. i + 1 = -2
        BY <3>1, <3>4
      <4> QED
        BY <1>2, <3>1, <4>1
    <3> QED
      BY <3>2, <3>3, <3>5
  <2>5. ak \in A \cup {End} /\ (ak >= 0 <=> ak \in A)
    BY <1>3 DEF ApartBy, End
  <2>6. A1 \in SUBSET (0..(n - 1)) /\ r1 \in [0..(n - 1) -> Int] /\ i \in A1
    BY <1>2, <1>3
  <2>7. /\ r1[i] = IF ak \in A THEN r[ak] + 1 ELSE 0
        /\ \A x \in 0..(n - 1) : x # i => r1[x] = r[x]
    BY <1>2
  <2>8. /\ ak \in A => A1 = A \cup {i}
        /\ ak \notin A => A1 = {i}
        /\ \A x \in 0..(n - 1) : x # i => r[x] \in Int
    OBVIOUS
  <2> HIDE DEF A1, r1
  <2>9. \A s \in Stale : s >= m /\ (s = n - 1 => s \notin A1)
    BY <1>2, <2>8 DEF ApartBy
  <2>10. \A s \in m..(n - 2) : list'[s].next = s + 1 /\ s \notin A1 /\ s \notin F
    BY <1>3, <2>2, <2>4, <2>5, <2>8 DEF ApartBy
  <2>11. A1 \cap F = {} /\ m \notin F /\ aj \in F \cup {m}
    BY <2>4, <2>8 DEF ApartBy
  <2>12. \A x \in F :
           list'[x].next = m \/ (list'[x].next \in F /\ r1[list'[x].next] < r1[x])
    <3> SUFFICES ASSUME NEW x \in F
                 PROVE  list'[x].next = m \/ (list'[x].next \in F /\ r1[list'[x].next] < r1[x])
      OBVIOUS
    <3>1. x # i /\ x # ak /\ list'[x] = list[x]
      BY <2>2, <2>4, <2>5, <1>3 DEF ApartBy, End
    <3>2. list[x].next = m \/ (list[x].next \in F /\ r[list[x].next] < r[x])
      BY DEF ApartBy
    <3> QED
      BY <2>4, <2>7, <3>1, <3>2
  <2>13. ai' \in A1 \cup {End} /\ ak' \in A1
    BY <2>1, <2>5, <2>6, <2>8 DEF ApartBy
  <2>14. \A x \in A1 :
           list'[x].next = End \/ (list'[x].next \in A1 /\ r1[list'[x].next] > r1[x])
    <3> SUFFICES ASSUME NEW x \in A1
                 PROVE  list'[x].next = End \/ (list'[x].next \in A1 /\ r1[list'[x].next] > r1[x])
      OBVIOUS
    <3>1. CASE x = i
      BY <2>2, <3>1
    <3>2. CASE x # i /\ x = ak
      <4>1. x \in A /\ list'[x].next = i
        BY <1>3, <2>2, <2>4, <2>8, <3>2
      <4> QED
        BY <2>6, <2>7, <2>8, <3>2, <4>1
    <3>3. CASE x # i /\ x # ak
      <4>1. x \in A /\ ak \in A /\ list'[x] = list[x]
        BY <2>2, <2>8, <3>3
      <4>2. list[x].next = End \/ (list[x].next \in A /\ r[list[x].next] > r[x])
        BY <4>1 DEF ApartBy
      <4> QED
        BY <2>4, <2>7, <2>8, <4>1, <4>2
    <3> QED
      BY <3>1, <3>2, <3>3
  <2>15. \A x \in A1 : r1[x] <= r1[ak']
    <3> SUFFICES ASSUME NEW x \in A1 PROVE r1[x] <= r1[i]
      BY <2>1
    <3>1. CASE x = i
      BY <2>6, <3>1
    <3>2. CASE x # i
      <4>1. x \in A /\ ak \in A /\ r[x] <= r[ak] /\ r[x] \in Int /\ r[ak] \in Int
        <5>1. x \in A /\ ak \in A
          BY <2>8, <3>2
        <5>2. r[x] <= r[ak]
          BY <5>1 DEF ApartBy
        <5> QED
          BY <5>1, <5>2
      <4> QED
        BY <2>7, <3>2, <2>4, <4>1
    <3> QED
      BY <3>1, <3>2
  <2>16. ApartBy(n', list', ai', ak', aj', Stale', m, A1, F, r1)
    BY <1>1, <1>3, <2>3, <2>9, <2>10, <2>11, <2>12, <2>13, <2>14, <2>15 DEF ApartBy
  <2> QED
    BY <1>3, <2>6, <2>16 DEF Apart
<1> QED
  BY <1>5, <1>6

LEMMA RunTaskApart ==
  ASSUME TypeInv, RunTask, NEW st \in Stale,
         NEW m \in 0..(n - 1), NEW A \in SUBSET (0..(n - 1)),
         NEW F \in SUBSET (0..(n - 1)), NEW r \in [0..(n - 1) -> Int],
         ApartBy(n, list, ai, ak, aj, Stale, m, A, F, r)
  PROVE  Apart' /\ list[ai].call \notin cleared
<1> DEFINE i == ai
           A1 == IF list[i].next = End THEN {} ELSE {x \in A : r[x] > r[i]}
           F1 == F \cup {i}
           r1 == [r EXCEPT ![i] = IF aj \in F THEN r[aj] + 1 ELSE 0]
<1>1. /\ n \in Nat /\ i \in 0..(n - 1) /\ ai \in A
  BY SlotsAre DEF RunTask, TypeInv, HeadsOK, ApartBy, Links, End, Waiting
<1>2. /\ n' = n /\ list'[i].next = aj /\ list'[i].call \in {list[i].call, 0}
      /\ \A k \in 0..(n - 1) : k # i => list'[k] = list[k]
      /\ ai' = list[i].next /\ aj' = i
      /\ ak' = (IF list[i].next = End THEN End ELSE ak)
      /\ cleared' = cleared /\ detoured' = detoured
  BY <1>1, OneFreedArray DEF RunTask
<1>3. m \notin A
  BY RestNotActive
<1>4. i \notin F /\ i # m /\ i \notin m..(n - 2) /\ i \in A
  BY <1>1, <1>3 DEF ApartBy
<1>5. Stale' \subseteq Stale
  BY <1>2, StaleShrinks
<1>6. list[ai].call \notin cleared
  <2> SUFFICES ASSUME list[ai].call \in cleared PROVE FALSE
    OBVIOUS
  <2>1. ai \in Stale
    BY <1>1 DEF Stale
  <2>2. ai >= m /\ (ai = n - 1 => ai \notin A)
    BY <2>1 DEF ApartBy
  <2> QED
    BY <1>1, <1>4, <2>2
<1>7. list[i].next = End \/ (list[i].next \in A /\ r[list[i].next] > r[i])
  BY <1>4 DEF ApartBy
<1> HIDE DEF i
<1>8. /\ A1 \in SUBSET (0..(n - 1)) /\ A1 \subseteq A /\ i \notin A1
      /\ F1 \in SUBSET (0..(n - 1)) /\ r1 \in [0..(n - 1) -> Int]
      /\ \A x \in A1 : r[x] > r[i] /\ list[i].next # End
      /\ \A x \in A : r[x] > r[i] /\ list[i].next # End => x \in A1
      /\ \A x \in A : r[x] \in Int
  <2>0. (\A x \in A : r[x] \in Int) /\ \A x \in F : r[x] \in Int
    OBVIOUS
  <2>1. r1 \in [0..(n - 1) -> Int]
    <3> DEFINE v == IF aj \in F THEN r[aj] + 1 ELSE 0
    <3>1. v \in Int
      <4>1. CASE aj \in F
        <5>1. r[aj] \in Int /\ v = r[aj] + 1
          BY <2>0, <4>1
        <5> QED
          BY <5>1
      <4>2. CASE aj \notin F
        BY <4>2
      <4> QED
        BY <4>1, <4>2
    <3> HIDE DEF v
    <3>2. [r EXCEPT ![i] = v] \in [0..(n - 1) -> Int]
      BY <3>1
    <3> QED
      BY <3>2 DEF v
  <2>2. F1 \in SUBSET (0..(n - 1))
    BY <1>1
  <2>3. CASE list[i].next = End
    BY <2>0, <2>1, <2>2, <2>3
  <2>4. CASE list[i].next # End
    <3>1. A1 = {x \in A : r[x] > r[i]}
      BY <2>4
    <3>2. r[i] \in Int
      BY <1>1
    <3>3. i \notin A1
      BY <3>1, <3>2
    <3> QED
      BY <2>0, <2>1, <2>2, <2>4, <3>1, <3>3
  <2> QED
    BY <2>3, <2>4
<1>9. /\ r1[i] = IF aj \in F THEN r[aj] + 1 ELSE 0
      /\ \A x \in 0..(n - 1) : x # i => r1[x] = r[x]
      /\ \A x \in F : r[x] \in Int
  BY <1>1
<1>10. F1 = F \cup {i}
  OBVIOUS
<1> HIDE DEF A1, F1, r1
<1>11. \A s \in Stale' : s >= m /\ (s = n - 1 => s \notin A1)
  BY <1>5, <1>8 DEF ApartBy
<1>12. \A s \in m..(n - 2) : list'[s].next = s + 1 /\ s \notin A1 /\ s \notin F1
  <2> SUFFICES ASSUME NEW s \in m..(n - 2)
               PROVE  list'[s].next = s + 1 /\ s \notin A1 /\ s \notin F1
    OBVIOUS
  <2>1. list[s].next = s + 1 /\ s \notin A /\ s \notin F
    BY DEF ApartBy
  <2>2. s \in 0..(n - 1) /\ s # i
    BY <1>1, <1>4
  <2> QED
    BY <1>2, <1>8, <1>10, <2>1, <2>2
<1>13. A1 \cap F1 = {} /\ m \notin F1 /\ aj' \in F1 \cup {m}
  BY <1>2, <1>4, <1>8, <1>10 DEF ApartBy
<1>14. \A x \in F1 :
         list'[x].next = m \/ (list'[x].next \in F1 /\ r1[list'[x].next] < r1[x])
  <2> SUFFICES ASSUME NEW x \in F1
               PROVE  list'[x].next = m \/ (list'[x].next \in F1 /\ r1[list'[x].next] < r1[x])
    OBVIOUS
  <2>1. CASE x = i
    <3>1. aj \in F \/ aj = m
      BY DEF ApartBy
    <3>2. CASE aj \in F
      <4>1. r1[aj] = r[aj] /\ r[aj] \in Int /\ r1[i] = r[aj] + 1
        BY <1>4, <1>9, <3>2
      <4>2. r1[aj] < r1[i] /\ aj \in F1
        BY <1>10, <3>2, <4>1
      <4> QED
        BY <1>2, <2>1, <4>2
    <3> QED
      BY <1>2, <2>1, <3>1, <3>2
  <2>2. CASE x # i
    <3>1. x \in F /\ list'[x] = list[x]
      BY <1>2, <1>10, <2>2
    <3>2. list[x].next = m \/ (list[x].next \in F /\ r[list[x].next] < r[x])
      BY <3>1 DEF ApartBy
    <3> QED
      BY <1>4, <1>9, <1>10, <2>2, <3>1, <3>2
  <2> QED
    BY <2>1, <2>2
<1>15. ai' \in A1 \cup {End} /\ ak' \in A1 \cup {End}
  <2>1. CASE list[i].next = End
    BY <1>2, <2>1
  <2>2. CASE list[i].next # End
    <3>1. ai' \in A /\ r[ai'] > r[i]
      BY <1>2, <1>7, <2>2
    <3>2. CASE ak \in A
      <4>1. r[ai'] <= r[ak]
        BY <3>1, <3>2 DEF ApartBy
      <4>2. r[i] \in Int /\ r[ai'] \in Int /\ r[ak] \in Int
        BY <1>4, <1>8, <3>1, <3>2
      <4>3. r[ak] > r[i]
        BY <3>1, <4>1, <4>2
      <4> QED
        BY <1>2, <1>8, <2>2, <3>1, <3>2, <4>3
    <3>3. CASE ak = End
      BY <1>2, <1>8, <2>2, <3>1, <3>3
    <3> QED
      BY <3>2, <3>3 DEF ApartBy
  <2> QED
    BY <2>1, <2>2
<1>16. \A x \in A1 :
         list'[x].next = End \/ (list'[x].next \in A1 /\ r1[list'[x].next] > r1[x])
  <2> SUFFICES ASSUME NEW x \in A1
               PROVE  list'[x].next = End \/ (list'[x].next \in A1 /\ r1[list'[x].next] > r1[x])
    OBVIOUS
  <2>1. x \in A /\ x # i /\ r[x] > r[i] /\ list[i].next # End /\ list'[x] = list[x]
    BY <1>2, <1>8
  <2>2. CASE list[x].next = End
    BY <2>1, <2>2
  <2>3. CASE list[x].next \in A /\ r[list[x].next] > r[x]
    <3>1. r[list[x].next] > r[i]
      BY <1>4, <1>8, <2>1, <2>3
    <3>2. list[x].next \in A1
      BY <1>8, <2>1, <2>3, <3>1
    <3> QED
      BY <1>8, <1>9, <2>1, <2>3, <3>2
  <2> QED
    BY <2>1, <2>2, <2>3 DEF ApartBy
<1>17. ak' \in A1 => \A x \in A1 : r1[x] <= r1[ak']
  <2> SUFFICES ASSUME ak' \in A1, NEW x \in A1 PROVE r1[x] <= r1[ak']
    OBVIOUS
  <2>1. ak' = ak /\ ak \in A /\ x \in A /\ x # i /\ ak # i
    BY <1>2, <1>8
  <2>2. r[x] <= r[ak]
    BY <2>1 DEF ApartBy
  <2> QED
    BY <1>9, <2>1, <2>2
<1>18. ApartBy(n', list', ai', ak', aj', Stale', m, A1, F1, r1)
  BY <1>2, <1>11, <1>12, <1>13, <1>14, <1>15, <1>16, <1>17 DEF ApartBy
<1> QED
  BY <1>2, <1>6, <1>8, <1>18 DEF Apart
LEMMA TakenApart ==
  ASSUME TypeInv, NEW secs \in Delays, NEW f \in Funcs, NEW d \in Args \cup {NoArg},
         After(secs, f, d), NEW st \in Stale,
         NEW m \in 0..(n - 1), NEW A \in SUBSET (0..(n - 1)),
         NEW F \in SUBSET (0..(n - 1)), NEW r \in [0..(n - 1) -> Int],
         ApartBy(n, list, ai, ak, aj, Stale, m, A, F, r)
  PROVE  Apart'
<1> DEFINE i == aj
<1>1. n \in Nat /\ i \in 0..(n - 1) /\ i \in F \cup {m}
  BY SlotsAre DEF TypeInv, ApartBy
<1>2. /\ n' = n
      /\ list'[i].call = Len(due) + 1
      /\ \A k \in 0..(n - 1) : k # i => list'[k] = list[k]
      /\ aj' = list[i].next
  BY <1>1, AfterArray
<1>3. ai' = ai /\ ak' = ak /\ cleared' = cleared
  BY DEF After
<1>4. m \notin A
  BY RestNotActive
<1> HIDE DEF i
<1>5. Stale' \subseteq Stale /\ i \notin Stale'
  <2>1. Len(due) + 1 \notin cleared
    BY CallsAre DEF TypeInv, CallsOK, CountsOK
  <2> QED
    BY <1>1, <1>2, <1>3, <2>1 DEF Stale
<1>6. i \notin A
  BY <1>1, <1>4 DEF ApartBy
<1>7. \A x \in A :
        list'[x].next = End \/ (list'[x].next \in A /\ r[list'[x].next] > r[x])
  BY <1>2, <1>6 DEF ApartBy
<1>8. /\ ai' \in A \cup {End} /\ ak' \in A \cup {End}
      /\ ak' \in A => \A x \in A : r[x] <= r[ak']
  BY <1>3 DEF ApartBy
<1>9. CASE i \in F
  <2> DEFINE F1 == {x \in F : r[x] < r[i]}
  <2>1. F1 \in SUBSET (0..(n - 1)) /\ F1 \subseteq F /\ i \notin F1
    <3>1. r[i] \in Int /\ ~ (r[i] < r[i])
      BY <1>1
    <3>2. i \notin F1
      BY <3>1, Zenon
    <3>3. F1 \subseteq F
      OBVIOUS
    <3> HIDE DEF F1
    <3> QED
      BY <3>2, <3>3
  <2>2. list[i].next = m \/ (list[i].next \in F /\ r[list[i].next] < r[i])
    BY <1>9 DEF ApartBy
  <2>3. aj' \in F1 \cup {m}
    BY <1>2, <2>2
  <2>4. ASSUME NEW x \in F1
        PROVE  list'[x].next = m \/ (list'[x].next \in F1 /\ r[list'[x].next] < r[x])
    <3>1. x \in F /\ r[x] < r[i] /\ list'[x] = list[x]
      BY <1>2, <2>1
    <3>2. list[x].next = m \/ (list[x].next \in F /\ r[list[x].next] < r[x])
      BY <3>1 DEF ApartBy
    <3>3. CASE list[x].next \in F /\ r[list[x].next] < r[x]
      <4>1. r[list[x].next] \in Int /\ r[x] \in Int /\ r[i] \in Int
        BY <1>1, <3>1, <3>3
      <4>2. r[list[x].next] < r[i]
        BY <3>1, <3>3, <4>1
      <4> QED
        BY <3>1, <3>3, <4>2
    <3> QED
      BY <3>1, <3>2, <3>3
  <2> HIDE DEF F1
  <2>5. \A s \in Stale' : s >= m /\ (s = n - 1 => s \notin A)
    BY <1>5 DEF ApartBy
  <2>6. \A s \in m..(n - 2) : list'[s].next = s + 1 /\ s \notin A /\ s \notin F1
    <3> SUFFICES ASSUME NEW s \in m..(n - 2)
                 PROVE  list'[s].next = s + 1 /\ s \notin A /\ s \notin F1
      OBVIOUS
    <3>1. list[s].next = s + 1 /\ s \notin A /\ s \notin F /\ s \in 0..(n - 1)
      BY <1>1 DEF ApartBy
    <3> QED
      BY <1>2, <1>9, <2>1, <3>1
  <2>7. A \cap F1 = {} /\ m \notin F1
    BY <2>1 DEF ApartBy
  <2>8. ApartBy(n', list', ai', ak', aj', Stale', m, A, F1, r)
    BY <1>2, <1>7, <1>8, <2>3, <2>4, <2>5, <2>6, <2>7 DEF ApartBy
  <2> QED
    BY <1>2, <2>1, <2>8 DEF Apart
<1>10. CASE i = m
  <2>1. \A s \in Stale' : s \in 0..(n - 1) /\ s >= m + 1 /\ (s = n - 1 => s \notin A)
    <3> SUFFICES ASSUME NEW s \in Stale'
                 PROVE  s \in 0..(n - 1) /\ s >= m + 1 /\ (s = n - 1 => s \notin A)
      OBVIOUS
    <3>1. s \in Stale /\ s # m /\ s \in 0..(n - 1)
      BY <1>5, <1>10 DEF Stale
    <3>2. s >= m /\ (s = n - 1 => s \notin A)
      BY <3>1 DEF ApartBy
    <3> QED
      BY <1>1, <3>1, <3>2
  <2>2. CASE m = n - 1
    <3>1. Stale' = {}
      BY <1>1, <2>1, <2>2
    <3> QED
      BY <3>1 DEF Apart
  <2>3. CASE m # n - 1
    <3>1. m \in m..(n - 2) /\ m + 1 \in 0..(n - 1)
      BY <1>1, <2>3
    <3>2. aj' = m + 1
      BY <1>2, <1>10, <3>1 DEF ApartBy
    <3>3. ASSUME NEW s \in (m + 1)..(n - 2)
          PROVE  list'[s].next = s + 1 /\ s \notin A
      <4>1. s \in m..(n - 2) /\ s # m /\ s \in 0..(n - 1)
        BY <1>1
      <4>2. list[s].next = s + 1 /\ s \notin A
        BY <4>1 DEF ApartBy
      <4> QED
        BY <1>2, <1>10, <4>1, <4>2
    <3>4. ApartBy(n', list', ai', ak', aj', Stale', m + 1, A, {}, r)
      BY <1>2, <1>7, <1>8, <2>1, <3>2, <3>3 DEF ApartBy
    <3> QED
      BY <1>2, <3>1, <3>4 DEF Apart
  <2> QED
    BY <2>2, <2>3
<1> QED
  BY <1>1, <1>9, <1>10

LEMMA CancelWaitingApart ==
  ASSUME TypeInv, CancelWaiting, NEW st \in Stale,
         NEW m \in 0..(n - 1), NEW A \in SUBSET (0..(n - 1)),
         NEW F \in SUBSET (0..(n - 1)), NEW r \in [0..(n - 1) -> Int],
         ApartBy(n, list, ai, ak, aj, Stale, m, A, F, r)
  PROVE  Apart'
<1> DEFINE W == Cancellable
           base == IF aj \in F THEN r[aj] ELSE 0
           r1 == [x \in 0..(n - 1) |-> IF x \in W THEN base + 1 + x ELSE r[x]]
<1>1. Slots = 0..(n - 1) /\ n \in Nat
  BY SlotsAre DEF TypeInv
<1>2. /\ W \in SUBSET (0..(n - 1)) /\ WaitingFreed(W)
      /\ \A w \in W : list[w].next = -2
      /\ ai' = ai /\ ak' = ak /\ cleared' = cleared /\ detoured' = detoured
  BY <1>1 DEF Cancellable, CancelWaiting, Waiting
<1> HIDE DEF W
<1>3. /\ n' = n
      /\ \A w \in W : list'[w].next = Below(W, w) /\ list'[w].call \in {list[w].call, 0}
      /\ \A w \in W : Below(W, w) = aj \/ (Below(W, w) \in W /\ Below(W, w) < w)
      /\ \A k \in 0..(n - 1) : k \notin W => list'[k] = list[k]
      /\ W = {} => aj' = aj
      /\ W # {} => aj' \in W /\ \A w \in W : aj' >= w
  BY <1>2, WaitingFreedArray
<1>4. Stale' \subseteq Stale
  <2>1. \A k \in 0..(n - 1) : list'[k].call \in {list[k].call, 0}
    BY <1>3
  <2> QED
    BY <1>2, <1>3, <2>1, StaleShrinks
<1>5. -2 \notin A /\ -2 \notin F /\ m # -2 /\ -1 # -2
  BY <1>1
<1>6. W \cap A = {}
  <2>1. \A x \in A : list[x].next = -1 \/ list[x].next \in A
    BY DEF ApartBy, End
  <2> QED
    BY <1>2, <1>5, <2>1
<1>7. W \cap F = {}
  <2>1. \A x \in F : list[x].next = m \/ list[x].next \in F
    BY DEF ApartBy
  <2> QED
    BY <1>2, <1>5, <2>1
<1>8. \A s \in m..(n - 2) : s \notin W /\ s \in 0..(n - 1)
  <2> SUFFICES ASSUME NEW s \in m..(n - 2) PROVE s \notin W /\ s \in 0..(n - 1)
    OBVIOUS
  <2>1. list[s].next = s + 1 /\ s \in 0..(n - 1)
    BY <1>1 DEF ApartBy
  <2> QED
    BY <1>2, <2>1
<1>9. \A s \in Stale' : s >= m /\ (s = n - 1 => s \notin A)
  BY <1>4 DEF ApartBy
<1>10. ai' \in A \cup {End} /\ ak' \in A \cup {End}
  BY <1>2 DEF ApartBy
<1>11. \A s \in m..(n - 2) : list'[s].next = s + 1 /\ s \notin A /\ s \notin F
  BY <1>3, <1>8 DEF ApartBy
<1>12. CASE n - 1 \in W /\ m = n - 1
  <2>1. aj' = m
    <3>1. aj' \in 0..(n - 1) /\ aj' >= n - 1
      BY <1>2, <1>3, <1>12
    <3> QED
      BY <1>1, <1>12, <3>1
  <2>2. \A x \in A :
          list'[x].next = End \/ (list'[x].next \in A /\ r[list'[x].next] > r[x])
    BY <1>3, <1>6 DEF ApartBy
  <2>3. ak' \in A => \A x \in A : r[x] <= r[ak']
    BY <1>2 DEF ApartBy
  <2>4. ApartBy(n', list', ai', ak', aj', Stale', m, A, {}, r)
    BY <1>3, <1>9, <1>10, <1>11, <2>1, <2>2, <2>3 DEF ApartBy
  <2> QED
    BY <1>3, <2>4 DEF Apart
<1>13. CASE ~ (n - 1 \in W /\ m = n - 1)
  <2>1. m \notin W
    <3>1. m \in m..(n - 2) \/ m = n - 1
      BY <1>1
    <3> QED
      BY <1>8, <1>13, <3>1
  <2>2. (\A x \in F : r[x] \in Int) /\ \A x \in A : r[x] \in Int
    OBVIOUS
  <2>3. base \in Int /\ (aj \in F => base = r[aj])
    <3>1. CASE aj \in F
      BY <2>2, <3>1
    <3>2. CASE aj \notin F
      BY <3>2
    <3> QED
      BY <3>1, <3>2
  <2> HIDE DEF base
  <2>4. /\ r1 \in [0..(n - 1) -> Int]
        /\ \A x \in W : r1[x] = base + 1 + x /\ x \in Nat
        /\ \A x \in 0..(n - 1) : x \notin W => r1[x] = r[x]
    BY <1>1, <1>2, <2>3
  <2> HIDE DEF r1
  <2>5. aj' \in (F \cup W) \cup {m}
    BY <1>3 DEF ApartBy
  <2>6. ASSUME NEW x \in F \cup W
        PROVE  \/ list'[x].next = m
               \/ list'[x].next \in F \cup W /\ r1[list'[x].next] < r1[x]
    <3>1. CASE x \in W
      <4>1. CASE Below(W, x) = aj
        <5>1. list'[x].next = aj /\ aj \in F \cup {m}
          BY <1>3, <3>1, <4>1 DEF ApartBy
        <5>2. CASE aj \in F
          <6>1. r1[aj] = base
            BY <1>7, <2>3, <2>4, <5>2
          <6>2. r1[aj] < r1[x]
            BY <2>3, <2>4, <3>1, <6>1
          <6> QED
            BY <5>1, <5>2, <6>2
        <5> QED
          BY <5>1, <5>2
      <4>2. CASE Below(W, x) \in W /\ Below(W, x) < x
        <5>1. list'[x].next = Below(W, x)
          BY <1>3, <3>1
        <5>2. r1[Below(W, x)] < r1[x]
          <6>1. /\ r1[Below(W, x)] = base + 1 + Below(W, x) /\ Below(W, x) \in Nat
                /\ r1[x] = base + 1 + x /\ x \in Nat
            BY <2>4, <3>1, <4>2
          <6> QED
            BY <2>3, <4>2, <6>1
        <5> QED
          BY <4>2, <5>1, <5>2
      <4> QED
        BY <1>3, <3>1, <4>1, <4>2
    <3>2. CASE x \in F
      <4>1. x \notin W /\ list'[x] = list[x]
        BY <1>3, <1>7, <3>2
      <4>2. list[x].next = m \/ (list[x].next \in F /\ r[list[x].next] < r[x])
        BY <3>2 DEF ApartBy
      <4> QED
        BY <1>7, <2>4, <3>2, <4>1, <4>2
    <3> QED
      BY <3>1, <3>2
  <2>7. ASSUME NEW x \in A
        PROVE  list'[x].next = End \/ (list'[x].next \in A /\ r1[list'[x].next] > r1[x])
    <3>1. x \notin W /\ list'[x] = list[x]
      BY <1>3, <1>6
    <3>2. list[x].next = End \/ (list[x].next \in A /\ r[list[x].next] > r[x])
      BY DEF ApartBy
    <3> QED
      BY <1>6, <2>4, <3>1, <3>2
  <2>8. ak' \in A => \A x \in A : r1[x] <= r1[ak']
    <3> SUFFICES ASSUME ak \in A, NEW x \in A PROVE r1[x] <= r1[ak]
      BY <1>2
    <3>1. r[x] <= r[ak]
      BY DEF ApartBy
    <3> QED
      BY <1>6, <2>4, <3>1
  <2>9. A \cap (F \cup W) = {} /\ m \notin F \cup W
    BY <1>6, <2>1 DEF ApartBy
  <2>10. \A s \in m..(n - 2) : list'[s].next = s + 1 /\ s \notin A /\ s \notin F \cup W
    BY <1>8, <1>11
  <2>11. ApartBy(n', list', ai', ak', aj', Stale', m, A, F \cup W, r1)
    BY <1>3, <1>9, <1>10, <2>5, <2>6, <2>7, <2>8, <2>9, <2>10 DEF ApartBy
  <2>12. F \cup W \in SUBSET (0..(n - 1))
    BY <1>2
  <2> QED
    BY <1>3, <2>4, <2>11, <2>12 DEF Apart
<1> QED
  BY <1>12, <1>13
LEMMA NextStale == TypeInv /\ StaleInv /\ [Next]_vars => StaleInv'
<1> SUFFICES ASSUME TypeInv, StaleInv, [Next]_vars PROVE StaleInv'
  OBVIOUS
<1>1. TypeInv'
  BY NextTypes
<1>2. CASE \/ Tick \/ Typed \/ Finish \/ UNCHANGED vars
           \/ \E f \in Funcs, d \in Args \cup {NoArg} : Cancel(f, d)
           \/ WalkActive /\ ~ Matches(walk.i, walk.f, walk.d)
  <2>1. UNCHANGED <<slots, alarms, cleared, ran, detoured, due>>
    BY <1>2, QuietTypes, CancelTypes, WalkOnTypes
  <2>2. UNCHANGED <<list, ai, ak, aj, alarms, cleared, detoured>> /\ n' = n
    BY <2>1 DEF slots, n, Slots
  <2>3. Stale' = Stale
    BY <2>2 DEF Stale
  <2> QED
    BY <2>2, <2>3 DEF StaleInv, Apart, StaleIsSilent
<1>3. CASE Ring
  <2>1. /\ n' = n /\ cleared' = cleared /\ detoured' = detoured
        /\ \A x \in 1..Len(alarms') : \E y \in 1..Len(alarms) : alarms'[x] = alarms[y]
    BY <1>3, RingTypes DEF Ring, ghosts
  <2>2. Stale' \subseteq Stale
    <3>1. \A k \in 0..(n - 1) : list'[k].call \in {list[k].call, 0}
      <4>1. \A k \in 0..(n - 1) : list[k] \in SlotType /\ Slots = 0..(n - 1)
        BY SlotsAre DEF TypeInv, ListOK
      <4>2. CASE list' = list
        BY <4>2
      <4>3. CASE Activated(Head(alarms).slot)
        BY <4>1, <4>3 DEF Activated, SlotType
      <4> QED
        BY <1>3, <4>2, <4>3 DEF Ring
    <3> QED
      BY <2>1, <3>1, StaleShrinks
  <2>3. StaleIsSilent'
    BY <2>1, <2>2 DEF StaleInv, StaleIsSilent
  <2>4. CASE detoured \/ Stale = {}
    BY <2>1, <2>2, <2>3, <2>4 DEF StaleInv, Apart
  <2>5. CASE ~ (detoured \/ Stale = {})
    BY <1>3, <2>3, <2>5, RingApart DEF StaleInv, Apart
  <2> QED
    BY <2>4, <2>5
<1>4. CASE RunTask
  <2>1. /\ n' = n /\ cleared' = cleared /\ detoured' = detoured /\ alarms' = alarms
        /\ \A k \in 0..(n - 1) : list'[k].call \in {list[k].call, 0}
    <3>1. ai \in 0..(n - 1)
      BY <1>4 DEF RunTask, TypeInv, HeadsOK, Links, End, Waiting
    <3> QED
      BY <1>4, <3>1, OneFreedArray DEF RunTask
  <2>2. Stale' \subseteq Stale
    BY <2>1, StaleShrinks
  <2>3. StaleIsSilent'
    BY <2>1, <2>2 DEF StaleInv, StaleIsSilent
  <2>4. CASE detoured \/ Stale = {}
    BY <2>1, <2>2, <2>3, <2>4 DEF StaleInv, Apart
  <2>5. CASE ~ (detoured \/ Stale = {})
    BY <1>4, <2>3, <2>5, RunTaskApart DEF StaleInv, Apart
  <2> QED
    BY <2>4, <2>5
<1>5. CASE BadLink \/ Runaway \/ Fault
  <2>1. AllFreed /\ alarms' = <<>>
    BY <1>5 DEF BadLink, Runaway, Fault, Cleared
  <2>2. StaleIsSilent'
    BY <2>1 DEF StaleIsSilent
  <2> QED
    BY <2>1, <2>2, AllFreedApart DEF StaleInv
<1>6. CASE \E secs \in Delays, f \in Funcs, d \in Args \cup {NoArg} : After(secs, f, d)
  <2>1. PICK secs \in Delays, f \in Funcs, d \in Args \cup {NoArg} : After(secs, f, d)
    BY <1>6
  <2>2. PICK N \in n..MaxSlots : \E i \in 0..(N - 1) :
          /\ n' = N /\ list'[i].call = Len(due) + 1
          /\ \A k \in 0..(n - 1) : k # i => list'[k] = list[k]
          /\ \A k \in n..(N - 1) : k # i => list'[k].call = 0
          /\ AlarmSet(now + secs, i)
    BY <2>1, AfterArray
  <2>3. PICK i \in 0..(N - 1) :
          /\ n' = N /\ list'[i].call = Len(due) + 1
          /\ \A k \in 0..(n - 1) : k # i => list'[k] = list[k]
          /\ \A k \in n..(N - 1) : k # i => list'[k].call = 0
          /\ AlarmSet(now + secs, i)
    BY <2>2
  <2>4. /\ n \in Nat /\ N \in Nat /\ now + secs \in Nat /\ i \in Nat
        /\ cleared' = cleared /\ detoured' = detoured
    BY <2>1, <2>3, SlotsAre, AfterConstants DEF After, TypeInv, CountsOK
  <2>5. 0 \notin cleared /\ Len(due) + 1 \notin cleared
    BY CallsAre DEF TypeInv, CallsOK, CountsOK
  <2>6. Stale' \subseteq Stale /\ i \notin Stale'
    <3>1. \A k \in Stale' : k \in 0..(N - 1) /\ list'[k].call \in cleared
      BY <2>3, <2>4 DEF Stale
    <3>2. i \notin Stale'
      BY <2>3, <2>5, <3>1
    <3>3. \A k \in Stale' : k \in 0..(n - 1)
      <4> SUFFICES ASSUME NEW k \in Stale', k \notin 0..(n - 1) PROVE FALSE
        OBVIOUS
      <4>1. k \in n..(N - 1) /\ k # i
        BY <2>4, <3>1, <3>2
      <4> QED
        BY <2>3, <2>5, <3>1, <4>1
    <3> QED
      BY <2>3, <3>1, <3>2, <3>3 DEF Stale
  <2>7. StaleIsSilent'
    <3>1. \A x \in 1..Len(alarms') :
            \/ alarms'[x] = [time |-> now + secs, slot |-> i]
            \/ \E y \in 1..Len(alarms) : alarms'[x] = alarms[y]
      BY <2>3, <2>4, AlarmSetSeq
    <3>2. \A y \in 1..Len(alarms) : alarms[y].slot \notin Stale'
      BY <2>6 DEF StaleInv, StaleIsSilent
    <3>3. \A x \in 1..Len(alarms') : alarms'[x].slot \notin Stale'
      BY <2>6, <3>1, <3>2
    <3> QED
      BY <3>3 DEF StaleIsSilent
  <2>8. CASE detoured \/ Stale = {}
    BY <2>4, <2>6, <2>7, <2>8 DEF StaleInv, Apart
  <2>9. CASE ~ (detoured \/ Stale = {})
    BY <2>1, <2>7, <2>9, TakenApart DEF StaleInv, Apart
  <2> QED
    BY <2>8, <2>9
<1>7. CASE CancelAll
  <2>1. AllFreed /\ alarms' = alarms /\ cleared' = cleared
    BY <1>7 DEF CancelAll
  <2>2. n' = n /\ \A k \in 0..(n - 1) : list'[k].call \in {list[k].call, 0}
    BY <2>1, AllFreedArray
  <2>3. Stale' \subseteq Stale
    BY <2>1, <2>2, StaleShrinks
  <2>4. StaleIsSilent'
    BY <2>1, <2>3 DEF StaleInv, StaleIsSilent
  <2> QED
    BY <2>1, <2>4, AllFreedApart DEF StaleInv
<1>8. CASE WalkActive /\ Matches(walk.i, walk.f, walk.d)
  <2>1. detoured' = TRUE /\ alarms' = alarms /\ cleared' = cleared
    BY <1>8 DEF WalkActive
  <2>2. Stale' \subseteq Stale
    BY <1>8, <2>1, WalkMatchTypes, StaleShrinks
  <2> QED
    BY <2>1, <2>2 DEF StaleInv, StaleIsSilent, Apart
<1>9. CASE CancelWaiting
  <2>1. alarms' = alarms /\ cleared' = cleared /\ detoured' = detoured
    BY <1>9 DEF CancelWaiting
  <2>2. Cancellable \in SUBSET (0..(n - 1)) /\ WaitingFreed(Cancellable)
    BY <1>9, SlotsAre DEF Cancellable, CancelWaiting, TypeInv
  <2>3. n' = n /\ \A k \in 0..(n - 1) : list'[k].call \in {list[k].call, 0}
    BY <2>2, WaitingFreedArray
  <2>4. Stale' \subseteq Stale
    BY <2>1, <2>3, StaleShrinks
  <2>5. StaleIsSilent'
    BY <2>1, <2>4 DEF StaleInv, StaleIsSilent
  <2>6. CASE detoured \/ Stale = {}
    BY <2>1, <2>4, <2>5, <2>6 DEF StaleInv, Apart
  <2>7. CASE ~ (detoured \/ Stale = {})
    BY <1>9, <2>5, <2>7, CancelWaitingApart DEF StaleInv, Apart
  <2> QED
    BY <2>6, <2>7
<1> QED
  BY <1>2, <1>3, <1>4, <1>5, <1>6, <1>7, <1>8, <1>9 DEF Next

\* No step runs a call that an error has cleared, unless a request to cancel has
\* freed an active slot since (YError, ym_after_dq), for any sizes and functions.
THEOREM ErrorsAreFinal == Spec => ClearedStays
<1>1. Init => TypeInv /\ StaleInv
  <2> SUFFICES ASSUME Init PROVE TypeInv /\ StaleInv
    OBVIOUS
  <2>1. Stale = {} /\ alarms = <<>>
    BY DEF Init, Stale
  <2> QED
    BY <2>1, InitTypes DEF StaleInv, Apart, StaleIsSilent
<1>2. TypeInv /\ StaleInv /\ [Next]_vars => (TypeInv /\ StaleInv)'
  BY NextTypes, NextStale
<1>3. TypeInv /\ StaleInv /\ [Next]_vars => [~detoured => ran' \cap cleared \subseteq ran]_vars
  <2> SUFFICES ASSUME TypeInv, StaleInv, [Next]_vars, ~detoured
               PROVE  ran' \cap cleared \subseteq ran \/ UNCHANGED vars
    OBVIOUS
  <2>1. CASE RunTask
    <3>1. ran' = ran \cup {list[ai].call}
      BY <2>1 DEF RunTask
    <3>2. list[ai].call \notin cleared
      <4>1. CASE Stale = {}
        <5>1. ai \in 0..(n - 1)
          BY <2>1 DEF RunTask, TypeInv, HeadsOK, Links, End, Waiting
        <5> QED
          BY <4>1, <5>1 DEF Stale
      <4>2. CASE Stale # {}
        BY <2>1, <4>2, RunTaskApart DEF StaleInv, Apart
      <4> QED
        BY <4>1, <4>2
    <3> QED
      BY <3>1, <3>2
  <2>2. CASE ~ RunTask
    <3>1. ran' = ran \/ UNCHANGED vars
      BY <2>2 DEF Next, Tick, Ring, BadLink, Typed, Finish, After, Runaway, Fault, Cleared,
                  CancelAll, Cancel, WalkActive, CancelWaiting, ghosts
    <3> QED
      BY <3>1
  <2> QED
    BY <2>1, <2>2
<1> QED
  BY <1>1, <1>2, <1>3, PTL DEF Spec, ClearedStays

-----------------------------------------------------------------------------
(* As long as nothing was cancelled, the slots in use stand in one line, in  *)
(* the order in which their calls are to run: first the active ones, linked  *)
(* from ai to ak, then those that wait, in the order of their alarms.  The   *)
(* other slots are linked from aj.                                           *)

\* Call c is to run before call b.
Sooner(c, b) == due[c] < due[b] \/ (due[c] = due[b] /\ c < b)

\* U is the line of the u slots in use, F the list of the f free ones.
Filled(u, U, f, F) ==
  /\ u \in Nat /\ u = tasks + Len(alarms) /\ U \in [1..u -> 0..(n - 1)]
  /\ f \in Nat /\ F \in [1..f -> 0..(n - 1)]
  /\ \A j, k \in 1..f : F[j] = F[k] => j = k
  /\ \A j \in 1..u, k \in 1..f : U[j] # F[k]
  /\ \A i \in 0..(n - 1) : (\E j \in 1..u : U[j] = i) \/ (\E k \in 1..f : F[k] = i)

ActiveIs(U) ==
  /\ ai = IF tasks = 0 THEN End ELSE U[1]
  /\ ak = IF tasks = 0 THEN End ELSE U[tasks]
  /\ \A k \in 1..tasks : list[U[k]].next = IF k = tasks THEN End ELSE U[k + 1]

AlarmsAre(U) ==
  \A x \in 1..Len(alarms) :
    /\ alarms[x].slot = U[tasks + x]
    /\ list[U[tasks + x]].next = Waiting
    /\ alarms[x].time = due[list[U[tasks + x]].call]

FreeIs(f, F) ==
  /\ aj = IF f = 0 THEN End ELSE F[1]
  /\ \A k \in 1..f : list[F[k]].next = IF k = f THEN End ELSE F[k + 1]

Holding(u, U) ==
  /\ \A k \in 1..u : list[U[k]].call \in Kept
  /\ \A c \in Kept : \E k \in 1..u : list[U[k]].call = c
  /\ ran \subseteq 1..Len(due)

InOrder(u, U) ==
  /\ \A j, k \in 1..u : j < k => Sooner(list[U[j]].call, list[U[k]].call)
  /\ \A k \in 1..tasks : due[list[U[k]].call] <= now

Lined(u, U, f, F) ==
  /\ Filled(u, U, f, F) /\ ActiveIs(U) /\ AlarmsAre(U) /\ FreeIs(f, F)
  /\ Holding(u, U) /\ InOrder(u, U)

LineInv == spoiled \/ \E u, U, f, F : Lined(u, U, f, F)

\* What the types say of a line.
LEMMA LineTypes ==
  ASSUME TypeInv, NEW u, NEW U, NEW f, NEW F, Lined(u, U, f, F)
  PROVE  /\ Slots = 0..(n - 1) /\ n \in Nat
         /\ tasks \in Nat /\ Len(alarms) \in Nat /\ u \in Nat /\ u = tasks + Len(alarms)
         /\ U \in [1..u -> 0..(n - 1)] /\ f \in Nat /\ F \in [1..f -> 0..(n - 1)]
         /\ list \in [0..(n - 1) -> SlotType]
         /\ \A k \in 1..u :
              /\ list[U[k]].call \in 1..Len(due)
              /\ due[list[U[k]].call] \in Nat
         /\ \A j, k \in 1..u : U[j] = U[k] => j = k
         /\ Len(due) \in Nat /\ now \in Nat
<1>1. Slots = 0..(n - 1) /\ n \in Nat /\ list \in [0..(n - 1) -> SlotType]
  BY SlotsAre DEF TypeInv, ListOK
<1>2. tasks \in Nat /\ now \in Nat /\ due \in Seq(Nat) /\ Len(due) \in Nat /\ Len(alarms) \in Nat
  BY CallsAre, AfterConstants, LenProperties DEF TypeInv, CountsOK, AlarmsOK
<1>3. /\ u \in Nat /\ u = tasks + Len(alarms) /\ U \in [1..u -> 0..(n - 1)]
      /\ f \in Nat /\ F \in [1..f -> 0..(n - 1)]
  BY DEF Lined, Filled
<1>4. ASSUME NEW k \in 1..u
      PROVE  list[U[k]].call \in 1..Len(due) /\ due[list[U[k]].call] \in Nat
  <2>1. list[U[k]].call \in 1..Len(due)
    BY <1>2, KeptAre DEF Lined, Holding
  <2> QED
    BY <1>2, <2>1, ElementOfSeq
<1>5. ASSUME NEW j \in 1..u, NEW k \in 1..u, j < k, U[j] = U[k] PROVE FALSE
  <2>1. Sooner(list[U[j]].call, list[U[k]].call)
    BY <1>5 DEF Lined, InOrder
  <2>2. list[U[j]].call \in Nat /\ due[list[U[j]].call] \in Nat
    BY <1>4, <1>2
  <2> QED
    BY <1>5, <2>1, <2>2 DEF Sooner
<1>6. \A j, k \in 1..u : U[j] = U[k] => j = k
  <2> SUFFICES ASSUME NEW j \in 1..u, NEW k \in 1..u, U[j] = U[k], j # k PROVE FALSE
    OBVIOUS
  <2>1. j < k \/ k < j
    BY <1>3
  <2> QED
    BY <2>1, <1>5
<1> QED
  BY <1>1, <1>2, <1>3, <1>4, <1>6

LEMMA InitLine == Init => LineInv
<1> SUFFICES ASSUME Init PROVE \E u, U, f, F : Lined(u, U, f, F)
  BY DEF LineInv
<1>1. TypeInv
  BY InitTypes
<1>2. /\ list = [i \in {} |-> NoWalk] /\ alarms = <<>> /\ tasks = 0 /\ ai = End /\ ak = End
      /\ aj = End /\ due = <<>> /\ ran = {}
  BY DEF Init
<1>3. n = 0
  <2>1. 0..(0 - 1) = {} /\ list \in [0..(0 - 1) -> {NoWalk}]
    BY <1>2
  <2> QED
    BY <2>1, SizeIs DEF n, Slots
<1> DEFINE U == [k \in 1..0 |-> 0]
<1>4. 1..0 = {} /\ 0..(n - 1) = {} /\ U \in [1..0 -> 0..(n - 1)]
  BY <1>3
<1>5. Len(alarms) = 0 /\ Kept = {}
  BY <1>2 DEF Kept, Calls
<1> HIDE DEF U
<1>6. Filled(0, U, 0, U)
  BY <1>2, <1>4, <1>5 DEF Filled
<1>7. ActiveIs(U) /\ AlarmsAre(U) /\ FreeIs(0, U) /\ Holding(0, U) /\ InOrder(0, U)
  BY <1>2, <1>4, <1>5 DEF ActiveIs, AlarmsAre, FreeIs, Holding, InOrder
<1> QED
  BY <1>6, <1>7 DEF Lined

\* The steps that change neither slots nor calls.
LEMMA SameLine ==
  ASSUME TypeInv, TypeInv', NEW u, NEW U, NEW f, NEW F, Lined(u, U, f, F), now' >= now,
         UNCHANGED <<list, ai, ak, aj, tasks, alarms, due, ran, cleared>>
  PROVE  Lined(u, U, f, F)'
<1>1. n' = n /\ Kept' = Kept
  BY DEF n, Slots, Kept, Calls
<1>2. Filled(u, U, f, F)' /\ ActiveIs(U)' /\ AlarmsAre(U)' /\ FreeIs(f, F)' /\ Holding(u, U)'
  BY <1>1 DEF Lined, Filled, ActiveIs, AlarmsAre, FreeIs, Holding
<1>3. InOrder(u, U)'
  <2>1. /\ \A k \in 1..u : due[list[U[k]].call] \in Nat
        /\ now \in Nat /\ now' \in Nat /\ tasks \in Nat /\ u \in Nat /\ tasks <= u
    BY LineTypes, AfterConstants DEF TypeInv, CountsOK
  <2>2. \A k \in 1..tasks : k \in 1..u
    BY <2>1
  <2>3. \A k \in 1..tasks : due[list[U[k]].call] <= now'
    BY <2>1, <2>2 DEF Lined, InOrder
  <2>4. \A j, k \in 1..u : j < k => Sooner(list[U[j]].call, list[U[k]].call)'
    BY DEF Lined, InOrder, Sooner
  <2> QED
    BY <2>3, <2>4 DEF InOrder
<1> QED
  BY <1>2, <1>3 DEF Lined


\* The alarm that rings first is that of the call that is to run first after
\* the active ones.
LEMMA RingLine ==
  ASSUME TypeInv, Ring, NEW u, NEW U, NEW f, NEW F, Lined(u, U, f, F)
  PROVE  Lined(u, U, f, F)'
<1> DEFINE i == U[tasks + 1]
<1>1. /\ Slots = 0..(n - 1) /\ n \in Nat
      /\ tasks \in Nat /\ Len(alarms) \in Nat /\ u \in Nat /\ u = tasks + Len(alarms)
      /\ U \in [1..u -> 0..(n - 1)] /\ f \in Nat /\ F \in [1..f -> 0..(n - 1)]
      /\ list \in [0..(n - 1) -> SlotType]
      /\ \A j, k \in 1..u : U[j] = U[k] => j = k
  BY LineTypes
<1>2. /\ alarms \in Seq(Alarm) /\ alarms # <<>> /\ alarms' = Tail(alarms)
      /\ Head(alarms) = alarms[1] /\ alarms[1].time <= now
      /\ UNCHANGED <<now, aj, due, ran, cleared>>
  BY DEF Ring, AlarmDue, TypeInv, AlarmsOK, ghosts
<1>3. /\ Len(alarms) >= 1 /\ Len(alarms') = Len(alarms) - 1
      /\ \A x \in 1..Len(alarms') : alarms'[x] = alarms[x + 1]
  BY <1>1, <1>2, HeadTailProperties, EmptySeq
<1>4. /\ alarms[1].slot = i /\ list[i].next = Waiting /\ alarms[1].time = due[list[i].call]
  BY <1>1, <1>3 DEF Lined, AlarmsAre
<1>5. i \in 0..(n - 1) /\ tasks + 1 \in 1..u
  BY <1>1, <1>3
<1>6. Activated(i)
  BY <1>2, <1>4 DEF Ring
<1>7. /\ list' = [s \in 0..(n - 1) |->
            IF s = i THEN [list[s] EXCEPT !.next = End]
            ELSE IF s = ak THEN [list[s] EXCEPT !.next = i] ELSE list[s]]
      /\ ai' = (IF ak >= 0 THEN ai ELSE i) /\ ak' = i /\ tasks' = tasks + 1
  BY <1>1, <1>6 DEF Activated
<1>8. n' = n /\ Kept' = Kept
  BY <1>2, RingTypes DEF Kept, Calls
<1>9. \A s \in 0..(n - 1) :
        /\ list'[s].call = list[s].call
        /\ list'[s].next = IF s = i THEN End ELSE IF s = ak THEN i ELSE list[s].next
  BY <1>1, <1>7 DEF SlotType
<1> HIDE DEF i
<1>10. /\ ai = IF tasks = 0 THEN End ELSE U[1]
       /\ ak = IF tasks = 0 THEN End ELSE U[tasks]
       /\ \A k \in 1..tasks : list[U[k]].next = IF k = tasks THEN End ELSE U[k + 1]
  BY DEF Lined, ActiveIs
<1>11. \A k \in 1..u : k # tasks + 1 => U[k] # i
  BY <1>1, <1>5 DEF i
<1>12. \A k \in 1..u : k # tasks => U[k] # ak
  BY <1>1, <1>10 DEF End
<1>13. Filled(u, U, f, F)'
  BY <1>1, <1>3, <1>7, <1>8 DEF Lined, Filled
<1>14. ActiveIs(U)'
  <2>1. ai' = U[1]
    BY <1>1, <1>7, <1>10 DEF End, i
  <2>2. ak' = U[tasks'] /\ tasks' # 0
    BY <1>1, <1>7 DEF i
  <2>3. ASSUME NEW k \in 1..tasks'
        PROVE  list'[U[k]].next = IF k = tasks' THEN End ELSE U[k + 1]
    <3>1. k \in 1..u /\ U[k] \in 0..(n - 1)
      BY <1>1, <1>3, <1>7
    <3>2. CASE k = tasks + 1
      BY <1>7, <1>9, <3>1, <3>2 DEF i
    <3>3. CASE k = tasks
      <4>1. U[k] = ak /\ U[k] # i /\ k # tasks'
        BY <1>1, <1>7, <1>10, <1>11, <3>1, <3>3
      <4> QED
        BY <1>9, <3>1, <3>3, <4>1 DEF i
    <3>4. CASE k < tasks
      <4>1. U[k] # ak /\ U[k] # i /\ k # tasks' /\ k # tasks /\ k \in 1..tasks
        BY <1>1, <1>7, <1>11, <1>12, <3>1, <3>4
      <4> QED
        BY <1>9, <1>10, <3>1, <4>1
    <3> QED
      BY <1>1, <1>7, <3>2, <3>3, <3>4
  <2> QED
    BY <2>1, <2>2, <2>3 DEF ActiveIs
<1>15. AlarmsAre(U)'
  <2> SUFFICES ASSUME NEW x \in 1..Len(alarms')
               PROVE  /\ alarms'[x].slot = U[tasks' + x]
                      /\ list'[U[tasks' + x]].next = Waiting
                      /\ alarms'[x].time = due'[list'[U[tasks' + x]].call]
    BY DEF AlarmsAre
  <2>0. tasks \in Nat /\ Len(alarms) \in Nat /\ x \in Nat /\ tasks' = tasks + 1
    BY <1>1, <1>7, <1>3
  <2>1. x + 1 \in 1..Len(alarms) /\ alarms'[x] = alarms[x + 1] /\ tasks' + x = tasks + (x + 1)
    BY <1>3, <2>0
  <2> DEFINE k == tasks + (x + 1)
  <2>2. k \in 1..u /\ k # tasks + 1 /\ k # tasks
    BY <1>1, <2>1
  <2>3. U[k] \in 0..(n - 1) /\ U[k] # i /\ U[k] # ak
    BY <1>1, <1>11, <1>12, <2>2
  <2>4. /\ alarms[x + 1].slot = U[k] /\ list[U[k]].next = Waiting
        /\ alarms[x + 1].time = due[list[U[k]].call]
    BY <2>1 DEF Lined, AlarmsAre
  <2> QED
    BY <1>2, <1>9, <2>1, <2>3, <2>4
<1>16. FreeIs(f, F)'
  <2>1. \A k \in 1..f : F[k] # i /\ F[k] # ak /\ F[k] \in 0..(n - 1)
    <3>1. \A j \in 1..u, k \in 1..f : U[j] # F[k]
      BY DEF Lined, Filled
    <3>2. \A k \in 1..f : F[k] \in 0..(n - 1) /\ F[k] # i
      BY <1>1, <1>5, <3>1 DEF i
    <3>3. tasks # 0 => tasks \in 1..u
      BY <1>1
    <3> QED
      BY <1>10, <3>1, <3>2, <3>3 DEF End
  <2> QED
    BY <1>2, <1>9, <2>1 DEF Lined, FreeIs
<1>17. Holding(u, U)' /\ InOrder(u, U)'
  <2>1. \A k \in 1..u : list'[U[k]].call = list[U[k]].call
    BY <1>1, <1>9
  <2>2. Holding(u, U)'
    BY <1>2, <1>8, <2>1 DEF Lined, Holding
  <2>3. \A j, k \in 1..u : j < k => Sooner(list[U[j]].call, list[U[k]].call)'
    BY <1>2, <2>1 DEF Lined, InOrder, Sooner
  <2>4. \A k \in 1..tasks' : due'[list'[U[k]].call] <= now'
    <3>1. \A k \in 1..tasks' : k \in 1..u /\ (k \in 1..tasks \/ k = tasks + 1)
      BY <1>1, <1>3, <1>7
    <3>2. due[list[i].call] <= now
      BY <1>2, <1>4
    <3> QED
      BY <1>2, <2>1, <3>1, <3>2 DEF Lined, InOrder, i
  <2> QED
    BY <2>2, <2>3, <2>4 DEF InOrder
<1> QED
  BY <1>13, <1>14, <1>15, <1>16, <1>17 DEF Lined

\* A task takes the first of the line, and its slot becomes the first free one.
LEMMA RunTaskLine ==
  ASSUME TypeInv, RunTask, NEW u, NEW U, NEW f, NEW F, Lined(u, U, f, F)
  PROVE  \E v, V, g, G : Lined(v, V, g, G)'
<1>1. /\ Slots = 0..(n - 1) /\ n \in Nat
      /\ tasks \in Nat /\ Len(alarms) \in Nat /\ u \in Nat /\ u = tasks + Len(alarms)
      /\ U \in [1..u -> 0..(n - 1)] /\ f \in Nat /\ F \in [1..f -> 0..(n - 1)]
      /\ \A j, k \in 1..u : U[j] = U[k] => j = k
      /\ \A k \in 1..u : list[U[k]].call \in 1..Len(due) /\ due[list[U[k]].call] \in Nat
  BY LineTypes
<1>2. /\ ai = IF tasks = 0 THEN End ELSE U[1]
      /\ ak = IF tasks = 0 THEN End ELSE U[tasks]
      /\ \A k \in 1..tasks : list[U[k]].next = IF k = tasks THEN End ELSE U[k + 1]
  BY DEF Lined, ActiveIs
<1>3. /\ tasks > 0 /\ tasks' = tasks - 1 /\ ai' = list[ai].next
      /\ ak' = (IF list[ai].next = End THEN End ELSE ak) /\ aj' = ai
      /\ list' = [list EXCEPT ![ai] = Freed(@, aj)]
      /\ ran' = ran \cup {list[ai].call} /\ UNCHANGED <<now, alarms, due, cleared>>
  BY DEF RunTask
<1>4. ai = U[1] /\ 1 \in 1..u /\ ai \in 0..(n - 1)
  <2>1. tasks # 0 /\ 1 \in 1..u
    BY <1>1, <1>3
  <2> QED
    BY <1>1, <1>2, <2>1
<1>5. /\ n' = n /\ list'[ai].next = aj
      /\ \A k \in 0..(n - 1) : k # ai => list'[k] = list[k]
  BY <1>3, <1>4, OneFreedArray
<1> DEFINE v == u - 1
           V == [k \in 1..v |-> U[k + 1]]
           g == f + 1
           G == [k \in 1..g |-> IF k = 1 THEN U[1] ELSE F[k - 1]]
<1>6. /\ v \in Nat /\ v = u - 1 /\ g = f + 1 /\ v = tasks' + Len(alarms') /\ g \in Nat
      /\ \A k \in 1..v : k + 1 \in 1..u /\ V[k] = U[k + 1] /\ V[k] # ai
      /\ \A k \in 1..g : G[k] = IF k = 1 THEN U[1] ELSE F[k - 1]
      /\ \A k \in 1..g : k = 1 \/ k - 1 \in 1..f
      /\ V \in [1..v -> 0..(n - 1)]
  BY <1>1, <1>3, <1>4
<1>7. G \in [1..g -> 0..(n - 1)]
  BY <1>1, <1>4, <1>6
<1> HIDE DEF v, V, g, G
<1>8. /\ \A j, k \in 1..f : F[j] = F[k] => j = k
      /\ \A j \in 1..u, k \in 1..f : U[j] # F[k]
      /\ \A i \in 0..(n - 1) : (\E j \in 1..u : U[j] = i) \/ (\E k \in 1..f : F[k] = i)
  BY DEF Lined, Filled
<1>9. Filled(v, V, g, G)'
  <2>1. ASSUME NEW j \in 1..g, NEW k \in 1..g, G[j] = G[k] PROVE j = k
    <3>1. CASE j = 1
      BY <1>4, <1>6, <1>8, <2>1, <3>1
    <3>2. CASE k = 1
      BY <1>4, <1>6, <1>8, <2>1, <3>2
    <3>3. CASE j # 1 /\ k # 1
      <4>1. j - 1 \in 1..f /\ k - 1 \in 1..f /\ F[j - 1] = F[k - 1]
        BY <1>6, <2>1, <3>3
      <4>2. j - 1 = k - 1 /\ j \in Int /\ k \in Int
        BY <1>1, <1>6, <1>8, <4>1
      <4> QED
        BY <4>2
    <3> QED
      BY <3>1, <3>2, <3>3
  <2>2. ASSUME NEW j \in 1..v, NEW k \in 1..g PROVE V[j] # G[k]
    <3>1. j + 1 \in 1..u /\ V[j] = U[j + 1] /\ V[j] # ai
      BY <1>6
    <3>2. CASE k = 1
      BY <1>4, <1>6, <3>1, <3>2
    <3>3. CASE k # 1
      BY <1>6, <1>8, <3>1, <3>3
    <3> QED
      BY <3>2, <3>3
  <2>3. ASSUME NEW i \in 0..(n - 1)
        PROVE  (\E j \in 1..v : V[j] = i) \/ (\E k \in 1..g : G[k] = i)
    <3>1. CASE \E k \in 1..f : F[k] = i
      <4>1. PICK k \in 1..f : F[k] = i
        BY <3>1
      <4>2. k + 1 \in 1..g /\ k + 1 # 1 /\ (k + 1) - 1 = k
        BY <1>1, <1>6
      <4>3. G[k + 1] = i
        BY <1>6, <4>1, <4>2
      <4> QED
        BY <4>2, <4>3
    <3>2. CASE \E j \in 1..u : U[j] = i
      <4>1. PICK j \in 1..u : U[j] = i
        BY <3>2
      <4>2. CASE j = 1
        <5>1. 1 \in 1..g /\ G[1] = i
          BY <1>1, <1>4, <1>6, <4>1, <4>2 DEF g
        <5> QED
          BY <5>1
      <4>3. CASE j # 1
        <5>1. j - 1 \in 1..v /\ V[j - 1] = i
          BY <1>1, <1>6, <4>1, <4>3 DEF v
        <5> QED
          BY <5>1
      <4> QED
        BY <4>2, <4>3
    <3> QED
      BY <1>8, <3>1, <3>2
  <2> QED
    BY <1>5, <1>6, <1>7, <2>1, <2>2, <2>3 DEF Filled
<1>10. \A k \in 1..v : list'[V[k]] = list[U[k + 1]]
  BY <1>1, <1>5, <1>6
<1>11. ActiveIs(V)'
  <2>1. ai' = IF tasks = 1 THEN End ELSE U[2]
    BY <1>1, <1>2, <1>3, <1>4
  <2>2. tasks # 1 => U[2] # End /\ 1 \in 1..v /\ tasks' \in 1..v
    <3>1. tasks # 1 => 2 \in 1..u /\ 1 \in 1..v /\ tasks' \in 1..v
      BY <1>1, <1>3, <1>6
    <3> QED
      BY <1>1, <3>1 DEF End
  <2>3. ai' = IF tasks' = 0 THEN End ELSE V[1]
    BY <1>1, <1>3, <1>6, <2>1, <2>2
  <2>4. ak' = IF tasks' = 0 THEN End ELSE V[tasks']
    BY <1>1, <1>2, <1>3, <1>6, <2>1, <2>2
  <2>5. ASSUME NEW k \in 1..tasks'
        PROVE  list'[V[k]].next = IF k = tasks' THEN End ELSE V[k + 1]
    <3>1. k \in 1..v /\ k + 1 \in 1..tasks /\ (k # tasks' => k + 1 \in 1..v)
      BY <1>1, <1>3, <1>6
    <3>2. list'[V[k]].next = IF k + 1 = tasks THEN End ELSE U[k + 2]
      BY <1>2, <1>10, <3>1
    <3> QED
      BY <1>1, <1>3, <1>6, <3>1, <3>2
  <2> QED
    BY <2>3, <2>4, <2>5 DEF ActiveIs
<1>12. AlarmsAre(V)'
  <2> SUFFICES ASSUME NEW x \in 1..Len(alarms)
               PROVE  /\ alarms[x].slot = V[tasks' + x]
                      /\ list'[V[tasks' + x]].next = Waiting
                      /\ alarms[x].time = due[list'[V[tasks' + x]].call]
    BY <1>3 DEF AlarmsAre
  <2>1. tasks' + x \in 1..v /\ (tasks' + x) + 1 = tasks + x
    BY <1>1, <1>3, <1>6
  <2>2. V[tasks' + x] = U[tasks + x] /\ list'[V[tasks' + x]] = list[U[tasks + x]]
    BY <1>6, <1>10, <2>1
  <2> QED
    BY <2>2 DEF Lined, AlarmsAre
<1>13. FreeIs(g, G)'
  <2>1. \A k \in 1..f : list'[F[k]] = list[F[k]] /\ list[F[k]].next = IF k = f THEN End ELSE F[k + 1]
    <3>1. \A k \in 1..f : F[k] # ai /\ F[k] \in 0..(n - 1)
      BY <1>1, <1>4, <1>8
    <3> QED
      BY <1>5, <3>1 DEF Lined, FreeIs
  <2>2. aj = IF f = 0 THEN End ELSE F[1]
    BY DEF Lined, FreeIs
  <2>3. ASSUME NEW k \in 1..g PROVE list'[G[k]].next = IF k = g THEN End ELSE G[k + 1]
    <3>1. CASE k = 1
      <4>1. list'[G[k]].next = aj
        BY <1>4, <1>5, <1>6, <3>1
      <4>2. k # g => 2 \in 1..g /\ G[k + 1] = F[1] /\ f # 0
        BY <1>1, <1>6, <3>1 DEF g
      <4> QED
        BY <1>1, <2>2, <3>1, <4>1, <4>2 DEF g
    <3>2. CASE k # 1
      <4>1. k - 1 \in 1..f /\ G[k] = F[k - 1]
        BY <1>6, <3>2
      <4>2. list'[G[k]].next = IF k - 1 = f THEN End ELSE F[k]
        BY <2>1, <4>1
      <4>3. k # g => k + 1 \in 1..g /\ k + 1 # 1 /\ (k + 1) - 1 = k
        BY <1>1, <4>1 DEF g
      <4> QED
        BY <1>1, <1>6, <4>2, <4>3 DEF g
    <3> QED
      BY <3>1, <3>2
  <2>4. aj' = G[1] /\ g # 0
    BY <1>1, <1>3, <1>4, <1>6
  <2> QED
    BY <2>3, <2>4 DEF FreeIs
<1>14. Holding(v, V)'
  <2>1. Kept' = Kept \ {list[U[1]].call}
    BY <1>3, <1>4 DEF Kept, Calls
  <2>2. \A k \in 1..u : k # 1 => list[U[k]].call # list[U[1]].call
    <3>1. ASSUME NEW k \in 1..u, k # 1, list[U[k]].call = list[U[1]].call PROVE FALSE
      <4>1. Sooner(list[U[1]].call, list[U[k]].call)
        BY <1>4, <3>1 DEF Lined, InOrder
      <4> QED
        BY <1>1, <1>4, <3>1, <4>1 DEF Sooner
    <3> QED
      BY <3>1
  <2>3. \A k \in 1..v : list'[V[k]].call \in Kept'
    BY <1>6, <1>10, <2>1, <2>2 DEF Lined, Holding
  <2>4. ASSUME NEW c \in Kept' PROVE \E k \in 1..v : list'[V[k]].call = c
    <3>1. PICK k \in 1..u : list[U[k]].call = c
      BY <2>1 DEF Lined, Holding
    <3>2. k # 1 /\ k - 1 \in 1..v /\ (k - 1) + 1 = k
      BY <1>1, <2>1, <3>1 DEF v
    <3> QED
      BY <1>10, <3>1, <3>2
  <2>5. ran' \subseteq 1..Len(due')
    <3>1. ran \subseteq 1..Len(due)
      BY DEF Lined, Holding
    <3>2. list[ai].call \in 1..Len(due)
      BY <1>1, <1>4
    <3> QED
      BY <1>3, <3>1, <3>2
  <2> QED
    BY <2>3, <2>4, <2>5 DEF Holding
<1>15. InOrder(v, V)'
  <2>1. ASSUME NEW j \in 1..v, NEW k \in 1..v, j < k
        PROVE  Sooner(list[U[j + 1]].call, list[U[k + 1]].call)
    <3>1. j + 1 \in 1..u /\ k + 1 \in 1..u /\ j + 1 < k + 1
      BY <1>6, <2>1
    <3> QED
      BY <3>1 DEF Lined, InOrder
  <2>2. \A j, k \in 1..v : j < k => Sooner(list'[V[j]].call, list'[V[k]].call)
    BY <1>10, <2>1
  <2>3. \A k \in 1..tasks' : due[list'[V[k]].call] <= now
    <3>1. \A k \in 1..tasks' : k \in 1..v /\ k + 1 \in 1..tasks
      BY <1>1, <1>3, <1>6
    <3> QED
      BY <1>10, <3>1 DEF Lined, InOrder
  <2> QED
    BY <1>3, <2>2, <2>3 DEF InOrder, Sooner
<1> QED
  BY <1>9, <1>11, <1>12, <1>13, <1>14, <1>15 DEF Lined

\* An error that finds no slot free frees all of them, in their order.
LEMMA ClearedLine ==
  ASSUME TypeInv, Cleared, ~ (aj >= 0), NEW u, NEW U, NEW f, NEW F, Lined(u, U, f, F)
  PROVE  \E v, V, g, G : Lined(v, V, g, G)'
<1>1. AllFreed /\ tasks' = 0 /\ alarms' = <<>> /\ UNCHANGED <<now, due, ran>>
  BY DEF Cleared
<1>2. /\ n' = n
      /\ \A i \in 0..(n - 1) : list'[i].next = IF i = n - 1 THEN aj ELSE i + 1
      /\ aj' = IF n = 0 THEN aj ELSE 0
      /\ ai' = End /\ ak' = End
  BY <1>1, AllFreedArray
<1>3. n \in Nat /\ f \in Nat /\ F \in [1..f -> 0..(n - 1)]
  BY LineTypes
<1>4. aj = End
  <2>1. f # 0 => F[1] \in Nat
    BY <1>3
  <2> QED
    BY <2>1 DEF Lined, FreeIs
<1>5. Kept' = {} /\ Len(alarms') = 0
  BY <1>1 DEF Cleared, Kept, Calls
<1>6. PICK m \in Nat : m = n
  BY <1>3
<1> DEFINE V == [k \in 1..0 |-> 0]
           G == [k \in 1..m |-> k - 1]
<1>7. /\ n' = m /\ 1..0 = {} /\ V \in [1..0 -> 0..(m - 1)] /\ G \in [1..m -> 0..(m - 1)]
      /\ \A k \in 1..m : G[k] = k - 1
      /\ \A i \in 0..(m - 1) : i + 1 \in 1..m /\ G[i + 1] = i
  BY <1>2, <1>6
<1> HIDE DEF V, G
<1>8. Filled(0, V, m, G)'
  <2>1. \A j, k \in 1..m : G[j] = G[k] => j = k
    BY <1>7
  <2>2. \A i \in 0..(m - 1) : \E k \in 1..m : G[k] = i
    BY <1>7
  <2> QED
    BY <1>1, <1>5, <1>7, <2>1, <2>2 DEF Filled
<1>9. FreeIs(m, G)'
  <2>1. aj' = IF m = 0 THEN End ELSE G[1]
    BY <1>2, <1>4, <1>6, <1>7
  <2>2. ASSUME NEW k \in 1..m PROVE list'[G[k]].next = IF k = m THEN End ELSE G[k + 1]
    <3>1. G[k] \in 0..(n - 1) /\ G[k] = k - 1 /\ (k # m => k + 1 \in 1..m)
      BY <1>6, <1>7
    <3>2. list'[G[k]].next = IF k = m THEN End ELSE k
      BY <1>2, <1>4, <1>6, <1>7, <3>1
    <3> QED
      BY <1>7, <3>1, <3>2
  <2> QED
    BY <2>1, <2>2 DEF FreeIs
<1>10. ActiveIs(V)' /\ AlarmsAre(V)' /\ Holding(0, V)' /\ InOrder(0, V)'
  BY <1>1, <1>2, <1>5, <1>7 DEF Lined, ActiveIs, AlarmsAre, Holding, InOrder
<1> QED
  BY <1>8, <1>9, <1>10 DEF Lined

\* A set of numbers that goes without gaps from 1 to its largest.
LEMMA Without ==
  ASSUME NEW L \in Nat, NEW S \in SUBSET (1..L),
         \A x \in S, y \in 1..L : y < x => y \in S
  PROVE  Cardinality(S) \in 0..L /\ S = 1..Cardinality(S)
<1>1. CASE S = {}
  <2>1. Cardinality(S) = 0
    BY <1>1, FS_EmptySet
  <2> QED
    BY <1>1, <2>1
<1>2. CASE S # {}
  <2>1. S \in SUBSET (0..((L + 1) - 1)) /\ L + 1 \in Nat
    OBVIOUS
  <2>2. Max(S) \in S /\ \A y \in S : Max(S) >= y
    BY <1>2, <2>1, MaxIs
  <2> DEFINE m == Max(S)
  <2> HIDE DEF m
  <2>3. m \in 1..L /\ m \in S /\ \A y \in S : m >= y
    BY <2>2 DEF m
  <2>4. \A y \in 1..m : y \in 1..L /\ (y = m \/ y < m)
    BY <2>3
  <2>5. \A y \in 1..m : y \in S
    BY <2>3, <2>4
  <2>6. \A y \in S : y \in 1..m
    BY <2>3
  <2>7. S = 1..m
    BY <2>5, <2>6, Zenon
  <2> QED
    BY <2>3, <2>7, CountTo
<1> QED
  BY <1>1, <1>2

\* p_set_alarm puts an alarm after all those of the same time or earlier.
LEMMA AlarmPlace ==
  ASSUME TypeInv, NEW time \in Nat, NEW slot \in Nat, AlarmSet(time, slot),
         \A x, y \in 1..Len(alarms) : x < y => alarms[x].time <= alarms[y].time
  PROVE  \E e \in 0..Len(alarms) :
           /\ Len(alarms') = Len(alarms) + 1
           /\ \A x \in 1..Len(alarms) : x <= e <=> alarms[x].time <= time
           /\ \A x \in 1..(Len(alarms) + 1) :
                alarms'[x] = IF x < e + 1 THEN alarms[x]
                             ELSE IF x = e + 1 THEN [time |-> time, slot |-> slot]
                             ELSE alarms[x - 1]
<1> DEFINE E == {x \in DOMAIN alarms : alarms[x].time <= time}
           a == [time |-> time, slot |-> slot]
           e == Cardinality(E)
<1>1. alarms \in Seq(Alarm) /\ Len(alarms) \in Nat /\ DOMAIN alarms = 1..Len(alarms)
  BY LenProperties DEF TypeInv, AlarmsOK
<1>2. \A x \in 1..Len(alarms) : alarms[x].time \in Nat
  <2>1. \A x \in 1..Len(alarms) : alarms[x] \in Alarm
    BY <1>1, ElementOfSeq
  <2> QED
    BY <2>1 DEF Alarm
<1>3. E \in SUBSET (1..Len(alarms))
  BY <1>1
<1>4. \A x \in E, y \in 1..Len(alarms) : y < x => y \in E
  BY <1>1, <1>2
<1>5. e \in 0..Len(alarms) /\ E = 1..e
  BY <1>1, <1>3, <1>4, Without
<1>6. \A x \in 1..Len(alarms) : x \in E <=> alarms[x].time <= time
  BY <1>1
<1>7. alarms' = InsertAt(alarms, e + 1, a) /\ a \in Alarm
  BY DEF AlarmSet, Alarm
<1> HIDE DEF E, e, a
<1>8. e + 1 \in 1..(Len(alarms) + 1)
  BY <1>1, <1>5
<1>9. /\ Len(alarms') = Len(alarms) + 1
      /\ \A x \in 1..(Len(alarms) + 1) :
           alarms'[x] = IF x < e + 1 THEN alarms[x] ELSE IF x = e + 1 THEN a ELSE alarms[x - 1]
  <2>1. PICK k \in 1..(Len(alarms) + 1) : k = e + 1
    BY <1>8
  <2> DEFINE t == InsertAt(alarms, k, a)
  <2>2. /\ Len(t) = Len(alarms) + 1
        /\ \A x \in 1..(Len(alarms) + 1) :
             t[x] = IF x < k THEN alarms[x] ELSE IF x = k THEN a ELSE alarms[x - 1]
    BY <1>1, <1>7, InsertAtProperties
  <2>3. t = alarms'
    BY <1>7, <2>1
  <2> HIDE DEF t
  <2> QED
    BY <2>1, <2>2, <2>3
<1>10. \A x \in 1..Len(alarms) : x <= e <=> alarms[x].time <= time
  BY <1>5, <1>6
<1> QED
  BY <1>5, <1>9, <1>10 DEF a

\* A call of after that finds no slot free: the new slots are linked behind the
\* one it takes.
LEMMA AfterGrows ==
  ASSUME TypeInv, NEW secs \in Delays, NEW f \in Funcs, NEW d \in Args \cup {NoArg},
         After(secs, f, d), ~ (aj >= 0)
  PROVE  \E N \in Nat :
           /\ n < N /\ n' = N
           /\ list'[n].next = Waiting /\ list'[n].call = Len(due) + 1
           /\ \A k \in 0..(n - 1) : list'[k] = list[k]
           /\ \A k \in (n + 1)..(N - 1) : list'[k].next = IF k < N - 1 THEN k + 1 ELSE End
           /\ aj' = IF n < N - 1 THEN n + 1 ELSE End
           /\ AlarmSet(now + secs, n)
<1>1. Slots = 0..(n - 1) /\ n \in Nat /\ Len(due) \in Nat /\ list \in [0..(n - 1) -> SlotType]
  BY SlotsAre, CallsAre DEF TypeInv, CountsOK, ListOK
<1> DEFINE N == IF n = 0 THEN Chunk ELSE 2 * n
           fresh(i) == [f |-> None, d |-> NoArg, call |-> NoCall,
                        next |-> IF i < N - 1 THEN i + 1 ELSE End]
           l == [i \in 0..(N - 1) |-> IF i \in 0..(n - 1) THEN list[i] ELSE fresh(i)]
           slot == [f |-> f, d |-> d, next |-> Waiting, call |-> Len(due) + 1]
<1>2. Lengthened = [list |-> l, head |-> n]
  BY <1>1 DEF Lengthened
<1>3. N \in Nat /\ n < N
  BY <1>1, AfterConstants
<1>4. aj' = l[n].next /\ list' = [l EXCEPT ![n] = slot] /\ AlarmSet(now + secs, n)
  <2>1. Lengthened.list = l /\ Lengthened.head = n
    BY <1>2
  <2> HIDE DEF l
  <2> QED
    BY <2>1 DEF After
<1>5. \A i \in 0..(N - 1) : fresh(i).next = IF i < N - 1 THEN i + 1 ELSE End
  OBVIOUS
<1> HIDE DEF N, fresh
<1>6. n \in 0..(N - 1) /\ n \notin 0..(n - 1)
  BY <1>1, <1>3
<1>7. aj' = IF n < N - 1 THEN n + 1 ELSE End
  BY <1>4, <1>5, <1>6
<1>8. /\ \A k \in 0..(N - 1) : k # n => list'[k] = l[k]
      /\ list'[n] = slot /\ DOMAIN list' = 0..(N - 1)
  BY <1>4, <1>6
<1>9. \A k \in 0..(n - 1) : list'[k] = list[k]
  BY <1>1, <1>3, <1>8
<1>10. \A k \in (n + 1)..(N - 1) : list'[k].next = IF k < N - 1 THEN k + 1 ELSE End
  <2> SUFFICES ASSUME NEW k \in (n + 1)..(N - 1)
               PROVE  list'[k].next = IF k < N - 1 THEN k + 1 ELSE End
    OBVIOUS
  <2>1. k \in 0..(N - 1) /\ k # n /\ k \notin 0..(n - 1)
    BY <1>1, <1>3
  <2> QED
    BY <1>5, <1>8, <2>1
<1>11. n' = N
  <2>1. Slots' = 0..(N - 1)
    BY <1>8 DEF Slots
  <2>2. Cardinality(0..(N - 1)) = N
    BY <1>3, FS_Interval
  <2> QED
    BY <2>1, <2>2 DEF n
<1>12. list'[n].next = Waiting /\ list'[n].call = Len(due) + 1
  BY <1>8
<1> QED
  BY <1>3, <1>4, <1>7, <1>9, <1>10, <1>11, <1>12

\* The slot i of N is taken for a call that is to run at `time', and the slots
\* of G, linked from aj, are left.
Taken(N, i, g, G, u, U, time) ==
  /\ N \in Nat /\ i \in 0..(N - 1) /\ g \in Nat /\ G \in [1..g -> 0..(N - 1)]
  /\ n <= N /\ n' = N /\ AlarmSet(time, i)
  /\ list'[i].next = Waiting /\ list'[i].call = Len(due) + 1
  /\ \A k \in 0..(n - 1) : k # i => list'[k] = list[k]
  /\ \A j \in 1..u : U[j] # i
  /\ \A k \in 1..g : G[k] # i
  /\ \A j, k \in 1..g : G[j] = G[k] => j = k
  /\ \A j \in 1..u, k \in 1..g : U[j] # G[k]
  /\ \A x \in 0..(N - 1) :
       x = i \/ (\E j \in 1..u : U[j] = x) \/ (\E k \in 1..g : G[k] = x)
  /\ FreeIs(g, G)'

\* The slot that a call of after takes, and the free slots it leaves.
LEMMA AfterFree ==
  ASSUME TypeInv, NEW secs \in Delays, NEW h \in Funcs, NEW d \in Args \cup {NoArg},
         After(secs, h, d), NEW u, NEW U, NEW f, NEW F, Lined(u, U, f, F)
  PROVE  \E N, i, g, G : Taken(N, i, g, G, u, U, now + secs)
<1>1. /\ n \in Nat /\ u \in Nat /\ U \in [1..u -> 0..(n - 1)]
      /\ f \in Nat /\ F \in [1..f -> 0..(n - 1)]
  BY LineTypes
<1>2. /\ aj = IF f = 0 THEN End ELSE F[1]
      /\ \A k \in 1..f : list[F[k]].next = IF k = f THEN End ELSE F[k + 1]
  BY DEF Lined, FreeIs
<1>3. /\ \A j, k \in 1..f : F[j] = F[k] => j = k
      /\ \A j \in 1..u, k \in 1..f : U[j] # F[k]
      /\ \A i \in 0..(n - 1) : (\E j \in 1..u : U[j] = i) \/ (\E k \in 1..f : F[k] = i)
  BY DEF Lined, Filled
<1>4. CASE aj >= 0
  <2>1. f # 0 /\ aj = F[1] /\ 1 \in 1..f /\ aj \in 0..(n - 1)
    BY <1>1, <1>2, <1>4 DEF End
  <2>2. PICK i \in 0..(n - 1) :
          /\ n' = n /\ i = aj /\ aj' = list[aj].next /\ AlarmSet(now + secs, i)
          /\ list'[i].next = Waiting /\ list'[i].call = Len(due) + 1
          /\ \A k \in 0..(n - 1) : k # i => list'[k] = list[k]
    BY <1>4, AfterArray
  <2> DEFINE g == f - 1
             G == [k \in 1..g |-> F[k + 1]]
  <2>3. /\ g \in Nat /\ g = f - 1 /\ \A k \in 1..g : k + 1 \in 1..f /\ k + 1 # 1
        /\ \A k \in 1..g : G[k] = F[k + 1] /\ G[k] # i
        /\ G \in [1..g -> 0..(n - 1)]
    BY <1>1, <1>3, <2>1, <2>2
  <2> HIDE DEF g, G
  <2>4. \A j, k \in 1..g : G[j] = G[k] => j = k
    <3> SUFFICES ASSUME NEW j \in 1..g, NEW k \in 1..g, G[j] = G[k] PROVE j = k
      OBVIOUS
    <3>1. F[j + 1] = F[k + 1] /\ j + 1 \in 1..f /\ k + 1 \in 1..f
      BY <2>3
    <3>2. j + 1 = k + 1
      BY <1>3, <3>1
    <3> QED
      BY <3>2
  <2>5. \A j \in 1..u, k \in 1..g : U[j] # G[k]
    BY <1>3, <2>3
  <2>6. ASSUME NEW x \in 0..(n - 1)
        PROVE  x = i \/ (\E j \in 1..u : U[j] = x) \/ (\E k \in 1..g : G[k] = x)
    <3>1. CASE \E k \in 1..f : F[k] = x
      <4>1. PICK k \in 1..f : F[k] = x
        BY <3>1
      <4>2. CASE k = 1
        BY <2>1, <2>2, <4>1, <4>2
      <4>3. CASE k # 1
        <5>1. k - 1 \in 1..g /\ (k - 1) + 1 = k
          BY <1>1, <2>3, <4>3
        <5>2. G[k - 1] = x
          BY <2>3, <4>1, <5>1
        <5> QED
          BY <5>1, <5>2
      <4> QED
        BY <4>2, <4>3
    <3> QED
      BY <1>3, <3>1
  <2>7. FreeIs(g, G)'
    <3>1. aj' = IF g = 0 THEN End ELSE G[1]
      <4>1. aj' = IF 1 = f THEN End ELSE F[2]
        BY <1>2, <2>1, <2>2
      <4>2. g # 0 => 1 \in 1..g
        <5>1. g \in Nat
          BY <2>3
        <5> QED
          BY <5>1
      <4> QED
        BY <1>1, <2>3, <4>1, <4>2
    <3>2. ASSUME NEW k \in 1..g PROVE list'[G[k]].next = IF k = g THEN End ELSE G[k + 1]
      <4>1. list'[G[k]] = list[F[k + 1]]
        BY <1>1, <2>2, <2>3
      <4>2. list'[G[k]].next = IF k + 1 = f THEN End ELSE F[(k + 1) + 1]
        BY <1>2, <2>3, <4>1
      <4>3. (k + 1 = f <=> k = g) /\ (k # g => k + 1 \in 1..g)
        BY <1>1, <2>3
      <4> QED
        BY <2>3, <4>2, <4>3
    <3> QED
      BY <3>1, <3>2 DEF FreeIs
  <2>8. \A j \in 1..u : U[j] # i
    BY <1>3, <2>1, <2>2
  <2>9. n <= n
    BY <1>1
  <2> QED
    BY <1>1, <2>2, <2>3, <2>4, <2>5, <2>6, <2>7, <2>8, <2>9 DEF Taken
<1>5. CASE ~ (aj >= 0)
  <2>1. f = 0
    <3>1. f # 0 => F[1] \in Nat
      BY <1>1
    <3> QED
      BY <1>2, <1>5, <3>1
  <2>2. PICK N \in Nat :
          /\ n < N /\ n' = N
          /\ list'[n].next = Waiting /\ list'[n].call = Len(due) + 1
          /\ \A k \in 0..(n - 1) : list'[k] = list[k]
          /\ \A k \in (n + 1)..(N - 1) : list'[k].next = IF k < N - 1 THEN k + 1 ELSE End
          /\ aj' = IF n < N - 1 THEN n + 1 ELSE End
          /\ AlarmSet(now + secs, n)
    BY <1>5, AfterGrows
  <2>3. PICK m \in 0..(N - 1) : m = n
    BY <1>1, <2>2
  <2> DEFINE g == N - 1 - m
             G == [k \in 1..g |-> m + k]
  <2>4. /\ g \in Nat /\ g = N - 1 - m /\ m \in Nat
        /\ \A k \in 1..g : G[k] = m + k /\ G[k] \in (m + 1)..(N - 1)
        /\ G \in [1..g -> 0..(N - 1)]
    BY <2>3
  <2> HIDE DEF g, G
  <2>5. \A j, k \in 1..g : G[j] = G[k] => j = k
    BY <2>4
  <2>6. \A j \in 1..u : U[j] \in 0..(m - 1)
    BY <1>1, <2>3
  <2>7. \A j \in 1..u, k \in 1..g : U[j] # G[k]
    <3>1. \A j \in 1..u : U[j] < m /\ \A k \in 1..g : G[k] > m
      BY <2>4, <2>6
    <3> QED
      BY <2>4, <2>6, <3>1
  <2>8. ASSUME NEW x \in 0..(N - 1)
        PROVE  x = m \/ (\E j \in 1..u : U[j] = x) \/ (\E k \in 1..g : G[k] = x)
    <3>1. CASE x < m
      BY <1>3, <2>1, <2>3, <2>4, <3>1
    <3>2. CASE x > m
      <4>1. x - m \in 1..g /\ m + (x - m) = x
        BY <2>4, <3>2
      <4> QED
        BY <2>4, <4>1
    <3> QED
      BY <2>4, <3>1, <3>2
  <2>9. FreeIs(g, G)'
    <3>1. aj' = IF g = 0 THEN End ELSE G[1]
      BY <2>2, <2>3, <2>4
    <3>2. ASSUME NEW k \in 1..g PROVE list'[G[k]].next = IF k = g THEN End ELSE G[k + 1]
      <4>1. G[k] \in (n + 1)..(N - 1) /\ G[k] = m + k
        BY <2>3, <2>4
      <4>2. list'[G[k]].next = IF m + k < N - 1 THEN (m + k) + 1 ELSE End
        BY <2>2, <4>1
      <4>3. (m + k < N - 1 <=> k # g) /\ (k # g => k + 1 \in 1..g /\ (m + k) + 1 = m + (k + 1))
        BY <2>4
      <4> QED
        BY <2>4, <4>2, <4>3
    <3> QED
      BY <3>1, <3>2 DEF FreeIs
  <2>10. /\ n <= N /\ list'[m].next = Waiting /\ list'[m].call = Len(due) + 1
         /\ AlarmSet(now + secs, m) /\ n' = N
         /\ \A k \in 0..(n - 1) : k # m => list'[k] = list[k]
    BY <1>1, <2>2, <2>3
  <2>11. (\A j \in 1..u : U[j] # m) /\ (\A k \in 1..g : G[k] # m)
    BY <2>4, <2>6
  <2> QED
    BY <2>4, <2>5, <2>7, <2>8, <2>9, <2>10, <2>11 DEF Taken
<1> QED
  BY <1>4, <1>5

\* The new call gets its place in the line: behind all those of the same time
\* or earlier, the active ones among them.
LEMMA AfterLine ==
  ASSUME TypeInv, NEW secs \in Delays, NEW h \in Funcs, NEW d \in Args \cup {NoArg},
         After(secs, h, d), NEW u, NEW U, NEW f, NEW F, Lined(u, U, f, F)
  PROVE  \E v, V, g, G : Lined(v, V, g, G)'
<1>1. /\ n \in Nat /\ tasks \in Nat /\ Len(alarms) \in Nat /\ u \in Nat
      /\ u = tasks + Len(alarms) /\ U \in [1..u -> 0..(n - 1)]
      /\ \A k \in 1..u : list[U[k]].call \in 1..Len(due) /\ due[list[U[k]].call] \in Nat
      /\ Len(due) \in Nat /\ now \in Nat
  BY LineTypes
<1>2. PICK N, i, g, G : Taken(N, i, g, G, u, U, now + secs)
  BY AfterFree
<1>4. /\ N \in Nat /\ i \in 0..(N - 1) /\ g \in Nat /\ G \in [1..g -> 0..(N - 1)]
      /\ n <= N /\ n' = N /\ AlarmSet(now + secs, i)
      /\ list'[i].next = Waiting /\ list'[i].call = Len(due) + 1
      /\ \A k \in 0..(n - 1) : k # i => list'[k] = list[k]
      /\ \A j \in 1..u : U[j] # i
      /\ \A k \in 1..g : G[k] # i
      /\ \A j, k \in 1..g : G[j] = G[k] => j = k
      /\ \A j \in 1..u, k \in 1..g : U[j] # G[k]
      /\ \A x \in 0..(N - 1) :
           x = i \/ (\E j \in 1..u : U[j] = x) \/ (\E k \in 1..g : G[k] = x)
      /\ FreeIs(g, G)'
  BY <1>2 DEF Taken
<1> DEFINE time == now + secs
<1>5. /\ time \in Nat /\ i \in Nat /\ due \in Seq(Nat) /\ due' = Append(due, time)
      /\ UNCHANGED <<now, ai, ak, tasks, ran, cleared>> /\ time >= now
  <2>1. secs \in Nat /\ due \in Seq(Nat)
    BY AfterConstants DEF TypeInv, CountsOK
  <2>2. due' = Append(due, time) /\ UNCHANGED <<now, ai, ak, tasks, ran, cleared>>
    BY DEF After
  <2> QED
    BY <1>1, <1>4, <2>1, <2>2
<1> HIDE DEF time
<1>6. ASSUME NEW x \in 1..Len(alarms)
      PROVE  /\ tasks + x \in 1..u /\ alarms[x].slot = U[tasks + x]
             /\ list[U[tasks + x]].next = Waiting
             /\ alarms[x].time = due[list[U[tasks + x]].call]
  BY <1>1 DEF Lined, AlarmsAre
<1>7. \A j, k \in 1..u : j < k => Sooner(list[U[j]].call, list[U[k]].call)
  BY DEF Lined, InOrder
<1>8. \A x, y \in 1..Len(alarms) : x < y => alarms[x].time <= alarms[y].time
  <2> SUFFICES ASSUME NEW x \in 1..Len(alarms), NEW y \in 1..Len(alarms), x < y
               PROVE  alarms[x].time <= alarms[y].time
    OBVIOUS
  <2>1. tasks + x \in 1..u /\ tasks + y \in 1..u /\ tasks + x < tasks + y
    BY <1>1, <1>6
  <2>2. Sooner(list[U[tasks + x]].call, list[U[tasks + y]].call)
    BY <1>7, <2>1
  <2>3. due[list[U[tasks + x]].call] \in Nat /\ due[list[U[tasks + y]].call] \in Nat
    BY <1>1, <2>1
  <2> QED
    BY <1>6, <2>2, <2>3 DEF Sooner
<1>9. AlarmSet(time, i)
  BY <1>4 DEF time
<1>10. PICK e \in 0..Len(alarms) :
         /\ Len(alarms') = Len(alarms) + 1
         /\ \A x \in 1..Len(alarms) : x <= e <=> alarms[x].time <= time
         /\ \A x \in 1..(Len(alarms) + 1) :
              alarms'[x] = IF x < e + 1 THEN alarms[x]
                           ELSE IF x = e + 1 THEN [time |-> time, slot |-> i]
                           ELSE alarms[x - 1]
  BY <1>5, <1>8, <1>9, AlarmPlace
<1>11. PICK p \in Nat : p = tasks + e + 1
  BY <1>1
<1> DEFINE v == u + 1
           V == [k \in 1..v |-> IF k < p THEN U[k] ELSE IF k = p THEN i ELSE U[k - 1]]
<1>12. /\ v \in Nat /\ v = u + 1 /\ v = tasks' + Len(alarms') /\ p \in 1..v
       /\ \A k \in 1..v : V[k] = IF k < p THEN U[k] ELSE IF k = p THEN i ELSE U[k - 1]
       /\ \A k \in 1..v : (k < p => k \in 1..u) /\ (k > p => k - 1 \in 1..u)
       /\ tasks < p
  BY <1>1, <1>5, <1>10, <1>11
<1> HIDE DEF v, V
<1>13. V \in [1..v -> 0..(N - 1)]
  <2>0. n <= N /\ N \in Nat /\ i \in 0..(N - 1)
    BY <1>4
  <2>1. \A k \in 1..u : U[k] \in 0..(N - 1)
    <3>1. \A x \in 0..(n - 1) : x \in 0..(N - 1)
      BY <1>1, <2>0
    <3> QED
      BY <1>1, <3>1
  <2>2. ASSUME NEW k \in 1..v PROVE V[k] \in 0..(N - 1)
    <3>1. k < p \/ k = p \/ k > p
      BY <1>11, <1>12
    <3>2. CASE k < p
      BY <1>12, <2>1, <3>2
    <3>3. CASE k = p
      BY <1>12, <2>0, <3>3
    <3>4. CASE k > p
      <4>1. V[k] = U[k - 1] /\ k - 1 \in 1..u
        BY <1>11, <1>12, <3>4
      <4> QED
        BY <2>1, <4>1
    <3> QED
      BY <3>1, <3>2, <3>3, <3>4
  <2>3. V = [k \in 1..v |-> IF k < p THEN U[k] ELSE IF k = p THEN i ELSE U[k - 1]]
    BY DEF V
  <2> QED
    BY <2>2, <2>3
\* Where the former ones have gone.
<1> DEFINE to(k) == IF k < p THEN k ELSE k + 1
<1>14. ASSUME NEW k \in 1..u
       PROVE  /\ to(k) \in 1..v /\ to(k) # p /\ V[to(k)] = U[k] /\ list'[U[k]] = list[U[k]]
  <2>1. to(k) \in 1..v /\ to(k) # p /\ (to(k) < p => to(k) = k) /\ (to(k) > p => to(k) - 1 = k)
    BY <1>1, <1>12
  <2>2. V[to(k)] = U[k]
    BY <1>12, <2>1
  <2>3. list'[U[k]] = list[U[k]]
    BY <1>1, <1>4
  <2> QED
    BY <2>1, <2>2, <2>3
<1>15. ASSUME NEW k \in 1..v, k # p
       PROVE  \E j \in 1..u : k = to(j)
  <2>1. CASE k < p
    BY <1>12, <2>1
  <2>2. CASE k > p
    <3>1. k - 1 \in 1..u /\ ~ (k - 1 < p) /\ (k - 1) + 1 = k
      BY <1>12, <2>2
    <3> QED
      BY <3>1
  <2> QED
    BY <1>12, <1>15, <2>1, <2>2
<1>16. \A j, k \in 1..u : to(j) < to(k) => j < k
  BY <1>1, <1>12
<1>17. V[p] = i
  BY <1>12
<1>18. Filled(v, V, g, G)'
  <2>1. \A j \in 1..v, k \in 1..g : V[j] # G[k]
    <3> SUFFICES ASSUME NEW j \in 1..v, NEW k \in 1..g PROVE V[j] # G[k]
      OBVIOUS
    <3>1. CASE j = p
      BY <1>4, <1>17, <3>1
    <3>2. CASE j # p
      <4>1. PICK x \in 1..u : j = to(x)
        BY <1>15, <3>2
      <4>2. V[j] = U[x]
        BY <1>14, <4>1
      <4> QED
        BY <1>4, <4>2
    <3> QED
      BY <3>1, <3>2
  <2>2. \A x \in 0..(N - 1) : (\E j \in 1..v : V[j] = x) \/ (\E k \in 1..g : G[k] = x)
    <3> SUFFICES ASSUME NEW x \in 0..(N - 1)
                 PROVE  (\E j \in 1..v : V[j] = x) \/ (\E k \in 1..g : G[k] = x)
      OBVIOUS
    <3>1. CASE x = i
      BY <1>12, <1>17, <3>1
    <3>2. CASE \E j \in 1..u : U[j] = x
      BY <1>14, <3>2
    <3> QED
      BY <1>4, <3>1, <3>2
  <2> QED
    BY <1>4, <1>12, <1>13, <2>1, <2>2 DEF Filled
<1>19. \A k \in 1..tasks : k \in 1..u /\ k \in 1..v /\ V[k] = U[k] /\ list'[V[k]] = list[U[k]]
  <2>1. \A k \in 1..tasks : k \in 1..u /\ k < p /\ k \in 1..v
    BY <1>1, <1>12
  <2> QED
    BY <1>12, <1>14, <2>1
<1>20. ActiveIs(V)'
  <2>1. /\ ai = IF tasks = 0 THEN End ELSE U[1]
        /\ ak = IF tasks = 0 THEN End ELSE U[tasks]
        /\ \A k \in 1..tasks : list[U[k]].next = IF k = tasks THEN End ELSE U[k + 1]
    BY DEF Lined, ActiveIs
  <2>2. tasks # 0 => 1 \in 1..tasks /\ tasks \in 1..tasks
    BY <1>1
  <2>3. \A k \in 1..tasks : k # tasks => k + 1 \in 1..tasks
    BY <1>1
  <2> QED
    BY <1>5, <1>19, <2>1, <2>2, <2>3 DEF ActiveIs
<1>21. \A c \in 1..Len(due) : due'[c] = due[c]
  BY <1>5, AppendProperties
<1>22. due'[Len(due) + 1] = time
  BY <1>5, AppendProperties
<1>23. AlarmsAre(V)'
  <2> SUFFICES ASSUME NEW x \in 1..(Len(alarms) + 1)
               PROVE  /\ alarms'[x].slot = V[tasks + x]
                      /\ list'[V[tasks + x]].next = Waiting
                      /\ alarms'[x].time = due'[list'[V[tasks + x]].call]
    BY <1>5, <1>10 DEF AlarmsAre
  <2>1. CASE x = e + 1
    <3>1. tasks + x = p
      BY <1>1, <1>11, <2>1
    <3>2. alarms'[x] = [time |-> time, slot |-> i]
      BY <1>1, <1>10, <2>1
    <3> QED
      BY <1>4, <1>17, <1>22, <3>1, <3>2
  <2>2. ASSUME x # e + 1, NEW y \in 1..Len(alarms), alarms'[x] = alarms[y],
               to(tasks + y) = tasks + x
        PROVE  /\ alarms'[x].slot = V[tasks + x]
               /\ list'[V[tasks + x]].next = Waiting
               /\ alarms'[x].time = due'[list'[V[tasks + x]].call]
    <3>1. tasks + y \in 1..u
      BY <1>6
    <3>2. V[tasks + x] = U[tasks + y] /\ list'[U[tasks + y]] = list[U[tasks + y]]
      BY <1>14, <2>2, <3>1
    <3>3. due'[list[U[tasks + y]].call] = due[list[U[tasks + y]].call]
      BY <1>1, <1>21, <3>1
    <3> QED
      BY <1>6, <2>2, <3>2, <3>3
  <2>3. CASE x < e + 1
    <3>1. x \in 1..Len(alarms) /\ alarms'[x] = alarms[x] /\ tasks + x < p /\ x # e + 1
      BY <1>1, <1>10, <1>11, <2>3
    <3> QED
      BY <2>2, <3>1
  <2>4. CASE x > e + 1
    <3>1. /\ x - 1 \in 1..Len(alarms) /\ alarms'[x] = alarms[x - 1] /\ x # e + 1
          /\ ~ (tasks + (x - 1) < p) /\ (tasks + (x - 1)) + 1 = tasks + x
      BY <1>1, <1>10, <1>11, <2>4
    <3> QED
      BY <2>2, <3>1
  <2> QED
    BY <1>10, <2>1, <2>3, <2>4
<1>24. Kept' = Kept \cup {Len(due) + 1}
  <2>1. Calls = 1..Len(due) /\ Calls' = 1..(Len(due) + 1)
    <3>1. due' \in Seq(Nat) /\ Len(due') = Len(due) + 1
      BY <1>5, AppendProperties
    <3> QED
      BY <1>5, <3>1, LenProperties DEF Calls
  <2>2. ran \subseteq 1..Len(due) /\ cleared \subseteq 1..Len(due)
    BY DEF Lined, Holding, TypeInv, CallsOK
  <2> QED
    BY <1>1, <1>5, <2>1, <2>2 DEF Kept
<1>25. list'[V[p]].call = Len(due) + 1 /\ Len(due') = Len(due) + 1
  BY <1>4, <1>5, <1>17, AppendProperties
<1>26. Holding(v, V)'
  <2>1. \A k \in 1..u : list[U[k]].call \in Kept
    BY DEF Lined, Holding
  <2>2. \A k \in 1..v : list'[V[k]].call \in Kept'
    <3> SUFFICES ASSUME NEW k \in 1..v PROVE list'[V[k]].call \in Kept'
      OBVIOUS
    <3>1. CASE k = p
      BY <1>24, <1>25, <3>1
    <3>2. CASE k # p
      <4>1. PICK j \in 1..u : k = to(j)
        BY <1>15, <3>2
      <4>2. list'[V[k]] = list[U[j]]
        BY <1>14, <4>1
      <4> QED
        BY <1>24, <2>1, <4>2
    <3> QED
      BY <3>1, <3>2
  <2>3. ASSUME NEW c \in Kept' PROVE \E k \in 1..v : list'[V[k]].call = c
    <3>1. CASE c = Len(due) + 1
      BY <1>12, <1>25, <3>1
    <3>2. CASE c \in Kept
      <4>1. PICK j \in 1..u : list[U[j]].call = c
        BY <3>2 DEF Lined, Holding
      <4>2. to(j) \in 1..v /\ list'[V[to(j)]] = list[U[j]]
        BY <1>14
      <4> QED
        BY <4>1, <4>2
    <3> QED
      BY <1>24, <3>1, <3>2
  <2>4. ran' \subseteq 1..Len(due')
    <3>1. ran \subseteq 1..Len(due)
      BY DEF Lined, Holding
    <3> QED
      BY <1>1, <1>5, <1>25, <3>1
  <2> QED
    BY <2>2, <2>3, <2>4 DEF Holding
<1> DEFINE c(k) == list[U[k]].call
<1>27. ASSUME NEW k \in 1..u
       PROVE  /\ c(k) \in Nat /\ c(k) <= Len(due) /\ due[c(k)] \in Nat /\ due'[c(k)] = due[c(k)]
              /\ to(k) < p => due[c(k)] <= time
              /\ p < to(k) => time < due[c(k)]
  <2>1. c(k) \in 1..Len(due) /\ due[c(k)] \in Nat
    BY <1>1
  <2>2. due'[c(k)] = due[c(k)]
    BY <1>21, <2>1
  <2>3. CASE k <= tasks
    <3>1. k \in 1..tasks /\ to(k) = k /\ k < p
      BY <1>1, <1>12, <2>3
    <3>2. due[c(k)] <= now
      BY <3>1 DEF Lined, InOrder
    <3>3. due[c(k)] <= time
      BY <1>1, <1>5, <2>1, <3>2
    <3> QED
      BY <1>1, <1>11, <2>1, <2>2, <3>1, <3>3
  <2>4. CASE k > tasks
    <3>1. PICK x \in 1..Len(alarms) : x = k - tasks
      BY <1>1, <2>4
    <3>2. tasks + x = k
      BY <1>1, <3>1
    <3>3. alarms[x].time = due[c(k)]
      BY <1>6, <3>2
    <3>4. x <= e <=> due[c(k)] <= time
      BY <1>10, <3>3
    <3>5. (to(k) < p <=> x <= e) /\ (p < to(k) <=> ~ (x <= e))
      BY <1>1, <1>10, <1>11, <3>2
    <3> QED
      BY <1>5, <2>1, <2>2, <3>4, <3>5
  <2> QED
    BY <1>1, <2>3, <2>4
<1>28. InOrder(v, V)'
  <2>1. ASSUME NEW j \in 1..v, NEW k \in 1..v, j < k
        PROVE  Sooner(list[V[j]].call, list[V[k]].call)'
    <3>1. CASE j # p /\ k # p
      <4>1. PICK x \in 1..u : j = to(x)
        BY <1>15, <3>1
      <4>2. PICK y \in 1..u : k = to(y)
        BY <1>15, <3>1
      <4>3. x < y
        BY <1>16, <2>1, <4>1, <4>2
      <4>4. Sooner(c(x), c(y))
        BY <1>7, <4>3
      <4>5. list'[V[j]] = list[U[x]] /\ list'[V[k]] = list[U[y]]
        BY <1>14, <4>1, <4>2
      <4> QED
        BY <1>27, <4>4, <4>5 DEF Sooner
    <3>2. CASE j = p
      <4>1. k # p
        BY <1>12, <2>1, <3>2
      <4>2. PICK y \in 1..u : k = to(y)
        BY <1>15, <4>1
      <4>3. list'[V[k]] = list[U[y]] /\ p < to(y)
        BY <1>14, <2>1, <3>2, <4>2
      <4>4. time < due'[c(y)]
        BY <1>27, <4>3
      <4> QED
        BY <1>22, <1>25, <3>2, <4>3, <4>4 DEF Sooner
    <3>3. CASE k = p
      <4>1. j # p
        BY <1>12, <2>1, <3>3
      <4>2. PICK x \in 1..u : j = to(x)
        BY <1>15, <4>1
      <4>3. list'[V[j]] = list[U[x]] /\ to(x) < p
        BY <1>14, <2>1, <3>3, <4>2
      <4>4. due'[c(x)] \in Nat /\ due'[c(x)] <= time /\ c(x) < Len(due) + 1
        BY <1>1, <1>27, <4>3
      <4>5. \/ due'[c(x)] < due'[Len(due) + 1]
            \/ due'[c(x)] = due'[Len(due) + 1] /\ c(x) < Len(due) + 1
        <5>0. time \in Nat
          BY <1>5
        <5>1. due'[c(x)] < time \/ due'[c(x)] = time
          BY <4>4, <5>0
        <5> QED
          BY <1>22, <4>4, <5>1
      <4>6. list'[V[j]].call = c(x) /\ list'[V[k]].call = Len(due) + 1
        BY <1>25, <3>3, <4>3
      <4> QED
        BY <4>5, <4>6 DEF Sooner
    <3> QED
      BY <3>1, <3>2, <3>3
  <2>2. \A k \in 1..tasks : due'[list'[V[k]].call] <= now
    <3> SUFFICES ASSUME NEW k \in 1..tasks PROVE due'[list'[V[k]].call] <= now
      OBVIOUS
    <3>1. k \in 1..u /\ list'[V[k]] = list[U[k]]
      BY <1>19
    <3>2. due[c(k)] <= now
      BY DEF Lined, InOrder
    <3> QED
      BY <1>27, <3>1, <3>2
  <2> QED
    BY <1>5, <2>1, <2>2 DEF InOrder
<1> QED
  BY <1>4, <1>18, <1>20, <1>23, <1>26, <1>28 DEF Lined

\* Every step that does not put slots back on the free list keeps the line.
LEMMA NextLine == TypeInv /\ LineInv /\ [Next]_vars => LineInv'
<1> SUFFICES ASSUME TypeInv, LineInv, [Next]_vars PROVE LineInv'
  OBVIOUS
<1>1. TypeInv'
  BY NextTypes
<1>2. CASE spoiled
  <2>1. spoiled'
    BY <1>2 DEF Next, Tick, Ring, RunTask, BadLink, Typed, Finish, After, Runaway, Fault, Cleared,
                CancelAll, Cancel, WalkActive, CancelWaiting, ghosts, vars
  <2> QED
    BY <2>1 DEF LineInv
<1>3. CASE ~ spoiled
  <2>1. PICK u, U, f, F : Lined(u, U, f, F)
    BY <1>3 DEF LineInv
  <2>2. now \in Nat /\ Slots = 0..(n - 1) /\ n \in Nat /\ list \in [0..(n - 1) -> SlotType]
    BY <2>1, LineTypes
  <2>3. CASE UNCHANGED <<list, ai, ak, aj, tasks, alarms, due, ran, cleared>> /\ now' >= now
    BY <1>1, <2>1, <2>3, SameLine DEF LineInv
  <2>4. CASE \/ Tick \/ Typed \/ Finish \/ UNCHANGED vars
             \/ \E h \in Funcs, d \in Args \cup {NoArg} : Cancel(h, d)
             \/ WalkActive /\ ~ Matches(walk.i, walk.f, walk.d)
    <3>1. UNCHANGED <<list, ai, ak, aj, tasks, alarms, due, ran, cleared>>
      BY <2>4 DEF Tick, Typed, Finish, Cancel, WalkActive, vars, slots, ghosts
    <3>2. now' = now \/ now' = now + 1
      BY <2>4 DEF Tick, Typed, Finish, Cancel, WalkActive, vars
    <3>3. now' >= now
      BY <2>2, <3>2
    <3> QED
      BY <2>3, <3>1, <3>3
  <2>5. CASE WalkActive /\ Matches(walk.i, walk.f, walk.d)
    BY <2>5 DEF WalkActive, LineInv
  <2>6. CASE Ring
    BY <2>1, <2>6, RingLine DEF LineInv
  <2>7. CASE RunTask
    BY <2>1, <2>7, RunTaskLine DEF LineInv
  <2>8. CASE BadLink \/ Runaway \/ Fault
    <3>1. Cleared
      BY <2>8 DEF BadLink, Runaway, Fault
    <3>2. CASE aj >= 0
      BY <3>1, <3>2 DEF Cleared, LineInv
    <3>3. CASE ~ (aj >= 0)
      BY <2>1, <3>1, <3>3, ClearedLine DEF LineInv
    <3> QED
      BY <3>2, <3>3
  <2>9. CASE \E secs \in Delays, h \in Funcs, d \in Args \cup {NoArg} : After(secs, h, d)
    BY <2>1, <2>9, AfterLine DEF LineInv
  <2>10. CASE CancelAll
    <3>1. CASE n > 0
      BY <2>10, <3>1 DEF CancelAll, LineInv
    <3>2. CASE ~ (n > 0)
      <4>1. n = 0 /\ Slots = {} /\ 0..(n - 1) = {}
        BY <2>2, <3>2
      <4>2. AllFreed /\ UNCHANGED <<now, tasks, alarms, due, ran, cleared>>
        BY <2>10 DEF CancelAll
      <4>3. list' = list
        <5>1. list' \in [0..(n - 1) -> SlotType]
          BY <4>2, AllFreedArray
        <5> QED
          BY <2>2, <4>1, <5>1
      <4>4. aj' = aj /\ ai' = End /\ ak' = End
        BY <4>1, <4>2 DEF AllFreed
      <4>5. tasks = 0
        <5>1. u = 0
          <6>1. u \in Nat /\ U \in [1..u -> 0..(n - 1)]
            BY <2>1, LineTypes
          <6>2. u # 0 => 1 \in 1..u
            BY <6>1
          <6> QED
            BY <4>1, <6>1, <6>2
        <5> QED
          BY <2>1, <5>1, LineTypes
      <4>6. ai' = ai /\ ak' = ak
        BY <2>1, <4>4, <4>5 DEF Lined, ActiveIs
      <4> QED
        BY <2>2, <2>3, <4>2, <4>3, <4>4, <4>6
    <3> QED
      BY <3>1, <3>2
  <2>11. CASE CancelWaiting
    <3>1. /\ WaitingFreed(Cancellable) /\ spoiled' = (spoiled \/ Cancellable # {})
          /\ UNCHANGED <<now, alarms, ai, ak, tasks, due, ran, cleared>>
      BY <2>11 DEF CancelWaiting, Cancellable
    <3>2. CASE Cancellable # {}
      BY <3>1, <3>2 DEF LineInv
    <3>3. CASE Cancellable = {}
      <4>1. list' = [i \in Slots |-> list[i]] /\ aj' = aj
        BY <3>1, <3>3 DEF WaitingFreed
      <4>2. list' = list
        BY <2>2, <4>1
      <4> QED
        BY <2>2, <2>3, <3>1, <4>1, <4>2
    <3> QED
      BY <3>2, <3>3
  <2> QED
    BY <2>4, <2>5, <2>6, <2>7, <2>8, <2>9, <2>10, <2>11 DEF Next
<1> QED
  BY <1>2, <1>3

\* As long as nothing was cancelled, no step runs a call before its time or
\* ahead of one that is to run sooner (after in std.i; ym_after, _after_work,
\* p_set_alarm), for any sizes, delays and functions.
THEOREM AfterInOrder == Spec => RunsInOrder
<1>1. Init => TypeInv /\ LineInv
  BY InitTypes, InitLine
<1>2. TypeInv /\ LineInv /\ [Next]_vars => (TypeInv /\ LineInv)'
  BY NextTypes, NextLine
<1> DEFINE Right(c) == /\ c \in Kept /\ due[c] <= now
                       /\ \A b \in Kept : due[c] < due[b] \/ (due[c] = due[b] /\ c <= b)
<1>3. TypeInv /\ LineInv /\ [Next]_vars => [~spoiled => \A c \in ran' \ ran : Right(c)]_vars
  <2> SUFFICES ASSUME TypeInv, LineInv, [Next]_vars, ~spoiled, NEW c \in ran' \ ran
               PROVE  Right(c) \/ UNCHANGED vars
    OBVIOUS
  <2>1. CASE ~ RunTask
    <3>1. ran' = ran \/ UNCHANGED vars
      BY <2>1 DEF Next, Tick, Ring, BadLink, Typed, Finish, After, Runaway, Fault, Cleared,
                  CancelAll, Cancel, WalkActive, CancelWaiting, ghosts
    <3> QED
      BY <3>1
  <2>2. CASE RunTask
    <3>1. PICK u, U, f, F : Lined(u, U, f, F)
      BY DEF LineInv
    <3>2. /\ tasks \in Nat /\ Len(alarms) \in Nat /\ u = tasks + Len(alarms)
          /\ \A k \in 1..u : list[U[k]].call \in 1..Len(due) /\ due[list[U[k]].call] \in Nat
          /\ Len(due) \in Nat /\ now \in Nat
      BY <3>1, LineTypes
    <3>3. tasks > 0 /\ ran' = ran \cup {list[ai].call}
      BY <2>2 DEF RunTask
    <3>4. 1 \in 1..tasks /\ 1 \in 1..u /\ ai = U[1]
      BY <3>1, <3>2, <3>3 DEF Lined, ActiveIs
    <3>5. c = list[U[1]].call
      BY <3>3, <3>4
    <3>6. c \in Kept /\ due[c] <= now
      BY <3>1, <3>4, <3>5 DEF Lined, Holding, InOrder
    <3>7. ASSUME NEW b \in Kept PROVE due[c] < due[b] \/ (due[c] = due[b] /\ c <= b)
      <4>1. PICK k \in 1..u : list[U[k]].call = b
        BY <3>1 DEF Lined, Holding
      <4>2. CASE k = 1
        BY <3>2, <3>4, <3>5, <4>1, <4>2
      <4>3. CASE k # 1
        <5>1. Sooner(list[U[1]].call, list[U[k]].call)
          BY <3>1, <3>2, <3>4, <4>3 DEF Lined, InOrder
        <5> QED
          BY <3>2, <3>4, <3>5, <4>1, <5>1 DEF Sooner
      <4> QED
        BY <4>2, <4>3
    <3> QED
      BY <3>6, <3>7
  <2> QED
    BY <2>1, <2>2
<1> QED
  BY <1>1, <1>2, <1>3, PTL DEF Spec, RunsInOrder

-----------------------------------------------------------------------------
(* What following the links returns, and how many slots there are.           *)

\* The slots met from head: `at' of Chain.
Step(at, head, k) ==
  IF k = 0 THEN head ELSE IF at[k - 1] \in Slots THEN list[at[k - 1]].next ELSE at[k - 1]
Met(head) == CHOOSE at : at = [k \in 0..n |-> Step(at, head, k)]

\* There is one way to follow the links.
LEMMA MetOnce ==
  ASSUME NEW head, n \in Nat, NEW g, g = [k \in 0..n |-> Step(g, head, k)]
  PROVE  Met(head) = g
<1> DEFINE R == OpToRel(<, Nat)
<1>1. PICK m : m = Met(head) /\ m = [k \in 0..n |-> Step(m, head, k)]
  BY DEF Met
<1> DEFINE D == {k \in 0..n : m[k] # g[k]}
<1>2. CASE D = {}
  <2>1. \A k \in 0..n : m[k] = g[k]
    BY <1>2
  <2>2. DOMAIN m = 0..n /\ DOMAIN g = 0..n
    BY <1>1
  <2>3. m = [k \in 0..n |-> m[k]] /\ g = [k \in 0..n |-> g[k]]
    BY <1>1
  <2> QED
    BY <1>1, <2>1, <2>2, <2>3
<1>3. CASE D # {}
  <2>1. D \subseteq Nat
    OBVIOUS
  <2>2. PICK k \in D : \A y \in D : ~ (<<y, k>> \in R)
    BY <1>3, <2>1, WFMin, NatLessThanWellFounded
  <2>3. \A x, y \in Nat : y < x => <<y, x>> \in R
    BY DEF OpToRel
  <2> HIDE DEF R
  <2>4. k \in 0..n /\ m[k] # g[k]
    BY <2>2
  <2>5. m[k] = Step(m, head, k) /\ g[k] = Step(g, head, k)
    BY <1>1, <2>4
  <2>6. k # 0
    BY <2>4, <2>5 DEF Step
  <2>7. k - 1 \in 0..n /\ k - 1 \in Nat /\ k \in Nat /\ k - 1 < k
    BY <2>4, <2>6
  <2>8. m[k - 1] = g[k - 1]
    BY <2>2, <2>3, <2>7
  <2>9. PICK x : x = m[k - 1] /\ x = g[k - 1]
    BY <2>8
  <2>10. m[k] = IF x \in Slots THEN list[x].next ELSE x
    BY <2>5, <2>6, <2>9 DEF Step
  <2>11. g[k] = IF x \in Slots THEN list[x].next ELSE x
    BY <2>5, <2>6, <2>9 DEF Step
  <2> QED
    BY <2>4, <2>10, <2>11
<1> QED
  BY <1>2, <1>3

\* The links lead from head to the m slots of A.
Linked(head, m, A) ==
  /\ m \in 0..n /\ A \in [1..m -> 0..(n - 1)]
  /\ head = IF m = 0 THEN End ELSE A[1]
  /\ \A k \in 1..m : list[A[k]].next = IF k = m THEN End ELSE A[k + 1]

\* Chain returns the slots of a list that is linked as A says.
LEMMA ChainIs ==
  ASSUME NEW head, n \in Nat, Slots = 0..(n - 1), NEW m, NEW A, Linked(head, m, A)
  PROVE  Chain(head) = [k \in 0..(m - 1) |-> A[k + 1]]
<1>0. /\ m \in 0..n /\ A \in [1..m -> 0..(n - 1)]
      /\ head = IF m = 0 THEN End ELSE A[1]
      /\ \A k \in 1..m : list[A[k]].next = IF k = m THEN End ELSE A[k + 1]
  BY DEF Linked
<1> DEFINE g == [k \in 0..n |-> IF k < m THEN A[k + 1] ELSE End]
<1>1. \A k \in 0..n : g[k] = IF k < m THEN A[k + 1] ELSE End
  OBVIOUS
<1>2. End \notin Slots
  BY DEF End
<1>3. \A k \in 0..n : k < m => k + 1 \in 1..m /\ A[k + 1] \in Slots
  BY <1>0
<1>4. g \in [0..n -> Int] /\ DOMAIN g = 0..n
  BY <1>3 DEF End
<1> HIDE DEF g
<1>5. ASSUME NEW k \in 0..n PROVE g[k] = Step(g, head, k)
  <2>1. CASE k = 0
    BY <1>0, <1>1, <2>1 DEF Step
  <2>2. CASE k # 0
    <3>1. k - 1 \in 0..n /\ (k - 1) + 1 = k
      BY <2>2
    <3>2. Step(g, head, k) = IF g[k - 1] \in Slots THEN list[g[k - 1]].next ELSE g[k - 1]
      BY <2>2 DEF Step
    <3>3. CASE k - 1 < m
      <4>1. g[k - 1] = A[k] /\ k \in 1..m /\ A[k] \in Slots
        BY <1>0, <1>1, <1>3, <3>1, <3>3
      <4>2. list[A[k]].next = IF k = m THEN End ELSE A[k + 1]
        BY <1>0, <4>1
      <4>3. k < m <=> k # m
        BY <1>0, <3>3
      <4> QED
        BY <1>1, <3>2, <4>1, <4>2, <4>3
    <3>4. CASE ~ (k - 1 < m)
      <4>1. g[k - 1] = End /\ ~ (k < m)
        BY <1>0, <1>1, <3>1, <3>4
      <4> QED
        BY <1>1, <1>2, <3>2, <4>1
    <3> QED
      BY <3>3, <3>4
  <2> QED
    BY <2>1, <2>2
<1>6. g = [k \in 0..n |-> Step(g, head, k)]
  BY <1>4, <1>5
<1>7. Met(head) = g
  BY <1>6, MetOnce
<1>8. Chain(head) = [k \in {k \in 0..n : Met(head)[k] \in Slots} |-> Met(head)[k]]
  BY DEF Chain, Met, Step
<1>9. {k \in 0..n : g[k] \in Slots} = 0..(m - 1)
  <2>1. \A k \in 0..n : g[k] \in Slots <=> k < m
    BY <1>1, <1>2, <1>3
  <2>2. \A k : k \in 0..(m - 1) <=> k \in 0..n /\ k < m
    BY <1>0
  <2> QED
    BY <2>1, <2>2
<1>10. \A k \in 0..(m - 1) : g[k] = A[k + 1]
  <2>1. \A k \in 0..(m - 1) : k \in 0..n /\ k < m
    BY <1>0
  <2> QED
    BY <1>1, <2>1
<1> QED
  BY <1>7, <1>8, <1>9, <1>10

\* The line and the free list have each slot once.
LEMMA LineCount ==
  ASSUME TypeInv, NEW u, NEW U, NEW f, NEW F, Lined(u, U, f, F)
  PROVE  u + f = n
<1>1. /\ n \in Nat /\ u \in Nat /\ f \in Nat
      /\ U \in [1..u -> 0..(n - 1)] /\ F \in [1..f -> 0..(n - 1)]
      /\ \A j, k \in 1..u : U[j] = U[k] => j = k
      /\ Slots = 0..(n - 1)
  BY LineTypes
<1>2. /\ \A j, k \in 1..f : F[j] = F[k] => j = k
      /\ \A j \in 1..u, k \in 1..f : U[j] # F[k]
      /\ \A i \in 0..(n - 1) : (\E j \in 1..u : U[j] = i) \/ (\E k \in 1..f : F[k] = i)
  BY DEF Lined, Filled
<1>3. PICK m \in Nat : m = u + f
  BY <1>1
<1> DEFINE B == [k \in 1..m |-> IF k <= u THEN U[k] ELSE F[k - u]]
<1>4. ASSUME NEW k \in 1..m
      PROVE  \/ k <= u /\ k \in 1..u /\ B[k] = U[k]
             \/ ~ (k <= u) /\ k - u \in 1..f /\ B[k] = F[k - u]
  BY <1>1, <1>3
<1>5. \A k \in 1..u : k \in 1..m /\ B[k] = U[k]
  BY <1>1, <1>3
<1>6. \A k \in 1..f : u + k \in 1..m /\ B[u + k] = F[k]
  <2> SUFFICES ASSUME NEW k \in 1..f PROVE u + k \in 1..m /\ B[u + k] = F[k]
    OBVIOUS
  <2>1. u + k \in 1..m /\ ~ (u + k <= u) /\ (u + k) - u = k
    BY <1>1, <1>3
  <2> QED
    BY <2>1
<1>7. DOMAIN B = 1..m /\ B = [k \in 1..m |-> B[k]]
  OBVIOUS
<1> HIDE DEF B
<1>8. \A k \in 1..m : B[k] \in Slots
  BY <1>1, <1>4
<1>9. ASSUME NEW j \in 1..m, NEW k \in 1..m, B[j] = B[k] PROVE j = k
  <2>1. CASE j <= u /\ k <= u
    BY <1>1, <1>4, <1>9, <2>1
  <2>2. CASE j <= u /\ ~ (k <= u)
    BY <1>2, <1>4, <1>9, <2>2
  <2>3. CASE ~ (j <= u) /\ k <= u
    BY <1>2, <1>4, <1>9, <2>3
  <2>4. CASE ~ (j <= u) /\ ~ (k <= u)
    <3>1. j - u \in 1..f /\ k - u \in 1..f /\ F[j - u] = F[k - u]
      BY <1>4, <1>9, <2>4
    <3>2. j - u = k - u
      BY <1>2, <3>1
    <3> QED
      BY <1>1, <3>2
  <2> QED
    BY <2>1, <2>2, <2>3, <2>4
<1>10. \A i \in Slots : \E k \in 1..m : B[k] = i
  <2> SUFFICES ASSUME NEW i \in Slots PROVE \E k \in 1..m : B[k] = i
    OBVIOUS
  <2>1. CASE \E j \in 1..u : U[j] = i
    BY <1>5, <2>1
  <2>2. CASE \E k \in 1..f : F[k] = i
    BY <1>6, <2>2
  <2> QED
    BY <1>1, <1>2, <2>1, <2>2
<1>11. B \in Bijection(1..m, Slots)
  <2>1. B \in [1..m -> Slots]
    BY <1>7, <1>8
  <2> QED
    BY <1>9, <1>10, <2>1 DEF Bijection, Injection, Surjection, IsInjective
<1>12. Cardinality(Slots) = m
  BY <1>11, FS_CountingElements DEF ExistsBijection
<1> QED
  BY <1>3, <1>12 DEF n

\* What a line says of the lists and the alarms.
LEMMA LinePartition ==
  ASSUME TypeInv, NEW u, NEW U, NEW f, NEW F, Lined(u, U, f, F)
  PROVE  LET waits == {i \in Slots : list[i].next = Waiting}
             length(chain) == Cardinality(DOMAIN chain) IN
         /\ length(Active) + length(Free) + Cardinality(waits) = n
         /\ Range(Active) \cup Range(Free) = Slots \ waits
         /\ Len(alarms) = Cardinality(waits)
         /\ {alarms[x].slot : x \in DOMAIN alarms} = waits
         /\ tasks = length(Active)
         /\ Kept = {list[i].call : i \in waits \cup Range(Active)}
<1> DEFINE waits == {i \in Slots : list[i].next = Waiting}
           last == Len(alarms)
<1>1. /\ Slots = 0..(n - 1) /\ n \in Nat
      /\ tasks \in Nat /\ last \in Nat /\ u \in Nat /\ u = tasks + last
      /\ U \in [1..u -> 0..(n - 1)] /\ f \in Nat /\ F \in [1..f -> 0..(n - 1)]
      /\ \A j, k \in 1..u : U[j] = U[k] => j = k
  BY LineTypes
<1>2. u + f = n
  BY LineCount
<1>3. DOMAIN alarms = 1..last
  BY LenProperties DEF TypeInv, AlarmsOK
<1> HIDE DEF last
<1>4. \A i \in 0..(n - 1) : (\E j \in 1..u : U[j] = i) \/ (\E k \in 1..f : F[k] = i)
  BY DEF Lined, Filled
<1>5. /\ ai = IF tasks = 0 THEN End ELSE U[1]
      /\ \A k \in 1..tasks : list[U[k]].next = IF k = tasks THEN End ELSE U[k + 1]
  BY DEF Lined, ActiveIs
<1>6. /\ aj = IF f = 0 THEN End ELSE F[1]
      /\ \A k \in 1..f : list[F[k]].next = IF k = f THEN End ELSE F[k + 1]
  BY DEF Lined, FreeIs
<1>7. \A x \in 1..last :
        alarms[x].slot = U[tasks + x] /\ list[U[tasks + x]].next = Waiting /\ tasks + x \in 1..u
  BY <1>1 DEF Lined, AlarmsAre, last
<1>8. Active = [k \in 0..(tasks - 1) |-> U[k + 1]]
  <2> DEFINE A == [k \in 1..tasks |-> U[k]]
  <2>1. /\ A \in [1..tasks -> 0..(n - 1)] /\ tasks \in 0..n
        /\ \A k \in 1..tasks : A[k] = U[k]
    BY <1>1, <1>2
  <2> HIDE DEF A
  <2>2. ai = IF tasks = 0 THEN End ELSE A[1]
    BY <1>1, <1>5, <2>1
  <2>3. \A k \in 1..tasks : list[A[k]].next = IF k = tasks THEN End ELSE A[k + 1]
    BY <1>1, <1>5, <2>1
  <2>4. Chain(ai) = [k \in 0..(tasks - 1) |-> A[k + 1]]
    <3>1. Linked(ai, tasks, A)
      BY <2>1, <2>2, <2>3 DEF Linked
    <3> QED
      BY <1>1, <3>1, ChainIs
  <2>5. \A k \in 0..(tasks - 1) : A[k + 1] = U[k + 1]
    BY <1>1, <2>1
  <2> QED
    BY <2>4, <2>5 DEF Active
<1>9. Free = [k \in 0..(f - 1) |-> F[k + 1]]
  <2>1. f \in 0..n
    BY <1>1, <1>2
  <2>2. Linked(aj, f, F)
    BY <1>1, <1>6, <2>1 DEF Linked
  <2> QED
    BY <1>1, <2>2, ChainIs DEF Free
<1>10. /\ DOMAIN Active = 0..(tasks - 1) /\ DOMAIN Free = 0..(f - 1)
       /\ \A k \in 0..(tasks - 1) : Active[k] = U[k + 1]
       /\ \A k \in 0..(f - 1) : Free[k] = F[k + 1]
  BY <1>8, <1>9
<1>11. \A m \in Nat : Cardinality(0..(m - 1)) = m
  <2> SUFFICES ASSUME NEW m \in Nat PROVE Cardinality(0..(m - 1)) = m
    OBVIOUS
  <2>1. Cardinality(0..(m - 1)) = IF 0 > m - 1 THEN 0 ELSE m - 1 - 0 + 1
    BY FS_Interval
  <2> QED
    BY <2>1
<1>12. Cardinality(DOMAIN Active) = tasks /\ Cardinality(DOMAIN Free) = f
  BY <1>1, <1>10, <1>11
<1>13. Range(Active) = {U[k] : k \in 1..tasks}
  <2>1. \A k \in 0..(tasks - 1) : k + 1 \in 1..tasks
    BY <1>1
  <2>2. \A k \in 1..tasks : k - 1 \in 0..(tasks - 1) /\ (k - 1) + 1 = k
    BY <1>1
  <2>3. \A k \in 1..tasks : Active[k - 1] = U[k] /\ k - 1 \in DOMAIN Active
    BY <1>10, <2>2
  <2> QED
    BY <1>10, <2>1, <2>3 DEF Range
<1>14. Range(Free) = {F[k] : k \in 1..f}
  <2>1. \A k \in 0..(f - 1) : k + 1 \in 1..f
    BY <1>1
  <2>2. \A k \in 1..f : k - 1 \in 0..(f - 1) /\ (k - 1) + 1 = k
    BY <1>1
  <2>3. \A k \in 1..f : Free[k - 1] = F[k] /\ k - 1 \in DOMAIN Free
    BY <1>10, <2>2
  <2> QED
    BY <1>10, <2>1, <2>3 DEF Range
<1>15. ASSUME NEW k \in 1..tasks PROVE k \in 1..u /\ list[U[k]].next # Waiting
  <2>1. k \in 1..u
    BY <1>1
  <2>2. CASE k = tasks
    BY <1>5, <2>1, <2>2 DEF Waiting, End
  <2>3. CASE k # tasks
    <3>1. list[U[k]].next = U[k + 1] /\ k + 1 \in 1..u
      BY <1>1, <1>5, <2>3
    <3>2. U[k + 1] \in Nat
      BY <1>1, <3>1
    <3> QED
      BY <2>1, <3>1, <3>2 DEF Waiting
  <2> QED
    BY <2>2, <2>3
<1>16. ASSUME NEW k \in 1..f PROVE list[F[k]].next # Waiting
  <2>1. CASE k = f
    BY <1>6, <2>1 DEF Waiting, End
  <2>2. CASE k # f
    <3>1. list[F[k]].next = F[k + 1] /\ k + 1 \in 1..f
      BY <1>1, <1>6, <2>2
    <3>2. F[k + 1] \in Nat
      BY <1>1, <3>1
    <3> QED
      BY <3>1, <3>2 DEF Waiting
  <2> QED
    BY <2>1, <2>2
<1>17. \A k \in 1..u : k \in 1..tasks \/ (k - tasks \in 1..last /\ tasks + (k - tasks) = k)
  BY <1>1
<1>18. \A i \in Slots :
         i \in waits \/ (\E k \in 1..tasks : i = U[k]) \/ (\E k \in 1..f : i = F[k])
  <2> SUFFICES ASSUME NEW i \in Slots, \A k \in 1..tasks : i # U[k], \A k \in 1..f : i # F[k]
               PROVE  i \in waits
    OBVIOUS
  <2>1. PICK k \in 1..u : U[k] = i
    BY <1>1, <1>4
  <2>2. k - tasks \in 1..last /\ tasks + (k - tasks) = k
    BY <1>17, <2>1
  <2>3. list[U[k]].next = Waiting
    BY <1>7, <2>2
  <2> QED
    BY <2>1, <2>3
<1>19. waits = {U[tasks + x] : x \in 1..last}
  <2>1. \A x \in 1..last : U[tasks + x] \in waits
    BY <1>1, <1>7
  <2>2. \A i \in waits : \E x \in 1..last : i = U[tasks + x]
    <3> SUFFICES ASSUME NEW i \in waits PROVE \E x \in 1..last : i = U[tasks + x]
      OBVIOUS
    <3>1. PICK k \in 1..u : U[k] = i
      BY <1>1, <1>4, <1>16
    <3>2. k \notin 1..tasks
      BY <1>15, <3>1
    <3> QED
      BY <1>17, <3>1, <3>2
  <2> QED
    BY <2>1, <2>2
<1>20. Cardinality(waits) = last
  <2> DEFINE B == [x \in 1..last |-> U[tasks + x]]
  <2>1. /\ DOMAIN B = 1..last /\ \A x \in 1..last : B[x] = U[tasks + x]
        /\ B = [x \in 1..last |-> B[x]]
    OBVIOUS
  <2> HIDE DEF B, waits
  <2>2. B \in [1..last -> waits] /\ \A i \in waits : \E x \in 1..last : B[x] = i
    BY <1>19, <2>1
  <2>3. ASSUME NEW x \in 1..last, NEW y \in 1..last, B[x] = B[y] PROVE x = y
    <3>1. tasks + x = tasks + y
      BY <1>1, <1>7, <2>1, <2>3
    <3> QED
      BY <1>1, <3>1
  <2>4. B \in Bijection(1..last, waits)
    BY <2>2, <2>3 DEF Bijection, Injection, Surjection, IsInjective
  <2> QED
    BY <1>1, <2>4, FS_CountingElements DEF ExistsBijection
<1>21. Range(Active) \cup Range(Free) = Slots \ waits
  <2>1. \A k \in 1..tasks : U[k] \in Slots \ waits
    BY <1>1, <1>15
  <2>2. \A k \in 1..f : F[k] \in Slots \ waits
    BY <1>1, <1>16
  <2> HIDE DEF waits
  <2> QED
    BY <1>13, <1>14, <1>18, <2>1, <2>2
<1>22. {alarms[x].slot : x \in DOMAIN alarms} = waits
  BY <1>3, <1>7, <1>19
<1>23. Kept = {list[i].call : i \in waits \cup Range(Active)}
  <2>1. waits \cup Range(Active) = {U[k] : k \in 1..u}
    <3>1. \A k \in 1..u : U[k] \in waits \cup Range(Active)
      BY <1>7, <1>13, <1>17, <1>19
    <3>2. \A i \in waits : \E k \in 1..u : i = U[k]
      BY <1>7, <1>19
    <3>3. \A i \in Range(Active) : \E k \in 1..u : i = U[k]
      BY <1>13, <1>15
    <3> HIDE DEF waits
    <3> QED
      BY <3>1, <3>2, <3>3
  <2> HIDE DEF waits
  <2>2. (\A k \in 1..u : list[U[k]].call \in Kept) /\ (\A c \in Kept : \E k \in 1..u : list[U[k]].call = c)
    BY DEF Lined, Holding
  <2> QED
    BY <2>1, <2>2
<1>24. tasks + f + last = n
  BY <1>1, <1>2
<1> HIDE DEF waits
<1>25. /\ Cardinality(DOMAIN Active) + Cardinality(DOMAIN Free) + Cardinality(waits) = n
       /\ Len(alarms) = Cardinality(waits) /\ tasks = Cardinality(DOMAIN Active)
  BY <1>12, <1>20, <1>24 DEF last
<1> QED
  BY <1>21, <1>22, <1>23, <1>25, Zenon DEF waits

\* As long as nothing was cancelled, each slot is free, or waits for one alarm,
\* or is active with a task pushed for it, and the lists have it once
\* (ym_after_i, ym_after_j, ym_after_k), for any sizes, delays and functions.
THEOREM AfterPartitions == Spec => []SlotsPartitioned
<1>1. Init => TypeInv /\ LineInv
  BY InitTypes, InitLine
<1>2. TypeInv /\ LineInv /\ [Next]_vars => (TypeInv /\ LineInv)'
  BY NextTypes, NextLine
<1>3. TypeInv /\ LineInv => SlotsPartitioned
  BY LinePartition DEF LineInv, SlotsPartitioned
<1> QED
  BY <1>1, <1>2, <1>3, PTL DEF Spec
=============================================================================
