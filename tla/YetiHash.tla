------------------------------ MODULE YetiHash ------------------------------
(***************************************************************************)
(* The hash tables of yeti (src/yeti/core/hash.c): an array of linked      *)
(* lists that doubles when it is half full, and is then rehashed in place, *)
(* entry by entry.  The table is used by one program, but SIGINT may come  *)
(* at any time.  The handler sets p_signalling, which rehash, h_insert and *)
(* h_pop look at before they change anything; a second later SIGALRM       *)
(* aborts the task wherever it is (play/unix/handler.c), by a long jump    *)
(* that leaves the table as it stands.  So a step here is what lies        *)
(* between two stores to the table.                                        *)
(*                                                                         *)
(* pc is "ready" between two calls, or where the call in progress is:      *)
(*   enter                  at the test "new_size > size"                  *)
(*   walk, link             in rehash: looking at an entry; the entry has  *)
(*                          left its list and is not in the other one yet  *)
(*   find, store, sweep     in h_find, h_insert and h_delete after that    *)
(*   replace, create, count in h_insert: the old value is gone; room has   *)
(*                          been made; the entry is linked, not counted    *)
(*   pop, uncount           in Y_h_pop: before anything is done; the entry *)
(*                          has been unlinked                              *)
(* or "overrun": Y_h_keys or Y_h_stat has written outside its array, and   *)
(* the model says nothing of what the process does next.                   *)
(***************************************************************************)
EXTENDS Integers, FiniteSets, Sequences, SequencesExt, FiniteSetsExt

CONSTANTS
  Keys, Values, Junk,
  Hash,           \* HASH_STRING of each key
  MinSize,        \* size of the table that h_new makes (32 in the code)
  Word,           \* number is a size_t: 2^64 in the code
  MaxInterrupts   \* bound: signals in one behaviour

ASSUME HashAssumption ==
  /\ Hash \in [Keys -> Nat] /\ Junk \notin Values
  /\ MinSize \in Nat \ {0} /\ Word \in Nat \ {0} /\ MaxInterrupts \in Nat
\* There is no memory for as many entries as a long can count.
ASSUME KeysAssumption ==
  IsFiniteSet(Keys) /\ 2 * (Cardinality(Keys) + 1) < Word

VARIABLES
  bucket,       \* the lists, by index, each as the sequence of its entries
  value,        \* sym_value of each entry
  size, newSize, number,
  pc, op,       \* see above; the arguments of the call
  after,        \* where rehash returns to
  slot, pos,    \* i and the position of entry in rehash
  hand,         \* the entry that is in no list, as a set
  signal,       \* p_signalling
  interrupts,   \* signals so far
  result,       \* of the last call
  scan, sound   \* keys given by h_first and h_next since h_first; see HashMap

table == <<bucket, value, size, newSize, number>>
call == <<pc, op, after, slot, pos, hand>>
vars == <<table, call, signal, interrupts, result, scan, sound>>

Nil == <<"nil">>
Failed == <<"error">>
NoOp == [name |-> "none", key |-> Junk, val |-> Junk]

Empty(n) == [i \in 0..n-1 |-> <<>>]
Home(k) == Hash[k] % size
Target(k) == Hash[k] % newSize
In(k, i) == k \in {bucket[i][p] : p \in DOMAIN bucket[i]}

Init ==
  /\ bucket = Empty(MinSize) /\ value = [k \in Keys |-> Junk]
  /\ size = MinSize /\ newSize = MinSize /\ number = 0
  /\ pc = "ready" /\ op = NoOp /\ after = "find" /\ slot = 0 /\ pos = 1
  /\ hand = {} /\ signal = FALSE /\ interrupts = 0 /\ result = Nil
  /\ scan = <<>> /\ sound = TRUE

\* The call returns, or is abandoned.
Return ==
  /\ pc' = "ready" /\ op' = NoOp /\ after' = "find" /\ slot' = 0 /\ pos' = 1
  /\ hand' = {}

At(place) == pc = place /\ UNCHANGED <<signal, interrupts, sound>>
Goto(place) == pc' = place /\ UNCHANGED <<op, after, slot, pos, hand>>

-----------------------------------------------------------------------------
(* Calls.                                                                  *)

\* h_get, h_has, tab.key and tab("key"); one pair of h_set; h_pop; the last
\* reference to the table goes.
Start(name, k, v) ==
  /\ At("ready") /\ ~signal
  /\ op' = [name |-> name, key |-> k, val |-> v]
  /\ pc' = IF name = "pop" THEN "pop" ELSE "enter"
  /\ after' = CASE name = "set" -> "store" [] name = "free" -> "sweep"
                [] OTHER -> "find"
  /\ scan' = (IF name = "get" THEN scan ELSE <<>>) /\ result' = Nil
  /\ UNCHANGED <<table, slot, pos, hand>>

\* Mutant: the test is made for a growth that leaves the entries in place.
MustResumeLate == newSize > 2 * size
\* The test at the head of h_find, h_insert and h_delete.
MustResume == newSize > size

Enter ==
  /\ At("enter")
  /\ IF MustResume
     THEN ~signal /\ pc' = "walk"
     ELSE pc' = after
  /\ UNCHANGED <<table, op, after, slot, pos, hand, result, scan>>

-----------------------------------------------------------------------------
(* rehash.                                                                 *)

Chain == bucket[slot]
Current == Chain[pos]
AtEntry == slot < size /\ pos <= Len(Chain)

\* Mutant: entries are moved without a look at where they are.
MovesAlways(k) == TRUE
\* j != i
Moves(k) == Target(k) # slot

Keep ==
  /\ At("walk") /\ AtEntry /\ ~Moves(Current)
  /\ pos' = pos + 1
  /\ UNCHANGED <<table, pc, op, after, slot, hand, result, scan>>

Unlink ==
  /\ At("walk") /\ AtEntry /\ Moves(Current)
  /\ bucket' = [bucket EXCEPT ![slot] = RemoveAt(Chain, pos)]
  /\ hand' = {Current} /\ pc' = "link"
  /\ UNCHANGED <<value, size, newSize, number, op, after, slot, pos, result, scan>>

\* Mutant: the entry after the moved one is skipped.
AfterMoveOn(p) == p + 1
\* The next entry to look at is the one that followed in the former list.
AfterMove(p) == p

Link ==
  /\ At("link")
  /\ \E k \in hand :
       bucket' = [bucket EXCEPT ![Target(k)] = <<k>> \o bucket[Target(k)]]
  /\ hand' = {} /\ pc' = "walk" /\ pos' = AfterMove(pos)
  /\ UNCHANGED <<value, size, newSize, number, op, after, slot, result, scan>>

NextSlot ==
  /\ At("walk") /\ slot < size /\ ~AtEntry
  /\ slot' = slot + 1 /\ pos' = 1
  /\ UNCHANGED <<table, pc, op, after, hand, result, scan>>

Rehashed ==
  /\ At("walk") /\ slot = size
  /\ size' = newSize
  /\ pc' = after /\ slot' = 0 /\ pos' = 1
  /\ UNCHANGED <<bucket, value, newSize, number, op, after, hand, result, scan>>

-----------------------------------------------------------------------------
(* h_find, h_insert, Y_h_pop and h_delete.                                 *)

Find ==
  /\ At("find")
  /\ result' = IF In(op.key, Home(op.key))
               THEN <<"value", value[op.key]>> ELSE Nil
  /\ Return /\ UNCHANGED <<table, scan>>

Replace ==
  /\ At("store") /\ ~signal /\ In(op.key, Home(op.key))
  /\ value' = [value EXCEPT ![op.key] = Junk]
  /\ Goto("replace")
  /\ UNCHANGED <<bucket, size, newSize, number, result, scan>>

Replaced ==
  /\ At("replace")
  /\ value' = [value EXCEPT ![op.key] = op.val]
  /\ Return /\ UNCHANGED <<bucket, size, newSize, number, result, scan>>

IsNew == At("store") /\ ~signal /\ ~In(op.key, Home(op.key))
MustGrow == (((number + 1) % Word) * 2) % Word > size

\* The new array holds the old lists and as many empty ones; rehash follows.
Grow ==
  /\ IsNew /\ MustGrow
  /\ bucket' = [i \in 0 .. 2 * size - 1 |-> IF i < size THEN bucket[i] ELSE <<>>]
  /\ newSize' = 2 * size
  /\ pc' = "enter" /\ after' = "create"
  /\ UNCHANGED <<value, size, number, op, slot, pos, hand, result, scan>>

Create ==
  /\ \/ IsNew /\ ~MustGrow
     \/ At("create")
  /\ bucket' = [bucket EXCEPT ![Home(op.key)] = <<op.key>> \o @]
  /\ value' = [value EXCEPT ![op.key] = op.val]
  /\ Goto("count")
  /\ UNCHANGED <<size, newSize, number, result, scan>>

Count ==
  /\ At("count")
  /\ number' = (number + 1) % Word
  /\ Return /\ UNCHANGED <<bucket, value, size, newSize, result, scan>>

\* No memory for the larger array or for the entry.
NoMemory ==
  /\ IsNew \/ At("create")
  /\ result' = Failed
  /\ Return /\ UNCHANGED <<table, scan>>

PopFound ==
  /\ At("pop") /\ ~signal
  /\ \E p \in DOMAIN bucket[Home(op.key)] :
       /\ bucket[Home(op.key)][p] = op.key
       /\ bucket' = [bucket EXCEPT ![Home(op.key)] = RemoveAt(@, p)]
  /\ hand' = {op.key} /\ pc' = "uncount"
  /\ UNCHANGED <<value, size, newSize, number, op, after, slot, pos, result, scan>>

Uncount ==
  /\ At("uncount")
  /\ number' = (number - 1) % Word
  /\ result' = <<"value", value[op.key]>>
  /\ value' = [value EXCEPT ![op.key] = Junk]
  /\ Return /\ UNCHANGED <<bucket, size, newSize, scan>>

PopMissed ==
  /\ At("pop") /\ ~signal /\ ~In(op.key, Home(op.key))
  /\ result' = Nil
  /\ Return /\ UNCHANGED <<table, scan>>

\* Mutant: new_size is not set.
DiscardLess ==
  /\ bucket' = Empty(MinSize) /\ value' = [k \in Keys |-> Junk]
  /\ size' = MinSize /\ number' = 0 /\ UNCHANGED newSize
\* All that is left of the table; the program may make another one.
Discard ==
  /\ bucket' = Empty(MinSize) /\ value' = [k \in Keys |-> Junk]
  /\ size' = MinSize /\ newSize' = MinSize /\ number' = 0

Sweep == At("sweep") /\ Discard /\ Return /\ UNCHANGED <<result, scan>>

-----------------------------------------------------------------------------
(* The calls that only read the lists, in one step.                        *)

\* The entries they find, by list and place, and the keys of these.
Found == UNION {{<<i, p>> : p \in DOMAIN bucket[i]} : i \in 0..size-1}
Listed == {bucket[e[1]][e[2]] : e \in Found}

\* The number n of type size_t as a long, which is what NewDimension takes.
AsLong(n) == IF 2 * n >= Word THEN n - Word ELSE n
KeysFit == AsLong(number) >= 0
StatFits == AsLong((number + 1) % Word) > 0

Reads == At("ready") /\ ~signal /\ UNCHANGED <<call, bucket, value, size, newSize>>

\* Y_h_keys: an array of number strings, or an error if there are more keys.
ListKeys ==
  /\ Reads /\ KeysFit
  /\ result' = IF number = 0 THEN Nil
               ELSE IF Cardinality(Found) > number THEN Failed
               ELSE <<"keys", Listed, number - Cardinality(Found)>>
  /\ UNCHANGED <<number, scan>>

\* Y_h_stat
Stat ==
  /\ Reads /\ StatFits
  /\ number' = Cardinality(Found)
  /\ result' = IF number # Cardinality(Found) THEN Failed ELSE Nil
  /\ UNCHANGED scan

\* Y_h_keys and Y_h_stat where the dimension is negative or, in Y_h_stat, 0:
\* NewArray makes the smallest array (and clears a negative number of bytes);
\* Y_h_stat goes on to set number + 1 elements, as a size_t, and never gets
\* to the line that puts the count right.
Overrun ==
  /\ At("ready") /\ ~signal /\ ~(KeysFit /\ StatFits)
  /\ Goto("overrun") /\ UNCHANGED <<table, result, scan>>

\* The first list that is not empty, from list i on.
FromList(i) ==
  LET full == {j \in i .. size-1 : bucket[j] # <<>>}
  IN  IF full = {} THEN <<>> ELSE bucket[Min(full)]

Give(s) ==
  IF s = <<>> THEN result' = Nil /\ scan' = <<>>
  ELSE result' = <<"key", Head(s)>>

First ==
  /\ pc = "ready" /\ ~signal
  /\ sound' = (size = newSize)
  /\ Give(FromList(0))
  /\ FromList(0) # <<>> => scan' = <<Head(FromList(0))>>
  /\ UNCHANGED <<table, call, signal, interrupts>>

\* Y_h_next: the entry after the last one given, in its list or in the next
\* list that is not empty.
NextAfter(k) ==
  LET rest == SubSeq(bucket[Home(k)],
                     1 + CHOOSE p \in DOMAIN bucket[Home(k)] :
                           bucket[Home(k)][p] = k,
                     Len(bucket[Home(k)]))
  IN  IF rest # <<>> THEN rest ELSE FromList(Home(k) + 1)

Following ==
  /\ Reads /\ scan # <<>>
  /\ Len(scan) <= Cardinality(Keys)      \* bound: of a scan gone astray
  /\ In(Last(scan), Home(Last(scan)))
  /\ Give(NextAfter(Last(scan)))
  /\ NextAfter(Last(scan)) # <<>> =>
       scan' = Append(scan, Head(NextAfter(Last(scan))))
  /\ UNCHANGED number

-----------------------------------------------------------------------------
(* Signals.                                                                *)

Sigint ==
  /\ ~signal /\ interrupts < MaxInterrupts /\ pc # "ready"
  /\ signal' = TRUE /\ interrupts' = interrupts + 1
  /\ UNCHANGED <<table, call, result, scan, sound>>

\* p_abort, from SIGALRM or from a test of p_signalling.  A destructor that
\* is interrupted leaves a table nobody can reach any more.
Abort ==
  /\ signal /\ signal' = FALSE
  /\ Return
  /\ IF op.name = "free" THEN Discard ELSE UNCHANGED table
  /\ scan' = <<>> /\ result' = Nil /\ sound' = TRUE
  /\ UNCHANGED interrupts

-----------------------------------------------------------------------------
Rehash == Keep \/ Unlink \/ Link \/ NextSlot \/ Rehashed
Insert == Replace \/ Replaced \/ Grow \/ Create \/ Count \/ NoMemory
Step ==
  \/ Enter \/ Rehash \/ Find \/ Insert \/ PopFound \/ PopMissed \/ Uncount
  \/ Sweep
Calls ==
  \/ \E k \in Keys : \/ Start("get", k, Junk) \/ Start("pop", k, Junk)
                     \/ \E v \in Values : Start("set", k, v)
  \/ Start("free", Junk, Junk)
  \/ ListKeys \/ Stat \/ Overrun \/ First \/ Following
Next == pc # "overrun" /\ (Calls \/ Step \/ Sigint \/ Abort)

Spec == Init /\ [][Next]_vars
\* A call runs until it returns or is aborted.
FairSpec == Spec /\ WF_vars(Step \/ Abort)

-----------------------------------------------------------------------------
(* Properties.                                                             *)

Present == {k \in Keys : \E i \in DOMAIN bucket : In(k, i)}

TableTyped ==
  /\ size \in Nat \ {0} /\ newSize \in {size, 2 * size}
  /\ bucket \in [0..newSize-1 -> Seq(Keys)]
  /\ value \in [Keys -> Values \cup {Junk}]
  /\ pc \in {"ready", "enter", "walk", "link", "find", "store", "sweep",
             "replace", "create", "count", "pop", "uncount", "overrun"}
  /\ after \in {"find", "store", "sweep", "create"}
  /\ hand \in SUBSET Keys /\ Cardinality(hand) <= 1
  /\ slot \in 0..size /\ pos \in Nat \ {0}
TypeOK == TableTyped /\ number \in 0..Word-1

Once ==
  \A i, j \in DOMAIN bucket : \A p \in DOMAIN bucket[i], q \in DOMAIN bucket[j] :
    bucket[i][p] = bucket[j][q] => i = j /\ p = q
InPlace ==
  \A i \in DOMAIN bucket : \A p \in DOMAIN bucket[i] :
    Target(bucket[i][p]) = i \/ (i < size /\ Home(bucket[i][p]) = i)
Passed ==
  pc \in {"walk", "link"} =>
    \A i \in DOMAIN bucket : \A p \in DOMAIN bucket[i] :
      i < slot \/ (i = slot /\ p < pos) => Target(bucket[i][p]) = i

\* Every entry is in one list only, once, and in the list where the present
\* or the new size puts it; when no growth is pending, where lookups expect
\* it; and the slots rehash has passed are as they should be ("the bucket is
\* always consistent", hash.c:970).
Placed == Once /\ InPlace /\ Passed

\* The entries, the one in hand among them; their count; and whether the next
\* call may find a growth that was not completed.
AsMap == [k \in Present \cup hand |->
            IF pc = "replace" /\ k = op.key THEN op.val ELSE value[k]]
AsCount == (number + IF pc = "count" THEN 1 ELSE 0) % Word
Torn == newSize > size /\ pc \in {"ready", "pop", "uncount", "overrun"}

Map == INSTANCE HashMap
         WITH map <- AsMap, count <- AsCount, torn <- Torn,
              overrun <- pc = "overrun"

\* The table behaves like a finite map, whose losses by interrupts are those
\* HashMap allows, as long as nobody asks for the keys or the statistics of a
\* table whose count interrupts have brought below zero.
MapSpec == Map!Spec

\* A call ends: rehash does not meet the entries it has moved for ever.  (What
\* has overrun an array is not followed.)
CallEnds == pc \notin {"ready", "overrun"} ~> pc = "ready"

\* "At most one entry could be lost in this case" (hash.c:971): interrupts do
\* not make h_keys or h_stat write outside their arrays.
NoOverrun == pc # "overrun"

\* "Pop member KEY out of hash table TAB and return it" (yeti.i:1184): a
\* member is not reported to be missing.
PopFinds == [][PopMissed => op.key \notin Present]_vars
=============================================================================
