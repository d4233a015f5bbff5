------------------------------ MODULE HashMap ------------------------------
(***************************************************************************)
(* What a hash table of yeti promises (yeti.i:546-1220), interrupts        *)
(* included: it is a finite map with a count of its entries.  An interrupt *)
(* costs at most one thing: an entry, the value of an entry, or the count  *)
(* of a new one ("at most one entry could be lost in this case",           *)
(* hash.c:971).  It may also leave the table torn.  A torn table is a map  *)
(* still, and h_get, h_set and the destructor see all of it; the           *)
(* operations that pop, list, scan and count may overlook entries until    *)
(* one of the former has been called.                                      *)
(*                                                                         *)
(* That is not all: the count that has missed an entry goes below zero     *)
(* when the table is emptied with h_pop.  h_number then gives a negative   *)
(* number, and h_keys and h_stat make an array with as many elements and   *)
(* write outside it.  Nothing is promised after that (overrun).            *)
(***************************************************************************)
EXTENDS Integers, FiniteSets, Sequences

CONSTANTS
  Keys, Values,
  Junk,       \* what is left of a value when its replacement is interrupted
  Word        \* the count is a size_t: it wraps at Word

VARIABLES
  map,        \* the entries: a partial function on Keys
  count,      \* what h_number answers
  torn,       \* see above
  scan,       \* the keys h_first and h_next have given in the current scan
  sound,      \* the table was not torn when the scan began
  result,     \* of the last operation that has one
  overrun     \* memory outside an array has been written

data == <<map, count, torn, scan, sound, result>>
vars == <<data, overrun>>

Entries == DOMAIN map
Without(k) == [e \in Entries \ {k} |-> map[e]]
Nil == <<"nil">>
Failed == <<"error">>
Value(v) == <<"value", v>>
Key(k) == <<"key", k>>

Init ==
  /\ map = <<>> /\ count = 0 /\ torn = FALSE
  /\ scan = <<>> /\ sound = TRUE /\ result = Nil /\ overrun = FALSE

\* An entry is found if it is there, whatever was interrupted before.
Get(k) ==
  /\ ~torn
  /\ result' = IF k \in Entries THEN Value(map[k]) ELSE Nil
  /\ UNCHANGED <<map, count, torn, scan, sound>>

Put(k, v) ==
  /\ ~torn
  /\ map' = [e \in Entries \cup {k} |-> IF e = k THEN v ELSE map[e]]
  /\ count' = IF k \in Entries THEN count ELSE (count + 1) % Word
  /\ scan' = IF k \in Entries THEN scan ELSE <<>>
  /\ UNCHANGED <<torn, sound, result>>

Pop(k) ==
  \/ /\ k \in Entries
     /\ result' = Value(map[k])
     /\ map' = Without(k) /\ count' = (count - 1) % Word
     /\ UNCHANGED <<torn, scan, sound>>
  \/ /\ k \in Entries => torn
     /\ result' = Nil
     /\ UNCHANGED <<map, count, torn, scan, sound>>

\* The number n of type size_t as a long.
AsLong(n) == IF 2 * n >= Word THEN n - Word ELSE n
\* h_keys makes an array of count elements, h_stat one of one more.
KeysFit == AsLong(count) >= 0
StatFits == AsLong((count + 1) % Word) > 0

\* h_keys, h_stat and the scan see the entries in S.
Sees(S) == S \subseteq Entries /\ (torn \/ S = Entries)

ListKeys(S) ==
  /\ Sees(S) /\ KeysFit
  /\ result' = IF count = 0 THEN Nil
               ELSE IF Cardinality(S) > count THEN Failed
               ELSE <<"keys", S, count - Cardinality(S)>>
  /\ UNCHANGED <<map, count, torn, scan, sound>>

\* h_stat puts a wrong count right, and raises an error.
Stat(S) ==
  /\ Sees(S) /\ StatFits
  /\ count' = Cardinality(S)
  /\ result' = IF count # Cardinality(S) THEN Failed ELSE Nil
  /\ UNCHANGED <<map, torn, scan, sound>>

First ==
  /\ sound' = ~torn
  /\ \/ \E k \in Entries : scan' = <<k>> /\ result' = Key(k)
     \/ (torn \/ map = <<>>) /\ scan' = <<>> /\ result' = Nil
  /\ UNCHANGED <<map, count, torn>>

\* A sound scan gives every entry, and none twice.
Seen == {scan[i] : i \in DOMAIN scan}
Following ==
  /\ scan # <<>>
  /\ \/ \E k \in Entries : /\ sound => k \notin Seen
                           /\ scan' = Append(scan, k) /\ result' = Key(k)
     \/ (sound => Seen = Entries) /\ scan' = <<>> /\ result' = Nil
  /\ UNCHANGED <<map, count, torn, sound>>

\* A call begins.  It may make the table whole, and it ends a scan if it is
\* to change the table.
Begin ==
  /\ torn' \in {torn, FALSE} /\ scan' \in {scan, <<>>}
  /\ result' \in {result, Nil}
  /\ UNCHANGED <<map, count, sound>>

NoMemory == result' = Failed /\ UNCHANGED <<map, count, torn, scan, sound>>

Free ==
  /\ map' = <<>> /\ count' = 0 /\ torn' = FALSE
  /\ scan' = <<>> /\ sound' \in {sound, TRUE} /\ UNCHANGED result

Interrupt ==
  /\ \/ UNCHANGED <<map, count>>
     \/ \E k \in Entries : map' = Without(k) /\ UNCHANGED count
     \/ \E k \in Entries : map' = [map EXCEPT ![k] = Junk] /\ UNCHANGED count
     \/ count' = (count - 1) % Word /\ UNCHANGED map
  /\ torn' \in BOOLEAN
  /\ scan' = <<>> /\ sound' = TRUE /\ result' = Nil

\* h_keys or h_stat of a table whose count is below zero.
Overrun == ~(KeysFit /\ StatFits) /\ overrun' = TRUE /\ UNCHANGED data

Operation ==
  \/ \E k \in Keys : Get(k) \/ Pop(k) \/ \E v \in Values : Put(k, v)
  \/ \E S \in SUBSET Keys : ListKeys(S) \/ Stat(S)
  \/ First \/ Following \/ Begin \/ NoMemory \/ Free \/ Interrupt

Next == ~overrun /\ (Overrun \/ (Operation /\ UNCHANGED overrun))

Spec == Init /\ [][Next]_vars
=============================================================================
