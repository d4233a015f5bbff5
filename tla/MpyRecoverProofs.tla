------------------------- MODULE MpyRecoverProofs -------------------------
(***************************************************************************)
(* Theorems about MpyRecover, for every size of the job, every fan-out and *)
(* every bound: the tree and the types, then the inductive invariant of a  *)
(* round of error recovery (MpyRound), and what follows from it: the       *)
(* safety properties of MpyRecover and its refinement of MpyHalt.          *)
(***************************************************************************)
EXTENDS MpyRound, ListFacts, FiniteSetTheorems, SequenceTheorems, TLAPS

-----------------------------------------------------------------------------
(* The tree.                                                               *)

\* The boss of every rank but 0 is a rank with a lower number, so that the
\* bosses of a rank lead to rank 0 in finitely many steps.  (mp_boss in mpy.i,
\* mperr_to_boss in mpy.c.)
THEOREM BossIsLower ==
  ASSUME NEW r \in Rank, r # 0
  PROVE  Boss(r) \in Rank /\ Boss(r) < r
BY FanAssumption, SizeAssumption, Z3 DEF Rank, Boss

\* A rank is on the staff of its boss and of no other rank: the destinations of
\* mperr_to_staff and the destination of mperr_to_boss are inverse.
THEOREM StaffInvertsBoss ==
  ASSUME NEW r \in Rank, NEW q \in Rank
  PROVE  r \in Staff(q) <=> r # 0 /\ q = Boss(r)
BY FanAssumption, SizeAssumption, Z3 DEF Rank, Boss, Staff

\* The three ways mpy_recover, mpy_send and mp_staff compute the staff agree.
THEOREM StaffCopiesAgree ==
  ASSUME NEW r \in Rank
  PROVE  Staff(r) = MpStaff(r) /\ Staff(r) = SendStaff(r)
BY FanAssumption, SizeAssumption, Z3 DEF Rank, Staff, MpStaff, SendStaff

-----------------------------------------------------------------------------
(* The encoding.                                                           *)

Byte == 0 .. 127

LEMMA TupleType ==
  ASSUME NEW S, NEW a \in S, NEW b \in S, NEW c \in S
  PROVE  /\ << >> \in Seq(S) /\ Len(<< >>) = 0
         /\ <<a>> \in Seq(S) /\ Len(<<a>>) = 1
         /\ <<a, b>> \in Seq(S) /\ Len(<<a, b>>) = 2
         /\ <<a, b, c>> \in Seq(S) /\ Len(<<a, b, c>>) = 3
OBVIOUS

LEMMA DigitsType ==
  ASSUME NEW h \in Nat
  PROVE  Digits(h) \in Seq(Byte) /\ Len(Digits(h)) \in 0 .. 3
<1>1. CASE h = 0
  BY <1>1, 0 \in Byte, TupleType DEF Digits, Byte
<1>2. CASE h # 0 /\ h < 128
  <2>1. h \in Byte
    BY <1>2 DEF Byte
  <2>2. Digits(h) = <<h>>
    BY <1>2 DEF Digits
  <2> QED BY <2>1, <2>2, TupleType
<1>3. CASE h >= 128 /\ h < 16384
  <2>1. h \div 128 \in Byte /\ h % 128 \in Byte
    BY <1>3, Z3 DEF Byte
  <2>2. Digits(h) = <<h \div 128, h % 128>>
    BY <1>3 DEF Digits
  <2> HIDE DEF Byte
  <2> QED BY <2>1, <2>2, TupleType
<1>4. CASE h >= 16384
  <2>1. /\ (h \div 16384) % 128 \in Byte
        /\ (h \div 128) % 128 \in Byte
        /\ h % 128 \in Byte
    BY <1>4, Z3 DEF Byte
  <2>2. Digits(h) = <<(h \div 16384) % 128, (h \div 128) % 128, h % 128>>
    BY <1>4 DEF Digits
  <2> QED BY <2>1, <2>2, TupleType
<1> QED BY <1>1, <1>2, <1>3, <1>4

LEMMA EncodeType ==
  ASSUME NEW n \in Int
  PROVE  /\ Encode(n) \in Seq(Byte)
         /\ Len(Encode(n)) \in 1 .. 4
<1>1. Magnitude(n) \div 64 \in Nat
  BY Z3 DEF Magnitude
<1>2. FinalByte(n) \in Byte
  BY Z3 DEF FinalByte, Magnitude, Byte
<1>3. /\ Digits(Magnitude(n) \div 64) \in Seq(Byte)
      /\ Len(Digits(Magnitude(n) \div 64)) \in 0 .. 3
  BY <1>1, DigitsType
<1> DEFINE d == Digits(Magnitude(n) \div 64)
<1> HIDE DEF d
<1>4. Append(d, FinalByte(n)) \in Seq(Byte)
      /\ Len(Append(d, FinalByte(n))) = Len(d) + 1
  BY <1>2, <1>3, AppendProperties DEF d
<1>5. Encode(n) = Append(d, FinalByte(n))
  BY DEF Encode, d
<1>6. Len(d) \in 0 .. 3
  BY <1>3 DEF d
<1> QED BY <1>4, <1>5, <1>6

\* A copy up to the first NUL is still a sequence of unmarked bytes.
LEMMA UpToNulType ==
  ASSUME NEW text \in Seq(Byte), Len(text) \in 1 .. 4
  PROVE  UpToNul(text) \in Seq(Byte)
<1> DEFINE ends == {i \in DOMAIN text : text[i] = 0}
           n == CHOOSE i \in ends : \A j \in ends : i <= j
<1>1. CASE ends = {}
  BY <1>1 DEF UpToNul
<1>2. CASE ends # {}
  <2>1. ends \subseteq 1 .. 4 /\ ends \subseteq DOMAIN text
    OBVIOUS
  <2>2. \E i \in ends : \A j \in ends : i <= j
    <3> HIDE DEF ends
    <3>1. CASE 1 \in ends
      BY <2>1, <3>1
    <3>2. CASE 1 \notin ends /\ 2 \in ends
      BY <2>1, <3>2
    <3>3. CASE 1 \notin ends /\ 2 \notin ends /\ 3 \in ends
      BY <2>1, <3>3
    <3>4. CASE 1 \notin ends /\ 2 \notin ends /\ 3 \notin ends
      <4>1. 4 \in ends
        <5>1. PICK i : i \in ends
          BY <1>2
        <5>2. i \in 1 .. 4 /\ i # 1 /\ i # 2 /\ i # 3
          BY <5>1, <2>1, <3>4
        <5>3. i = 4
          BY <5>2
        <5> QED BY <5>1, <5>3
      <4>2. \A j \in ends : j = 4
        BY <2>1, <3>4
      <4> QED BY <4>1, <4>2
    <3> QED BY <3>1, <3>2, <3>3, <3>4
  <2>3. n \in ends
    <3> HIDE DEF ends
    <3> QED BY <2>2
  <2>4. n \in 1 .. Len(text)
    BY <2>1, <2>3
  <2>5. UpToNul(text) = SubSeq(text, 1, n - 1)
    BY <1>2 DEF UpToNul
  <2> HIDE DEF n, ends
  <2>6. n - 1 \in Int /\ \A i \in 1 .. n - 1 : text[i] \in Byte
    BY <2>4, LenProperties
  <2>7. SubSeq(text, 1, n - 1) \in Seq(Byte)
    BY <2>6, SubSeqProperties
  <2> QED BY <2>5, <2>7
<1> QED BY <1>1, <1>2

\* Without a mark the decoder takes the first byte for the whole number.
LEMMA DecodeUnmarked ==
  ASSUME NEW text \in Seq(Byte)
  PROVE  LET b == ByteAt(text, 1)
         IN  /\ b \in Byte
             /\ FinalAt(text, 1) = 1
             /\ DecodeAt(text, 1) =
                  IF (b \div 64) % 2 = 1 THEN -(b % 64) ELSE b % 64
<1> DEFINE b == ByteAt(text, 1)
           final(j) == /\ ByteAt(text, j) < 128
                       /\ \A k \in 1 .. j - 1 : ByteAt(text, k) >= 128
<1>1. b \in Byte
  <2>1. CASE 1 <= Len(text)
    BY <2>1, ElementOfSeq, LenProperties DEF ByteAt
  <2>2. CASE ~(1 <= Len(text))
    BY <2>2 DEF ByteAt, Byte
  <2> QED BY <2>1, <2>2
<1>2. FinalAt(text, 1) = 1
  <2>1. Len(text) \in Nat
    BY LenProperties
  <2>2. b < 128 /\ ~(b >= 128)
    <3> HIDE DEF b
    <3> QED BY <1>1 DEF Byte
  <2>3. 1 \in 1 .. Len(text) + 1 /\ final(1)
    BY <2>1, <2>2
  <2>4. ASSUME NEW j \in 1 .. Len(text) + 1, final(j), j # 1
        PROVE  FALSE
    <3>1. 1 \in 1 .. j - 1
      BY <2>1, <2>4
    <3> QED BY <2>2, <2>4, <3>1
  <2>5. FinalAt(text, 1) = CHOOSE j \in 1 .. Len(text) + 1 : final(j)
    BY DEF FinalAt
  <2> HIDE DEF final
  <2> QED BY <2>3, <2>4, <2>5
<1>3. HighBits(text, 1, 1) = 0
  BY Z3 DEF HighBits
<1>4. 64 * HighBits(text, 1, 1) + (b % 64) = b % 64
  <2> HIDE DEF b
  <2> QED BY <1>1, <1>3, Z3 DEF Byte
<1>5. DecodeAt(text, 1) = IF (b \div 64) % 2 = 1 THEN -(b % 64) ELSE b % 64
  BY <1>2, <1>4 DEF DecodeAt
<1> QED BY <1>1, <1>2, <1>5

\* Whatever is sent, what arrives in a control message is a number of
\* magnitude below 64.  (mperr_encode, which never sets the 128 bit.)
THEOREM CarriedIsShort ==
  ASSUME NEW n \in Int
  PROVE  Carried(n) \in -63 .. 63
<1> DEFINE text == UpToNul(Encode(n))
<1>1. text \in Seq(Byte)
  BY EncodeType, UpToNulType
<1>2. Carried(n) = DecodeAt(text, 1)
  BY DEF Carried
<1> HIDE DEF text
<1> DEFINE b == ByteAt(text, 1)
<1>3. /\ b \in Byte
      /\ DecodeAt(text, 1) = IF (b \div 64) % 2 = 1 THEN -(b % 64) ELSE b % 64
  BY <1>1, DecodeUnmarked
<1> HIDE DEF b
<1>4. b % 64 \in 0 .. 63
  BY <1>3, Z3 DEF Byte
<1> QED BY <1>2, <1>3, <1>4

\* The ranks and counts of a job that stays below 64 arrive unharmed.
THEOREM CarriedIsFaithful ==
  ASSUME NEW n \in -63 .. 63
  PROVE  Carried(n) = n
<1> DEFINE f == FinalByte(n)
<1>1. f = (IF n <= 0 THEN 64 ELSE 0) + Magnitude(n) /\ Magnitude(n) \in 0 .. 63
  BY Z3 DEF FinalByte, Magnitude
<1>2. f \in 1 .. 127
  BY <1>1 DEF Magnitude
<1>3. Encode(n) = <<f>>
  <2>1. Magnitude(n) \div 64 = 0
    BY <1>1, Z3
  <2>2. Digits(Magnitude(n) \div 64) = << >>
    BY <2>1 DEF Digits
  <2>3. \A x : Append(<< >>, x) = <<x>>
    OBVIOUS
  <2> QED BY <2>2, <2>3 DEF Encode
<1> HIDE DEF f
<1>4. UpToNul(<<f>>) = <<f>>
  <2>1. {i \in DOMAIN <<f>> : <<f>>[i] = 0} = {}
    BY <1>2
  <2> QED BY <2>1 DEF UpToNul
<1>5. Carried(n) = DecodeAt(<<f>>, 1)
  BY <1>3, <1>4 DEF Carried
<1>6. <<f>> \in Seq(Byte) /\ ByteAt(<<f>>, 1) = f
  BY <1>2 DEF ByteAt, Byte
<1>7. DecodeAt(<<f>>, 1) = IF (f \div 64) % 2 = 1 THEN -(f % 64) ELSE f % 64
  BY <1>6, DecodeUnmarked
<1>8. CASE n <= 0
  <2>1. f = 64 - n
    BY <1>1, <1>8 DEF Magnitude
  <2>2. f \div 64 = 1 /\ f % 64 = -n
    BY <2>1, <1>8, Z3
  <2> QED BY <1>5, <1>7, <2>2
<1>9. CASE n > 0
  <2>1. f = n
    BY <1>1, <1>9 DEF Magnitude
  <2>2. f \div 64 = 0 /\ f % 64 = n
    BY <2>1, <1>9, Z3
  <2> QED BY <1>5, <1>7, <2>2
<1> QED BY <1>8, <1>9

-----------------------------------------------------------------------------
(* Types of the helpers.                                                   *)

LEMMA RankFinite == IsFiniteSet(Rank)
BY SizeAssumption, FS_Interval DEF Rank

LEMMA StaffSubset == \A r : Staff(r) \subseteq Rank
BY DEF Staff

LEMMA ControlType ==
  ASSUME NEW id \in 0 .. 6, NEW n1 \in Int, NEW n2 \in Int
  PROVE  Control(id, n1, n2) \in Message
<1>1. Carried(n1) \in Int /\ Carried(n2) \in Int
  BY CarriedIsShort
<1> QED BY <1>1 DEF Control, Message

LEMMA DataType == Data \in Message
BY DEF Data, Message

\* The channels after r has taken the oldest message of q.
LEMMA ReceivedType ==
  ASSUME chan \in [Rank -> [Rank -> Seq(Message)]],
         NEW q \in Rank, NEW r \in Rank, Has(q, r)
  PROVE  /\ Received(q, r) \in [Rank -> [Rank -> Seq(Message)]]
         /\ Head(chan[q][r]) \in Message
<1>1. chan[q][r] \in Seq(Message) /\ chan[q][r] # << >>
  BY DEF Has
<1>2. Head(chan[q][r]) \in Message /\ Tail(chan[q][r]) \in Seq(Message)
  BY <1>1, HeadTailProperties
<1> QED BY <1>2 DEF Received

\* The channels after r has sent m to the ranks of D.
LEMMA SentType ==
  ASSUME chan \in [Rank -> [Rank -> Seq(Message)]],
         NEW r \in Rank, NEW D, NEW m \in Message
  PROVE  Sent(chan, r, D, m) \in [Rank -> [Rank -> Seq(Message)]]
<1>1. \A q \in Rank : Append(chan[r][q], m) \in Seq(Message)
  BY AppendProperties
<1> QED BY <1>1 DEF Sent

LEMMA RemoveAtType ==
  ASSUME NEW S, NEW s \in Seq(S), NEW i \in DOMAIN s
  PROVE  RemoveAt(s, i) \in Seq(S) /\ s[i] \in S
<1>1. i \in 1 .. Len(s) /\ Len(s) \in Nat
  BY LenProperties
<1>2. \A j \in 1 .. Len(s) : s[j] \in S
  BY LenProperties
<1>3. SubSeq(s, 1, i - 1) \in Seq(S)
  BY <1>1, <1>2, SubSeqProperties
<1>4. SubSeq(s, i + 1, Len(s)) \in Seq(S)
  BY <1>1, <1>2, SubSeqProperties
<1> QED BY <1>1, <1>2, <1>3, <1>4, ConcatProperties DEF RemoveAt

LEMMA IncompleteType ==
  ASSUME NEW r
  PROVE  Incomplete(r) \in Nat
<1> DEFINE D == {q \in Rank : \E i \in DOMAIN chan[r][q] : chan[r][q][i] = Data}
<1>1. IsFiniteSet(D) /\ Cardinality(D) \in Nat
  BY RankFinite, FS_Subset, FS_CardinalityType
<1> QED BY <1>1 DEF Incomplete

\* The request table after MPI_Testsome.
LEMMA TestsomeOfType ==
  ASSUME isends \in [Rank -> Nat], slots \in [Rank -> Nat],
         NEW r \in Rank, NEW a \in Nat, NEW s \in Nat,
         TestsomeOf(r, a, s)
  PROVE  isends' \in [Rank -> Nat] /\ slots' \in [Rank -> Nat]
BY DEF TestsomeOf

LEMMA TestsomeType ==
  ASSUME isends \in [Rank -> Nat], slots \in [Rank -> Nat],
         NEW r \in Rank, NEW more, Testsome(r, more)
  PROVE  isends' \in [Rank -> Nat] /\ slots' \in [Rank -> Nat]
BY TestsomeOfType DEF Testsome

\* The parts of the type invariant that arithmetic needs.
LEMMA CounterType ==
  ASSUME TypeOK
  PROVE  /\ mpyNet \in [Rank -> Int] /\ net \in [Rank -> Int]
         /\ count \in [Rank -> Int] /\ mid1 \in [Rank -> Int]
         /\ nid1 \in [Rank -> Nat] /\ id0 \in [Rank -> 0 .. 2]
         /\ tally \in [Rank -> [Rank -> 0 .. 2]] /\ heard \in [Rank -> {4, 5}]
         /\ quiet \in [Rank -> BOOLEAN]
BY DEF TypeOK

\* What mpy_recover sets up when it is entered.
LEMMA BeginType ==
  ASSUME TypeOK, NEW r \in Rank, NEW m \in Message, NEW own \in BOOLEAN,
         NEW a \in Nat, Begin(r, m, own, a),
         chan' \in [Rank -> [Rank -> Seq(Message)]], mpyNet' \in [Rank -> Int],
         sends' \in Nat, faulted' \subseteq Rank
  PROVE  TypeOK'
<1>1. CASE m.id \notin {1, 2}
  <2>1. /\ fatal' \in {"none"} \cup Reasons
        /\ UNCHANGED <<phase, mpyQueue, msg, quiet, isends, slots, locals>>
    BY <1>1 DEF Begin, Reasons
  <2> QED BY <2>1 DEF TypeOK, locals
<1>2. CASE m.id \in {1, 2}
  <2>1. isends' \in [Rank -> Nat] /\ slots' \in [Rank -> Nat]
    <3>1. TestsomeOf(r, a, a + 1)
      BY <1>2 DEF Begin
    <3>2. a + 1 \in Nat
      OBVIOUS
    <3> QED BY <3>1, <3>2, TestsomeOfType DEF TypeOK
  <2>2. /\ phase' = [phase EXCEPT ![r] = "drain"]
        /\ mpyQueue' = [mpyQueue EXCEPT ![r] = QueueLeft(r)]
        /\ msg' = [msg EXCEPT ![r] = m]
        /\ quiet' = [quiet EXCEPT ![r] = FALSE]
        /\ tally' = [tally EXCEPT ![r] = [q \in Rank |-> 0]]
        /\ UNCHANGED <<net, count, heard, fatal>>
    BY <1>2 DEF Begin
  <2>3. /\ id0' = [id0 EXCEPT ![r] = m.id]
        /\ nid1' = [nid1 EXCEPT ![r] = IF m.id = 1 THEN 1 ELSE 0]
        /\ mid1' = [mid1 EXCEPT ![r] = IF own THEN 1 ELSE 0]
        /\ frank' = [frank EXCEPT ![r] = IF m.id = 2 THEN m.n1 ELSE -1]
    BY <1>2 DEF Begin
  <2>4. QueueLeft(r) \in Seq(Rank)
    BY EmptySeq DEF QueueLeft
  <2>5. /\ phase' \in [Rank -> {"task", "sending", "idle"} \cup Halting]
        /\ mpyQueue' \in [Rank -> Seq(Rank)]
        /\ msg' \in [Rank -> Message] /\ quiet' \in [Rank -> BOOLEAN]
        /\ tally' \in [Rank -> [Rank -> 0 .. 2]]
    BY <2>2, <2>4 DEF TypeOK, Halting
  <2>6. /\ id0' \in [Rank -> 0 .. 2] /\ nid1' \in [Rank -> Nat]
        /\ mid1' \in [Rank -> Int] /\ frank' \in [Rank -> Int]
    <3>1. /\ m.id \in 0 .. 2
          /\ (IF m.id = 2 THEN m.n1 ELSE -1) \in Int
      BY <1>2 DEF Message
    <3>2. id0' \in [Rank -> 0 .. 2] /\ nid1' \in [Rank -> Nat]
      BY <2>3, <3>1 DEF TypeOK
    <3>3. mid1' \in [Rank -> Int] /\ frank' \in [Rank -> Int]
      BY <2>3, <3>1 DEF TypeOK
    <3> QED BY <3>2, <3>3
  <2> QED BY <2>1, <2>2, <2>5, <2>6 DEF TypeOK
<1> QED BY <1>1, <1>2

LEMMA DieType ==
  ASSUME TypeOK, NEW reason \in Reasons, Die(reason)
  PROVE  TypeOK'
BY DEF Die, TypeOK, locals

LEMMA DequeueType ==
  ASSUME TypeOK, NEW r \in Rank, NEW from \in Rank, Dequeue(r, from)
  PROVE  mpyQueue' \in [Rank -> Seq(Rank)]
<1>1. PICK i \in DOMAIN mpyQueue[r] :
        mpyQueue' = [mpyQueue EXCEPT ![r] = RemoveAt(@, i)]
  BY DEF Dequeue
<1>2. RemoveAt(mpyQueue[r], i) \in Seq(Rank)
  BY RemoveAtType DEF TypeOK
<1> QED BY <1>1, <1>2 DEF TypeOK

LEMMA StartSendType ==
  ASSUME TypeOK, NEW r \in Rank, NEW D \in SUBSET Rank, StartSend(r, D),
         mpyQueue' \in [Rank -> Seq(Rank)]
  PROVE  TypeOK'
<1>1. Cardinality(D) \in Nat
  BY RankFinite, FS_Subset, FS_CardinalityType
<1>2. chan' \in [Rank -> [Rank -> Seq(Message)]]
  BY SentType, DataType DEF StartSend, TypeOK
<1>3. /\ phase' \in [Rank -> {"task", "sending", "idle"} \cup Halting]
      /\ mpyNet' \in [Rank -> Int] /\ sends' \in Nat
      /\ isends' \in [Rank -> Nat] /\ quiet' \in [Rank -> BOOLEAN]
  <2>1. /\ sends' = sends + Cardinality(D)
        /\ mpyNet' = [mpyNet EXCEPT ![r] = @ + Cardinality(D)]
        /\ isends' = [isends EXCEPT ![r] = Cardinality(D)]
        /\ phase' = [phase EXCEPT ![r] = "sending"]
        /\ quiet' = [quiet EXCEPT ![r] = FALSE]
    BY DEF StartSend
  <2>2. phase' \in [Rank -> {"task", "sending", "idle"} \cup Halting]
    BY <2>1 DEF TypeOK
  <2>3. /\ isends' \in [Rank -> Nat] /\ quiet' \in [Rank -> BOOLEAN]
        /\ sends' \in Nat
    BY <1>1, <2>1 DEF TypeOK
  <2>4. mpyNet' \in [Rank -> Int]
    <3>1. mpyNet \in [Rank -> Int] /\ mpyNet[r] + Cardinality(D) \in Int
      BY <1>1, CounterType
    <3> QED BY <2>1, <3>1
  <2> QED BY <2>2, <2>3, <2>4
<1> QED BY <1>2, <1>3 DEF StartSend, TypeOK, locals

LEMMA SpreadType ==
  ASSUME TypeOK, NEW r \in Rank, NEW f \in Int, Spread(r, f)
  PROVE  TypeOK'
<1>1. Control(2, f, 0) \in Message
  BY ControlType
<1>2. chan' \in [Rank -> [Rank -> Seq(Message)]]
  BY <1>1, SentType DEF Spread, TypeOK
<1>3. isends' \in [Rank -> Nat] /\ slots' \in [Rank -> Nat]
  BY TestsomeType DEF Spread, TypeOK
<1>4. phase' \in [Rank -> {"task", "sending", "idle"} \cup Halting]
  BY DEF Spread, TypeOK, Halting
<1>5. frank' \in [Rank -> Int] /\ net' \in [Rank -> Int]
  BY DEF Spread, TypeOK
<1> QED BY <1>2, <1>3, <1>4, <1>5 DEF Spread, TypeOK

LEMMA PassClearedType ==
  ASSUME TypeOK, NEW r \in Rank, PassCleared(r)
  PROVE  TypeOK'
<1>1. CASE ~StaffSendsDone(r) \/ CannotFinish(r)
  <2>1. \/ Die("incomplete send in mperr_to_staff")
        \/ Die("incomplete isend after recovery")
    BY <1>1 DEF PassCleared
  <2> QED BY <2>1, DieType DEF Reasons
<1>2. CASE StaffSendsDone(r) /\ ~CannotFinish(r)
  <2>1. Control(5, 0, 0) \in Message
    BY ControlType
  <2>2. chan' \in [Rank -> [Rank -> Seq(Message)]]
    <3>1. chan' = Sent(chan, r, Staff(r), Control(5, 0, 0))
      BY <1>2 DEF PassCleared
    <3> QED BY <2>1, <3>1, SentType DEF TypeOK
  <2>3. isends' \in [Rank -> Nat] /\ slots' \in [Rank -> Nat]
    BY <1>2, TestsomeType DEF PassCleared, TypeOK
  <2>4. phase' \in [Rank -> {"task", "sending", "idle"} \cup Halting]
    BY <1>2 DEF PassCleared, TypeOK, Halting
  <2> QED BY <1>2, <2>2, <2>3, <2>4 DEF PassCleared, TypeOK, locals
<1> QED BY <1>1, <1>2

-----------------------------------------------------------------------------
(* The type invariant.                                                     *)

\* The steps of the task and of the idle loop.
LEMMA TaskType ==
  ASSUME TypeOK, NEW r \in Rank,
         \/ MpExec
         \/ Program(r)
         \/ SendDone(r)
         \/ Attend(r)
         \/ \E q \in Rank : HearCaught(r, q)
         \/ MpExecIdle(r)
  PROVE  TypeOK'
<1>1. CASE MpExec
  <2>1. 0 \in Rank
    BY SizeAssumption DEF Rank
  <2> QED BY <1>1, <2>1, StaffSubset, StartSendType DEF MpExec, TypeOK
<1>2. ASSUME NEW D \in SUBSET Rank, MpSend(r, D)
      PROVE  TypeOK'
  BY <1>2, StartSendType DEF MpSend, TypeOK
<1>3. CASE Fault(r)
  <2>1. faulted' \subseteq Rank
    BY <1>3 DEF Fault, TypeOK
  <2>2. UNCHANGED <<chan, mpyNet, sends>>
    BY <1>3 DEF Fault
  <2>3. Control(1, r, 0) \in Message
    BY ControlType DEF Rank
  <2>4. CASE quiet[r]
    <3>1. Begin(r, msg[r], FALSE, isends[r])
      BY <1>3, <2>4 DEF Fault
    <3> QED BY <2>1, <2>2, <3>1, BeginType DEF TypeOK
  <2>5. CASE ~quiet[r]
    <3>1. Begin(r, Control(1, r, 0), TRUE, isends[r])
      BY <1>3, <2>5 DEF Fault
    <3> QED BY <2>1, <2>2, <2>3, <3>1, BeginType DEF TypeOK
  <2> QED BY <2>4, <2>5
<1>4. ASSUME NEW from \in Rank, MpRecv(r, from)
      PROVE  TypeOK'
  <2>1. mpyQueue' \in [Rank -> Seq(Rank)]
    BY <1>4, DequeueType DEF MpRecv
  <2> QED BY <1>4, <2>1 DEF MpRecv, TypeOK, locals
<1>5. CASE Finish(r)
  BY <1>5 DEF Finish, TypeOK, locals
<1>6. CASE SendDone(r)
  BY <1>6 DEF SendDone, TypeOK, locals
<1>7. ASSUME NEW q \in Rank, Enqueue(r, q)
      PROVE  TypeOK'
  <2>1. chan' \in [Rank -> [Rank -> Seq(Message)]]
    BY <1>7, ReceivedType DEF Enqueue, HasData, TypeOK
  <2>2. mpyQueue' \in [Rank -> Seq(Rank)]
    BY <1>7, AppendProperties DEF Enqueue, TypeOK
  <2>3. mpyNet' \in [Rank -> Int] /\ quiet' \in [Rank -> BOOLEAN]
    <3>1. /\ mpyNet' = [mpyNet EXCEPT ![r] = @ - 1]
          /\ quiet' = [quiet EXCEPT ![r] = FALSE]
      BY <1>7 DEF Enqueue
    <3> QED BY <3>1, CounterType
  <2> QED BY <1>7, <2>1, <2>2, <2>3 DEF Enqueue, TypeOK, locals
<1>8. ASSUME NEW q \in Rank, HearControl(r, q)
      PROVE  TypeOK'
  <2>1. /\ chan' \in [Rank -> [Rank -> Seq(Message)]]
        /\ Head(chan[q][r]) \in Message
    BY <1>8, ReceivedType DEF HearControl, HasControl, TypeOK
  <2>2. /\ Begin(r, Head(chan[q][r]), FALSE, isends[r])
        /\ UNCHANGED <<mpyNet, sends, faulted>>
    BY <1>8 DEF HearControl
  <2> QED BY <2>1, <2>2, BeginType DEF TypeOK
<1>9. ASSUME NEW q \in Rank, SendInterrupted(r, q)
      PROVE  TypeOK'
  <2>1. PICK i \in DOMAIN chan[q][r] :
          /\ chan' = [chan EXCEPT ![q][r] = RemoveAt(@, i)]
          /\ \E a \in 0 .. Incomplete(r) : Begin(r, chan[q][r][i], FALSE, a)
    BY <1>9 DEF SendInterrupted
  <2>2. chan[q][r][i] \in Message /\ RemoveAt(chan[q][r], i) \in Seq(Message)
    <3>1. chan[q][r] \in Seq(Message)
      BY DEF TypeOK
    <3>2. i \in DOMAIN chan[q][r]
      OBVIOUS
    <3> QED BY ONLY <3>1, <3>2, RemoveAtType
  <2>3. chan' \in [Rank -> [Rank -> Seq(Message)]]
    BY <2>1, <2>2 DEF TypeOK
  <2>4. PICK a \in 0 .. Incomplete(r) : Begin(r, chan[q][r][i], FALSE, a)
    BY <2>1
  <2>6. a \in Nat
    BY IncompleteType
  <2>5. UNCHANGED <<mpyNet, sends, faulted>>
    BY <1>9 DEF SendInterrupted
  <2> QED BY <2>2, <2>3, <2>4, <2>5, <2>6, BeginType DEF TypeOK
<1>10. ASSUME NEW q \in Rank, HearCaught(r, q)
       PROVE  TypeOK'
  <2>1. /\ chan' \in [Rank -> [Rank -> Seq(Message)]]
        /\ Head(chan[q][r]) \in Message
    BY <1>10, ReceivedType DEF HearCaught, HasControl, TypeOK
  <2> QED BY <1>10, <2>1 DEF HearCaught, TypeOK, locals
<1>11. CASE MpExecIdle(r)
  <2>1. Boss(r) \in Rank
    BY <1>11, BossIsLower DEF MpExecIdle
  <2>2. mpyQueue' \in [Rank -> Seq(Rank)]
    BY <1>11, <2>1, DequeueType DEF MpExecIdle
  <2>3. CASE Staff(r) # {}
    BY <1>11, <2>2, <2>3, StaffSubset, StartSendType DEF MpExecIdle
  <2>4. CASE Staff(r) = {}
    BY <1>11, <2>2, <2>4 DEF MpExecIdle, TypeOK, locals
  <2> QED BY <2>3, <2>4
<1> QED BY <1>1, <1>2, <1>3, <1>4, <1>5, <1>6, <1>7, <1>8, <1>9, <1>10, <1>11
       DEF Program, Attend

\* The first two stages of mpy_recover: up to the verdict.
LEMMA VerdictType ==
  ASSUME TypeOK, NEW r \in Rank, NEW q \in Rank,
         \/ Discard(r, q)
         \/ DrainControl(r, q)
         \/ DrainEmpty(r)
         \/ AlertControl(r, q)
         \/ AlertEmpty(r)
  PROVE  TypeOK'
<1> DEFINE m == Head(chan[q][r])
<1>1. HasData(q, r) \/ HasControl(q, r) =>
        /\ Received(q, r) \in [Rank -> [Rank -> Seq(Message)]]
        /\ m \in Message
  BY ReceivedType DEF HasData, HasControl, TypeOK
<1>2. m \in Message => m.id \in 0 .. 6 /\ m.n1 \in Int /\ m.n2 \in Int
  BY DEF Message
<1> HIDE DEF m
<1>3. CASE Discard(r, q)
  <2>1. mpyNet' \in [Rank -> Int]
    <3>1. mpyNet' = [mpyNet EXCEPT ![r] = @ - 1]
      BY <1>3 DEF Discard
    <3> QED BY <3>1, CounterType
  <2> QED BY <1>1, <1>3, <2>1 DEF Discard, TypeOK, locals
<1>4. CASE DrainControl(r, q)
  <2>1. CASE m.id \notin {1, 2}
    BY <1>4, <2>1, DieType DEF DrainControl, Reasons, m
  <2>2. CASE m.id \in {1, 2}
    <3>1. /\ chan' = Received(q, r)
          /\ msg' = [msg EXCEPT ![r] = m]
          /\ id0' = [id0 EXCEPT ![r] = IF @ < m.id THEN m.id ELSE @]
          /\ nid1' = [nid1 EXCEPT ![r] = IF m.id = 1 THEN @ + 1 ELSE @]
          /\ frank' = [frank EXCEPT ![r] = Verdict(r, m)]
          /\ Testsome(r, TRUE)
          /\ UNCHANGED <<phase, mpyNet, mpyQueue, quiet, mid1, tally, net,
                         count, heard, fatal, sends, faulted>>
      BY <1>4, <2>2 DEF DrainControl, m
    <3>2. m \in Message
      BY <1>1, <1>4 DEF DrainControl
    <3>3. Verdict(r, m) \in Int
      BY <1>2, <3>2 DEF Verdict, TypeOK
    <3>4. isends' \in [Rank -> Nat] /\ slots' \in [Rank -> Nat]
      BY <3>1, TestsomeType DEF TypeOK
    <3>5. chan' \in [Rank -> [Rank -> Seq(Message)]]
      BY <1>1, <1>4, <3>1 DEF DrainControl
    <3>6. msg' \in [Rank -> Message] /\ frank' \in [Rank -> Int]
      BY <3>1, <3>2, <3>3 DEF TypeOK
    <3>7. id0' \in [Rank -> 0 .. 2]
      BY <2>2, <3>1, CounterType
    <3>8. nid1' \in [Rank -> Nat]
      BY <3>1, CounterType
    <3> QED BY <3>1, <3>4, <3>5, <3>6, <3>7, <3>8 DEF TypeOK
  <2> QED BY <2>1, <2>2
<1>5. CASE DrainEmpty(r)
  <2>1. CASE r # 0 /\ id0[r] = 1
    <3>1. /\ chan' = Sent(chan, r, {Boss(r)}, msg[r])
          /\ phase' = [phase EXCEPT ![r] = "alert"]
          /\ Testsome(r, TRUE)
          /\ UNCHANGED <<mpyNet, mpyQueue, msg, quiet, locals, fatal, sends,
                         faulted>>
      BY <1>5, <2>1 DEF DrainEmpty, MustAlert
    <3>2. chan' \in [Rank -> [Rank -> Seq(Message)]]
      BY <3>1, SentType DEF TypeOK
    <3>3. isends' \in [Rank -> Nat] /\ slots' \in [Rank -> Nat]
      BY <3>1, TestsomeType DEF TypeOK
    <3>4. phase' \in [Rank -> {"task", "sending", "idle"} \cup Halting]
      BY <3>1 DEF TypeOK, Halting
    <3> QED BY <3>1, <3>2, <3>3, <3>4 DEF TypeOK, locals
  <2>2. CASE r # 0 /\ id0[r] # 1
    <3>1. Spread(r, frank[r]) /\ frank[r] \in Int
      BY <1>5, <2>2 DEF DrainEmpty, MustAlert, TypeOK
    <3> QED BY <3>1, SpreadType
  <2>3. CASE r = 0 /\ id0[0] = 1
    <3>1. msg[0].n1 \in Int
      BY <2>3 DEF TypeOK, Message
    <3>2. Spread(0, msg[0].n1)
      BY <1>5, <2>3 DEF DrainEmpty, MustAlert
    <3> QED BY <2>3, <3>1, <3>2, SpreadType
  <2>4. CASE r = 0 /\ id0[0] # 1
    <3>1. Die("bad initial control message")
      BY <1>5, <2>4 DEF DrainEmpty, MustAlert
    <3> QED BY <3>1, DieType DEF Reasons
  <2> QED BY <2>1, <2>2, <2>3, <2>4
<1>6. CASE AlertControl(r, q)
  <2>1. CASE m.id \notin {1, 2}
    BY <1>6, <2>1, DieType DEF AlertControl, Reasons, m
  <2>2. CASE m.id \in {1, 2}
    <3>1. /\ chan' = Received(q, r)
          /\ msg' = [msg EXCEPT ![r] = m]
          /\ nid1' = [nid1 EXCEPT ![r] = IF m.id = 1 THEN @ + 1 ELSE @]
          /\ frank' = [frank EXCEPT ![r] = Verdict(r, m)]
          /\ phase' = [phase EXCEPT ![r] =
                         IF m.id = 2 THEN "alertdrain" ELSE @]
          /\ Testsome(r, TRUE)
          /\ UNCHANGED <<mpyNet, mpyQueue, quiet, id0, mid1, tally, net,
                         count, heard, fatal, sends, faulted>>
      BY <1>6, <2>2 DEF AlertControl, m
    <3>2. m \in Message
      BY <1>1, <1>6 DEF AlertControl
    <3>3. Verdict(r, m) \in Int
      BY <1>2, <3>2 DEF Verdict, TypeOK
    <3>4. isends' \in [Rank -> Nat] /\ slots' \in [Rank -> Nat]
      BY <3>1, TestsomeType DEF TypeOK
    <3>5. chan' \in [Rank -> [Rank -> Seq(Message)]]
      BY <1>1, <1>6, <3>1 DEF AlertControl
    <3>6. msg' \in [Rank -> Message] /\ frank' \in [Rank -> Int]
      BY <3>1, <3>2, <3>3 DEF TypeOK
    <3>8. nid1' \in [Rank -> Nat]
      BY <3>1, CounterType
    <3>7. phase' \in [Rank -> {"task", "sending", "idle"} \cup Halting]
      BY <3>1 DEF TypeOK, Halting
    <3> QED BY <3>1, <3>4, <3>5, <3>6, <3>7, <3>8 DEF TypeOK
  <2> QED BY <2>1, <2>2
<1>7. CASE AlertEmpty(r)
  <2>1. Spread(r, frank[r]) /\ frank[r] \in Int
    BY <1>7 DEF AlertEmpty, TypeOK
  <2> QED BY <2>1, SpreadType
<1> QED BY <1>3, <1>4, <1>5, <1>6, <1>7

\* The third stage: counting what the subtree has outstanding.
LEMMA TallyType ==
  ASSUME TypeOK, NEW r \in Rank, NEW q \in Rank,
         TallyControl(r, q) \/ Report(r)
  PROVE  TypeOK'
<1> DEFINE m == Head(chan[q][r])
<1>1. HasControl(q, r) =>
        /\ Received(q, r) \in [Rank -> [Rank -> Seq(Message)]]
        /\ m \in Message /\ m.n1 \in Int /\ m.n2 \in Int
  <2>1. HasControl(q, r) =>
          /\ Received(q, r) \in [Rank -> [Rank -> Seq(Message)]]
          /\ m \in Message
    BY ReceivedType DEF HasControl, TypeOK
  <2> HIDE DEF m
  <2> QED BY <2>1 DEF Message
<1> HIDE DEF m
<1>2. CASE TallyControl(r, q)
  <2>1. CASE \E reason \in Reasons : Die(reason)
    BY <2>1, DieType
  <2>2. CASE ~\E reason \in Reasons : Die(reason)
    <3>1. /\ chan' = Received(q, r)
          /\ msg' = [msg EXCEPT ![r] = m]
          /\ IF m.id = 3
             THEN /\ tally' = [tally EXCEPT ![r][q] = 1]
                  /\ net' = [net EXCEPT ![r] = @ + m.n1]
                  /\ mid1' = [mid1 EXCEPT ![r] = @ + m.n2]
             ELSE /\ net' = [net EXCEPT ![r] = @ - m.n1]
                  /\ UNCHANGED <<tally, mid1>>
          /\ Testsome(r, \E p \in Staff(r) : tally'[r][p] = 0)
          /\ UNCHANGED <<phase, mpyNet, mpyQueue, quiet, id0, nid1, frank,
                         count, heard, fatal, sends, faulted>>
      BY <1>2, <2>2 DEF TallyControl, Reasons, m
    <3>2. /\ Received(q, r) \in [Rank -> [Rank -> Seq(Message)]]
          /\ m \in Message /\ m.n1 \in Int /\ m.n2 \in Int
      BY <1>1, <1>2 DEF TallyControl
    <3>3. isends' \in [Rank -> Nat] /\ slots' \in [Rank -> Nat]
      BY <3>1, TestsomeType DEF TypeOK
    <3>4. m.id = 3 =>
            /\ tally' \in [Rank -> [Rank -> 0 .. 2]]
            /\ net' \in [Rank -> Int] /\ mid1' \in [Rank -> Int]
      <4> HAVE m.id = 3
      <4>1. /\ tally' = [tally EXCEPT ![r][q] = 1]
            /\ net' = [net EXCEPT ![r] = @ + m.n1]
            /\ mid1' = [mid1 EXCEPT ![r] = @ + m.n2]
        BY <3>1
      <4>2. tally' \in [Rank -> [Rank -> 0 .. 2]]
        BY <4>1, CounterType
      <4>3. /\ net \in [Rank -> Int] /\ net[r] + m.n1 \in Int
            /\ mid1 \in [Rank -> Int] /\ mid1[r] + m.n2 \in Int
        <5>1. m.n1 \in Int /\ m.n2 \in Int
          BY <3>2
        <5>2. net \in [Rank -> Int] /\ mid1 \in [Rank -> Int]
          BY CounterType
        <5>3. net[r] \in Int /\ mid1[r] \in Int
          BY <5>2
        <5> HIDE DEF m
        <5> QED BY <5>1, <5>2, <5>3
      <4>4. net' \in [Rank -> Int] /\ mid1' \in [Rank -> Int]
        BY <4>1, <4>3
      <4> QED BY <4>2, <4>4
    <3>5. m.id # 3 =>
            /\ tally' \in [Rank -> [Rank -> 0 .. 2]]
            /\ net' \in [Rank -> Int] /\ mid1' \in [Rank -> Int]
      <4> HAVE m.id # 3
      <4>1. /\ net' = [net EXCEPT ![r] = @ - m.n1]
            /\ UNCHANGED <<tally, mid1>>
        BY <3>1
      <4>2. net \in [Rank -> Int] /\ net[r] - m.n1 \in Int
        <5>1. m.n1 \in Int
          BY <3>2
        <5>2. net \in [Rank -> Int] /\ net[r] \in Int
          BY CounterType
        <5> HIDE DEF m
        <5> QED BY <5>1, <5>2
      <4>3. net' \in [Rank -> Int]
        BY <4>1, <4>2
      <4> QED BY <4>1, <4>3, CounterType
    <3>6. /\ tally' \in [Rank -> [Rank -> 0 .. 2]]
          /\ net' \in [Rank -> Int] /\ mid1' \in [Rank -> Int]
      BY <3>4, <3>5
    <3>7. msg' \in [Rank -> Message]
      BY <3>1, <3>2 DEF TypeOK
    <3> QED BY <3>1, <3>2, <3>3, <3>6, <3>7 DEF TypeOK
  <2> QED BY <2>1, <2>2
<1>3. CASE Report(r)
  <2>1. SubtreeNet(r) \in Int /\ nid1[r] \in Int
    <3>1. net[r] \in Int /\ mpyNet[r] \in Int /\ nid1[r] \in Nat
      BY CounterType
    <3> QED BY ONLY <3>1 DEF SubtreeNet
  <2>2. chan' \in [Rank -> [Rank -> Seq(Message)]]
    <3>1. chan' \in {chan, Sent(chan, r, {Boss(r)},
                               Control(3, SubtreeNet(r), nid1[r]))}
      BY <1>3 DEF Report
    <3>2. Control(3, SubtreeNet(r), nid1[r]) \in Message
      BY <2>1, ControlType
    <3>3. Sent(chan, r, {Boss(r)}, Control(3, SubtreeNet(r), nid1[r]))
            \in [Rank -> [Rank -> Seq(Message)]]
      BY <3>2, SentType DEF TypeOK
    <3> QED BY <3>1, <3>3 DEF TypeOK
  <2>3. /\ net' = [net EXCEPT ![r] = SubtreeNet(r)]
        /\ count' = [count EXCEPT ![r] = mpyNet[r]]
        /\ phase' = [phase EXCEPT ![r] = "clear"]
        /\ UNCHANGED <<mpyNet, mpyQueue, msg, quiet, isends, slots, id0, nid1,
                       mid1, frank, tally, heard, fatal, sends, faulted>>
    BY <1>3 DEF Report
  <2>4. net' \in [Rank -> Int] /\ count' \in [Rank -> Int]
    BY <2>1, <2>3 DEF TypeOK
  <2>5. phase' \in [Rank -> {"task", "sending", "idle"} \cup Halting]
    BY <2>3 DEF TypeOK, Halting
  <2> QED BY <2>2, <2>3, <2>4, <2>5 DEF TypeOK
<1> QED BY <1>2, <1>3

\* The fourth stage: clearing the network.
LEMMA ClearType ==
  ASSUME TypeOK, NEW r \in Rank, NEW q \in Rank,
         \/ Complete
         \/ ClearData(r, q)
         \/ ClearControl(r, q)
         \/ ClearEmpty(r)
         \/ ClearReport(r)
  PROVE  TypeOK'
<1> DEFINE m == Head(chan[q][r])
<1>1. HasData(q, r) \/ HasControl(q, r) =>
        /\ Received(q, r) \in [Rank -> [Rank -> Seq(Message)]]
        /\ m \in Message /\ m.n1 \in Int
  <2>1. HasData(q, r) \/ HasControl(q, r) =>
          /\ Received(q, r) \in [Rank -> [Rank -> Seq(Message)]]
          /\ m \in Message
    BY ReceivedType DEF HasData, HasControl, TypeOK
  <2> HIDE DEF m
  <2> QED BY <2>1 DEF Message
<1> HIDE DEF m
<1>2. CASE Complete
  <2>1. PassCleared(0) \/ Die("outstanding count < 0")
    BY <1>2 DEF Complete
  <2>2. 0 \in Rank
    BY SizeAssumption DEF Rank
  <2> QED BY <2>1, <2>2, PassClearedType, DieType DEF Reasons
<1>3. CASE ClearData(r, q)
  <2>1. /\ HasData(q, r)
        /\ chan' = Received(q, r)
        /\ mpyNet' = [mpyNet EXCEPT ![r] = @ - 1]
        /\ heard' = [heard EXCEPT ![r] = Heard(r)]
        /\ phase' = [phase EXCEPT ![r] = "clearing"]
        /\ Testsome(r, phase[r] = "clear")
        /\ UNCHANGED <<mpyQueue, msg, quiet, id0, nid1, mid1, frank, tally,
                       net, count, fatal, sends, faulted>>
    BY <1>3 DEF ClearData
  <2>2. isends' \in [Rank -> Nat] /\ slots' \in [Rank -> Nat]
    BY <2>1, TestsomeType DEF TypeOK
  <2>3. mpyNet' \in [Rank -> Int] /\ heard' \in [Rank -> {4, 5}]
    BY <2>1, CounterType DEF Heard
  <2>4. phase' \in [Rank -> {"task", "sending", "idle"} \cup Halting]
    BY <2>1 DEF TypeOK, Halting
  <2> QED BY <1>1, <2>1, <2>2, <2>3, <2>4 DEF TypeOK
<1>4. CASE ClearControl(r, q)
  <2>1. CASE m.id \notin {4, 5}
    BY <1>4, <2>1, DieType DEF ClearControl, Reasons, m
  <2>2. CASE m.id \in {4, 5}
    <3>1. /\ chan' = Received(q, r)
          /\ msg' = [msg EXCEPT ![r] = m]
          /\ heard' = [heard EXCEPT ![r] = m.id]
          /\ count' = [count EXCEPT ![r] = IF m.id = 4 THEN @ + m.n1 ELSE @]
          /\ phase' = [phase EXCEPT ![r] = "clearing"]
          /\ Testsome(r, phase[r] = "clear")
          /\ UNCHANGED <<mpyNet, mpyQueue, quiet, id0, nid1, mid1, frank,
                         tally, net, fatal, sends, faulted>>
      BY <1>4, <2>2 DEF ClearControl, m
    <3>2. /\ Received(q, r) \in [Rank -> [Rank -> Seq(Message)]]
          /\ m \in Message /\ m.n1 \in Int
      BY <1>1, <1>4 DEF ClearControl
    <3>3. isends' \in [Rank -> Nat] /\ slots' \in [Rank -> Nat]
      BY <3>1, TestsomeType DEF TypeOK
    <3>4. msg' \in [Rank -> Message] /\ heard' \in [Rank -> {4, 5}]
      BY <2>2, <3>1, <3>2 DEF TypeOK
    <3>5. count' \in [Rank -> Int]
      <4>1. count \in [Rank -> Int] /\ count[r] + m.n1 \in Int
        <5>1. m.n1 \in Int
          BY <3>2
        <5>2. count \in [Rank -> Int] /\ count[r] \in Int
          BY CounterType
        <5> HIDE DEF m
        <5> QED BY <5>1, <5>2
      <4>2. CASE m.id = 4
        <5>1. count' = [count EXCEPT ![r] = @ + m.n1]
          BY <3>1, <4>2
        <5> QED BY <4>1, <5>1
      <4>3. CASE m.id # 4
        <5>1. count' = [count EXCEPT ![r] = @]
          BY <3>1, <4>3
        <5> QED BY <4>1, <5>1
      <4> QED BY <4>2, <4>3
    <3>6. phase' \in [Rank -> {"task", "sending", "idle"} \cup Halting]
      BY <3>1 DEF TypeOK, Halting
    <3> QED BY <3>1, <3>2, <3>3, <3>4, <3>5, <3>6 DEF TypeOK
  <2> QED BY <2>1, <2>2
<1>5. CASE ClearEmpty(r)
  <2>1. CASE heard[r] = 5
    BY <1>5, <2>1, PassClearedType, DieType DEF ClearEmpty, Reasons
  <2>2. CASE heard[r] # 5
    <3>1. /\ phase' = [phase EXCEPT ![r] = "clear"]
          /\ UNCHANGED <<chan, mpyNet, mpyQueue, msg, quiet, isends, slots,
                         locals, fatal, sends, faulted>>
      BY <1>5, <2>2 DEF ClearEmpty
    <3>2. phase' \in [Rank -> {"task", "sending", "idle"} \cup Halting]
      BY <3>1 DEF TypeOK, Halting
    <3> QED BY <3>1, <3>2 DEF TypeOK, locals
  <2> QED BY <2>1, <2>2
<1>6. CASE ClearReport(r)
  <2>1. CASE heard[r] = 5
    BY <1>6, <2>1, DieType DEF ClearReport, Reasons
  <2>2. CASE heard[r] # 5
    <3>1. Dropped(r) \in Int
      <4>1. count[r] \in Int /\ mpyNet[r] \in Int
        BY CounterType
      <4> QED BY ONLY <4>1 DEF Dropped
    <3>2. /\ chan' \in {chan, Sent(chan, r, {Boss(r)},
                                  Control(4, Dropped(r), 0))}
          /\ net' = [net EXCEPT ![r] = @ - Dropped(r)]
          /\ count' = [count EXCEPT ![r] = mpyNet[r]]
          /\ phase' = [phase EXCEPT ![r] = "clear"]
          /\ UNCHANGED <<mpyNet, mpyQueue, msg, quiet, isends, slots, id0,
                         nid1, mid1, frank, tally, heard, fatal, sends,
                         faulted>>
      BY <1>6, <2>2 DEF ClearReport
    <3>3. chan' \in [Rank -> [Rank -> Seq(Message)]]
      <4>1. Control(4, Dropped(r), 0) \in Message
        BY <3>1, ControlType
      <4>2. Sent(chan, r, {Boss(r)}, Control(4, Dropped(r), 0))
              \in [Rank -> [Rank -> Seq(Message)]]
        BY <4>1, SentType DEF TypeOK
      <4> QED BY <3>2, <4>2 DEF TypeOK
    <3>4. net' \in [Rank -> Int] /\ count' \in [Rank -> Int]
      <4>1. /\ net \in [Rank -> Int] /\ net[r] - Dropped(r) \in Int
            /\ count \in [Rank -> Int] /\ mpyNet[r] \in Int
        BY <3>1, CounterType
      <4> QED BY <3>2, <4>1
    <3>5. phase' \in [Rank -> {"task", "sending", "idle"} \cup Halting]
      BY <3>2 DEF TypeOK, Halting
    <3> QED BY <3>2, <3>3, <3>4, <3>5 DEF TypeOK
  <2> QED BY <2>1, <2>2
<1> QED BY <1>2, <1>3, <1>4, <1>5, <1>6

\* The last stage: acknowledging and returning.
LEMMA LeaveType ==
  ASSUME TypeOK, NEW r \in Rank, NEW q \in Rank,
         AckControl(r, q) \/ Acknowledge(r) \/ Leave(r)
  PROVE  TypeOK'
<1> DEFINE m == Head(chan[q][r])
<1>1. HasControl(q, r) =>
        /\ Received(q, r) \in [Rank -> [Rank -> Seq(Message)]]
        /\ m \in Message
  BY ReceivedType DEF HasControl, TypeOK
<1> HIDE DEF m
<1>2. CASE AckControl(r, q)
  <2>1. CASE \E reason \in Reasons : Die(reason)
    BY <2>1, DieType
  <2>2. CASE ~\E reason \in Reasons : Die(reason)
    <3>1. /\ chan' = Received(q, r)
          /\ msg' = [msg EXCEPT ![r] = m]
          /\ tally' = [tally EXCEPT ![r][q] = @ + 1]
          /\ UNCHANGED <<phase, mpyNet, mpyQueue, quiet, isends, slots,
                         id0, nid1, mid1, frank, net, count, heard, fatal,
                         sends, faulted>>
      BY <1>2, <2>2 DEF AckControl, Reasons, m
    <3>2. tally' \in [Rank -> [Rank -> 0 .. 2]]
      <4>1. ~(tally[r][q] >= 2)
        BY <1>2, <2>2 DEF AckControl, Reasons
      <4>2. tally[r][q] \in 0 .. 2
        BY CounterType
      <4>3. tally[r][q] + 1 \in 0 .. 2
        BY <4>1, <4>2
      <4> QED BY <3>1, <4>3, CounterType
    <3>3. msg' \in [Rank -> Message]
      BY <1>1, <1>2, <3>1 DEF AckControl, TypeOK
    <3>4. chan' \in [Rank -> [Rank -> Seq(Message)]]
      BY <1>1, <1>2, <3>1 DEF AckControl
    <3> QED BY <3>1, <3>2, <3>3, <3>4 DEF TypeOK
  <2> QED BY <2>1, <2>2
<1>3. CASE Acknowledge(r)
  <2>1. /\ chan' \in {chan, Sent(chan, r, {Boss(r)}, Control(6, 0, 0))}
        /\ phase' = [phase EXCEPT ![r] = "leaving"]
        /\ UNCHANGED <<mpyNet, mpyQueue, msg, quiet, isends, slots, locals,
                       fatal, sends, faulted>>
    BY <1>3 DEF Acknowledge
  <2>2. Control(6, 0, 0) \in Message
    BY ControlType
  <2>3. Sent(chan, r, {Boss(r)}, Control(6, 0, 0))
          \in [Rank -> [Rank -> Seq(Message)]]
    BY <2>2, SentType DEF TypeOK
  <2>4. chan' \in [Rank -> [Rank -> Seq(Message)]]
    BY <2>1, <2>3 DEF TypeOK
  <2>5. phase' \in [Rank -> {"task", "sending", "idle"} \cup Halting]
    BY <2>1 DEF TypeOK, Halting
  <2> QED BY <2>1, <2>4, <2>5 DEF TypeOK, locals
<1>4. CASE Leave(r)
  <2>1. CASE ~StaffSendsDone(r)
    BY <1>4, <2>1, DieType DEF Leave, Reasons
  <2>2. CASE StaffSendsDone(r)
    <3>1. /\ phase' = [phase EXCEPT ![r] = "idle"]
          /\ tally' = [tally EXCEPT ![r] = [p \in Rank |-> 0]]
          /\ slots' = [slots EXCEPT ![r] = 1]
          /\ msg' = [msg EXCEPT ![r] = Data]
          /\ faulted' \in {{}, faulted}
          /\ UNCHANGED <<chan, mpyNet, mpyQueue, quiet, isends, frank, fatal,
                         sends>>
      BY <1>4, <2>2 DEF Leave
    <3>2. /\ id0' = [id0 EXCEPT ![r] = 0]
          /\ nid1' = [nid1 EXCEPT ![r] = 0]
          /\ mid1' = [mid1 EXCEPT ![r] = 0]
          /\ net' = [net EXCEPT ![r] = 0]
          /\ count' = [count EXCEPT ![r] = 0]
          /\ heard' = [heard EXCEPT ![r] = 4]
      BY <1>4, <2>2 DEF Leave
    <3>3. /\ id0' \in [Rank -> 0 .. 2] /\ nid1' \in [Rank -> Nat]
          /\ mid1' \in [Rank -> Int] /\ net' \in [Rank -> Int]
          /\ count' \in [Rank -> Int] /\ heard' \in [Rank -> {4, 5}]
      BY <3>2, CounterType
    <3>4. tally' \in [Rank -> [Rank -> 0 .. 2]]
      BY <3>1, CounterType
    <3>5. /\ phase' \in [Rank -> {"task", "sending", "idle"} \cup Halting]
          /\ slots' \in [Rank -> Nat] /\ msg' \in [Rank -> Message]
          /\ faulted' \subseteq Rank
      BY <3>1, DataType DEF TypeOK
    <3> QED BY <3>1, <3>3, <3>4, <3>5 DEF TypeOK
  <2> QED BY <2>1, <2>2
<1> QED BY <1>2, <1>3, <1>4

LEMMA TypeStep == TypeOK /\ [Next]_vars => TypeOK'
<1> SUFFICES ASSUME TypeOK, [Next]_vars
             PROVE  TypeOK'
  OBVIOUS
<1>1. 0 \in Rank
  BY SizeAssumption DEF Rank
<1>2. CASE UNCHANGED vars
  BY <1>2 DEF vars, locals, TypeOK
<1>3. CASE MpExec
  BY <1>1, <1>3, TaskType
<1>4. CASE Complete
  BY <1>1, <1>4, ClearType
<1>5. ASSUME NEW r \in Rank, Step(r)
      PROVE  TypeOK'
  <2>1. CASE Recover(r)
    <3>1. CASE NoRequest(r)
      BY <2>1, <3>1, DieType DEF Recover, Reasons
    <3>2. CASE ~NoRequest(r)
      BY <2>1, <3>2, VerdictType, TallyType, ClearType, LeaveType DEF Recover, Recovering
    <3> QED BY <3>1, <3>2
  <2>2. CASE ~Recover(r)
    BY <1>5, <2>2, TaskType DEF Step
  <2> QED BY <2>1, <2>2
<1> QED BY <1>2, <1>3, <1>4, <1>5 DEF Next, Rest

\* Every variable keeps its type, however the ranks' steps interleave: no rank
\* adds up a count it has not received, and the tally of mpy_recover stays in
\* its range 0 .. 2.
THEOREM TypeCorrect == Spec => []TypeOK
<1>1. Init => TypeOK
  BY EmptySeq DEF Init, TypeOK, Data, Message
<1> QED BY <1>1, TypeStep, PTL DEF Spec

-----------------------------------------------------------------------------
(* Control messages follow the tree.                                       *)

\* The strengthening: the latest message drained is an alert if all were.
\* mpy_recover passes on what is in mperr_msg, which each message overwrites.
AlertKept ==
  \A r \in Rank : phase[r] = "drain" /\ id0[r] = 1 => msg[r].id = 1

FlowInv == TypeOK /\ ControlFollowsTree /\ AlertKept

LEMMA DataOnEdge ==
  ASSUME NEW q \in Rank, NEW r \in Rank
  PROVE  Data \in OnEdge(q, r)
BY DataType DEF OnEdge

LEMMA ReportOnEdge ==
  ASSUME NEW r \in Rank, r # 0, NEW m \in Message, m.id \in Reports,
         NEW q \in {Boss(r)}
  PROVE  m \in OnEdge(r, q)
<1>1. Boss(r) \in Rank /\ r \in Staff(Boss(r))
  BY BossIsLower, StaffInvertsBoss
<1> QED BY <1>1 DEF OnEdge

LEMMA OrderOnEdge ==
  ASSUME NEW r \in Rank, NEW m \in Message, m.id \in Orders,
         NEW q \in Staff(r)
  PROVE  m \in OnEdge(r, q)
BY DEF OnEdge

\* A channel from which the oldest message has been taken.
LEMMA FlowReceived ==
  ASSUME TypeOK, ControlFollowsTree, NEW q \in Rank, NEW r \in Rank,
         Has(q, r), chan' = Received(q, r)
  PROVE  ControlFollowsTree'
<1>1. Tail(chan[q][r]) \in Seq(OnEdge(q, r))
  BY HeadTailProperties DEF ControlFollowsTree, Has
<1>2. ASSUME NEW p \in Rank, NEW s \in Rank
      PROVE  chan'[p][s] = IF p = q /\ s = r THEN Tail(chan[q][r])
                                             ELSE chan[p][s]
  BY DEF Received, TypeOK
<1> QED BY <1>1, <1>2 DEF ControlFollowsTree

\* Channels to which r has added a message.
LEMMA FlowSent ==
  ASSUME TypeOK, ControlFollowsTree, NEW r \in Rank, NEW D, NEW m,
         \A q \in D \cap Rank : m \in OnEdge(r, q),
         chan' = Sent(chan, r, D, m)
  PROVE  ControlFollowsTree'
<1>1. ASSUME NEW p \in Rank, NEW s \in Rank
      PROVE  chan'[p][s] = IF p = r /\ s \in D THEN Append(chan[r][s], m)
                                               ELSE chan[p][s]
  BY DEF Sent, TypeOK
<1>2. ASSUME NEW s \in Rank, s \in D
      PROVE  Append(chan[r][s], m) \in Seq(OnEdge(r, s))
  BY <1>2, AppendProperties DEF ControlFollowsTree
<1> QED BY <1>1, <1>2 DEF ControlFollowsTree

LEMMA FlowRemoved ==
  ASSUME TypeOK, ControlFollowsTree, NEW q \in Rank, NEW r \in Rank,
         NEW i \in DOMAIN chan[q][r],
         chan' = [chan EXCEPT ![q][r] = RemoveAt(@, i)]
  PROVE  ControlFollowsTree'
<1>1. RemoveAt(chan[q][r], i) \in Seq(OnEdge(q, r))
  BY RemoveAtType DEF ControlFollowsTree
<1>2. ASSUME NEW p \in Rank, NEW s \in Rank
      PROVE  chan'[p][s] = IF p = q /\ s = r THEN RemoveAt(chan[q][r], i)
                                             ELSE chan[p][s]
  BY DEF TypeOK
<1> QED BY <1>1, <1>2 DEF ControlFollowsTree

LEMMA FlowUnchanged ==
  ASSUME ControlFollowsTree, UNCHANGED chan
  PROVE  ControlFollowsTree'
BY DEF ControlFollowsTree

LEMMA FlowStartSend ==
  ASSUME TypeOK, ControlFollowsTree, NEW r \in Rank, NEW D, StartSend(r, D)
  PROVE  ControlFollowsTree'
<1>1. chan' = Sent(chan, r, D, Data)
  BY DEF StartSend
<1> QED BY <1>1, FlowSent, DataOnEdge

\* An order of r for its staff.
LEMMA FlowOrder ==
  ASSUME TypeOK, ControlFollowsTree, NEW r \in Rank, NEW id \in Orders,
         NEW n \in Int, chan' = Sent(chan, r, Staff(r), Control(id, n, 0))
  PROVE  ControlFollowsTree'
<1>1. Control(id, n, 0) \in Message
  BY ControlType DEF Orders
<1>2. Control(id, n, 0).id \in Orders
  BY DEF Control
<1>3. \A q \in Staff(r) \cap Rank : Control(id, n, 0) \in OnEdge(r, q)
  BY <1>1, <1>2, OrderOnEdge
<1> QED BY <1>3, FlowSent

\* A report of r for its boss, which rank 0 does not send.
LEMMA FlowReport ==
  ASSUME TypeOK, ControlFollowsTree, NEW r \in Rank, NEW m \in Message,
         m.id \in Reports,
         chan' = IF r = 0 THEN chan ELSE Sent(chan, r, {Boss(r)}, m)
  PROVE  ControlFollowsTree'
<1>1. CASE r = 0
  BY <1>1, FlowUnchanged
<1>2. CASE r # 0
  <2>1. chan' = Sent(chan, r, {Boss(r)}, m)
    BY <1>2
  <2>2. \A q \in {Boss(r)} \cap Rank : m \in OnEdge(r, q)
    BY <1>2, ReportOnEdge
  <2> QED BY <2>1, <2>2, FlowSent
<1> QED BY <1>1, <1>2

\* Steps that start with the receipt of a message leave the channels as they
\* are, when they end in MPI_Abort, or without that message.
LEMMA FlowReceipt ==
  ASSUME TypeOK, ControlFollowsTree, NEW r \in Rank, NEW q \in Rank,
         \/ Enqueue(r, q)
         \/ HearControl(r, q)
         \/ HearCaught(r, q)
         \/ SendInterrupted(r, q)
         \/ Discard(r, q)
         \/ DrainControl(r, q)
         \/ AlertControl(r, q)
         \/ TallyControl(r, q)
         \/ ClearData(r, q)
         \/ ClearControl(r, q)
         \/ AckControl(r, q)
  PROVE  ControlFollowsTree'
<1>1. CASE Has(q, r) /\ chan' = Received(q, r)
  BY <1>1, FlowReceived
<1>2. CASE UNCHANGED chan
  BY <1>2, FlowUnchanged
<1>3. CASE SendInterrupted(r, q)
  <2>1. PICK i \in DOMAIN chan[q][r] :
          chan' = [chan EXCEPT ![q][r] = RemoveAt(@, i)]
    BY <1>3 DEF SendInterrupted
  <2> QED BY <2>1, FlowRemoved
<1>4. CASE Enqueue(r, q)
  BY <1>1, <1>4 DEF Enqueue, HasData
<1>5. CASE HearControl(r, q)
  BY <1>1, <1>5 DEF HearControl, HasControl
<1>6. CASE HearCaught(r, q)
  BY <1>1, <1>6 DEF HearCaught, HasControl
<1>7. CASE Discard(r, q)
  BY <1>1, <1>7 DEF Discard, HasData
<1>8. CASE DrainControl(r, q)
  BY <1>1, <1>2, <1>8 DEF DrainControl, HasControl, Die
<1>9. CASE AlertControl(r, q)
  BY <1>1, <1>2, <1>9 DEF AlertControl, HasControl, Die
<1>10. CASE TallyControl(r, q)
  BY <1>1, <1>2, <1>10 DEF TallyControl, HasControl, Die
<1>11. CASE ClearData(r, q)
  BY <1>1, <1>11 DEF ClearData, HasData
<1>12. CASE ClearControl(r, q)
  BY <1>1, <1>2, <1>12 DEF ClearControl, HasControl, Die
<1>13. CASE AckControl(r, q)
  BY <1>1, <1>2, <1>13 DEF AckControl, HasControl, Die
<1> QED BY <1>3, <1>4, <1>5, <1>6, <1>7, <1>8, <1>9, <1>10, <1>11, <1>12,
           <1>13

LEMMA FlowPassCleared ==
  ASSUME TypeOK, ControlFollowsTree, NEW r \in Rank, PassCleared(r)
  PROVE  ControlFollowsTree'
<1>1. \/ UNCHANGED chan
      \/ chan' = Sent(chan, r, Staff(r), Control(5, 0, 0))
  BY DEF PassCleared, Die
<1>2. 5 \in Orders /\ 0 \in Int
  BY DEF Orders
<1> QED BY <1>1, <1>2, FlowUnchanged, FlowOrder

LEMMA FlowSpread ==
  ASSUME TypeOK, ControlFollowsTree, NEW r \in Rank, NEW f \in Int,
         Spread(r, f)
  PROVE  ControlFollowsTree'
<1>1. chan' = Sent(chan, r, Staff(r), Control(2, f, 0))
  BY DEF Spread
<1>2. 2 \in Orders
  BY DEF Orders
<1> QED BY <1>1, <1>2, FlowOrder

LEMMA FlowStep ==
  ASSUME FlowInv, NEW r \in Rank, Step(r)
  PROVE  ControlFollowsTree'
<1> USE DEF FlowInv
<1>1. ASSUME NEW q \in Rank,
             \/ Enqueue(r, q) \/ HearControl(r, q) \/ SendInterrupted(r, q)
             \/ HearCaught(r, q) \/ Discard(r, q) \/ DrainControl(r, q)
             \/ AlertControl(r, q) \/ TallyControl(r, q) \/ ClearData(r, q)
             \/ ClearControl(r, q) \/ AckControl(r, q)
      PROVE  ControlFollowsTree'
  BY <1>1, FlowReceipt
<1>2. ASSUME NEW D \in SUBSET Rank, MpSend(r, D)
      PROVE  ControlFollowsTree'
  BY <1>2, FlowStartSend DEF MpSend
<1>3. CASE UNCHANGED chan
  BY <1>3, FlowUnchanged
<1>4. CASE Fault(r)
  BY <1>3, <1>4 DEF Fault
<1>5. ASSUME NEW from \in Rank, MpRecv(r, from)
      PROVE  ControlFollowsTree'
  BY <1>3, <1>5 DEF MpRecv
<1>6. CASE Finish(r) \/ SendDone(r)
  BY <1>3, <1>6 DEF Finish, SendDone
<1>7. CASE MpExecIdle(r)
  <2>1. StartSend(r, Staff(r)) \/ UNCHANGED chan
    BY <1>7 DEF MpExecIdle
  <2> QED BY <1>3, <2>1, FlowStartSend
<1>8. CASE DrainEmpty(r)
  <2>1. CASE MustAlert(r)
    <3>1. r # 0 /\ msg[r] \in Message /\ msg[r].id \in Reports
      BY <1>8, <2>1 DEF DrainEmpty, MustAlert, AlertKept, Reports, TypeOK
    <3>2. chan' = Sent(chan, r, {Boss(r)}, msg[r])
      BY <1>8, <2>1 DEF DrainEmpty
    <3> QED BY <3>1, <3>2, FlowReport
  <2>2. CASE ~MustAlert(r)
    <3>1. \/ Spread(r, frank[r])
          \/ r = 0 /\ Spread(0, msg[0].n1)
          \/ UNCHANGED chan
      BY <1>8, <2>2 DEF DrainEmpty, Die
    <3>2. frank[r] \in Int /\ (r = 0 => msg[0].n1 \in Int)
      BY DEF TypeOK, Message
    <3> QED BY <1>3, <3>1, <3>2, FlowSpread
  <2> QED BY <2>1, <2>2
<1>9. CASE AlertEmpty(r)
  <2>1. Spread(r, frank[r]) /\ frank[r] \in Int
    BY <1>9 DEF AlertEmpty, TypeOK
  <2> QED BY <2>1, FlowSpread
<1>10. CASE Report(r)
  <2>1. SubtreeNet(r) \in Int /\ nid1[r] \in Int
    <3>1. net[r] \in Int /\ mpyNet[r] \in Int /\ nid1[r] \in Nat
      BY CounterType
    <3> QED BY ONLY <3>1 DEF SubtreeNet
  <2> DEFINE m == Control(3, SubtreeNet(r), nid1[r])
  <2>2. m \in Message /\ m.id \in Reports
    BY <2>1, ControlType DEF Reports, Control
  <2>3. chan' = IF r = 0 THEN chan ELSE Sent(chan, r, {Boss(r)}, m)
    BY <1>10 DEF Report
  <2> HIDE DEF m
  <2> QED BY <2>2, <2>3, FlowReport
<1>11. CASE ClearEmpty(r)
  <2>1. PassCleared(r) \/ UNCHANGED chan
    BY <1>11 DEF ClearEmpty, Die
  <2> QED BY <1>3, <2>1, FlowPassCleared
<1>12. CASE ClearReport(r)
  <2>1. Dropped(r) \in Int
    <3>1. count[r] \in Int /\ mpyNet[r] \in Int
      BY CounterType
    <3> QED BY ONLY <3>1 DEF Dropped
  <2> DEFINE m == Control(4, Dropped(r), 0)
  <2>2. m \in Message /\ m.id \in Reports
    BY <2>1, ControlType DEF Reports, Control
  <2>3. \/ UNCHANGED chan
        \/ chan' = IF r = 0 THEN chan ELSE Sent(chan, r, {Boss(r)}, m)
    BY <1>12 DEF ClearReport, Die
  <2> HIDE DEF m
  <2> QED BY <1>3, <2>2, <2>3, FlowReport
<1>13. CASE Acknowledge(r)
  <2> DEFINE m == Control(6, 0, 0)
  <2>1. m \in Message /\ m.id \in Reports
    BY ControlType DEF Reports, Control
  <2>2. chan' = IF r = 0 THEN chan ELSE Sent(chan, r, {Boss(r)}, m)
    BY <1>13 DEF Acknowledge
  <2> HIDE DEF m
  <2> QED BY <2>1, <2>2, FlowReport
<1>14. CASE Leave(r)
  BY <1>3, <1>14 DEF Leave, Die
<1>15. CASE \E reason : Die(reason)
  BY <1>3, <1>15 DEF Die
<1> QED BY <1>1, <1>2, <1>4, <1>5, <1>6, <1>7, <1>8, <1>9, <1>10, <1>11, <1>12,
           <1>13, <1>14, <1>15
       DEF Step, Program, Attend, Recover, Recovering

\* A rank that neither enters nor goes on draining keeps what it had.
LEMMA KeptOutsideDrain ==
  ASSUME TypeOK, AlertKept, NEW r \in Rank,
         \A p \in Rank \ {r} :
           phase'[p] = phase[p] /\ id0'[p] = id0[p] /\ msg'[p] = msg[p],
         phase'[r] # "drain"
  PROVE  AlertKept'
BY DEF AlertKept

LEMMA KeptBegin ==
  ASSUME TypeOK, AlertKept, NEW r \in Rank, NEW m, NEW own, NEW a,
         Begin(r, m, own, a)
  PROVE  AlertKept'
<1>1. CASE m.id \notin {1, 2}
  <2>1. UNCHANGED <<phase, id0, msg>>
    BY <1>1 DEF Begin, locals
  <2> QED BY <2>1 DEF AlertKept
<1>2. CASE m.id \in {1, 2}
  <2>1. /\ phase' = [phase EXCEPT ![r] = "drain"]
        /\ id0' = [id0 EXCEPT ![r] = m.id]
        /\ msg' = [msg EXCEPT ![r] = m]
    BY <1>2 DEF Begin
  <2>2. /\ id0'[r] = m.id /\ msg'[r] = m
        /\ \A p \in Rank \ {r} :
             phase'[p] = phase[p] /\ id0'[p] = id0[p] /\ msg'[p] = msg[p]
    BY <2>1 DEF TypeOK
  <2> QED BY <2>2 DEF AlertKept
<1> QED BY <1>1, <1>2

\* In the drain loop: id0 is the largest id so far.
LEMMA KeptDrain ==
  ASSUME TypeOK, AlertKept, NEW r \in Rank, NEW q \in Rank, DrainControl(r, q)
  PROVE  AlertKept'
<1> DEFINE m == Head(chan[q][r])
<1>1. CASE m.id \notin {1, 2}
  <2>1. UNCHANGED <<phase, id0, msg>>
    BY <1>1 DEF DrainControl, Die, locals
  <2> QED BY <2>1 DEF AlertKept
<1>2. CASE m.id \in {1, 2}
  <2> HIDE DEF m
  <2>1. /\ phase' = phase
        /\ id0' = [id0 EXCEPT ![r] = IF @ < m.id THEN m.id ELSE @]
        /\ msg' = [msg EXCEPT ![r] = m]
    BY <1>2 DEF DrainControl, m
  <2>2. /\ id0'[r] = (IF id0[r] < m.id THEN m.id ELSE id0[r]) /\ msg'[r] = m
        /\ \A p \in Rank \ {r} : id0'[p] = id0[p] /\ msg'[p] = msg[p]
    BY <2>1 DEF TypeOK
  <2>3. id0'[r] = 1 => msg'[r].id = 1
    <3>1. id0[r] \in 0 .. 2
      BY CounterType
    <3> QED BY <1>2, <2>2, <3>1
  <2> QED BY <2>1, <2>2, <2>3 DEF AlertKept
<1> QED BY <1>1, <1>2

LEMMA KeptStep ==
  ASSUME TypeOK, AlertKept, NEW r \in Rank, Step(r)
  PROVE  AlertKept'
<1>1. CASE UNCHANGED <<phase, id0, msg>>
  BY <1>1 DEF AlertKept
<1>2. ASSUME NEW to \in {"task", "sending", "idle", "alert", "alertdrain",
                         "tally", "clear", "clearing", "ack", "leaving"},
             phase' = [phase EXCEPT ![r] = to],
             \A p \in Rank \ {r} : id0'[p] = id0[p] /\ msg'[p] = msg[p]
      PROVE  AlertKept'
  <2>1. /\ phase'[r] = to /\ to # "drain"
        /\ \A p \in Rank \ {r} : phase'[p] = phase[p]
    BY <1>2 DEF TypeOK
  <2> QED BY <1>2, <2>1, KeptOutsideDrain
<1>3. ASSUME NEW q \in Rank, Enqueue(r, q) \/ Discard(r, q)
      PROVE  AlertKept'
  BY <1>1, <1>3 DEF Enqueue, Discard, locals
<1>4. ASSUME NEW q \in Rank, HearControl(r, q)
      PROVE  AlertKept'
  BY <1>4, KeptBegin DEF HearControl
<1>5. ASSUME NEW q \in Rank, SendInterrupted(r, q)
      PROVE  AlertKept'
  BY <1>5, KeptBegin DEF SendInterrupted
<1>6. CASE Fault(r)
  <2>1. \E m, own, a : Begin(r, m, own, a)
    BY <1>6 DEF Fault
  <2> QED BY <2>1, KeptBegin
<1>7. ASSUME NEW q \in Rank, DrainControl(r, q)
      PROVE  AlertKept'
  BY <1>7, KeptDrain
<1>8. ASSUME NEW q \in Rank, HearCaught(r, q)
      PROVE  AlertKept'
  <2>1. phase' = phase /\ phase'[r] # "drain" /\ id0' = id0
        /\ msg' = [msg EXCEPT ![r] = Head(chan[q][r])]
    BY <1>8 DEF HearCaught, locals
  <2>2. \A p \in Rank \ {r} : msg'[p] = msg[p]
    BY <2>1 DEF TypeOK
  <2> QED BY <2>1, <2>2, KeptOutsideDrain
<1>9. ASSUME NEW D, StartSend(r, D)
      PROVE  AlertKept'
  BY <1>2, <1>9 DEF StartSend, locals
<1>10. ASSUME NEW D \in SUBSET Rank, MpSend(r, D)
       PROVE  AlertKept'
  BY <1>9, <1>10 DEF MpSend
<1>11. ASSUME NEW from \in Rank, MpRecv(r, from)
       PROVE  AlertKept'
  BY <1>1, <1>11 DEF MpRecv, locals
<1>12. CASE SendDone(r) \/ Finish(r)
  BY <1>2, <1>12 DEF SendDone, Finish, locals
<1>13. CASE MpExecIdle(r)
  BY <1>2, <1>9, <1>13 DEF MpExecIdle, locals
<1>14. ASSUME NEW f, Spread(r, f)
       PROVE  AlertKept'
  BY <1>2, <1>14 DEF Spread
<1>15. ASSUME NEW reason, Die(reason)
       PROVE  AlertKept'
  BY <1>1, <1>15 DEF Die, locals
<1>16. CASE DrainEmpty(r)
  <2>1. CASE MustAlert(r)
    BY <1>2, <1>16, <2>1 DEF DrainEmpty, locals
  <2>2. CASE ~MustAlert(r)
    BY <1>14, <1>15, <1>16, <2>2 DEF DrainEmpty
  <2> QED BY <2>1, <2>2
<1>17. CASE AlertEmpty(r)
  BY <1>14, <1>17 DEF AlertEmpty
<1>18. ASSUME NEW q \in Rank,
              \/ AlertControl(r, q) \/ TallyControl(r, q)
              \/ ClearControl(r, q) \/ AckControl(r, q)
       PROVE  AlertKept'
  <2>1. CASE \E reason : Die(reason)
    BY <1>15, <2>1
  <2>2. CASE ~\E reason : Die(reason)
    <3>1. /\ phase[r] # "drain"
          /\ \/ phase' = phase
             \/ phase' = [phase EXCEPT ![r] = "alertdrain"]
             \/ phase' = [phase EXCEPT ![r] = "clearing"]
      <4>1. CASE AlertControl(r, q)
        BY <2>2, <4>1 DEF AlertControl, TypeOK
      <4>2. CASE TallyControl(r, q)
        BY <2>2, <4>2 DEF TallyControl
      <4>3. CASE ClearControl(r, q)
        BY <2>2, <4>3 DEF ClearControl, CanClear
      <4>4. CASE AckControl(r, q)
        BY <2>2, <4>4 DEF AckControl
      <4> QED BY <1>18, <4>1, <4>2, <4>3, <4>4
    <3>2. /\ id0' = id0
          /\ msg' = [msg EXCEPT ![r] = Head(chan[q][r])]
      BY <1>18, <2>2 DEF AlertControl, TallyControl, ClearControl, AckControl
    <3>3. /\ phase'[r] # "drain"
          /\ \A p \in Rank \ {r} :
               phase'[p] = phase[p] /\ id0'[p] = id0[p] /\ msg'[p] = msg[p]
      BY <3>1, <3>2 DEF TypeOK
    <3> QED BY <3>3, KeptOutsideDrain
  <2> QED BY <2>1, <2>2
<1>19. CASE Report(r)
  BY <1>2, <1>19 DEF Report
<1>20. ASSUME NEW q \in Rank, ClearData(r, q)
       PROVE  AlertKept'
  BY <1>2, <1>20 DEF ClearData
<1>21. CASE PassCleared(r)
  BY <1>2, <1>15, <1>21 DEF PassCleared, locals
<1>22. CASE ClearEmpty(r)
  BY <1>2, <1>15, <1>21, <1>22 DEF ClearEmpty, locals
<1>23. CASE ClearReport(r)
  BY <1>2, <1>15, <1>23 DEF ClearReport
<1>24. CASE Acknowledge(r)
  BY <1>2, <1>24 DEF Acknowledge, locals
<1>25. CASE Leave(r)
  <2>1. CASE StaffSendsDone(r)
    <3>1. /\ phase' = [phase EXCEPT ![r] = "idle"]
          /\ id0' = [id0 EXCEPT ![r] = 0]
          /\ msg' = [msg EXCEPT ![r] = Data]
      BY <1>25, <2>1 DEF Leave
    <3> QED BY <1>2, <3>1 DEF TypeOK
  <2>2. CASE ~StaffSendsDone(r)
    BY <1>15, <1>25, <2>2 DEF Leave
  <2> QED BY <2>1, <2>2
<1> QED BY <1>3, <1>4, <1>5, <1>6, <1>7, <1>8, <1>10, <1>11, <1>12, <1>13,
           <1>15, <1>16, <1>17, <1>18, <1>19, <1>20, <1>22, <1>23, <1>24, <1>25
       DEF Step, Program, Attend, Recover, Recovering

\* The steps that only rank 0 takes.
LEMMA RootStep ==
  ASSUME FlowInv, MpExec \/ Complete
  PROVE  ControlFollowsTree' /\ AlertKept'
<1> USE DEF FlowInv
<1>1. 0 \in Rank
  BY SizeAssumption DEF Rank
<1>2. ASSUME NEW to \in {"sending", "ack"},
             phase' = [phase EXCEPT ![0] = to], id0' = id0, msg' = msg
      PROVE  AlertKept'
  <2>1. phase'[0] # "drain" /\ \A p \in Rank \ {0} : phase'[p] = phase[p]
    BY <1>1, <1>2 DEF TypeOK
  <2> QED BY <1>1, <1>2, <2>1, KeptOutsideDrain
<1>3. CASE UNCHANGED <<phase, id0, msg, chan>>
  BY <1>3 DEF AlertKept, ControlFollowsTree
<1>4. CASE MpExec
  <2>1. ControlFollowsTree'
    BY <1>1, <1>4, FlowStartSend DEF MpExec
  <2> QED BY <1>2, <1>4, <2>1 DEF MpExec, StartSend, locals
<1>5. CASE Complete
  <2>1. CASE PassCleared(0)
    <3>1. ControlFollowsTree'
      BY <1>1, <2>1, FlowPassCleared
    <3>2. AlertKept'
      BY <1>2, <1>3, <2>1 DEF PassCleared, Die, locals
    <3> QED BY <3>1, <3>2
  <2>2. CASE ~PassCleared(0)
    BY <1>3, <1>5, <2>2 DEF Complete, Die, locals
  <2> QED BY <2>1, <2>2
<1> QED BY <1>4, <1>5

\* The invariant behind it, which the proofs about a round start from.
LEMMA FlowInductive == Spec => []FlowInv
<1>1. Init => FlowInv
  <2> SUFFICES ASSUME Init PROVE FlowInv
    OBVIOUS
  <2>1. TypeOK
    BY EmptySeq DEF Init, TypeOK, Data, Message
  <2>2. ControlFollowsTree
    BY EmptySeq DEF Init, ControlFollowsTree
  <2>3. AlertKept
    BY DEF Init, AlertKept
  <2> QED BY <2>1, <2>2, <2>3 DEF FlowInv
<1>2. FlowInv /\ [Next]_vars => FlowInv'
  <2> SUFFICES ASSUME FlowInv, [Next]_vars PROVE FlowInv'
    OBVIOUS
  <2>1. TypeOK'
    BY TypeStep DEF FlowInv
  <2>2. CASE UNCHANGED vars
    BY <2>1, <2>2 DEF FlowInv, ControlFollowsTree, AlertKept, vars, locals
  <2>3. CASE MpExec \/ Complete
    BY <2>1, <2>3, RootStep DEF FlowInv
  <2>4. ASSUME NEW r \in Rank, Step(r)
        PROVE  FlowInv'
    BY <2>1, <2>4, FlowStep, KeptStep DEF FlowInv
  <2> QED BY <2>2, <2>3, <2>4 DEF Next, Rest
<1> QED BY <1>1, <1>2, PTL DEF Spec

\* Control messages travel along the edges of the tree in the direction of
\* their ids, whatever ranks fault, catch, or abort.  (The column "sent to" of
\* the protocol table in mpy.c.)
THEOREM FlowCorrect == Spec => []ControlFollowsTree
<1>1. FlowInv => ControlFollowsTree
  BY DEF FlowInv
<1> QED BY <1>1, FlowInductive, PTL

-----------------------------------------------------------------------------
(* What a channel may hold, before and after a message is added or taken.  *)

LEMMA ChanType ==
  ASSUME NEW c \in Seq(Message)
  PROVE  /\ Len(c) \in Nat /\ DOMAIN c = 1 .. Len(c)
         /\ \A i \in DOMAIN c : c[i] \in Message
         /\ c = << >> <=> Len(c) = 0
BY LenProperties, ElementOfSeq, EmptySeq

LEMMA ChanAppend ==
  ASSUME NEW c \in Seq(Message), NEW m \in Message
  PROVE  /\ Append(c, m) \in Seq(Message)
         /\ Len(Append(c, m)) = Len(c) + 1
         /\ DOMAIN Append(c, m) = 1 .. Len(c) + 1
         /\ \A i \in DOMAIN c : Append(c, m)[i] = c[i]
         /\ Append(c, m)[Len(c) + 1] = m
         /\ Append(c, m) # << >>
<1> DEFINE d == Append(c, m)
<1>1. /\ d \in Seq(Message) /\ Len(d) = Len(c) + 1
      /\ \A i \in 1 .. Len(c) : d[i] = c[i]
      /\ d[Len(c) + 1] = m
  BY AppendProperties
<1> HIDE DEF d
<1>2. DOMAIN d = 1 .. Len(d) /\ (d = << >> <=> Len(d) = 0)
  BY <1>1, ChanType
<1> QED BY <1>1, <1>2, ChanType DEF d

LEMMA ChanTail ==
  ASSUME NEW c \in Seq(Message), c # << >>
  PROVE  /\ Tail(c) \in Seq(Message) /\ Len(c) >= 1
         /\ DOMAIN Tail(c) = 1 .. Len(c) - 1 /\ Len(Tail(c)) = Len(c) - 1
         /\ \A i \in 1 .. Len(c) - 1 : Tail(c)[i] = c[i + 1]
         /\ Head(c) = c[1] /\ Head(c) \in Message
         /\ Tail(c) = << >> <=> Len(c) = 1
<1> DEFINE d == Tail(c)
<1>1. /\ d \in Seq(Message) /\ Len(d) = Len(c) - 1
      /\ \A i \in 1 .. Len(d) : d[i] = c[i + 1]
      /\ Head(c) \in Message /\ Head(c) = c[1]
  BY HeadTailProperties
<1> HIDE DEF d
<1>2. DOMAIN d = 1 .. Len(d) /\ (d = << >> <=> Len(d) = 0)
  BY <1>1, ChanType
<1> QED BY <1>1, <1>2, ChanType DEF d

LEMMA DataId == Data.id = 0
BY DEF Data

LEMMA EmptyChan ==
  ASSUME NEW c, c = << >>
  PROVE  Plain(c) /\ MaybeAlert(c) /\ Counts(c) /\ ~WithVerdict(c) /\ ~WithReport(c)
         /\ \A id : ~Only(c, id)
BY DEF Plain, MaybeAlert, Counts, WithVerdict, WithReport, Only

LEMMA PlainMaybeAlert ==
  ASSUME NEW c, Plain(c)
  PROVE  MaybeAlert(c)
BY DEF Plain, MaybeAlert

LEMMA AppendPlain ==
  ASSUME NEW c \in Seq(Message), Plain(c), NEW m \in Message
  PROVE  /\ m = Data => Plain(Append(c, m))
         /\ m.id = 1 => MaybeAlert(Append(c, m))
         /\ m.id = 2 => WithVerdict(Append(c, m))
<1> DEFINE d == Append(c, m)
<1>1. /\ \A i \in DOMAIN d : (i \in DOMAIN c /\ d[i] = c[i]) \/ i = Len(d)
      /\ d[Len(d)] = m /\ DOMAIN c = 1 .. Len(c) /\ Len(c) \in Nat
      /\ Len(d) = Len(c) + 1 /\ d # << >>
  BY ChanType, ChanAppend
<1> HIDE DEF d
<1>2. m = Data => Plain(d)
  BY <1>1 DEF Plain
<1>3. m.id = 1 => MaybeAlert(d)
  BY <1>1 DEF Plain, MaybeAlert
<1>4. m.id = 2 => WithVerdict(d)
  BY <1>1 DEF Plain, WithVerdict
<1> QED BY <1>2, <1>3, <1>4 DEF d

LEMMA AppendReport ==
  ASSUME NEW c \in Seq(Message), MaybeAlert(c), NEW m \in Message, m.id = 3
  PROVE  WithReport(Append(c, m))
<1> DEFINE d == Append(c, m)
           k == Len(c) + 1
<1>1. /\ k \in DOMAIN d /\ d[k].id = 3
      /\ \A i \in DOMAIN d : (i \in DOMAIN c /\ d[i] = c[i]) \/ i = k
      /\ DOMAIN c = 1 .. Len(c) /\ Len(c) \in Nat
  BY ChanType, ChanAppend
<1>2. \A i \in DOMAIN d :
        /\ i > k => d[i].id = 4
        /\ i < k => d[i] = Data \/ (d[i].id = 1 /\ i = k - 1)
  <2> HIDE DEF d
  <2> QED BY <1>1 DEF MaybeAlert
<1> HIDE DEF d, k
<1> QED BY <1>1, <1>2 DEF WithReport, d

LEMMA AppendCount ==
  ASSUME NEW c \in Seq(Message), NEW m \in Message, m.id = 4
  PROVE  /\ Counts(c) => Counts(Append(c, m))
         /\ WithReport(c) => WithReport(Append(c, m))
<1> DEFINE d == Append(c, m)
<1>1. /\ \A i \in DOMAIN d : (i \in DOMAIN c /\ d[i] = c[i]) \/ i = Len(c) + 1
      /\ d[Len(c) + 1] = m /\ DOMAIN c = 1 .. Len(c) /\ Len(c) \in Nat
      /\ DOMAIN c \subseteq DOMAIN d /\ \A i \in DOMAIN c : d[i] = c[i]
  BY ChanType, ChanAppend
<1> HIDE DEF d
<1>2. Counts(c) => Counts(d)
  BY <1>1 DEF Counts
<1>3. ASSUME WithReport(c)
      PROVE  WithReport(d)
  <2>1. PICK k \in DOMAIN c :
          /\ c[k].id = 3
          /\ \A i \in DOMAIN c :
               /\ i > k => c[i].id = 4
               /\ i < k => c[i] = Data \/ (c[i].id = 1 /\ i = k - 1)
    BY <1>3 DEF WithReport
  <2>2. k \in DOMAIN d /\ d[k].id = 3
    BY <1>1, <2>1
  <2>3. \A i \in DOMAIN d :
          /\ i > k => d[i].id = 4
          /\ i < k => d[i] = Data \/ (d[i].id = 1 /\ i = k - 1)
    BY <1>1, <2>1
  <2> QED BY <2>2, <2>3 DEF WithReport
<1> QED BY <1>2, <1>3 DEF d

LEMMA AppendOnly ==
  ASSUME NEW c, c = << >>, NEW m \in Message
  PROVE  Only(Append(c, m), m.id)
<1>1. c \in Seq(Message)
  BY EmptySeq
<1> QED BY <1>1, ChanType, ChanAppend DEF Only

\* The oldest message is data.
LEMMA TailData ==
  ASSUME NEW c \in Seq(Message), c # << >>, Head(c) = Data
  PROVE  /\ Plain(c) => Plain(Tail(c))
         /\ MaybeAlert(c) => MaybeAlert(Tail(c))
         /\ WithVerdict(c) => WithVerdict(Tail(c))
         /\ WithReport(c) => WithReport(Tail(c))
         /\ ~Counts(c) /\ ~Only(c, 5) /\ ~Only(c, 6)
<1> DEFINE d == Tail(c)
<1>1. /\ Len(c) \in Nat /\ Len(c) >= 1 /\ DOMAIN c = 1 .. Len(c)
      /\ DOMAIN d = 1 .. Len(c) - 1 /\ Len(d) = Len(c) - 1
      /\ \A i \in DOMAIN d : d[i] = c[i + 1] /\ i + 1 \in DOMAIN c
      /\ c[1] = Data /\ c[1].id = 0 /\ (d = << >> <=> Len(c) = 1)
  BY ChanType, ChanTail, DataId
<1> HIDE DEF d
<1>2. Plain(c) => Plain(d)
  BY <1>1 DEF Plain
<1>3. MaybeAlert(c) => MaybeAlert(d)
  BY <1>1 DEF MaybeAlert
<1>4. WithVerdict(c) => WithVerdict(d)
  BY <1>1 DEF WithVerdict
<1>5. ASSUME WithReport(c)
      PROVE  WithReport(d)
  <2>1. PICK k \in DOMAIN c :
          /\ c[k].id = 3
          /\ \A i \in DOMAIN c :
               /\ i > k => c[i].id = 4
               /\ i < k => c[i] = Data \/ (c[i].id = 1 /\ i = k - 1)
    BY <1>5 DEF WithReport
  <2>2. k - 1 \in DOMAIN d /\ d[k - 1].id = 3
    BY <1>1, <2>1
  <2>3. \A i \in DOMAIN d :
          /\ i > k - 1 => d[i].id = 4
          /\ i < k - 1 => d[i] = Data \/ (d[i].id = 1 /\ i = (k - 1) - 1)
    BY <1>1, <2>1
  <2> QED BY <2>2, <2>3 DEF WithReport
<1>6. ~Counts(c) /\ ~Only(c, 5) /\ ~Only(c, 6)
  BY <1>1 DEF Counts, Only
<1> QED BY <1>2, <1>3, <1>4, <1>5, <1>6 DEF d

\* The oldest message is a control message.
LEMMA TailControl ==
  ASSUME NEW c \in Seq(Message), c # << >>, Head(c) # Data
  PROVE  /\ ~Plain(c)
         /\ MaybeAlert(c) => Head(c).id = 1 /\ Tail(c) = << >>
         /\ WithVerdict(c) => Head(c).id = 2 /\ Tail(c) = << >>
         /\ WithReport(c) => \/ Head(c).id = 1 /\ WithReport(Tail(c))
                             \/ Head(c).id = 3 /\ Counts(Tail(c))
         /\ Counts(c) => Head(c).id = 4 /\ Counts(Tail(c))
         /\ \A id : Only(c, id) => Head(c).id = id /\ Tail(c) = << >>
<1> DEFINE d == Tail(c)
<1>1. /\ Len(c) \in Nat /\ Len(c) >= 1 /\ DOMAIN c = 1 .. Len(c)
      /\ DOMAIN d = 1 .. Len(c) - 1 /\ Len(d) = Len(c) - 1
      /\ \A i \in DOMAIN d : d[i] = c[i + 1] /\ i + 1 \in DOMAIN c
      /\ c[1] = Head(c) /\ (d = << >> <=> Len(c) = 1)
  BY ChanType, ChanTail
<1> HIDE DEF d
<1>2. ~Plain(c)
  BY <1>1 DEF Plain
<1>3. MaybeAlert(c) => Head(c).id = 1 /\ d = << >>
  BY <1>1 DEF MaybeAlert
<1>4. WithVerdict(c) => Head(c).id = 2 /\ d = << >>
  BY <1>1 DEF WithVerdict
<1>5. ASSUME WithReport(c)
      PROVE  \/ Head(c).id = 1 /\ WithReport(d)
             \/ Head(c).id = 3 /\ Counts(d)
  <2>1. PICK k \in DOMAIN c :
          /\ c[k].id = 3
          /\ \A i \in DOMAIN c :
               /\ i > k => c[i].id = 4
               /\ i < k => c[i] = Data \/ (c[i].id = 1 /\ i = k - 1)
    BY <1>5 DEF WithReport
  <2>2. CASE k = 1
    BY <1>1, <2>1, <2>2 DEF Counts
  <2>3. CASE k # 1
    <3>1. Head(c).id = 1 /\ k = 2
      BY <1>1, <2>1, <2>3
    <3>2. k - 1 \in DOMAIN d /\ d[k - 1].id = 3
      BY <1>1, <2>1, <2>3
    <3>3. \A i \in DOMAIN d :
            /\ i > k - 1 => d[i].id = 4
            /\ i < k - 1 => d[i] = Data \/ (d[i].id = 1 /\ i = (k - 1) - 1)
      BY <1>1, <2>1
    <3> QED BY <3>1, <3>2, <3>3 DEF WithReport
  <2> QED BY <2>2, <2>3
<1>6. Counts(c) => Head(c).id = 4 /\ Counts(d)
  BY <1>1 DEF Counts
<1>7. ASSUME NEW id, Only(c, id)
      PROVE  Head(c).id = id /\ d = << >>
  BY <1>1, <1>7 DEF Only
<1> QED BY <1>2, <1>3, <1>4, <1>5, <1>6, <1>7 DEF d

\* The first control message is taken from behind the data (mp_send).
LEMMA RemoveControl ==
  ASSUME NEW c \in Seq(Message), NEW i \in DOMAIN c, c[i] # Data,
         \A j \in 1 .. i - 1 : c[j] = Data
  PROVE  /\ ~Plain(c)
         /\ MaybeAlert(c) => c[i].id = 1 /\ Plain(RemoveAt(c, i))
         /\ WithVerdict(c) => c[i].id = 2 /\ Plain(RemoveAt(c, i))
         /\ \A id : Only(c, id) => c[i].id = id
<1> DEFINE d == RemoveAt(c, i)
<1>1. /\ Len(c) \in Nat /\ DOMAIN c = 1 .. Len(c) /\ i \in 1 .. Len(c)
      /\ DOMAIN d = 1 .. Len(c) - 1
      /\ \A k \in 1 .. Len(c) - 1 : d[k] = IF k < i THEN c[k] ELSE c[k + 1]
  <2>1. Len(c) \in Nat /\ DOMAIN c = 1 .. Len(c)
    BY ChanType
  <2>2. /\ d \in Seq(Message) /\ Len(d) = Len(c) - 1
        /\ \A k \in 1 .. Len(c) - 1 : d[k] = IF k < i THEN c[k] ELSE c[k + 1]
    BY <2>1, RemoveAtProperties
  <2> HIDE DEF d
  <2> QED BY <2>1, <2>2, ChanType
<1> HIDE DEF d
<1>2. ~Plain(c)
  BY DEF Plain
<1>3. MaybeAlert(c) => c[i].id = 1 /\ Plain(d)
  BY <1>1 DEF MaybeAlert, Plain
<1>4. WithVerdict(c) => c[i].id = 2 /\ Plain(d)
  BY <1>1 DEF WithVerdict, Plain
<1>5. \A id : Only(c, id) => c[i].id = id
  BY <1>1 DEF Only
<1> QED BY <1>2, <1>3, <1>4, <1>5 DEF d
-----------------------------------------------------------------------------
(* What a step of r leaves alone.                                          *)

Acts(r) == Step(r) \/ (r = 0 /\ (MpExec \/ Complete))

\* What p has, apart from its request table.
Same(p) ==
  /\ phase'[p] = phase[p] /\ mpyNet'[p] = mpyNet[p]
  /\ mpyQueue'[p] = mpyQueue[p] /\ msg'[p] = msg[p] /\ quiet'[p] = quiet[p]
  /\ id0'[p] = id0[p] /\ frank'[p] = frank[p] /\ tally'[p] = tally[p]
  /\ net'[p] = net[p] /\ count'[p] = count[p] /\ heard'[p] = heard[p]

\* A step that leaves everything but fatal as it is.
Idles ==
  UNCHANGED <<phase, chan, mpyNet, mpyQueue, msg, quiet, id0, frank, tally,
              net, count, heard, sends, faulted>>

Alone(r) ==
  /\ \A p \in Rank \ {r} : Same(p)
  /\ \A p, q \in Rank \ {r} : chan'[p][q] = chan[p][q]

LEMMA AloneIdles ==
  ASSUME NEW r, Idles
  PROVE  Alone(r)
BY DEF Idles, Alone, Same

LEMMA DieIdles ==
  ASSUME NEW reason, Die(reason)
  PROVE  Idles
BY DEF Die, Idles, locals

\* The channels after a receipt ...
LEMMA ReceivedAt ==
  ASSUME TypeOK, NEW q \in Rank, NEW r \in Rank, chan' = Received(q, r)
  PROVE  \A p, s \in Rank : chan'[p][s] =
           IF p = q /\ s = r THEN Tail(chan[q][r]) ELSE chan[p][s]
BY DEF TypeOK, Received

LEMMA RemovedAt ==
  ASSUME TypeOK, NEW q \in Rank, NEW r \in Rank, NEW i,
         chan' = [chan EXCEPT ![q][r] = RemoveAt(@, i)]
  PROVE  \A p, s \in Rank : chan'[p][s] =
           IF p = q /\ s = r THEN RemoveAt(chan[q][r], i) ELSE chan[p][s]
BY DEF TypeOK

\* ... and after a send.
LEMMA SentAt ==
  ASSUME TypeOK, NEW r \in Rank, NEW D, NEW m, chan' = Sent(chan, r, D, m)
  PROVE  \A p, s \in Rank : chan'[p][s] =
           IF p = r /\ s \in D THEN Append(chan[r][s], m) ELSE chan[p][s]
BY DEF TypeOK, Sent

LEMMA AloneBegin ==
  ASSUME TypeOK, NEW r \in Rank, NEW m, NEW own, NEW a, Begin(r, m, own, a),
         UNCHANGED mpyNet
  PROVE  \A p \in Rank \ {r} : Same(p)
<1>1. CASE m.id \notin {1, 2}
  BY <1>1 DEF Begin, Same, locals
<1>2. CASE m.id \in {1, 2}
  <2> SUFFICES ASSUME NEW p \in Rank, p # r
               PROVE  Same(p)
    OBVIOUS
  <2>0. /\ phase' = [phase EXCEPT ![r] = "drain"]
        /\ mpyQueue' = [mpyQueue EXCEPT ![r] = QueueLeft(r)]
        /\ msg' = [msg EXCEPT ![r] = m]
        /\ quiet' = [quiet EXCEPT ![r] = FALSE]
        /\ id0' = [id0 EXCEPT ![r] = m.id]
        /\ frank' = [frank EXCEPT ![r] = IF m.id = 2 THEN m.n1 ELSE -1]
        /\ tally' = [tally EXCEPT ![r] = [q \in Rank |-> 0]]
        /\ UNCHANGED <<mpyNet, net, count, heard>>
    BY <1>2 DEF Begin
  <2>1. /\ phase'[p] = phase[p] /\ mpyQueue'[p] = mpyQueue[p]
        /\ msg'[p] = msg[p] /\ quiet'[p] = quiet[p]
    BY <2>0 DEF TypeOK
  <2>2. /\ id0'[p] = id0[p] /\ frank'[p] = frank[p] /\ tally'[p] = tally[p]
        /\ UNCHANGED <<mpyNet, net, count, heard>>
    BY <2>0 DEF TypeOK
  <2> QED BY <2>1, <2>2 DEF Same
<1> QED BY <1>1, <1>2

LEMMA AloneStartSend ==
  ASSUME TypeOK, NEW r \in Rank, NEW D, StartSend(r, D),
         \A p \in Rank \ {r} : mpyQueue'[p] = mpyQueue[p]
  PROVE  Alone(r)
<1>1. \A p, q \in Rank \ {r} : chan'[p][q] = chan[p][q]
  BY SentAt DEF StartSend
<1>2. \A p \in Rank \ {r} : Same(p)
  BY DEF StartSend, Same, TypeOK, locals
<1> QED BY <1>1, <1>2 DEF Alone

LEMMA AloneSpread ==
  ASSUME TypeOK, NEW r \in Rank, NEW f, Spread(r, f)
  PROVE  Alone(r)
<1>1. \A p, q \in Rank \ {r} : chan'[p][q] = chan[p][q]
  BY SentAt DEF Spread
<1>2. \A p \in Rank \ {r} : Same(p)
  BY DEF Spread, Same, TypeOK
<1> QED BY <1>1, <1>2 DEF Alone

LEMMA AlonePassCleared ==
  ASSUME TypeOK, NEW r \in Rank, PassCleared(r)
  PROVE  Alone(r)
<1>1. CASE \E reason : Die(reason)
  BY <1>1, DieIdles, AloneIdles
<1>2. CASE StaffSendsDone(r) /\ ~CannotFinish(r)
  <2>1. \A p, q \in Rank \ {r} : chan'[p][q] = chan[p][q]
    BY <1>2, SentAt DEF PassCleared
  <2>2. \A p \in Rank \ {r} : Same(p)
    BY <1>2 DEF PassCleared, Same, TypeOK, locals
  <2> QED BY <2>1, <2>2 DEF Alone
<1> QED BY <1>1, <1>2 DEF PassCleared

LEMMA AloneReceipt ==
  ASSUME TypeOK, NEW r \in Rank, NEW q \in Rank,
         \/ Enqueue(r, q)
         \/ HearControl(r, q)
         \/ HearCaught(r, q)
         \/ SendInterrupted(r, q)
         \/ Discard(r, q)
         \/ DrainControl(r, q)
         \/ AlertControl(r, q)
         \/ TallyControl(r, q)
         \/ ClearData(r, q)
         \/ ClearControl(r, q)
         \/ AckControl(r, q)
  PROVE  Alone(r)
<1>1. CASE \E reason : Die(reason)
  BY <1>1, DieIdles, AloneIdles
<1>2. CASE chan' = Received(q, r) /\ \A p \in Rank \ {r} : Same(p)
  BY <1>2, ReceivedAt DEF Alone
<1>3. CASE SendInterrupted(r, q)
  <2>1. PICK i \in DOMAIN chan[q][r], a \in 0 .. Incomplete(r) :
          /\ chan' = [chan EXCEPT ![q][r] = RemoveAt(@, i)]
          /\ Begin(r, chan[q][r][i], FALSE, a)
    BY <1>3 DEF SendInterrupted
  <2>2. \A p \in Rank \ {r} : Same(p)
    BY <1>3, <2>1, AloneBegin DEF SendInterrupted
  <2> QED BY <2>1, <2>2, RemovedAt DEF Alone
<1>4. CASE Enqueue(r, q)
  BY <1>2, <1>4 DEF Enqueue, Same, TypeOK, locals
<1>5. CASE HearControl(r, q)
  BY <1>2, <1>5, AloneBegin DEF HearControl
<1>6. CASE HearCaught(r, q)
  BY <1>2, <1>6 DEF HearCaught, Same, TypeOK, locals
<1>7. CASE Discard(r, q)
  BY <1>2, <1>7 DEF Discard, Same, TypeOK, locals
<1>8. CASE DrainControl(r, q)
  BY <1>1, <1>2, <1>8 DEF DrainControl, Same, TypeOK
<1>9. CASE AlertControl(r, q)
  BY <1>1, <1>2, <1>9 DEF AlertControl, Same, TypeOK
<1>10. CASE TallyControl(r, q)
  BY <1>1, <1>2, <1>10 DEF TallyControl, Same, TypeOK
<1>11. CASE ClearData(r, q)
  BY <1>2, <1>11 DEF ClearData, Same, TypeOK
<1>12. CASE ClearControl(r, q)
  BY <1>1, <1>2, <1>12 DEF ClearControl, Same, TypeOK
<1>13. CASE AckControl(r, q)
  BY <1>1, <1>2, <1>13 DEF AckControl, Same, TypeOK
<1> QED BY <1>3, <1>4, <1>5, <1>6, <1>7, <1>8, <1>9, <1>10, <1>11, <1>12,
           <1>13

LEMMA AloneDequeue ==
  ASSUME TypeOK, NEW r \in Rank, NEW from, Dequeue(r, from)
  PROVE  \A p \in Rank \ {r} : mpyQueue'[p] = mpyQueue[p]
BY DEF Dequeue, TypeOK

LEMMA ActsAlone ==
  ASSUME TypeOK, NEW r \in Rank, Acts(r)
  PROVE  Alone(r)
<1>1. CASE \E reason : Die(reason)
  BY <1>1, DieIdles, AloneIdles
<1>2. CASE chan' = chan /\ \A p \in Rank \ {r} : Same(p)
  BY <1>2 DEF Alone
<1>3. ASSUME NEW D \in SUBSET Rank, MpSend(r, D)
      PROVE  Alone(r)
  BY <1>3, AloneStartSend DEF MpSend
<1>4. CASE Fault(r)
  <2>1. \E m, own, a : Begin(r, m, own, a)
    BY <1>4 DEF Fault
  <2> QED BY <1>2, <1>4, <2>1, AloneBegin DEF Fault
<1>5. ASSUME NEW from \in Rank, MpRecv(r, from)
      PROVE  Alone(r)
  BY <1>2, <1>5, AloneDequeue DEF MpRecv, Same, TypeOK, locals
<1>6. CASE Finish(r) \/ SendDone(r)
  BY <1>2, <1>6 DEF Finish, SendDone, Same, TypeOK, locals
<1>7. CASE MpExecIdle(r)
  <2>1. \A p \in Rank \ {r} : mpyQueue'[p] = mpyQueue[p]
    BY <1>7, AloneDequeue DEF MpExecIdle
  <2>2. CASE StartSend(r, Staff(r))
    BY <2>1, <2>2, AloneStartSend
  <2>3. CASE ~StartSend(r, Staff(r))
    BY <1>2, <1>7, <2>1, <2>3 DEF MpExecIdle, Same, TypeOK, locals
  <2> QED BY <2>2, <2>3
<1>8. CASE DrainEmpty(r)
  <2>1. CASE MustAlert(r)
    <3>1. chan' = Sent(chan, r, {Boss(r)}, msg[r])
      BY <1>8, <2>1 DEF DrainEmpty
    <3>2. \A p \in Rank \ {r} : Same(p)
      BY <1>8, <2>1 DEF DrainEmpty, Same, TypeOK, locals
    <3> QED BY <3>1, <3>2, SentAt DEF Alone
  <2>2. CASE ~MustAlert(r)
    BY <1>1, <1>8, <2>2, AloneSpread DEF DrainEmpty
  <2> QED BY <2>1, <2>2
<1>9. CASE AlertEmpty(r)
  BY <1>9, AloneSpread DEF AlertEmpty
<1>10. CASE Report(r)
  <2>1. \/ chan' = chan
        \/ chan' = Sent(chan, r, {Boss(r)}, Control(3, SubtreeNet(r), nid1[r]))
    BY <1>10 DEF Report
  <2>2. \A p \in Rank \ {r} : Same(p)
    BY <1>10 DEF Report, Same, TypeOK
  <2> QED BY <1>2, <2>1, <2>2, SentAt DEF Alone
<1>11. CASE ClearEmpty(r)
  <2>1. CASE PassCleared(r)
    BY <2>1, AlonePassCleared
  <2>2. CASE ~PassCleared(r)
    BY <1>1, <1>2, <1>11, <2>2 DEF ClearEmpty, Same, TypeOK, locals
  <2> QED BY <2>1, <2>2
<1>12. CASE ClearReport(r)
  <2>1. CASE heard[r] = 5
    BY <1>1, <1>12, <2>1 DEF ClearReport
  <2>2. CASE heard[r] # 5
    <3>1. \/ chan' = chan
          \/ chan' = Sent(chan, r, {Boss(r)}, Control(4, Dropped(r), 0))
      BY <1>12, <2>2 DEF ClearReport
    <3>2. \A p \in Rank \ {r} : Same(p)
      BY <1>12, <2>2 DEF ClearReport, Same, TypeOK
    <3> QED BY <1>2, <3>1, <3>2, SentAt DEF Alone
  <2> QED BY <2>1, <2>2
<1>13. CASE Acknowledge(r)
  <2>1. \/ chan' = chan
        \/ chan' = Sent(chan, r, {Boss(r)}, Control(6, 0, 0))
    BY <1>13 DEF Acknowledge
  <2>2. \A p \in Rank \ {r} : Same(p)
    BY <1>13 DEF Acknowledge, Same, TypeOK, locals
  <2> QED BY <1>2, <2>1, <2>2, SentAt DEF Alone
<1>14. CASE Leave(r)
  <2>1. CASE ~StaffSendsDone(r)
    BY <1>1, <1>14, <2>1 DEF Leave
  <2>2. CASE StaffSendsDone(r)
    <3> SUFFICES ASSUME NEW p \in Rank, p # r
                 PROVE  Same(p)
      BY <1>2, <1>14, <2>2 DEF Leave
    <3>1. /\ phase'[p] = phase[p] /\ msg'[p] = msg[p] /\ id0'[p] = id0[p]
          /\ UNCHANGED <<mpyNet, mpyQueue, quiet, frank>>
      BY <1>14, <2>2 DEF Leave, TypeOK
    <3>2. /\ tally'[p] = tally[p] /\ net'[p] = net[p] /\ count'[p] = count[p]
          /\ heard'[p] = heard[p]
      BY <1>14, <2>2 DEF Leave, TypeOK
    <3> QED BY <3>1, <3>2 DEF Same
  <2> QED BY <2>1, <2>2
<1>15. CASE r = 0 /\ MpExec
  BY <1>15, AloneStartSend DEF MpExec
<1>16. CASE r = 0 /\ Complete
  BY <1>1, <1>16, AlonePassCleared DEF Complete
<1>17. ASSUME NEW q \in Rank,
             \/ Enqueue(r, q) \/ HearControl(r, q) \/ SendInterrupted(r, q)
             \/ HearCaught(r, q) \/ Discard(r, q) \/ DrainControl(r, q)
             \/ AlertControl(r, q) \/ TallyControl(r, q) \/ ClearData(r, q)
             \/ ClearControl(r, q) \/ AckControl(r, q)
      PROVE  Alone(r)
  BY <1>17, AloneReceipt
<1> QED BY <1>1, <1>3, <1>4, <1>5, <1>6, <1>7, <1>8, <1>9, <1>10, <1>11, <1>12,
           <1>13, <1>14, <1>15, <1>16, <1>17
       DEF Acts, Step, Program, Attend, Recover, Recovering
-----------------------------------------------------------------------------
(* What a step of r does, when it does something: the actions of MpyRecover *)
(* past their guards and error paths, as far as the invariant sees them.    *)

Early == {"task", "sending", "idle"}

\* r takes a data message, or the first control message, from q.
Others(r, q) ==
  \A p, s \in Rank : p # q \/ s # r => chan'[p][s] = chan[p][s]

TakesData(r, q) ==
  /\ chan[q][r] # << >> /\ Head(chan[q][r]) = Data
  /\ chan'[q][r] = Tail(chan[q][r])
  /\ Others(r, q)

TakesHead(r, q, m) ==
  /\ chan[q][r] # << >> /\ Head(chan[q][r]) = m
  /\ chan'[q][r] = Tail(chan[q][r])

TakesFirst(r, q, m) ==
  \E i \in DOMAIN chan[q][r] :
    /\ chan[q][r][i] = m
    /\ \A j \in 1 .. i - 1 : chan[q][r][j] = Data
    /\ chan'[q][r] = RemoveAt(chan[q][r], i)

Takes(r, q, m) ==
  /\ m \in Message /\ m # Data
  /\ TakesHead(r, q, m) \/ TakesFirst(r, q, m)
  /\ Others(r, q)

\* The queue of r after r has taken one message out of it, or none.
QueueShorter(r) ==
  \/ mpyQueue'[r] = mpyQueue[r]
  \/ mpyQueue[r] # << >> /\ Len(mpyQueue'[r]) = Len(mpyQueue[r]) - 1

DoSend(r, D) ==
  /\ phase[r] \in {"task", "idle"} /\ phase'[r] = "sending"
  /\ r # 0 /\ phase[r] = "idle" => mpyQueue[r] # << >>
  /\ QueueShorter(r) /\ ~quiet'[r]
  /\ D \in SUBSET Rank /\ chan' = Sent(chan, r, D, Data)
  /\ sends' = sends + Cardinality(D) /\ sends' <= MaxSends
  /\ mpyNet'[r] = mpyNet[r] + Cardinality(D)
  /\ UNCHANGED <<msg, id0, frank, tally, net, count, heard, faulted>>

DoWork(r) ==
  /\ phase[r] \in Early /\ phase'[r] \in Early
  /\ phase[r] = "idle" => mpyQueue[r] # << >>
  /\ QueueShorter(r)
  /\ quiet'[r] => quiet[r] /\ phase'[r] = "idle"
  /\ UNCHANGED <<chan, mpyNet, msg, id0, frank, tally, net, count, heard,
                 sends, faulted>>

DoQueue(r, q) ==
  /\ phase[r] \in {"task", "idle"} /\ phase' = phase
  /\ TakesData(r, q)
  /\ mpyNet'[r] = mpyNet[r] - 1 /\ ~quiet'[r]
  /\ mpyQueue'[r] = Append(mpyQueue[r], q)
  /\ UNCHANGED <<msg, id0, frank, tally, net, count, heard, sends, faulted>>

DoCatch(r, q, m) ==
  /\ phase[r] = "task" /\ phase' = phase
  /\ Takes(r, q, m)
  /\ msg'[r] = m /\ quiet'[r]
  /\ UNCHANGED <<mpyNet, mpyQueue, id0, frank, tally, net, count, heard, sends,
                 faulted>>

\* mpy_recover is entered with m in mperr_msg.
Enters(r, m) ==
  /\ phase[r] \in Early /\ phase'[r] = "drain"
  /\ m \in Message /\ m.id \in {1, 2}
  /\ mpyQueue'[r] = << >> /\ ~quiet'[r] /\ msg'[r] = m /\ id0'[r] = m.id
  /\ frank'[r] = IF m.id = 2 THEN m.n1 ELSE -1
  /\ \A p \in Rank : tally'[r][p] = 0
  /\ UNCHANGED <<mpyNet, net, count, heard, sends>>

DoFault(r, m) ==
  /\ phase[r] = "task" /\ Enters(r, m)
  /\ m = IF quiet[r] THEN msg[r] ELSE Control(1, r, 0)
  /\ chan' = chan /\ faulted' = faulted \cup {r}

DoHear(r, q, m) == Enters(r, m) /\ Takes(r, q, m) /\ faulted' = faulted

DoThrow(r, q) ==
  /\ \/ /\ phase[r] \in {"drain", "alert", "alertdrain", "tally", "ack"}
        /\ phase' = phase /\ heard' = heard
     \/ /\ phase[r] \in Quiescing /\ (r = 0 /\ phase[r] = "clear" => net[0] > 0)
        /\ phase'[r] = "clearing" /\ heard'[r] = Heard(r)
  /\ TakesData(r, q)
  /\ mpyNet'[r] = mpyNet[r] - 1
  /\ UNCHANGED <<mpyQueue, msg, quiet, id0, frank, tally, net, count, sends,
                 faulted>>

DoDrain(r, q, m) ==
  /\ phase[r] = "drain" /\ phase' = phase
  /\ Takes(r, q, m) /\ m.id \in {1, 2}
  /\ msg'[r] = m /\ id0'[r] = IF id0[r] < m.id THEN m.id ELSE id0[r]
  /\ frank'[r] = IF m.id = 2 THEN m.n1 ELSE frank[r]
  /\ UNCHANGED <<mpyNet, mpyQueue, quiet, tally, net, count, heard, sends,
                 faulted>>

DoListen(r, q, m) ==
  /\ phase[r] \in {"alert", "alertdrain"}
  /\ phase'[r] = IF m.id = 2 THEN "alertdrain" ELSE phase[r]
  /\ Takes(r, q, m) /\ m.id \in {1, 2}
  /\ msg'[r] = m
  /\ frank'[r] = IF m.id = 2 THEN m.n1 ELSE frank[r]
  /\ UNCHANGED <<mpyNet, mpyQueue, quiet, id0, tally, net, count, heard, sends,
                 faulted>>

DoAlert(r) ==
  /\ r # 0 /\ phase[r] = "drain" /\ id0[r] = 1 /\ phase'[r] = "alert"
  /\ chan' = Sent(chan, r, {Boss(r)}, msg[r])
  /\ UNCHANGED <<mpyNet, mpyQueue, msg, quiet, id0, frank, tally, net, count,
                 heard, sends, faulted>>

DoSpread(r, f) ==
  /\ \/ r # 0 /\ phase[r] = "drain" /\ id0[r] # 1 /\ f = frank[r]
     \/ r = 0 /\ phase[r] = "drain" /\ id0[r] = 1 /\ f = msg[0].n1
     \/ phase[r] = "alertdrain" /\ f = frank[r]
  /\ phase'[r] = "tally" /\ frank'[r] = f /\ net'[r] = 0
  /\ chan' = Sent(chan, r, Staff(r), Control(2, f, 0))
  /\ UNCHANGED <<mpyNet, mpyQueue, msg, quiet, id0, tally, count, heard, sends,
                 faulted>>

DoTally(r, q, m) ==
  /\ phase[r] = "tally" /\ phase' = phase /\ q \in Staff(r)
  /\ Takes(r, q, m) /\ TakesHead(r, q, m)
  /\ \/ /\ m.id = 3 /\ tally[r][q] = 0 /\ tally'[r][q] = 1
        /\ \A p \in Rank \ {q} : tally'[r][p] = tally[r][p]
        /\ net'[r] = net[r] + m.n1
     \/ /\ m.id = 4 /\ tally[r][q] # 0 /\ tally' = tally
        /\ net'[r] = net[r] - m.n1
  /\ UNCHANGED <<mpyNet, mpyQueue, quiet, id0, frank, count, heard, sends,
                 faulted>>

DoReport(r) ==
  /\ phase[r] = "tally" /\ phase'[r] = "clear" /\ AllReported(r)
  /\ net'[r] = net[r] + mpyNet[r] /\ count'[r] = mpyNet[r]
  /\ \E n \in Nat :
       chan' = IF r = 0 THEN chan
               ELSE Sent(chan, r, {Boss(r)}, Control(3, net[r] + mpyNet[r], n))
  /\ UNCHANGED <<mpyNet, mpyQueue, msg, quiet, id0, frank, tally, heard, sends,
                 faulted>>

DoClear(r, q, m) ==
  /\ phase[r] \in Quiescing /\ phase'[r] = "clearing"
  /\ r = 0 /\ phase[r] = "clear" => net[0] > 0
  /\ Takes(r, q, m) /\ TakesHead(r, q, m)
  /\ m.id \in {4, 5} /\ heard'[r] = m.id /\ msg'[r] = m
  /\ count'[r] = IF m.id = 4 THEN count[r] + m.n1 ELSE count[r]
  /\ UNCHANGED <<mpyNet, mpyQueue, quiet, id0, frank, tally, net, sends,
                 faulted>>

DoPause(r) ==
  /\ phase[r] = "clearing" /\ phase'[r] = "clear"
  /\ mpyNet[r] >= count[r] /\ heard[r] # 5
  /\ UNCHANGED <<chan, mpyNet, mpyQueue, msg, quiet, id0, frank, tally, net,
                 count, heard, sends, faulted>>

DoCount(r) ==
  /\ phase[r] = "clearing" /\ phase'[r] = "clear"
  /\ mpyNet[r] < count[r] /\ heard[r] # 5
  /\ chan' = IF r = 0 THEN chan
             ELSE Sent(chan, r, {Boss(r)}, Control(4, count[r] - mpyNet[r], 0))
  /\ net'[r] = net[r] - (count[r] - mpyNet[r]) /\ count'[r] = mpyNet[r]
  /\ UNCHANGED <<mpyNet, mpyQueue, msg, quiet, id0, frank, tally, heard, sends,
                 faulted>>

DoPass(r) ==
  /\ \/ r = 0 /\ phase[r] = "clear" /\ net[0] = 0
     \/ phase[r] = "clearing" /\ heard[r] = 5 /\ mpyNet[r] >= count[r]
  /\ phase'[r] = "ack"
  /\ chan' = Sent(chan, r, Staff(r), Control(5, 0, 0))
  /\ UNCHANGED <<mpyNet, mpyQueue, msg, quiet, id0, frank, tally, net, count,
                 heard, sends, faulted>>

DoAck(r, q, m) ==
  /\ phase[r] = "ack" /\ phase' = phase /\ q \in Staff(r)
  /\ Takes(r, q, m) /\ TakesHead(r, q, m)
  /\ m.id = 6 /\ tally[r][q] < 2 /\ tally'[r][q] = tally[r][q] + 1
  /\ \A p \in Rank \ {q} : tally'[r][p] = tally[r][p]
  /\ UNCHANGED <<mpyNet, mpyQueue, quiet, id0, frank, net, count, heard, sends,
                 faulted>>

DoReturn(r) ==
  /\ phase[r] = "ack" /\ phase'[r] = "leaving" /\ AllAcked(r)
  /\ chan' = IF r = 0 THEN chan ELSE Sent(chan, r, {Boss(r)}, Control(6, 0, 0))
  /\ UNCHANGED <<mpyNet, mpyQueue, msg, quiet, id0, frank, tally, net, count,
                 heard, sends, faulted>>

DoLeave(r) ==
  /\ phase[r] = "leaving" /\ phase'[r] = "idle"
  /\ \A p \in Rank : tally'[r][p] = 0
  /\ msg'[r] = Data
  /\ faulted' = IF r = 0 THEN {} ELSE faulted
  /\ UNCHANGED <<chan, mpyNet, mpyQueue, quiet, frank, sends>>

Does(r) ==
  \/ Idles
  \/ \E D \in SUBSET Rank : DoSend(r, D)
  \/ DoWork(r)
  \/ \E q \in Rank : DoQueue(r, q)
  \/ \E q \in Rank, m \in Message : DoCatch(r, q, m)
  \/ \E m \in Message : DoFault(r, m)
  \/ \E q \in Rank, m \in Message : DoHear(r, q, m)
  \/ \E q \in Rank : DoThrow(r, q)
  \/ \E q \in Rank, m \in Message : DoDrain(r, q, m) \/ DoListen(r, q, m)
  \/ DoAlert(r)
  \/ \E f \in Int : DoSpread(r, f)
  \/ \E q \in Rank, m \in Message : DoTally(r, q, m)
  \/ DoReport(r)
  \/ \E q \in Rank, m \in Message : DoClear(r, q, m)
  \/ DoPause(r)
  \/ DoCount(r)
  \/ DoPass(r)
  \/ \E q \in Rank, m \in Message : DoAck(r, q, m)
  \/ DoReturn(r)
  \/ DoLeave(r)
-----------------------------------------------------------------------------
(* Every step is one of these.                                             *)

LEMMA ZeroRank == 0 \in Rank /\ 0 \in Int
BY SizeAssumption DEF Rank

LEMMA RankInt == \A r \in Rank : r \in Int
BY DEF Rank

LEMMA Phases ==
  ASSUME TypeOK, NEW r \in Rank
  PROVE  phase[r] \in {"task", "sending", "idle", "drain", "alert", "alertdrain",
                       "tally", "clear", "clearing", "ack", "leaving"}
BY DEF TypeOK, Halting

\* A control message that has come to a rank before it has passed on a
\* verdict: an alert of its staff, or the verdict of its boss.
LEMMA EarlyMessage ==
  ASSUME FlowInv, EdgeInv, NEW r \in Rank, NEW q \in Rank,
         phase[r] \in Early \cup {"drain", "alert", "alertdrain"},
         NEW i \in DOMAIN chan[q][r], chan[q][r][i] # Data
  PROVE  \/ /\ chan[q][r][i].id = 1 /\ q \in Staff(r) /\ q # 0 /\ r = Boss(q)
            /\ Apart(q, r)
         \/ /\ chan[q][r][i].id = 2 /\ r # 0 /\ q = Boss(r)
            /\ Told(r, q)
<1> DEFINE m == chan[q][r][i]
<1>1. m \in OnEdge(q, r)
  BY LenProperties, ElementOfSeq DEF FlowInv, ControlFollowsTree
<1>2. CASE q \in Staff(r)
  <2>1. q # 0 /\ r = Boss(q) /\ EdgeOf(q, r)
    BY <1>2, StaffInvertsBoss DEF EdgeInv
  <2>2. Apart(q, r)
    BY <2>1 DEF EdgeOf, Told, Aware, Reporting, Counting, Clearing, Early,
                Quiescing
  <2>3. m.id = 1
    BY <2>2 DEF Apart, MaybeAlert
  <2> QED BY <1>2, <2>1, <2>2, <2>3
<1>3. CASE r \in Staff(q)
  <2>1. r # 0 /\ q = Boss(r) /\ EdgeOf(r, q)
    BY <1>3, StaffInvertsBoss DEF EdgeInv
  <2>3. Told(r, q)
    BY <2>1 DEF EdgeOf, Apart, Aware, Reporting, Counting, Clearing, Early,
                Plain, Quiescing
  <2>4. m.id = 2
    <3>1. chan[q][r] \in Seq(Message)
      BY DEF FlowInv, TypeOK
    <3>2. i \in 1 .. Len(chan[q][r]) /\ Len(chan[q][r]) \in Nat
      BY <3>1, ChanType
    <3> QED BY <2>3, <3>2 DEF Told, WithVerdict
  <2> QED BY <2>1, <2>3, <2>4
<1> QED BY <1>1, <1>2, <1>3 DEF OnEdge

LEMMA HeadElement ==
  ASSUME TypeOK, NEW r \in Rank, NEW q \in Rank, Has(q, r)
  PROVE  /\ 1 \in DOMAIN chan[q][r] /\ chan[q][r][1] = Head(chan[q][r])
         /\ Head(chan[q][r]) \in Message
<1>1. chan[q][r] \in Seq(Message) /\ chan[q][r] # << >>
  BY DEF TypeOK, Has
<1> QED BY <1>1, ChanType, ChanTail

LEMMA ReceivedTakes ==
  ASSUME TypeOK, NEW r \in Rank, NEW q \in Rank, chan' = Received(q, r)
  PROVE  /\ HasData(q, r) => TakesData(r, q)
         /\ HasControl(q, r) =>
              /\ Takes(r, q, Head(chan[q][r]))
              /\ TakesHead(r, q, Head(chan[q][r]))
              /\ Head(chan[q][r]) \in Message
BY ReceivedAt, HeadElement
   DEF TakesData, Takes, TakesHead, Others, HasData, HasControl, Has

LEMMA BeginEnters ==
  ASSUME TypeOK, NEW r \in Rank, phase[r] \in Early, NEW m \in Message,
         m.id \in {1, 2}, NEW own, NEW a, Begin(r, m, own, a),
         UNCHANGED <<mpyNet, sends>>
  PROVE  Enters(r, m)
<1>1. /\ phase' = [phase EXCEPT ![r] = "drain"]
      /\ mpyQueue' = [mpyQueue EXCEPT ![r] = QueueLeft(r)]
      /\ msg' = [msg EXCEPT ![r] = m]
      /\ quiet' = [quiet EXCEPT ![r] = FALSE]
      /\ id0' = [id0 EXCEPT ![r] = m.id]
      /\ frank' = [frank EXCEPT ![r] = IF m.id = 2 THEN m.n1 ELSE -1]
      /\ tally' = [tally EXCEPT ![r] = [q \in Rank |-> 0]]
      /\ UNCHANGED <<mpyNet, net, count, heard>>
  BY DEF Begin
<1>2. /\ phase'[r] = "drain" /\ mpyQueue'[r] = << >> /\ msg'[r] = m
      /\ quiet'[r] = FALSE
  BY <1>1 DEF TypeOK, QueueLeft
<1>3. /\ id0'[r] = m.id /\ frank'[r] = IF m.id = 2 THEN m.n1 ELSE -1
      /\ \A p \in Rank : tally'[r][p] = 0
  BY <1>1 DEF TypeOK
<1> QED BY <1>1, <1>2, <1>3 DEF Enters

LEMMA DequeueShorter ==
  ASSUME TypeOK, NEW r \in Rank, NEW from, Dequeue(r, from)
  PROVE  mpyQueue[r] # << >> /\ QueueShorter(r)
<1>1. PICK i \in DOMAIN mpyQueue[r] :
        mpyQueue' = [mpyQueue EXCEPT ![r] = RemoveAt(@, i)]
  BY DEF Dequeue
<1>2. mpyQueue[r] \in Seq(Rank)
  BY DEF TypeOK
<1>3. i \in 1 .. Len(mpyQueue[r]) /\ mpyQueue[r] # << >>
  BY <1>2, LenProperties, EmptySeq
<1>4. Len(RemoveAt(mpyQueue[r], i)) = Len(mpyQueue[r]) - 1
  BY <1>2, <1>3, RemoveAtProperties
<1>5. mpyQueue'[r] = RemoveAt(mpyQueue[r], i)
  BY <1>1 DEF TypeOK
<1> QED BY <1>3, <1>4, <1>5 DEF QueueShorter

LEMMA StartSendDoes ==
  ASSUME TypeOK, NEW r \in Rank, NEW D \in SUBSET Rank, StartSend(r, D),
         phase[r] \in {"task", "idle"}, QueueShorter(r),
         r # 0 /\ phase[r] = "idle" => mpyQueue[r] # << >>
  PROVE  DoSend(r, D)
<1>1. phase'[r] = "sending" /\ ~quiet'[r]
  BY DEF StartSend, TypeOK
<1>2. mpyNet'[r] = mpyNet[r] + Cardinality(D)
  BY DEF StartSend, TypeOK
<1>3. /\ sends' = sends + Cardinality(D) /\ sends' <= MaxSends
      /\ chan' = Sent(chan, r, D, Data)
      /\ UNCHANGED <<msg, id0, frank, tally, net, count, heard, faulted>>
  BY DEF StartSend, locals
<1> QED BY <1>1, <1>2, <1>3 DEF DoSend

LEMMA TaskDoes ==
  ASSUME FlowInv, LocalInv, EdgeInv, NEW r \in Rank,
         \/ Program(r) \/ SendDone(r) \/ Attend(r)
         \/ \E q \in Rank : HearCaught(r, q)
         \/ MpExecIdle(r)
         \/ r = 0 /\ MpExec
  PROVE  Does(r)
<1> USE DEF FlowInv
<1>1. ASSUME NEW D \in SUBSET Rank, MpSend(r, D)
      PROVE  Does(r)
  <2>1. QueueShorter(r)
    BY <1>1 DEF MpSend, QueueShorter
  <2> QED BY <1>1, <2>1, StartSendDoes DEF MpSend, Does
<1>2. CASE Fault(r)
  <2> DEFINE m == IF quiet[r] THEN msg[r] ELSE Control(1, r, 0)
  <2>1. m \in Message /\ m.id \in {1, 2}
    <3>1. CASE quiet[r]
      BY <3>1 DEF TypeOK, LocalInv, LocalOf
    <3>2. CASE ~quiet[r]
      BY <3>2, ControlType, RankInt DEF Control
    <3> QED BY <3>1, <3>2
  <2>2. \E own, a : Begin(r, m, own, a)
    BY <1>2 DEF Fault
  <2>3. /\ phase[r] = "task" /\ faulted' = faulted \cup {r}
        /\ UNCHANGED <<chan, mpyNet, sends>>
    BY <1>2 DEF Fault
  <2> HIDE DEF m
  <2>4. Enters(r, m)
    BY <2>1, <2>2, <2>3, BeginEnters DEF Early
  <2>5. DoFault(r, m)
    BY <2>3, <2>4 DEF DoFault, m
  <2> QED BY <2>1, <2>5 DEF Does
<1>3. ASSUME NEW from \in Rank, MpRecv(r, from)
      PROVE  Does(r)
  <2>1. mpyQueue[r] # << >> /\ QueueShorter(r)
    BY <1>3, DequeueShorter DEF MpRecv
  <2>2. quiet'[r] = FALSE
    BY <1>3 DEF MpRecv, TypeOK
  <2> QED BY <1>3, <2>1, <2>2 DEF MpRecv, DoWork, Does, Early, locals
<1>4. CASE Finish(r)
  BY <1>4 DEF Finish, DoWork, Does, Early, locals, QueueShorter, TypeOK
<1>5. CASE SendDone(r)
  <2>1. ~quiet[r]
    BY <1>5 DEF SendDone, LocalInv, LocalOf
  <2> QED BY <1>5, <2>1 DEF SendDone, DoWork, Does, Early, locals, QueueShorter,
             TypeOK
<1>6. ASSUME NEW q \in Rank, Enqueue(r, q)
      PROVE  Does(r)
  <2>1. TakesData(r, q)
    BY <1>6, ReceivedTakes DEF Enqueue
  <2>2. mpyNet'[r] = mpyNet[r] - 1 /\ ~quiet'[r]
        /\ mpyQueue'[r] = Append(mpyQueue[r], q)
    BY <1>6 DEF Enqueue, TypeOK
  <2>3. DoQueue(r, q)
    BY <1>6, <2>1, <2>2 DEF Enqueue, DoQueue, locals
  <2> QED BY <2>3 DEF Does
<1>7. ASSUME NEW q \in Rank, HearControl(r, q)
      PROVE  Does(r)
  <2> DEFINE m == Head(chan[q][r])
  <2>1. HasControl(q, r) /\ phase[r] \in Early /\ Takes(r, q, m) /\ m \in Message
    BY <1>7, ReceivedTakes DEF HearControl, Early
  <2>2. m.id \in {1, 2}
    BY <2>1, HeadElement, EarlyMessage DEF HasControl
  <2>3. \E own, a : Begin(r, m, own, a)
    BY <1>7 DEF HearControl
  <2>4. UNCHANGED <<mpyNet, sends, faulted>>
    BY <1>7 DEF HearControl
  <2> HIDE DEF m
  <2>5. Enters(r, m)
    BY <2>1, <2>2, <2>3, <2>4, BeginEnters
  <2>6. DoHear(r, q, m)
    BY <2>1, <2>4, <2>5 DEF DoHear
  <2> QED BY <2>1, <2>6 DEF Does
<1>8. ASSUME NEW q \in Rank, HearCaught(r, q)
      PROVE  Does(r)
  <2> DEFINE m == Head(chan[q][r])
  <2>1. Takes(r, q, m) /\ m \in Message
    BY <1>8, ReceivedTakes DEF HearCaught
  <2>2. msg'[r] = m /\ quiet'[r]
    BY <1>8 DEF HearCaught, TypeOK
  <2>3. DoCatch(r, q, m)
    BY <1>8, <2>1, <2>2 DEF HearCaught, DoCatch, locals
  <2> QED BY <2>1, <2>3 DEF Does
<1>9. ASSUME NEW q \in Rank, SendInterrupted(r, q)
      PROVE  Does(r)
  <2>1. PICK i \in DOMAIN chan[q][r], a \in 0 .. Incomplete(r) :
          /\ chan[q][r][i] # Data
          /\ \A j \in 1 .. i - 1 : chan[q][r][j] = Data
          /\ chan' = [chan EXCEPT ![q][r] = RemoveAt(@, i)]
          /\ Begin(r, chan[q][r][i], FALSE, a)
    BY <1>9 DEF SendInterrupted
  <2> DEFINE m == chan[q][r][i]
  <2>2. m \in Message
    <3>1. chan[q][r] \in Seq(Message)
      BY DEF TypeOK
    <3> QED BY <3>1, ChanType
  <2>3. phase[r] \in Early /\ UNCHANGED <<mpyNet, sends, faulted>>
    BY <1>9 DEF SendInterrupted, Early
  <2>4. m.id \in {1, 2}
    BY <2>1, <2>3, EarlyMessage
  <2>5. Takes(r, q, m)
    <3>1. \A p, s \in Rank : chan'[p][s] =
            IF p = q /\ s = r THEN RemoveAt(chan[q][r], i) ELSE chan[p][s]
      <4>1. chan' = [chan EXCEPT ![q][r] = RemoveAt(@, i)]
        BY <2>1
      <4> QED BY <4>1 DEF TypeOK
    <3>2. Others(r, q) /\ chan'[q][r] = RemoveAt(chan[q][r], i)
      BY <3>1 DEF Others
    <3>3. TakesFirst(r, q, m)
      BY <2>1, <3>2 DEF TakesFirst
    <3> QED BY <2>1, <2>2, <3>2, <3>3 DEF Takes
  <2>6. Begin(r, m, FALSE, a)
    BY <2>1
  <2> HIDE DEF m
  <2>7. Enters(r, m)
    BY <2>2, <2>3, <2>4, <2>6, BeginEnters
  <2>8. DoHear(r, q, m)
    BY <2>3, <2>5, <2>7 DEF DoHear
  <2> QED BY <2>2, <2>8 DEF Does
<1>10. CASE MpExecIdle(r)
  <2>1. r # 0 /\ phase[r] = "idle" /\ mpyQueue[r] # << >> /\ QueueShorter(r)
    BY <1>10, DequeueShorter DEF MpExecIdle
  <2>2. CASE StartSend(r, Staff(r))
    <3>1. Staff(r) \in SUBSET Rank
      BY StaffSubset
    <3>2. DoSend(r, Staff(r))
      BY <2>1, <2>2, <3>1, StartSendDoes
    <3> QED BY <3>1, <3>2 DEF Does
  <2>3. CASE ~StartSend(r, Staff(r))
    <3>1. /\ phase' = [phase EXCEPT ![r] = "task"]
          /\ quiet' = [quiet EXCEPT ![r] = FALSE]
          /\ UNCHANGED <<chan, mpyNet, msg, locals, sends, faulted>>
      BY <1>10, <2>3 DEF MpExecIdle
    <3>2. phase'[r] = "task" /\ quiet'[r] = FALSE
      BY <3>1 DEF TypeOK
    <3>3. DoWork(r)
      BY <2>1, <3>1, <3>2 DEF DoWork, Early, locals
    <3> QED BY <3>3 DEF Does
  <2> QED BY <2>2, <2>3
<1>11. CASE r = 0 /\ MpExec
  <2>1. QueueShorter(r)
    BY <1>11 DEF MpExec, QueueShorter
  <2>2. Staff(r) \in SUBSET Rank
    BY StaffSubset
  <2>3. DoSend(r, Staff(r))
    BY <1>11, <2>1, <2>2, StartSendDoes DEF MpExec
  <2> QED BY <2>2, <2>3 DEF Does
<1> QED BY <1>1, <1>2, <1>3, <1>4, <1>5, <1>6, <1>7, <1>8, <1>9, <1>10, <1>11
       DEF Program, Attend

LEMMA SpreadDoes ==
  ASSUME TypeOK, NEW r \in Rank, NEW f, Spread(r, f),
         \/ r # 0 /\ phase[r] = "drain" /\ id0[r] # 1 /\ f = frank[r]
         \/ r = 0 /\ phase[r] = "drain" /\ id0[r] = 1 /\ f = msg[0].n1
         \/ phase[r] = "alertdrain" /\ f = frank[r]
  PROVE  Does(r)
<1>1. phase'[r] = "tally" /\ frank'[r] = f /\ net'[r] = 0
  BY DEF Spread, TypeOK
<1>2. DoSpread(r, f)
  BY <1>1 DEF Spread, DoSpread
<1>3. f \in Int
  <2>1. frank[r] \in Int
    BY DEF TypeOK
  <2>2. msg[0] \in Message
    BY ZeroRank DEF TypeOK
  <2>3. msg[0].n1 \in Int
    BY <2>2 DEF Message
  <2> QED BY <2>1, <2>3
<1> QED BY <1>2, <1>3 DEF Does

LEMMA PassClearedDoes ==
  ASSUME TypeOK, NEW r \in Rank, PassCleared(r),
         \/ r = 0 /\ phase[r] = "clear" /\ net[0] = 0
         \/ phase[r] = "clearing" /\ heard[r] = 5 /\ mpyNet[r] >= count[r]
  PROVE  Does(r)
<1>1. CASE \E reason : Die(reason)
  BY <1>1, DieIdles DEF Does
<1>2. CASE StaffSendsDone(r) /\ ~CannotFinish(r)
  <2>1. phase'[r] = "ack"
    BY <1>2 DEF PassCleared, TypeOK
  <2>2. DoPass(r)
    BY <1>2, <2>1 DEF PassCleared, DoPass, locals
  <2> QED BY <2>2 DEF Does
<1> QED BY <1>1, <1>2 DEF PassCleared

LEMMA ReceiptDoes ==
  ASSUME TypeOK, NEW r \in Rank, NEW q \in Rank,
         \/ Discard(r, q)
         \/ DrainControl(r, q)
         \/ AlertControl(r, q)
         \/ TallyControl(r, q)
         \/ ClearData(r, q)
         \/ ClearControl(r, q)
         \/ AckControl(r, q)
  PROVE  Does(r)
<1> DEFINE m == Head(chan[q][r])
<1>1. CASE \E reason : Die(reason)
  BY <1>1, DieIdles DEF Does
<1>2. CASE Discard(r, q)
  <2>1. TakesData(r, q)
    BY <1>2, ReceivedTakes DEF Discard
  <2>2. mpyNet'[r] = mpyNet[r] - 1
    BY <1>2 DEF Discard, TypeOK
  <2>3. DoThrow(r, q)
    BY <1>2, <2>1, <2>2 DEF Discard, DoThrow, locals
  <2> QED BY <2>3 DEF Does
<1>3. CASE ClearData(r, q)
  <2>1. TakesData(r, q)
    BY <1>3, ReceivedTakes DEF ClearData
  <2>2. mpyNet'[r] = mpyNet[r] - 1
    BY <1>3 DEF ClearData, TypeOK
  <2>3. phase'[r] = "clearing" /\ heard'[r] = Heard(r)
    BY <1>3 DEF ClearData, TypeOK
  <2>4. DoThrow(r, q)
    BY <1>3, <2>1, <2>2, <2>3 DEF ClearData, CanClear, DoThrow, Quiescing
  <2> QED BY <2>4 DEF Does
<1>4. CASE /\ HasControl(q, r) /\ chan' = Received(q, r)
           /\ msg' = [msg EXCEPT ![r] = m]
           /\ ~\E reason : Die(reason)
  <2>1. Takes(r, q, m) /\ TakesHead(r, q, m) /\ m \in Message
    BY <1>4, ReceivedTakes
  <2>2. msg'[r] = m
    BY <1>4 DEF TypeOK
  <2> HIDE DEF m
  <2>3. CASE DrainControl(r, q)
    <3>1. /\ phase[r] = "drain" /\ m.id \in {1, 2}
          /\ id0' = [id0 EXCEPT ![r] = IF @ < m.id THEN m.id ELSE @]
          /\ frank' = [frank EXCEPT ![r] = Verdict(r, m)]
          /\ UNCHANGED <<phase, mpyNet, mpyQueue, quiet, tally, net, count,
                         heard, sends, faulted>>
      BY <2>3, <1>4 DEF DrainControl, m
    <3>2. /\ id0'[r] = IF id0[r] < m.id THEN m.id ELSE id0[r]
          /\ frank'[r] = IF m.id = 2 THEN m.n1 ELSE frank[r]
      BY <3>1 DEF TypeOK, Verdict
    <3>3. DoDrain(r, q, m)
      BY <2>1, <2>2, <3>1, <3>2 DEF DoDrain
    <3> QED BY <2>1, <3>3 DEF Does
  <2>4. CASE AlertControl(r, q)
    <3>1. /\ phase[r] \in {"alert", "alertdrain"} /\ m.id \in {1, 2}
          /\ phase' = [phase EXCEPT ![r] = IF m.id = 2 THEN "alertdrain" ELSE @]
          /\ frank' = [frank EXCEPT ![r] = Verdict(r, m)]
          /\ UNCHANGED <<mpyNet, mpyQueue, quiet, id0, tally, net, count, heard,
                         sends, faulted>>
      BY <2>4, <1>4 DEF AlertControl, m
    <3>2. /\ phase'[r] = IF m.id = 2 THEN "alertdrain" ELSE phase[r]
          /\ frank'[r] = IF m.id = 2 THEN m.n1 ELSE frank[r]
      BY <3>1 DEF TypeOK, Verdict
    <3>3. DoListen(r, q, m)
      BY <2>1, <2>2, <3>1, <3>2 DEF DoListen
    <3> QED BY <2>1, <3>3 DEF Does
  <2>5. CASE TallyControl(r, q)
    <3>1. /\ phase[r] = "tally" /\ q \in Staff(r)
          /\ UNCHANGED <<phase, mpyNet, mpyQueue, quiet, id0, frank, count,
                         heard, sends, faulted>>
          /\ \/ /\ m.id = 3 /\ tally[r][q] = 0
                /\ tally' = [tally EXCEPT ![r][q] = 1]
                /\ net' = [net EXCEPT ![r] = @ + m.n1]
             \/ /\ m.id = 4 /\ tally[r][q] # 0 /\ tally' = tally
                /\ net' = [net EXCEPT ![r] = @ - m.n1]
      BY <2>5, <1>4 DEF TallyControl, m
    <3>2. CASE m.id = 3
      <4>1. tally'[r][q] = 1 /\ \A p \in Rank \ {q} : tally'[r][p] = tally[r][p]
        BY <3>1, <3>2 DEF TypeOK
      <4>2. net'[r] = net[r] + m.n1
        BY <3>1, <3>2 DEF TypeOK
      <4>3. DoTally(r, q, m)
        BY <2>1, <3>1, <3>2, <4>1, <4>2 DEF DoTally
      <4> QED BY <2>1, <4>3 DEF Does
    <3>3. CASE m.id = 4
      <4>1. net'[r] = net[r] - m.n1 /\ tally' = tally /\ tally[r][q] # 0
        BY <3>1, <3>3 DEF TypeOK
      <4>2. DoTally(r, q, m)
        BY <2>1, <3>1, <3>3, <4>1 DEF DoTally
      <4> QED BY <2>1, <4>2 DEF Does
    <3> QED BY <3>1, <3>2, <3>3
  <2>6. CASE ClearControl(r, q)
    <3>1. /\ CanClear(r) /\ m.id \in {4, 5}
          /\ heard' = [heard EXCEPT ![r] = m.id]
          /\ count' = [count EXCEPT ![r] = IF m.id = 4 THEN @ + m.n1 ELSE @]
          /\ phase' = [phase EXCEPT ![r] = "clearing"]
          /\ UNCHANGED <<mpyNet, mpyQueue, quiet, id0, frank, tally, net, sends,
                         faulted>>
      BY <2>6, <1>4 DEF ClearControl, m
    <3>2. /\ heard'[r] = m.id /\ phase'[r] = "clearing"
          /\ count'[r] = IF m.id = 4 THEN count[r] + m.n1 ELSE count[r]
      BY <3>1 DEF TypeOK
    <3>3. DoClear(r, q, m)
      BY <2>1, <2>2, <3>1, <3>2 DEF DoClear, CanClear, Quiescing
    <3> QED BY <2>1, <3>3 DEF Does
  <2>7. CASE AckControl(r, q)
    <3>1. /\ phase[r] = "ack" /\ q \in Staff(r) /\ m.id = 6 /\ ~(tally[r][q] >= 2)
          /\ tally' = [tally EXCEPT ![r][q] = @ + 1]
          /\ UNCHANGED <<phase, mpyNet, mpyQueue, quiet, id0, frank, net, count,
                         heard, sends, faulted>>
      BY <2>7, <1>4 DEF AckControl, m
    <3>2. /\ tally'[r][q] = tally[r][q] + 1
          /\ \A p \in Rank \ {q} : tally'[r][p] = tally[r][p]
      BY <3>1 DEF TypeOK
    <3>4. tally[r][q] < 2
      <4>1. tally[r][q] \in 0 .. 2
        BY DEF TypeOK
      <4> QED BY <3>1, <4>1
    <3>3. DoAck(r, q, m)
      BY <2>1, <3>1, <3>2, <3>4 DEF DoAck
    <3> QED BY <2>1, <3>3 DEF Does
  <2>8. CASE Discard(r, q) \/ ClearData(r, q)
    BY <1>2, <1>3, <2>8
  <2> QED BY <2>3, <2>4, <2>5, <2>6, <2>7, <2>8
<1> QED BY <1>1, <1>2, <1>3, <1>4
       DEF DrainControl, AlertControl, TallyControl, ClearControl, AckControl

LEMMA RecoverDoes ==
  ASSUME TypeOK, NEW r \in Rank, Recover(r) \/ (r = 0 /\ Complete)
  PROVE  Does(r)
<1>1. CASE \E reason : Die(reason)
  BY <1>1, DieIdles DEF Does
<1>2. CASE DrainEmpty(r)
  <2>1. CASE MustAlert(r)
    <3>1. phase'[r] = "alert" /\ chan' = Sent(chan, r, {Boss(r)}, msg[r])
      BY <1>2, <2>1 DEF DrainEmpty, TypeOK
    <3>2. DoAlert(r)
      BY <1>2, <2>1, <3>1 DEF DrainEmpty, DoAlert, MustAlert, locals
    <3> QED BY <3>2 DEF Does
  <2>2. CASE ~MustAlert(r)
    BY <1>1, <1>2, <2>2, SpreadDoes DEF DrainEmpty, MustAlert
  <2> QED BY <2>1, <2>2
<1>3. CASE AlertEmpty(r)
  BY <1>3, SpreadDoes DEF AlertEmpty
<1>4. CASE Report(r)
  <2>1. /\ phase'[r] = "clear" /\ net'[r] = net[r] + mpyNet[r]
        /\ count'[r] = mpyNet[r]
    BY <1>4 DEF Report, SubtreeNet, TypeOK
  <2>2. nid1[r] \in Nat
    BY DEF TypeOK
  <2>3. chan' = IF r = 0 THEN chan
                ELSE Sent(chan, r, {Boss(r)}, Control(3, net[r] + mpyNet[r], nid1[r]))
    BY <1>4 DEF Report, SubtreeNet
  <2>4. DoReport(r)
    BY <1>4, <2>1, <2>2, <2>3 DEF Report, DoReport
  <2> QED BY <2>4 DEF Does
<1>5. CASE ClearEmpty(r)
  <2>1. CASE heard[r] = 5
    BY <1>1, <1>5, <2>1, PassClearedDoes DEF ClearEmpty
  <2>2. CASE heard[r] # 5
    <3>1. phase'[r] = "clear"
      BY <1>5, <2>2 DEF ClearEmpty, TypeOK
    <3>2. DoPause(r)
      BY <1>5, <2>2, <3>1 DEF ClearEmpty, DoPause, locals
    <3> QED BY <3>2 DEF Does
  <2> QED BY <2>1, <2>2
<1>6. CASE ClearReport(r)
  <2>1. CASE heard[r] = 5
    BY <1>1, <1>6, <2>1 DEF ClearReport
  <2>2. CASE heard[r] # 5
    <3>1. /\ phase'[r] = "clear" /\ count'[r] = mpyNet[r]
          /\ net'[r] = net[r] - (count[r] - mpyNet[r])
      BY <1>6, <2>2 DEF ClearReport, Dropped, TypeOK
    <3>2. DoCount(r)
      BY <1>6, <2>2, <3>1 DEF ClearReport, DoCount, Dropped
    <3> QED BY <3>2 DEF Does
  <2> QED BY <2>1, <2>2
<1>7. CASE Acknowledge(r)
  <2>1. phase'[r] = "leaving"
    BY <1>7 DEF Acknowledge, TypeOK
  <2>2. DoReturn(r)
    BY <1>7, <2>1 DEF Acknowledge, DoReturn, locals
  <2> QED BY <2>2 DEF Does
<1>8. CASE Leave(r)
  <2>1. CASE StaffSendsDone(r)
    <3>1. /\ phase' = [phase EXCEPT ![r] = "idle"]
          /\ tally' = [tally EXCEPT ![r] = [q \in Rank |-> 0]]
          /\ msg' = [msg EXCEPT ![r] = Data]
          /\ faulted' = IF r = 0 THEN {} ELSE faulted
          /\ UNCHANGED <<chan, mpyNet, mpyQueue, quiet, frank, sends>>
      BY <1>8, <2>1 DEF Leave
    <3>2. phase'[r] = "idle" /\ msg'[r] = Data
      BY <3>1 DEF TypeOK
    <3>3. \A p \in Rank : tally'[r][p] = 0
      BY <3>1 DEF TypeOK
    <3>4. DoLeave(r)
      BY <1>8, <3>1, <3>2, <3>3 DEF Leave, DoLeave
    <3> QED BY <3>4 DEF Does
  <2>2. CASE ~StaffSendsDone(r)
    BY <1>1, <1>8, <2>2 DEF Leave
  <2> QED BY <2>1, <2>2
<1>9. CASE r = 0 /\ Complete
  BY <1>1, <1>9, PassClearedDoes DEF Complete, NoneOutstanding
<1>10. ASSUME NEW q \in Rank,
              \/ Discard(r, q) \/ DrainControl(r, q) \/ AlertControl(r, q)
              \/ TallyControl(r, q) \/ ClearData(r, q) \/ ClearControl(r, q)
              \/ AckControl(r, q)
       PROVE  Does(r)
  BY <1>10, ReceiptDoes
<1> QED BY <1>1, <1>2, <1>3, <1>4, <1>5, <1>6, <1>7, <1>8, <1>9, <1>10
       DEF Recover, Recovering

LEMMA StepDoes ==
  ASSUME FlowInv, LocalInv, EdgeInv, NEW r \in Rank, Acts(r)
  PROVE  Does(r) /\ Alone(r)
<1>1. TypeOK
  BY DEF FlowInv
<1> QED BY <1>1, TaskDoes, RecoverDoes, ActsAlone DEF Acts, Step
-----------------------------------------------------------------------------
(* What each rank keeps to itself.                                         *)

LEMMA TakesElement ==
  ASSUME TypeOK, NEW r \in Rank, NEW q \in Rank, NEW m, Takes(r, q, m)
  PROVE  \E i \in DOMAIN chan[q][r] : chan[q][r][i] = m
<1>1. CASE TakesHead(r, q, m)
  BY <1>1, HeadElement DEF TakesHead, Has
<1>2. CASE TakesFirst(r, q, m)
  BY <1>2 DEF TakesFirst
<1> QED BY <1>1, <1>2 DEF Takes

LEMMA EarlyTakes ==
  ASSUME FlowInv, EdgeInv, NEW r \in Rank, NEW q \in Rank, NEW m,
         Takes(r, q, m),
         phase[r] \in Early \cup {"drain", "alert", "alertdrain"}
  PROVE  \/ m.id = 1 /\ q \in Staff(r) /\ q # 0 /\ r = Boss(q) /\ Apart(q, r)
         \/ m.id = 2 /\ r # 0 /\ q = Boss(r) /\ Told(r, q)
<1>1. PICK i \in DOMAIN chan[q][r] : chan[q][r][i] = m
  BY TakesElement DEF FlowInv
<1>2. chan[q][r][i] # Data
  BY <1>1 DEF Takes
<1> QED BY <1>1, <1>2, EarlyMessage

\* Messages drained by, or sent to the fault handler of, rank 0 are alerts.
LEMMA EnterMessage ==
  ASSUME FlowInv, LocalInv, EdgeInv, NEW r \in Rank, NEW m,
         DoFault(r, m) \/ \E q \in Rank : DoHear(r, q, m)
  PROVE  Enters(r, m) /\ (r = 0 => m.id = 1)
<1>1. ASSUME NEW q \in Rank, DoHear(r, q, m)
      PROVE  Enters(r, m) /\ (r = 0 => m.id = 1)
  <2>1. Enters(r, m) /\ Takes(r, q, m) /\ phase[r] \in Early
    BY <1>1 DEF DoHear, Enters
  <2> QED BY <2>1, EarlyTakes
<1>2. CASE DoFault(r, m)
  <2>1. Enters(r, m)
    BY <1>2 DEF DoFault
  <2>2. CASE quiet[r]
    BY <1>2, <2>1, <2>2 DEF DoFault, LocalInv, RootLocal
  <2>3. CASE ~quiet[r]
    BY <1>2, <2>1, <2>3 DEF DoFault, Control
  <2> QED BY <2>1, <2>2, <2>3
<1> QED BY <1>1, <1>2

\* A control message for a rank that quiesces comes from its staff (id=4) or
\* from its boss (id=5).
LEMMA ClearMessage ==
  ASSUME FlowInv, NEW r \in Rank, NEW q \in Rank, NEW m, DoClear(r, q, m)
  PROVE  \/ m.id = 4 /\ q \in Staff(r)
         \/ m.id = 5 /\ r # 0 /\ q = Boss(r)
<1>1. PICK i \in DOMAIN chan[q][r] : chan[q][r][i] = m
  BY TakesElement DEF FlowInv, DoClear
<1>2. m \in OnEdge(q, r)
  <2>1. chan[q][r] \in Seq(OnEdge(q, r))
    BY DEF FlowInv, ControlFollowsTree
  <2> QED BY <1>1, <2>1, LenProperties, ElementOfSeq
<1> QED BY <1>2, DataId, StaffInvertsBoss DEF DoClear, OnEdge, Reports, Orders

LEMMA LocalStep ==
  ASSUME FlowInv, LocalInv, EdgeInv, CreditInv, NEW r \in Rank, Does(r), Alone(r)
  PROVE  LocalInv'
<1>0. TypeOK /\ LocalOf(r) /\ RootLocal /\ 0 \in Rank
  BY ZeroRank DEF FlowInv, LocalInv
<1> SUFFICES LocalOf(r)' /\ (r = 0 => RootLocal')
  <2>1. ASSUME NEW p \in Rank \ {r}
        PROVE  LocalOf(p)'
    <3>1. Same(p) /\ LocalOf(p)
      BY DEF Alone, LocalInv
    <3> QED BY <3>1 DEF Same, LocalOf
  <2>2. r # 0 => RootLocal'
    <3>1. r # 0 => Same(0)
      BY ZeroRank DEF Alone
    <3> QED BY <1>0, <3>1 DEF Same, RootLocal
  <2> QED BY <2>1, <2>2 DEF LocalInv
<1> USE DEF LocalOf, RootLocal, Halting, Early
<1>1. CASE Idles
  BY <1>0, <1>1 DEF Idles
<1>2. ASSUME NEW D \in SUBSET Rank, DoSend(r, D)
      PROVE  LocalOf(r)' /\ (r = 0 => RootLocal')
  BY <1>0, <1>2 DEF DoSend
<1>3. CASE DoWork(r)
  BY <1>0, <1>3 DEF DoWork
<1>4. ASSUME NEW q \in Rank, DoQueue(r, q)
      PROVE  LocalOf(r)' /\ (r = 0 => RootLocal')
  BY <1>0, <1>4 DEF DoQueue
<1>5. ASSUME NEW q \in Rank, NEW m \in Message, DoCatch(r, q, m)
      PROVE  LocalOf(r)' /\ (r = 0 => RootLocal')
  <2>1. m.id \in {1, 2} /\ (r = 0 => m.id = 1)
    BY <1>5, EarlyTakes DEF DoCatch
  <2> QED BY <1>0, <1>5, <2>1 DEF DoCatch
<1>6. ASSUME NEW m \in Message, DoFault(r, m) \/ \E q \in Rank : DoHear(r, q, m)
      PROVE  LocalOf(r)' /\ (r = 0 => RootLocal')
  <2>1. Enters(r, m) /\ (r = 0 => m.id = 1)
    BY <1>6, EnterMessage
  <2> QED BY <1>0, <2>1 DEF Enters
<1>7. ASSUME NEW q \in Rank, DoThrow(r, q)
      PROVE  LocalOf(r)' /\ (r = 0 => RootLocal')
  <2>1. mpyNet[r] \in Int /\ count[r] \in Int
    BY <1>0 DEF TypeOK
  <2>2. mpyNet'[r] = mpyNet[r] - 1 /\ count'[r] = count[r]
    BY <1>7 DEF DoThrow
  <2>3. phase'[r] = "clearing" => mpyNet'[r] <= count'[r]
    BY <1>0, <1>7, <2>1, <2>2 DEF DoThrow, Quiescing
  <2>4. phase'[r] # "clear"
    BY <1>7 DEF DoThrow, Quiescing
  <2>5. r = 0 /\ phase'[r] = "clearing" => heard'[r] = 4
    BY <1>0, <1>7 DEF DoThrow, Quiescing, Heard
  <2> QED BY <1>0, <1>7, <2>3, <2>4, <2>5 DEF DoThrow, Quiescing
<1>8. ASSUME NEW q \in Rank, NEW m \in Message, DoDrain(r, q, m) \/ DoListen(r, q, m)
      PROVE  LocalOf(r)' /\ (r = 0 => RootLocal')
  <2>1. r = 0 => m.id = 1
    BY <1>8, EarlyTakes DEF DoDrain, DoListen
  <2> QED BY <1>0, <1>8, <2>1 DEF DoDrain, DoListen
<1>9. CASE DoAlert(r)
  BY <1>0, <1>9 DEF DoAlert
<1>10. ASSUME NEW f \in Int, DoSpread(r, f)
       PROVE  LocalOf(r)' /\ (r = 0 => RootLocal')
  BY <1>0, <1>10 DEF DoSpread
<1>11. ASSUME NEW q \in Rank, NEW m \in Message, DoTally(r, q, m)
       PROVE  LocalOf(r)' /\ (r = 0 => RootLocal')
  BY <1>0, <1>11 DEF DoTally
<1>12. CASE DoReport(r)
  BY <1>0, <1>12 DEF DoReport
<1>13. ASSUME NEW q \in Rank, NEW m \in Message, DoClear(r, q, m)
       PROVE  LocalOf(r)' /\ (r = 0 => RootLocal')
  <2>1. mpyNet[r] \in Int /\ count[r] \in Int /\ m.n1 \in Int
    BY <1>0 DEF TypeOK, Message
  <2>2. m.id = 4 => m.n1 >= 1
    <3>1. \E i \in DOMAIN chan[q][r] : chan[q][r][i] = m
      BY <1>0, <1>13, TakesElement DEF DoClear
    <3> QED BY <3>1 DEF CreditInv
  <2>3. count'[r] >= count[r]
    BY <1>13, <2>1, <2>2 DEF DoClear
  <2>4. mpyNet[r] <= count[r] /\ mpyNet'[r] = mpyNet[r] /\ count'[r] \in Int
    BY <1>0, <1>13, <2>1 DEF DoClear, Quiescing
  <2>5. mpyNet'[r] <= count'[r]
    BY <2>1, <2>3, <2>4
  <2>6. r = 0 => heard'[r] = 4
    BY <1>13, ClearMessage DEF DoClear
  <2> QED BY <1>0, <1>13, <2>5, <2>6 DEF DoClear, Quiescing
<1>14. CASE DoPause(r)
  <2>1. mpyNet[r] \in Int /\ count[r] \in Int
    BY <1>0 DEF TypeOK
  <2>2. mpyNet[r] = count[r]
    BY <1>0, <1>14, <2>1 DEF DoPause
  <2> QED BY <1>0, <1>14, <2>2 DEF DoPause
<1>15. CASE DoCount(r)
  BY <1>0, <1>15 DEF DoCount
<1>16. CASE DoPass(r)
  BY <1>0, <1>16 DEF DoPass
<1>17. ASSUME NEW q \in Rank, NEW m \in Message, DoAck(r, q, m)
       PROVE  LocalOf(r)' /\ (r = 0 => RootLocal')
  BY <1>0, <1>17 DEF DoAck
<1>18. CASE DoReturn(r)
  BY <1>0, <1>18 DEF DoReturn
<1>19. CASE DoLeave(r)
  BY <1>0, <1>19 DEF DoLeave
<1> QED BY <1>1, <1>2, <1>3, <1>4, <1>5, <1>6, <1>7, <1>8, <1>9, <1>10, <1>11,
           <1>12, <1>13, <1>14, <1>15, <1>16, <1>17, <1>18, <1>19 DEF Does
-----------------------------------------------------------------------------
(* From a boss to its staff, from rank 0 to every rank.                    *)

LEMMA BossRank ==
  ASSUME NEW s \in Rank, s # 0
  PROVE  /\ Boss(s) \in Rank /\ Boss(s) < s /\ s \in Staff(Boss(s))
         /\ Boss(s) \notin Staff(s)
<1> DEFINE b == Boss(s)
<1>1. b \in Rank /\ b < s /\ s \in Staff(b)
  BY BossIsLower, StaffInvertsBoss
<1>2. ASSUME b \in Staff(s)
      PROVE  FALSE
  <2>1. b # 0 /\ s = Boss(b)
    BY <1>1, <1>2, StaffInvertsBoss
  <2>2. s < b
    BY <1>1, <2>1, BossIsLower
  <2> QED BY <1>1, <2>2, RankInt
<1> QED BY <1>1, <1>2

LEMMA TreeInduction ==
  ASSUME NEW P, 0 \in P,
         \A s \in Rank \ {0} : Boss(s) \in P => s \in P
  PROVE  \A s \in Rank : s \in P
<1> DEFINE Bad == Rank \ P
           R == OpToRel(<, Nat)
<1> SUFFICES ASSUME Bad # {}
             PROVE  FALSE
  OBVIOUS
<1>1. IsWellFoundedOn(R, Nat)
  BY NatLessThanWellFounded
<1>2. Bad \subseteq Nat
  BY SizeAssumption DEF Rank
<1>3. PICK s \in Bad : \A q \in Bad : <<q, s>> \notin R
  <2> HIDE DEF Bad, R
  <2> QED BY <1>1, <1>2, WFMin
<1>4. s \in Rank /\ s # 0 /\ s \notin P
  OBVIOUS
<1>5. Boss(s) \in Bad /\ Boss(s) < s
  BY <1>4, BossRank
<1>6. <<Boss(s), s>> \in R
  BY <1>2, <1>5 DEF OpToRel
<1> QED BY <1>3, <1>5, <1>6

Judging == {"tally"} \cup Quiescing \cup {"ack"}

LEMMA RootAck ==
  ASSUME EdgeInv, NEW r \in Rank, phase[r] = "ack"
  PROVE  phase[0] = "ack"
<1> DEFINE P == {p \in Rank : phase[p] # "ack"}
<1> SUFFICES ASSUME phase[0] # "ack"
             PROVE  FALSE
  OBVIOUS
<1>1. ASSUME NEW s \in Rank \ {0}, Boss(s) \in P
      PROVE  s \in P
  <2>1. EdgeOf(s, Boss(s))
    BY DEF EdgeInv
  <2> QED BY <1>1, <2>1 DEF EdgeOf, Apart, Told, Aware, Reporting, Counting,
             Clearing, Outside, Working, Quiescing
<1>2. 0 \in P
  BY ZeroRank
<1> HIDE DEF P
<1>3. r \in P
  BY <1>1, <1>2, TreeInduction
<1> QED BY <1>3 DEF P

LEMMA RootJudging ==
  ASSUME EdgeInv, NEW r \in Rank, phase[r] \in Judging
  PROVE  phase[0] \in Judging
<1> DEFINE P == {p \in Rank : phase[p] \notin Judging}
<1> SUFFICES ASSUME phase[0] \notin Judging
             PROVE  FALSE
  OBVIOUS
<1>1. ASSUME NEW s \in Rank \ {0}, Boss(s) \in P
      PROVE  s \in P
  <2>1. EdgeOf(s, Boss(s))
    BY DEF EdgeInv
  <2> QED BY <1>1, <2>1 DEF EdgeOf, Apart, Told, Aware, Reporting, Counting,
             Clearing, Outside, Working, Quiescing, Judging
<1>2. 0 \in P
  BY ZeroRank
<1> HIDE DEF P
<1>3. r \in P
  BY <1>1, <1>2, TreeInduction
<1> QED BY <1>3 DEF P

LEMMA AllQuiescing ==
  ASSUME EdgeInv, phase[0] \in Quiescing
  PROVE  /\ \A r \in Rank : phase[r] \in Quiescing
         /\ \A s \in Rank \ {0} : Counting(s, Boss(s))
<1> DEFINE P == {p \in Rank : phase[p] \in Quiescing}
<1>1. ASSUME NEW s \in Rank \ {0}, Boss(s) \in P
      PROVE  s \in P /\ Counting(s, Boss(s))
  <2>1. EdgeOf(s, Boss(s))
    BY DEF EdgeInv
  <2> QED BY <1>1, <2>1 DEF EdgeOf, Apart, Told, Aware, Reporting, Counting,
             Clearing, Outside, Working, Quiescing
<1>2. 0 \in P
  BY ZeroRank
<1>3. \A s \in Rank : s \in P
  <2> HIDE DEF P
  <2> QED BY <1>1, <1>2, TreeInduction
<1>4. \A s \in Rank \ {0} : Boss(s) \in P
  BY <1>3, BossRank
<1> QED BY <1>1, <1>3, <1>4

\* All ranks that know the verdict know the same.
LEMMA OneFrank ==
  ASSUME EdgeInv, FrankInv, NEW r \in Rank, phase[r] \in Judging
  PROVE  frank[r] = frank[0]
<1> DEFINE P == {p \in Rank : phase[p] \in Judging => frank[p] = frank[0]}
<1>1. ASSUME NEW s \in Rank \ {0}, Boss(s) \in P
      PROVE  s \in P
  <2>1. EdgeOf(s, Boss(s)) /\ FrankOf(s, Boss(s))
    BY DEF EdgeInv, FrankInv
  <2>2. phase[s] \in Judging => phase[Boss(s)] \in Judging
    BY <2>1 DEF EdgeOf, Apart, Told, Aware, Reporting, Counting, Clearing,
                Outside, Working, Quiescing, Judging
  <2>3. phase[s] \in Judging => frank[s] = frank[Boss(s)]
    BY <2>1 DEF FrankOf, Judged, Judging, Quiescing
  <2> QED BY <1>1, <2>2, <2>3
<1>2. 0 \in P
  BY ZeroRank
<1> HIDE DEF P
<1>3. r \in P
  BY <1>1, <1>2, TreeInduction
<1> QED BY <1>3 DEF P

\* When rank 0 leaves, every channel is empty and every rank has left.
LEMMA AllLeft ==
  ASSUME FlowInv, EdgeInv, WaveInv, phase[0] = "leaving"
  PROVE  /\ \A r \in Rank : phase[r] \in {"leaving", "idle"}
         /\ \A q, r \in Rank : chan[q][r] = << >>
<1> DEFINE P == {p \in Rank : phase[p] \in {"leaving", "idle"}}
<1>1. \A r \in Rank : phase[r] \in {"leaving", "idle"}
  <2>1. ASSUME NEW s \in Rank \ {0}, Boss(s) \in P
        PROVE  s \in P
    BY <2>1 DEF WaveInv
  <2>2. 0 \in P
    BY ZeroRank
  <2>3. \A s \in Rank : s \in P
    <3> HIDE DEF P
    <3> QED BY <2>1, <2>2, TreeInduction
  <2> QED BY <2>3
<1>2. \A q, r \in Rank : chan[q][r] \in Seq(Message)
  BY DEF FlowInv, TypeOK
<1>3. \A q, r \in Rank : \A i \in DOMAIN chan[q][r] : chan[q][r][i].id \in {5, 6}
  BY DEF WaveInv
<1>4. ASSUME NEW s \in Rank \ {0}
      PROVE  chan[s][Boss(s)] = << >> /\ chan[Boss(s)][s] = << >>
  <2> DEFINE b == Boss(s)
  <2>1. b \in Rank /\ phase[b] \in {"leaving", "idle"}
    BY <1>1, BossRank
  <2>2. EdgeOf(s, b)
    BY DEF EdgeInv
  <2> HIDE DEF b
  <2>3. Apart(s, b)
    BY <2>1, <2>2 DEF EdgeOf, Told, Aware, Reporting, Counting, Clearing,
                      Quiescing
  <2>4. ASSUME NEW c \in Seq(Message), \A i \in DOMAIN c : c[i].id \in {5, 6},
               MaybeAlert(c)
        PROVE  c = << >>
    BY <2>4, ChanType, DataId DEF MaybeAlert
  <2>5. MaybeAlert(chan[s][b]) /\ MaybeAlert(chan[b][s])
    BY <2>3, PlainMaybeAlert DEF Apart
  <2>6. chan[s][b] = << >> /\ chan[b][s] = << >>
    BY <1>2, <1>3, <2>1, <2>4, <2>5
  <2> QED BY <2>6 DEF b
<1>5. ASSUME NEW q \in Rank, NEW r \in Rank
      PROVE  chan[q][r] = << >>
  <2>1. CASE q \in Staff(r) \/ r \in Staff(q)
    BY <1>4, <2>1, StaffInvertsBoss
  <2>2. CASE q \notin Staff(r) /\ r \notin Staff(q)
    <3>1. chan[q][r] \in Seq(OnEdge(q, r))
      BY DEF FlowInv, ControlFollowsTree
    <3>2. \A i \in 1 .. Len(chan[q][r]) : chan[q][r][i] = Data
      BY <2>2, <3>1, ElementOfSeq DEF OnEdge
    <3> DEFINE c == chan[q][r]
    <3>3. c \in Seq(Message) /\ \A i \in DOMAIN c : c[i].id \in {5, 6}
      BY <1>2, <1>3
    <3> HIDE DEF c
    <3>4. Len(c) \in Nat /\ DOMAIN c = 1 .. Len(c) /\ (c = << >> <=> Len(c) = 0)
      BY <3>3, ChanType
    <3>5. ASSUME Len(c) # 0
          PROVE  FALSE
      <4>1. 1 \in DOMAIN c
        BY <3>4, <3>5
      <4>2. c[1] = Data
        BY <3>2, <3>4, <4>1 DEF c
      <4> QED BY <3>3, <4>1, <4>2, DataId
    <3> QED BY <3>4, <3>5 DEF c
  <2> QED BY <2>1, <2>2
<1> QED BY <1>1, <1>5
-----------------------------------------------------------------------------
(* An edge of the tree, when one of its ends takes a step.                 *)

LEMMA TakesDataChan ==
  ASSUME TypeOK, NEW r \in Rank, NEW q \in Rank, TakesData(r, q)
  PROVE  /\ Plain(chan[q][r]) => Plain(chan'[q][r])
         /\ MaybeAlert(chan[q][r]) => MaybeAlert(chan'[q][r])
         /\ WithVerdict(chan[q][r]) => WithVerdict(chan'[q][r])
         /\ WithReport(chan[q][r]) => WithReport(chan'[q][r])
         /\ ~Counts(chan[q][r])
         /\ ~Only(chan[q][r], 5) /\ ~Only(chan[q][r], 6)
         /\ chan[q][r] # << >>
<1>1. chan[q][r] \in Seq(Message)
  BY DEF TypeOK
<1> QED BY <1>1, TailData DEF TakesData

LEMMA TakesHeadChan ==
  ASSUME TypeOK, NEW r \in Rank, NEW q \in Rank, NEW m, m # Data,
         TakesHead(r, q, m)
  PROVE  /\ ~Plain(chan[q][r]) /\ chan[q][r] # << >>
         /\ MaybeAlert(chan[q][r]) => m.id = 1 /\ chan'[q][r] = << >>
         /\ WithVerdict(chan[q][r]) => m.id = 2 /\ chan'[q][r] = << >>
         /\ WithReport(chan[q][r]) => \/ m.id = 1 /\ WithReport(chan'[q][r])
                                      \/ m.id = 3 /\ Counts(chan'[q][r])
         /\ Counts(chan[q][r]) => m.id = 4 /\ Counts(chan'[q][r])
         /\ \A id : Only(chan[q][r], id) => m.id = id /\ chan'[q][r] = << >>
<1>1. chan[q][r] \in Seq(Message)
  BY DEF TypeOK
<1> QED BY <1>1, TailControl DEF TakesHead

LEMMA TakesChan ==
  ASSUME TypeOK, NEW r \in Rank, NEW q \in Rank, NEW m, Takes(r, q, m)
  PROVE  /\ ~Plain(chan[q][r])
         /\ MaybeAlert(chan[q][r]) => m.id = 1 /\ Plain(chan'[q][r])
         /\ WithVerdict(chan[q][r]) => m.id = 2 /\ Plain(chan'[q][r])
<1>1. chan[q][r] \in Seq(Message) /\ m # Data
  BY DEF TypeOK, Takes
<1>2. CASE TakesHead(r, q, m)
  BY <1>1, <1>2, TakesHeadChan, EmptyChan
<1>3. CASE TakesFirst(r, q, m)
  <2>1. PICK i \in DOMAIN chan[q][r] :
          /\ chan[q][r][i] = m
          /\ \A j \in 1 .. i - 1 : chan[q][r][j] = Data
          /\ chan'[q][r] = RemoveAt(chan[q][r], i)
    BY <1>3 DEF TakesFirst
  <2> QED BY <1>1, <2>1, RemoveControl
<1> QED BY <1>2, <1>3 DEF Takes

LEMMA SentUp ==
  ASSUME TypeOK, NEW s \in Rank, s # 0, NEW m \in Message,
         chan' = Sent(chan, s, {Boss(s)}, m)
  PROVE  /\ chan'[s][Boss(s)] = Append(chan[s][Boss(s)], m)
         /\ chan'[Boss(s)][s] = chan[Boss(s)][s]
         /\ \A q \in Staff(s) : /\ chan'[s][q] = chan[s][q]
                                /\ chan'[q][s] = chan[q][s]
<1>1. \A p, q \in Rank : chan'[p][q] =
        IF p = s /\ q \in {Boss(s)} THEN Append(chan[s][q], m) ELSE chan[p][q]
  BY SentAt
<1>2. Boss(s) \in Rank /\ Boss(s) # s /\ Boss(s) \notin Staff(s)
  BY BossRank, RankInt
<1>3. \A q \in Staff(s) : q \in Rank /\ q # s
  BY StaffSubset, StaffInvertsBoss, BossRank, RankInt
<1> QED BY <1>1, <1>2, <1>3

LEMMA SentDown ==
  ASSUME TypeOK, NEW b \in Rank, NEW m \in Message,
         chan' = Sent(chan, b, Staff(b), m)
  PROVE  /\ \A s \in Staff(b) : /\ chan'[b][s] = Append(chan[b][s], m)
                                /\ chan'[s][b] = chan[s][b]
         /\ b # 0 => /\ chan'[b][Boss(b)] = chan[b][Boss(b)]
                     /\ chan'[Boss(b)][b] = chan[Boss(b)][b]
<1>1. \A p, q \in Rank : chan'[p][q] =
        IF p = b /\ q \in Staff(b) THEN Append(chan[b][q], m) ELSE chan[p][q]
  BY SentAt
<1>2. b # 0 => Boss(b) \in Rank /\ Boss(b) # b /\ Boss(b) \notin Staff(b)
  BY BossRank, RankInt
<1>3. \A s \in Staff(b) : s \in Rank /\ s # b
  BY StaffSubset, StaffInvertsBoss, BossRank, RankInt
<1> QED BY <1>1, <1>2, <1>3

\* No channel holds data, alerts, verdicts or counts.
Hushed ==
  \A q, r \in Rank : \A i \in DOMAIN chan[q][r] : chan[q][r][i].id \in {5, 6}

LEMMA HushedChan ==
  ASSUME TypeOK, Hushed, NEW q \in Rank, NEW r \in Rank,
         Counts(chan[q][r]) \/ Plain(chan[q][r])
  PROVE  chan[q][r] = << >>
<1>1. chan[q][r] \in Seq(Message)
  BY DEF TypeOK
<1>2. \A i \in DOMAIN chan[q][r] : chan[q][r][i].id \in {5, 6}
  BY DEF Hushed
<1> DEFINE c == chan[q][r]
<1>3. c \in Seq(Message) /\ \A i \in DOMAIN c : c[i].id \in {5, 6}
  BY <1>1, <1>2
<1>4. Counts(c) \/ Plain(c)
  OBVIOUS
<1> HIDE DEF c
<1>5. DOMAIN c = {}
  BY <1>3, <1>4, DataId DEF Counts, Plain
<1>6. Len(c) \in Nat /\ DOMAIN c = 1 .. Len(c) /\ (c = << >> <=> Len(c) = 0)
  BY <1>3, ChanType
<1>7. c = << >>
  BY <1>5, <1>6
<1> QED BY <1>7 DEF c

\* During the wave of id=5 and id=6 there is nothing else to do.
LEMMA WaveDoes ==
  ASSUME FlowInv, LocalInv, EdgeInv, WaveInv, phase[0] \in {"ack", "leaving"},
         NEW r \in Rank, Does(r)
  PROVE  /\ \/ Idles
            \/ \E q \in Rank, m \in Message : DoClear(r, q, m) /\ m.id = 5
            \/ DoPause(r)
            \/ DoPass(r)
            \/ \E q \in Rank, m \in Message : DoAck(r, q, m)
            \/ DoReturn(r)
            \/ DoLeave(r)
         /\ ~\E D \in SUBSET Rank : DoSend(r, D)
         /\ ~\E f \in Int : DoSpread(r, f)
         /\ ~DoAlert(r) /\ ~DoReport(r) /\ ~DoCount(r)
<1>1. /\ TypeOK
      /\ phase[r] \in {"clear", "clearing", "ack", "leaving", "idle"}
      /\ phase[0] # "idle"
      /\ mpyQueue[r] = << >> /\ ~quiet[r] /\ Unreported(r) = 0
  BY DEF FlowInv, WaveInv, Stopped
<1>2. ASSUME NEW q \in Rank, NEW m, Takes(r, q, m)
      PROVE  m.id \in {5, 6}
  BY <1>1, <1>2, TakesElement DEF WaveInv
<1>3. ASSUME NEW q \in Rank, TakesData(r, q)
      PROVE  FALSE
  BY <1>1, <1>3, HeadElement, DataId DEF TakesData, Has, WaveInv
<1>4. ~\E D \in SUBSET Rank : DoSend(r, D)
  BY <1>1 DEF DoSend
<1>5. ~DoWork(r)
  BY <1>1 DEF DoWork, Early
<1>6. ASSUME NEW q \in Rank, NEW m \in Message
      PROVE  /\ ~DoCatch(r, q, m) /\ ~DoFault(r, m) /\ ~DoHear(r, q, m)
             /\ ~DoDrain(r, q, m) /\ ~DoListen(r, q, m) /\ ~DoTally(r, q, m)
  BY <1>1, <1>2 DEF DoCatch, DoFault, DoHear, Enters, DoDrain, DoListen, DoTally
<1>7. ASSUME NEW q \in Rank
      PROVE  ~DoQueue(r, q) /\ ~DoThrow(r, q)
  BY <1>3 DEF DoQueue, DoThrow
<1>8. ~DoAlert(r) /\ ~DoReport(r) /\ \A f \in Int : ~DoSpread(r, f)
  BY <1>1 DEF DoAlert, DoReport, DoSpread
<1>9. ~DoCount(r)
  <2>1. mpyNet[r] \in Int /\ count[r] \in Int
    BY <1>1 DEF TypeOK
  <2> QED BY <1>1, <2>1 DEF DoCount, Unreported
<1>10. ASSUME NEW q \in Rank, NEW m \in Message, DoClear(r, q, m)
       PROVE  m.id = 5
  BY <1>2, <1>10 DEF DoClear
<1> QED BY <1>4, <1>5, <1>6, <1>7, <1>8, <1>9, <1>10 DEF Does

\* The staff end of an edge, outside the wave ...
LEMMA EdgeStaff ==
  ASSUME FlowInv, LocalInv, EdgeInv, NEW s \in Rank, s # 0, Does(s), Alone(s),
         ~Clearing(s, Boss(s))
  PROVE  EdgeOf(s, Boss(s))'
<1> DEFINE b == Boss(s)
<1>0. /\ TypeOK /\ EdgeOf(s, b) /\ LocalOf(s) /\ ~Clearing(s, b)
      /\ b \in Rank /\ b # s /\ b \notin Staff(s) /\ Same(b)
  BY BossRank, RankInt DEF FlowInv, LocalInv, EdgeInv, Alone
<1>t. /\ phase[s] \in {"task", "sending", "idle", "drain", "alert", "alertdrain",
                       "tally", "clear", "clearing", "ack", "leaving"}
      /\ chan[s][b] \in Seq(Message) /\ chan[b][s] \in Seq(Message)
  <2>1. chan[s][b] \in Seq(Message) /\ chan[b][s] \in Seq(Message)
    BY <1>0 DEF TypeOK
  <2> QED BY <1>0, <2>1, Phases
<1>b. phase'[b] = phase[b] /\ tally'[b][s] = tally[b][s]
  BY <1>0 DEF Same
<1>e. Apart(s, b) \/ Told(s, b) \/ Aware(s, b) \/ Reporting(s, b)
        \/ Counting(s, b)
  BY <1>0 DEF EdgeOf
<1>f. ASSUME NEW q \in Rank, NEW m, Takes(s, q, m),
             phase[s] \in Early \cup {"drain", "alert", "alertdrain"}
      PROVE  (q # b /\ m.id = 1) \/ (q = b /\ m.id = 2 /\ Told(s, b))
  <2>1. \/ m.id = 1 /\ q \in Staff(s)
        \/ m.id = 2 /\ q = b /\ Told(s, q)
    BY <1>f, EarlyTakes
  <2> QED BY <1>0, <2>1
<1> HIDE DEF b
<1> USE DEF Outside, Silent, Working, Quiescing, HasVerdict, Early
<1> SUFFICES EdgeOf(s, b)'
  BY DEF b
<1> USE <1>b, <1>e
<1>1. CASE Idles
  BY <1>1 DEF Idles, EdgeOf, Apart, Told, Aware, Reporting, Counting
<1>2. ASSUME NEW D \in SUBSET Rank, DoSend(s, D)
      PROVE  EdgeOf(s, b)'
  <2>0. \A p, q \in Rank : chan'[p][q] =
          IF p = s /\ q \in D THEN Append(chan[s][q], Data) ELSE chan[p][q]
    BY <1>0, <1>2, SentAt DEF DoSend
  <2>1. /\ chan'[b][s] = chan[b][s]
        /\ chan'[s][b] = chan[s][b] \/ chan'[s][b] = Append(chan[s][b], Data)
    BY <1>0, <2>0
  <2>2. Plain(chan[s][b]) => Plain(chan'[s][b])
    BY <1>t, <2>1, AppendPlain, DataType
  <2>3. phase[s] \in Early /\ phase'[s] = "sending"
    BY <1>2 DEF DoSend
  <2> QED BY <2>1, <2>2, <2>3, PlainMaybeAlert
          DEF EdgeOf, Apart, Told, Aware, Reporting, Counting
<1>3. CASE DoWork(s)
  <2>1. /\ phase[s] \in Early /\ phase'[s] \in Early /\ chan' = chan
        /\ ~HasVerdict(s)'
    BY <1>0, <1>3 DEF DoWork, LocalOf
  <2> QED BY <2>1 DEF EdgeOf, Apart, Told, Aware, Reporting, Counting
<1>4. ASSUME NEW q \in Rank, DoQueue(s, q)
      PROVE  EdgeOf(s, b)'
  <2>1. /\ phase[s] \in Early /\ phase'[s] = phase[s] /\ ~HasVerdict(s)'
        /\ chan'[s][b] = chan[s][b]
    BY <1>0, <1>4 DEF DoQueue, TakesData, Others
  <2>2. /\ Plain(chan[b][s]) => Plain(chan'[b][s])
        /\ WithVerdict(chan[b][s]) => WithVerdict(chan'[b][s])
    BY <1>0, <1>4, TakesDataChan DEF DoQueue, TakesData, Others
  <2> QED BY <2>1, <2>2 DEF EdgeOf, Apart, Told, Aware, Reporting, Counting
\* A control message comes before s has the verdict, or under a catch.
<1>5. ASSUME NEW q \in Rank, NEW m \in Message,
             DoCatch(s, q, m) \/ DoHear(s, q, m) \/ DoDrain(s, q, m)
               \/ DoListen(s, q, m)
      PROVE  EdgeOf(s, b)'
  <2>0. /\ Takes(s, q, m)
        /\ phase[s] \in Early \cup {"drain", "alert", "alertdrain"}
    BY <1>5 DEF DoCatch, DoHear, Enters, DoDrain, DoListen
  <2>1. chan'[s][b] = chan[s][b] /\ (q # b => chan'[b][s] = chan[b][s])
    BY <1>0, <2>0 DEF Takes, Others
  <2>2. q = b /\ WithVerdict(chan[b][s]) => Plain(chan'[b][s])
    BY <1>0, <2>0, TakesChan
  <2>3. (q # b /\ m.id = 1) \/ (q = b /\ m.id = 2 /\ Told(s, b))
    BY <1>f, <2>0
  <2>4. /\ \/ phase'[s] \in {"task", "drain", phase[s]}
           \/ m.id = 2 /\ phase'[s] = "alertdrain"
        /\ phase'[s] \in Silent => phase[s] \in Silent
    BY <1>5 DEF DoCatch, DoHear, Enters, DoDrain, DoListen
  <2>5. m.id = 1 /\ ~HasVerdict(s) => ~HasVerdict(s)'
    <3>1. phase[s] = "drain" => id0[s] \in {1, 2}
      BY <1>0 DEF LocalOf
    <3>2. CASE DoCatch(s, q, m)
      BY <3>2 DEF DoCatch
    <3>3. CASE DoHear(s, q, m)
      BY <3>3 DEF DoHear, Enters
    <3>4. CASE DoDrain(s, q, m)
      BY <3>1, <3>4 DEF DoDrain
    <3>5. CASE DoListen(s, q, m)
      BY <3>5 DEF DoListen
    <3> QED BY <1>5, <3>2, <3>3, <3>4, <3>5
  <2>6. CASE q # b /\ m.id = 1
    BY <2>0, <2>1, <2>4, <2>5, <2>6
       DEF EdgeOf, Apart, Told, Aware, Reporting, Counting
  <2>7. CASE q = b /\ m.id = 2 /\ Told(s, b)
    <3>1. Aware(s, b)'
      BY <2>0, <2>1, <2>2, <2>4, <2>7 DEF Told, Aware
    <3> QED BY <3>1 DEF EdgeOf
  <2> QED BY <2>3, <2>6, <2>7
<1>7. ASSUME NEW m \in Message, DoFault(s, m)
      PROVE  EdgeOf(s, b)'
  <2>1. /\ phase[s] = "task" /\ phase'[s] = "drain" /\ chan' = chan
        /\ id0'[s] = m.id /\ (m.id = 2 => quiet[s] /\ m = msg[s])
    BY <1>7 DEF DoFault, Enters, Control
  <2> QED BY <2>1 DEF EdgeOf, Apart, Told, Aware, Reporting, Counting
<1>8. ASSUME NEW q \in Rank, DoThrow(s, q)
      PROVE  EdgeOf(s, b)'
  <2>1. TakesData(s, q) /\ chan'[s][b] = chan[s][b]
    BY <1>0, <1>8 DEF DoThrow, TakesData, Others
  <2>2. /\ Plain(chan[b][s]) => Plain(chan'[b][s])
        /\ WithVerdict(chan[b][s]) => WithVerdict(chan'[b][s])
    BY <1>0, <2>1, TakesDataChan DEF TakesData, Others
  <2>3. /\ phase'[s] = phase[s] \/ (phase[s] \in Quiescing /\ phase'[s] = "clearing")
        /\ heard'[s] = heard[s] \/ (heard'[s] = Heard(s) /\ phase[s] \in Quiescing)
        /\ UNCHANGED <<id0, quiet, msg>>
    BY <1>8 DEF DoThrow
  <2>4. phase[s] \in Quiescing => phase[s] = "clear" \/ heard[s] = 4
    BY DEF Apart, Told, Aware, Reporting, Counting
  <2>5. phase[s] \in Quiescing /\ phase'[s] = "clearing" => heard'[s] = 4
    BY <2>3, <2>4, <1>8 DEF Heard, DoThrow
  <2> QED BY <2>1, <2>2, <2>3, <2>5
          DEF EdgeOf, Apart, Told, Aware, Reporting, Counting
<1>9. CASE DoAlert(s)
  <2>1. phase[s] = "drain" /\ phase'[s] = "alert" /\ id0[s] = 1
    BY <1>9 DEF DoAlert
  <2>2. msg[s].id = 1 /\ msg[s] \in Message
    BY <1>0, <2>1 DEF FlowInv, AlertKept, TypeOK
  <2>3. chan'[s][b] = Append(chan[s][b], msg[s]) /\ chan'[b][s] = chan[b][s]
    BY <1>0, <1>9, <2>2, SentUp DEF DoAlert, b
  <2>4. Plain(chan[s][b]) => MaybeAlert(chan'[s][b])
    BY <1>t, <2>2, <2>3, AppendPlain
  <2> QED BY <2>1, <2>3, <2>4
          DEF EdgeOf, Apart, Told, Aware, Reporting, Counting
<1>10. ASSUME NEW f \in Int, DoSpread(s, f)
       PROVE  EdgeOf(s, b)'
  <2>1. /\ phase'[s] = "tally"
        /\ phase[s] = "alertdrain" \/ (phase[s] = "drain" /\ id0[s] = 2)
    BY <1>0, <1>10 DEF DoSpread, LocalOf
  <2>2. Control(2, f, 0) \in Message
    BY <1>10, ControlType
  <2>3. chan'[s][b] = chan[s][b] /\ chan'[b][s] = chan[b][s]
    BY <1>0, <1>10, <2>2, SentDown DEF DoSpread, b
  <2> QED BY <2>1, <2>3 DEF EdgeOf, Apart, Told, Aware, Reporting, Counting
<1>11. ASSUME NEW q \in Rank, NEW m \in Message, DoTally(s, q, m)
       PROVE  EdgeOf(s, b)'
  <2>1. /\ phase[s] = "tally" /\ phase'[s] = "tally"
        /\ chan'[s][b] = chan[s][b] /\ chan'[b][s] = chan[b][s]
    BY <1>0, <1>11 DEF DoTally, Takes, Others
  <2> QED BY <2>1 DEF EdgeOf, Apart, Told, Aware, Reporting, Counting
<1>12. CASE DoReport(s)
  <2>1. PICK n \in Nat :
          chan' = Sent(chan, s, {b}, Control(3, net[s] + mpyNet[s], n))
    BY <1>12 DEF DoReport, b
  <2> DEFINE m == Control(3, net[s] + mpyNet[s], n)
  <2>2. m \in Message /\ m.id = 3
    <3>1. net[s] + mpyNet[s] \in Int
      BY <1>0 DEF TypeOK
    <3>2. n \in Int
      OBVIOUS
    <3> QED BY <3>1, <3>2, ControlType DEF Control
  <2> HIDE DEF m
  <2>3. chan'[s][b] = Append(chan[s][b], m) /\ chan'[b][s] = chan[b][s]
    BY <1>0, <2>1, <2>2, SentUp DEF m, b
  <2>4. phase[s] = "tally" /\ phase'[s] = "clear"
    BY <1>12 DEF DoReport
  <2>5. MaybeAlert(chan[s][b]) => WithReport(chan'[s][b])
    BY <1>t, <2>2, <2>3, AppendReport
  <2> QED BY <2>3, <2>4, <2>5
          DEF EdgeOf, Apart, Told, Aware, Reporting, Counting
<1>13. ASSUME NEW q \in Rank, NEW m \in Message, DoClear(s, q, m)
       PROVE  EdgeOf(s, b)'
  <2>1. phase[s] \in Quiescing /\ phase'[s] = "clearing" /\ heard'[s] = m.id
    BY <1>13 DEF DoClear
  <2>2. q # b
    <3>1. ~Plain(chan[q][s])
      BY <1>0, <1>13, TakesChan DEF DoClear
    <3>2. Plain(chan[b][s])
      BY <2>1 DEF Apart, Told, Aware, Reporting, Counting
    <3> QED BY <3>1, <3>2
  <2>3. m.id = 4
    BY <1>13, <2>2, ClearMessage DEF b
  <2>4. chan'[s][b] = chan[s][b] /\ chan'[b][s] = chan[b][s]
    BY <1>0, <1>13, <2>2 DEF DoClear, Takes, Others
  <2> QED BY <2>1, <2>3, <2>4
          DEF EdgeOf, Apart, Told, Aware, Reporting, Counting
<1>14. CASE DoPause(s)
  BY <1>14 DEF DoPause, EdgeOf, Apart, Told, Aware, Reporting, Counting
<1>15. CASE DoCount(s)
  <2> DEFINE m == Control(4, count[s] - mpyNet[s], 0)
  <2>1. m \in Message /\ m.id = 4
    <3>1. count[s] - mpyNet[s] \in Int
      BY <1>0 DEF TypeOK
    <3> QED BY <3>1, ControlType DEF Control
  <2>2. chan' = Sent(chan, s, {b}, m)
    BY <1>15 DEF DoCount, b
  <2> HIDE DEF m
  <2>3. chan'[s][b] = Append(chan[s][b], m) /\ chan'[b][s] = chan[b][s]
    BY <1>0, <2>1, <2>2, SentUp DEF b
  <2>4. phase[s] = "clearing" /\ phase'[s] = "clear"
    BY <1>15 DEF DoCount
  <2>5. /\ WithReport(chan[s][b]) => WithReport(chan'[s][b])
        /\ Counts(chan[s][b]) => Counts(chan'[s][b])
    BY <1>t, <2>1, <2>3, AppendCount
  <2> QED BY <2>3, <2>4, <2>5
          DEF EdgeOf, Apart, Told, Aware, Reporting, Counting
<1>16. CASE DoPass(s)
  BY <1>16 DEF DoPass, Apart, Told, Aware, Reporting, Counting
<1>17. CASE DoReturn(s) \/ \E q \in Rank, m \in Message : DoAck(s, q, m)
  BY <1>17 DEF DoReturn, DoAck, Apart, Told, Aware, Reporting, Counting
<1>18. CASE DoLeave(s)
  <2>1. /\ phase[s] = "leaving" /\ phase'[s] = "idle" /\ chan' = chan
    BY <1>18 DEF DoLeave
  <2> QED BY <2>1 DEF EdgeOf, Apart, Told, Aware, Reporting, Counting
<1> QED BY <1>1, <1>2, <1>3, <1>4, <1>5, <1>7, <1>8, <1>9, <1>10, <1>11,
           <1>12, <1>13, <1>14, <1>15, <1>16, <1>17, <1>18 DEF Does

\* ... the boss end ...
LEMMA EdgeBoss ==
  ASSUME FlowInv, LocalInv, EdgeInv, NEW b \in Rank, Does(b), Alone(b),
         NEW s \in Staff(b), ~Clearing(s, b), ~DoPass(b)
  PROVE  EdgeOf(s, b)'
<1>0. /\ TypeOK /\ LocalOf(b) /\ s \in Rank /\ s # 0 /\ b = Boss(s)
  BY StaffSubset, StaffInvertsBoss DEF FlowInv, LocalInv
<1>s. /\ EdgeOf(s, b) /\ s # b /\ b \notin Staff(s) /\ Same(s)
      /\ (b # 0 => Boss(b) # s)
  <2>1. EdgeOf(s, b)
    BY <1>0 DEF EdgeInv
  <2>2. s # b /\ b \notin Staff(s)
    BY <1>0, BossRank, RankInt
  <2>3. b # 0 => Boss(b) # s
    BY <1>0, BossRank, RankInt
  <2> QED BY <1>0, <2>1, <2>2, <2>3 DEF Alone
<1>t. /\ phase[b] \in {"task", "sending", "idle", "drain", "alert", "alertdrain",
                       "tally", "clear", "clearing", "ack", "leaving"}
      /\ chan[s][b] \in Seq(Message) /\ chan[b][s] \in Seq(Message)
  <2>1. chan[s][b] \in Seq(Message) /\ chan[b][s] \in Seq(Message)
    BY <1>0 DEF TypeOK
  <2> QED BY <1>0, <2>1, Phases
<1>n. net[b] \in Int /\ mpyNet[b] \in Int /\ count[b] \in Int
  BY <1>0 DEF TypeOK
<1>b. /\ phase'[s] = phase[s] /\ heard'[s] = heard[s] /\ quiet'[s] = quiet[s]
      /\ msg'[s] = msg[s] /\ id0'[s] = id0[s]
  BY <1>s DEF Same
<1>e. Apart(s, b) \/ Told(s, b) \/ Aware(s, b) \/ Reporting(s, b)
        \/ Counting(s, b)
  BY <1>s DEF EdgeOf
<1>f. ASSUME NEW q \in Rank, NEW m, Takes(b, q, m),
             phase[b] \in Early \cup {"drain", "alert", "alertdrain"}
      PROVE  q = s => Apart(s, b) /\ m.id = 1
  <2>1. \/ m.id = 1 /\ Apart(q, b)
        \/ m.id = 2 /\ b # 0 /\ q = Boss(b)
    BY <1>0, <1>f, EarlyTakes
  <2> QED BY <1>s, <2>1
<1> USE <1>b, <1>e
<1> USE DEF Outside, Silent, Working, Quiescing, HasVerdict, Early
<1>1. CASE Idles
  BY <1>1 DEF Idles, EdgeOf, Apart, Told, Aware, Reporting, Counting
<1>2. ASSUME NEW D \in SUBSET Rank, DoSend(b, D)
      PROVE  EdgeOf(s, b)'
  <2>0. \A p, q \in Rank : chan'[p][q] =
          IF p = b /\ q \in D THEN Append(chan[b][q], Data) ELSE chan[p][q]
    BY <1>0, <1>2, SentAt DEF DoSend
  <2>1. /\ chan'[s][b] = chan[s][b]
        /\ chan'[b][s] = chan[b][s] \/ chan'[b][s] = Append(chan[b][s], Data)
    BY <1>0, <1>s, <2>0
  <2>2. Plain(chan[b][s]) => Plain(chan'[b][s])
    BY <1>t, <2>1, AppendPlain, DataType
  <2>3. phase[b] \in Early /\ phase'[b] = "sending"
    BY <1>2 DEF DoSend
  <2> QED BY <2>1, <2>2, <2>3
          DEF EdgeOf, Apart, Told, Aware, Reporting, Counting
<1>3. CASE DoWork(b)
  BY <1>3 DEF DoWork, EdgeOf, Apart, Told, Aware, Reporting, Counting
<1>4. ASSUME NEW q \in Rank, DoQueue(b, q) \/ DoThrow(b, q)
      PROVE  EdgeOf(s, b)'
  <2>1. /\ TakesData(b, q) /\ chan'[b][s] = chan[b][s]
        /\ q # s => chan'[s][b] = chan[s][b]
    BY <1>0, <1>s, <1>4 DEF DoQueue, DoThrow, TakesData, Others
  <2>2. /\ Plain(chan[s][b]) => Plain(chan'[s][b])
        /\ MaybeAlert(chan[s][b]) => MaybeAlert(chan'[s][b])
        /\ WithReport(chan[s][b]) => WithReport(chan'[s][b])
        /\ Counts(chan[s][b]) => q # s
    BY <1>0, <2>1, TakesDataChan
  <2>3. phase'[b] = phase[b] \/ (phase[b] \in Quiescing /\ phase'[b] = "clearing")
    BY <1>4 DEF DoQueue, DoThrow
  <2>4. tally'[b][s] = tally[b][s]
    BY <1>4 DEF DoQueue, DoThrow
  <2> QED BY <2>1, <2>2, <2>3, <2>4
          DEF EdgeOf, Apart, Told, Aware, Reporting, Counting
<1>5. ASSUME NEW q \in Rank, NEW m \in Message,
             DoCatch(b, q, m) \/ DoHear(b, q, m) \/ DoDrain(b, q, m)
               \/ DoListen(b, q, m)
      PROVE  EdgeOf(s, b)'
  <2>0. /\ Takes(b, q, m)
        /\ phase[b] \in Early \cup {"drain", "alert", "alertdrain"}
        /\ phase'[b] \in Early \cup {"drain", "alert", "alertdrain"}
    BY <1>5 DEF DoCatch, DoHear, Enters, DoDrain, DoListen
  <2>1. chan'[b][s] = chan[b][s] /\ (q # s => chan'[s][b] = chan[s][b])
    BY <1>0, <1>s, <2>0 DEF Takes, Others
  <2>2. /\ MaybeAlert(chan[s][b]) => q # s \/ Plain(chan'[s][b])
        /\ Plain(chan[s][b]) => q # s
    BY <1>0, <2>0, TakesChan
  <2>3. Apart(s, b)
    BY <2>0 DEF Told, Aware, Reporting, Counting
  <2>4. Apart(s, b)'
    BY <2>0, <2>1, <2>2, <2>3, PlainMaybeAlert DEF Apart
  <2> QED BY <2>4 DEF EdgeOf
<1>6. ASSUME NEW m \in Message, DoFault(b, m)
      PROVE  EdgeOf(s, b)'
  <2>1. phase[b] = "task" /\ phase'[b] = "drain" /\ chan' = chan
    BY <1>6 DEF DoFault, Enters
  <2> QED BY <2>1 DEF EdgeOf, Apart, Told, Aware, Reporting, Counting
<1>7. CASE DoAlert(b)
  <2>1. phase[b] = "drain" /\ phase'[b] = "alert" /\ b # 0
    BY <1>7 DEF DoAlert
  <2>2. msg[b] \in Message
    BY <1>0 DEF TypeOK
  <2>3. chan'[s][b] = chan[s][b] /\ chan'[b][s] = chan[b][s]
    BY <1>0, <1>7, <2>1, <2>2, SentUp DEF DoAlert
  <2> QED BY <2>1, <2>3 DEF EdgeOf, Apart, Told, Aware, Reporting, Counting
<1>8. ASSUME NEW f \in Int, DoSpread(b, f)
      PROVE  EdgeOf(s, b)'
  <2> DEFINE m == Control(2, f, 0)
  <2>1. m \in Message /\ m.id = 2
    BY <1>8, ControlType DEF Control
  <2>2. chan' = Sent(chan, b, Staff(b), m)
    BY <1>8 DEF DoSpread
  <2> HIDE DEF m
  <2>3. chan'[b][s] = Append(chan[b][s], m) /\ chan'[s][b] = chan[s][b]
    BY <1>0, <2>1, <2>2, SentDown
  <2>4. Plain(chan[b][s]) => WithVerdict(chan'[b][s])
    BY <1>t, <2>1, <2>3, AppendPlain
  <2>5. /\ phase[b] \in {"drain", "alertdrain"} /\ phase'[b] = "tally"
        /\ tally' = tally
    BY <1>8 DEF DoSpread
  <2>6. tally'[b][s] = 0
    BY <1>0, <2>5 DEF LocalOf
  <2> QED BY <2>3, <2>4, <2>5, <2>6
          DEF EdgeOf, Apart, Told, Aware, Reporting, Counting
<1>9. ASSUME NEW q \in Rank, NEW m \in Message, DoTally(b, q, m)
      PROVE  EdgeOf(s, b)'
  <2>1. /\ Takes(b, q, m) /\ TakesHead(b, q, m) /\ m # Data
        /\ phase[b] = "tally" /\ phase'[b] = "tally" /\ m.id \in {3, 4}
        /\ m.id = 3 => tally[b][q] = 0 /\ tally'[b][q] = 1
        /\ m.id = 4 => tally[b][q] # 0 /\ tally'[b][q] = tally[b][q]
        /\ q # s => tally'[b][s] = tally[b][s]
    BY <1>0, <1>9 DEF DoTally, Takes
  <2>2. chan'[b][s] = chan[b][s] /\ (q # s => chan'[s][b] = chan[s][b])
    BY <1>0, <1>s, <2>1 DEF Takes, Others
  <2>3. CASE q # s
    BY <2>1, <2>2, <2>3 DEF EdgeOf, Apart, Told, Aware, Reporting, Counting
  <2>4. CASE q = s
    <3>1. /\ MaybeAlert(chan[s][b]) => m.id = 1
          /\ WithReport(chan[s][b]) => m.id = 1 \/ (m.id = 3 /\ Counts(chan'[s][b]))
          /\ Counts(chan[s][b]) => m.id = 4 /\ Counts(chan'[s][b])
      BY <1>0, <2>1, <2>4, TakesHeadChan
    <3> QED BY <2>1, <2>2, <2>4, <3>1
            DEF EdgeOf, Apart, Told, Aware, Reporting, Counting
  <2> QED BY <2>3, <2>4
<1>10. CASE DoReport(b)
  <2>1. /\ phase[b] = "tally" /\ phase'[b] = "clear" /\ tally[b][s] # 0
        /\ tally' = tally
    BY <1>10 DEF DoReport, AllReported
  <2>2. chan'[s][b] = chan[s][b] /\ chan'[b][s] = chan[b][s]
    <3>1. CASE b = 0
      BY <1>10, <3>1 DEF DoReport
    <3>2. CASE b # 0
      <4>1. PICK n \in Nat :
              chan' = Sent(chan, b, {Boss(b)}, Control(3, net[b] + mpyNet[b], n))
        BY <1>10, <3>2 DEF DoReport
      <4>2. net[b] + mpyNet[b] \in Int /\ n \in Int
        BY <1>n
      <4>3. Control(3, net[b] + mpyNet[b], n) \in Message
        BY <4>2, ControlType
      <4> QED BY <1>0, <3>2, <4>1, <4>3, SentUp
    <3> QED BY <3>1, <3>2
  <2> QED BY <2>1, <2>2 DEF EdgeOf, Apart, Told, Aware, Reporting, Counting
<1>11. ASSUME NEW q \in Rank, NEW m \in Message, DoClear(b, q, m)
       PROVE  EdgeOf(s, b)'
  <2>1. /\ phase[b] \in Quiescing /\ phase'[b] = "clearing" /\ tally' = tally
        /\ Takes(b, q, m) /\ TakesHead(b, q, m) /\ m # Data
    BY <1>11 DEF DoClear, Takes
  <2>2. chan'[b][s] = chan[b][s] /\ (q # s => chan'[s][b] = chan[s][b])
    BY <1>0, <1>s, <2>1 DEF Takes, Others
  <2>3. Counts(chan[s][b]) => Counts(chan'[s][b])
    BY <1>0, <2>1, <2>2, TakesHeadChan
  <2>4. Counting(s, b)
    BY <2>1 DEF Apart, Told, Aware, Reporting
  <2> QED BY <2>1, <2>2, <2>3, <2>4 DEF EdgeOf, Counting
<1>12. CASE DoPause(b)
  BY <1>12 DEF DoPause, EdgeOf, Apart, Told, Aware, Reporting, Counting
<1>13. CASE DoCount(b)
  <2>1. chan'[s][b] = chan[s][b] /\ chan'[b][s] = chan[b][s]
    <3>1. CASE b = 0
      BY <1>13, <3>1 DEF DoCount
    <3>2. CASE b # 0
      <4>1. chan' = Sent(chan, b, {Boss(b)}, Control(4, count[b] - mpyNet[b], 0))
        BY <1>13, <3>2 DEF DoCount
      <4>2. count[b] - mpyNet[b] \in Int
        BY <1>n
      <4>3. Control(4, count[b] - mpyNet[b], 0) \in Message
        BY <4>2, ControlType
      <4> QED BY <1>0, <3>2, <4>1, <4>3, SentUp
    <3> QED BY <3>1, <3>2
  <2> QED BY <1>13, <2>1
          DEF DoCount, EdgeOf, Apart, Told, Aware, Reporting, Counting
<1>14. ~DoReturn(b) /\ \A q \in Rank, m \in Message : ~DoAck(b, q, m)
  BY DEF DoReturn, DoAck, Apart, Told, Aware, Reporting, Counting
<1>15. CASE DoLeave(b)
  <2>1. /\ phase[b] = "leaving" /\ phase'[b] = "idle" /\ chan' = chan
    BY <1>15 DEF DoLeave
  <2> QED BY <2>1 DEF EdgeOf, Apart, Told, Aware, Reporting, Counting
<1> QED BY <1>1, <1>2, <1>3, <1>4, <1>5, <1>6, <1>7, <1>8, <1>9, <1>10, <1>11,
           <1>12, <1>13, <1>14, <1>15 DEF Does

\* ... both ends in the wave ...
LEMMA EdgeStaffWave ==
  ASSUME FlowInv, LocalInv, EdgeInv, WaveInv, NEW s \in Rank, s # 0, Does(s),
         Alone(s), Clearing(s, Boss(s))
  PROVE  EdgeOf(s, Boss(s))'
<1> DEFINE b == Boss(s)
<1>0. /\ TypeOK /\ Clearing(s, b) /\ b \in Rank /\ b # s /\ b \notin Staff(s)
      /\ phase'[b] = phase[b] /\ tally'[b][s] = tally[b][s]
  BY BossRank, RankInt DEF FlowInv, Alone, Same
<1>1. phase[0] = "ack"
  BY <1>0, RootAck DEF Clearing
<1>2. \/ Idles
      \/ \E q \in Rank, m \in Message : DoClear(s, q, m) /\ m.id = 5
      \/ DoPause(s) \/ DoPass(s)
      \/ \E q \in Rank, m \in Message : DoAck(s, q, m)
      \/ DoReturn(s) \/ DoLeave(s)
  BY <1>1, WaveDoes
<1> SUFFICES Clearing(s, b)'
  BY DEF EdgeOf
<1> USE DEF Quiescing
<1>3. CASE Idles
  BY <1>0, <1>3 DEF Idles, Clearing
<1>4. ASSUME NEW q \in Rank, NEW m \in Message, DoClear(s, q, m), m.id = 5
      PROVE  Clearing(s, b)'
  <2>1. q = b
    BY <1>4, ClearMessage
  <2> HIDE DEF b
  <2>2. chan'[s][b] = chan[s][b]
    BY <1>0, <1>4 DEF DoClear, Takes, Others
  <2>3. /\ chan[b][s] # << >>
        /\ \A id : Only(chan[b][s], id) => chan'[b][s] = << >>
    BY <1>0, <1>4, <2>1, TakesHeadChan DEF DoClear, Takes
  <2>4. /\ phase[s] \in Quiescing /\ phase'[s] = "clearing" /\ heard'[s] = 5
    BY <1>4 DEF DoClear
  <2> QED BY <1>0, <2>2, <2>3, <2>4 DEF Clearing
<1>5. CASE DoPause(s)
  BY <1>0, <1>5 DEF DoPause, Clearing
<1>6. CASE DoPass(s)
  <2>1. chan'[s][b] = chan[s][b] /\ chan'[b][s] = chan[b][s]
    <3>1. Control(5, 0, 0) \in Message
      BY ControlType
    <3> QED BY <1>0, <1>6, <3>1, SentDown DEF DoPass
  <2> QED BY <1>0, <1>6, <2>1 DEF DoPass, Clearing
<1>7. ASSUME NEW q \in Rank, NEW m \in Message, DoAck(s, q, m)
      PROVE  Clearing(s, b)'
  <2>1. chan'[s][b] = chan[s][b] /\ chan'[b][s] = chan[b][s]
    BY <1>0, <1>7 DEF DoAck, Takes, Others
  <2> QED BY <1>0, <1>7, <2>1 DEF DoAck, Clearing
<1>8. CASE DoReturn(s)
  <2> DEFINE m == Control(6, 0, 0)
  <2>1. m \in Message /\ m.id = 6
    BY ControlType DEF Control
  <2>2. chan' = Sent(chan, s, {b}, m)
    BY <1>8 DEF DoReturn
  <2> HIDE DEF m, b
  <2>3. chan'[s][b] = Append(chan[s][b], m) /\ chan'[b][s] = chan[b][s]
    BY <1>0, <2>1, <2>2, SentUp DEF b
  <2>4. chan[s][b] = << >> => Only(chan'[s][b], 6)
    BY <2>1, <2>3, AppendOnly
  <2> QED BY <1>0, <1>8, <2>3, <2>4 DEF DoReturn, Clearing
<1>9. CASE DoLeave(s)
  BY <1>0, <1>9 DEF DoLeave, Clearing
<1> QED BY <1>2, <1>3, <1>4, <1>5, <1>6, <1>7, <1>8, <1>9

LEMMA EdgeBossWave ==
  ASSUME FlowInv, LocalInv, EdgeInv, WaveInv, NEW b \in Rank, Does(b), Alone(b),
         NEW s \in Staff(b), Clearing(s, b)
  PROVE  EdgeOf(s, b)'
<1>0. /\ TypeOK /\ s \in Rank /\ s # 0 /\ b = Boss(s) /\ s # b
      /\ b # 0 => Boss(b) # s
  <2>1. s \in Rank /\ s # 0 /\ b = Boss(s)
    BY StaffSubset, StaffInvertsBoss
  <2> QED BY <2>1, BossRank, RankInt DEF FlowInv
<1>s. /\ phase'[s] = phase[s] /\ heard'[s] = heard[s] /\ quiet'[s] = quiet[s]
      /\ msg'[s] = msg[s] /\ id0'[s] = id0[s]
  BY <1>0 DEF Alone, Same
<1>1. phase[0] = "ack"
  BY RootAck DEF Clearing
<1>2. \/ Idles
      \/ \E q \in Rank, m \in Message : DoAck(b, q, m)
      \/ DoReturn(b)
  <2>1. phase[b] = "ack"
    BY DEF Clearing
  <2> QED BY <1>1, <2>1, WaveDoes DEF DoClear, DoPause, DoPass, DoLeave, Quiescing
<1> USE DEF Quiescing
<1>3. CASE Idles
  <2>1. Clearing(s, b)'
    BY <1>s, <1>3 DEF Idles, Clearing
  <2> QED BY <2>1 DEF EdgeOf
<1>4. ASSUME NEW q \in Rank, NEW m \in Message, DoAck(b, q, m)
      PROVE  EdgeOf(s, b)'
  <2>1. /\ chan'[b][s] = chan[b][s]
        /\ q # s => chan'[s][b] = chan[s][b] /\ tally'[b][s] = tally[b][s]
    BY <1>0, <1>4 DEF DoAck, Takes, Others
  <2>2. q = s => /\ chan[s][b] # << >>
                 /\ \A id : Only(chan[s][b], id) => chan'[s][b] = << >>
    <3>1. TakesHead(b, q, m) /\ m # Data
      BY <1>4 DEF DoAck, Takes
    <3>2. /\ chan[q][b] # << >>
          /\ \A id : Only(chan[q][b], id) => chan'[q][b] = << >>
      BY <1>0, <3>1, TakesHeadChan
    <3> QED BY <3>2
  <2>3. q = s => tally'[b][s] = tally[b][s] + 1
    BY <1>4 DEF DoAck
  <2>4. phase'[b] = "ack"
    BY <1>4 DEF DoAck
  <2>5. Clearing(s, b)'
    BY <1>s, <2>1, <2>2, <2>3, <2>4 DEF Clearing
  <2> QED BY <2>5 DEF EdgeOf
<1>5. CASE DoReturn(b)
  <2>1. phase'[b] = "leaving" /\ tally[b][s] = 2
    BY <1>5 DEF DoReturn, AllAcked
  <2>2. /\ chan[s][b] = << >> /\ chan[b][s] = << >>
        /\ phase[s] \in {"leaving", "idle"}
    BY <2>1 DEF Clearing
  <2>3. chan'[s][b] = chan[s][b] /\ chan'[b][s] = chan[b][s]
    <3>1. CASE b = 0
      BY <1>5, <3>1 DEF DoReturn
    <3>2. CASE b # 0
      <4>1. chan' = Sent(chan, b, {Boss(b)}, Control(6, 0, 0))
        BY <1>5, <3>2 DEF DoReturn
      <4>2. Control(6, 0, 0) \in Message
        BY ControlType
      <4> QED BY <1>0, <3>2, <4>1, <4>2, SentUp
    <3> QED BY <3>1, <3>2
  <2>4. /\ Plain(chan'[b][s]) /\ Plain(chan'[s][b]) /\ MaybeAlert(chan'[s][b])
    BY <2>2, <2>3, EmptyChan
  <2>5. Apart(s, b)'
    BY <1>s, <2>1, <2>2, <2>4 DEF Apart, HasVerdict, Outside
  <2> QED BY <2>5 DEF EdgeOf
<1> QED BY <1>2, <1>3, <1>4, <1>5

\* ... its beginning, on an edge below the rank that passes id=5 on ...
LEMMA EdgePass ==
  ASSUME FlowInv, EdgeInv, Hushed, NEW b \in Rank, DoPass(b), Alone(b),
         NEW s \in Staff(b)
  PROVE  EdgeOf(s, b)'
<1>0. /\ TypeOK /\ s \in Rank /\ s # 0 /\ b = Boss(s) /\ s # b
  <2>1. s \in Rank /\ s # 0 /\ b = Boss(s)
    BY StaffSubset, StaffInvertsBoss
  <2> QED BY <2>1, BossRank, RankInt DEF FlowInv
<1>1. Counting(s, b)
  <2>1. EdgeOf(s, b) /\ phase[b] \in Quiescing
    BY <1>0 DEF EdgeInv, DoPass, Quiescing
  <2> QED BY <2>1 DEF EdgeOf, Apart, Told, Aware, Reporting, Clearing, Outside,
                      Quiescing
<1>2. chan[s][b] = << >> /\ chan[b][s] = << >>
  BY <1>0, <1>1, HushedChan DEF Counting
<1> DEFINE m == Control(5, 0, 0)
<1>3. m \in Message /\ m.id = 5
  BY ControlType DEF Control
<1>4. chan' = Sent(chan, b, Staff(b), m)
  BY DEF DoPass
<1> HIDE DEF m
<1>5. chan'[b][s] = Append(chan[b][s], m) /\ chan'[s][b] = chan[s][b]
  BY <1>0, <1>3, <1>4, SentDown
<1>6. Only(chan'[b][s], 5)
  BY <1>2, <1>3, <1>5, AppendOnly
<1>7. /\ phase'[s] = phase[s] /\ heard'[s] = heard[s] /\ phase'[b] = "ack"
      /\ tally'[b][s] = tally[b][s]
  BY <1>0 DEF Alone, Same, DoPass
<1>8. Clearing(s, b)'
  <2>1. chan[s][b] \in Seq(Message)
    BY <1>0 DEF TypeOK
  <2>2. phase[b] \in Quiescing
    BY DEF DoPass, Quiescing
  <2>3. tally[b][s] = 1
    BY <1>1 DEF Counting
  <2> QED BY <1>1, <1>2, <1>5, <1>6, <1>7, <2>3 DEF Counting, Clearing
<1> QED BY <1>8 DEF EdgeOf

\* ... and an edge somewhere else.
LEMMA EdgeStep ==
  ASSUME FlowInv, LocalInv, EdgeInv, WaveInv, NEW r \in Rank, Does(r), Alone(r),
         r = 0 /\ DoPass(0) => Hushed
  PROVE  EdgeInv'
<1> SUFFICES ASSUME NEW s \in Rank \ {0}
             PROVE  EdgeOf(s, Boss(s))'
  BY DEF EdgeInv
<1> DEFINE b == Boss(s)
<1>0. b \in Rank /\ b # s /\ s \in Staff(b) /\ EdgeOf(s, b)
  BY BossRank, RankInt DEF EdgeInv
<1>1. CASE r = s
  BY <1>1, EdgeStaff, EdgeStaffWave
<1>2. CASE r = b
  <2>1. CASE Clearing(s, r)
    BY <1>0, <1>2, <2>1, EdgeBossWave
  <2>2. CASE DoPass(r)
    <3>1. r # 0 => Clearing(r, Boss(r))
      <4>1. ASSUME r # 0
            PROVE  EdgeOf(r, Boss(r)) /\ phase[r] = "clearing" /\ heard[r] = 5
        BY <2>2, <4>1 DEF EdgeInv, DoPass
      <4> QED BY <4>1 DEF EdgeOf, Apart, Told, Aware, Reporting, Counting,
                          Outside, Working
    <3>2. r # 0 => phase[0] = "ack"
      BY <3>1, BossRank, RootAck DEF Clearing
    <3>3. Hushed
      BY <2>2, <3>2 DEF WaveInv, Hushed
    <3> QED BY <1>0, <1>2, <2>2, <3>3, EdgePass
  <2>3. CASE ~Clearing(s, r) /\ ~DoPass(r)
    BY <1>0, <1>2, <2>3, EdgeBoss
  <2> QED BY <2>1, <2>2, <2>3
<1>3. CASE r # s /\ r # b
  <2>1. Same(s) /\ Same(b) /\ chan'[s][b] = chan[s][b] /\ chan'[b][s] = chan[b][s]
    BY <1>0, <1>3 DEF Alone
  <2> HIDE DEF b
  <2>2. EdgeOf(s, b)'
    BY <1>0, <2>1 DEF Same, EdgeOf, Apart, Told, Aware, Reporting, Counting,
                      Clearing, HasVerdict
  <2> QED BY <2>2 DEF b
<1> QED BY <1>1, <1>2, <1>3
-----------------------------------------------------------------------------
(* Where the messages of a channel come from.                              *)

\* m was in the channel from p to q before the step.
Old(p, q, m) == \E j \in DOMAIN chan[p][q] : chan[p][q][j] = m

LEMMA TakesKeeps ==
  ASSUME TypeOK, NEW r \in Rank, NEW q \in Rank,
         TakesData(r, q) \/ \E m : Takes(r, q, m)
  PROVE  \A p, t \in Rank : \A i \in DOMAIN chan'[p][t] : Old(p, t, chan'[p][t][i])
<1> DEFINE c == chan[q][r]
           d == chan'[q][r]
<1>1. c \in Seq(Message)
  BY DEF TypeOK
<1>2. ASSUME NEW i \in DOMAIN d
      PROVE  \E j \in DOMAIN c : c[j] = d[i]
  <2>1. CASE c # << >> /\ d = Tail(c)
    <3>1. /\ DOMAIN d = 1 .. Len(c) - 1 /\ DOMAIN c = 1 .. Len(c) /\ Len(c) \in Nat
          /\ \A k \in 1 .. Len(c) - 1 : d[k] = c[k + 1]
      BY <1>1, <2>1, ChanTail, ChanType
    <3> HIDE DEF c, d
    <3>2. i + 1 \in DOMAIN c /\ d[i] = c[i + 1]
      BY <3>1
    <3> QED BY <3>2
  <2>2. CASE \E k \in DOMAIN c : d = RemoveAt(c, k)
    <3>1. PICK k \in DOMAIN c : d = RemoveAt(c, k)
      BY <2>2
    <3>2. Len(c) \in Nat /\ DOMAIN c = 1 .. Len(c)
      BY <1>1, ChanType
    <3>3. /\ d \in Seq(Message) /\ Len(d) = Len(c) - 1
          /\ \A j \in 1 .. Len(c) - 1 : d[j] = IF j < k THEN c[j] ELSE c[j + 1]
      <4> HIDE DEF c, d
      <4> QED BY <1>1, <3>1, <3>2, RemoveAtProperties
    <3> HIDE DEF c, d
    <3>4. DOMAIN d = 1 .. Len(c) - 1
      BY <3>3, ChanType
    <3>5. i \in DOMAIN c /\ i + 1 \in DOMAIN c
      BY <3>2, <3>4
    <3> QED BY <3>3, <3>4, <3>5
  <2> QED BY <2>1, <2>2 DEF TakesData, Takes, TakesHead, TakesFirst
<1>3. ASSUME NEW p \in Rank, NEW t \in Rank, p # q \/ t # r
      PROVE  chan'[p][t] = chan[p][t]
  BY <1>3 DEF TakesData, Takes, Others
<1> HIDE DEF c, d
<1>4. \A p, t \in Rank :
        \A i \in DOMAIN chan'[p][t] : \E j \in DOMAIN chan[p][t] :
          chan[p][t][j] = chan'[p][t][i]
  BY <1>2, <1>3 DEF c, d
<1> QED BY <1>4 DEF Old

LEMMA SentKeeps ==
  ASSUME TypeOK, NEW r \in Rank, NEW D, NEW m \in Message,
         chan' = Sent(chan, r, D, m)
  PROVE  \A p, t \in Rank : \A i \in DOMAIN chan'[p][t] :
           \/ Old(p, t, chan'[p][t][i])
           \/ p = r /\ t \in D /\ chan'[p][t][i] = m
<1> SUFFICES ASSUME NEW p \in Rank, NEW t \in Rank, NEW i \in DOMAIN chan'[p][t]
             PROVE  \/ Old(p, t, chan'[p][t][i])
                    \/ p = r /\ t \in D /\ chan'[p][t][i] = m
  OBVIOUS
<1>1. chan'[p][t] = IF p = r /\ t \in D THEN Append(chan[r][t], m) ELSE chan[p][t]
  BY SentAt
<1>2. CASE p = r /\ t \in D
  <2>1. chan[p][t] \in Seq(Message)
    BY DEF TypeOK
  <2>2. chan'[p][t] = Append(chan[p][t], m)
    BY <1>1, <1>2
  <2>3. /\ DOMAIN chan'[p][t] = 1 .. Len(chan[p][t]) + 1
        /\ DOMAIN chan[p][t] = 1 .. Len(chan[p][t]) /\ Len(chan[p][t]) \in Nat
        /\ \A j \in DOMAIN chan[p][t] : chan'[p][t][j] = chan[p][t][j]
        /\ chan'[p][t][Len(chan[p][t]) + 1] = m
    BY <2>1, <2>2, ChanType, ChanAppend
  <2>4. i \in DOMAIN chan[p][t] \/ i = Len(chan[p][t]) + 1
    BY <2>3
  <2> QED BY <1>2, <2>3, <2>4 DEF Old
<1>3. CASE ~(p = r /\ t \in D)
  BY <1>1, <1>3 DEF Old
<1> QED BY <1>2, <1>3

\* A message of the channel from p to q that r may have sent.
New(r, p, q, m) ==
  /\ p = r
  /\ \/ \E D \in SUBSET Rank : DoSend(r, D) /\ q \in D /\ m = Data
     \/ DoAlert(r) /\ q = Boss(r) /\ m = msg[r]
     \/ \E f \in Int : DoSpread(r, f) /\ q \in Staff(r) /\ m = Control(2, f, 0)
     \/ \E n \in Nat :
          DoReport(r) /\ r # 0 /\ q = Boss(r)
            /\ m = Control(3, net[r] + mpyNet[r], n)
     \/ /\ DoCount(r) /\ r # 0 /\ q = Boss(r)
        /\ m = Control(4, count[r] - mpyNet[r], 0)
     \/ m = Control(5, 0, 0) \/ m.id = 6

LEMMA SentNew ==
  ASSUME TypeOK, NEW r \in Rank, NEW D, NEW w \in Message,
         chan' = Sent(chan, r, D, w), \A q \in D : New(r, r, q, w)
  PROVE  \A p, q \in Rank : \A i \in DOMAIN chan'[p][q] :
           Old(p, q, chan'[p][q][i]) \/ New(r, p, q, chan'[p][q][i])
BY SentKeeps

LEMMA SentUpNew ==
  ASSUME TypeOK, NEW r \in Rank, NEW b, NEW w \in Message,
         chan' = Sent(chan, r, {b}, w), New(r, r, b, w)
  PROVE  \A p, q \in Rank : \A i \in DOMAIN chan'[p][q] :
           Old(p, q, chan'[p][q][i]) \/ New(r, p, q, chan'[p][q][i])
<1> DEFINE D == {b}
<1>1. chan' = Sent(chan, r, D, w) /\ \A q \in D : New(r, r, q, w)
  OBVIOUS
<1> HIDE DEF D
<1> QED BY <1>1, SentNew

LEMMA OldOrNew ==
  ASSUME TypeOK, NEW r \in Rank, Does(r)
  PROVE  \A p, q \in Rank : \A i \in DOMAIN chan'[p][q] :
           Old(p, q, chan'[p][q][i]) \/ New(r, p, q, chan'[p][q][i])
<1> DEFINE Goal == \A p, q \in Rank : \A i \in DOMAIN chan'[p][q] :
             Old(p, q, chan'[p][q][i]) \/ New(r, p, q, chan'[p][q][i])
<1>1. CASE chan' = chan
  BY <1>1 DEF Old
<1>2. CASE \E q \in Rank : TakesData(r, q) \/ \E m : Takes(r, q, m)
  BY <1>2, TakesKeeps
<1>i. net[r] + mpyNet[r] \in Int /\ count[r] - mpyNet[r] \in Int
  BY DEF TypeOK
<1>4. ASSUME NEW D \in SUBSET Rank, DoSend(r, D)
      PROVE  Goal
  <2>1. chan' = Sent(chan, r, D, Data) /\ \A q \in D : New(r, r, q, Data)
    BY <1>4 DEF DoSend, New
  <2> QED BY <2>1, SentNew, DataType
<1>5. CASE DoAlert(r)
  <2>1. msg[r] \in Message
    BY DEF TypeOK
  <2>2. chan' = Sent(chan, r, {Boss(r)}, msg[r]) /\ New(r, r, Boss(r), msg[r])
    BY <1>5 DEF DoAlert, New
  <2> QED BY <2>1, <2>2, SentUpNew
<1>6. ASSUME NEW f \in Int, DoSpread(r, f)
      PROVE  Goal
  <2>1. Control(2, f, 0) \in Message
    BY ControlType
  <2>2. chan' = Sent(chan, r, Staff(r), Control(2, f, 0))
    BY <1>6 DEF DoSpread
  <2>3. \A q \in Staff(r) : New(r, r, q, Control(2, f, 0))
    BY <1>6 DEF New
  <2> QED BY SentNew, <2>1, <2>2, <2>3
<1>7. CASE DoReport(r)
  <2>1. CASE r = 0
    BY <1>1, <1>7, <2>1 DEF DoReport
  <2>2. CASE r # 0
    <3>1. PICK n \in Nat :
            chan' = Sent(chan, r, {Boss(r)}, Control(3, net[r] + mpyNet[r], n))
      BY <1>7, <2>2 DEF DoReport
    <3> DEFINE m == Control(3, net[r] + mpyNet[r], n)
    <3>2. m \in Message
      <4>1. n \in Int
        OBVIOUS
      <4> QED BY <1>i, <4>1, ControlType
    <3>3. New(r, r, Boss(r), m)
      BY <1>7, <2>2 DEF New
    <3>4. chan' = Sent(chan, r, {Boss(r)}, m)
      BY <3>1
    <3> HIDE DEF m
    <3> QED BY SentUpNew, <3>2, <3>3, <3>4
  <2> QED BY <2>1, <2>2
<1>8. CASE DoCount(r)
  <2>1. CASE r = 0
    BY <1>1, <1>8, <2>1 DEF DoCount
  <2>2. CASE r # 0
    <3> DEFINE m == Control(4, count[r] - mpyNet[r], 0)
    <3>1. chan' = Sent(chan, r, {Boss(r)}, m)
      BY <1>8, <2>2 DEF DoCount
    <3>2. m \in Message
      BY <1>i, ControlType
    <3>3. New(r, r, Boss(r), m)
      BY <1>8, <2>2 DEF New
    <3> HIDE DEF m
    <3> QED BY SentUpNew, <3>1, <3>2, <3>3
  <2> QED BY <2>1, <2>2
<1>9. CASE DoPass(r)
  <2> DEFINE m == Control(5, 0, 0)
  <2>1. m \in Message /\ m.id = 5
    BY ControlType DEF Control
  <2>2. chan' = Sent(chan, r, Staff(r), m)
    BY <1>9 DEF DoPass
  <2>3. \A q \in Staff(r) : New(r, r, q, m)
    BY DEF New
  <2> HIDE DEF m
  <2> QED BY SentNew, <2>1, <2>2, <2>3
<1>10. CASE DoReturn(r)
  <2>1. CASE r = 0
    BY <1>1, <1>10, <2>1 DEF DoReturn
  <2>2. CASE r # 0
    <3> DEFINE m == Control(6, 0, 0)
    <3>1. m \in Message /\ m.id = 6
      BY ControlType DEF Control
    <3>2. chan' = Sent(chan, r, {Boss(r)}, m)
      BY <1>10, <2>2 DEF DoReturn
    <3>3. New(r, r, Boss(r), m)
      BY <3>1 DEF New
    <3> HIDE DEF m
    <3> QED BY SentUpNew, <3>1, <3>2, <3>3
  <2> QED BY <2>1, <2>2
<1>3. ASSUME NEW q \in Rank, NEW m \in Message,
             \/ DoCatch(r, q, m) \/ DoHear(r, q, m) \/ DoDrain(r, q, m)
             \/ DoListen(r, q, m) \/ DoTally(r, q, m) \/ DoClear(r, q, m)
             \/ DoAck(r, q, m)
      PROVE  Goal
  <2>1. Takes(r, q, m)
    BY <1>3 DEF DoCatch, DoHear, DoDrain, DoListen, DoTally, DoClear, DoAck
  <2> QED BY <1>2, <2>1
<1>12. ASSUME NEW q \in Rank, DoQueue(r, q) \/ DoThrow(r, q)
       PROVE  Goal
  <2>1. TakesData(r, q)
    BY <1>12 DEF DoQueue, DoThrow
  <2> QED BY <1>2, <2>1
<1>11. CASE Idles \/ DoWork(r) \/ (\E m \in Message : DoFault(r, m))
              \/ DoPause(r) \/ DoLeave(r)
  <2>1. chan' = chan
    BY <1>11 DEF Idles, DoWork, DoFault, DoPause, DoLeave
  <2> QED BY <1>1, <2>1
<1> QED BY <1>3, <1>4, <1>5, <1>6, <1>7, <1>8, <1>9, <1>10, <1>11, <1>12,
           Zenon DEF Does
-----------------------------------------------------------------------------
(* The fault rank.                                                         *)

LEMMA SpreadNamed ==
  ASSUME FlowInv, LocalInv, NamedInv, NEW r \in Rank, NEW f \in Int, DoSpread(r, f)
  PROVE  /\ f \in faulted /\ Carried(f) = f
         /\ r # 0 => Judged(r)
<1>0. LocalOf(r) /\ faulted \subseteq Rank
  BY DEF LocalInv, FlowInv, TypeOK
<1>1. r # 0 => Judged(r)
  BY <1>0 DEF DoSpread, Judged, LocalOf, LocalInv, RootLocal
<1>2. f \in faulted
  <2>1. CASE r = 0
    BY <1>0, <2>1 DEF DoSpread, NamedInv, LocalInv, RootLocal
  <2>2. CASE r # 0
    BY <1>1, <2>2 DEF DoSpread, NamedInv
  <2> QED BY <2>1, <2>2
<1>3. f \in -63 .. 63
  BY <1>0, <1>2, SizeAssumption, SmallAssumption DEF Rank
<1> QED BY <1>1, <1>2, <1>3, CarriedIsFaithful

LEMMA NamedStep ==
  ASSUME FlowInv, LocalInv, EdgeInv, WaveInv, NamedInv, NEW r \in Rank, Does(r),
         Alone(r)
  PROVE  NamedInv'
<1>0. TypeOK /\ LocalOf(r) /\ faulted \subseteq Rank
  BY DEF FlowInv, LocalInv, TypeOK
<1>1. CASE r = 0 /\ DoLeave(r)
  <2>1. /\ phase[0] = "leaving" /\ chan' = chan /\ quiet' = quiet
        /\ phase'[0] = "idle"
    BY <1>1 DEF DoLeave
  <2>2. /\ \A p \in Rank : phase[p] \in {"leaving", "idle"} /\ ~quiet[p]
        /\ \A p, q \in Rank : chan[p][q] = << >>
    BY <2>1, AllLeft DEF WaveInv
  <2>3. \A p \in Rank : phase'[p] \in {"leaving", "idle"}
    BY <1>1, <2>1, <2>2 DEF Alone, Same
  <2>4. DOMAIN << >> = {}
    OBVIOUS
  <2> QED BY <2>1, <2>2, <2>3, <2>4 DEF NamedInv, Judged
<1>2. CASE ~(r = 0 /\ DoLeave(r))
  <2>1. faulted \subseteq faulted'
    BY <1>2 DEF Does, Idles, DoSend, DoWork, DoQueue, DoCatch, DoFault, DoHear,
                DoThrow, DoDrain, DoListen, DoAlert, DoSpread, DoTally, DoReport,
                DoClear, DoPause, DoCount, DoPass, DoAck, DoReturn, DoLeave
  <2>2. ASSUME NEW p \in Rank, NEW q \in Rank, NEW i \in DOMAIN chan'[p][q],
               chan'[p][q][i].id \in {1, 2}
        PROVE  chan'[p][q][i].n1 \in faulted'
    <3> DEFINE m == chan'[p][q][i]
    <3>1. Old(p, q, m) \/ New(r, p, q, m)
      BY <1>0, OldOrNew
    <3>2. CASE Old(p, q, m)
      BY <2>1, <2>2, <3>2 DEF Old, NamedInv
    <3>3. CASE New(r, p, q, m)
      <4>0. m.id \in {1, 2}
        BY <2>2
      <4> SUFFICES m.n1 \in faulted'
        OBVIOUS
      <4> HIDE DEF m
      <4>1. \/ DoAlert(r) /\ m = msg[r]
            \/ \E f \in Int : DoSpread(r, f) /\ m = Control(2, f, 0)
        BY <3>3, <4>0, DataId DEF New, Control
      <4>2. CASE DoAlert(r) /\ m = msg[r]
        BY <2>1, <4>2 DEF DoAlert, NamedInv
      <4>3. ASSUME NEW f \in Int, DoSpread(r, f), m = Control(2, f, 0)
            PROVE  m.n1 \in faulted'
        <5>1. f \in faulted /\ Carried(f) = f
          BY <4>3, SpreadNamed
        <5> QED BY <2>1, <4>3, <5>1 DEF Control
      <4> QED BY <4>1, <4>2, <4>3
    <3> QED BY <3>1, <3>2, <3>3
  <2>3. ASSUME NEW p \in Rank \ {r}
        PROVE  /\ phase'[p] = "drain" \/ quiet'[p] => msg'[p].n1 \in faulted'
               /\ Judged(p)' => frank'[p] \in faulted'
    BY <2>1 DEF Alone, Same, NamedInv, Judged
  <2> DEFINE Good == /\ phase'[r] = "drain" \/ quiet'[r] => msg'[r].n1 \in faulted'
                     /\ Judged(r)' => frank'[r] \in faulted'
             Taken(m) == m.id \in {1, 2} => m.n1 \in faulted
  <2>4. /\ phase[r] = "drain" \/ quiet[r] => msg[r].n1 \in faulted
        /\ Judged(r) => frank[r] \in faulted
    BY DEF NamedInv
  <2>5. ASSUME NEW q \in Rank, NEW m, Takes(r, q, m)
        PROVE  Taken(m)
    <3>1. \E i \in DOMAIN chan[q][r] : chan[q][r][i] = m
      BY <1>0, <2>5, TakesElement
    <3> QED BY <3>1 DEF NamedInv
  <2>6. phase[r] \in Halting => ~quiet[r]
    BY <1>0 DEF LocalOf
  <2> HIDE DEF Taken
  <2> USE DEF Judged
  <2>7. ASSUME Idles
        PROVE  Good
    BY <2>1, <2>4, <2>7 DEF Idles
  <2>8. ASSUME NEW D \in SUBSET Rank, DoSend(r, D)
        PROVE  Good
    BY <2>8 DEF DoSend
  <2>9. ASSUME DoWork(r)
        PROVE  Good
    BY <2>1, <2>4, <2>9 DEF DoWork, Early
  <2>10. ASSUME NEW q \in Rank, DoQueue(r, q)
         PROVE  Good
    BY <2>10 DEF DoQueue
  <2>11. ASSUME NEW q \in Rank, NEW m \in Message, DoCatch(r, q, m)
         PROVE  Good
    <3>1. m.id \in {1, 2} /\ Takes(r, q, m) /\ phase[r] = "task"
      BY <2>11, EarlyTakes DEF DoCatch, Early
    <3>2. m.n1 \in faulted
      BY <2>5, <3>1 DEF Taken
    <3> QED BY <2>1, <2>11, <3>1, <3>2 DEF DoCatch
  <2>12. ASSUME NEW m \in Message, DoFault(r, m)
         PROVE  Good
    <3>1. m.n1 \in faulted'
      <4>1. CASE quiet[r]
        BY <2>1, <2>4, <2>12, <4>1 DEF DoFault
      <4>2. CASE ~quiet[r]
        <5>1. r \in -63 .. 63
          BY SizeAssumption, SmallAssumption DEF Rank
        <5>2. m.n1 = r
          BY <2>12, <4>2, <5>1, CarriedIsFaithful DEF DoFault, Control
        <5> QED BY <2>12, <5>2 DEF DoFault
      <4> QED BY <4>1, <4>2
    <3> QED BY <2>12, <3>1 DEF DoFault, Enters
  <2>13. ASSUME NEW q \in Rank, NEW m \in Message, DoHear(r, q, m)
         PROVE  Good
    <3>1. m.n1 \in faulted
      BY <2>5, <2>13 DEF DoHear, Enters, Taken
    <3> QED BY <2>1, <2>13, <3>1 DEF DoHear, Enters
  <2>14. ASSUME NEW q \in Rank, DoThrow(r, q)
         PROVE  Good
    BY <2>1, <2>4, <2>14 DEF DoThrow, Quiescing
  <2>15. ASSUME NEW q \in Rank, NEW m \in Message, DoDrain(r, q, m)
         PROVE  Good
    <3>1. m.n1 \in faulted /\ id0[r] \in {1, 2}
      BY <1>0, <2>5, <2>15 DEF DoDrain, Taken, LocalOf
    <3> QED BY <2>1, <2>4, <2>15, <3>1 DEF DoDrain
  <2>16. ASSUME NEW q \in Rank, NEW m \in Message, DoListen(r, q, m)
         PROVE  Good
    <3>1. m.n1 \in faulted
      BY <2>5, <2>16 DEF DoListen, Taken
    <3> QED BY <2>1, <2>4, <2>6, <2>16, <3>1 DEF DoListen, Halting
  <2>17. ASSUME DoAlert(r)
         PROVE  Good
    BY <2>1, <2>4, <2>6, <2>17 DEF DoAlert, Halting
  <2>18. ASSUME NEW f \in Int, DoSpread(r, f)
         PROVE  Good
    <3>1. f \in faulted
      BY <2>18, SpreadNamed
    <3> QED BY <2>1, <2>4, <2>18, <3>1 DEF DoSpread
  <2>19. ASSUME NEW q \in Rank, NEW m \in Message,
                DoTally(r, q, m) \/ DoClear(r, q, m) \/ DoAck(r, q, m)
         PROVE  Good
    BY <2>1, <2>4, <2>6, <2>19 DEF DoTally, DoClear, DoAck, Halting, Quiescing
  <2>20. ASSUME \/ DoReport(r) \/ DoPause(r) \/ DoCount(r) \/ DoPass(r)
                \/ DoReturn(r) \/ DoLeave(r)
         PROVE  Good
    BY <2>1, <2>4, <2>6, <2>20
       DEF DoReport, DoPause, DoCount, DoPass, DoReturn, DoLeave, Halting
  <2>21. Good
    BY <2>7, <2>8, <2>9, <2>10, <2>11, <2>12, <2>13, <2>14, <2>15, <2>16, <2>17,
       <2>18, <2>19, <2>20, Zenon DEF Does
  <2> QED BY <2>2, <2>3, <2>21 DEF NamedInv
<1> QED BY <1>1, <1>2

\* What a rank learns of the fault rank, it learns from its boss.
LEMMA FrankLearned ==
  ASSUME FlowInv, LocalInv, EdgeInv, FrankInv, NEW s \in Rank, s # 0, Does(s)
  PROVE  /\ Judged(s)' => frank'[s] = frank[Boss(s)]
         /\ HasVerdict(s)' /\ quiet'[s] => msg'[s].n1 = frank[Boss(s)]
<1> DEFINE b == Boss(s)
           Good == /\ Judged(s)' => frank'[s] = frank[b]
                   /\ HasVerdict(s)' /\ quiet'[s] => msg'[s].n1 = frank[b]
<1>0. TypeOK /\ LocalOf(s) /\ b \in Rank /\ FrankOf(s, b) /\ NamedInv
  BY BossRank DEF FlowInv, LocalInv, FrankInv
<1>1. /\ Judged(s) => frank[s] = frank[b]
      /\ HasVerdict(s) /\ quiet[s] => msg[s].n1 = frank[b]
  BY <1>0 DEF FrankOf
<1>2. ASSUME NEW q \in Rank, NEW m, Takes(s, q, m), m.id = 2,
             phase[s] \in Early \cup {"drain", "alert", "alertdrain"}
      PROVE  m.n1 = frank[b]
  <2>1. q = b
    BY <1>2, EarlyTakes
  <2>2. \E i \in DOMAIN chan[q][s] : chan[q][s][i] = m
    BY <1>0, <1>2, TakesElement
  <2> HIDE DEF b
  <2> QED BY <1>0, <1>2, <2>1, <2>2 DEF FrankOf
<1>3. phase[s] \in Halting => ~quiet[s]
  BY <1>0 DEF LocalOf
<1> SUFFICES Good
  OBVIOUS
<1> HIDE DEF b
<1> USE DEF Judged, HasVerdict
<1>4. CASE Idles
  BY <1>1, <1>4 DEF Idles
<1>5. ASSUME NEW D \in SUBSET Rank, DoSend(s, D)
      PROVE  Good
  BY <1>5 DEF DoSend
<1>6. CASE DoWork(s)
  BY <1>6 DEF DoWork, Early
<1>7. ASSUME NEW q \in Rank, DoQueue(s, q)
      PROVE  Good
  BY <1>7 DEF DoQueue
<1>8. ASSUME NEW q \in Rank, NEW m \in Message, DoCatch(s, q, m)
      PROVE  Good
  <2>1. m.id = 2 => m.n1 = frank[b]
    BY <1>2, <1>8 DEF DoCatch, Early
  <2> QED BY <1>8, <2>1 DEF DoCatch
<1>9. ASSUME NEW m \in Message, DoFault(s, m)
      PROVE  Good
  <2>1. /\ phase[s] = "task" /\ m.id \in {1, 2} /\ phase'[s] = "drain"
        /\ ~quiet'[s] /\ id0'[s] = m.id
        /\ frank'[s] = IF m.id = 2 THEN m.n1 ELSE -1
    BY <1>9 DEF DoFault, Enters
  <2>2. m.id = 2 => quiet[s] /\ m = msg[s]
    BY <1>9 DEF DoFault, Control
  <2> QED BY <1>1, <2>1, <2>2
<1>10. ASSUME NEW q \in Rank, NEW m \in Message, DoHear(s, q, m)
       PROVE  Good
  <2>1. m.id = 2 => m.n1 = frank[b]
    BY <1>2, <1>10 DEF DoHear, Enters
  <2> QED BY <1>10, <2>1 DEF DoHear, Enters
<1>11. ASSUME NEW q \in Rank, DoThrow(s, q)
       PROVE  Good
  BY <1>1, <1>3, <1>11 DEF DoThrow, Quiescing, Halting
<1>12. ASSUME NEW q \in Rank, NEW m \in Message, DoDrain(s, q, m)
       PROVE  Good
  <2>1. m.id = 2 => m.n1 = frank[b]
    BY <1>2, <1>12 DEF DoDrain
  <2>2. id0[s] \in {1, 2}
    BY <1>0, <1>12 DEF DoDrain, LocalOf
  <2> QED BY <1>1, <1>3, <1>12, <2>1, <2>2 DEF DoDrain, Halting
<1>13. ASSUME NEW q \in Rank, NEW m \in Message, DoListen(s, q, m)
       PROVE  Good
  <2>1. m.id = 2 => m.n1 = frank[b]
    BY <1>2, <1>13 DEF DoListen
  <2> QED BY <1>1, <1>3, <1>13, <2>1 DEF DoListen, Halting
<1>14. CASE DoAlert(s)
  BY <1>3, <1>14 DEF DoAlert, Halting
<1>15. ASSUME NEW f \in Int, DoSpread(s, f)
       PROVE  Good
  <2>1. Judged(s) /\ f = frank[s] /\ frank'[s] = f
    <3>1. Judged(s)
      BY <1>0, <1>15, SpreadNamed
    <3> QED BY <1>15, <3>1 DEF DoSpread
  <2> QED BY <1>1, <1>3, <1>15, <2>1 DEF DoSpread, Halting
<1>16. ASSUME NEW q \in Rank, NEW m \in Message,
              DoTally(s, q, m) \/ DoClear(s, q, m) \/ DoAck(s, q, m)
       PROVE  Good
  BY <1>1, <1>3, <1>16 DEF DoTally, DoClear, DoAck, Quiescing, Halting
<1>17. CASE DoReport(s) \/ DoPause(s) \/ DoCount(s) \/ DoPass(s) \/ DoReturn(s)
              \/ DoLeave(s)
  BY <1>1, <1>3, <1>17 DEF DoReport, DoPause, DoCount, DoPass, DoReturn, DoLeave,
                           Halting
<1> QED BY <1>4, <1>5, <1>6, <1>7, <1>8, <1>9, <1>10, <1>11, <1>12, <1>13,
           <1>14, <1>15, <1>16, <1>17, Zenon DEF Does

LEMMA FrankStep ==
  ASSUME FlowInv, LocalInv, EdgeInv, WaveInv, FrankInv, NEW r \in Rank, Does(r),
         Alone(r)
  PROVE  FrankInv'
<1>0. TypeOK /\ NamedInv
  BY DEF FlowInv, FrankInv
<1>1. NamedInv'
  BY <1>0, NamedStep
<1> SUFFICES ASSUME NEW s \in Rank \ {0}
             PROVE  FrankOf(s, Boss(s))'
  BY <1>1 DEF FrankInv
<1> DEFINE b == Boss(s)
<1>2. /\ b \in Rank /\ b # s /\ s \in Staff(b) /\ EdgeOf(s, b) /\ FrankOf(s, b)
      /\ (b # 0 => Boss(b) # s)
  <2>1. b # 0 => Boss(b) # s
    BY BossRank, RankInt
  <2> QED BY <2>1, BossRank, RankInt DEF EdgeInv, FrankInv
<1> HIDE DEF b
<1>3. frank'[b] # frank[b] => Apart(s, b)
  <2>1. r # b => frank'[b] = frank[b]
    BY <1>2 DEF Alone, Same
  <2>2. ASSUME r = b, frank'[b] # frank[b]
        PROVE  phase[b] \in Early \cup {"drain", "alert", "alertdrain"}
    BY <2>2 DEF Does, Idles, DoSend, DoWork, DoQueue, DoCatch, DoFault, DoHear,
                DoThrow, DoDrain, DoListen, DoAlert, DoSpread, DoTally, DoReport,
                DoClear, DoPause, DoCount, DoPass, DoAck, DoReturn, DoLeave,
                Enters, Early
  <2> QED BY <1>2, <2>1, <2>2 DEF EdgeOf, Told, Aware, Reporting, Counting,
                                  Clearing, Quiescing, Early
<1>4. Apart(s, b) => ~Judged(s) /\ ~HasVerdict(s) /\ Plain(chan[b][s])
  BY DEF Apart, HasVerdict, Judged, Outside
<1>5. ASSUME NEW i \in DOMAIN chan'[b][s], chan'[b][s][i].id = 2
      PROVE  chan'[b][s][i].n1 = frank'[b]
  <2> DEFINE m == chan'[b][s][i]
  <2>0. m.id = 2 /\ (Old(b, s, m) \/ New(r, b, s, m))
    BY <1>0, <1>2, <1>5, OldOrNew
  <2> SUFFICES m.n1 = frank'[b]
    OBVIOUS
  <2> HIDE DEF m
  <2>1. CASE Old(b, s, m)
    <3>1. m.n1 = frank[b]
      BY <1>2, <2>0, <2>1 DEF Old, FrankOf
    <3>2. ~Plain(chan[b][s])
      BY <2>0, <2>1, DataId DEF Old, Plain
    <3> QED BY <1>3, <1>4, <3>1, <3>2
  <2>2. CASE New(r, b, s, m)
    <3>1. r = b /\ \E f \in Int : DoSpread(r, f) /\ m = Control(2, f, 0)
      <4>1. ~(DoAlert(r) /\ r = b /\ s = Boss(r))
        BY <1>2 DEF DoAlert
      <4> QED BY <2>0, <2>2, <4>1, DataId DEF New, Control
    <3>2. PICK f \in Int : DoSpread(r, f) /\ m = Control(2, f, 0)
      BY <3>1
    <3>3. Carried(f) = f
      BY <1>0, <3>2, SpreadNamed
    <3>4. frank'[b] = f
      BY <3>1, <3>2 DEF DoSpread
    <3> QED BY <3>2, <3>3, <3>4 DEF Control
  <2> QED BY <2>0, <2>1, <2>2
<1>6. /\ Judged(s)' => frank'[s] = frank'[b]
      /\ HasVerdict(s)' /\ quiet'[s] => msg'[s].n1 = frank'[b]
  <2>1. CASE r = s
    <3>1. frank'[b] = frank[b]
      BY <1>2, <2>1 DEF Alone, Same
    <3> QED BY <2>1, <3>1, FrankLearned DEF b
  <2>2. CASE r # s
    <3>1. Same(s)
      BY <2>2 DEF Alone
    <3>2. /\ Judged(s)' = Judged(s) /\ HasVerdict(s)' = HasVerdict(s)
          /\ frank'[s] = frank[s] /\ quiet'[s] = quiet[s] /\ msg'[s] = msg[s]
      BY <3>1 DEF Same, Judged, HasVerdict
    <3> QED BY <1>2, <1>3, <1>4, <3>2 DEF FrankOf
  <2> QED BY <2>1, <2>2
<1>7. FrankOf(s, b)'
  BY <1>5, <1>6 DEF FrankOf
<1> QED BY <1>7 DEF b
-----------------------------------------------------------------------------
(* The wave of id=5 and id=6.                                              *)

\* What rank 0 finds when nothing is outstanding.
Settled == Hushed /\ \A r \in Rank : Unreported(r) = 0

LEMMA WaveGoes ==
  ASSUME FlowInv, LocalInv, EdgeInv, WaveInv, phase[0] \in {"ack", "leaving"},
         phase'[0] \in {"ack", "leaving"}, NEW r \in Rank, Does(r), Alone(r)
  PROVE  WaveInv'
<1>0. /\ TypeOK
      /\ \A p \in Rank : /\ phase[p] \in Stopped \cup {"idle"}
                         /\ mpyQueue[p] = << >> /\ ~quiet[p]
                         /\ Unreported(p) = 0
                         /\ frank[p] = frank[0] /\ frank[0] \in faulted
  BY DEF FlowInv, WaveInv
<1>1. \/ Idles
      \/ \E q \in Rank, m \in Message : DoClear(r, q, m) /\ m.id = 5
      \/ DoPause(r) \/ DoPass(r)
      \/ \E q \in Rank, m \in Message : DoAck(r, q, m)
      \/ DoReturn(r) \/ DoLeave(r)
  BY WaveDoes
<1>2. \A p, q \in Rank : \A i \in DOMAIN chan'[p][q] : chan'[p][q][i].id \in {5, 6}
  <2> SUFFICES ASSUME NEW p \in Rank, NEW q \in Rank, NEW i \in DOMAIN chan'[p][q]
               PROVE  chan'[p][q][i].id \in {5, 6}
    OBVIOUS
  <2>1. Old(p, q, chan'[p][q][i]) \/ New(r, p, q, chan'[p][q][i])
    BY <1>0, OldOrNew
  <2>2. New(r, p, q, chan'[p][q][i]) => chan'[p][q][i].id \in {5, 6}
    <3>1. Control(5, 0, 0).id = 5
      BY DEF Control
    <3> QED BY <3>1, WaveDoes DEF New
  <2> QED BY <2>1, <2>2 DEF Old, WaveInv
<1> DEFINE Good ==
             /\ phase'[r] \in Stopped \cup {"idle"}
             /\ mpyQueue'[r] = << >> /\ ~quiet'[r] /\ Unreported(r)' = 0
             /\ frank' = frank /\ faulted' = faulted
             /\ phase[r] \in {"leaving", "idle"} => phase'[r] \in {"leaving", "idle"}
             /\ phase'[r] \in {"leaving", "idle"} =>
                  phase[r] \in {"leaving", "idle"} \/ DoReturn(r)
<1>3. Good
  <2>1. /\ phase[r] \in Stopped \cup {"idle"} /\ mpyQueue[r] = << >> /\ ~quiet[r]
        /\ phase[r] \in Quiescing => count[r] - mpyNet[r] = 0
    BY <1>0 DEF Unreported, Quiescing
  <2>2. ASSUME Idles
        PROVE  Good
    BY <2>1, <2>2 DEF Idles, Unreported, Quiescing
  <2>3. ASSUME NEW q \in Rank, NEW m \in Message, DoClear(r, q, m), m.id = 5
        PROVE  Good
    BY <2>1, <2>3 DEF DoClear, Unreported, Quiescing, Stopped
  <2>4. ASSUME DoPause(r) \/ DoPass(r)
        PROVE  Good
    BY <2>1, <2>4 DEF DoPause, DoPass, Unreported, Quiescing, Stopped
  <2>5. ASSUME NEW q \in Rank, NEW m \in Message, DoAck(r, q, m)
        PROVE  Good
    BY <2>1, <2>5 DEF DoAck, Unreported, Quiescing, Stopped
  <2>6. ASSUME DoReturn(r)
        PROVE  Good
    BY <2>1, <2>6 DEF DoReturn, Unreported, Quiescing, Stopped
  <2>7. ASSUME DoLeave(r)
        PROVE  Good
    <3>1. r # 0
      BY <2>7 DEF DoLeave
    <3> QED BY <2>1, <2>7, <3>1 DEF DoLeave, Unreported, Quiescing, Stopped
  <2> QED BY <1>1, <2>2, <2>3, <2>4, <2>5, <2>6, <2>7, Zenon
<1>4. ASSUME NEW p \in Rank, p # r
      PROVE  /\ phase'[p] = phase[p] /\ mpyQueue'[p] = mpyQueue[p]
             /\ quiet'[p] = quiet[p] /\ Unreported(p)' = Unreported(p)
  BY <1>4 DEF Alone, Same, Unreported
<1>5. \A p \in Rank : /\ phase'[p] \in Stopped \cup {"idle"}
                      /\ mpyQueue'[p] = << >> /\ ~quiet'[p]
                      /\ Unreported(p)' = 0
                      /\ frank'[p] = frank'[0] /\ frank'[0] \in faulted'
  BY <1>0, <1>3, <1>4
<1>6. ASSUME NEW s \in Rank \ {0}, phase'[Boss(s)] \in {"leaving", "idle"}
      PROVE  phase'[s] \in {"leaving", "idle"}
  <2>0. Boss(s) \in Rank /\ Boss(s) # s /\ s \in Staff(Boss(s)) /\ EdgeOf(s, Boss(s))
    BY BossRank, RankInt DEF EdgeInv
  <2>1. CASE phase[Boss(s)] \in {"leaving", "idle"}
    <3>1. phase[s] \in {"leaving", "idle"}
      BY <2>1 DEF WaveInv
    <3> QED BY <1>3, <1>4, <3>1
  <2>2. CASE phase[Boss(s)] \notin {"leaving", "idle"}
    <3>1. r = Boss(s) /\ DoReturn(r)
      BY <1>3, <1>4, <1>6, <2>0, <2>2
    <3>2. phase[r] = "ack" /\ tally[r][s] = 2
      BY <2>0, <3>1 DEF DoReturn, AllAcked
    <3>3. phase[s] \in {"leaving", "idle"}
      BY <2>0, <3>1, <3>2 DEF EdgeOf, Apart, Told, Aware, Reporting, Counting,
                              Clearing, Outside, Working, Quiescing
    <3> QED BY <1>4, <2>0, <3>1, <3>3
  <2> QED BY <2>1, <2>2
<1> QED BY <1>2, <1>5, <1>6 DEF WaveInv

\* Rank 0 finds nothing outstanding.
LEMMA WaveStarts ==
  ASSUME FlowInv, LocalInv, EdgeInv, FrankInv, Settled, DoPass(0), Alone(0)
  PROVE  WaveInv'
<1>0. TypeOK /\ 0 \in Rank /\ NamedInv
  BY ZeroRank DEF FlowInv, FrankInv
<1>1. phase[0] \in Quiescing /\ phase'[0] = "ack"
  BY DEF DoPass, Quiescing
<1>2. /\ \A p \in Rank : phase[p] \in Quiescing
      /\ UNCHANGED <<mpyNet, mpyQueue, quiet, frank, count, faulted>>
  BY <1>1, AllQuiescing DEF DoPass
<1>3. \A p \in Rank : phase'[p] \in Quiescing \cup {"ack"}
  BY <1>1, <1>2 DEF Alone, Same
<1>4. \A p \in Rank : mpyQueue[p] = << >> /\ ~quiet[p]
  BY <1>2 DEF LocalInv, LocalOf, Quiescing, Halting
<1>5. \A p \in Rank : Unreported(p)' = 0
  <2> SUFFICES ASSUME NEW p \in Rank
               PROVE  Unreported(p)' = 0
    OBVIOUS
  <2>1. count[p] - mpyNet[p] = 0
    BY <1>2 DEF Settled, Unreported, Quiescing
  <2> QED BY <1>2, <2>1 DEF Unreported
<1>6. \A p \in Rank : frank[p] = frank[0] /\ frank[0] \in faulted
  BY <1>0, <1>2, OneFrank DEF Judging, NamedInv, Judged, Quiescing
<1>7. \A p, q \in Rank : \A i \in DOMAIN chan'[p][q] : chan'[p][q][i].id \in {5, 6}
  <2> SUFFICES ASSUME NEW p \in Rank, NEW q \in Rank, NEW i \in DOMAIN chan'[p][q]
               PROVE  chan'[p][q][i].id \in {5, 6}
    OBVIOUS
  <2> DEFINE m == Control(5, 0, 0)
  <2>0. m \in Message /\ m.id = 5
    BY ControlType DEF Control
  <2>1. chan' = Sent(chan, 0, Staff(0), m)
    BY DEF DoPass
  <2> HIDE DEF m
  <2>2. Old(p, q, chan'[p][q][i]) \/ chan'[p][q][i] = m
    BY <1>0, <2>0, <2>1, SentKeeps
  <2> QED BY <2>0, <2>2 DEF Old, Settled, Hushed
<1>8. \A p \in Rank : /\ phase'[p] \in Stopped \cup {"idle"}
                      /\ phase'[p] \notin {"leaving", "idle"}
                      /\ mpyQueue'[p] = << >> /\ ~quiet'[p]
                      /\ Unreported(p)' = 0
                      /\ frank'[p] = frank'[0] /\ frank'[0] \in faulted'
  <2>1. \A p \in Rank : /\ phase'[p] \in Stopped \cup {"idle"}
                        /\ phase'[p] \notin {"leaving", "idle"}
    BY <1>3 DEF Stopped, Quiescing
  <2>2. \A p \in Rank : /\ mpyQueue'[p] = << >> /\ ~quiet'[p]
                        /\ frank'[p] = frank'[0] /\ frank'[0] \in faulted'
    BY <1>2, <1>4, <1>6
  <2> QED BY <1>5, <2>1, <2>2
<1>9. \A s \in Rank \ {0} : Boss(s) \in Rank
  BY BossRank
<1> QED BY <1>7, <1>8, <1>9 DEF WaveInv

LEMMA WaveStep ==
  ASSUME FlowInv, LocalInv, EdgeInv, WaveInv, FrankInv, NEW r \in Rank, Does(r),
         Alone(r), r = 0 /\ DoPass(0) => Settled
  PROVE  WaveInv'
<1>0. 0 \in Rank
  BY ZeroRank
<1>1. CASE phase'[0] \notin {"ack", "leaving"}
  BY <1>1 DEF WaveInv
<1>2. CASE phase[0] \in {"ack", "leaving"} /\ phase'[0] \in {"ack", "leaving"}
  BY <1>2, WaveGoes
<1>3. CASE phase[0] \notin {"ack", "leaving"} /\ phase'[0] \in {"ack", "leaving"}
  <2>1. r = 0
    BY <1>0, <1>3 DEF Alone, Same
  <2>2. DoPass(0)
    BY <1>3, <2>1 DEF Does, Idles, DoSend, DoWork, DoQueue, DoCatch, DoFault,
                DoHear, DoThrow, DoDrain, DoListen, DoAlert, DoSpread, DoTally,
                DoReport, DoClear, DoPause, DoCount, DoAck, DoReturn, DoLeave,
                Enters, Early
  <2> QED BY <2>1, <2>2, WaveStarts
<1> QED BY <1>1, <1>2, <1>3
=============================================================================
