------------------------------ MODULE MpyRound ------------------------------
(***************************************************************************)
(* What a round of error recovery keeps true, from the first fault until   *)
(* rank 0 is back in serial mode: the inductive invariant behind the       *)
(* safety properties of MpyRecover.  MpyRecoverProofs proves its parts but *)
(* the sums, MpyHaltProofs the sums.                                       *)
(***************************************************************************)
EXTENDS MpyRecover

Quiescing == {"clear", "clearing"}
Outside == {"task", "sending", "idle", "leaving"}

\* A rank that has not alerted its boss in this round.
Silent == Outside \cup {"drain"}

-----------------------------------------------------------------------------
(* What a channel may hold.                                                *)

\* Data only; data, then perhaps one alert; data, then the verdict.
Plain(c) == \A i \in DOMAIN c : c[i] = Data
MaybeAlert(c) ==
  \A i \in DOMAIN c : c[i] = Data \/ (c[i].id = 1 /\ i = Len(c))
WithVerdict(c) ==
  /\ c # <<>> /\ c[Len(c)].id = 2
  /\ \A i \in DOMAIN c : i < Len(c) => c[i] = Data

\* Data, perhaps an alert, id=3, and any number of id=4.
WithReport(c) ==
  \E k \in DOMAIN c :
    /\ c[k].id = 3
    /\ \A i \in DOMAIN c :
         /\ i > k => c[i].id = 4
         /\ i < k => c[i] = Data \/ (c[i].id = 1 /\ i = k - 1)

Counts(c) == \A i \in DOMAIN c : c[i].id = 4
Only(c, id) == Len(c) = 1 /\ c[1].id = id

-----------------------------------------------------------------------------
(* One rank.                                                               *)

LocalOf(r) ==
  /\ phase[r] \in Halting => mpyQueue[r] = <<>> /\ ~quiet[r]
  /\ quiet[r] => phase[r] \in {"task", "idle"} /\ msg[r].id \in {1, 2}
  /\ phase[r] = "drain" => id0[r] \in {1, 2}
  /\ phase[r] \in {"drain", "alert", "alertdrain"} =>
       \A q \in Rank : tally[r][q] = 0
  /\ phase[r] = "clear" => count[r] = mpyNet[r]
  /\ phase[r] = "clearing" => mpyNet[r] <= count[r]
  /\ \A q \in Rank : tally[r][q] # 0 => q \in Staff(r)

\* Rank 0 has no boss: it is never told, never alerts and never hears id=5.
RootLocal ==
  /\ phase[0] \notin {"alert", "alertdrain"}
  /\ phase[0] = "drain" => id0[0] = 1
  /\ quiet[0] => msg[0].id = 1
  /\ phase[0] = "clearing" => heard[0] = 4

LocalInv == RootLocal /\ \A r \in Rank : LocalOf(r)

-----------------------------------------------------------------------------
(* One edge of the tree.                                                   *)

\* s has the verdict of its boss, but has not reported.
HasVerdict(s) ==
  \/ phase[s] \in {"alertdrain", "tally"}
  \/ phase[s] = "drain" /\ id0[s] = 2
  \/ phase[s] = "task" /\ quiet[s] /\ msg[s].id = 2

\* The boss has not passed a verdict in this round, or no longer.
Apart(s, b) ==
  /\ phase[s] \in Outside \cup {"drain", "alert"}
  /\ phase[b] \in Outside \cup {"drain", "alert", "alertdrain"}
  /\ ~HasVerdict(s)
  /\ Plain(chan[b][s])
  /\ MaybeAlert(chan[s][b])
  /\ phase[s] \in Silent => Plain(chan[s][b])

\* The verdict is on its way to s.
Told(s, b) ==
  /\ phase[s] \in Outside \cup {"drain", "alert"}
  /\ phase[b] = "tally" /\ tally[b][s] = 0
  /\ ~HasVerdict(s)
  /\ WithVerdict(chan[b][s])
  /\ MaybeAlert(chan[s][b])
  /\ phase[s] \in Silent => Plain(chan[s][b])

\* s has received the verdict; under a catch it may have lost it again.
Aware(s, b) ==
  /\ phase[s] \in Working \cup {"idle", "drain", "alert", "alertdrain", "tally"}
  /\ phase[b] = "tally" /\ tally[b][s] = 0
  /\ Plain(chan[b][s])
  /\ MaybeAlert(chan[s][b])
  /\ phase[s] \in Silent => Plain(chan[s][b])

\* id=3 of s is on its way.
Reporting(s, b) ==
  /\ phase[s] \in Quiescing
  /\ phase[s] = "clearing" => heard[s] = 4
  /\ phase[b] = "tally" /\ tally[b][s] = 0
  /\ Plain(chan[b][s])
  /\ WithReport(chan[s][b])

\* Its boss counts on s, and on the id=4 that s still sends.
Counting(s, b) ==
  /\ phase[s] \in Quiescing
  /\ phase[s] = "clearing" => heard[s] = 4
  /\ phase[b] \in {"tally"} \cup Quiescing /\ tally[b][s] = 1
  /\ Plain(chan[b][s])
  /\ Counts(chan[s][b])

\* id=5 is on its way, has come, has been passed on; id=6 is on its way, has
\* come.
Clearing(s, b) ==
  /\ phase[b] = "ack"
  /\ \/ /\ tally[b][s] = 1 /\ chan[s][b] = <<>>
        /\ \/ /\ phase[s] \in Quiescing /\ Only(chan[b][s], 5)
              /\ phase[s] = "clearing" => heard[s] = 4
           \/ phase[s] = "clearing" /\ heard[s] = 5 /\ chan[b][s] = <<>>
           \/ phase[s] = "ack" /\ chan[b][s] = <<>>
     \/ /\ tally[b][s] = 1 /\ Only(chan[s][b], 6) /\ chan[b][s] = <<>>
        /\ phase[s] \in {"leaving", "idle"}
     \/ /\ tally[b][s] = 2 /\ chan[s][b] = <<>> /\ chan[b][s] = <<>>
        /\ phase[s] \in {"leaving", "idle"}

EdgeOf(s, b) ==
  \/ Apart(s, b)
  \/ Told(s, b)
  \/ Aware(s, b)
  \/ Reporting(s, b)
  \/ Counting(s, b)
  \/ Clearing(s, b)

EdgeInv == \A s \in Rank \ {0} : EdgeOf(s, Boss(s))

-----------------------------------------------------------------------------
(* Data.                                                                   *)

DataInv ==
  /\ sends <= MaxSends
  /\ \A q, r \in Rank : \A i \in DOMAIN chan[q][r] :
       chan[q][r][i] = Data =>
         i <= sends /\ \A j \in 1 .. i : chan[q][r][j] = Data

-----------------------------------------------------------------------------
(* The fault rank.                                                         *)

Judged(r) ==
  \/ phase[r] \in {"alertdrain", "tally", "clear", "clearing", "ack"}
  \/ phase[r] = "drain" /\ id0[r] = 2

NamedInv ==
  /\ \A q, r \in Rank : \A i \in DOMAIN chan[q][r] :
       chan[q][r][i].id \in {1, 2} => chan[q][r][i].n1 \in faulted
  /\ \A r \in Rank :
       /\ phase[r] = "drain" \/ quiet[r] => msg[r].n1 \in faulted
       /\ Judged(r) => frank[r] \in faulted

FrankOf(s, b) ==
  /\ \A i \in DOMAIN chan[b][s] :
       chan[b][s][i].id = 2 => chan[b][s][i].n1 = frank[b]
  /\ Judged(s) => frank[s] = frank[b]
  /\ HasVerdict(s) /\ quiet[s] => msg[s].n1 = frank[b]

FrankInv == NamedInv /\ \A s \in Rank \ {0} : FrankOf(s, Boss(s))

-----------------------------------------------------------------------------
(* The end of a round.                                                     *)

WaveInv ==
  phase[0] \in {"ack", "leaving"} =>
    /\ \A q, r \in Rank : \A i \in DOMAIN chan[q][r] :
         chan[q][r][i].id \in {5, 6}
    /\ \A r \in Rank :
         /\ phase[r] \in Stopped \cup {"idle"}
         /\ mpyQueue[r] = <<>> /\ ~quiet[r]
         /\ Unreported(r) = 0
         /\ frank[r] = frank[0] /\ frank[0] \in faulted
    /\ \A s \in Rank \ {0} : phase[Boss(s)] \in {"leaving", "idle"} =>
         phase[s] \in {"leaving", "idle"}

-----------------------------------------------------------------------------
(* The count.                                                              *)

\* Data messages r has dropped that its boss has not heard of.
Awaited(r) == OnItsWay(r) + Unreported(r)

\* S[r] data messages were sent, and V[r] received, on the account of r: what
\* its staff has reported is on its account, what it has reported is no longer.
AccountOf(r, S, V) ==
  /\ phase[r] \in Outside \cup {"drain", "alert", "alertdrain"} =>
       mpyNet[r] = S[r] - V[r]
  /\ phase[r] = "tally" => mpyNet[r] + net[r] = S[r] - V[r]
  /\ phase[r] \in Quiescing =>
       /\ Awaited(r) <= V[r]
       /\ r = 0 => net[0] - Awaited(0) = S[0] - V[0]
       /\ r # 0 /\ tally[Boss(r)][r] = 0 =>
            \A i \in DOMAIN chan[r][Boss(r)] :
              chan[r][Boss(r)][i].id = 3 =>
                chan[r][Boss(r)][i].n1 - Awaited(r) = S[r] - V[r]
       /\ r # 0 /\ tally[Boss(r)][r] # 0 => S[r] + Awaited(r) = V[r]

Total(f) == MapThenSumSet(LAMBDA r : f[r], Rank)
Totals(S, V) ==
  Total(S) = sends /\ Total(V) + Cardinality(InTransit) = sends

CreditInv ==
  /\ \E S, V \in [Rank -> 0 .. MaxSends] :
       /\ \A r \in Rank : mpyNet[r] = S[r] - V[r]
       /\ Totals(S, V)
  /\ phase[0] \notin {"ack", "leaving"} =>
       \E S, V \in [Rank -> 0 .. MaxSends] :
         (\A r \in Rank : AccountOf(r, S, V)) /\ Totals(S, V)
  /\ \A q, r \in Rank : \A i \in DOMAIN chan[q][r] :
       chan[q][r][i].id = 4 => chan[q][r][i].n1 >= 1

PendingInv ==
  Cardinality(InTransit) + MapThenSumSet(LAMBDA r : Len(mpyQueue[r]), Rank)
    <= sends

-----------------------------------------------------------------------------

\* All of it, for every reachable state.
RoundInv ==
  /\ LocalInv /\ EdgeInv /\ DataInv /\ FrankInv /\ WaveInv
  /\ CreditInv /\ PendingInv
-----------------------------------------------------------------------------
(* A single fault.                                                         *)

\* The alerts that are about: at a rank that is to pass one on, or between two
\* ranks.
Alerts ==
  {<<r, r>> : r \in {p \in Rank : phase[p] = "drain" /\ id0[p] = 1}}
  \cup {e \in Rank \X Rank :
          \E i \in DOMAIN chan[e[1]][e[2]] : chan[e[1]][e[2]][i].id = 1}

\* The fault has raised one alert, which stops where it is first listened to,
\* or turned into the verdict by rank 0.
OneAlert ==
  /\ Cardinality(faulted) <= MaxFaults
  /\ \A a, b \in Alerts : a = b
  /\ Alerts # {} =>
       faulted # {} /\ phase[0] \notin {"tally", "clear", "clearing", "ack"}
  /\ \A r \in faulted : phase[r] \in Halted \/ phase[0] \in {"ack", "leaving"}
=============================================================================
