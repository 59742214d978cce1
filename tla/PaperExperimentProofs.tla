----------------------- MODULE PaperExperimentProofs -----------------------
(***************************************************************************)
(* Proofs about PaperRuntime and PaperExperiment, for any markets, kinds   *)
(* of row, thresholds and caps, any number of rows, polls and experiments. *)
(***************************************************************************)
EXTENDS PaperExperiment, SequenceLemmas

-----------------------------------------------------------------------------
(* The operators of the row selection.                                      *)

\* Ascending lists the elements of a finite set of numbers, each once, in order.
LEMMA AscendingFacts ==
    ASSUME NEW n \in Nat, NEW I \in SUBSET (1 .. n)
    PROVE  /\ Cardinality(I) \in Nat
           /\ \A a \in 1 .. Cardinality(I) : Ascending(I)[a] \in I
           /\ \A a, b \in 1 .. Cardinality(I) :
                 a < b => Ascending(I)[a] < Ascending(I)[b]
<1> DEFINE N == Cardinality(I)
           Upto(i) == {j \in I : j <= i}
           rank == [i \in I |-> Cardinality(Upto(i))]
<1>1. IsFiniteSet(I) /\ N \in Nat
  <2>1. IsFiniteSet(1 .. n)
    BY FS_Interval
  <2>2. IsFiniteSet(I)
    BY <2>1, FS_Subset
  <2>3. QED BY <2>2, FS_CardinalityType
<1>2. \A i \in I : IsFiniteSet(Upto(i)) /\ Cardinality(Upto(i)) \in 1 .. N
  <2> TAKE i \in I
  <2>1. Upto(i) \in SUBSET I /\ i \in Upto(i)
    OBVIOUS
  <2>2. IsFiniteSet(Upto(i)) /\ Cardinality(Upto(i)) <= N
    BY <1>1, <2>1, FS_Subset
  <2>3. Cardinality(Upto(i)) \in Nat /\ Cardinality(Upto(i)) # 0
    BY <2>1, <2>2, FS_CardinalityType, FS_EmptySet
  <2>4. QED BY <1>1, <2>2, <2>3
<1>3. \A i, k \in I : i < k => Cardinality(Upto(i)) < Cardinality(Upto(k))
  <2> TAKE i, k \in I
  <2> HAVE i < k
  <2>1. Upto(i) \in SUBSET Upto(k) /\ k \in Upto(k) /\ k \notin Upto(i)
    <3>1. \A j \in I : j \in Int
      OBVIOUS
    <3>2. \A j \in I : j <= i => j <= k
      BY <3>1
    <3>3. k <= k /\ ~(k <= i)
      BY <3>1
    <3>4. QED BY <3>2, <3>3, Zenon
  <2>2. Cardinality(Upto(i)) <= Cardinality(Upto(k))
    BY <1>2, <2>1, FS_Subset
  <2>3. Cardinality(Upto(i)) # Cardinality(Upto(k))
    BY <1>2, <2>1, FS_Subset
  <2>4. QED BY <1>1, <1>2, <2>2, <2>3
<1> HIDE DEF Upto
<1>4. rank \in Injection(I, 1 .. N)
  <2>1. rank \in [I -> 1 .. N]
    BY <1>2
  <2>2. \A i, k \in I : rank[i] = rank[k] => i = k
    <3> TAKE i, k \in I
    <3>1. i < k \/ k < i \/ i = k
      OBVIOUS
    <3>2. QED BY <1>1, <1>2, <1>3, <3>1
  <2>3. QED BY <2>1, <2>2 DEF Injection, IsInjective
<1>5. \A a \in 1 .. N : \E i \in I : Cardinality(Upto(i)) = a
  <2>1. IsFiniteSet(1 .. N) /\ Cardinality(1 .. N) = N
    BY <1>1, FS_Interval
  <2>2. rank \in Surjection(I, 1 .. N)
    BY <1>4, <2>1, FS_Injection
  <2>3. QED BY <2>2 DEF Surjection
<1>6. ASSUME NEW a \in 1 .. N
      PROVE  Ascending(I)[a] \in I /\ Cardinality(Upto(Ascending(I)[a])) = a
  <2>1. Ascending(I)[a] = CHOOSE i \in I : Cardinality(Upto(i)) = a
    BY DEF Ascending, Upto
  <2>2. QED BY <1>5, <2>1
<1>7. ASSUME NEW a \in 1 .. N, NEW b \in 1 .. N, a < b
      PROVE  Ascending(I)[a] < Ascending(I)[b]
  <2> DEFINE x == Ascending(I)[a]
             y == Ascending(I)[b]
  <2>1. x \in I /\ y \in I /\ Cardinality(Upto(x)) = a /\ Cardinality(Upto(y)) = b
    BY <1>6
  <2> HIDE DEF x, y
  <2>2. x \in Int /\ y \in Int /\ a \in Int /\ b \in Int
    BY <2>1
  <2>3. ~(y < x)
    BY <1>3, <1>7, <2>1, <2>2
  <2>4. x # y
    BY <1>7, <2>1, <2>2
  <2>5. x < y
    BY <2>2, <2>3, <2>4
  <2>6. QED BY <2>5 DEF x, y
<1>8. QED BY <1>1, <1>6, <1>7

\* At picks elements of the sequence, no place twice.
LEMMA AtFacts ==
    ASSUME NEW S, NEW s \in Seq(S), NEW I \in SUBSET (DOMAIN s)
    PROVE  /\ At(s, I) \in Seq(S)
           /\ \A a \in DOMAIN At(s, I) :
                 Ascending(I)[a] \in I /\ At(s, I)[a] = s[Ascending(I)[a]]
           /\ \A a, b \in DOMAIN At(s, I) :
                 a # b => Ascending(I)[a] # Ascending(I)[b]
<1>1. Len(s) \in Nat /\ DOMAIN s = 1 .. Len(s) /\ \A i \in 1 .. Len(s) : s[i] \in S
  BY LenProperties
<1>2. /\ Cardinality(I) \in Nat
      /\ \A a \in 1 .. Cardinality(I) : Ascending(I)[a] \in I
      /\ \A a, b \in 1 .. Cardinality(I) : a < b => Ascending(I)[a] < Ascending(I)[b]
  BY <1>1, AscendingFacts
<1>3. DOMAIN At(s, I) = 1 .. Cardinality(I)
  BY DEF At
<1>4. \A a \in 1 .. Cardinality(I) : At(s, I)[a] = s[Ascending(I)[a]]
  BY DEF At
<1>5. At(s, I) \in Seq(S)
  <2>1. \A a \in 1 .. Cardinality(I) : s[Ascending(I)[a]] \in S
    BY <1>1, <1>2
  <2>2. QED BY <1>2, <2>1, IsASeq DEF At
<1>6. ASSUME NEW a \in 1 .. Cardinality(I), NEW b \in 1 .. Cardinality(I), a # b
      PROVE  Ascending(I)[a] # Ascending(I)[b]
  <2>1. Ascending(I)[a] \in Int /\ Ascending(I)[b] \in Int
    BY <1>1, <1>2
  <2>2. a < b \/ b < a
    BY <1>2, <1>6
  <2>3. QED BY <1>2, <2>1, <2>2
<1>7. QED BY <1>2, <1>3, <1>4, <1>5, <1>6

\* LastOf drops some elements at the head and nothing else.
LEMMA LastOfFacts ==
    ASSUME NEW S, NEW s \in Seq(S), NEW n \in Nat \ {0}
    PROVE  /\ LastOf(s, n) \in Seq(S)
           /\ \E k \in Nat :
                 /\ k + Len(LastOf(s, n)) = Len(s)
                 /\ \A j \in 1 .. Len(LastOf(s, n)) : LastOf(s, n)[j] = s[j + k]
<1>1. Len(s) \in Nat
  OBVIOUS
<1>2. CASE Len(s) <= n
  <2>1. LastOf(s, n) = s
    BY <1>2 DEF LastOf
  <2>2. \A j \in 1 .. Len(s) : s[j] = s[j + 0]
    BY <1>1
  <2>3. 0 \in Nat /\ 0 + Len(s) = Len(s)
    BY <1>1
  <2>4. QED BY <2>1, <2>2, <2>3
<1>3. CASE ~(Len(s) <= n)
  <2> DEFINE k == Len(s) - n
  <2>1. k \in Nat /\ k + 1 \in 1 .. Len(s) + 1 /\ k + n = Len(s)
    BY <1>1, <1>3
  <2>2. LastOf(s, n) = SubSeq(s, k + 1, Len(s))
    BY <1>3 DEF LastOf
  <2> HIDE DEF k
  <2>3. /\ SubSeq(s, k + 1, Len(s)) \in Seq(S)
        /\ Len(SubSeq(s, k + 1, Len(s))) = Len(s) - k
        /\ \A j \in 1 .. Len(s) - k : SubSeq(s, k + 1, Len(s))[j] = s[k + j]
    <3>1. \A j \in k + 1 .. Len(s) : s[j] \in S
      BY <1>1, <2>1
    <3>2. QED BY SMTT(30), <1>1, <2>1, <3>1, SubSeqProperties
  <2>4. \A j \in 1 .. Len(s) - k : k + j = j + k
    BY <1>1, <2>1
  <2>5. QED BY <1>1, <2>1, <2>2, <2>3, <2>4
<1>4. QED BY <1>2, <1>3

\* A ticker that has a row has a newest one.
LEMMA NewestFacts ==
    ASSUME NEW rows \in Seq(Rows), NEW i0 \in DOMAIN rows
    PROVE  LET m == Newest(rows, rows[i0].ticker)
           IN  m \in DOMAIN rows /\ rows[m].ticker = rows[i0].ticker
<1> DEFINE Its == {j \in DOMAIN rows : rows[j].ticker = rows[i0].ticker}
           Beats(i, j) == \/ rows[j].asOf < rows[i].asOf
                          \/ rows[j].asOf = rows[i].asOf /\ j <= i
           HasBest(n) == (\E j \in Its : j <= n)
                            => \E i \in Its : /\ i <= n
                                              /\ \A j \in Its : j <= n => Beats(i, j)
<1>1. /\ Len(rows) \in Nat /\ DOMAIN rows = 1 .. Len(rows)
      /\ \A j \in 1 .. Len(rows) : rows[j].asOf \in Nat
  <2>1. /\ Len(rows) \in Nat /\ DOMAIN rows = 1 .. Len(rows)
        /\ \A j \in 1 .. Len(rows) : rows[j] \in Rows
    BY LenProperties
  <2>2. \A r \in Rows : r.asOf \in Nat
    BY DEF Rows
  <2>3. QED BY <2>1, <2>2
<1>2. Its \subseteq 1 .. Len(rows) /\ i0 \in Its
  BY <1>1
<1>3. \A j \in Its : j \in Nat /\ rows[j].asOf \in Nat
  BY <1>1, <1>2
<1> HIDE DEF Its
<1>4. HasBest(Len(rows))
  <2> DEFINE Bad == {n \in 0 .. Len(rows) : ~HasBest(n)}
  <2> SUFFICES ASSUME Bad # {} PROVE FALSE
    BY <1>1
  <2>1. Bad \subseteq Nat
    BY <1>1
  <2> HIDE DEF HasBest
  <2>2. PICK n \in Bad : \A m \in Bad : n <= m
    <3> HIDE DEF Bad
    <3> QED BY <2>1, LeastNatural
  <2>3. n \in 0 .. Len(rows) /\ ~HasBest(n)
    OBVIOUS
  <2>4. n # 0
    BY <1>2, <1>1, <2>3 DEF HasBest
  <2>5. n - 1 \in 0 .. Len(rows) /\ HasBest(n - 1) /\ n \in Nat
    <3>1. n - 1 \in 0 .. Len(rows) /\ n \in Nat /\ ~(n <= n - 1)
      BY <1>1, <2>3, <2>4
    <3>2. n - 1 \notin Bad
      BY <2>2, <3>1
    <3>3. QED BY <3>1, <3>2
  <2> HIDE DEF Bad
  <2>6. \A j \in Its : j <= n <=> j <= n - 1 \/ j = n
    BY <1>3, <2>5
  <2>7. CASE n \notin Its
    BY <2>3, <2>5, <2>6, <2>7 DEF HasBest
  <2>8. CASE n \in Its /\ ~\E j \in Its : j <= n - 1
    <3>1. Beats(n, n)
      BY <1>3, <2>8
    <3>2. \A j \in Its : j <= n => j = n
      BY <2>6, <2>8
    <3>3. n <= n
      BY <2>5
    <3>4. QED BY <2>3, <2>8, <3>1, <3>2, <3>3 DEF HasBest
  <2>9. CASE n \in Its /\ \E j \in Its : j <= n - 1
    <3>1. PICK i \in Its : i <= n - 1 /\ \A j \in Its : j <= n - 1 => Beats(i, j)
      BY <2>5, <2>9 DEF HasBest
    <3>2. CASE rows[n].asOf < rows[i].asOf
      <4>1. \A j \in Its : j <= n => Beats(i, j)
        BY <2>6, <3>1, <3>2
      <4>2. i <= n
        BY <1>3, <2>5, <3>1
      <4>3. QED BY <2>3, <4>1, <4>2 DEF HasBest
    <3>3. CASE ~(rows[n].asOf < rows[i].asOf)
      <4>1. ASSUME NEW j \in Its, j <= n
            PROVE  Beats(n, j)
        <5>1. CASE j = n
          BY <1>3, <5>1
        <5>2. CASE j <= n - 1
          <6>1. rows[j].asOf <= rows[i].asOf
            BY <1>3, <3>1, <5>2
          <6>2. rows[j].asOf <= rows[n].asOf
            BY <1>3, <2>9, <3>3, <6>1
          <6>3. QED BY <1>3, <2>9, <4>1, <6>2
        <5>3. QED BY <2>6, <4>1, <5>1, <5>2
      <4>2. n <= n
        BY <2>5
      <4>3. QED BY <2>3, <2>9, <4>1, <4>2 DEF HasBest
    <3>4. QED BY <3>2, <3>3
  <2>10. QED BY <2>7, <2>8, <2>9
<1>5. \E i \in Its : \A j \in Its : Beats(i, j)
  <2>1. \A j \in Its : j <= Len(rows)
    BY <1>1, <1>2
  <2>2. QED BY <1>2, <1>4, <2>1
<1>6. QED BY <1>5 DEF Newest, Its

\* A sequence that is not empty is read row by row.
LEMMA LastOfTyped ==
    ASSUME NEW S, NEW s \in Seq(S), NEW n \in Nat \ {0}
    PROVE  LastOf(s, n) \in Seq(S)
BY LastOfFacts

\* latest_feature_rows returns recorded rows, at most one of each ticker.
LEMMA LatestRowsFacts ==
    ASSUME NEW file \in Seq(Rows), Lines \in Nat \ {0}
    PROVE  /\ LatestRows(file) \in Seq(Rows)
           /\ \A a, b \in DOMAIN LatestRows(file) :
                 a # b => LatestRows(file)[a].ticker # LatestRows(file)[b].ticker
<1> DEFINE tail == LastOf(file, Lines)
           first == {i \in DOMAIN tail :
                        \A j \in 1 .. i - 1 : tail[j].ticker # tail[i].ticker}
           best == [i \in DOMAIN tail |-> tail[Newest(tail, tail[i].ticker)]]
<1>1. tail \in Seq(Rows)
  BY LastOfTyped
<1>2. LatestRows(file) = At(best, first)
  BY DEF LatestRows
<1>3. /\ Len(tail) \in Nat /\ DOMAIN tail = 1 .. Len(tail)
      /\ \A i \in DOMAIN tail : tail[i] \in Rows
  BY <1>1, LenProperties
<1>4. ASSUME NEW i \in DOMAIN tail
      PROVE  best[i] \in Rows /\ best[i].ticker = tail[i].ticker
  <2>1. /\ Newest(tail, tail[i].ticker) \in DOMAIN tail
        /\ tail[Newest(tail, tail[i].ticker)].ticker = tail[i].ticker
    BY <1>1, NewestFacts
  <2>2. QED BY <1>3, <2>1
<1>5. best \in Seq(Rows) /\ DOMAIN best = DOMAIN tail
  BY <1>3, <1>4, IsASeq
<1>6. first \in SUBSET (DOMAIN best)
  BY <1>5
<1>7. \A i, j \in first : i # j => tail[i].ticker # tail[j].ticker
  <2> TAKE i, j \in first
  <2>1. i \in Nat /\ j \in Nat /\ i >= 1 /\ j >= 1
    BY <1>3
  <2>2. i < j \/ j < i \/ i = j
    BY <2>1
  <2>3. i < j => i \in 1 .. j - 1
    BY <2>1
  <2>4. j < i => j \in 1 .. i - 1
    BY <2>1
  <2>5. QED BY <2>2, <2>3, <2>4
<1> HIDE DEF first, best, tail
<1>8. /\ At(best, first) \in Seq(Rows)
      /\ \A a \in DOMAIN At(best, first) :
            /\ Ascending(first)[a] \in first
            /\ At(best, first)[a] = best[Ascending(first)[a]]
      /\ \A a, b \in DOMAIN At(best, first) :
            a # b => Ascending(first)[a] # Ascending(first)[b]
  BY <1>5, <1>6, AtFacts
<1>9. \A i \in first : best[i].ticker = tail[i].ticker
  BY <1>4, <1>5, <1>6
<1>10. QED BY <1>2, <1>7, <1>8, <1>9

\* What a poll takes from rows of different tickers: rows that are eligible and
\* not looked at before, each once.
LEMMA BatchFacts ==
    ASSUME NEW rows \in Seq(Rows), Limit \in Nat \ {0},
           \A a, b \in DOMAIN rows : a # b => rows[a].ticker # rows[b].ticker
    PROVE  /\ Batch(rows) \in Seq(Rows)
           /\ \A n \in DOMAIN Batch(rows) :
                 /\ Eligible(Batch(rows)[n], pollNow)
                 /\ Key(Batch(rows)[n]) \notin seen
                 /\ Key(Batch(rows)[n]) \in {Key(r) : r \in ToSet(rows)}
           /\ \A m, n \in DOMAIN Batch(rows) :
                 m # n => Key(Batch(rows)[m]) # Key(Batch(rows)[n])
<1> DEFINE I == {i \in DOMAIN rows :
                    Key(rows[i]) \notin seen /\ Eligible(rows[i], pollNow)}
           kept == At(rows, I)
<1>1. I \in SUBSET (DOMAIN rows)
  OBVIOUS
<1>2. /\ kept \in Seq(Rows)
      /\ \A a \in DOMAIN kept : Ascending(I)[a] \in I /\ kept[a] = rows[Ascending(I)[a]]
      /\ \A a, b \in DOMAIN kept : a # b => Ascending(I)[a] # Ascending(I)[b]
  <2> HIDE DEF I
  <2> QED BY <1>1, AtFacts
<1>3. Batch(rows) = LastOf(kept, Limit)
  BY DEF Batch
<1>4. \A i \in I : /\ Eligible(rows[i], pollNow) /\ Key(rows[i]) \notin seen
                   /\ Key(rows[i]) \in {Key(r) : r \in ToSet(rows)}
  BY DEF ToSet
<1>5. \A i, j \in I : i # j => Key(rows[i]) # Key(rows[j])
  BY DEF Key
<1> HIDE DEF I, kept
<1>6. /\ LastOf(kept, Limit) \in Seq(Rows)
      /\ \E k \in Nat : /\ k + Len(LastOf(kept, Limit)) = Len(kept)
                        /\ \A j \in 1 .. Len(LastOf(kept, Limit)) :
                              LastOf(kept, Limit)[j] = kept[j + k]
  BY ZenonT(60), <1>2, LastOfFacts
<1> DEFINE last == LastOf(kept, Limit)
<1>7. PICK k \in Nat : /\ k + Len(last) = Len(kept)
                       /\ \A j \in 1 .. Len(last) : last[j] = kept[j + k]
  BY <1>6
<1>8. /\ Len(last) \in Nat /\ DOMAIN last = 1 .. Len(last)
      /\ Len(kept) \in Nat /\ DOMAIN kept = 1 .. Len(kept)
  BY <1>2, <1>6, LenProperties
<1> HIDE DEF last
<1>9. \A j \in DOMAIN last : j + k \in DOMAIN kept /\ last[j] = kept[j + k]
  BY <1>7, <1>8
<1>10. \A i, j \in DOMAIN last : i # j => i + k # j + k
  BY <1>7, <1>8
<1>11. \A j \in DOMAIN last : /\ Ascending(I)[j + k] \in I
                              /\ last[j] = rows[Ascending(I)[j + k]]
  BY <1>2, <1>9
<1>12. \A i, j \in DOMAIN last : i # j => Ascending(I)[i + k] # Ascending(I)[j + k]
  BY <1>2, <1>9, <1>10
<1>13. \A j \in DOMAIN last : /\ Eligible(last[j], pollNow) /\ Key(last[j]) \notin seen
                              /\ Key(last[j]) \in {Key(r) : r \in ToSet(rows)}
  BY <1>4, <1>11
<1>14. \A i, j \in DOMAIN last : i # j => Key(last[i]) # Key(last[j])
  BY <1>5, <1>11, <1>12
<1>15. last \in Seq(Rows) /\ Batch(rows) = last
  BY <1>3, <1>6 DEF last
<1>16. QED BY <1>13, <1>14, <1>15
-----------------------------------------------------------------------------
(* The invariant.                                                           *)

KeyOf(d) == <<d.ticker, d.asOf>>

\* A run that has not loaded has done nothing.
Blank ==
    /\ seen = {} /\ batch = <<>> /\ decided = <<>> /\ decisions = <<>>
    /\ trades = [t \in Tickers |-> 0] /\ today = 0 /\ lastEntry = 0
Unstarted == pc \in {"idle", "starting", "loading"} => Blank

\* The rows in hand are to be decided: eligible at this poll's moment, looked at
\* in it, not decided before, each once.
InHand ==
    /\ pc \in {"poll", "read", "sleep"} => batch = <<>>
    /\ \A n \in DOMAIN batch :
          /\ Eligible(batch[n], pollNow) /\ Key(batch[n]) \in seen
          /\ \A i \in DOMAIN Taken : KeyOf(Taken[i]) # Key(batch[n])
    /\ \A m, n \in DOMAIN batch : m # n => Key(batch[m]) # Key(batch[n])

\* What was decided was looked at, once and in time.
Judged ==
    /\ \A i \in DOMAIN Taken : KeyOf(Taken[i]) \in seen
    /\ DecidedOnce
    /\ DecidedInTime

\* The trade state counts the candidates of the run.
Counted ==
    /\ today = Cardinality(Entries) /\ today <= MaxDaily
    /\ \A t \in Tickers :
          /\ trades[t] = Cardinality({i \in Entries : Taken[i].ticker = t})
          /\ trades[t] <= MaxPerWindow
    /\ \A i \in Entries : Taken[i].asOf <= lastEntry
    /\ \A i, j \in Entries : i < j => Taken[j].asOf >= Taken[i].asOf + Cooldown
    /\ mode = "shadow" => Entries = {} /\ lastEntry = 0

\* What the process that runs knows of the experiment is what is on disk.
Filed ==
    /\ mode = "paper" => liveBlocked
    /\ exp # 0 => /\ exp = Len(manifests)
                  /\ manifests[exp].mode = mode
                  /\ manifests[exp].blocked = liveBlocked
                  /\ manifests[exp].status # "COMPLETED"
                  /\ ledgers[exp] = decisions

ShadowLedgers ==
    \A i \in DOMAIN manifests : manifests[i].mode = "shadow" =>
        \A j \in DOMAIN ledgers[i] : ledgers[i][j].state # Candidate

RuntimeInv == Unstarted /\ InHand /\ Judged /\ Counted

FiledInv == Filed /\ ShadowLedgers /\ LiveStopsEverything /\ CompletedIsSound

IInv == TypeOK /\ RuntimeInv /\ FiledInv
-----------------------------------------------------------------------------
(* Types.                                                                   *)

\* What the gates make of a row is a decision.
LEMMA DecisionTyped ==
    ASSUME NEW r \in Rows, pollNow \in Nat
    PROVE  /\ Decision(r) \in Decisions /\ KeyOf(Decision(r)) = Key(r)
           /\ Key(r) \in Tickers \X Nat /\ r.asOf \in Nat \ {0} /\ r.ticker \in Tickers
<1>1. /\ r.ticker \in Tickers /\ r.asOf \in Nat \ {0} /\ r.kind \in Kinds
  BY DEF Rows
<1>2. r.kind.policy \in PolicyStates /\ r.kind.fresh \in BOOLEAN
  BY <1>1, RuntimeAssumption
<1>3. Gated(r) \in PolicyStates
  BY <1>2 DEF Gated, PolicyStates
<1>4. Recorded(Gated(r)) \in PolicyStates \cup {"SHADOW_DECISION"}
  BY <1>3 DEF Recorded
<1>5. QED BY <1>1, <1>2, <1>4 DEF Decision, Decisions, KeyOf, Key

\* The constants, one by one.
LEMMA ConstantsTyped ==
    /\ Lines \in Nat \ {0} /\ Limit \in Nat \ {0} /\ Cooldown \in Nat \ {0}
    /\ MaxTime \in Nat \ {0} /\ MaxDaily \in Nat /\ MaxPerWindow \in Nat
BY RuntimeAssumption

LEMMA TypeInit == Init => TypeOK
<1> SUFFICES ASSUME Init PROVE TypeOK
  OBVIOUS
<1>1. \A S : <<>> \in Seq(S)
  OBVIOUS
<1>2. RuntimeTypeOK
  BY <1>1, ConstantsTyped DEF Init, RuntimeInit, Fresh, RuntimeTypeOK
<1>3. Len(manifests) = 0 /\ DOMAIN manifests = {}
  BY DEF Init
<1>4. ledgers \in [DOMAIN manifests -> Seq(Decisions)]
  <2>1. ledgers = <<>>
    BY DEF Init
  <2>2. QED BY <1>3, <2>1
<1>5. QED BY <1>1, <1>2, <1>3, <1>4 DEF Init, RuntimeInit, TypeOK

\* A new manifest and its empty ledger.
LEMMA NewManifestTyped ==
    ASSUME TypeOK, NEW m \in {"shadow", "paper"}, NEW b \in BOOLEAN,
           NEW s \in {"RUNNING", "ABORTED"}, NewManifest(m, b, s)
    PROVE  /\ manifests' \in Seq(Manifest) /\ Len(manifests') = Len(manifests) + 1
           /\ ledgers' \in [DOMAIN manifests' -> Seq(Decisions)]
           /\ latest' \in 0 .. Len(manifests')
           /\ Len(manifests) \in Nat
           /\ DOMAIN manifests = 1 .. Len(manifests)
           /\ DOMAIN manifests' = 1 .. Len(manifests) + 1
           /\ \A i \in DOMAIN manifests :
                 manifests'[i] = manifests[i] /\ ledgers'[i] = ledgers[i]
           /\ manifests'[Len(manifests) + 1] = [mode |-> m, status |-> s, blocked |-> b]
           /\ ledgers'[Len(manifests) + 1] = <<>>
<1> DEFINE x == [mode |-> m, status |-> s, blocked |-> b]
<1>1. manifests \in Seq(Manifest) /\ ledgers \in [DOMAIN manifests -> Seq(Decisions)]
  BY DEF TypeOK
<1>2. x \in Manifest
  BY DEF Manifest
<1>3. manifests' = Append(manifests, x) /\ ledgers' = Append(ledgers, <<>>)
      /\ latest' = Len(manifests) + 1
  BY DEF NewManifest
<1> HIDE DEF x
<1>4. Len(manifests) \in Nat /\ DOMAIN manifests = 1 .. Len(manifests)
  BY <1>1, LenProperties
<1>5. /\ manifests' \in Seq(Manifest) /\ Len(manifests') = Len(manifests) + 1
      /\ \A i \in 1 .. Len(manifests) : manifests'[i] = manifests[i]
      /\ manifests'[Len(manifests) + 1] = x
  BY <1>1, <1>2, <1>3, AppendFacts
<1>6. ledgers \in Seq(Seq(Decisions)) /\ Len(ledgers) = Len(manifests)
  BY <1>1, <1>4, IsASeq, LenProperties
<1>7. /\ ledgers' \in Seq(Seq(Decisions)) /\ Len(ledgers') = Len(manifests) + 1
      /\ \A i \in 1 .. Len(manifests) : ledgers'[i] = ledgers[i]
      /\ ledgers'[Len(manifests) + 1] = <<>>
  BY <1>3, <1>6, AppendFacts, EmptySeq
<1>8. DOMAIN manifests' = 1 .. Len(manifests) + 1
  BY <1>5, LenProperties
<1>9. ledgers' \in [DOMAIN manifests' -> Seq(Decisions)]
  BY <1>7, <1>8, LenProperties
<1>10. latest' \in 0 .. Len(manifests')
  BY <1>3, <1>4, <1>5
<1>11. QED BY <1>4, <1>5, <1>7, <1>8, <1>9, <1>10 DEF x

\* A function on 1 .. n is a sequence of length n.
LEMMA FunctionIsSequence ==
    ASSUME NEW S, NEW n \in Nat, NEW f \in [1 .. n -> S]
    PROVE  f \in Seq(S) /\ Len(f) = n
<1>1. f \in Seq(S)
  BY SeqDef
<1>2. DOMAIN f = 1 .. n /\ DOMAIN f = 1 .. Len(f) /\ Len(f) \in Nat
  BY <1>1, LenProperties
<1>3. QED BY <1>1, <1>2

\* Rewriting the status of a manifest keeps everything else of all of them.
LEMMA RestatusTyped ==
    ASSUME TypeOK, NEW i \in DOMAIN manifests, NEW s \in {"COMPLETED", "ABORTED"},
           manifests' = [manifests EXCEPT ![i].status = s]
    PROVE  /\ manifests' \in Seq(Manifest)
           /\ Len(manifests') = Len(manifests) /\ Len(manifests) \in Nat
           /\ DOMAIN manifests' = DOMAIN manifests
           /\ DOMAIN manifests = 1 .. Len(manifests)
           /\ manifests'[i].status = s
           /\ \A j \in DOMAIN manifests :
                 /\ manifests'[j].mode = manifests[j].mode
                 /\ manifests'[j].blocked = manifests[j].blocked
                 /\ j # i => manifests'[j] = manifests[j]
<1>1. manifests \in Seq(Manifest)
  BY DEF TypeOK
<1>2. Len(manifests) \in Nat /\ DOMAIN manifests = 1 .. Len(manifests)
  BY <1>1, LenProperties
<1>3. manifests[i] \in Manifest
  BY <1>1, <1>2
<1> DEFINE x == [manifests[i] EXCEPT !.status = s]
<1>4. x \in Manifest /\ x.status = s /\ x.mode = manifests[i].mode
      /\ x.blocked = manifests[i].blocked
  BY <1>3 DEF Manifest
<1>5. manifests' = [manifests EXCEPT ![i] = x]
  OBVIOUS
<1> HIDE DEF x
<1>6. manifests' \in [1 .. Len(manifests) -> Manifest]
  BY <1>1, <1>2, <1>4, <1>5
<1>7. manifests' \in Seq(Manifest) /\ Len(manifests') = Len(manifests)
  <2>1. \A f \in [1 .. Len(manifests) -> Manifest] :
            f \in Seq(Manifest) /\ Len(f) = Len(manifests)
    BY <1>2, FunctionIsSequence
  <2>2. QED BY <1>6, <2>1, Zenon
<1>8. QED BY <1>1, <1>2, <1>4, <1>5, <1>7

\* What the loop looks at is typed.
LEMMA ReadTyped ==
    ASSUME TypeOK, Read
    PROVE  batch' \in Seq(Rows) /\ seen' \subseteq Tickers \X Nat
<1>1. feed \in Seq(Rows) /\ seen \subseteq Tickers \X Nat
  BY DEF TypeOK, RuntimeTypeOK
<1>2. /\ LatestRows(feed) \in Seq(Rows)
      /\ \A a, b \in DOMAIN LatestRows(feed) :
            a # b => LatestRows(feed)[a].ticker # LatestRows(feed)[b].ticker
  BY <1>1, ConstantsTyped, LatestRowsFacts
<1>3. batch' \in Seq(Rows)
  BY <1>2, ConstantsTyped, BatchFacts DEF Read
<1>4. \A r \in ToSet(LatestRows(feed)) : r \in Rows
  BY <1>2, LenProperties DEF ToSet
<1>5. \A r \in ToSet(LatestRows(feed)) : Key(r) \in Tickers \X Nat
  BY <1>4 DEF Rows, Key
<1>6. QED BY <1>1, <1>3, <1>5 DEF Read

LEMMA GateTyped ==
    ASSUME TypeOK, Gate
    PROVE  /\ decided' \in Seq(Decisions) /\ batch' \in Seq(Rows)
           /\ trades' \in [Tickers -> Nat] /\ today' \in Nat /\ lastEntry' \in Nat
           /\ Head(batch) \in Rows /\ Head(batch) = batch[1] /\ 1 \in DOMAIN batch
<1>1. batch \in Seq(Rows) /\ batch # <<>> /\ decided \in Seq(Decisions)
      /\ trades \in [Tickers -> Nat] /\ today \in Nat /\ lastEntry \in Nat
      /\ pollNow \in Nat
  BY DEF TypeOK, RuntimeTypeOK, Gate
<1>2. Head(batch) \in Rows /\ Head(batch) = batch[1] /\ Tail(batch) \in Seq(Rows)
      /\ Len(batch) \in Nat \ {0}
  BY <1>1, TailFacts
<1>3. Decision(Head(batch)) \in Decisions
      /\ Head(batch).asOf \in Nat /\ Head(batch).ticker \in Tickers
  BY <1>1, <1>2, DecisionTyped
<1>4. decided' \in Seq(Decisions)
  BY <1>1, <1>3, AppendProperties DEF Gate
<1>5. trades' \in [Tickers -> Nat] /\ today' \in Nat /\ lastEntry' \in Nat
  BY <1>1, <1>3 DEF Gate, Enter, tradeState
<1>6. 1 \in DOMAIN batch
  BY <1>1, <1>2, LenProperties
<1>7. QED BY <1>2, <1>4, <1>5, <1>6 DEF Gate

\* Every step keeps the types.
LEMMA TypeStep == TypeOK /\ [Next]_vars => TypeOK'
<1> SUFFICES ASSUME TypeOK, [Next]_vars PROVE TypeOK'
  OBVIOUS
<1> USE DEF TypeOK, RuntimeTypeOK
<1>t. MaxTime \in Nat \ {0}
  BY ConstantsTyped
<1>s. \A S : <<>> \in Seq(S)
  OBVIOUS
<1>m. Len(manifests) \in Nat /\ DOMAIN manifests = 1 .. Len(manifests)
  BY LenProperties
<1>1. CASE UNCHANGED vars
  BY <1>1 DEF vars, runtimeVars, world, run, tradeState, experimentVars, files
<1>2. CASE WriteRunning
  <2>1. NewManifest(mode, liveBlocked, "RUNNING") /\ exp' = Len(manifests) + 1
        /\ pc' = "loading" /\ pc = "starting"
        /\ UNCHANGED <<world, run, liveBlocked, problem, stopping, stopped>>
    BY <1>2 DEF WriteRunning
  <2>2. /\ manifests' \in Seq(Manifest) /\ Len(manifests') = Len(manifests) + 1
        /\ ledgers' \in [DOMAIN manifests' -> Seq(Decisions)]
        /\ latest' \in 0 .. Len(manifests')
        /\ DOMAIN manifests' = 1 .. Len(manifests) + 1
    BY <2>1, NewManifestTyped
  <2>3. exp' \in 0 .. Len(manifests') /\ exp' # 0
    BY <1>m, <2>1, <2>2
  <2>4. stopping' \in 0 .. Len(manifests') /\ stopped' \subseteq DOMAIN manifests'
    BY <1>m, <2>1, <2>2
  <2>5. RuntimeTypeOK'
    BY <2>1 DEF world, run, tradeState
  <2> HIDE DEF RuntimeTypeOK
  <2>6. QED BY <2>1, <2>2, <2>3, <2>4, <2>5
<1>3. CASE Load
  BY <1>3, <1>t DEF Load, world, tradeState, files
<1>4. CASE Poll /\ UNCHANGED experimentVars
  BY <1>4, <1>t DEF Poll, world, tradeState, experimentVars, files
<1>5. CASE Read /\ UNCHANGED experimentVars
  <2>1. batch' \in Seq(Rows) /\ seen' \subseteq Tickers \X Nat
    BY <1>5, ReadTyped
  <2>2. pc = "read" /\ pc' \in {"sleep", "gate"}
        /\ UNCHANGED <<world, mode, pollNow, loopEnd, decided, decisions, tradeState>>
    BY <1>5 DEF Read
  <2>3. QED BY <1>5, <2>1, <2>2 DEF world, tradeState, experimentVars, files
<1>6. CASE Gate /\ UNCHANGED experimentVars
  <2>1. /\ decided' \in Seq(Decisions) /\ batch' \in Seq(Rows)
        /\ trades' \in [Tickers -> Nat] /\ today' \in Nat /\ lastEntry' \in Nat
    BY <1>6, GateTyped
  <2>2. UNCHANGED <<world, pc, mode, pollNow, loopEnd, seen, decisions>>
    BY <1>6 DEF Gate
  <2>3. QED BY <1>6, <2>1, <2>2 DEF world, experimentVars, files
<1>7. CASE Sleep /\ UNCHANGED experimentVars
  BY <1>7 DEF Sleep, world, run, tradeState, experimentVars, files
<1>8. CASE ReportPoll
  <2>1. exp \in DOMAIN manifests /\ ledgers[exp] \in Seq(Decisions) /\ pc = "gate"
    <3>1. pc = "gate"
      BY <1>8 DEF ReportPoll, Report
    <3>2. exp \in DOMAIN manifests
      BY <1>m, <3>1
    <3>3. QED BY <3>1, <3>2
  <2>2. decisions' \in Seq(Decisions) /\ ledgers[exp] \o decided \in Seq(Decisions)
        /\ decided' \in Seq(Decisions)
    BY <1>8, <1>s, <2>1, ConcatProperties DEF ReportPoll, Report
  <2>3. ledgers' \in [DOMAIN manifests -> Seq(Decisions)]
    BY <1>8, <2>2 DEF ReportPoll, Append_poll
  <2>4. pc' \in {"ending", "sleep"}
        /\ UNCHANGED <<world, mode, pollNow, loopEnd, seen, batch, tradeState>>
        /\ UNCHANGED <<liveBlocked, exp, manifests, latest, stopping, stopped>>
        /\ problem' \in {problem, "live_permitted"}
    BY <1>8 DEF ReportPoll, Report
  <2>5. QED BY <2>1, <2>2, <2>3, <2>4 DEF world, tradeState
<1>9. ASSUME Forget
      PROVE  /\ RuntimeTypeOK' \/ ~UNCHANGED world
             /\ liveBlocked' \in BOOLEAN /\ problem' = "none" /\ exp' = 0 /\ pc' = "idle"
  BY <1>9, <1>s DEF Forget, ForgetRun, world
<1>10. CASE Finalize
  <2> DEFINE s == IF MustAbort THEN "ABORTED" ELSE "COMPLETED"
  <2>1. exp \in DOMAIN manifests /\ s \in {"COMPLETED", "ABORTED"}
    BY <1>10, <1>m DEF Finalize
  <2>2. manifests' = [manifests EXCEPT ![exp].status = s]
        /\ latest' = exp /\ Forget /\ UNCHANGED <<world, ledgers, stopping, stopped>>
    BY <1>10 DEF Finalize
  <2> HIDE DEF s
  <2>3. /\ manifests' \in Seq(Manifest) /\ Len(manifests') = Len(manifests)
        /\ DOMAIN manifests' = DOMAIN manifests
    BY <2>1, <2>2, RestatusTyped
  <2>4. RuntimeTypeOK' /\ liveBlocked' \in BOOLEAN /\ problem' = "none" /\ exp' = 0
        /\ pc' = "idle"
    BY <1>9, <2>2
  <2> HIDE DEF RuntimeTypeOK
  <2>5. QED BY <1>m, <2>2, <2>3, <2>4
<1>11. CASE Crash
  <2>1. RuntimeTypeOK' /\ liveBlocked' \in BOOLEAN /\ problem' = "none" /\ exp' = 0
        /\ pc' = "idle" /\ UNCHANGED <<files, stopping, stopped>>
    BY <1>9, <1>11 DEF Crash
  <2> HIDE DEF RuntimeTypeOK
  <2>2. QED BY <1>m, <2>1 DEF files
<1>12. CASE Fail
  BY <1>12 DEF Fail, world, run, tradeState, files
<1>13. CASE StopReads
  BY <1>13 DEF StopReads, runtimeVars, world, run, tradeState, files
<1>14. CASE StopWrites
  <2>1. stopping \in DOMAIN manifests
        /\ manifests' = [manifests EXCEPT ![stopping].status = "ABORTED"]
    BY <1>14, <1>m DEF StopWrites
  <2>2. /\ manifests' \in Seq(Manifest) /\ Len(manifests') = Len(manifests)
        /\ DOMAIN manifests' = DOMAIN manifests
    BY <2>1, RestatusTyped
  <2>3. UNCHANGED <<runtimeVars, liveBlocked, exp, problem, ledgers>>
        /\ latest' = stopping /\ stopping' = 0 /\ stopped' = stopped \cup {stopping}
    BY <1>14 DEF StopWrites
  <2>4. RuntimeTypeOK'
    BY <2>3 DEF runtimeVars, world, run, tradeState
  <2> HIDE DEF RuntimeTypeOK
  <2>5. QED BY <1>m, <2>1, <2>2, <2>3, <2>4 DEF runtimeVars
<1>15. ASSUME NEW m \in {"shadow", "paper"}, Begin(m)
       PROVE  TypeOK'
  BY <1>15 DEF Begin, CanBegin, world, tradeState, files
<1>16. ASSUME NEW m \in {"shadow", "paper"}, Refuse(m)
       PROVE  TypeOK'
  <2>1. PICK b \in BOOLEAN : NewManifest(m, b, "ABORTED")
    BY <1>16 DEF Refuse
  <2>2. /\ manifests' \in Seq(Manifest) /\ Len(manifests') = Len(manifests) + 1
        /\ ledgers' \in [DOMAIN manifests' -> Seq(Decisions)]
        /\ latest' \in 0 .. Len(manifests')
        /\ DOMAIN manifests' = 1 .. Len(manifests) + 1
    BY <2>1, NewManifestTyped
  <2>3. UNCHANGED <<runtimeVars, liveBlocked, exp, problem, stopping, stopped>>
    BY <1>16 DEF Refuse
  <2>4. RuntimeTypeOK'
    BY <2>3 DEF runtimeVars, world, run, tradeState
  <2> HIDE DEF RuntimeTypeOK
  <2>5. QED BY <1>m, <2>2, <2>3, <2>4 DEF runtimeVars
<1>17. CASE Tick /\ UNCHANGED experimentVars
  BY <1>17, <1>t DEF Tick, run, tradeState, experimentVars, files
<1>18. ASSUME NEW t \in Tickers, NEW k \in Kinds, Record(t, k),
              UNCHANGED experimentVars
       PROVE  TypeOK'
  <2>1. PICK asOf \in {clock - 1, clock} :
            asOf > 0 /\ feed' = Append(feed, [ticker |-> t, asOf |-> asOf, kind |-> k])
    BY <1>18 DEF Record
  <2>2. asOf \in Nat \ {0}
    BY <1>t, <2>1
  <2>3. [ticker |-> t, asOf |-> asOf, kind |-> k] \in Rows
    BY <2>2 DEF Rows
  <2>4. feed' \in Seq(Rows)
    BY <2>1, <2>3, AppendProperties
  <2>5. UNCHANGED <<clock, pc, run>>
    BY <1>18 DEF Record
  <2>6. QED BY <1>18, <2>4, <2>5 DEF run, tradeState, experimentVars, files
<1>19. QED
  BY <1>1, <1>2, <1>3, <1>4, <1>5, <1>6, <1>7, <1>8, <1>10, <1>11, <1>12, <1>13,
     <1>14, <1>15, <1>16, <1>17, <1>18 DEF Next, Process, Loop

\* Every variable keeps its type.
THEOREM TypeCorrect == Spec => []TypeOK
<1>1. Init => TypeOK
  BY TypeInit
<1>2. TypeOK /\ [Next]_vars => TypeOK'
  BY TypeStep
<1>3. QED BY <1>1, <1>2, PTL DEF Spec
-----------------------------------------------------------------------------
(* The run.                                                                 *)

LEMMA BlankRuntime == Blank => RuntimeInv
<1> SUFFICES ASSUME Blank PROVE RuntimeInv
  OBVIOUS
<1>1. /\ seen = {} /\ batch = <<>> /\ decided = <<>> /\ decisions = <<>>
      /\ trades = [t \in Tickers |-> 0] /\ today = 0 /\ lastEntry = 0
  BY DEF Blank
<1>2. DOMAIN Taken = {} /\ DOMAIN batch = {}
  <2>1. <<>> \o <<>> = <<>>
    OBVIOUS
  <2>2. QED BY <1>1, <2>1 DEF Taken
<1>3. Entries = {}
  BY <1>2 DEF Entries
<1>4. IsFiniteSet({}) /\ Cardinality({}) = 0
  BY FS_EmptySet
<1>5. \A t \in Tickers : {i \in Entries : Taken[i].ticker = t} = {}
  BY <1>3
<1>6. Counted
  BY <1>1, <1>3, <1>4, <1>5, ConstantsTyped DEF Counted
<1>7. InHand /\ Judged
  BY <1>1, <1>2 DEF InHand, Judged, DecidedOnce, DecidedInTime
<1>8. QED BY <1>6, <1>7 DEF RuntimeInv, Unstarted

\* A process that is gone or not begun holds nothing.
LEMMA BlankNext == Blank' => RuntimeInv'
BY BlankRuntime, PTL

\* Steps that leave the memory of the run alone.
LEMMA MemoryKept ==
    ASSUME RuntimeInv,
           UNCHANGED <<mode, pollNow, seen, batch, decided, decisions, tradeState>>,
           pc' \in {"idle", "starting", "loading"}
              => pc \in {"idle", "starting", "loading"},
           pc' \in {"poll", "read", "sleep"} => batch = <<>>
    PROVE  RuntimeInv'
<1>1. Taken' = Taken
  BY DEF Taken
<1>2. Entries' = Entries
  BY <1>1 DEF Entries
<1>3. Unstarted'
  BY DEF RuntimeInv, Unstarted, Blank, tradeState
<1>4. InHand'
  BY <1>1 DEF RuntimeInv, InHand, Eligible, ToClose, IsStale, Key, KeyOf
<1>5. Judged'
  BY <1>1 DEF RuntimeInv, Judged, DecidedOnce, DecidedInTime, KeyOf
<1>6. Counted'
  BY <1>1, <1>2 DEF RuntimeInv, Counted, tradeState
<1>7. QED BY <1>3, <1>4, <1>5, <1>6 DEF RuntimeInv

\* A poll begins with nothing in hand.
LEMMA PollStep ==
    ASSUME RuntimeInv, Poll PROVE RuntimeInv'
<1>1. Taken' = Taken
  BY DEF Poll, Taken
<1>2. Entries' = Entries
  BY <1>1 DEF Entries
<1>3. batch' = <<>> /\ pc' = "read"
  BY DEF Poll, RuntimeInv, InHand
<1>4. Unstarted' /\ InHand'
  BY <1>3 DEF Unstarted, InHand
<1>5. Judged'
  BY <1>1 DEF RuntimeInv, Judged, DecidedOnce, DecidedInTime, KeyOf, Poll
<1>6. Counted'
  BY <1>1, <1>2 DEF RuntimeInv, Counted, tradeState, Poll
<1>7. QED BY <1>4, <1>5, <1>6 DEF RuntimeInv

\* The rows read are new to the run.
LEMMA ReadStep ==
    ASSUME TypeOK, RuntimeInv, Read PROVE RuntimeInv'
<1> DEFINE rows == LatestRows(feed)
<1>1. Taken' = Taken
  BY DEF Read, Taken
<1>2. Entries' = Entries
  BY <1>1 DEF Entries
<1>3. rows \in Seq(Rows)
      /\ \A a, b \in DOMAIN rows : a # b => rows[a].ticker # rows[b].ticker
  BY ConstantsTyped, LatestRowsFacts DEF TypeOK, RuntimeTypeOK
<1>4. /\ batch' = Batch(rows) /\ seen' = seen \cup {Key(r) : r \in ToSet(rows)}
      /\ pc' \in {"sleep", "gate"} /\ (pc' = "sleep" => batch' = <<>>)
      /\ mode' = mode /\ pollNow' = pollNow /\ decided' = decided
      /\ decisions' = decisions /\ UNCHANGED tradeState
  <2>1. batch' = Batch(rows) /\ seen' = seen \cup {Key(r) : r \in ToSet(rows)}
    BY Zenon DEF Read
  <2>2. /\ pc' = IF batch' = <<>> THEN "sleep" ELSE "gate"
        /\ UNCHANGED <<world, mode, pollNow, loopEnd, decided, decisions, tradeState>>
    BY Zenon DEF Read
  <2>3. QED BY <2>1, <2>2
<1> HIDE DEF rows
<1>5. /\ \A n \in DOMAIN batch' :
            /\ Eligible(batch'[n], pollNow)
            /\ Key(batch'[n]) \notin seen
            /\ Key(batch'[n]) \in {Key(r) : r \in ToSet(rows)}
      /\ \A m, n \in DOMAIN batch' : m # n => Key(batch'[m]) # Key(batch'[n])
  BY <1>3, <1>4, ConstantsTyped, BatchFacts
<1>6. \A i \in DOMAIN Taken : KeyOf(Taken[i]) \in seen
  BY DEF RuntimeInv, Judged
<1>7. Unstarted'
  BY <1>4 DEF Unstarted
<1>8. InHand'
  <2>1. pc' \in {"poll", "read", "sleep"} => batch' = <<>>
    BY <1>4
  <2>2. \A n \in DOMAIN batch' : Key(batch'[n]) \in seen'
    BY <1>4, <1>5
  <2>3. \A n \in DOMAIN batch', i \in DOMAIN Taken' : KeyOf(Taken'[i]) # Key(batch'[n])
    BY <1>1, <1>5, <1>6
  <2>4. \A n \in DOMAIN batch' : Eligible(batch'[n], pollNow')
    BY <1>4, <1>5
  <2>5. QED
    BY <1>5, <2>1, <2>2, <2>3, <2>4 DEF InHand, Eligible, ToClose, IsStale, Key, KeyOf
<1>9. Judged'
  BY <1>1, <1>4, <1>6 DEF RuntimeInv, Judged, DecidedOnce, DecidedInTime, KeyOf
<1>10. Counted'
  <2>1. today' = today /\ trades' = trades /\ lastEntry' = lastEntry
    BY <1>4 DEF tradeState
  <2>2. QED BY <1>1, <1>2, <1>4, <2>1 DEF RuntimeInv, Counted
<1>11. QED BY <1>7, <1>8, <1>9, <1>10 DEF RuntimeInv

\* A decision is appended to what was taken.
LEMMA TakenGrows ==
    ASSUME NEW S, NEW a \in Seq(S), NEW b \in Seq(S), NEW d \in S
    PROVE  /\ Len(a \o b) \in Nat /\ DOMAIN (a \o b) = 1 .. Len(a \o b)
           /\ DOMAIN (a \o Append(b, d)) = 1 .. Len(a \o b) + 1
           /\ \A i \in 1 .. Len(a \o b) : (a \o Append(b, d))[i] = (a \o b)[i]
           /\ (a \o Append(b, d))[Len(a \o b) + 1] = d
           /\ \A i \in 1 .. Len(a \o b) : (a \o b)[i] \in S
<1>1. a \o b \in Seq(S) /\ a \o Append(b, d) = Append(a \o b, d)
  OBVIOUS
<1>2. /\ Append(a \o b, d) \in Seq(S)
      /\ Len(a \o b) \in Nat
      /\ Len(Append(a \o b, d)) = Len(a \o b) + 1
      /\ \A j \in 1..Len(a \o b) : Append(a \o b, d)[j] = (a \o b)[j]
      /\ Append(a \o b, d)[Len(a \o b) + 1] = d
  BY <1>1, AppendFacts
<1>3. DOMAIN Append(a \o b, d) = 1 .. Len(a \o b) + 1
      /\ DOMAIN (a \o b) = 1 .. Len(a \o b)
      /\ \A i \in 1 .. Len(a \o b) : (a \o b)[i] \in S
  BY <1>1, <1>2, LenProperties
<1>4. QED BY <1>1, <1>2, <1>3

\* The first row in hand is decided.
LEMMA GateStep ==
    ASSUME TypeOK, RuntimeInv, Gate PROVE RuntimeInv'
<1> DEFINE r == Head(batch)
           d == Decision(r)
           n == Len(Taken)
           enters == mode = "paper" /\ Gated(r) = Candidate
<1>1. /\ batch \in Seq(Rows) /\ batch # <<>> /\ decided \in Seq(Decisions)
      /\ decisions \in Seq(Decisions) /\ pollNow \in Nat /\ mode \in {"shadow", "paper"}
      /\ trades \in [Tickers -> Nat] /\ today \in Nat /\ lastEntry \in Nat
  BY DEF TypeOK, RuntimeTypeOK, Gate
<1>2. /\ r \in Rows /\ r = batch[1] /\ Len(batch) \in Nat \ {0}
      /\ Tail(batch) \in Seq(Rows) /\ Len(Tail(batch)) = Len(batch) - 1
      /\ \A j \in 1 .. Len(batch) - 1 : Tail(batch)[j] = batch[j + 1]
      /\ DOMAIN batch = 1 .. Len(batch) /\ DOMAIN Tail(batch) = 1 .. Len(batch) - 1
  BY <1>1, TailFacts, LenProperties
<1>3. /\ d \in Decisions /\ KeyOf(d) = Key(r) /\ Key(r) \in Tickers \X Nat
      /\ r.asOf \in Nat \ {0} /\ r.ticker \in Tickers
  BY <1>1, <1>2, DecisionTyped
<1>4. /\ decided' = Append(decided, d) /\ decisions' = decisions /\ batch' = Tail(batch)
      /\ pc = "gate" /\ pc' = "gate" /\ mode' = mode /\ pollNow' = pollNow /\ seen' = seen
      /\ IF enters THEN Enter(r) ELSE UNCHANGED tradeState
  BY DEF Gate
<1>5. /\ d.ticker = r.ticker /\ d.asOf = r.asOf /\ d.at = pollNow
      /\ d.state = Recorded(Gated(r))
  BY DEF Decision
<1>6. d.state = Candidate <=> enters
  BY <1>1, <1>5 DEF Recorded, Candidate
<1> HIDE DEF d, r
<1>7. /\ n \in Nat /\ DOMAIN Taken = 1 .. n /\ DOMAIN Taken' = 1 .. n + 1
      /\ \A i \in 1 .. n : Taken'[i] = Taken[i] /\ Taken[i] \in Decisions
      /\ Taken'[n + 1] = d
  <2>1. /\ Len(decisions \o decided) \in Nat
        /\ DOMAIN (decisions \o decided) = 1 .. Len(decisions \o decided)
        /\ DOMAIN (decisions \o Append(decided, d)) = 1 .. Len(decisions \o decided) + 1
        /\ \A i \in 1 .. Len(decisions \o decided) :
              (decisions \o Append(decided, d))[i] = (decisions \o decided)[i]
        /\ (decisions \o Append(decided, d))[Len(decisions \o decided) + 1] = d
        /\ \A i \in 1 .. Len(decisions \o decided) :
              (decisions \o decided)[i] \in Decisions
    BY <1>1, <1>3, TakenGrows
  <2>2. Taken' = decisions \o Append(decided, d)
    BY <1>4 DEF Taken
  <2>3. Taken = decisions \o decided
    BY DEF Taken
  <2>4. QED BY <2>1, <2>2, <2>3
<1> HIDE DEF n
<1>8. \A i \in DOMAIN Taken' : i \in DOMAIN Taken \/ i = n + 1
  BY <1>7
<1>9. 1 \in DOMAIN batch /\ Eligible(r, pollNow) /\ Key(r) \in seen
      /\ \A i \in DOMAIN Taken : KeyOf(Taken[i]) # Key(r)
  <2>1. 1 \in DOMAIN batch
    BY <1>2
  <2>2. QED BY <1>2, <2>1 DEF RuntimeInv, InHand
<1>10. Unstarted'
  BY <1>4 DEF Unstarted
<1>11. InHand'
  <2>1. \A j \in DOMAIN batch' : j + 1 \in DOMAIN batch /\ batch'[j] = batch[j + 1]
    BY <1>2, <1>4
  <2>2. \A i, j \in DOMAIN batch' : i # j => i + 1 # j + 1
    BY <1>2, <1>4
  <2>3. \A j \in DOMAIN batch' : /\ Eligible(batch[j + 1], pollNow)
                                 /\ Key(batch[j + 1]) \in seen
    BY <2>1 DEF RuntimeInv, InHand
  <2>4. ASSUME NEW j \in DOMAIN batch', NEW i \in DOMAIN Taken'
        PROVE  KeyOf(Taken'[i]) # Key(batch[j + 1])
    <3>1. CASE i \in DOMAIN Taken
      BY <1>7, <2>1, <3>1 DEF RuntimeInv, InHand
    <3>2. CASE i = n + 1
      <4>1. j + 1 # 1
        BY <1>2, <1>4
      <4>2. Key(batch[1]) # Key(batch[j + 1])
        BY <1>9, <2>1, <4>1 DEF RuntimeInv, InHand
      <4>3. QED BY <1>2, <1>3, <1>7, <3>2, <4>2
    <3>3. QED BY <1>8, <3>1, <3>2
  <2>5. \A i, j \in DOMAIN batch' : i # j => Key(batch[i + 1]) # Key(batch[j + 1])
    BY <2>1, <2>2 DEF RuntimeInv, InHand
  <2>6. QED
    BY <1>4, <2>1, <2>3, <2>4, <2>5
       DEF InHand, Eligible, ToClose, IsStale, Key, KeyOf
<1>12. Judged'
  <2>1. \A i \in DOMAIN Taken' : KeyOf(Taken'[i]) \in seen
    BY <1>3, <1>7, <1>8, <1>9 DEF RuntimeInv, Judged
  <2>2. ASSUME NEW i \in DOMAIN Taken', NEW j \in DOMAIN Taken',
               KeyOf(Taken'[i]) = KeyOf(Taken'[j])
        PROVE  i = j
    <3>1. \A k \in DOMAIN Taken : KeyOf(Taken'[k]) # KeyOf(Taken'[n + 1])
      BY <1>3, <1>7, <1>9
    <3>2. CASE i \in DOMAIN Taken /\ j \in DOMAIN Taken
      BY <1>7, <2>2, <3>2 DEF RuntimeInv, Judged, DecidedOnce, KeyOf
    <3>3. QED BY <1>8, <2>2, <3>1, <3>2
  <2>3. DecidedOnce'
    BY <2>2 DEF DecidedOnce, KeyOf
  <2>4. DecidedInTime'
    <3>1. ASSUME NEW i \in DOMAIN Taken
          PROVE  /\ Taken'[i].at - Taken'[i].asOf <= RowMaxAge
                 /\ LET left == CloseAt[Taken'[i].ticker] - Taken'[i].at
                    IN  left >= MinToClose /\ left <= MaxToClose /\ left \in 1 .. Duration
      BY <1>7 DEF RuntimeInv, Judged, DecidedInTime
    <3>2. /\ d.at - d.asOf <= RowMaxAge
          /\ LET left == CloseAt[d.ticker] - d.at
             IN  left >= MinToClose /\ left <= MaxToClose /\ left \in 1 .. Duration
      <4>1. CloseAt[r.ticker] \in Nat /\ Duration \in Nat /\ RowMaxAge \in Nat
        BY <1>3, RuntimeAssumption
      <4>2. QED BY <1>1, <1>3, <1>5, <1>9, <4>1, SMTT(30) DEF Eligible, ToClose, IsStale
    <3>3. QED BY <1>7, <1>8, <3>1, <3>2 DEF DecidedInTime
  <2>5. QED BY <1>4, <2>1, <2>3, <2>4 DEF Judged, KeyOf
<1>13. Entries' = IF enters THEN Entries \cup {n + 1} ELSE Entries
  BY <1>6, <1>7, <1>8 DEF Entries
<1>14. IsFiniteSet(Entries) /\ n + 1 \notin Entries /\ Entries \subseteq DOMAIN Taken
  <2>1. Entries \subseteq 1 .. n
    BY <1>7 DEF Entries
  <2>2. IsFiniteSet(1 .. n)
    BY <1>7, FS_Interval
  <2>3. IsFiniteSet(Entries)
    BY <2>1, <2>2, FS_Subset
  <2>4. n + 1 \notin 1 .. n
    BY <1>7
  <2>5. QED BY <1>7, <2>1, <2>3, <2>4
<1> DEFINE Of(t) == {i \in Entries : Taken[i].ticker = t}
<1>15. Counted /\ \A t \in Tickers : IsFiniteSet(Of(t)) /\ Of(t) \subseteq Entries
  BY <1>14, FS_Subset DEF RuntimeInv
<1> HIDE DEF enters
<1>16. CASE ~enters
  <2>1. Entries' = Entries /\ today' = today /\ trades' = trades /\ lastEntry' = lastEntry
    BY <1>4, <1>13, <1>16 DEF tradeState
  <2>2. \A i \in Entries : Taken'[i] = Taken[i]
    BY <1>7, <1>14
  <2>3. \A t \in Tickers : {i \in Entries : Taken'[i].ticker = t} = Of(t)
    BY <2>2
  <2>4. Counted'
    BY <1>4, <1>15, <2>1, <2>2, <2>3 DEF Counted
  <2>5. QED BY <1>10, <1>11, <1>12, <2>4 DEF RuntimeInv
<1>17. CASE enters
  <2>1. /\ trades' = [trades EXCEPT ![r.ticker] = @ + 1]
        /\ today' = today + 1 /\ lastEntry' = r.asOf
    BY <1>4, <1>17 DEF Enter
  <2>2. mode = "paper" /\ ~RateBlocked(r)
    BY <1>17 DEF enters, Gated, Candidate
  <2>3. today < MaxDaily /\ trades[r.ticker] < MaxPerWindow
        /\ (lastEntry = 0 \/ r.asOf - lastEntry >= Cooldown)
    BY <1>1, <1>3, <2>2, ConstantsTyped DEF RateBlocked
  <2>4. Entries' = Entries \cup {n + 1}
    BY <1>13, <1>17
  <2>5. today' = Cardinality(Entries') /\ today' <= MaxDaily
    <3>1. Cardinality(Entries \cup {n + 1}) = Cardinality(Entries) + 1
      BY <1>14, FS_AddElement
    <3>2. today = Cardinality(Entries)
      BY <1>15 DEF Counted
    <3>3. today' <= MaxDaily
      BY <1>1, <2>1, <2>3, ConstantsTyped
    <3>4. QED BY <2>1, <2>4, <3>1, <3>2, <3>3
  <2>6. ASSUME NEW t \in Tickers
        PROVE  /\ trades'[t] = Cardinality({i \in Entries' : Taken'[i].ticker = t})
               /\ trades'[t] <= MaxPerWindow
    <3>1. \A i \in Entries : Taken'[i] = Taken[i]
      BY <1>7, <1>14
    <3>2. CASE t = r.ticker
      <4>1. {i \in Entries' : Taken'[i].ticker = t} = Of(t) \cup {n + 1}
        BY <1>5, <1>7, <2>4, <3>1, <3>2
      <4>2. Cardinality(Of(t) \cup {n + 1}) = Cardinality(Of(t)) + 1
        BY <1>14, <1>15, FS_AddElement
      <4>3. trades[t] = Cardinality(Of(t)) /\ trades'[t] = trades[t] + 1
            /\ trades[t] \in Nat
        BY <1>1, <1>15, <2>1, <3>2 DEF Counted
      <4>4. trades'[t] <= MaxPerWindow
        BY <2>3, <3>2, <4>3, ConstantsTyped
      <4>5. QED BY <4>1, <4>2, <4>3, <4>4
    <3>3. CASE t # r.ticker
      <4>1. {i \in Entries' : Taken'[i].ticker = t} = Of(t)
        BY <1>5, <1>7, <2>4, <3>1, <3>3
      <4>2. trades[t] = Cardinality(Of(t)) /\ trades'[t] = trades[t]
            /\ trades[t] <= MaxPerWindow
        BY <1>1, <1>15, <2>1, <3>3 DEF Counted
      <4>3. QED BY <4>1, <4>2
    <3>4. QED BY <3>2, <3>3
  <2>7. \A i \in Entries : /\ Taken'[i] = Taken[i] /\ Taken[i].asOf \in Nat \ {0}
                           /\ Taken[i].asOf <= lastEntry /\ i < n + 1 /\ i \in Nat
    <3>1. \A i \in 1 .. n : Taken[i].asOf \in Nat \ {0}
      BY <1>7 DEF Decisions
    <3>2. QED BY <1>7, <1>14, <1>15, <3>1 DEF Counted
  <2>8. \A i \in Entries : r.asOf >= Taken[i].asOf + Cooldown
    BY SMTT(30), <1>1, <1>3, <2>3, <2>7, ConstantsTyped
  <2>9. \A i \in Entries' : Taken'[i].asOf <= lastEntry'
    <3>1. ASSUME NEW i \in Entries PROVE Taken'[i].asOf <= lastEntry'
      <4>1. Taken'[i] = Taken[i] /\ Taken[i].asOf \in Nat
        BY <2>7
      <4>2. r.asOf >= Taken[i].asOf + Cooldown
        BY <2>8
      <4>3. r.asOf \in Nat /\ Cooldown \in Nat
        BY <1>3, ConstantsTyped
      <4>4. QED BY <2>1, <4>1, <4>2, <4>3
    <3>2. Taken'[n + 1].asOf = lastEntry' /\ lastEntry' \in Nat
      BY <1>3, <1>5, <1>7, <2>1
    <3>3. QED BY <2>4, <3>1, <3>2
  <2>10. \A i, j \in Entries' : i < j => Taken'[j].asOf >= Taken'[i].asOf + Cooldown
    <3> TAKE i, j \in Entries'
    <3> HAVE i < j
    <3>1. CASE i \in Entries /\ j \in Entries
      BY <1>15, <2>7, <3>1 DEF Counted
    <3>2. CASE i \in Entries /\ j = n + 1
      BY <1>5, <1>7, <2>7, <2>8, <3>2
    <3>3. CASE i = n + 1
      <4>1. j \in Entries \/ j = n + 1
        BY <2>4
      <4>2. ~(i < j)
        BY <1>7, <2>7, <3>3, <4>1
      <4>3. QED BY <4>2
    <3>4. QED BY <2>4, <3>1, <3>2, <3>3
  <2>11. Counted'
    BY <1>4, <2>2, <2>5, <2>6, <2>9, <2>10 DEF Counted
  <2>12. QED BY <1>10, <1>11, <1>12, <2>11 DEF RuntimeInv
<1>18. QED BY <1>16, <1>17

\* The poll's decisions join the others; together they are what they were.
LEMMA ReportStep ==
    ASSUME TypeOK, RuntimeInv, NEW abort \in BOOLEAN, Report(abort) PROVE RuntimeInv'
<1>1. decisions \in Seq(Decisions) /\ decided \in Seq(Decisions)
  BY DEF TypeOK, RuntimeTypeOK
<1>2. Taken' = Taken
  <2>1. decisions' = decisions \o decided /\ decided' = <<>>
    BY DEF Report
  <2>2. (decisions \o decided) \o <<>> = decisions \o decided
    BY <1>1
  <2>3. QED BY <2>1, <2>2 DEF Taken
<1>3. Entries' = Entries
  BY <1>2 DEF Entries
<1>4. /\ batch = <<>> /\ pc' \in {"ending", "sleep"}
      /\ UNCHANGED <<mode, pollNow, seen, batch, trades, today, lastEntry>>
  BY DEF Report, tradeState
<1>5. Unstarted' /\ InHand'
  BY <1>4 DEF Unstarted, InHand
<1>6. Judged'
  BY <1>2, <1>4 DEF RuntimeInv, Judged, DecidedOnce, DecidedInTime, KeyOf
<1>7. Counted'
  BY <1>2, <1>3, <1>4 DEF RuntimeInv, Counted
<1>8. QED BY <1>5, <1>6, <1>7 DEF RuntimeInv

\* Every step keeps what the run promises.
LEMMA RuntimeStep == TypeOK /\ RuntimeInv /\ [Next]_vars => RuntimeInv'
<1> SUFFICES ASSUME TypeOK, RuntimeInv, [Next]_vars PROVE RuntimeInv'
  OBVIOUS
<1>b. pc \in {"poll", "read", "sleep"} => batch = <<>>
  BY DEF RuntimeInv, InHand
<1>1. CASE UNCHANGED vars
  BY <1>1, <1>b, MemoryKept DEF vars, runtimeVars, run
<1>2. CASE WriteRunning
  BY <1>2, MemoryKept DEF WriteRunning, run
<1>3. CASE Load
  <2>1. pc = "loading" /\ pc' \in {"poll", "ending"}
        /\ UNCHANGED <<mode, pollNow, seen, batch, decided, decisions, tradeState>>
    BY <1>3 DEF Load
  <2>2. batch = <<>>
    BY <2>1 DEF RuntimeInv, Unstarted, Blank
  <2>3. QED BY <2>1, <2>2, MemoryKept
<1>4. CASE Poll
  BY <1>4, PollStep
<1>5. CASE Read
  BY <1>5, ReadStep
<1>6. CASE Gate
  BY <1>6, GateStep
<1>7. CASE Sleep
  BY <1>7, <1>b, MemoryKept DEF Sleep, run
<1>8. CASE ReportPoll
  <2>1. (~liveBlocked) \in BOOLEAN /\ Report(~liveBlocked)
    BY <1>8 DEF ReportPoll
  <2>2. QED BY <2>1, ReportStep
<1>9. ASSUME Forget
      PROVE  RuntimeInv'
  BY <1>9, BlankNext DEF Forget, ForgetRun, Blank
<1>10. CASE Finalize
  BY <1>9, <1>10 DEF Finalize
<1>11. CASE Crash
  BY <1>9, <1>11 DEF Crash
<1>12. CASE Fail
  BY <1>12, MemoryKept DEF Fail, run
<1>13. CASE StopReads \/ StopWrites \/ \E m \in {"shadow", "paper"} : Refuse(m)
  <2>1. UNCHANGED runtimeVars
    BY <1>13 DEF StopReads, StopWrites, Refuse
  <2>2. QED BY <1>b, <2>1, MemoryKept DEF runtimeVars, run
<1>14. ASSUME NEW m \in {"shadow", "paper"}, Begin(m)
       PROVE  RuntimeInv'
  <2>1. Blank /\ UNCHANGED <<seen, batch, decided, decisions, tradeState>>
    BY <1>14 DEF Begin, CanBegin, RuntimeInv, Unstarted
  <2>2. Blank'
    BY <2>1 DEF Blank, tradeState
  <2>3. QED BY <2>2, BlankNext
<1>15. CASE Tick \/ \E t \in Tickers, k \in Kinds : Record(t, k)
  <2>1. UNCHANGED <<pc, run>>
    BY <1>15 DEF Tick, Record
  <2>2. QED BY <1>b, <2>1, MemoryKept DEF run
<1>16. QED
  BY <1>1, <1>2, <1>3, <1>4, <1>5, <1>6, <1>7, <1>8, <1>10, <1>11, <1>12, <1>13,
     <1>14, <1>15 DEF Next, Process, Loop
-----------------------------------------------------------------------------
(* The counter of _max_consecutive.                                         *)

\* The recursion has a solution: a counter of natural numbers that starts at
\* zero, grows by one at a bad decision and is reset by a good one.
LEMMA StreakFacts ==
    ASSUME NEW bad, decisions \in Seq(Decisions)
    PROVE  /\ Streak(bad)[0] = 0
           /\ \A n \in 1 .. Len(decisions) :
                 Streak(bad)[n] = IF decisions[n] \in bad THEN Streak(bad)[n - 1] + 1 ELSE 0
           /\ \A n \in 0 .. Len(decisions) : Streak(bad)[n] \in Nat
<1> DEFINE L == Len(decisions)
           Counts(f, m) == /\ f \in [0 .. m -> Nat] /\ f[0] = 0
                           /\ \A n \in 1 .. m :
                                 f[n] = IF decisions[n] \in bad THEN f[n - 1] + 1 ELSE 0
           Rule(f) == [n \in 0 .. L |->
                          IF n = 0 THEN 0
                          ELSE IF decisions[n] \in bad THEN f[n - 1] + 1 ELSE 0]
<1>1. L \in Nat
  OBVIOUS
<1>2. \A m \in 0 .. L : \E f : Counts(f, m)
  <2> DEFINE Bad == {m \in 0 .. L : ~\E f : Counts(f, m)}
  <2> SUFFICES ASSUME Bad # {} PROVE FALSE
    OBVIOUS
  <2>1. Bad \in SUBSET Nat
    BY <1>1
  <2>2. PICK m \in Bad : \A k \in Bad : m <= k
    <3> HIDE DEF Bad
    <3> QED BY <2>1, LeastNatural
  <2>3. m \in 0 .. L /\ m \in Nat /\ ~\E f : Counts(f, m)
    BY <1>1, <2>2
  <2>4. CASE m = 0
    <3> DEFINE f0 == [n \in 0 .. 0 |-> 0]
    <3>1. f0 \in [0 .. m -> Nat] /\ f0[0] = 0
      BY <2>4
    <3>2. \A n \in 1 .. m : FALSE
      BY <2>4
    <3>3. Counts(f0, m)
      BY <3>1, <3>2
    <3>4. QED BY <2>3, <3>3
  <2>5. CASE m # 0
    <3>1. m - 1 \in 0 .. L /\ m - 1 \in Nat /\ ~(m <= m - 1)
      BY <1>1, <2>3, <2>5
    <3>2. m - 1 \notin Bad
      BY <2>2, <3>1
    <3>3. PICK g : Counts(g, m - 1)
      BY <3>1, <3>2
    <3> DEFINE f1 == [n \in 0 .. m |->
                         IF n < m THEN g[n]
                         ELSE IF decisions[m] \in bad THEN g[m - 1] + 1 ELSE 0]
    <3>4. g \in [0 .. m - 1 -> Nat] /\ g[m - 1] \in Nat
      BY <3>1, <3>3
    <3>5. f1 \in [0 .. m -> Nat]
      <4>1. \A n \in 0 .. m : n < m => g[n] \in Nat
        BY <2>3, <3>4
      <4>2. QED BY <3>4, <4>1
    <3>6. f1[0] = 0
      BY <2>3, <2>5, <3>3
    <3>7. ASSUME NEW n \in 1 .. m
          PROVE  f1[n] = IF decisions[n] \in bad THEN f1[n - 1] + 1 ELSE 0
      <4>1. n - 1 \in 0 .. m /\ n - 1 < m /\ n \in 0 .. m /\ f1[n - 1] = g[n - 1]
        BY <2>3
      <4>2. CASE n < m
        <5>1. n \in 1 .. m - 1 /\ f1[n] = g[n]
          BY <2>3, <4>1, <4>2
        <5>2. QED BY <3>3, <4>1, <5>1
      <4>3. CASE ~(n < m)
        <5>1. n = m
          BY <2>3, <4>3
        <5>2. QED BY <4>1, <4>3, <5>1
      <4>4. QED BY <4>2, <4>3
    <3> HIDE DEF f1
    <3>8. Counts(f1, m)
      BY <3>5, <3>6, <3>7
    <3>9. QED BY <2>3, <3>8
  <2>6. QED BY <2>4, <2>5
<1>3. \E f : f = Rule(f)
  <2>0. L \in 0 .. L
    BY <1>1
  <2>1. PICK f : Counts(f, L)
    <3> HIDE DEF Counts, L
    <3> QED BY <1>2, <2>0
  <2>2. f = [n \in 0 .. L |-> f[n]]
    BY <2>1
  <2>3. \A n \in 0 .. L : f[n] = IF n = 0 THEN 0
                                 ELSE IF decisions[n] \in bad THEN f[n - 1] + 1 ELSE 0
    <3> TAKE n \in 0 .. L
    <3>1. n = 0 \/ n \in 1 .. L
      BY <1>1
    <3>2. n \in 1 .. L => n # 0
      BY <1>1
    <3>3. QED BY <2>1, <3>1, <3>2
  <2>4. f = Rule(f)
    BY <2>2, <2>3
  <2>5. QED BY <2>4
<1>4. Streak(bad) = CHOOSE f : f = Rule(f)
  BY DEF Streak
<1>5. Streak(bad) = Rule(Streak(bad))
  BY <1>3, <1>4
<1>6. Streak(bad)[0] = 0
  BY <1>1, <1>5
<1>7. \A n \in 1 .. L :
         Streak(bad)[n] = IF decisions[n] \in bad THEN Streak(bad)[n - 1] + 1 ELSE 0
  <2> TAKE n \in 1 .. L
  <2>1. n \in 0 .. L /\ n # 0
    BY <1>1
  <2>2. QED BY <1>5, <2>1
<1> HIDE DEF Rule
<1>8. \A n \in 0 .. L : Streak(bad)[n] \in Nat
  <2> DEFINE Bad == {n \in 0 .. L : Streak(bad)[n] \notin Nat}
  <2> SUFFICES ASSUME Bad # {} PROVE FALSE
    OBVIOUS
  <2>1. Bad \in SUBSET Nat
    BY <1>1
  <2>2. PICK n \in Bad : \A k \in Bad : n <= k
    <3> HIDE DEF Bad
    <3> QED BY <2>1, LeastNatural
  <2>3. n \in 0 .. L /\ n \in Nat /\ Streak(bad)[n] \notin Nat
    BY <1>1, <2>2
  <2>4. n \in 1 .. L /\ n - 1 \in 0 .. L /\ ~(n <= n - 1)
    BY <1>1, <1>6, <2>3
  <2>5. Streak(bad)[n - 1] \in Nat
    BY <2>2, <2>4
  <2>6. QED BY <1>7, <2>3, <2>4, <2>5
<1>9. QED BY <1>6, <1>7, <1>8

\* More than MaxRejections bad decisions in a row drive the counter over the limit.
LEMMA LongStreak ==
    ASSUME NEW bad, decisions \in Seq(Decisions), MaxRejections \in Nat,
           NEW from \in DOMAIN decisions, from + MaxRejections <= Len(decisions),
           \A j \in from .. from + MaxRejections : decisions[j] \in bad
    PROVE  TooMany(bad)
<1> DEFINE c == Streak(bad)
<1>1. Len(decisions) \in Nat /\ DOMAIN decisions = 1 .. Len(decisions)
      /\ from \in Nat /\ from >= 1
  BY LenProperties
<1>2. /\ \A n \in 1 .. Len(decisions) :
            c[n] = IF decisions[n] \in bad THEN c[n - 1] + 1 ELSE 0
      /\ \A n \in 0 .. Len(decisions) : c[n] \in Nat
  BY StreakFacts
<1> HIDE DEF c
<1>3. \A k \in 0 .. MaxRejections : c[from + k] >= k + 1
  <2> DEFINE Bad == {k \in 0 .. MaxRejections : ~(c[from + k] >= k + 1)}
  <2> SUFFICES ASSUME Bad # {} PROVE FALSE
    OBVIOUS
  <2>1. Bad \in SUBSET Nat
    OBVIOUS
  <2>2. PICK k \in Bad : \A i \in Bad : k <= i
    <3> HIDE DEF Bad
    <3> QED BY <2>1, LeastNatural
  <2>3. k \in 0 .. MaxRejections /\ k \in Nat /\ ~(c[from + k] >= k + 1)
    BY <2>2
  <2>4. from + k \in 1 .. Len(decisions) /\ from + k \in from .. from + MaxRejections
        /\ (from + k) - 1 \in 0 .. Len(decisions)
    BY <1>1, <2>3
  <2>5. c[from + k] = c[(from + k) - 1] + 1 /\ c[(from + k) - 1] \in Nat
    BY <1>2, <2>4
  <2>6. CASE k = 0
    BY <2>3, <2>5, <2>6
  <2>7. CASE k # 0
    <3>1. k - 1 \in 0 .. MaxRejections /\ ~(k <= k - 1)
          /\ (from + k) - 1 = from + (k - 1)
      BY <1>1, <2>3, <2>7
    <3>2. c[from + (k - 1)] >= (k - 1) + 1
      BY <2>2, <3>1
    <3>3. QED BY <2>3, <2>5, <3>1, <3>2
  <2>8. QED BY <2>6, <2>7
<1>4. c[from + MaxRejections] > MaxRejections
  <2>1. MaxRejections \in 0 .. MaxRejections /\ from + MaxRejections \in 0 .. Len(decisions)
    BY <1>1
  <2>2. QED BY <1>2, <1>3, <2>1
<1>5. from + MaxRejections \in DOMAIN decisions
  BY <1>1
<1>6. QED BY <1>4, <1>5 DEF TooMany, c
-----------------------------------------------------------------------------
(* The experiment's files.                                                  *)

\* Steps that leave the files and what the process knows of them alone.
LEMMA FilesKept ==
    ASSUME FiledInv,
           UNCHANGED <<mode, liveBlocked, exp, manifests, ledgers, decisions>>
    PROVE  FiledInv'
BY DEF FiledInv, Filed, ShadowLedgers, LiveStopsEverything, CompletedIsSound

\* A process that is gone knows nothing.
LEMMA FilesForgotten ==
    ASSUME Forget PROVE Filed'
BY DEF Forget, ForgetRun, Filed

\* A new manifest that is not COMPLETED, with an empty ledger.
LEMMA NewManifestStep ==
    ASSUME TypeOK, FiledInv, NEW m \in {"shadow", "paper"}, NEW b \in BOOLEAN,
           NEW s \in {"RUNNING", "ABORTED"}, NewManifest(m, b, s)
    PROVE  (ShadowLedgers /\ LiveStopsEverything /\ CompletedIsSound)'
<1> DEFINE n == Len(manifests)
<1>1. /\ n \in Nat /\ DOMAIN manifests = 1 .. n /\ DOMAIN manifests' = 1 .. n + 1
      /\ \A i \in DOMAIN manifests : manifests'[i] = manifests[i] /\ ledgers'[i] = ledgers[i]
      /\ manifests'[n + 1] = [mode |-> m, status |-> s, blocked |-> b]
      /\ ledgers'[n + 1] = <<>>
  BY NewManifestTyped
<1>2. manifests'[n + 1].status # "COMPLETED" /\ DOMAIN ledgers'[n + 1] = {}
  BY <1>1
<1>3. \A i \in DOMAIN manifests' : i \in DOMAIN manifests \/ i = n + 1
  BY <1>1
<1> HIDE DEF n
<1>4. ShadowLedgers'
  BY <1>1, <1>2, <1>3 DEF FiledInv, ShadowLedgers
<1>5. LiveStopsEverything'
  BY <1>1, <1>2, <1>3 DEF FiledInv, LiveStopsEverything
<1>6. CompletedIsSound'
  BY <1>1, <1>2, <1>3, SMTT(30) DEF FiledInv, CompletedIsSound
<1>7. QED BY <1>4, <1>5, <1>6

\* In a shadow run nothing that was taken is a candidate.
LEMMA ShadowTakes ==
    ASSUME RuntimeInv, mode = "shadow"
    PROVE  \A i \in DOMAIN Taken : Taken[i].state # Candidate
BY DEF RuntimeInv, Counted, Entries

\* The poll's decisions go to the ledger of the experiment that runs.
LEMMA ReportFiled ==
    ASSUME TypeOK, RuntimeInv, FiledInv, ReportPoll PROVE FiledInv'
<1>1. pc = "gate" /\ decisions' = decisions \o decided
      /\ ledgers' = [ledgers EXCEPT ![exp] = @ \o decided]
      /\ UNCHANGED <<mode, liveBlocked, exp, manifests>>
  BY DEF ReportPoll, Report, Append_poll
<1>2. Len(manifests) \in Nat /\ DOMAIN manifests = 1 .. Len(manifests)
      /\ exp # 0 /\ exp \in DOMAIN manifests /\ DOMAIN ledgers = DOMAIN manifests
  <2>1. manifests \in Seq(Manifest) /\ exp \in 0 .. Len(manifests) /\ exp # 0
        /\ ledgers \in [DOMAIN manifests -> Seq(Decisions)]
    BY <1>1 DEF TypeOK
  <2>2. Len(manifests) \in Nat /\ DOMAIN manifests = 1 .. Len(manifests)
    BY <2>1, LenProperties
  <2>3. QED BY <2>1, <2>2
<1>3. manifests[exp].mode = mode /\ manifests[exp].blocked = liveBlocked
      /\ manifests[exp].status # "COMPLETED" /\ ledgers[exp] = decisions
      /\ (mode = "paper" => liveBlocked) /\ exp = Len(manifests)
  BY <1>2 DEF FiledInv, Filed
<1>4. ledgers'[exp] = Taken /\ decisions' = Taken
      /\ \A i \in DOMAIN manifests : i # exp => ledgers'[i] = ledgers[i]
  BY <1>1, <1>2, <1>3 DEF Taken
<1>5. mode \in {"shadow", "paper"}
  BY DEF TypeOK, RuntimeTypeOK
<1>6. mode = "shadow" => \A j \in DOMAIN Taken : Taken[j].state # Candidate
  BY ShadowTakes
<1>7. Filed'
  BY <1>1, <1>3, <1>4 DEF Filed
<1>8. ShadowLedgers'
  BY <1>1, <1>3, <1>4, <1>6 DEF FiledInv, ShadowLedgers
<1>9. LiveStopsEverything'
  BY <1>1, <1>3, <1>4, <1>5, <1>6 DEF FiledInv, LiveStopsEverything
<1>10. CompletedIsSound'
  BY <1>1, <1>3, <1>4 DEF FiledInv, CompletedIsSound
<1>11. QED BY <1>7, <1>8, <1>9, <1>10 DEF FiledInv

\* The status of a manifest is rewritten.
LEMMA RestatusStep ==
    ASSUME TypeOK, FiledInv, NEW i \in DOMAIN manifests,
           NEW s \in {"COMPLETED", "ABORTED"},
           manifests' = [manifests EXCEPT ![i].status = s], ledgers' = ledgers,
           s = "COMPLETED" => /\ manifests[i].blocked
                              /\ i = exp /\ ledgers[i] = decisions /\ ~MustAbort
    PROVE  (ShadowLedgers /\ LiveStopsEverything /\ CompletedIsSound)'
<1>1. /\ DOMAIN manifests' = DOMAIN manifests /\ manifests'[i].status = s
      /\ \A j \in DOMAIN manifests :
            /\ manifests'[j].mode = manifests[j].mode
            /\ manifests'[j].blocked = manifests[j].blocked
            /\ j # i => manifests'[j] = manifests[j]
  BY RestatusTyped
<1>2. ShadowLedgers'
  BY <1>1 DEF FiledInv, ShadowLedgers
<1>3. LiveStopsEverything'
  BY <1>1 DEF FiledInv, LiveStopsEverything
<1>4. CompletedIsSound'
  <2> DEFINE Long(l) ==
          \E from \in DOMAIN l :
              /\ from + MaxRejections <= Len(l)
              /\ \/ \A j \in from .. from + MaxRejections : l[j].state = "REJECTED"
                 \/ \A j \in from .. from + MaxRejections : ~l[j].fresh
  <2>1. ASSUME s = "COMPLETED", Long(decisions)
        PROVE  FALSE
    <3> DEFINE rejected == {d \in ToSet(decisions) : d.state = "REJECTED"}
               stale == {d \in ToSet(decisions) : ~d.fresh}
    <3>1. ~TooMany(rejected) /\ ~TooMany(stale)
      BY <2>1 DEF MustAbort
    <3>2. decisions \in Seq(Decisions) /\ MaxRejections \in Nat
      BY ExperimentAssumption DEF TypeOK, RuntimeTypeOK
    <3>3. PICK from \in DOMAIN decisions :
              /\ from + MaxRejections <= Len(decisions)
              /\ \/ \A j \in from .. from + MaxRejections : decisions[j].state = "REJECTED"
                 \/ \A j \in from .. from + MaxRejections : ~decisions[j].fresh
      BY <2>1
    <3>4. \A j \in from .. from + MaxRejections :
              j \in DOMAIN decisions /\ decisions[j] \in ToSet(decisions)
      <4>1. Len(decisions) \in Nat /\ DOMAIN decisions = 1 .. Len(decisions)
        BY <3>2, LenProperties
      <4>2. \A j \in from .. from + MaxRejections : j \in DOMAIN decisions
        BY <3>2, <3>3, <4>1
      <4>3. QED BY <4>2 DEF ToSet
    <3>5. \/ \A j \in from .. from + MaxRejections : decisions[j] \in rejected
          \/ \A j \in from .. from + MaxRejections : decisions[j] \in stale
      BY <3>3, <3>4
    <3> HIDE DEF rejected, stale
    <3>6. TooMany(rejected) \/ TooMany(stale)
      BY <3>2, <3>3, <3>5, LongStreak
    <3>7. QED BY <3>1, <3>6
  <2>2. \A j \in DOMAIN manifests : manifests[j].status = "COMPLETED" => ~Long(ledgers[j])
    BY DEF FiledInv, CompletedIsSound
  <2> HIDE DEF Long
  <2>3. \A j \in DOMAIN manifests' :
            manifests'[j].status = "COMPLETED" => ~Long(ledgers'[j])
    BY <1>1, <2>1, <2>2
  <2>4. QED BY <2>3 DEF CompletedIsSound, Long
<1>5. QED BY <1>2, <1>3, <1>4

\* Every step keeps what the files promise.
LEMMA FiledStep == TypeOK /\ RuntimeInv /\ FiledInv /\ [Next]_vars => FiledInv'
<1> SUFFICES ASSUME TypeOK, RuntimeInv, FiledInv, [Next]_vars PROVE FiledInv'
  OBVIOUS
<1>m. Len(manifests) \in Nat /\ DOMAIN manifests = 1 .. Len(manifests)
      /\ exp \in 0 .. Len(manifests) /\ stopping \in 0 .. Len(manifests)
      /\ mode \in {"shadow", "paper"} /\ liveBlocked \in BOOLEAN
  BY LenProperties DEF TypeOK, RuntimeTypeOK
<1>1. CASE UNCHANGED vars
  BY <1>1, FilesKept DEF vars, runtimeVars, run, experimentVars, files
<1>2. CASE WriteRunning
  <2>1. NewManifest(mode, liveBlocked, "RUNNING") /\ exp' = Len(manifests) + 1
        /\ pc = "starting" /\ mode' = mode /\ liveBlocked' = liveBlocked
        /\ decisions' = decisions
    BY <1>2 DEF WriteRunning, run
  <2>2. decisions = <<>>
    BY <2>1 DEF RuntimeInv, Unstarted, Blank
  <2>3. /\ Len(manifests') = Len(manifests) + 1
        /\ manifests'[Len(manifests) + 1] =
               [mode |-> mode, status |-> "RUNNING", blocked |-> liveBlocked]
        /\ ledgers'[Len(manifests) + 1] = <<>>
    BY <1>m, <2>1, NewManifestTyped
  <2>4. Filed'
    BY <2>1, <2>2, <2>3 DEF FiledInv, Filed
  <2>5. (ShadowLedgers /\ LiveStopsEverything /\ CompletedIsSound)'
    BY <1>m, <2>1, NewManifestStep
  <2>6. QED BY <2>4, <2>5 DEF FiledInv
<1>3. CASE Load
  BY <1>3, FilesKept DEF Load, files
<1>4. CASE (Poll \/ Read \/ Gate \/ Sleep) /\ UNCHANGED experimentVars
  <2>1. UNCHANGED <<mode, decisions>>
    BY <1>4 DEF Poll, Read, Gate, Sleep, run
  <2>2. QED BY <1>4, <2>1, FilesKept DEF experimentVars, files
<1>5. CASE ReportPoll
  BY <1>5, ReportFiled
<1>6. CASE Finalize
  <2> DEFINE s == IF MustAbort THEN "ABORTED" ELSE "COMPLETED"
  <2>1. exp \in DOMAIN manifests /\ exp # 0
    <3>1. pc = "ending"
      BY <1>6 DEF Finalize
    <3>2. exp # 0
      BY <3>1 DEF TypeOK
    <3>3. QED BY <1>m, <3>2
  <2>2. manifests' = [manifests EXCEPT ![exp].status = s] /\ ledgers' = ledgers
        /\ Forget
    BY <1>6 DEF Finalize
  <2>3. s \in {"COMPLETED", "ABORTED"}
    OBVIOUS
  <2>4. s = "COMPLETED" => ~MustAbort
    OBVIOUS
  <2> HIDE DEF s
  <2>5. s = "COMPLETED" => /\ manifests[exp].blocked
                           /\ ledgers[exp] = decisions /\ ~MustAbort
    BY <2>1, <2>4 DEF FiledInv, Filed, MustAbort
  <2>6. (ShadowLedgers /\ LiveStopsEverything /\ CompletedIsSound)'
    BY <2>1, <2>2, <2>3, <2>5, RestatusStep
  <2>7. QED BY <2>2, <2>6, FilesForgotten DEF FiledInv
<1>7. CASE Crash
  <2>1. Forget /\ manifests' = manifests /\ ledgers' = ledgers
    BY <1>7 DEF Crash, files
  <2>2. QED
    BY <2>1, FilesForgotten
       DEF FiledInv, ShadowLedgers, LiveStopsEverything, CompletedIsSound
<1>8. CASE Fail
  BY <1>8, FilesKept DEF Fail, run, files
<1>9. CASE StopReads
  BY <1>9, FilesKept DEF StopReads, runtimeVars, run, files
<1>10. CASE StopWrites
  <2>1. stopping \in DOMAIN manifests
        /\ manifests' = [manifests EXCEPT ![stopping].status = "ABORTED"]
        /\ ledgers' = ledgers /\ UNCHANGED <<mode, liveBlocked, exp, decisions>>
    BY <1>10, <1>m DEF StopWrites, runtimeVars, run
  <2>2. (ShadowLedgers /\ LiveStopsEverything /\ CompletedIsSound)'
    BY <2>1, RestatusStep
  <2>3. /\ Len(manifests') = Len(manifests) /\ manifests'[stopping].status = "ABORTED"
        /\ \A j \in DOMAIN manifests :
              /\ manifests'[j].mode = manifests[j].mode
              /\ manifests'[j].blocked = manifests[j].blocked
              /\ j # stopping => manifests'[j] = manifests[j]
    BY <2>1, RestatusTyped
  <2>4. Filed'
    <3>1. exp # 0 => exp \in DOMAIN manifests
      BY <1>m
    <3>2. QED BY <2>1, <2>3, <3>1 DEF FiledInv, Filed
  <2>5. QED BY <2>2, <2>4 DEF FiledInv
<1>11. ASSUME NEW m \in {"shadow", "paper"}, Begin(m)
       PROVE  FiledInv'
  <2>1. PICK blocked \in BOOLEAN :
            (m = "paper" => blocked) /\ liveBlocked' = blocked
    BY <1>11 DEF Begin, MayRun
  <2>2. pc = "idle" /\ mode' = m
        /\ UNCHANGED <<exp, manifests, ledgers, decisions>>
    BY <1>11 DEF Begin, CanBegin, files
  <2>3. exp = 0
    BY <2>2 DEF TypeOK
  <2>4. Filed'
    BY <2>1, <2>2, <2>3 DEF Filed
  <2>5. QED
    BY <2>2, <2>4 DEF FiledInv, ShadowLedgers, LiveStopsEverything, CompletedIsSound
<1>12. ASSUME NEW m \in {"shadow", "paper"}, Refuse(m)
       PROVE  FiledInv'
  <2>1. PICK b \in BOOLEAN : NewManifest(m, b, "ABORTED")
    BY <1>12 DEF Refuse
  <2>2. pc = "idle" /\ UNCHANGED <<mode, liveBlocked, exp, decisions>>
    BY <1>12 DEF Refuse, CanBegin, runtimeVars, run
  <2>3. exp = 0
    BY <2>2 DEF TypeOK
  <2>4. Filed'
    BY <2>2, <2>3 DEF FiledInv, Filed
  <2>5. (ShadowLedgers /\ LiveStopsEverything /\ CompletedIsSound)'
    BY <2>1, NewManifestStep
  <2>6. QED BY <2>4, <2>5 DEF FiledInv
<1>13. CASE (Tick \/ \E t \in Tickers, k \in Kinds : Record(t, k))
            /\ UNCHANGED experimentVars
  <2>1. UNCHANGED run
    BY <1>13 DEF Tick, Record
  <2>2. QED BY <1>13, <2>1, FilesKept DEF run, experimentVars, files
<1>14. QED
  BY <1>1, <1>2, <1>3, <1>4, <1>5, <1>6, <1>7, <1>8, <1>9, <1>10, <1>11, <1>12,
     <1>13 DEF Next, Process, Loop
-----------------------------------------------------------------------------
(* The theorems.                                                            *)

LEMMA InvariantInit == Init => IInv
<1> SUFFICES ASSUME Init PROVE IInv
  OBVIOUS
<1>1. TypeOK
  BY TypeInit
<1>2. RuntimeInv
  BY BlankRuntime DEF Init, RuntimeInit, Fresh, Blank
<1>3. DOMAIN manifests = {} /\ exp = 0 /\ mode = "shadow"
  BY DEF Init, RuntimeInit
<1>4. FiledInv
  BY <1>3 DEF FiledInv, Filed, ShadowLedgers, LiveStopsEverything, CompletedIsSound
<1>5. QED BY <1>1, <1>2, <1>4 DEF IInv

\* The inductive invariant: the rows in hand are new and in time, the trade state
\* counts the candidates, what the process knows of its experiment is on disk.
THEOREM InductiveInvariant == Spec => []IInv
<1>1. Init => IInv
  BY InvariantInit
<1>2. IInv /\ [Next]_vars => IInv'
  BY TypeStep, RuntimeStep, FiledStep DEF IInv
<1>3. QED BY <1>1, <1>2, PTL DEF Spec

\* The caps on entries and the cooldown hold over a run, for any caps and however
\* rows of different markets and moments interleave.
THEOREM CapsHoldOverTime == Spec => []RateCapsHold
<1>1. IInv => RateCapsHold
  <2> SUFFICES ASSUME IInv PROVE RateCapsHold
    OBVIOUS
  <2>1. Counted
    BY DEF IInv, RuntimeInv
  <2>2. Cardinality(Entries) <= MaxDaily
    BY <2>1 DEF Counted
  <2>3. \A t \in Tickers :
            Cardinality({i \in Entries : Taken[i].ticker = t}) <= MaxPerWindow
    BY <2>1 DEF Counted
  <2>4. \A i, j \in Entries : i < j => Taken[j].asOf >= Taken[i].asOf + Cooldown
    BY <2>1 DEF Counted
  <2>5. QED BY <2>2, <2>3, <2>4 DEF RateCapsHold
<1>2. QED BY <1>1, InductiveInvariant, PTL

\* A run decides on a row once, however often it reads it.
THEOREM RowsAreDecidedOnce == Spec => []DecidedOnce
<1>1. IInv => DecidedOnce
  BY DEF IInv, RuntimeInv, Judged
<1>2. QED BY <1>1, InductiveInvariant, PTL

\* No decision is taken on a stale row or outside the market's trading window.
THEOREM DecisionsAreInTime == Spec => []DecidedInTime
<1>1. IInv => DecidedInTime
  BY DEF IInv, RuntimeInv, Judged
<1>2. QED BY <1>1, InductiveInvariant, PTL

\* The ledger on disk is what the run decided in the polls it has reported.
THEOREM LedgersAreFaithful == Spec => []LedgerFaithful
<1>1. IInv => LedgerFaithful
  BY DEF IInv, FiledInv, Filed, LedgerFaithful
<1>2. QED BY <1>1, InductiveInvariant, PTL

\* A COMPLETED experiment left no ledger with too long a run of rejected or stale
\* decisions.
THEOREM CompletedRunsAreSound == Spec => []CompletedIsSound
<1>1. IInv => CompletedIsSound
  BY DEF IInv, FiledInv
<1>2. QED BY <1>1, InductiveInvariant, PTL

\* An experiment that began under a live configuration neither completes nor
\* leaves a candidate.
THEOREM LiveConfigurationStops == Spec => []LiveStopsEverything
<1>1. IInv => LiveStopsEverything
  BY DEF IInv, FiledInv
<1>2. QED BY <1>1, InductiveInvariant, PTL

\* Shadow leaves no candidate in any ledger and uses up no cap.
THEOREM ShadowEmitsNothing == Spec => []ShadowIsHarmless
<1>1. IInv => ShadowIsHarmless
  <2> SUFFICES ASSUME IInv PROVE ShadowIsHarmless
    OBVIOUS
  <2>1. Counted /\ ShadowLedgers
    BY DEF IInv, RuntimeInv, FiledInv
  <2>2. mode = "shadow" => today = 0 /\ lastEntry = 0
    BY <2>1, FS_EmptySet DEF Counted
  <2>3. QED BY <2>1, <2>2 DEF ShadowLedgers, ShadowIsHarmless
<1>2. QED BY <1>1, InductiveInvariant, PTL
=============================================================================
