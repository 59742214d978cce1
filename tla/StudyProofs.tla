---------------------------- MODULE StudyProofs -----------------------------
(***************************************************************************)
(* Proofs about what judges strategies on labelled windows, as parts of    *)
(* MCResearch: the vault of the miners, the splits of the training, and    *)
(* the two studies of late repricing.  Each has an inductive invariant,    *)
(* and ResearchProofs puts them together with those of the other parts.    *)
(***************************************************************************)
EXTENDS MCResearch, SequenceLemmas

-----------------------------------------------------------------------------
(* Places.  Windows are counted from the oldest, and a split of n windows is *)
(* one of their places, 0 .. n - 1.                                          *)

Windows(P) == P \in SUBSET Int /\ IsFiniteSet(P)
PlaceIn(P, w) == Cardinality({v \in P : v < w})

LEMMA PlaceFacts ==
    ASSUME NEW P, Windows(P), NEW w \in P
    PROVE  /\ Cardinality(P) \in Nat /\ PlaceIn(P, w) \in Nat
           /\ PlaceIn(P, w) < Cardinality(P)
<1> DEFINE Older == {v \in P : v < w}
<1>1. Older \in SUBSET (P \ {w})
  BY DEF Windows
<1>2. IsFiniteSet(P \ {w}) /\ Cardinality(P \ {w}) = Cardinality(P) - 1
  BY FS_RemoveElement DEF Windows
<1>3. IsFiniteSet(Older) /\ Cardinality(Older) <= Cardinality(P \ {w})
  BY <1>1, <1>2, FS_Subset
<1>4. Cardinality(P) \in Nat /\ Cardinality(Older) \in Nat
  BY <1>3, FS_CardinalityType DEF Windows
<1> QED BY <1>2, <1>3, <1>4 DEF PlaceIn

\* Between two windows lie as many as there are places, and they are at least as
\* far apart as these.
LEMMA PlacesApart ==
    ASSUME NEW P, Windows(P), NEW a \in P, NEW b \in P, a < b
    PROVE  /\ PlaceIn(P, a) < PlaceIn(P, b) /\ PlaceIn(P, b) - PlaceIn(P, a) <= b - a
           /\ Cardinality({v \in P : a < v /\ v < b}) = PlaceIn(P, b) - PlaceIn(P, a) - 1
<1> DEFINE Older == {v \in P : v < a}
           Between == {v \in P : a < v /\ v < b}
           From == Between \cup {a}
<1>1. (\A v \in P : v \in Int) /\ a \in Int /\ b \in Int
  BY DEF Windows
<1>2. {v \in P : v < b} = Older \cup From /\ Older \cap From = {} /\ a \notin Between
  <2>1. \A v \in P : v < b <=> v < a \/ v = a \/ (a < v /\ v < b)
    BY <1>1
  <2>2. \A v \in P : ~(v < a /\ (v = a \/ a < v)) /\ ~(a < a)
    BY <1>1
  <2>3. {v \in P : v < b} = Older \cup From
    BY <2>1
  <2> QED BY <2>2, <2>3
<1>3. IsFiniteSet(Older) /\ IsFiniteSet(Between)
  <2>1. Older \in SUBSET P /\ Between \in SUBSET P
    OBVIOUS
  <2> QED BY <2>1, FS_Subset DEF Windows
<1>4. IsFiniteSet(From) /\ Cardinality(From) = Cardinality(Between) + 1
  BY <1>2, <1>3, FS_AddElement
<1>5. Cardinality(Older \cup From) = Cardinality(Older) + Cardinality(From)
  <2>1. Cardinality(Older \cup From)
           = Cardinality(Older) + Cardinality(From) - Cardinality(Older \cap From)
    BY <1>3, <1>4, FS_Union
  <2>2. Cardinality(Older) \in Nat /\ Cardinality(From) \in Nat
    BY <1>3, <1>4, FS_CardinalityType
  <2>3. Cardinality(Older \cap From) = 0
    BY <1>2, FS_EmptySet
  <2> HIDE DEF Older, From
  <2> QED BY <2>1, <2>2, <2>3
<1>6. Cardinality(Older) \in Nat /\ Cardinality(Between) \in Nat
  BY <1>3, FS_CardinalityType
<1>7. Cardinality(From) <= b - a
  <2>1. IsFiniteSet(a .. (b - 1)) /\ Cardinality(a .. (b - 1)) = b - a
    BY <1>1, FS_Interval
  <2>2. \A v \in From : v \in a .. (b - 1)
    BY <1>1
  <2>3. From \in SUBSET (a .. (b - 1))
    BY <2>2
  <2> HIDE DEF From
  <2> QED BY <2>1, <2>3, FS_Subset
<1>8. PlaceIn(P, a) = Cardinality(Older)
      /\ PlaceIn(P, b) = Cardinality(Older) + Cardinality(From)
  BY <1>2, <1>5 DEF PlaceIn
<1> HIDE DEF Older, From, Between
<1>9. PlaceIn(P, b) - PlaceIn(P, a) = Cardinality(From)
  BY <1>4, <1>6, <1>8
<1> QED BY <1>4, <1>6, <1>7, <1>8, <1>9 DEF Between

\* Every place is a window's.
LEMMA PlacesTaken ==
    ASSUME NEW P, Windows(P), NEW i \in Nat, i < Cardinality(P)
    PROVE  \E w \in P : PlaceIn(P, w) = i
<1> DEFINE n == Cardinality(P)
           place == [w \in P |-> PlaceIn(P, w)]
<1>1. n \in Nat
  BY FS_CardinalityType DEF Windows
<1>2. IsFiniteSet(0 .. (n - 1)) /\ Cardinality(0 .. (n - 1)) = n
  <2>1. 0 \in Int /\ n - 1 \in Int
    BY <1>1
  <2>2. /\ IsFiniteSet(0 .. (n - 1))
        /\ Cardinality(0 .. (n - 1)) = IF 0 > n - 1 THEN 0 ELSE n - 1 - 0 + 1
    BY <2>1, FS_Interval
  <2> HIDE DEF n
  <2> QED BY <1>1, <2>2
<1>3. \A w \in P : PlaceIn(P, w) \in 0 .. (n - 1)
  BY <1>1, PlaceFacts
<1>4. \A a, b \in P : PlaceIn(P, a) = PlaceIn(P, b) => a = b
  <2> SUFFICES ASSUME NEW a \in P, NEW b \in P, a # b
               PROVE  PlaceIn(P, a) # PlaceIn(P, b)
    OBVIOUS
  <2>1. a < b \/ b < a
    BY DEF Windows
  <2>2. PlaceIn(P, a) \in Nat /\ PlaceIn(P, b) \in Nat
    BY PlaceFacts
  <2>3. PlaceIn(P, a) < PlaceIn(P, b) \/ PlaceIn(P, b) < PlaceIn(P, a)
    BY <2>1, PlacesApart
  <2> QED BY <2>2, <2>3
<1>5. place \in Injection(P, 0 .. (n - 1))
  BY <1>3, <1>4 DEF Injection, IsInjective
<1>6. place \in Surjection(P, 0 .. (n - 1))
  BY <1>2, <1>5, FS_Injection
<1>7. \A j \in 0 .. (n - 1) : \E w \in P : place[w] = j
  BY <1>6 DEF Surjection
<1> QED BY <1>1, <1>7
-----------------------------------------------------------------------------
(* The vault (Discovery): s1 are the labelled windows, s2 the draws, s3 the  *)
(* runs, s4 the registry, s5 what survivors were validated on.               *)

\* What the assumption says of the numbers.
LEMMA MiningConstants ==
    /\ MaxWindow \in Nat /\ Embargo \in Nat /\ MaxTrials \in Nat /\ MinPanel \in Nat
    /\ Offsets \subseteq Nat /\ 1 .. MinPanel \subseteq 1 .. MaxWindow
    /\ \A n \in MinPanel .. MaxWindow : Mining!Held(n) + 7 * Embargo < n
BY ResearchAssumption DEF Mining!MiningAssumption

\* The instance's sizes and sums are the library's.
LEMMA MiningLibrary ==
    /\ \A S : Mining!Cardinality(S) = Cardinality(S)
    /\ \A f : Mining!FoldFunction(+, 0, f) = FoldFunction(+, 0, f)
<1>1. \A S : Mining!Cardinality(S) = Cardinality(S)
  BY DEF Mining!Cardinality, Cardinality
<1>2. \A f : Mining!FoldFunction(+, 0, f) = FoldFunction(+, 0, f)
  BY DEF Mining!FoldFunction, Mining!FoldFunctionOnSet, Mining!MapThenFoldSet,
         FoldFunction, FoldFunctionOnSet, MapThenFoldSet
<1> QED BY <1>1, <1>2

\* Rounding to the nearest is off by a half at most.
LEMMA NearestFacts ==
    ASSUME NEW a \in Nat, NEW b \in {4, 10}
    PROVE  /\ Mining!Round(a, b) \in Nat
           /\ 2 * a - b <= 2 * b * Mining!Round(a, b)
           /\ 2 * b * Mining!Round(a, b) <= 2 * a + b
<1>1. CASE b = 4
  BY <1>1 DEF Mining!Round
<1>2. CASE b = 10
  BY <1>2 DEF Mining!Round
<1> QED BY <1>1, <1>2

\* How much is held out, and in how many blocks.
LEMMA VaultSizes ==
    ASSUME NEW n \in Nat
    PROVE  /\ Mining!Held(n) \in Nat /\ Mining!Forward(n) \in Nat
           /\ 1 <= Mining!Forward(n) /\ Mining!Forward(n) <= Mining!Held(n)
           /\ Mining!Blocks(n) \in 1..3 /\ Mining!BlockLength(n) \in Nat \ {0}
           /\ Mining!Held(n) # Mining!Forward(n) =>
                 Mining!Blocks(n) * Mining!BlockLength(n)
                    <= Mining!Held(n) - Mining!Forward(n)
<1>1. Mining!Held(n) \in Nat /\ Mining!Held(n) >= 4
  BY NearestFacts DEF Mining!Held, Mining!AtLeast
<1>2. /\ Mining!Forward(n) \in Nat /\ 1 <= Mining!Forward(n)
      /\ Mining!Forward(n) <= Mining!Held(n)
  <2> DEFINE h == Mining!Held(n)
             r == Mining!Round(6 * h, 10)
  <2> HIDE DEF h
  <2>1. h \in Nat /\ h >= 4
    BY <1>1 DEF h
  <2>2. r \in Nat /\ 20 * r <= 12 * h + 10
    BY <2>1, NearestFacts, 6 * h \in Nat
  <2>3. Mining!Forward(n) = IF 1 > r THEN 1 ELSE r
    BY DEF Mining!Forward, Mining!AtLeast, h
  <2> QED BY <2>1, <2>2, <2>3 DEF h
<1> DEFINE d == Mining!Held(n) - Mining!Forward(n)
<1>3. d \in Nat
  BY <1>1, <1>2
<1>4. /\ Mining!Blocks(n) = Mining!AtLeast(1, Mining!AtMost(3, d \div 5))
      /\ Mining!BlockLength(n) = Mining!AtLeast(1, d \div Mining!Blocks(n))
  BY DEF Mining!Blocks, Mining!BlockLength
<1> HIDE DEF d
<1>5. Mining!Blocks(n) \in 1..3 /\ (d # 0 => Mining!Blocks(n) <= d)
  BY <1>3, <1>4 DEF Mining!AtLeast, Mining!AtMost
<1>6. /\ Mining!BlockLength(n) \in Nat \ {0}
      /\ d # 0 => Mining!Blocks(n) * Mining!BlockLength(n) <= d
  <2>1. CASE Mining!Blocks(n) = 1
    BY <2>1, <1>3, <1>4 DEF Mining!AtLeast
  <2>2. CASE Mining!Blocks(n) = 2
    BY <2>2, <1>3, <1>4, <1>5 DEF Mining!AtLeast
  <2>3. CASE Mining!Blocks(n) = 3
    BY <2>3, <1>3, <1>4, <1>5 DEF Mining!AtLeast
  <2> QED BY <1>5, <2>1, <2>2, <2>3
<1> QED BY <1>1, <1>2, <1>3, <1>5, <1>6 DEF d

LEMMA BlocksStart ==
    ASSUME NEW n \in Nat, Mining!Forward(n) <= n, NEW b \in Nat, NEW offset \in Nat
    PROVE  Mining!BlockStart(n, b, offset) \in Nat
<1> DEFINE mid == n - Mining!Forward(n)
           low == (b * mid) \div Mining!Blocks(n)
           high == Mining!AtLeast(low + 1, ((b + 1) * mid) \div Mining!Blocks(n)
                                              - Mining!BlockLength(n))
           last == Mining!AtLeast(low, Mining!AtMost(high, mid - Mining!BlockLength(n)))
<1>1. mid \in Nat /\ Mining!Blocks(n) \in Nat \ {0} /\ Mining!BlockLength(n) \in Nat
  BY VaultSizes
<1> HIDE DEF mid
<1>2. b * mid \in Nat /\ (b + 1) * mid \in Nat
  BY <1>1
<1>3. low \in Nat /\ ((b + 1) * mid) \div Mining!Blocks(n) \in Nat
  BY <1>1, <1>2
<1> HIDE DEF low
<1>4. high \in Int
  BY <1>1, <1>3 DEF Mining!AtLeast
<1> HIDE DEF high
<1>5. last \in Int /\ last >= low
  BY <1>1, <1>3, <1>4 DEF Mining!AtLeast, Mining!AtMost
<1> HIDE DEF last
<1>6. offset % (last - low + 1) \in Nat
  BY <1>3, <1>5
<1>7. Mining!BlockStart(n, b, offset) = low + (offset % (last - low + 1))
  BY DEF Mining!BlockStart, mid, low, high, last
<1> QED BY <1>3, <1>6, <1>7

LEMMA UnionBound ==
    ASSUME NEW S, IsFiniteSet(S), NEW T, IsFiniteSet(T)
    PROVE  /\ IsFiniteSet(S \cup T)
           /\ Cardinality(S \cup T) <= Cardinality(S) + Cardinality(T)
<1>1. /\ Cardinality(S) \in Nat /\ Cardinality(T) \in Nat
      /\ IsFiniteSet(S \cap T) /\ Cardinality(S \cap T) \in Nat
  BY FS_CardinalityType, FS_Intersection
<1> QED BY <1>1, FS_Union

LEMMA IntervalSize ==
    ASSUME NEW a \in Int, NEW b \in Int, NEW n \in Nat, b - a + 1 = n
    PROVE  IsFiniteSet(a..b) /\ Cardinality(a..b) = n
<1>1. /\ IsFiniteSet(a..b)
      /\ Cardinality(a..b) = IF a > b THEN 0 ELSE b - a + 1
  BY FS_Interval
<1>2. CASE n = 0
  BY <1>1, <1>2
<1>3. CASE n > 0
  BY <1>1, <1>3
<1> QED BY <1>2, <1>3

\* What is neither held out nor embargoed: some place is left.
LEMMA PlaceLeft ==
    ASSUME NEW n \in Nat, NEW offset \in Nat, Mining!Held(n) + 7 * Embargo < n
    PROVE  LET held == Mining!HoldIdx(n, offset)
           IN  \E i \in 0 .. (n - 1) : i \notin held \cup Mining!Bad(n, held)
<1> DEFINE held == Mining!HoldIdx(n, offset)
           forward == Mining!Forward(n)
           mid == n - forward
           length == Mining!BlockLength(n)
           start(b) == Mining!BlockStart(n, b, offset)
           near(b) == IF Mining!Held(n) # forward /\ b < Mining!Blocks(n)
                      THEN (start(b) - Embargo) .. (start(b) + length - 1 + Embargo)
                      ELSE {}
           newest == (mid - Embargo) .. (n - 1)
           size(b) == IF Mining!Held(n) # forward /\ b < Mining!Blocks(n)
                      THEN length + 2 * Embargo ELSE 0
<1>1. /\ Mining!Held(n) \in Nat /\ forward \in Nat /\ forward >= 1
      /\ forward <= Mining!Held(n) /\ Embargo \in Nat /\ length \in Nat \ {0}
      /\ Mining!Blocks(n) \in 1..3
      /\ Mining!Held(n) # forward =>
            Mining!Blocks(n) * length <= Mining!Held(n) - forward
  BY VaultSizes, MiningConstants
<1>2. mid \in Nat /\ forward <= n
  BY <1>1
<1>3. \A b \in Nat : start(b) \in Nat
  BY <1>2, BlocksStart
<1> HIDE DEF held, forward, mid, length, start
<1>4. \A b \in 0..2 : IsFiniteSet(near(b)) /\ Cardinality(near(b)) = size(b)
  <2> SUFFICES ASSUME NEW b \in 0..2
               PROVE  IsFiniteSet(near(b)) /\ Cardinality(near(b)) = size(b)
    OBVIOUS
  <2>1. start(b) - Embargo \in Int /\ start(b) + length - 1 + Embargo \in Int
    BY <1>1, <1>3
  <2>2. start(b) \in Nat
    BY <1>3
  <2>3. /\ IsFiniteSet((start(b) - Embargo) .. (start(b) + length - 1 + Embargo))
        /\ Cardinality((start(b) - Embargo) .. (start(b) + length - 1 + Embargo))
              = length + 2 * Embargo
    <3>1. /\ (start(b) + length - 1 + Embargo) - (start(b) - Embargo) + 1
                = length + 2 * Embargo
          /\ length + 2 * Embargo \in Nat
      BY <1>1, <2>2
    <3> QED BY <2>1, <3>1, IntervalSize
  <2> QED BY <2>3, FS_EmptySet
<1>5. IsFiniteSet(newest) /\ Cardinality(newest) = forward + Embargo
  <2>1. mid - Embargo \in Int /\ n - 1 \in Int /\ n - 1 - (mid - Embargo) + 1 = forward + Embargo
    BY <1>1, <1>2 DEF mid
  <2>2. forward + Embargo \in Nat
    BY <1>1
  <2> QED BY <2>1, <2>2, IntervalSize
<1> HIDE DEF near, newest
<1>6. \A i \in held : i \in mid .. (n - 1) \/
         \E b \in 0..2 : near(b) # {} /\ i \in start(b) .. (start(b) + length - 1)
  <2> SUFFICES ASSUME NEW i \in held, i \notin mid .. (n - 1)
               PROVE  \E b \in 0..2 : near(b) # {} /\ i \in start(b) .. (start(b) + length - 1)
    OBVIOUS
  <2>1. /\ Mining!Held(n) # forward
        /\ \E b \in 0 .. (Mining!Blocks(n) - 1) :
              i \in start(b) .. (Mining!AtMost(start(b) + length, mid) - 1)
    BY DEF held, Mining!HoldIdx, mid, forward, start, length
  <2>2. PICK b \in 0 .. (Mining!Blocks(n) - 1) :
              i \in start(b) .. (Mining!AtMost(start(b) + length, mid) - 1)
    BY <2>1
  <2>3. b \in 0..2 /\ b < Mining!Blocks(n) /\ start(b) \in Nat
    BY <1>1, <1>3
  <2>4. i \in start(b) .. (start(b) + length - 1)
    BY <1>1, <1>2, <2>2, <2>3 DEF Mining!AtMost
  <2>5. near(b) # {}
    <3>1. start(b) \in (start(b) - Embargo) .. (start(b) + length - 1 + Embargo)
      BY <1>1, <2>3
    <3> QED BY <2>1, <2>3, <3>1 DEF near
  <2> QED BY <2>3, <2>4, <2>5
<1>7. \A i \in held \cup Mining!Bad(n, held) :
         \E h \in held : h \in Int /\ i \in Int /\ h - Embargo <= i /\ i <= h + Embargo
  <2> SUFFICES ASSUME NEW i \in held \cup Mining!Bad(n, held)
               PROVE  \E h \in held : h \in Int /\ i \in Int /\ h - Embargo <= i /\ i <= h + Embargo
    OBVIOUS
  <2>1. ASSUME NEW h \in held PROVE h \in Int
    <3>1. CASE h \in mid .. (n - 1)
      BY <1>2, <3>1
    <3>2. CASE \E b \in 0..2 : near(b) # {} /\ h \in start(b) .. (start(b) + length - 1)
      BY <3>2
    <3> QED BY <1>6, <3>1, <3>2
  <2>2. CASE i \in held
    BY <1>1, <2>1, <2>2
  <2>3. CASE i \in Mining!Bad(n, held)
    <3>1. PICK h \in held : i \in (h - Embargo) .. (h + Embargo)
      BY <2>3 DEF Mining!Bad
    <3> QED BY <1>1, <2>1, <3>1
  <2> QED BY <2>2, <2>3
<1>8. \A i \in 0 .. (n - 1) : i \in held \cup Mining!Bad(n, held) =>
         i \in ((newest \cup near(0)) \cup near(1)) \cup near(2)
  <2> SUFFICES ASSUME NEW i \in 0 .. (n - 1), i \in held \cup Mining!Bad(n, held)
               PROVE  i \in newest \/ \E b \in 0..2 : i \in near(b)
    BY DEF near
  <2>1. PICK h \in held : h \in Int /\ i \in Int /\ h - Embargo <= i /\ i <= h + Embargo
    BY <1>7
  <2>2. CASE h \in mid .. (n - 1)
    BY <1>1, <1>2, <2>1, <2>2 DEF newest
  <2>3. CASE \E b \in 0..2 : near(b) # {} /\ h \in start(b) .. (start(b) + length - 1)
    <3>1. PICK b \in 0..2 : near(b) # {} /\ h \in start(b) .. (start(b) + length - 1)
      BY <2>3
    <3>2. near(b) = (start(b) - Embargo) .. (start(b) + length - 1 + Embargo)
      BY <3>1 DEF near
    <3>3. i \in (start(b) - Embargo) .. (start(b) + length - 1 + Embargo)
      BY <1>1, <1>3, <2>1, <3>1
    <3> QED BY <3>2, <3>3
  <2> QED BY <1>6, <2>2, <2>3
<1>9. /\ IsFiniteSet(((newest \cup near(0)) \cup near(1)) \cup near(2))
      /\ Cardinality(((newest \cup near(0)) \cup near(1)) \cup near(2))
            <= forward + Embargo + size(0) + size(1) + size(2)
  <2>1. /\ IsFiniteSet(near(0)) /\ IsFiniteSet(near(1)) /\ IsFiniteSet(near(2))
        /\ Cardinality(near(0)) = size(0) /\ Cardinality(near(1)) = size(1)
        /\ Cardinality(near(2)) = size(2)
    BY <1>4
  <2>2. size(0) \in Nat /\ size(1) \in Nat /\ size(2) \in Nat
    BY <1>1
  <2> HIDE DEF size
  <2>3. /\ IsFiniteSet(newest \cup near(0))
        /\ Cardinality(newest \cup near(0)) <= forward + Embargo + size(0)
    BY <1>5, <2>1, UnionBound
  <2>4. Cardinality(newest \cup near(0)) \in Nat
    BY <2>3, FS_CardinalityType
  <2>5. /\ IsFiniteSet((newest \cup near(0)) \cup near(1))
        /\ Cardinality((newest \cup near(0)) \cup near(1))
              <= Cardinality(newest \cup near(0)) + size(1)
    BY <2>1, <2>3, UnionBound
  <2>6. Cardinality((newest \cup near(0)) \cup near(1)) \in Nat
    BY <2>5, FS_CardinalityType
  <2>7. /\ IsFiniteSet(((newest \cup near(0)) \cup near(1)) \cup near(2))
        /\ Cardinality(((newest \cup near(0)) \cup near(1)) \cup near(2))
              <= Cardinality((newest \cup near(0)) \cup near(1)) + size(2)
    BY <2>1, <2>5, UnionBound
  <2>8. Cardinality(((newest \cup near(0)) \cup near(1)) \cup near(2)) \in Nat
    BY <2>7, FS_CardinalityType
  <2> QED BY <1>1, <2>2, <2>3, <2>4, <2>5, <2>6, <2>7, <2>8
<1>10. forward + Embargo + size(0) + size(1) + size(2) < n
  <2>1. CASE Mining!Held(n) = forward
    BY <1>1, <2>1
  <2>2. CASE Mining!Held(n) # forward /\ Mining!Blocks(n) = 1
    BY <1>1, <2>2
  <2>3. CASE Mining!Held(n) # forward /\ Mining!Blocks(n) = 2
    BY <1>1, <2>3
  <2>4. CASE Mining!Held(n) # forward /\ Mining!Blocks(n) = 3
    BY <1>1, <2>4
  <2> QED BY <1>1, <2>1, <2>2, <2>3, <2>4
<1>11. \E i \in 0 .. (n - 1) : i \notin held \cup Mining!Bad(n, held)
  <2> DEFINE U == ((newest \cup near(0)) \cup near(1)) \cup near(2)
  <2> SUFFICES ASSUME \A i \in 0 .. (n - 1) : i \in held \cup Mining!Bad(n, held)
               PROVE  FALSE
    OBVIOUS
  <2>1. 0 .. (n - 1) \in SUBSET U
    BY <1>8
  <2>2. Cardinality(0 .. (n - 1)) = n
    BY IntervalSize, (n - 1) - 0 + 1 = n, 0 \in Int, n - 1 \in Int
  <2> HIDE DEF U
  <2>3. Cardinality(0 .. (n - 1)) <= Cardinality(U) /\ Cardinality(U) \in Nat
    BY <1>9, <2>1, FS_Subset, FS_CardinalityType DEF U
  <2>4. size(0) \in Nat /\ size(1) \in Nat /\ size(2) \in Nat
    BY <1>1
  <2> HIDE DEF size
  <2> QED BY <1>1, <1>9, <1>10, <2>2, <2>3, <2>4 DEF U
<1> QED BY <1>11 DEF held

\* The vault of a panel: what is searched keeps its distance from what is held
\* out, the newest window is held out, and there is something to search.
Panel(P) == P \in SUBSET (1 .. MaxWindow) /\ Cardinality(P) >= MinPanel

LEMMA PanelFacts ==
    ASSUME NEW P, Panel(P)
    PROVE  /\ Windows(P) /\ Cardinality(P) \in MinPanel .. MaxWindow
           /\ Mining!Held(Cardinality(P)) + 7 * Embargo < Cardinality(P)
<1>1. /\ MaxWindow \in Nat /\ MinPanel \in Nat
      /\ \A n \in MinPanel .. MaxWindow : Mining!Held(n) + 7 * Embargo < n
  BY MiningConstants
<1>2. IsFiniteSet(1 .. MaxWindow) /\ Cardinality(1 .. MaxWindow) = MaxWindow
  BY <1>1, IntervalSize, MaxWindow - 1 + 1 = MaxWindow
<1>3. IsFiniteSet(P) /\ Cardinality(P) <= MaxWindow
  BY <1>1, <1>2, FS_Subset DEF Panel
<1>4. Cardinality(P) \in Nat
  BY <1>3, FS_CardinalityType
<1>5. Cardinality(P) \in MinPanel .. MaxWindow
  BY <1>1, <1>3, <1>4 DEF Panel
<1>6. P \in SUBSET Int
  BY DEF Panel
<1> QED BY <1>1, <1>3, <1>5, <1>6 DEF Windows

LEMMA VaultFacts ==
    ASSUME NEW P, Panel(P), NEW offset \in Nat
    PROVE  LET vault == Mining!Build(P, offset)
               Between(a, b) == {w \in P : (a < w /\ w < b) \/ (b < w /\ w < a)}
           IN  /\ vault \in [search : SUBSET Int, holdout : SUBSET Int]
               /\ vault.search \cap vault.holdout = {}
               /\ \A s \in vault.search, h \in vault.holdout :
                     s # h /\ Cardinality(Between(s, h)) >= Embargo
               /\ \A s \in vault.search : \E h \in vault.holdout : s < h
               /\ vault.search # {}
<1> DEFINE vault == Mining!Build(P, offset)
           Between(a, b) == {w \in P : (a < w /\ w < b) \/ (b < w /\ w < a)}
           n == Cardinality(P)
           held == Mining!HoldIdx(n, offset)
           bad == Mining!Bad(n, held)
           place(w) == Cardinality({v \in P : v < w})
<1>1. Windows(P) /\ n \in Nat /\ Mining!Held(n) + 7 * Embargo < n
  BY PanelFacts, MiningConstants
<1>2. /\ vault.search = {w \in P : place(w) \in (0 .. (n - 1)) \ (held \cup bad)}
      /\ vault.holdout = {w \in P : place(w) \in held}
      /\ vault = [search |-> vault.search, holdout |-> vault.holdout]
  <2>1. Mining!Cardinality(P) = n /\ \A w : Mining!Cardinality({v \in P : v < w}) = place(w)
    BY MiningLibrary
  <2> QED BY <2>1 DEF Mining!Build
<1>3. /\ \A w \in P : w \in Int /\ place(w) = PlaceIn(P, w)
      /\ Embargo \in Nat
  BY <1>1, MiningConstants DEF Windows, PlaceIn
<1>4. n - 1 \in held /\ \A i \in held : i \in Nat
  <2>1. Mining!Forward(n) \in Nat \ {0} /\ Mining!Forward(n) <= n
    BY <1>1, VaultSizes, MiningConstants
  <2>2. n - 1 \in (n - Mining!Forward(n)) .. (n - 1)
    BY <1>1, <2>1
  <2>3. n - 1 \in held
    BY <2>2 DEF Mining!HoldIdx
  <2>4. ASSUME NEW i \in held PROVE i \in Nat
    <3>1. CASE i \in (n - Mining!Forward(n)) .. (n - 1)
      BY <1>1, <2>1, <3>1
    <3>2. CASE i \notin (n - Mining!Forward(n)) .. (n - 1)
      <4>1. PICK b \in 0 .. (Mining!Blocks(n) - 1) :
                i \in Mining!BlockStart(n, b, offset) ..
                      (Mining!AtMost(Mining!BlockStart(n, b, offset) + Mining!BlockLength(n),
                                     n - Mining!Forward(n)) - 1)
        BY <3>2 DEF Mining!HoldIdx
      <4>2. b \in Nat
        BY <1>1, <4>1, VaultSizes
      <4>3. Mining!BlockStart(n, b, offset) \in Nat
        BY <1>1, <2>1, <4>2, BlocksStart
      <4> QED BY <4>1, <4>3
    <3> QED BY <3>1, <3>2
  <2> QED BY <2>3, <2>4
<1> HIDE DEF vault, n, held, place
<1>5. vault \in [search : SUBSET Int, holdout : SUBSET Int]
  <2>1. \A w \in vault.search : w \in Int
    BY <1>2, <1>3
  <2>2. \A w \in vault.holdout : w \in Int
    BY <1>2, <1>3
  <2> QED BY <1>2, <2>1, <2>2
<1>6. vault.search \cap vault.holdout = {}
  BY <1>2
<1>7. ASSUME NEW s \in vault.search, NEW h \in vault.holdout
      PROVE  s # h /\ Cardinality(Between(s, h)) >= Embargo
  <2>1. /\ s \in P /\ h \in P /\ s # h
        /\ PlaceIn(P, h) \in held /\ PlaceIn(P, s) \in Nat /\ PlaceIn(P, h) \in Nat
        /\ PlaceIn(P, s) \notin held /\ PlaceIn(P, s) \notin bad
    BY <1>1, <1>2, <1>3, PlaceFacts
  <2>2. PlaceIn(P, s) \notin (PlaceIn(P, h) - Embargo) .. (PlaceIn(P, h) + Embargo)
    BY <2>1 DEF Mining!Bad
  <2>3. PlaceIn(P, s) < PlaceIn(P, h) - Embargo \/ PlaceIn(P, s) > PlaceIn(P, h) + Embargo
    BY <1>3, <2>1, <2>2
  <2>4. CASE s < h
    <3>1. Between(s, h) = {v \in P : s < v /\ v < h}
      BY <1>3, <2>1, <2>4
    <3>2. /\ PlaceIn(P, s) < PlaceIn(P, h)
          /\ Cardinality(Between(s, h)) = PlaceIn(P, h) - PlaceIn(P, s) - 1
      BY <1>1, <2>1, <2>4, <3>1, PlacesApart
    <3> QED BY <1>3, <2>1, <2>3, <3>2
  <2>5. CASE h < s
    <3>1. Between(s, h) = {v \in P : h < v /\ v < s}
      BY <1>3, <2>1, <2>5
    <3>2. /\ PlaceIn(P, h) < PlaceIn(P, s)
          /\ Cardinality(Between(s, h)) = PlaceIn(P, s) - PlaceIn(P, h) - 1
      BY <1>1, <2>1, <2>5, <3>1, PlacesApart
    <3> QED BY <1>3, <2>1, <2>3, <3>2
  <2> QED BY <1>3, <2>1, <2>4, <2>5
<1>8. ASSUME NEW s \in vault.search PROVE \E h \in vault.holdout : s < h
  <2>1. s \in P /\ PlaceIn(P, s) \in 0 .. (n - 1) /\ PlaceIn(P, s) # n - 1
    BY <1>2, <1>3, <1>4
  <2>2. PICK h \in P : PlaceIn(P, h) = n - 1
    <3>1. n - 1 \in Nat /\ n - 1 < n
      BY <1>1, <2>1
    <3> QED BY <1>1, <3>1, PlacesTaken DEF n
  <2>3. h \in vault.holdout
    BY <1>2, <1>3, <1>4, <2>2
  <2>4. ~(h < s)
    <3> SUFFICES ASSUME h < s PROVE FALSE
      OBVIOUS
    <3>1. PlaceIn(P, h) < PlaceIn(P, s)
      BY <1>1, <2>1, <2>2, PlacesApart
    <3> QED BY <1>1, <2>1, <2>2, <3>1
  <2> QED BY <1>3, <2>1, <2>2, <2>3, <2>4
<1>9. vault.search # {}
  <2>1. PICK i \in 0 .. (n - 1) : i \notin held \cup bad
    BY <1>1, PlaceLeft DEF held
  <2>2. PICK w \in P : PlaceIn(P, w) = i
    BY <1>1, <2>1, PlacesTaken DEF n
  <2> QED BY <1>2, <1>3, <2>1, <2>2
<1> QED BY <1>5, <1>6, <1>7, <1>8, <1>9 DEF vault

\* A log of runs, and what one more adds to its trials.
Entries == [space : Spaces, panel : SUBSET (1 .. MaxWindow), trials : Nat]

AddedUp(f) == FoldFunction(+, 0, f)

LEMMA AddedUpGrows ==
    ASSUME NEW f, NEW g, NEW e, Extends(g, f, e)
    PROVE  AddedUp(f) \in Nat /\ AddedUp(g) = AddedUp(f) + g[e]
BY SumGrows DEF AddedUp

LEMMA TrialsGrow ==
    ASSUME NEW log \in Seq(Entries), NEW entry \in Entries, NEW space, NEW panel
    PROVE  /\ Mining!TrialsIn(log, space, panel) \in Nat
           /\ Mining!TrialsIn(Append(log, entry), space, panel) \in Nat
           /\ Mining!TrialsIn(log, space, panel)
                 <= Mining!TrialsIn(Append(log, entry), space, panel)
<1> DEFINE more == Append(log, entry)
           of(r) == IF r.space = space /\ r.panel = panel THEN r.trials ELSE 0
           f == [i \in 1..Len(log) |-> of(log[i])]
           g == [i \in 1..Len(log) \cup {Len(log) + 1} |-> of(more[i])]
<1>1. /\ Len(log) \in Nat /\ DOMAIN log = 1..Len(log) /\ \A i \in 1..Len(log) : log[i] \in Entries
      /\ more \in Seq(Entries) /\ DOMAIN more = 1..(Len(log) + 1)
      /\ \A i \in 1..Len(log) : more[i] = log[i]
      /\ more[Len(log) + 1] = entry
  BY AppendProperties, LenProperties, ElementOfSeq
<1> HIDE DEF more
<1>2. 1..(Len(log) + 1) = 1..Len(log) \cup {Len(log) + 1}
  BY <1>1
<1>3. /\ Mining!TrialsIn(log, space, panel) = AddedUp(f)
      /\ Mining!TrialsIn(more, space, panel) = AddedUp(g)
  <2>1. f = [i \in DOMAIN log |->
               IF log[i].space = space /\ log[i].panel = panel THEN log[i].trials ELSE 0]
    BY <1>1
  <2>2. g = [i \in DOMAIN more |->
               IF more[i].space = space /\ more[i].panel = panel THEN more[i].trials ELSE 0]
    BY <1>1, <1>2
  <2> HIDE DEF f, g
  <2>3. Mining!TrialsIn(log, space, panel) = Mining!FoldFunction(+, 0, f)
    BY <2>1 DEF Mining!TrialsIn
  <2>4. Mining!TrialsIn(more, space, panel) = Mining!FoldFunction(+, 0, g)
    BY <2>2 DEF Mining!TrialsIn
  <2> QED BY <2>3, <2>4, MiningLibrary DEF AddedUp
<1>4. \A r \in Entries : of(r) \in Nat
  BY DEF Entries
<1>5. f \in [1..Len(log) -> Nat]
  BY <1>1, <1>4
<1>6. g \in [1..Len(log) \cup {Len(log) + 1} -> Nat]
  BY <1>1, <1>4
<1>7. \A i \in 1..Len(log) : g[i] = f[i]
  BY <1>1
<1>8. g[Len(log) + 1] \in Nat
  BY <1>6
<1>9. IsFiniteSet(1..Len(log)) /\ Len(log) + 1 \notin 1..Len(log)
  BY <1>1, FS_Interval
<1> HIDE DEF f, g
<1>10. AddedUp(f) \in Nat /\ AddedUp(g) = AddedUp(f) + g[Len(log) + 1]
  <2> DEFINE e == Len(log) + 1
  <2>1. Extends(g, f, e)
    BY <1>5, <1>6, <1>7, <1>9 DEF Extends
  <2> HIDE DEF e
  <2>3. AddedUp(f) \in Nat /\ AddedUp(g) = AddedUp(f) + g[e]
    BY <2>1, AddedUpGrows
  <2> QED BY <2>3 DEF e
<1> QED BY <1>3, <1>8, <1>10 DEF more

LEMMA TrialsAreNat ==
    ASSUME NEW log \in Seq(Entries), NEW space \in Spaces, NEW panel
    PROVE  Mining!TrialsIn(log, space, panel) \in Nat
<1>1. [space |-> space, panel |-> {}, trials |-> 0] \in Entries
  BY DEF Entries
<1> QED BY <1>1, TrialsGrow

\* Runs that are under way.
Runs ==
    [pc : {"sealed", "searched", "judged"}, space : Spaces, panel : SUBSET (1 .. MaxWindow),
     vault : [search : SUBSET Int, holdout : SUBSET Int], known : Seq(Entries),
     trials : Nat, cum : Nat, strength : Nat, passed : BOOLEAN]

LEMMA MiningTypes ==
    ASSUME Mining!MiningInv
    PROVE  /\ s1 \in SUBSET (1 .. MaxWindow) /\ s2 \in [MinPanel .. MaxWindow -> Offsets]
           /\ s4 \in Seq(Entries) /\ s3 \in [Miners -> {Mining!Idle} \cup Runs]
           /\ \A m \in Miners : s3[m] # Mining!Idle => Mining!RunOK(s3[m], s2, s4)
           /\ \A m \in Miners : s3[m].pc # "idle" => s3[m] \in Runs /\ Mining!RunOK(s3[m], s2, s4)
           /\ \A v \in s5 : v[2] = Mining!Build(v[1], s2[Cardinality(v[1])]).holdout
<1>1. /\ s1 \in SUBSET (1 .. MaxWindow) /\ s2 \in [MinPanel .. MaxWindow -> Offsets]
      /\ s4 \in Seq(Entries) /\ s3 \in [Miners -> {Mining!Idle} \cup Runs]
      /\ \A m \in Miners : s3[m] # Mining!Idle => Mining!RunOK(s3[m], s2, s4)
  BY DEF Mining!MiningInv, Runs, Entries
<1>2. \A v \in s5 : v[2] = Mining!Build(v[1], s2[Cardinality(v[1])]).holdout
  BY MiningLibrary DEF Mining!MiningInv
<1>3. \A m \in Miners : s3[m].pc # "idle" => s3[m] \in Runs /\ Mining!RunOK(s3[m], s2, s4)
  BY <1>1 DEF Mining!Idle
<1> QED BY <1>1, <1>2, <1>3

\* A log that has grown takes nothing from a run's account.
LEMMA RunKept ==
    ASSUME Mining!MiningInv, s2' = s2,
           s4' = s4 \/ \E entry \in Entries : s4' = Append(s4, entry)
    PROVE  \A r \in Runs : Mining!RunOK(r, s2, s4) => Mining!RunOK(r, s2', s4')
<1> SUFFICES ASSUME NEW r \in Runs, Mining!RunOK(r, s2, s4) PROVE Mining!RunOK(r, s2', s4')
  OBVIOUS
<1>1. s4 \in Seq(Entries)
  BY MiningTypes
<1> DEFINE known == Mining!TrialsIn(r.known, r.space, r.panel)
           old == Mining!TrialsIn(s4, r.space, r.panel)
           new == Mining!TrialsIn(s4', r.space, r.panel)
<1>2. known \in Nat /\ known <= old
  BY DEF Mining!RunOK
<1>3. new \in Nat /\ old \in Nat /\ old <= new
  <2>1. r.space \in Spaces
    BY DEF Runs
  <2>2. old \in Nat
    BY <1>1, <2>1, TrialsAreNat
  <2>3. CASE s4' = s4
    BY <2>2, <2>3
  <2>4. CASE \E entry \in Entries : s4' = Append(s4, entry)
    BY <1>1, <2>4, TrialsGrow
  <2> QED BY <2>2, <2>3, <2>4
<1>4. known <= new
  BY <1>2, <1>3
<1> QED BY <1>4 DEF Mining!RunOK

LEMMA MiningInit == Mining!Init => Mining!MiningInv
<1> SUFFICES ASSUME Mining!Init PROVE Mining!MiningInv
  OBVIOUS
<1>1. s1 \in SUBSET (1 .. MaxWindow)
  BY MiningConstants DEF Mining!Init
<1>2. /\ s2 \in [MinPanel .. MaxWindow -> Offsets] /\ s4 = <<>> /\ s5 = {}
      /\ s3 = [m \in Miners |-> Mining!Idle]
  BY DEF Mining!Init
<1>3. s4 \in Seq(Entries)
  BY <1>2
<1> QED BY <1>1, <1>2, <1>3 DEF Mining!MiningInv, Entries

\* A new run: the vault is its panel's.
LEMMA RunStarts ==
    ASSUME Mining!MiningInv, NEW m \in Miners, NEW space \in Spaces,
           Mining!Start(m, space)
    PROVE  s3'[m] \in Runs /\ Mining!RunOK(s3'[m], s2', s4') /\ s3' = [s3 EXCEPT ![m] = s3'[m]]
<1> DEFINE panel == Mining!PanelOf(space)
           n == Cardinality(panel)
           new == [pc |-> "sealed", space |-> space, panel |-> panel,
                   vault |-> Mining!Build(panel, s2[n]), known |-> s4,
                   trials |-> 0, cum |-> 0, strength |-> 0, passed |-> FALSE]
<1>1. /\ s1 \in SUBSET (1 .. MaxWindow) /\ s2 \in [MinPanel .. MaxWindow -> Offsets]
      /\ s4 \in Seq(Entries) /\ s3 \in [Miners -> {Mining!Idle} \cup Runs]
  BY MiningTypes
<1>2. /\ s3' = [s3 EXCEPT ![m] = new] /\ n >= MinPanel
      /\ s2' = s2 /\ s4' = s4
  BY MiningLibrary DEF Mining!Start
<1>3. Panel(panel)
  BY <1>1, <1>2 DEF Panel, Mining!PanelOf
<1> HIDE DEF panel
<1>4. n \in MinPanel .. MaxWindow
  BY <1>3, PanelFacts
<1>5. s2[n] \in Nat
  BY <1>1, <1>4, MiningConstants
<1>6. Mining!Build(panel, s2[n]) \in [search : SUBSET Int, holdout : SUBSET Int]
  BY <1>3, <1>5, VaultFacts
<1>7. new \in Runs
  BY <1>1, <1>3, <1>6 DEF Runs, Panel
<1>8. Mining!TrialsIn(s4, space, panel) \in Nat
  BY <1>1, TrialsAreNat
<1>9. Mining!RunOK(new, s2', s4')
  <2>1. /\ panel \in SUBSET (1 .. MaxWindow) /\ Mining!Cardinality(panel) >= MinPanel
        /\ Mining!Build(panel, s2[n]) = Mining!Build(panel, s2'[Mining!Cardinality(panel)])
    BY <1>2, <1>3, MiningLibrary DEF Panel
  <2>2. /\ Mining!TrialsIn(s4, space, panel) \in Nat
        /\ Mining!TrialsIn(s4, space, panel) <= Mining!TrialsIn(s4', space, panel)
    BY <1>2, <1>8
  <2> HIDE DEF n
  <2> QED BY <2>1, <2>2 DEF Mining!RunOK
<1>10. s3'[m] = new
  BY <1>1, <1>2
<1> HIDE DEF new
<1> QED BY <1>2, <1>7, <1>9, <1>10

\* A run goes on.
LEMMA RunGoesOn ==
    ASSUME Mining!MiningInv, NEW m \in Miners, s3[m].pc # "idle",
           NEW trials \in Nat, NEW strength \in Nat, NEW robust \in BOOLEAN,
           Mining!Search(m, trials) \/ Mining!Judge(m, strength, robust)
    PROVE  /\ s3'[m] \in Runs /\ Mining!RunOK(s3'[m], s2', s4') /\ s3' = [s3 EXCEPT ![m] = s3'[m]]
           /\ s1' = s1 /\ s2' = s2 /\ s4' = s4
           /\ s5' \in {s5, s5 \cup {<<s3[m].panel, s3[m].vault.holdout>>}}
<1>1. /\ s4 \in Seq(Entries) /\ s3 \in [Miners -> {Mining!Idle} \cup Runs]
      /\ s3[m] \in Runs /\ Mining!RunOK(s3[m], s2, s4)
  BY MiningTypes
<1> DEFINE r == s3[m]
           known == Mining!TrialsIn(r.known, r.space, r.panel)
           logged == Mining!TrialsIn(s4, r.space, r.panel)
<1>2. known \in Nat /\ logged \in Nat /\ known <= logged
  BY <1>1, TrialsAreNat DEF Mining!RunOK, Runs
<1>3. CASE Mining!Search(m, trials)
  <2> DEFINE new == [r EXCEPT !.pc = "searched", !.trials = trials, !.cum = logged + trials]
  <2>1. /\ s3' = [s3 EXCEPT ![m] = new] /\ s1' = s1 /\ s2' = s2 /\ s4' = s4 /\ s5' = s5
    BY <1>3 DEF Mining!Search, Mining!CumulativeTrials
  <2>2. new \in Runs
    <3> HIDE DEF logged
    <3>1. logged + trials \in Nat
      BY <1>2
    <3> DEFINE total == logged + trials
    <3> HIDE DEF total
    <3>2. [r EXCEPT !.pc = "searched", !.trials = trials, !.cum = total] \in Runs
      BY <1>1, <3>1 DEF Runs, total
    <3> QED BY <3>2 DEF total
  <2>3. /\ new.panel = r.panel /\ new.space = r.space /\ new.known = r.known
        /\ new.vault = r.vault /\ new.trials = trials /\ new.cum = logged + trials
        /\ new.strength = r.strength /\ new.pc = "searched"
    BY <1>1 DEF Runs
  <2> HIDE DEF new
  <2>4. Mining!RunOK(new, s2', s4')
    BY <1>1, <1>2, <2>1, <2>3 DEF Mining!RunOK
  <2>5. s3'[m] = new
    BY <1>1, <2>1
  <2> QED BY <2>1, <2>2, <2>4, <2>5
<1>4. CASE Mining!Judge(m, strength, robust)
  <2> DEFINE passed == /\ r.trials > 0 /\ Mining!Significant(strength, r.cum) /\ robust
             new == [r EXCEPT !.pc = "judged", !.strength = strength, !.passed = passed]
  <2>1. /\ s3' = [s3 EXCEPT ![m] = new] /\ s1' = s1 /\ s2' = s2 /\ s4' = s4
        /\ s5' \in {s5, s5 \cup {<<r.panel, r.vault.holdout>>}} /\ r.pc = "searched"
    BY <1>4 DEF Mining!Judge
  <2>2. passed \in BOOLEAN /\ (passed => strength > r.cum)
    BY DEF Mining!Significant
  <2> HIDE DEF passed
  <2>3. new \in Runs
    BY <1>1, <2>2 DEF Runs
  <2>4. /\ new.panel = r.panel /\ new.space = r.space /\ new.known = r.known
        /\ new.vault = r.vault /\ new.trials = r.trials /\ new.cum = r.cum
        /\ new.strength = strength /\ new.pc = "judged" /\ new.passed = passed
    BY <1>1 DEF Runs
  <2> HIDE DEF new
  <2>5. Mining!RunOK(new, s2', s4')
    BY <1>1, <1>2, <2>1, <2>2, <2>4 DEF Mining!RunOK
  <2>6. s3'[m] = new
    BY <1>1, <2>1
  <2> QED BY <2>1, <2>3, <2>5, <2>6
<1> QED BY <1>3, <1>4

LEMMA MiningStep == Mining!MiningInv /\ Mining!Next => Mining!MiningInv'
<1> SUFFICES ASSUME Mining!MiningInv, Mining!Next PROVE Mining!MiningInv'
  OBVIOUS
<1>1. /\ s1 \in SUBSET (1 .. MaxWindow) /\ s2 \in [MinPanel .. MaxWindow -> Offsets]
      /\ s4 \in Seq(Entries) /\ s3 \in [Miners -> {Mining!Idle} \cup Runs]
      /\ \A m \in Miners : s3[m] # Mining!Idle => Mining!RunOK(s3[m], s2, s4)
      /\ \A m \in Miners : s3[m].pc # "idle" => s3[m] \in Runs /\ Mining!RunOK(s3[m], s2, s4)
      /\ \A v \in s5 : v[2] = Mining!Build(v[1], s2[Mining!Cardinality(v[1])]).holdout
  BY MiningTypes, MiningLibrary
\* It is enough to look at what changes.
<1>2. ASSUME s1' \in SUBSET (1 .. MaxWindow), s2' = s2,
             s4' = s4 \/ \E entry \in Entries : s4' = Append(s4, entry),
             s3' = s3 \/ \E m \in Miners : \E r :
                 /\ s3' = [s3 EXCEPT ![m] = r]
                 /\ r = Mining!Idle \/ (r \in Runs /\ Mining!RunOK(r, s2', s4')),
             s5' = s5 \/ \E m \in Miners :
                 /\ s3[m].pc # "idle"
                 /\ s5' = s5 \cup {<<s3[m].panel, s3[m].vault.holdout>>}
      PROVE  Mining!MiningInv'
  <2>1. s4' \in Seq(Entries)
    BY <1>1, <1>2, AppendProperties
  <2>2. s3' \in [Miners -> {Mining!Idle} \cup Runs]
    BY <1>1, <1>2
  <2>3. \A r \in Runs : Mining!RunOK(r, s2, s4) => Mining!RunOK(r, s2', s4')
    BY <1>2, RunKept
  <2>4. ASSUME NEW m \in Miners, s3'[m] # Mining!Idle
        PROVE  Mining!RunOK(s3'[m], s2', s4')
    <3>1. CASE s3'[m] = s3[m]
      <4>1. s3[m] \in Runs /\ Mining!RunOK(s3[m], s2, s4)
        BY <1>1, <2>4, <3>1
      <4> QED BY <2>3, <3>1, <4>1
    <3>2. CASE s3'[m] # s3[m]
      <4>1. PICK k \in Miners : \E r :
               /\ s3' = [s3 EXCEPT ![k] = r]
               /\ r = Mining!Idle \/ (r \in Runs /\ Mining!RunOK(r, s2', s4'))
        BY <1>2, <3>2
      <4>2. PICK r : /\ s3' = [s3 EXCEPT ![k] = r]
                     /\ r = Mining!Idle \/ (r \in Runs /\ Mining!RunOK(r, s2', s4'))
        BY <4>1
      <4>3. s3'[m] = r
        BY <1>1, <3>2, <4>2
      <4> QED BY <2>4, <4>2, <4>3
    <3> QED BY <3>1, <3>2
  <2>5. ASSUME NEW v \in s5'
        PROVE  v[2] = Mining!Build(v[1], s2[Mining!Cardinality(v[1])]).holdout
    <3>1. CASE v \in s5
      BY <1>1, <3>1
    <3>2. CASE v \notin s5
      <4>1. PICK m \in Miners : s3[m].pc # "idle" /\ v = <<s3[m].panel, s3[m].vault.holdout>>
        BY <1>2, <2>5, <3>2
      <4>2. s3[m].vault = Mining!Build(s3[m].panel, s2[Mining!Cardinality(s3[m].panel)])
        BY <1>1, <4>1 DEF Mining!RunOK
      <4> QED BY <4>1, <4>2
    <3> QED BY <3>1, <3>2
  <2>6. \A m \in Miners : (s3[m] # Mining!Idle => Mining!RunOK(s3[m], s2, s4))'
    BY <2>4
  <2> QED BY <1>1, <1>2, <2>1, <2>2, <2>5, <2>6 DEF Mining!MiningInv, Runs, Entries
<1>3. CASE \E w \in 1 .. MaxWindow : Mining!Label(w)
  <2>1. /\ s1' \in SUBSET (1 .. MaxWindow)
        /\ s2' = s2 /\ s3' = s3 /\ s4' = s4 /\ s5' = s5
    BY <1>1, <1>3 DEF Mining!Label
  <2> QED BY <1>2, <2>1
<1>4. ASSUME NEW m \in Miners, NEW space \in Spaces, Mining!Start(m, space)
      PROVE  Mining!MiningInv'
  <2>1. /\ s1' = s1 /\ s2' = s2 /\ s4' = s4 /\ s5' = s5
    BY <1>4 DEF Mining!Start
  <2>2. s3'[m] \in Runs /\ Mining!RunOK(s3'[m], s2', s4') /\ s3' = [s3 EXCEPT ![m] = s3'[m]]
    BY <1>4, RunStarts
  <2> QED BY <1>1, <1>2, <2>1, <2>2
<1>5. ASSUME NEW m \in Miners, NEW trials \in Nat, NEW strength \in Nat, NEW robust \in BOOLEAN,
             Mining!Search(m, trials) \/ Mining!Judge(m, strength, robust)
      PROVE  Mining!MiningInv'
  <2>1. s3[m].pc # "idle"
    BY <1>5 DEF Mining!Search, Mining!Judge
  <2>2. /\ s3'[m] \in Runs /\ Mining!RunOK(s3'[m], s2', s4') /\ s3' = [s3 EXCEPT ![m] = s3'[m]]
        /\ s1' = s1 /\ s2' = s2 /\ s4' = s4
        /\ s5' \in {s5, s5 \cup {<<s3[m].panel, s3[m].vault.holdout>>}}
    BY <1>5, <2>1, RunGoesOn
  <2> QED BY <1>1, <1>2, <2>1, <2>2
<1>6. ASSUME NEW m \in Miners, Mining!LogRun(m) PROVE Mining!MiningInv'
  <2>1. s3[m] \in Runs
    BY <1>1, <1>6 DEF Mining!LogRun
  <2>2. [space |-> s3[m].space, panel |-> s3[m].panel, trials |-> s3[m].trials] \in Entries
    BY <2>1 DEF Runs, Entries
  <2>3. /\ s1' = s1 /\ s2' = s2 /\ s5' = s5 /\ s3' = [s3 EXCEPT ![m] = Mining!Idle]
        /\ s4' = Append(s4, [space |-> s3[m].space, panel |-> s3[m].panel,
                             trials |-> s3[m].trials])
    BY <1>6 DEF Mining!LogRun
  <2> QED BY <1>1, <1>2, <2>2, <2>3
<1>7. ASSUME NEW m \in Miners, Mining!Crash(m) PROVE Mining!MiningInv'
  <2>1. /\ s1' = s1 /\ s2' = s2 /\ s5' = s5 /\ s4' = s4
        /\ s3' = [s3 EXCEPT ![m] = Mining!Idle]
    BY <1>7 DEF Mining!Crash
  <2> QED BY <1>1, <1>2, <2>1
<1>8. \A k : /\ k \in 0 .. MaxTrials => k \in Nat
             /\ k \in 1 .. (2 * MaxTrials) => k \in Nat
  BY MiningConstants
<1>9. 0 \in Nat /\ TRUE \in BOOLEAN
  OBVIOUS
<1> QED BY <1>3, <1>4, <1>5, <1>6, <1>7, <1>8, <1>9 DEF Mining!Next

LEMMA MiningStutter == Mining!MiningInv /\ UNCHANGED <<s1, s2, s3, s4, s5>> => Mining!MiningInv'
BY DEF Mining!MiningInv

LEMMA VaultsHold ==
    Mining!MiningInv =>
       Mining!SeamEmbargoed /\ Mining!SameDataSameSeal /\ Mining!BudgetCoversSameData
<1> SUFFICES ASSUME Mining!MiningInv
             PROVE  Mining!SeamEmbargoed /\ Mining!SameDataSameSeal /\ Mining!BudgetCoversSameData
  OBVIOUS
<1>1. /\ \A m \in Miners : s3[m].pc # "idle" => s3[m] \in Runs /\ Mining!RunOK(s3[m], s2, s4)
      /\ s2 \in [MinPanel .. MaxWindow -> Offsets]
      /\ \A v \in s5 : v[2] = Mining!Build(v[1], s2[Cardinality(v[1])]).holdout
  BY MiningTypes
<1>2. ASSUME NEW m \in Miners, s3[m].pc # "idle"
      PROVE  /\ Panel(s3[m].panel) /\ s2[Cardinality(s3[m].panel)] \in Nat
             /\ s3[m].vault = Mining!Build(s3[m].panel, s2[Cardinality(s3[m].panel)])
  <2>1. Panel(s3[m].panel)
    BY <1>1, <1>2, MiningLibrary DEF Mining!RunOK, Panel
  <2>2. Cardinality(s3[m].panel) \in MinPanel .. MaxWindow
    BY <2>1, PanelFacts
  <2>3. s2[Cardinality(s3[m].panel)] \in Nat
    BY <1>1, <2>2, MiningConstants
  <2>4. s3[m].vault = Mining!Build(s3[m].panel, s2[Cardinality(s3[m].panel)])
    BY <1>1, <1>2, MiningLibrary DEF Mining!RunOK
  <2> QED BY <2>1, <2>3, <2>4
<1>3. Mining!SeamEmbargoed
  <2> SUFFICES ASSUME NEW m \in Miners, s3[m].pc # "idle"
               PROVE  LET vault == s3[m].vault
                          Between(a, b) == {w \in s3[m].panel : (a < w /\ w < b) \/ (b < w /\ w < a)}
                      IN  /\ \A s \in vault.search, h \in vault.holdout :
                                s # h /\ Cardinality(Between(s, h)) >= Embargo
                          /\ \A s \in vault.search : \E h \in vault.holdout : s < h
                          /\ vault.search # {}
    BY MiningLibrary DEF Mining!SeamEmbargoed
  <2> DEFINE P == s3[m].panel
             offset == s2[Cardinality(P)]
  <2>1. Panel(P) /\ offset \in Nat /\ s3[m].vault = Mining!Build(P, offset)
    BY <1>2
  <2> HIDE DEF offset
  <2> QED BY <2>1, VaultFacts
<1>4. Mining!SameDataSameSeal
  <2> SUFFICES ASSUME NEW v \in s5, NEW m \in Miners, s3[m].pc # "idle", s3[m].panel = v[1]
               PROVE  s3[m].vault.search \cap v[2] = {}
    BY DEF Mining!SameDataSameSeal
  <2> DEFINE P == s3[m].panel
             offset == s2[Cardinality(P)]
  <2>1. Panel(P) /\ offset \in Nat /\ s3[m].vault = Mining!Build(P, offset)
    BY <1>2
  <2>2. v[2] = Mining!Build(P, offset).holdout
    BY <1>1
  <2> HIDE DEF offset
  <2>3. Mining!Build(P, offset).search \cap Mining!Build(P, offset).holdout = {}
    BY <2>1, VaultFacts
  <2> QED BY <2>1, <2>2, <2>3
<1>5. Mining!BudgetCoversSameData
  <2> SUFFICES ASSUME NEW m \in Miners, s3[m].pc = "judged", s3[m].passed
               PROVE  s3[m].strength > s3[m].trials
                         + Mining!TrialsIn(s3[m].known, s3[m].space, s3[m].panel)
    BY DEF Mining!BudgetCoversSameData
  <2>1. s3[m] \in Runs /\ Mining!RunOK(s3[m], s2, s4)
    BY <1>1
  <2>2. /\ s3[m].trials \in Nat /\ s3[m].cum \in Nat /\ s3[m].strength \in Nat
        /\ s3[m].strength > s3[m].cum
        /\ Mining!TrialsIn(s3[m].known, s3[m].space, s3[m].panel) \in Nat
        /\ Mining!TrialsIn(s3[m].known, s3[m].space, s3[m].panel) + s3[m].trials <= s3[m].cum
    BY <2>1 DEF Mining!RunOK
  <2> QED BY <2>2
<1> QED BY <1>3, <1>4, <1>5
-----------------------------------------------------------------------------
(* The splits (WindowTraining): s1 are the settled windows, s2 the promoted  *)
(* ones, s3 the last study.                                                  *)

LEMMA TrainingConstants ==
    /\ LastWindow \in Nat /\ Late \in Nat /\ MinTrain \in Nat /\ Embargoes \subseteq Nat
    /\ WalkSplits \in Nat \ {0} /\ Groups \in Nat \ {0} /\ TestGroups \in 1 .. (Groups - 1)
    /\ \A e \in Embargoes : e + 2 <= MinTrain
    /\ Late <= Training!Round(3 * MinTrain, 10) /\ Late < MinTrain
BY ResearchAssumption DEF Training!TrainingAssumption

LEMMA TrainingLibrary == \A S : Training!Cardinality(S) = Cardinality(S)
BY DEF Training!Cardinality, Cardinality

\* Division with a remainder, and rounding by it.
LEMMA Quotient ==
    ASSUME NEW p \in Nat, NEW q \in Nat \ {0}
    PROVE  /\ p \div q \in Nat /\ p % q \in 0 .. (q - 1)
           /\ p = q * (p \div q) + (p % q)
OBVIOUS

LEMMA RoundFacts ==
    ASSUME NEW p \in Nat, NEW q \in Nat \ {0}
    PROVE  /\ Training!Round(p, q) \in Nat
           /\ 2 * (q * Training!Round(p, q)) <= 2 * p + q
           /\ 2 * p <= 2 * (q * Training!Round(p, q)) + q
<1> DEFINE d == p \div q
           m == p % q
           r == Training!Round(p, q)
<1>1. d \in Nat /\ m \in 0 .. (q - 1) /\ p = q * d + m
  BY Quotient
<1>2. r = IF 2 * m > q \/ (2 * m = q /\ d % 2 = 1) THEN d + 1 ELSE d
  BY DEF Training!Round
<1>3. q * (d + 1) = q * d + q /\ q * d \in Nat
  BY <1>1, Distributes, q * 1 = q
<1> HIDE DEF d, m, r
<1>4. CASE 2 * m > q \/ (2 * m = q /\ d % 2 = 1)
  BY <1>1, <1>2, <1>3, <1>4 DEF r
<1>5. CASE ~(2 * m > q \/ (2 * m = q /\ d % 2 = 1))
  BY <1>1, <1>2, <1>3, <1>5 DEF r
<1> QED BY <1>4, <1>5
-----------------------------------------------------------------------------
(* The windows at places of a fold.                                          *)

\* The instance counts places as the lemmas above do.
LEMMA TrainPlaces ==
    ASSUME Windows(s1)
    PROVE  /\ Training!N = Cardinality(s1) /\ Training!N \in Nat
           /\ \A w : Training!Place(w) = PlaceIn(s1, w)
           /\ \A places, w : w \in Training!At(places) <=> w \in s1 /\ PlaceIn(s1, w) \in places
           /\ \A w \in s1 : PlaceIn(s1, w) \in 0 .. (Training!N - 1)
<1>1. Training!N = Cardinality(s1) /\ \A w : Training!Place(w) = PlaceIn(s1, w)
  BY TrainingLibrary DEF Training!N, Training!Place, PlaceIn
<1>2. Training!N \in Nat
  BY <1>1, FS_CardinalityType DEF Windows
<1>3. \A w \in s1 : PlaceIn(s1, w) \in 0 .. (Training!N - 1)
  BY <1>1, <1>2, PlaceFacts
<1> QED BY <1>1, <1>2, <1>3 DEF Training!At

\* Windows are further apart than their places.
LEMMA PlacesAhead ==
    ASSUME Windows(s1), NEW A, NEW B, NEW e \in Int,
           \A i \in A, j \in B : i \in Int /\ j \in Int /\ j - i > e /\ e >= 0
    PROVE  Training!Ahead(Training!At(A), Training!At(B), e)
<1> SUFFICES ASSUME NEW a \in Training!At(A), NEW b \in Training!At(B)
             PROVE  b - a > e
  BY DEF Training!Ahead
<1>1. a \in s1 /\ b \in s1 /\ PlaceIn(s1, a) \in A /\ PlaceIn(s1, b) \in B
  BY TrainPlaces
<1>2. a \in Int /\ b \in Int
  BY <1>1 DEF Windows
<1>3. PlaceIn(s1, b) - PlaceIn(s1, a) > e /\ e >= 0
      /\ PlaceIn(s1, a) \in Int /\ PlaceIn(s1, b) \in Int
  BY <1>1
<1>4. a < b
  <2>1. CASE a = b
    BY <2>1, <1>3
  <2>2. CASE b < a
    <3>1. PlaceIn(s1, b) < PlaceIn(s1, a)
      BY <2>2, <1>1, PlacesApart
    <3> QED BY <3>1, <1>3
  <2> QED BY <2>1, <2>2, <1>2
<1>5. PlaceIn(s1, b) - PlaceIn(s1, a) <= b - a
  BY <1>1, <1>4, PlacesApart
<1> QED BY <1>2, <1>3, <1>5

LEMMA PlacesApartBoth ==
    ASSUME Windows(s1), NEW A, NEW B, NEW e \in Nat,
           \A i \in A, j \in B : i \in Int /\ j \in Int /\ (j - i > e \/ i - j > e)
    PROVE  Training!Apart(Training!At(A), Training!At(B), e)
<1> SUFFICES ASSUME NEW a \in Training!At(A), NEW b \in Training!At(B)
             PROVE  b - a > e \/ a - b > e
  BY DEF Training!Apart
<1>1. a \in s1 /\ b \in s1 /\ PlaceIn(s1, a) \in A /\ PlaceIn(s1, b) \in B
  BY TrainPlaces
<1>2. a \in Int /\ b \in Int
  BY <1>1 DEF Windows
<1>3. /\ PlaceIn(s1, b) - PlaceIn(s1, a) > e \/ PlaceIn(s1, a) - PlaceIn(s1, b) > e
      /\ PlaceIn(s1, a) \in Int /\ PlaceIn(s1, b) \in Int
  BY <1>1
<1>4. CASE a = b
  BY <1>4, <1>3
<1>5. CASE a < b
  <2>1. /\ PlaceIn(s1, a) < PlaceIn(s1, b)
        /\ PlaceIn(s1, b) - PlaceIn(s1, a) <= b - a
    BY <1>5, <1>1, PlacesApart
  <2> QED BY <2>1, <1>2, <1>3
<1>6. CASE b < a
  <2>1. /\ PlaceIn(s1, b) < PlaceIn(s1, a)
        /\ PlaceIn(s1, a) - PlaceIn(s1, b) <= a - b
    BY <1>6, <1>1, PlacesApart
  <2> QED BY <2>1, <1>2, <1>3
<1> QED BY <1>2, <1>4, <1>5, <1>6

\* A place below the number of windows is a window's.
LEMMA PlacesSettled ==
    ASSUME Windows(s1), NEW A, NEW i \in A, i \in 0 .. (Training!N - 1)
    PROVE  Training!At(A) # {}
<1>1. Training!N = Cardinality(s1) /\ Training!N \in Nat
  BY TrainPlaces
<1>2. PICK w \in s1 : PlaceIn(s1, w) = i
  <2>1. i \in Nat /\ i < Cardinality(s1)
    BY <1>1
  <2> QED BY <2>1, PlacesTaken
<1>3. w \in Training!At(A)
  BY <1>2, TrainPlaces
<1> QED BY <1>3

\* A fold that keeps its parts e places apart keeps its windows apart.
Divided(f, e) ==
    /\ \E i \in f.fit : i \in 0 .. (Training!N - 1)
    /\ \E j \in f.judge : j \in 0 .. (Training!N - 1)
    /\ f.fit \subseteq Int /\ f.tune \subseteq Int /\ f.judge \subseteq Int
    /\ \A i \in f.fit, j \in f.tune \cup f.judge : j - i > e
    /\ \A i \in f.tune, j \in f.judge : j - i > e
HeldOut(g, e) ==
    /\ g.fit # {} /\ g.judge # {}
    /\ Training!Ahead(g.fit, g.tune \cup g.judge, e)
    /\ Training!Ahead(g.tune, g.judge, e)

LEMMA WindowsHeldOut ==
    ASSUME Windows(s1), NEW f, NEW e \in Nat, Divided(f, e)
    PROVE  HeldOut(Training!OfWindows(f), e)
<1> DEFINE g == Training!OfWindows(f)
<1>1. /\ g.fit = Training!At(f.fit) /\ g.tune = Training!At(f.tune)
      /\ g.judge = Training!At(f.judge)
  BY DEF Training!OfWindows, Training!Fold
<1>2. g.fit # {} /\ g.judge # {}
  BY <1>1, PlacesSettled DEF Divided
<1>3. Training!Ahead(Training!At(f.fit), Training!At(f.tune \cup f.judge), e)
  <2>1. \A i \in f.fit, j \in f.tune \cup f.judge : i \in Int /\ j \in Int /\ j - i > e /\ e >= 0
    BY DEF Divided
  <2> QED BY <2>1, PlacesAhead
<1>4. Training!Ahead(Training!At(f.tune), Training!At(f.judge), e)
  <2>1. \A i \in f.tune, j \in f.judge : i \in Int /\ j \in Int /\ j - i > e /\ e >= 0
    BY DEF Divided
  <2> QED BY <2>1, PlacesAhead
<1>5. Training!At(f.tune \cup f.judge) = Training!At(f.tune) \cup Training!At(f.judge)
  BY DEF Training!At
<1> QED BY <1>1, <1>2, <1>3, <1>4, <1>5 DEF HeldOut

\* Enough windows are judged, the newest ones.
LEMMA SplitFacts ==
    ASSUME NEW n \in Nat \ {0}, NEW e \in Nat
    PROVE  /\ n < e + 2 => Training!SplitIndices(n, e).judge = {}
           /\ n >= e + 2 =>
                 \E v \in 1 .. (n - e - 1) :
                    /\ Training!SplitIndices(n, e)
                          = Training!Fold(0 .. (n - v - e - 1), {}, (n - v) .. (n - 1))
                    /\ v = n - e - 1 \/ (v >= Training!Round(3 * n, 10) /\ v >= 1)
<1>1. CASE n < e + 2
  BY <1>1 DEF Training!SplitIndices, Training!Fold
<1>2. CASE n >= e + 2
  <2> DEFINE v == Training!ValSize(n, e)
             r == Training!Round(3 * n, 10)
  <2>1. r \in Nat
    BY RoundFacts, 3 * n \in Nat
  <2>2. v = Training!Least(Training!Most(1, r), n - e - 1)
    BY DEF Training!ValSize
  <2>3. v \in 1 .. (n - e - 1) /\ (v = n - e - 1 \/ (v >= r /\ v >= 1))
    <3> HIDE DEF r, v
    <3> QED BY <1>2, <2>1, <2>2 DEF Training!Least, Training!Most
  <2>4. Training!SplitIndices(n, e) = Training!Fold(0 .. (n - v - e - 1), {}, (n - v) .. (n - 1))
    BY <1>2 DEF Training!SplitIndices
  <2> HIDE DEF v
  <2> QED BY <1>2, <2>3, <2>4
<1> QED BY <1>1, <1>2

LEMMA SplitDivides ==
    ASSUME Windows(s1), Training!N > 0, NEW e \in Nat,
           Training!SplitIndices(Training!N, e).judge # {}
    PROVE  Divided(Training!SplitIndices(Training!N, e), e)
<1> DEFINE n == Training!N
<1>1. n \in Nat \ {0} /\ Training!SplitIndices(n, e).judge # {}
  BY TrainPlaces
<1> HIDE DEF n
<1>2. PICK v \in 1 .. (n - e - 1) :
         Training!SplitIndices(n, e)
            = Training!Fold(0 .. (n - v - e - 1), {}, (n - v) .. (n - 1))
  <2>1. ~(n < e + 2)
    BY <1>1, SplitFacts
  <2>2. n >= e + 2
    BY <2>1, <1>1
  <2> QED BY <1>1, <2>2, SplitFacts
<1>3. n - v - e - 1 >= 0 /\ n - v <= n - 1 /\ v \in Int
  BY <1>1, <1>2
<1>4. 0 \in 0 .. (n - v - e - 1) /\ (n - 1) \in (n - v) .. (n - 1) /\ 0 \in 0 .. (n - 1)
      /\ (n - 1) \in 0 .. (n - 1)
  BY <1>1, <1>3
<1>5. \A i \in 0 .. (n - v - e - 1), j \in (n - v) .. (n - 1) : j - i > e
  BY <1>1, <1>3
<1>6. Divided(Training!Fold(0 .. (n - v - e - 1), {}, (n - v) .. (n - 1)), e)
  BY <1>1, <1>3, <1>4, <1>5 DEF Divided, Training!Fold, n
<1> QED BY <1>2, <1>6 DEF n

LEMMA ThreeWayFacts ==
    ASSUME NEW n \in Nat, NEW e \in Nat, NEW f \in Training!ThreeWay(n, e)
    PROVE  \E t \in Nat \ {0}, c \in Nat \ {0} :
              /\ t + c + 2 * e < n
              /\ t >= Training!Round(n, 2)
              /\ c >= Training!Round(n, 4) \/ t + c + 2 * e = n - 1
              /\ f = Training!Fold(0 .. (t - 1), (t + e) .. (t + e + c - 1),
                                   (t + c + 2 * e) .. (n - 1))
<1> DEFINE h == Training!Round(n, 2)
           q == Training!Round(n, 4)
           t == Training!Most(1, h)
           c == Training!Least(Training!Most(1, q), n - t - 2 * e - 1)
<1>1. h \in Nat /\ q \in Nat
  BY RoundFacts
<1>2. /\ ~(n < 3 + 2 * e \/ c <= 0)
      /\ f = Training!Fold(0 .. (t - 1), (t + e) .. (t + e + c - 1),
                           (t + c + 2 * e) .. (n - 1))
  BY DEF Training!ThreeWay
<1> HIDE DEF h, q
<1>3. t \in Nat \ {0} /\ t >= h
  BY <1>1 DEF Training!Most
<1> HIDE DEF t
<1>4. c \in Nat \ {0} /\ t + c + 2 * e < n /\ (c >= q \/ t + c + 2 * e = n - 1)
  BY <1>1, <1>2, <1>3 DEF Training!Most, Training!Least
<1> HIDE DEF c
<1> QED BY <1>2, <1>3, <1>4 DEF h, q

LEMMA ThreeWayDivides ==
    ASSUME Windows(s1), NEW e \in Nat, NEW f \in Training!ThreeWay(Training!N, e)
    PROVE  Divided(f, e)
<1> DEFINE n == Training!N
<1>1. n \in Nat /\ f \in Training!ThreeWay(n, e)
  BY TrainPlaces
<1> HIDE DEF n
<1>2. PICK t \in Nat \ {0}, c \in Nat \ {0} :
         /\ t + c + 2 * e < n
         /\ t >= Training!Round(n, 2)
         /\ c >= Training!Round(n, 4) \/ t + c + 2 * e = n - 1
         /\ f = Training!Fold(0 .. (t - 1), (t + e) .. (t + e + c - 1),
                              (t + c + 2 * e) .. (n - 1))
  BY <1>1, ThreeWayFacts
<1>3. /\ 0 \in 0 .. (t - 1) /\ (n - 1) \in (t + c + 2 * e) .. (n - 1)
      /\ 0 \in 0 .. (n - 1) /\ (n - 1) \in 0 .. (n - 1)
  BY <1>1, <1>2
<1>4. /\ \A i \in 0 .. (t - 1), j \in (t + e) .. (t + e + c - 1) : j - i > e
      /\ \A i \in 0 .. (t - 1), j \in (t + c + 2 * e) .. (n - 1) : j - i > e
      /\ \A i \in (t + e) .. (t + e + c - 1), j \in (t + c + 2 * e) .. (n - 1) : j - i > e
  BY <1>1, <1>2
<1>5. /\ f.fit = 0 .. (t - 1) /\ f.tune = (t + e) .. (t + e + c - 1)
      /\ f.judge = (t + c + 2 * e) .. (n - 1)
  BY <1>2 DEF Training!Fold
<1>6. f.fit \subseteq Int /\ f.tune \subseteq Int /\ f.judge \subseteq Int
  BY <1>5
<1>7. /\ \A i \in f.fit, j \in f.tune : j - i > e
      /\ \A i \in f.fit, j \in f.judge : j - i > e
      /\ \A i \in f.tune, j \in f.judge : j - i > e
  BY <1>4, <1>5
<1>8. 0 \in f.fit /\ (n - 1) \in f.judge
  BY <1>3, <1>5
<1>9. \A i \in f.fit, j \in f.tune \cup f.judge : j - i > e
  BY <1>7
<1> HIDE DEF Training!N
<1> QED BY <1>3, <1>6, <1>7, <1>8, <1>9 DEF Divided, n

LEMMA WalkForwardDivides ==
    ASSUME Windows(s1), NEW e \in Nat, NEW f \in Training!WalkForward(Training!N, e)
    PROVE  Divided(f, e)
<1> DEFINE n == Training!N
           size == Training!Most(1, (n - e) \div (WalkSplits + 1))
<1>1. n \in Nat /\ f \in Training!WalkForward(n, e)
  BY TrainPlaces
<1> HIDE DEF n
<1>2. /\ n >= WalkSplits + e + 1
      /\ \E k \in 1 .. WalkSplits :
            /\ (k + 1) * size + e <= n
            /\ f = Training!Fold(0 .. (k * size - 1), {},
                                 (k * size + e) .. ((k + 1) * size + e - 1))
  <2>1. n >= WalkSplits + e + 1
    BY <1>1, TrainingConstants DEF Training!WalkForward
  <2>2. ~ (n < WalkSplits + e + 1)
    BY <1>1, <2>1, TrainingConstants
  <2>3. f \in {Training!Fold(0 .. (k * size - 1), {},
                            (k * size + e) .. ((k + 1) * size + e - 1)) :
                 k \in {k \in 1 .. WalkSplits : (k + 1) * size + e <= n}}
    BY Zenon, <1>1, <2>2 DEF Training!WalkForward
  <2> HIDE DEF size
  <2>4. QED BY <2>1, <2>3
<1>3. size \in Nat \ {0}
  <2> DEFINE d == (n - e) \div (WalkSplits + 1)
  <2>1. n - e \in Nat /\ WalkSplits + 1 \in Nat \ {0}
    BY <1>1, <1>2, TrainingConstants
  <2>2. d \in Nat
    BY <2>1, Quotient
  <2> HIDE DEF d
  <2> QED BY <2>2 DEF Training!Most, d
<1> HIDE DEF size
<1>4. PICK k \in 1 .. WalkSplits :
         /\ (k + 1) * size + e <= n
         /\ f = Training!Fold(0 .. (k * size - 1), {},
                              (k * size + e) .. ((k + 1) * size + e - 1))
  BY <1>2
<1>5. k \in Nat \ {0}
  BY TrainingConstants
<1>6. k * size \in Nat /\ k * size >= 1 /\ (k + 1) * size = k * size + size
  <2>1. size * (k + 1) = size * k + size * 1 /\ size * k \in Nat
    BY <1>3, <1>5, Distributes
  <2>2. size * ((k - 1) + 1) = size * (k - 1) + size * 1 /\ size * (k - 1) \in Nat
    BY <1>3, <1>5, k - 1 \in Nat, Distributes
  <2>3. (k - 1) + 1 = k /\ size * 1 = size /\ (k + 1) * size = size * (k + 1)
        /\ k * size = size * k
    BY <1>3, <1>5
  <2> QED BY <1>3, <2>1, <2>2, <2>3
<1> DEFINE m == k * size
<1>7. /\ m \in Nat /\ m >= 1 /\ m + size + e <= n
      /\ f = Training!Fold(0 .. (m - 1), {}, (m + e) .. (m + size + e - 1))
  BY <1>4, <1>6
<1> HIDE DEF m
<1>8. f.fit = 0 .. (m - 1) /\ f.tune = {} /\ f.judge = (m + e) .. (m + size + e - 1)
  BY <1>7 DEF Training!Fold
<1>9. /\ 0 \in f.fit /\ 0 \in 0 .. (n - 1)
      /\ (m + e) \in f.judge /\ (m + e) \in 0 .. (n - 1)
  BY <1>1, <1>3, <1>7, <1>8
<1>10. \A i \in f.fit, j \in f.judge : j - i > e
  BY <1>3, <1>7, <1>8
<1>11. f.fit \subseteq Int /\ f.tune \subseteq Int /\ f.judge \subseteq Int
  BY <1>8
<1> QED BY <1>8, <1>9, <1>10, <1>11 DEF Divided, n

\* A part of n, rounded, is not more than n.
LEMMA PartRounded ==
    ASSUME NEW n \in Nat, NEW q \in Nat \ {0}, NEW k \in 0 .. q
    PROVE  Training!Round(k * n, q) \in 0 .. n
<1> DEFINE r == Training!Round(k * n, q)
<1>1. k \in Nat /\ k * n \in Nat
  OBVIOUS
<1>2. r \in Nat /\ 2 * (q * r) <= 2 * (k * n) + q
  BY <1>1, RoundFacts
<1> HIDE DEF r
<1>3. k * n <= q * n
  <2>1. PICK d \in Nat : q = k + d
    BY <1>1, q - k \in Nat, q = k + (q - k)
  <2>2. n * (k + d) = n * k + n * d /\ n * d \in Nat /\ n * k \in Nat
    BY <1>1, <2>1, Distributes
  <2>3. q * n = n * (k + d) /\ k * n = n * k
    BY <2>1, <1>1
  <2> QED BY <2>2, <2>3
<1>4. r <= n
  <2> SUFFICES ASSUME r > n PROVE FALSE
    BY <1>2
  <2>1. PICK d \in Nat : r = n + (1 + d)
    BY <1>2, r - n - 1 \in Nat, r = n + (1 + (r - n - 1))
  <2>2. q * r = q * n + q * (1 + d) /\ q * n \in Nat
    BY <2>1, Distributes
  <2>3. q * (1 + d) = q * 1 + q * d /\ q * d \in Nat /\ q * 1 = q
    BY <2>1, Distributes
  <2> QED BY <1>1, <1>2, <1>3, <2>2, <2>3
<1> QED BY <1>2, <1>4 DEF r

LEMMA PurgedWalkDivides ==
    ASSUME Windows(s1), NEW e \in Nat, NEW f \in Training!PurgedWalkForward(Training!N, e)
    PROVE  Divided(f, e)
<1> DEFINE n == Training!N
           edge(k) == Training!Round(k * n, WalkSplits + 1)
           test(k) == edge(k) .. (edge(k + 1) - 1)
<1>1. n \in Nat /\ f \in Training!PurgedWalkForward(n, e)
  BY TrainPlaces
<1> HIDE DEF n
<1>2. PICK k \in 1 .. WalkSplits :
         /\ f = Training!Fold((0 .. (edge(k) - 1)) \ Training!Embargoed(test(k), e), {}, test(k))
         /\ f.fit # {} /\ f.judge # {}
  BY <1>1 DEF Training!PurgedWalkForward
<1>3. edge(k) \in 0 .. n /\ edge(k + 1) \in 0 .. n
  <2>1. k \in 0 .. (WalkSplits + 1) /\ k + 1 \in 0 .. (WalkSplits + 1)
        /\ WalkSplits + 1 \in Nat \ {0}
    BY TrainingConstants
  <2> QED BY <1>1, <2>1, PartRounded
<1> DEFINE a == edge(k)
           b == edge(k + 1)
<1> HIDE DEF edge
<1>4. /\ f.fit = (0 .. (a - 1)) \ Training!Embargoed(a .. (b - 1), e)
      /\ f.tune = {} /\ f.judge = a .. (b - 1)
  BY <1>2 DEF Training!Fold
<1>5. a \in 0 .. n /\ b \in 0 .. n
  BY <1>3
<1> HIDE DEF a, b
<1>6. \A i \in f.fit, j \in f.judge : j - i > e
  <2> SUFFICES ASSUME NEW i \in f.fit, NEW j \in f.judge PROVE j - i > e
    OBVIOUS
  <2>1. i \in 0 .. (a - 1) /\ j \in a .. (b - 1) /\ i \notin (j - e) .. (j + e)
    BY <1>4 DEF Training!Embargoed
  <2> QED BY <1>5, <2>1
<1>7. f.fit \subseteq Int /\ f.tune \subseteq Int /\ f.judge \subseteq Int
  BY <1>4
<1>8. PICK i \in f.fit, j \in f.judge : TRUE
  BY <1>2
<1>9. i \in 0 .. (n - 1) /\ j \in 0 .. (n - 1)
  BY <1>1, <1>4, <1>5, <1>8
<1> QED BY <1>4, <1>6, <1>7, <1>8, <1>9 DEF Divided, n

\* Groups are divided at these places, and tested in combinations.
Bound(n, i) == Training!Round(i * n, Groups)
Tested(n, combo) == UNION {Bound(n, g) .. (Bound(n, g + 1) - 1) : g \in combo}
Combined(n, e, combo) ==
    Training!Fold((0 .. (n - 1)) \ Training!Embargoed(Tested(n, combo), e), {},
                  Tested(n, combo))
Combos == kSubset(TestGroups, 0 .. (Groups - 1))

LEMMA CombinationsApart ==
    ASSUME Windows(s1), NEW e \in Nat, NEW combo \in SUBSET (0 .. (Groups - 1))
    PROVE  LET f == Training!OfWindows(Combined(Training!N, e, combo))
           IN  Training!Apart(f.fit, f.judge, e)
<1> DEFINE n == Training!N
           test == Tested(n, combo)
<1>1. n \in Nat
  BY TrainPlaces
<1> HIDE DEF n
<1>2. \A j \in test : j \in Int
  <2> SUFFICES ASSUME NEW g \in combo, NEW j \in Bound(n, g) .. (Bound(n, g + 1) - 1)
               PROVE  j \in Int
    BY DEF Tested
  <2>1. g \in Nat /\ g * n \in Nat /\ (g + 1) * n \in Nat
    BY <1>1, TrainingConstants
  <2>2. Bound(n, g) \in Nat /\ Bound(n, g + 1) \in Nat
    BY <2>1, RoundFacts, TrainingConstants DEF Bound
  <2> QED BY <2>2
<1> HIDE DEF test
<1> DEFINE fit == (0 .. (n - 1)) \ Training!Embargoed(test, e)
<1>3. \A i \in fit, j \in test : i \in Int /\ j \in Int /\ (j - i > e \/ i - j > e)
  <2> SUFFICES ASSUME NEW i \in fit, NEW j \in test
               PROVE  i \in Int /\ j \in Int /\ (j - i > e \/ i - j > e)
    OBVIOUS
  <2>1. i \in 0 .. (n - 1) /\ i \notin (j - e) .. (j + e)
    BY DEF Training!Embargoed
  <2> QED BY <1>1, <1>2, <2>1
<1> HIDE DEF fit
<1>4. Training!Apart(Training!At(fit), Training!At(test), e)
  BY <1>3, PlacesApartBoth
<1> QED BY <1>4 DEF Combined, Training!OfWindows, Training!Fold, fit, test, n

\* The folds are those of the combinations that leave something to fit.
LEMMA CombinedFolds ==
    ASSUME NEW n \in Nat, NEW e \in Nat
    PROVE  /\ Training!CombinatorialPurged(n, e)
                 = IF n < Groups THEN {}
                   ELSE {f \in {Combined(n, e, combo) : combo \in Combos} : f.fit # {}}
           /\ Combos \subseteq SUBSET (0 .. (Groups - 1))
           /\ Combos = {c \in SUBSET (0 .. (Groups - 1)) : Cardinality(c) = TestGroups}
<1>1. Training!kSubset(TestGroups, 0 .. (Groups - 1)) = Combos
  BY TrainingLibrary DEF Training!kSubset, Combos, kSubset
<1> QED BY <1>1 DEF Training!CombinatorialPurged, Combined, Tested, Bound, Combos, kSubset

LEMMA DryRunFacts ==
    ASSUME NEW w \in Int, NEW newest \in Int, NEW e \in Nat, w <= newest,
           \E row \in {2 * w - 2, 2 * w - 1} :
              ~Training!Purged(row, 2 * w, 2 * newest - 2, 2 * newest, e)
    PROVE  newest - w > 1
BY DEF Training!Purged, Training!Overlaps
-----------------------------------------------------------------------------
(* A study holds out what it says, whichever it is.                          *)

LEMMA TrainTypes ==
    ASSUME Training!TrainInv
    PROVE  /\ Windows(s1) /\ s1 \in SUBSET (1 .. LastWindow) /\ s2 \in SUBSET s1
           /\ Training!N \in Nat
<1>1. IsFiniteSet(1 .. LastWindow)
  BY TrainingConstants, FS_Interval
<1>2. s1 \in SUBSET (1 .. LastWindow) /\ s2 \in SUBSET s1
  BY DEF Training!TrainInv
<1>3. Windows(s1)
  <2>1. s1 \in SUBSET Int
    BY <1>2
  <2> QED BY <1>1, <1>2, <2>1, FS_Subset DEF Windows
<1> QED BY <1>2, <1>3, TrainPlaces

\* A study of folds that are divided.
LEMMA DividedStudy ==
    ASSUME Windows(s1), NEW kind \in {"train", "calibrate", "walk"}, NEW e \in Nat,
           NEW tradable, NEW folds, Training!Study(kind, e, tradable, folds),
           \A f \in folds : Divided(f, e)
    PROVE  Training!HeldOutStaysOut' /\ Training!ReviewedOnUnseen'
<1>1. /\ s3'.kind = kind /\ s3'.embargo = e
      /\ s3'.folds = {Training!OfWindows(f) : f \in folds}
  BY DEF Training!Study
<1>2. \A f \in folds : HeldOut(Training!OfWindows(f), e)
  BY WindowsHeldOut
<1>3. \A g \in s3'.folds : HeldOut(g, e)
  BY <1>1, <1>2
<1>4. Training!HeldOutStaysOut'
  BY <1>1, <1>3 DEF Training!HeldOutStaysOut, HeldOut, Training!Ahead
<1>5. Training!ReviewedOnUnseen'
  BY <1>1 DEF Training!ReviewedOnUnseen
<1> QED BY <1>4, <1>5

LEMMA TrainStudy ==
    ASSUME Training!TrainInv, NEW e \in Embargoes, NEW diagnostic \in BOOLEAN,
           Training!Train(e, diagnostic)
    PROVE  Training!HeldOutStaysOut' /\ Training!ReviewedOnUnseen'
<1> DEFINE n == Training!N
           fold == Training!SplitIndices(n, e)
<1>1. Windows(s1) /\ n \in Nat /\ n > 0 /\ e \in Nat
  BY TrainTypes, TrainingConstants DEF Training!Train
<1>2. PICK tradable : /\ tradable = (n >= MinTrain /\ ~diagnostic)
                      /\ Training!Study(IF fold.judge = {} THEN "in_sample" ELSE "train", e,
                                        tradable, {fold})
  BY DEF Training!Train
<1>3. CASE fold.judge # {}
  <2>1. Training!Study("train", e, tradable, {fold})
    BY <1>2, <1>3
  <2>2. \A f \in {fold} : Divided(f, e)
    BY <1>1, <1>3, SplitDivides
  <2> QED BY <1>1, <2>1, <2>2, DividedStudy
<1>4. CASE fold.judge = {}
  <2>1. s3'.kind = "in_sample" /\ s3'.tradable = tradable
    BY <1>2, <1>4 DEF Training!Study
  <2>2. n < e + 2
    <3> SUFFICES ASSUME n >= e + 2 PROVE FALSE
      BY <1>1
    <3>1. n \in Nat \ {0} /\ e \in Nat
      BY <1>1
    <3> HIDE DEF n
    <3>2. PICK v \in 1 .. (n - e - 1) :
             /\ fold = Training!Fold(0 .. (n - v - e - 1), {}, (n - v) .. (n - 1))
             /\ v = n - e - 1 \/ (v >= Training!Round(3 * n, 10) /\ v >= 1)
      BY <3>1, SplitFacts
    <3>3. fold.judge = (n - v) .. (n - 1)
      BY <3>2 DEF Training!Fold
    <3>4. (n - 1) \in fold.judge
      BY <3>1, <3>2, <3>3
    <3> QED BY <3>4, <1>4
  <2>3. ~(n >= MinTrain)
    BY <1>1, <2>2, TrainingConstants
  <2>4. ~s3'.tradable
    BY <1>2, <2>1, <2>3
  <2>5. Training!HeldOutStaysOut'
    BY <2>1, <2>4 DEF Training!HeldOutStaysOut
  <2>6. Training!ReviewedOnUnseen'
    BY <2>1 DEF Training!ReviewedOnUnseen
  <2> QED BY <2>5, <2>6
<1> QED BY <1>3, <1>4

\* There is a newest window.
LEMMA NewestFacts ==
    ASSUME NEW P, Windows(P), P # {}
    PROVE  Training!Max(P) \in P /\ \A w \in P : Training!Max(P) >= w
<1> DEFINE n == Cardinality(P)
<1>1. n \in Nat /\ n # 0
  BY FS_CardinalityType, FS_EmptySet DEF Windows
<1>2. PICK m \in P : PlaceIn(P, m) = n - 1
  BY <1>1, n - 1 \in Nat, n - 1 < n, PlacesTaken
<1>3. \A w \in P : m >= w
  <2> SUFFICES ASSUME NEW w \in P, m < w PROVE FALSE
    BY DEF Windows
  <2>1. PlaceIn(P, m) < PlaceIn(P, w)
    BY PlacesApart
  <2>2. PlaceIn(P, w) \in Nat /\ PlaceIn(P, w) < n
    BY PlaceFacts
  <2> HIDE DEF n
  <2> QED BY <1>1, <1>2, <2>1, <2>2
<1> QED BY <1>3 DEF Training!Max

LEMMA DryRunStudy ==
    ASSUME Training!TrainInv, NEW e \in Embargoes, Training!DryRun(e)
    PROVE  Training!HeldOutStaysOut' /\ Training!ReviewedOnUnseen'
<1> DEFINE newest == Training!Max(s1)
           safe == {w \in s1 : \E row \in {2 * w - 2, 2 * w - 1} :
                       ~Training!Purged(row, 2 * w, 2 * newest - 2, 2 * newest, e)}
<1>1. Windows(s1) /\ e \in Nat /\ s1 # {}
  <2>1. Cardinality(s1) > 0
    BY TrainTypes, TrainPlaces DEF Training!DryRun
  <2>2. s1 # {}
    BY <2>1, FS_EmptySet
  <2> QED BY <2>2, TrainTypes, TrainingConstants
<1>2. newest \in s1 /\ \A w \in s1 : newest >= w
  BY <1>1, NewestFacts
<1>3. /\ s3'.kind = "dry_run" /\ s3'.folds = {Training!Fold(safe, {}, {newest})}
  BY DEF Training!DryRun
<1> HIDE DEF newest
<1>4. Training!Ahead(safe, {newest}, 1)
  <2> SUFFICES ASSUME NEW w \in safe PROVE newest - w > 1
    BY DEF Training!Ahead
  <2>1. w \in Int /\ newest \in Int /\ w <= newest
    BY <1>1, <1>2 DEF Windows
  <2> QED BY <1>1, <2>1, DryRunFacts
<1> HIDE DEF safe
<1>5. \A g \in s3'.folds : Training!Ahead(g.fit, g.judge, 1)
  BY <1>3, <1>4 DEF Training!Fold
<1>6. Training!HeldOutStaysOut'
  BY <1>3, <1>5 DEF Training!HeldOutStaysOut, Training!Ahead
<1>7. Training!ReviewedOnUnseen'
  BY <1>3 DEF Training!ReviewedOnUnseen
<1> QED BY <1>6, <1>7

LEMMA CombinationStudy ==
    ASSUME Training!TrainInv, NEW e \in Embargoes,
           Training!CrossValidate("combinations", e, Training!CombinatorialPurged(Training!N, e))
    PROVE  Training!HeldOutStaysOut' /\ Training!ReviewedOnUnseen'
<1> DEFINE folds == Training!CombinatorialPurged(Training!N, e)
<1>1. Windows(s1) /\ e \in Nat /\ Training!N \in Nat
  BY TrainTypes, TrainingConstants
<1>2. /\ s3'.kind = "combinations" /\ s3'.embargo = e
      /\ s3'.folds = {Training!OfWindows(f) : f \in folds}
  BY DEF Training!CrossValidate, Training!Study
<1>3. \A f \in folds : \E combo \in SUBSET (0 .. (Groups - 1)) :
         f = Combined(Training!N, e, combo)
  <2> HIDE DEF Training!N
  <2> QED BY <1>1, CombinedFolds
<1>4. \A f \in folds : Training!Apart(Training!OfWindows(f).fit, Training!OfWindows(f).judge, e)
  BY <1>1, <1>3, CombinationsApart
<1> HIDE DEF folds
<1>5. \A g \in s3'.folds : Training!Apart(g.fit, g.judge, e)
  BY <1>2, <1>4
<1>6. Training!HeldOutStaysOut'
  BY <1>2, <1>5 DEF Training!HeldOutStaysOut, Training!Apart
<1>7. Training!ReviewedOnUnseen'
  BY <1>2 DEF Training!ReviewedOnUnseen
<1> QED BY <1>6, <1>7
-----------------------------------------------------------------------------
(* What a review judges came after the windows that the model was fitted on. *)

LEMMA ShareValue ==
    ASSUME NEW n \in Nat
    PROVE  LET h == Training!Round(n, 2)
               q == Training!Round(n, 4)
           IN  /\ Training!JudgedShare(n) = IF 1 > n - h - q THEN 1 ELSE n - h - q
               /\ h \in Nat /\ 2 * (2 * h) <= 2 * n + 2 /\ 2 * n <= 2 * (2 * h) + 2
               /\ q \in Nat /\ 2 * (4 * q) <= 2 * n + 4 /\ 2 * n <= 2 * (4 * q) + 4
<1> DEFINE h == Training!Round(n, 2)
           q == Training!Round(n, 4)
<1>1. h \in Nat /\ 2 * (2 * h) <= 2 * n + 2 /\ 2 * n <= 2 * (2 * h) + 2
  BY 2 \in Nat \ {0}, RoundFacts
<1>2. q \in Nat /\ 2 * (4 * q) <= 2 * n + 4 /\ 2 * n <= 2 * (4 * q) + 4
  BY 4 \in Nat \ {0}, RoundFacts
<1>3. Training!JudgedShare(n) = IF 1 > n - h - q THEN 1 ELSE n - h - q
  BY DEF Training!JudgedShare, Training!Most
<1> QED BY <1>1, <1>2, <1>3

\* Of one more window one more is judged at most.
LEMMA ShareGrows ==
    ASSUME NEW n \in Nat, NEW m \in Nat, m = n + 1
    PROVE  /\ Training!JudgedShare(n) \in Nat \ {0}
           /\ Training!JudgedShare(m) <= Training!JudgedShare(n) + 1
<1> DEFINE h == Training!Round(n, 2)
           q == Training!Round(n, 4)
           i == Training!Round(m, 2)
           r == Training!Round(m, 4)
<1>1. /\ Training!JudgedShare(n) = IF 1 > n - h - q THEN 1 ELSE n - h - q
      /\ h \in Nat /\ 2 * (2 * h) <= 2 * n + 2 /\ 2 * n <= 2 * (2 * h) + 2
      /\ q \in Nat /\ 2 * (4 * q) <= 2 * n + 4 /\ 2 * n <= 2 * (4 * q) + 4
  BY ShareValue
<1>2. /\ Training!JudgedShare(m) = IF 1 > m - i - r THEN 1 ELSE m - i - r
      /\ i \in Nat /\ 2 * (2 * i) <= 2 * m + 2 /\ 2 * m <= 2 * (2 * i) + 2
      /\ r \in Nat /\ 2 * (4 * r) <= 2 * m + 4 /\ 2 * m <= 2 * (4 * r) + 4
  BY ShareValue
<1> HIDE DEF h, q, i, r
<1>3. h <= i /\ q <= r
  BY <1>1, <1>2
<1> QED BY <1>1, <1>2, <1>3

\* What training judges is no less than a review would.
LEMMA ShareIsJudged ==
    ASSUME NEW n \in Nat, n >= 2
    PROVE  /\ Training!JudgedShare(n) <= Training!Most(1, Training!Round(3 * n, 10))
           /\ Training!JudgedShare(n) <= n - 1
<1> DEFINE h == Training!Round(n, 2)
           q == Training!Round(n, 4)
           r == Training!Round(3 * n, 10)
           k == n \div 4
           m == n % 4
<1>1. r \in Nat /\ 2 * (10 * r) <= 2 * (3 * n) + 10 /\ 2 * (3 * n) <= 2 * (10 * r) + 10
  BY 3 * n \in Nat, 10 \in Nat \ {0}, RoundFacts
<1>2. k \in Nat /\ m \in 0 .. 3 /\ n = 4 * k + m
  BY Quotient
<1>3. /\ Training!JudgedShare(n) = IF 1 > n - h - q THEN 1 ELSE n - h - q
      /\ h \in Nat /\ 2 * (2 * h) <= 2 * n + 2 /\ 2 * n <= 2 * (2 * h) + 2
      /\ q \in Nat /\ 2 * (4 * q) <= 2 * n + 4 /\ 2 * n <= 2 * (4 * q) + 4
  BY ShareValue
<1>6. (m = 1 => h >= 2 * k) /\ (m = 3 => h = 2 * k + 2)
  BY <1>2 DEF Training!Round
<1>7. n = 5 => r = 2
  BY DEF Training!Round
<1>8. Training!Most(1, r) = IF 1 > r THEN 1 ELSE r
  BY DEF Training!Most
<1> HIDE DEF h, q, r, k, m
<1>9. n - h - q <= (IF 1 > r THEN 1 ELSE r) /\ n - h - q <= n - 1
  BY <1>1, <1>2, <1>3, <1>6, <1>7
<1> QED BY <1>1, <1>3, <1>8, <1>9 DEF r

\* Every window but one is older or newer than it.
LEMMA NewerFacts ==
    ASSUME NEW P, Windows(P), NEW p \in P
    PROVE  /\ Cardinality({v \in P : p < v}) = Cardinality(P) - 1 - PlaceIn(P, p)
           /\ Cardinality({v \in P : p < v}) \in Nat
<1> DEFINE older == {v \in P : v < p}
           newer == {v \in P : p < v}
<1>1. (\A v \in P : v \in Int) /\ p \in Int
  BY DEF Windows
<1>2. P = (older \cup {p}) \cup newer /\ (older \cup {p}) \cap newer = {} /\ p \notin older
  <2>1. \A v \in P : (v < p \/ v = p \/ p < v) /\ ~(v < p /\ p < v) /\ ~(p < p)
    BY <1>1
  <2> QED BY <2>1
<1>3. IsFiniteSet(older) /\ IsFiniteSet(newer)
  <2>1. older \in SUBSET P /\ newer \in SUBSET P
    OBVIOUS
  <2> QED BY <2>1, FS_Subset DEF Windows
<1>4. IsFiniteSet(older \cup {p}) /\ Cardinality(older \cup {p}) = Cardinality(older) + 1
  BY <1>2, <1>3, FS_AddElement
<1>5. Cardinality(P) = Cardinality(older \cup {p}) + Cardinality(newer)
         - Cardinality((older \cup {p}) \cap newer)
  <2> HIDE DEF older, newer
  <2> QED BY <1>2, <1>3, <1>4, FS_Union
<1>6. Cardinality((older \cup {p}) \cap newer) = 0
  <2> HIDE DEF older, newer
  <2> QED BY <1>2, FS_EmptySet
<1>7. Cardinality(older) \in Nat /\ Cardinality(newer) \in Nat
  BY <1>3, FS_CardinalityType
<1> HIDE DEF newer, older
<1>8. Cardinality(newer) = Cardinality(P) - 1 - Cardinality(older)
  BY <1>4, <1>5, <1>6, <1>7
<1> QED BY <1>7, <1>8 DEF newer, older, PlaceIn

\* After the windows that a model is fitted on come enough, if it may be served.
LEMMA FittedIsOld ==
    ASSUME Training!TrainInv, NEW e \in Embargoes, Training!N >= MinTrain,
           NEW p \in Training!At(Training!SplitIndices(Training!N, e).fit)
    PROVE  /\ p \in s1 /\ Training!Newer(p) >= Late
           /\ Training!Newer(p) >= Training!JudgedShare(Training!N)
<1> DEFINE n == Training!N
           place == PlaceIn(s1, p)
           newer == Training!Newer(p)
           share == Training!JudgedShare(n)
           r == Training!Round(3 * n, 10)
           need == Training!Round(3 * MinTrain, 10)
<1>1. /\ Windows(s1) /\ n \in Nat /\ n >= MinTrain /\ e \in Nat /\ e + 2 <= MinTrain
      /\ MinTrain \in Nat /\ Late \in Nat /\ Late <= need /\ Late < MinTrain
  BY TrainTypes, TrainingConstants
<1>2. n \in Nat \ {0} /\ n >= e + 2 /\ n >= 2
  BY <1>1
<1>3. PICK v \in 1 .. (n - e - 1) :
         /\ Training!SplitIndices(n, e)
               = Training!Fold(0 .. (n - v - e - 1), {}, (n - v) .. (n - 1))
         /\ v = n - e - 1 \/ (v >= Training!Round(3 * n, 10) /\ v >= 1)
  <2> HIDE DEF n
  <2> QED BY <1>1, <1>2, SplitFacts
<1>4. p \in s1 /\ place \in 0 .. (n - v - e - 1)
  <2>1. Training!SplitIndices(n, e).fit = 0 .. (n - v - e - 1)
    BY <1>3 DEF Training!Fold
  <2> QED BY <2>1, <1>1, TrainPlaces
<1>5. newer = n - 1 - place /\ newer \in Nat
  BY <1>1, <1>4, NewerFacts, TrainPlaces, TrainingLibrary DEF Training!Newer
<1>6. r \in Nat /\ 2 * (3 * n) <= 2 * (10 * r) + 10
  BY <1>1, 3 * n \in Nat, 10 \in Nat \ {0}, RoundFacts
<1>7. need \in Nat /\ 2 * (10 * need) <= 2 * (3 * MinTrain) + 10
  BY <1>1, 3 * MinTrain \in Nat, 10 \in Nat \ {0}, RoundFacts
<1>8. share <= Training!Most(1, r) /\ share <= n - 1 /\ share \in Nat
  BY <1>1, <1>2, ShareIsJudged, ShareGrows, n + 1 \in Nat
<1>9. need <= r
  <2>1. CASE n = MinTrain
    BY <2>1, <1>6
  <2>2. CASE n # MinTrain
    <3> HIDE DEF n, r, need
    <3> QED BY <2>2, <1>1, <1>6, <1>7
  <2> QED BY <2>1, <2>2
<1> HIDE DEF n, place, newer, share, r, need
<1>10. share <= (IF 1 > r THEN 1 ELSE r)
  BY <1>8 DEF Training!Most
<1>11. newer >= v + e /\ v \in Int
  BY <1>1, <1>3, <1>4, <1>5
<1>12. v = n - e - 1 \/ (v >= r /\ v >= 1)
  BY <1>3 DEF n, r
<1>13. newer >= Late /\ newer >= share
  BY <1>1, <1>2, <1>5, <1>6, <1>7, <1>8, <1>9, <1>10, <1>11, <1>12
<1> QED BY <1>4, <1>13 DEF newer, share, n

\* A label that comes late is of a window newer than those.
LEMMA LateIsNewer ==
    ASSUME Training!TrainInv, NEW w \in 1 .. LastWindow, Training!Settle(w)
    PROVE  /\ s1' \in SUBSET (1 .. LastWindow) /\ s2' \in SUBSET s1'
           /\ \A p \in s2' : /\ Training!Newer(p)' >= Late
                             /\ Training!Newer(p)' >= Training!JudgedShare(Training!N')
<1> DEFINE n == Training!N
<1>1. /\ Windows(s1) /\ n \in Nat /\ s1 \in SUBSET (1 .. LastWindow) /\ s2 \in SUBSET s1
      /\ n = Cardinality(s1) /\ Late \in Nat /\ LastWindow \in Nat
  BY TrainTypes, TrainPlaces, TrainingConstants
<1>2. s1' = s1 \cup {w} /\ s2' = s2 /\ w \notin s1 /\ w + Late >= Training!Max(s1 \cup {0})
  BY DEF Training!Settle
<1>3. Training!N' = n + 1
  <2>1. Training!N' = Cardinality(s1')
    BY TrainingLibrary DEF Training!N
  <2> QED BY <1>1, <1>2, <2>1, FS_AddElement DEF Windows
<1>4. ASSUME NEW p \in s2
      PROVE  Training!Newer(p)' = Training!Newer(p) + 1 /\ Training!Newer(p) \in Nat
  <2> DEFINE newer == {v \in s1 : p < v}
  <2>1. p \in s1 /\ p \in Int /\ w \in Int /\ \A v \in s1 : v \in Int /\ v >= 0
    BY <1>1
  <2>2. Training!Newer(p) = Cardinality(newer) /\ Training!Newer(p) >= Late
        /\ Training!Newer(p)' = Cardinality({v \in s1' : p < v})
    BY <1>1, TrainingLibrary DEF Training!Newer, Training!TrainInv
  <2>3. Cardinality(newer) = n - 1 - PlaceIn(s1, p) /\ Cardinality(newer) \in Nat
    BY <1>1, <2>1, NewerFacts
  <2> DEFINE newest == Training!Max(s1 \cup {0})
  <2>4. newest \in s1 \cup {0} /\ \A v \in s1 \cup {0} : newest >= v
    <3>1. Windows(s1 \cup {0})
      BY <1>1, <2>1, FS_AddElement DEF Windows
    <3> QED BY <3>1, NewestFacts
  <2>5. w + Late >= newest
    BY <1>2
  <2> HIDE DEF newest
  <2>6. newest \in s1 /\ newest >= p /\ newest \in Int
    BY <2>1, <2>4
  <2>7. newest - p >= Late
    <3>1. newer \subseteq (p + 1) .. newest
      <4> SUFFICES ASSUME NEW v \in newer PROVE v \in (p + 1) .. newest
        OBVIOUS
      <4>1. v \in Int /\ p < v /\ newest >= v
        BY <2>1, <2>4
      <4> QED BY <2>1, <2>6, <4>1
    <3>2. IsFiniteSet((p + 1) .. newest)
          /\ Cardinality((p + 1) .. newest) = newest - p
      <4>1. p + 1 \in Int /\ newest \in Int /\ newest >= p
        BY <2>1, <2>6
      <4>2. /\ IsFiniteSet((p + 1) .. newest)
            /\ Cardinality((p + 1) .. newest)
                  = IF p + 1 > newest THEN 0 ELSE newest - (p + 1) + 1
        BY <4>1, FS_Interval
      <4> QED BY <2>1, <4>1, <4>2
    <3>3. Cardinality(newer) <= newest - p
      BY <3>1, <3>2, FS_Subset
    <3> HIDE DEF newer
    <3> QED BY <1>1, <2>1, <2>2, <2>3, <2>6, <3>3
  <2>8. p < w
    <3>1. w >= p /\ w # p
      <4>1. p \in Int /\ w \in Int /\ newest \in Int /\ Late \in Nat /\ p \in s1 /\ w \notin s1
        BY <1>1, <1>2, <2>1, <2>6
      <4> QED BY <2>7, <2>5, <4>1
    <3> QED BY <2>1, <3>1
  <2>9. {v \in s1' : p < v} = newer \cup {w} /\ w \notin newer
    BY <1>2, <2>8
  <2>10. IsFiniteSet(newer)
    BY <1>1, FS_Subset, newer \in SUBSET s1 DEF Windows
  <2>11. Cardinality(newer \cup {w}) = Cardinality(newer) + 1
    BY <2>9, <2>10, FS_AddElement
  <2> QED BY <2>2, <2>3, <2>9, <2>11
<1>5. Training!JudgedShare(n + 1) <= Training!JudgedShare(n) + 1
      /\ Training!JudgedShare(n) \in Nat /\ Training!JudgedShare(n + 1) \in Nat
  <2> HIDE DEF n
  <2>1. n \in Nat /\ n + 1 \in Nat /\ n + 2 \in Nat /\ n + 2 = (n + 1) + 1
    BY <1>1
  <2> QED BY <2>1, ShareGrows
<1>6. \A p \in s2 : Training!Newer(p) >= Late /\ Training!Newer(p) >= Training!JudgedShare(n)
  BY DEF Training!TrainInv
<1> HIDE DEF n
<1>7. \A p \in s2 : Training!Newer(p)' >= Late /\ Training!Newer(p)' >= Training!JudgedShare(n + 1)
  <2> SUFFICES ASSUME NEW p \in s2
               PROVE  Training!Newer(p)' >= Late
                      /\ Training!Newer(p)' >= Training!JudgedShare(n + 1)
    OBVIOUS
  <2>1. Training!Newer(p)' = Training!Newer(p) + 1 /\ Training!Newer(p) \in Nat
    BY <1>4
  <2> QED BY <1>1, <1>5, <1>6, <2>1
<1>8. s1' \in SUBSET (1 .. LastWindow) /\ s2' \in SUBSET s1'
  BY <1>1, <1>2
<1> QED BY <1>2, <1>3, <1>7, <1>8

\* What is compared in a review, the served model was not fitted on.
LEMMA ReviewStudy ==
    ASSUME Training!TrainInv, NEW e \in Embargoes, Training!ReviewCalibrators(e)
    PROVE  Training!HeldOutStaysOut' /\ Training!ReviewedOnUnseen'
<1> DEFINE n == Training!N
           f == CHOOSE f \in Training!ThreeWay(n, e) : TRUE
           g == [Training!OfWindows(f) EXCEPT !.fit = s2]
<1>1. Windows(s1) /\ n \in Nat /\ e \in Nat /\ s2 \in SUBSET s1
      /\ \A p \in s2 : Training!Newer(p) >= Training!JudgedShare(n)
  BY TrainTypes, TrainingConstants DEF Training!TrainInv
<1>2. /\ Training!ThreeWay(n, e) # {}
      /\ s3' = [kind |-> "review", embargo |-> e, tradable |-> FALSE, folds |-> {g}]
  BY DEF Training!ReviewCalibrators
<1>3. f \in Training!ThreeWay(n, e)
  BY <1>2
<1>4. /\ s3'.kind = "review" /\ s3'.folds = {g} /\ g.fit = s2
      /\ g.judge = Training!At(f.judge)
  BY <1>2 DEF Training!OfWindows, Training!Fold
<1> HIDE DEF f
<1>5. Training!At(f.judge) \cap s2 = {}
  <2> SUFFICES ASSUME NEW p \in s2, p \in Training!At(f.judge) PROVE FALSE
    OBVIOUS
  <2>1. p \in s1 /\ PlaceIn(s1, p) \in f.judge /\ PlaceIn(s1, p) \in Nat
    BY <1>1, TrainPlaces, PlaceFacts
  <2>2. Training!Newer(p) = n - 1 - PlaceIn(s1, p)
    BY <1>1, NewerFacts, TrainPlaces, TrainingLibrary DEF Training!Newer
  <2>3. Training!Newer(p) >= Training!JudgedShare(n)
    BY <1>1
  <2> HIDE DEF n
  <2>4. PICK t \in Nat \ {0}, c \in Nat \ {0} :
           /\ t + c + 2 * e < n
           /\ t >= Training!Round(n, 2)
           /\ c >= Training!Round(n, 4) \/ t + c + 2 * e = n - 1
           /\ f = Training!Fold(0 .. (t - 1), (t + e) .. (t + e + c - 1),
                                (t + c + 2 * e) .. (n - 1))
    BY <1>1, <1>3, ThreeWayFacts
  <2>5. PlaceIn(s1, p) >= t + c + 2 * e
    BY <2>1, <2>4 DEF Training!Fold
  <2> DEFINE h == Training!Round(n, 2)
             q == Training!Round(n, 4)
  <2>6. /\ Training!JudgedShare(n) = IF 1 > n - h - q THEN 1 ELSE n - h - q
        /\ h \in Nat /\ q \in Nat
    BY <1>1, ShareValue
  <2> DEFINE newer == Training!Newer(p)
             place == PlaceIn(s1, p)
  <2>7. /\ newer = n - 1 - place /\ place \in Nat /\ place >= t + c + 2 * e
        /\ newer >= (IF 1 > n - h - q THEN 1 ELSE n - h - q)
        /\ t >= h /\ (c >= q \/ t + c + 2 * e = n - 1)
    BY <2>1, <2>2, <2>3, <2>4, <2>5, <2>6
  <2> HIDE DEF newer, place, h, q
  <2> QED BY <1>1, <2>4, <2>6, <2>7
<1>6. Training!HeldOutStaysOut'
  BY <1>4 DEF Training!HeldOutStaysOut
<1>7. Training!ReviewedOnUnseen'
  BY <1>4, <1>5 DEF Training!ReviewedOnUnseen
<1> QED BY <1>6, <1>7
-----------------------------------------------------------------------------
(* The groups.                                                               *)

\* They follow one another from 0 to n, each longer than the embargoes beside it.
LEMMA BoundFacts ==
    ASSUME NEW n \in Nat, NEW c \in Nat \ {0}, n >= Groups * c
    PROVE  /\ Bound(n, 0) = 0 /\ Bound(n, Groups) = n
           /\ \A g \in 0 .. Groups : Bound(n, g) \in 0 .. n
           /\ \A g \in 0 .. (Groups - 1) : Bound(n, g) + c <= Bound(n, g + 1)
           /\ \A g, h \in 0 .. Groups : g <= h => Bound(n, g) <= Bound(n, h)
<1>1. Groups \in Nat \ {0} /\ Groups * c \in Nat
  BY TrainingConstants
<1>2. \A d \in Nat : Training!Round(Groups * d, Groups) = d
  <2> SUFFICES ASSUME NEW d \in Nat PROVE Training!Round(Groups * d, Groups) = d
    OBVIOUS
  <2> DEFINE r == Training!Round(Groups * d, Groups)
  <2>1. /\ r \in Nat /\ Groups * d \in Nat
        /\ 2 * (Groups * r) <= 2 * (Groups * d) + Groups
        /\ 2 * (Groups * d) <= 2 * (Groups * r) + Groups
    BY <1>1, Groups * d \in Nat, RoundFacts
  <2> HIDE DEF r
  <2>2. CASE r > d
    <3>1. PICK x \in Nat : r = d + (1 + x)
      BY <2>1, <2>2, r - d - 1 \in Nat, r = d + (1 + (r - d - 1))
    <3>2. Groups * r = Groups * d + Groups * (1 + x)
      BY <1>1, <3>1, Distributes
    <3>3. Groups * (1 + x) = Groups * 1 + Groups * x /\ Groups * x \in Nat /\ Groups * 1 = Groups
      BY <1>1, <3>1, Distributes
    <3> QED BY <1>1, <2>1, <3>2, <3>3
  <2>3. CASE r < d
    <3>1. PICK x \in Nat : d = r + (1 + x)
      BY <2>1, <2>3, d - r - 1 \in Nat, d = r + (1 + (d - r - 1))
    <3>2. Groups * d = Groups * r + Groups * (1 + x)
      BY <1>1, <2>1, <3>1, Distributes
    <3>3. Groups * (1 + x) = Groups * 1 + Groups * x /\ Groups * x \in Nat /\ Groups * 1 = Groups
      BY <1>1, <3>1, Distributes
    <3> QED BY <1>1, <2>1, <3>2, <3>3
  <2> QED BY <2>1, <2>2, <2>3 DEF r
<1>3. Bound(n, 0) = 0 /\ Bound(n, Groups) = n
  <2>1. 0 * n = Groups * 0 /\ 0 \in Nat
    BY <1>1
  <2> QED BY <1>2, <2>1 DEF Bound
<1>4. \A g \in 0 .. Groups : Bound(n, g) \in 0 .. n
  BY <1>1, PartRounded DEF Bound
<1>5. ASSUME NEW g \in 0 .. (Groups - 1)
      PROVE  Bound(n, g) + c <= Bound(n, g + 1)
  <2> DEFINE a == Bound(n, g)
             b == Bound(n, g + 1)
  <2>1. g \in Nat /\ g + 1 \in Nat /\ g \in 0 .. Groups /\ g + 1 \in 0 .. Groups
    BY <1>1
  <2>2. a \in Nat /\ b \in Nat
    BY <1>4, <2>1
  <2>3. CASE n = Groups * c
    <3>1. g * n = Groups * (g * c) /\ (g + 1) * n = Groups * ((g + 1) * c)
          /\ g * c \in Nat /\ (g + 1) * c \in Nat
      <4>1. \A x \in Nat : x * (Groups * c) = Groups * (x * c) /\ x * c \in Nat
        BY <1>1
      <4> QED BY <2>1, <2>3, <4>1
    <3>2. a = g * c /\ b = (g + 1) * c
      BY <1>2, <3>1 DEF Bound
    <3>3. c * (g + 1) = c * g + c * 1 /\ c * 1 = c /\ c * g = g * c /\ c * (g + 1) = (g + 1) * c
      BY <2>1, Distributes
    <3> QED BY <3>2, <3>3, <2>2
  <2>4. CASE n > Groups * c
    <3>1. /\ 2 * (Groups * a) <= 2 * (g * n) + Groups
          /\ 2 * ((g + 1) * n) <= 2 * (Groups * b) + Groups
          /\ g * n \in Nat /\ (g + 1) * n \in Nat
      BY <1>1, <2>1, RoundFacts, g * n \in Nat, (g + 1) * n \in Nat DEF Bound
    <3>2. (g + 1) * n = g * n + n
      <4>1. n * (g + 1) = n * g + n * 1 /\ n * 1 = n /\ n * g = g * n /\ n * (g + 1) = (g + 1) * n
        BY <2>1, Distributes
      <4> QED BY <4>1
    <3> HIDE DEF a, b
    <3>3. 2 * (Groups * a) + 2 * n <= 2 * (Groups * b) + 2 * Groups
      BY <1>1, <2>2, <3>1, <3>2
    <3>4. Groups * a \in Nat /\ Groups * b \in Nat
      BY <1>1, <2>2
    <3>5. Groups * a + Groups * c < Groups * b + Groups
      BY <1>1, <2>4, <3>3, <3>4
    <3>6. ASSUME a + c > b PROVE FALSE
      <4>1. PICK x \in Nat : a + c = b + (1 + x)
        BY <2>2, <3>6, a + c - b - 1 \in Nat, a + c = b + (1 + (a + c - b - 1))
      <4>2. Groups * (a + c) = Groups * a + Groups * c
        BY <1>1, <2>2, Distributes
      <4>3. Groups * (b + (1 + x)) = Groups * b + Groups * (1 + x)
        BY <1>1, <2>2, <4>1, Distributes
      <4>4. Groups * (1 + x) = Groups * 1 + Groups * x /\ Groups * x \in Nat /\ Groups * 1 = Groups
        BY <1>1, <4>1, Distributes
      <4> QED BY <1>1, <3>4, <3>5, <4>1, <4>2, <4>3, <4>4
    <3>7. a + c <= b
      BY <2>2, <3>6
    <3> QED BY <3>7 DEF a, b
  <2> QED BY <1>1, <2>3, <2>4
<1>6. ASSUME NEW g \in 0 .. Groups, NEW h \in 0 .. Groups, g < h
      PROVE  Bound(n, g) <= Bound(n, h)
  <2> DEFINE a == Bound(n, g)
             b == Bound(n, h)
  <2>1. /\ g \in Nat /\ h \in Nat /\ a \in Nat /\ b \in Nat
    BY <1>1, <1>4
  <2>2. /\ 2 * (Groups * a) <= 2 * (g * n) + Groups
        /\ 2 * (h * n) <= 2 * (Groups * b) + Groups
        /\ g * n \in Nat /\ h * n \in Nat
    BY <1>1, <2>1, RoundFacts, g * n \in Nat, h * n \in Nat DEF Bound
  <2>3. h * n >= g * n + Groups
    <3>1. PICK x \in Nat : h = g + (1 + x)
      BY <2>1, <1>6, h - g - 1 \in Nat, h = g + (1 + (h - g - 1))
    <3>2. n * (g + (1 + x)) = n * g + n * (1 + x) /\ n * (1 + x) = n * 1 + n * x
          /\ n * x \in Nat /\ n * 1 = n /\ n * g = g * n /\ n * h = h * n
      BY <2>1, <3>1, Distributes
    <3>3. n >= Groups
      <4>1. PICK y \in Nat : c = 1 + y
        BY c - 1 \in Nat, c = 1 + (c - 1)
      <4>2. Groups * (1 + y) = Groups * 1 + Groups * y /\ Groups * y \in Nat /\ Groups * 1 = Groups
        BY <1>1, <4>1, Distributes
      <4> QED BY <1>1, <4>1, <4>2
    <3> QED BY <1>1, <2>1, <2>2, <3>1, <3>2, <3>3
  <2> HIDE DEF a, b
  <2>4. CASE a > b
    <3>1. PICK x \in Nat : a = b + (1 + x)
      BY <2>1, <2>4, a - b - 1 \in Nat, a = b + (1 + (a - b - 1))
    <3>2. Groups * a = Groups * b + Groups * (1 + x)
          /\ Groups * (1 + x) = Groups * 1 + Groups * x /\ Groups * x \in Nat
          /\ Groups * 1 = Groups /\ Groups * b \in Nat
      BY <1>1, <2>1, <3>1, Distributes
    <3> QED BY <1>1, <2>1, <2>2, <2>3, <3>2
  <2> QED BY <2>1, <2>4 DEF a, b
<1>7. \A g, h \in 0 .. Groups : g <= h => Bound(n, g) <= Bound(n, h)
  <2> SUFFICES ASSUME NEW g \in 0 .. Groups, NEW h \in 0 .. Groups, g <= h
               PROVE  Bound(n, g) <= Bound(n, h)
    OBVIOUS
  <2>1. CASE g = h
    BY <2>1, <1>4
  <2>2. CASE g < h
    BY <2>2, <1>6
  <2> QED BY <1>1, <2>1, <2>2
<1> QED BY <1>3, <1>4, <1>5, <1>7

\* Every place is in one group, and that is tested or not.
LEMMA GroupOf ==
    ASSUME NEW n \in Nat, NEW e \in Nat, n >= Groups * (2 * e + 1), NEW i \in 0 .. (n - 1)
    PROVE  \E g \in 0 .. (Groups - 1) :
              /\ i \in Bound(n, g) .. (Bound(n, g + 1) - 1)
              /\ \A combo \in SUBSET (0 .. (Groups - 1)) :
                    i \in Tested(n, combo) <=> g \in combo
<1>1. /\ Bound(n, 0) = 0 /\ Bound(n, Groups) = n
      /\ \A g \in 0 .. Groups : Bound(n, g) \in 0 .. n
      /\ \A g, h \in 0 .. Groups : g <= h => Bound(n, g) <= Bound(n, h)
  <2>1. 2 * e + 1 \in Nat \ {0}
    OBVIOUS
  <2> QED BY <2>1, BoundFacts
<1>2. Groups \in Nat \ {0}
  BY TrainingConstants
<1> DEFINE After == {h \in 0 .. Groups : Bound(n, h) > i}
<1>3. PICK h \in After : \A k \in After : h <= k
  <2>1. Groups \in After /\ After \in SUBSET Nat
    BY <1>1, <1>2
  <2> QED BY <2>1, LeastNatural
<1>4. h # 0 /\ h \in 0 .. Groups /\ Bound(n, h) > i
  BY <1>1, <1>3
<1> DEFINE g == h - 1
<1>5. g \in 0 .. (Groups - 1) /\ g + 1 = h /\ g \in 0 .. Groups
  BY <1>2, <1>4
<1>6. i \in Bound(n, g) .. (Bound(n, g + 1) - 1)
  <2>1. g \notin After
    BY <1>3, <1>5
  <2>2. ~(Bound(n, g) > i)
    BY <1>5, <2>1
  <2>3. Bound(n, g) \in Nat /\ Bound(n, g + 1) \in Nat /\ Bound(n, g + 1) > i
    BY <1>1, <1>4, <1>5
  <2> HIDE DEF g
  <2> QED BY <2>2, <2>3
<1> HIDE DEF g, After
<1>7. ASSUME NEW f \in 0 .. (Groups - 1), i \in Bound(n, f) .. (Bound(n, f + 1) - 1)
      PROVE  f = g
  <2>1. f \in 0 .. Groups /\ f + 1 \in 0 .. Groups /\ g + 1 \in 0 .. Groups
    BY <1>2, <1>5
  <2>2. /\ Bound(n, f) \in Nat /\ Bound(n, f + 1) \in Nat
        /\ Bound(n, g) \in Nat /\ Bound(n, g + 1) \in Nat
    BY <1>1, <1>5, <2>1
  <2>3. CASE f < g
    <3>1. Bound(n, f + 1) <= Bound(n, g)
      BY <1>1, <1>5, <2>1, <2>3
    <3> QED BY <1>6, <1>7, <2>2, <3>1
  <2>4. CASE g < f
    <3>1. Bound(n, g + 1) <= Bound(n, f)
      BY <1>1, <1>5, <2>1, <2>4
    <3> QED BY <1>6, <1>7, <2>2, <3>1
  <2> QED BY <1>5, <2>1, <2>3, <2>4
<1>8. \A combo \in SUBSET (0 .. (Groups - 1)) : i \in Tested(n, combo) <=> g \in combo
  BY <1>6, <1>7 DEF Tested
<1> QED BY <1>5, <1>6, <1>8

\* The middle of a group that is not tested is out of the embargoes' reach.
LEMMA SomethingIsFitted ==
    ASSUME NEW n \in Nat, NEW e \in Nat, n >= Groups * (2 * e + 1), NEW combo \in Combos
    PROVE  Combined(n, e, combo).fit # {}
<1>1. /\ \A g \in 0 .. Groups : Bound(n, g) \in 0 .. n
      /\ \A g \in 0 .. (Groups - 1) : Bound(n, g) + (2 * e + 1) <= Bound(n, g + 1)
      /\ \A g, h \in 0 .. Groups : g <= h => Bound(n, g) <= Bound(n, h)
  <2>1. 2 * e + 1 \in Nat \ {0}
    OBVIOUS
  <2> QED BY <2>1, BoundFacts
<1>2. Groups \in Nat \ {0} /\ TestGroups \in 1 .. (Groups - 1)
  BY TrainingConstants
<1>3. PICK h \in 0 .. (Groups - 1) : h \notin combo
  <2>1. combo \in SUBSET (0 .. (Groups - 1)) /\ Cardinality(combo) = TestGroups
    BY CombinedFolds
  <2>2. Cardinality(0 .. (Groups - 1)) = Groups
    <3>1. /\ 0 \in Int /\ Groups - 1 \in Int
      BY <1>2
    <3>2. Cardinality(0 .. (Groups - 1)) = IF 0 > Groups - 1 THEN 0 ELSE Groups - 1 - 0 + 1
      BY <3>1, FS_Interval
    <3> QED BY <1>2, <3>2
  <2>3. combo # 0 .. (Groups - 1)
    BY <1>2, <2>1, <2>2
  <2> QED BY <2>1, <2>3
<1> DEFINE i == Bound(n, h) + e
<1>4. /\ h \in 0 .. Groups /\ h + 1 \in 0 .. Groups
      /\ Bound(n, h) \in 0 .. n /\ Bound(n, h + 1) \in 0 .. n
      /\ Bound(n, h) + (2 * e + 1) <= Bound(n, h + 1)
  BY <1>1, <1>2
<1>5. i \in 0 .. (n - 1)
  BY <1>4
<1>6. ASSUME NEW g \in combo, NEW t \in Bound(n, g) .. (Bound(n, g + 1) - 1)
      PROVE  i \notin (t - e) .. (t + e)
  <2>1. g \in 0 .. (Groups - 1) /\ g \in 0 .. Groups /\ g + 1 \in 0 .. Groups /\ g # h
    BY <1>2, <1>3, CombinedFolds
  <2>2. Bound(n, g) \in Nat /\ Bound(n, g + 1) \in Nat
    BY <1>1, <2>1
  <2>3. CASE g < h
    <3>1. Bound(n, g + 1) <= Bound(n, h)
      BY <1>1, <1>4, <2>1, <2>3
    <3> QED BY <1>4, <2>2, <3>1
  <2>4. CASE h < g
    <3>1. Bound(n, h + 1) <= Bound(n, g)
      BY <1>1, <1>4, <2>1, <2>4
    <3> QED BY <1>4, <2>2, <3>1
  <2> QED BY <2>1, <2>3, <2>4
<1> HIDE DEF i
<1>7. i \notin Training!Embargoed(Tested(n, combo), e)
  BY <1>6 DEF Training!Embargoed, Tested
<1> QED BY <1>5, <1>7 DEF Combined, Training!Fold

\* A window is judged in the combinations with its group.
LEMMA JudgedByGroup ==
    ASSUME Windows(s1), NEW e \in Nat, Training!N >= Groups * (2 * e + 1), NEW w \in s1
    PROVE  \E g \in 0 .. (Groups - 1) :
              /\ PlaceIn(s1, w) \in Bound(Training!N, g) .. (Bound(Training!N, g + 1) - 1)
              /\ \A combo \in SUBSET (0 .. (Groups - 1)) :
                    w \in Training!OfWindows(Combined(Training!N, e, combo)).judge
                       <=> g \in combo
<1> DEFINE n == Training!N
<1>1. n \in Nat /\ PlaceIn(s1, w) \in 0 .. (n - 1) /\ n >= Groups * (2 * e + 1)
  BY TrainPlaces
<1>2. \A combo : w \in Training!OfWindows(Combined(n, e, combo)).judge
                    <=> PlaceIn(s1, w) \in Tested(n, combo)
  <2>1. \A combo : Training!OfWindows(Combined(n, e, combo)).judge
                      = Training!At(Tested(n, combo))
    BY DEF Training!OfWindows, Training!Fold, Combined
  <2> QED BY <2>1, TrainPlaces
<1> HIDE DEF n
<1>3. PICK g \in 0 .. (Groups - 1) :
         /\ PlaceIn(s1, w) \in Bound(n, g) .. (Bound(n, g + 1) - 1)
         /\ \A combo \in SUBSET (0 .. (Groups - 1)) :
               PlaceIn(s1, w) \in Tested(n, combo) <=> g \in combo
  BY <1>1, GroupOf
<1> QED BY <1>2, <1>3 DEF n

\* Different combinations judge different windows.
LEMMA CombosDiffer ==
    ASSUME Windows(s1), NEW e \in Nat, Training!N >= Groups * (2 * e + 1),
           NEW c \in SUBSET (0 .. (Groups - 1)), NEW d \in SUBSET (0 .. (Groups - 1)),
           Training!OfWindows(Combined(Training!N, e, c))
              = Training!OfWindows(Combined(Training!N, e, d))
    PROVE  c = d
<1> DEFINE n == Training!N
<1>1. /\ n \in Nat /\ n = Cardinality(s1) /\ n >= Groups * (2 * e + 1)
      /\ Groups \in Nat \ {0}
  BY TrainPlaces, TrainingConstants
<1>2. /\ \A g \in 0 .. Groups : Bound(n, g) \in 0 .. n
      /\ \A g \in 0 .. (Groups - 1) : Bound(n, g) + (2 * e + 1) <= Bound(n, g + 1)
      /\ \A g, h \in 0 .. Groups : g <= h => Bound(n, g) <= Bound(n, h)
  <2>1. 2 * e + 1 \in Nat \ {0}
    OBVIOUS
  <2> HIDE DEF n
  <2> QED BY <1>1, <2>1, BoundFacts
<1>3. ASSUME NEW g \in 0 .. (Groups - 1)
      PROVE  g \in c <=> g \in d
  <2>1. /\ g \in 0 .. Groups /\ g + 1 \in 0 .. Groups
        /\ Bound(n, g) \in 0 .. n /\ Bound(n, g + 1) \in 0 .. n
        /\ Bound(n, g) + (2 * e + 1) <= Bound(n, g + 1)
    BY <1>1, <1>2
  <2>2. Bound(n, g) \in Nat /\ Bound(n, g) < n
    BY <1>1, <2>1
  <2>3. PICK w \in s1 : PlaceIn(s1, w) = Bound(n, g)
    BY <1>1, <2>2, PlacesTaken
  <2>4. PICK h \in 0 .. (Groups - 1) :
           /\ PlaceIn(s1, w) \in Bound(n, h) .. (Bound(n, h + 1) - 1)
           /\ \A combo \in SUBSET (0 .. (Groups - 1)) :
                 w \in Training!OfWindows(Combined(n, e, combo)).judge <=> h \in combo
    BY JudgedByGroup
  <2>5. h = g
    <3>1. h \in 0 .. Groups /\ h + 1 \in 0 .. Groups
          /\ Bound(n, h) \in 0 .. n /\ Bound(n, h + 1) \in 0 .. n
      BY <1>1, <1>2
    <3>2. Bound(n, h) <= Bound(n, g) /\ Bound(n, g) < Bound(n, h + 1)
      BY <2>3, <2>4, <3>1, <2>2
    <3>3. ~(h < g)
      <4> SUFFICES ASSUME h < g PROVE FALSE
        OBVIOUS
      <4>1. h + 1 <= g
        BY <1>1
      <4>2. Bound(n, h + 1) <= Bound(n, g)
        BY <1>2, <2>1, <3>1, <4>1
      <4> QED BY <2>2, <3>1, <3>2, <4>2
    <3>4. ~(g < h)
      <4> SUFFICES ASSUME g < h PROVE FALSE
        OBVIOUS
      <4>1. g + 1 <= h
        BY <1>1
      <4>2. Bound(n, g + 1) <= Bound(n, h)
        BY <1>2, <2>1, <3>1, <4>1
      <4> QED BY <2>1, <2>2, <3>1, <3>2, <4>2
    <3> QED BY <1>1, <3>3, <3>4
  <2> QED BY <2>4, <2>5
<1> QED BY <1>3

\* So every window is judged as often as any other.
LEMMA WindowsJudgedEqually ==
    ASSUME Windows(s1), NEW e \in Nat, Training!N >= Groups * (2 * e + 1), NEW w \in s1,
           NEW F, F = {Training!OfWindows(Combined(Training!N, e, c)) : c \in Combos}
    PROVE  Cardinality({f \in F : w \in f.judge}) * Groups = Cardinality(F) * TestGroups
<1> DEFINE n == Training!N
           fold(c) == Training!OfWindows(Combined(n, e, c))
           S == 0 .. (Groups - 1)
<1>1. TestGroups \in Nat /\ Groups \in Nat \ {0}
  BY TrainingConstants
<1>2. IsFiniteSet(S) /\ Cardinality(S) = Groups
  <2>1. 0 \in Int /\ Groups - 1 \in Int
    BY <1>1
  <2>2. /\ IsFiniteSet(S)
        /\ Cardinality(S) = IF 0 > Groups - 1 THEN 0 ELSE Groups - 1 - 0 + 1
    BY <2>1, FS_Interval
  <2> QED BY <1>1, <2>2
<1>3. Combos = {c \in SUBSET S : Cardinality(c) = TestGroups} /\ Combos \subseteq SUBSET S
  BY CombinedFolds
<1>4. PICK g \in S : \A c \in SUBSET S : w \in fold(c).judge <=> g \in c
  BY JudgedByGroup
<1>5. \A c, d \in Combos : fold(c) = fold(d) => c = d
  BY <1>3, CombosDiffer
<1> HIDE DEF S, n, fold
<1>6. /\ IsFiniteSet(Combos)
      /\ Cardinality(Having(Combos, g)) * Cardinality(S) = Cardinality(Combos) * TestGroups
  BY <1>1, <1>2, <1>3, EachAsOften
<1>7. F = {fold(c) : c \in Combos}
  BY DEF fold, n
<1>8. Cardinality(F) = Cardinality(Combos)
  <2>1. [c \in Combos |-> fold(c)] \in Bijection(Combos, F)
    BY <1>5, <1>7 DEF Bijection, Injection, Surjection, IsInjective
  <2> QED BY <1>6, <2>1, FS_Bijection DEF ExistsBijection
<1>9. Cardinality({f \in F : w \in f.judge}) = Cardinality(Having(Combos, g))
  <2>1. Having(Combos, g) \in SUBSET Combos
    BY DEF Having
  <2>2. IsFiniteSet(Having(Combos, g))
    BY <1>6, <2>1, FS_Subset
  <2>3. \A c \in Combos : w \in fold(c).judge <=> c \in Having(Combos, g)
    BY <1>3, <1>4 DEF Having
  <2>4. {f \in F : w \in f.judge} = {fold(c) : c \in Having(Combos, g)}
    BY <1>7, <2>1, <2>3
  <2>5. [c \in Having(Combos, g) |-> fold(c)] \in Bijection(Having(Combos, g), {f \in F : w \in f.judge})
    BY <1>5, <2>1, <2>4 DEF Bijection, Injection, Surjection, IsInjective
  <2> QED BY <2>2, <2>5, FS_Bijection DEF ExistsBijection
<1> QED BY <1>2, <1>6, <1>8, <1>9

LEMMA CombinationsFair ==
    ASSUME Training!TrainInv, NEW e \in Embargoes,
           Training!CrossValidate("combinations", e, Training!CombinatorialPurged(Training!N, e))
    PROVE  Training!JudgedEqually'
<1> DEFINE n == Training!N
<1>1. Windows(s1) /\ e \in Nat /\ n \in Nat /\ Groups \in Nat \ {0}
  BY TrainTypes, TrainingConstants
<1>2. /\ s3'.embargo = e /\ s1' = s1 /\ Training!CombinatorialPurged(n, e) # {}
      /\ s3'.folds = {Training!OfWindows(f) : f \in Training!CombinatorialPurged(n, e)}
  BY DEF Training!CrossValidate, Training!Study
<1>3. SUFFICES ASSUME n >= Groups * (2 * e + 1), NEW w \in s1
               PROVE  Training!JudgedIn(w)' * Groups = Training!Cardinality(s3'.folds) * TestGroups
  <2>1. Training!N' = n /\ s1' = s1
    BY <1>2 DEF Training!N
  <2> QED BY <1>2, <2>1 DEF Training!JudgedEqually
<1>4. Training!CombinatorialPurged(n, e) = {Combined(n, e, c) : c \in Combos}
  <2>1. ~(n < Groups)
    <3> SUFFICES ASSUME n < Groups PROVE FALSE
      OBVIOUS
    <3> HIDE DEF n
    <3>1. Training!CombinatorialPurged(n, e) = {}
      BY <1>1, CombinedFolds
    <3> QED BY <1>2, <3>1
  <2>2. \A c \in Combos : Combined(n, e, c).fit # {}
    <3> HIDE DEF n
    <3> QED BY <1>1, <1>3, SomethingIsFitted
  <2> HIDE DEF n
  <2> QED BY <1>1, <2>1, <2>2, CombinedFolds
<1>5. s3'.folds = {Training!OfWindows(Combined(n, e, c)) : c \in Combos}
  <2> HIDE DEF n
  <2> QED BY <1>2, <1>4
<1>6. Cardinality({f \in s3'.folds : w \in f.judge}) * Groups
         = Cardinality(s3'.folds) * TestGroups
  BY <1>1, <1>3, <1>5, WindowsJudgedEqually
<1>7. Training!JudgedIn(w)' = Cardinality({f \in s3'.folds : w \in f.judge})
  BY TrainingLibrary DEF Training!JudgedIn
<1> QED BY <1>6, <1>7, TrainingLibrary
-----------------------------------------------------------------------------
(* The windows stay divided fairly.                                          *)

\* A study that says nothing of combinations has nothing to be equal in.
LEMMA OtherStudies ==
    ASSUME s3'.kind # "combinations"
    PROVE  Training!JudgedEqually'
BY DEF Training!JudgedEqually

LEMMA TrainStart == ASSUME Training!TrainInit PROVE Training!TrainInv
<1>1. s1 = {} /\ s2 = {} /\ s3 = Training!NoStudy
  BY DEF Training!TrainInit
<1>2. s3.kind = "none" /\ s3.folds = {}
  BY <1>1 DEF Training!NoStudy
<1>3. Training!DividedFairly
  BY <1>2 DEF Training!DividedFairly, Training!HeldOutStaysOut, Training!ReviewedOnUnseen,
              Training!JudgedEqually
<1> QED BY <1>1, <1>3 DEF Training!TrainInv

\* A study that promotes nothing.
LEMMA StudyKeeps ==
    ASSUME Training!TrainInv, s1' = s1, s2' = s2, Training!HeldOutStaysOut',
           Training!ReviewedOnUnseen', Training!JudgedEqually'
    PROVE  Training!TrainInv'
BY DEF Training!TrainInv, Training!DividedFairly, Training!Newer, Training!N

LEMMA TrainStep ==
    ASSUME Training!TrainInv, Training!TrainNext
    PROVE  Training!TrainInv'
<1>1. Windows(s1) /\ \A e \in Embargoes : e \in Nat
  BY TrainTypes, TrainingConstants
<1>2. ASSUME NEW w \in 1 .. LastWindow, Training!Settle(w)
      PROVE  Training!TrainInv'
  <2>1. s3'.kind = "none" /\ s3'.folds = {}
    BY <1>2 DEF Training!Settle, Training!NoStudy
  <2>2. Training!DividedFairly'
    BY <2>1 DEF Training!DividedFairly, Training!HeldOutStaysOut, Training!ReviewedOnUnseen,
                Training!JudgedEqually
  <2> QED BY <1>2, <2>2, LateIsNewer DEF Training!TrainInv
<1>3. ASSUME NEW e \in Embargoes, NEW diagnostic \in BOOLEAN, Training!Train(e, diagnostic)
      PROVE  Training!TrainInv'
  <2> DEFINE n == Training!N
             fold == Training!SplitIndices(n, e)
             tradable == n >= MinTrain /\ ~diagnostic
  <2>1. /\ s1' = s1 /\ s2' \in {s2} \cup (IF tradable THEN {Training!At(fold.fit)} ELSE {})
        /\ s3'.kind \in {"train", "in_sample"}
    BY <1>3 DEF Training!Train, Training!Study
  <2>2. Training!HeldOutStaysOut' /\ Training!ReviewedOnUnseen' /\ Training!JudgedEqually'
    BY <1>3, <2>1, TrainStudy, OtherStudies
  <2>3. CASE s2' = s2
    BY <2>1, <2>2, <2>3, StudyKeeps
  <2>4. CASE s2' # s2
    <3>1. tradable /\ s2' = Training!At(fold.fit)
      BY <2>1, <2>4
    <3>2. \A p \in s2' : /\ p \in s1 /\ Training!Newer(p) >= Late
                         /\ Training!Newer(p) >= Training!JudgedShare(n)
      BY <3>1, FittedIsOld
    <3> HIDE DEF fold
    <3>3. \A p \in s2' : /\ p \in s1' /\ Training!Newer(p)' >= Late
                         /\ Training!Newer(p)' >= Training!JudgedShare(Training!N')
      BY <2>1, <3>2 DEF Training!Newer, Training!N
    <3>4. s1' \in SUBSET (1 .. LastWindow)
      BY <2>1 DEF Training!TrainInv
    <3> QED BY <2>2, <3>3, <3>4 DEF Training!TrainInv, Training!DividedFairly
  <2> QED BY <2>3, <2>4
<1>4. ASSUME NEW e \in Embargoes, NEW diagnostic \in BOOLEAN, Training!Calibrate(e, diagnostic)
      PROVE  Training!TrainInv'
  <2>1. /\ s1' = s1 /\ s2' = s2 /\ s3'.kind = "calibrate"
        /\ \E tradable : Training!Study("calibrate", e, tradable, Training!ThreeWay(Training!N, e))
    BY <1>4 DEF Training!Calibrate, Training!Study
  <2>2. \A f \in Training!ThreeWay(Training!N, e) : Divided(f, e)
    BY <1>1, ThreeWayDivides
  <2>3. Training!HeldOutStaysOut' /\ Training!ReviewedOnUnseen'
    BY <1>1, <2>1, <2>2, DividedStudy
  <2> QED BY <2>1, <2>3, OtherStudies, StudyKeeps
<1>5. ASSUME NEW e \in Embargoes, Training!ReviewCalibrators(e)
      PROVE  Training!TrainInv'
  <2>1. s1' = s1 /\ s2' = s2 /\ s3'.kind = "review"
    BY <1>5 DEF Training!ReviewCalibrators
  <2> QED BY <1>5, <2>1, ReviewStudy, OtherStudies, StudyKeeps
<1>6. ASSUME NEW e \in Embargoes, NEW folds, \A f \in folds : Divided(f, e),
             Training!CrossValidate("walk", e, folds)
      PROVE  Training!TrainInv'
  <2>1. /\ s1' = s1 /\ s2' = s2 /\ s3'.kind = "walk"
        /\ Training!Study("walk", e, FALSE, folds)
    BY <1>6 DEF Training!CrossValidate, Training!Study
  <2>2. Training!HeldOutStaysOut' /\ Training!ReviewedOnUnseen'
    BY <1>1, <1>6, <2>1, DividedStudy
  <2> QED BY <2>1, <2>2, OtherStudies, StudyKeeps
<1>7. ASSUME NEW e \in Embargoes,
             Training!CrossValidate("combinations", e, Training!CombinatorialPurged(Training!N, e))
      PROVE  Training!TrainInv'
  <2>1. s1' = s1 /\ s2' = s2
    BY <1>7 DEF Training!CrossValidate
  <2> QED BY <1>7, <2>1, CombinationStudy, CombinationsFair, StudyKeeps
<1>8. ASSUME NEW e \in Embargoes, Training!DryRun(e)
      PROVE  Training!TrainInv'
  <2>1. s1' = s1 /\ s2' = s2 /\ s3'.kind = "dry_run"
    BY <1>8 DEF Training!DryRun
  <2> QED BY <1>8, <2>1, DryRunStudy, OtherStudies, StudyKeeps
<1>9. \A e \in Embargoes : /\ \A f \in Training!WalkForward(Training!N, e) : Divided(f, e)
                           /\ \A f \in Training!PurgedWalkForward(Training!N, e) : Divided(f, e)
  BY <1>1, WalkForwardDivides, PurgedWalkDivides
<1> QED BY <1>2, <1>3, <1>4, <1>5, <1>6, <1>7, <1>8, <1>9 DEF Training!TrainNext

LEMMA TrainStutter ==
    ASSUME Training!TrainInv, UNCHANGED Training!trainVars
    PROVE  Training!TrainInv'
BY DEF Training!trainVars, Training!TrainInv, Training!DividedFairly, Training!HeldOutStaysOut,
       Training!ReviewedOnUnseen, Training!JudgedEqually, Training!JudgedIn, Training!Newer,
       Training!N, Training!Ahead, Training!Apart
-----------------------------------------------------------------------------
(* The study of late repricing on joined rows (RepriceLag).                 *)

LEMMA LagDistance ==
    ASSUME NEW a \in Int, NEW b \in Int
    PROVE  Lag!Distance(a, b) \in Nat /\ Lag!Distance(a, b) = (IF a < b THEN b - a ELSE a - b)
BY DEF Lag!Distance

\* What answers a jump (TickerSeries.nearest).
LEMMA LagNearest ==
    ASSUME NEW rows \in Seq(Lag!JoinedRow), NEW at \in Nat, NEW h \in Studied,
           Lag!LagAssumption, Lag!Nearest(rows, at, h) # 0
    PROVE  LET j == Lag!Nearest(rows, at, h)
               d(k) == Lag!Distance(rows[k].at, at + h)
           IN  /\ j \in DOMAIN rows /\ rows[j].at > at /\ d(j) <= Tolerances[h]
               /\ \A k \in DOMAIN rows : rows[k].at > at /\ d(k) <= Tolerances[h]
                                            => d(j) < d(k) \/ (d(j) = d(k) /\ j <= k)
<1> DEFINE n == Len(rows)
           near == {i \in DOMAIN rows :
                      /\ rows[i].at > at
                      /\ Lag!Distance(rows[i].at, at + h) <= Tolerances[h]}
           d == [i \in 1 .. n |-> Lag!Distance(rows[i].at, at + h)]
           closer(i, j) == LET a == Lag!Distance(rows[i].at, at + h)
                               b == Lag!Distance(rows[j].at, at + h)
                           IN  a < b \/ (a = b /\ i <= j)
           best == CHOOSE i \in near : \A j \in near : closer(i, j)
<1>1. n \in Nat /\ DOMAIN rows = 1 .. n /\ \A i \in 1 .. n : rows[i].at \in Nat
  <2>1. \A r \in Lag!JoinedRow : r.at \in Nat
    BY DEF Lag!JoinedRow
  <2>2. \A i \in 1 .. Len(rows) : rows[i] \in Lag!JoinedRow
    OBVIOUS
  <2> QED BY <2>1, <2>2
<1>2. h \in Nat /\ at + h \in Nat
    BY DEF Lag!LagAssumption
<1>3. \A i \in 1 .. n : d[i] \in Nat
  <2> SUFFICES ASSUME NEW i \in 1 .. n PROVE d[i] \in Nat
    OBVIOUS
  <2>1. rows[i].at \in Int /\ at + h \in Int
    BY <1>1, <1>2
  <2> HIDE DEF n
  <2> QED BY <2>1, LagDistance
<1>4. Lag!Nearest(rows, at, h) = IF near = {} THEN 0 ELSE best
    BY <1>1 DEF Lag!Nearest
<1>5. near # {} /\ near \in SUBSET (1 .. n)
    BY <1>1, <1>4
<1>6. \E i \in near : \A j \in near : closer(i, j)
  <2>1. \E i \in near : \A j \in near : d[i] < d[j] \/ (d[i] = d[j] /\ i <= j)
    <3> HIDE DEF near, d, n
    <3> QED BY <1>1, <1>3, <1>5, NearestExists
  <2>2. \A i \in near : d[i] = Lag!Distance(rows[i].at, at + h)
    BY <1>5
  <2> HIDE DEF near, d
  <2> QED BY <2>1, <2>2
<1>7. best \in near /\ \A j \in near : closer(best, j)
  <2> HIDE DEF near, closer
  <2> QED BY <1>6
<1>8. Lag!Nearest(rows, at, h) = best
    BY <1>4, <1>5
<1> HIDE DEF best
<1> QED BY <1>1, <1>7, <1>8

\* Of two times the later one is not nearer to an earlier time.
LEMMA NearerLater ==
    ASSUME NEW t \in Int, NEW u \in Int, t <= u, NEW x \in Int, NEW y \in Int, y < x,
           Lag!Distance(y, u) <= Lag!Distance(x, u)
    PROVE  Lag!Distance(y, t) <= Lag!Distance(x, t)
BY DEF Lag!Distance

LEMMA LagAnswersFollow ==
    ASSUME s1 \in Seq(Lag!JoinedRow), Lag!InOrder, Lag!LagAssumption
    PROVE  Lag!AnswersFollow
<1> DEFINE A(i, h) == Lag!Nearest(s1, s1[i].at, h)
<1>1. DOMAIN s1 = 1 .. Len(s1) /\ Len(s1) \in Nat /\ \A i \in DOMAIN s1 : s1[i].at \in Nat
  <2>1. \A r \in Lag!JoinedRow : r.at \in Nat
    BY DEF Lag!JoinedRow
  <2>2. \A i \in 1 .. Len(s1) : s1[i] \in Lag!JoinedRow
    OBVIOUS
  <2> QED BY <2>1, <2>2
<1>2. ASSUME NEW i \in DOMAIN s1, NEW h \in Studied, A(i, h) # 0
      PROVE  A(i, h) \in DOMAIN s1 /\ s1[A(i, h)].at > s1[i].at
  BY <1>1, <1>2, LagNearest
<1>3. ASSUME NEW i \in DOMAIN s1, NEW g \in Studied, NEW h \in Studied, g <= h,
             A(i, g) # 0, A(i, h) # 0
      PROVE  s1[A(i, g)].at <= s1[A(i, h)].at
  <2> DEFINE x == A(i, g)
             y == A(i, h)
             t == s1[i].at + g
             u == s1[i].at + h
             d(k, w) == Lag!Distance(s1[k].at, w)
  <2> SUFFICES ASSUME s1[y].at < s1[x].at PROVE FALSE
    BY <1>1, <1>2, <1>3
  <2>1. /\ x \in DOMAIN s1 /\ s1[x].at > s1[i].at /\ d(x, t) <= Tolerances[g]
        /\ \A k \in DOMAIN s1 : s1[k].at > s1[i].at /\ d(k, t) <= Tolerances[g]
                                  => d(x, t) < d(k, t) \/ (d(x, t) = d(k, t) /\ x <= k)
    <3>1. s1[i].at \in Nat /\ A(i, g) # 0
      BY <1>1, <1>3
    <3> QED BY <3>1, LagNearest
  <2>2. /\ y \in DOMAIN s1 /\ s1[y].at > s1[i].at /\ d(y, u) <= Tolerances[h]
        /\ \A k \in DOMAIN s1 : s1[k].at > s1[i].at /\ d(k, u) <= Tolerances[h]
                                  => d(y, u) < d(k, u) \/ (d(y, u) = d(k, u) /\ y <= k)
    <3>1. s1[i].at \in Nat /\ A(i, h) # 0
      BY <1>1, <1>3
    <3> QED BY <3>1, LagNearest
  <2>3. y < x
    BY <1>1, <2>1, <2>2 DEF Lag!InOrder
  <2>4. /\ s1[x].at \in Int /\ s1[y].at \in Int /\ t \in Int /\ u \in Int /\ t <= u
        /\ Tolerances[g] \in Nat /\ Tolerances[h] \in Nat
    <3>1. g \in Nat /\ h \in Nat /\ Tolerances[g] \in Nat /\ Tolerances[h] \in Nat
      BY DEF Lag!LagAssumption
    <3> QED BY <1>1, <1>3, <2>1, <2>2, <3>1
  <2>5. {d(x, t), d(y, t), d(x, u), d(y, u)} \subseteq Nat
    BY <2>4, LagDistance
  <2>6. x \in Nat /\ y \in Nat
    BY <1>1, <2>1, <2>2
  <2>7. d(x, t) < d(y, t)
    <3> HIDE DEF x, y, t, u, d
    <3> QED BY <2>1, <2>2, <2>3, <2>4, <2>5, <2>6
  <2>8. d(y, u) <= d(x, u)
    <3> HIDE DEF x, y, t, u, d
    <3> QED BY <2>1, <2>2, <2>4, <2>5
  <2>9. d(y, t) <= d(x, t)
    <3> HIDE DEF x, y, t, u
    <3> QED BY <2>4, <2>8, NearerLater
  <2> HIDE DEF x, y, t, u, d
  <2> QED BY <2>5, <2>7, <2>9
<1> DEFINE answers(i) == Lag!Response(s1, i)
<1>4. ASSUME NEW i \in DOMAIN s1
      PROVE  /\ DOMAIN answers(i) = {h \in Studied : A(i, h) # 0}
             /\ \A h \in DOMAIN answers(i) : answers(i)[h].at = s1[A(i, h)].at
  BY DEF Lag!Response
<1> HIDE DEF answers, A, Studied
<1>5. ASSUME NEW i \in DOMAIN s1, NEW h \in DOMAIN answers(i)
      PROVE  /\ answers(i)[h].at > s1[i].at
             /\ \A g \in DOMAIN answers(i) : g <= h => answers(i)[g].at <= answers(i)[h].at
  <2>1. h \in Studied /\ A(i, h) # 0 /\ answers(i)[h].at = s1[A(i, h)].at
    BY <1>4
  <2>2. \A g \in DOMAIN answers(i) :
           g \in Studied /\ A(i, g) # 0 /\ answers(i)[g].at = s1[A(i, g)].at
    BY <1>4
  <2> QED BY <1>2, <1>3, <2>1, <2>2
<1> USE DEF answers
<1> QED BY <1>5 DEF Lag!AnswersFollow

LagOpp == [side : Sides, price : Int, at : Nat, lastAt : Nat, line : BOOLEAN, seen : Nat]

\* The same opportunity, however often it was seen.
SameOpening(a, b) == a.side = b.side /\ a.price = b.price /\ a.at = b.at /\ a.line = b.line

\* One step of dedupe.
LEMMA LagAdded ==
    ASSUME NEW opps \in Seq(LagOpp), NEW row \in Lag!JoinedRow, NEW side \in Sides
    PROVE  LET new == Lag!Added(opps, row, side)
           IN  /\ new \in Seq(LagOpp) /\ new # <<>>
               /\ new[Len(new)].lastAt = row.at
               /\ \/ /\ Len(new) = Len(opps) + 1
                     /\ \A n \in 1 .. Len(opps) : new[n] = opps[n]
                     /\ new[Len(new)] = Lag!Opened(row, side)
                  \/ /\ Len(new) = Len(opps)
                     /\ \A n \in 1 .. Len(opps) : SameOpening(new[n], opps[n])
<1> DEFINE new == Lag!Added(opps, row, side)
           L == Len(opps)
<1>1. row.at \in Nat /\ row.line \in BOOLEAN /\ row.ask[side] \in Int
  BY DEF Lag!JoinedRow, Lag!Sides, Sides
<1>2. Lag!Opened(row, side) \in LagOpp /\ Lag!Opened(row, side).lastAt = row.at
  BY <1>1 DEF Lag!Opened, LagOpp
<1>3. L \in Nat /\ \A n \in 1 .. L : opps[n] \in LagOpp
  OBVIOUS
<1> DEFINE Added(q) ==
             /\ q \in Seq(LagOpp) /\ q # <<>> /\ q[Len(q)].lastAt = row.at
             /\ \/ /\ Len(q) = L + 1
                   /\ \A n \in 1 .. L : q[n] = opps[n]
                   /\ q[Len(q)] = Lag!Opened(row, side)
                \/ /\ Len(q) = L
                   /\ \A n \in 1 .. L : SameOpening(q[n], opps[n])
<1> SUFFICES Added(new)
  OBVIOUS
<1>4. CASE opps # <<>> /\ Lag!Same(Lag!Last(opps), row)
  <2> DEFINE seen == Lag!Seen(opps[L], row)
  <2>1. new = [opps EXCEPT ![L] = seen]
    BY <1>4 DEF Lag!Added
  <2>2. L \in 1 .. L /\ opps[L] \in LagOpp
    BY <1>3, <1>4
  <2>3. seen \in LagOpp /\ seen.lastAt = row.at /\ SameOpening(seen, opps[L])
    <3> DEFINE o == opps[L]
    <3>1. o \in LagOpp
      BY <2>2
    <3> HIDE DEF o
    <3>2. Lag!Seen(o, row) \in LagOpp
      <4> DEFINE p == [o EXCEPT !.lastAt = row.at]
      <4>1. p \in LagOpp
        BY <1>1, <3>1 DEF LagOpp
      <4>2. o.seen + 1 \in Nat
        BY <3>1 DEF LagOpp
      <4> HIDE DEF p
      <4>3. [p EXCEPT !.seen = o.seen + 1] \in LagOpp
        BY <4>1, <4>2 DEF LagOpp
      <4> QED BY <4>3 DEF p, Lag!Seen
    <3>3. Lag!Seen(o, row).lastAt = row.at /\ SameOpening(Lag!Seen(o, row), o)
      BY <1>1, <3>1 DEF Lag!Seen, LagOpp, SameOpening
    <3> QED BY <3>2, <3>3 DEF o
  <2> HIDE DEF seen
  <2>4. /\ new \in Seq(LagOpp) /\ Len(new) = L /\ new[L] = seen
        /\ \A n \in 1 .. L : n # L => new[n] = opps[n]
    BY <2>1, <2>2, <2>3
  <2>5. \A n \in 1 .. L : SameOpening(new[n], opps[n])
    BY <2>3, <2>4 DEF SameOpening
  <2>6. new # <<>>
    BY <1>3, <2>2, <2>4
  <2> HIDE DEF new
  <2> QED BY <2>3, <2>4, <2>5, <2>6
<1>5. CASE ~(opps # <<>> /\ Lag!Same(Lag!Last(opps), row))
  <2> DEFINE o == Lag!Opened(row, side)
  <2>1. new = Append(opps, o)
    BY <1>5 DEF Lag!Added
  <2> HIDE DEF o
  <2>2. /\ new \in Seq(LagOpp) /\ Len(new) = L + 1 /\ new[L + 1] = o
        /\ \A n \in 1 .. L : new[n] = opps[n]
    BY <1>2, <2>1 DEF o
  <2>3. new # <<>>
    BY <1>3, <2>2
  <2> HIDE DEF new
  <2> QED BY <1>2, <2>2, <2>3 DEF o
<1> QED BY <1>4, <1>5

LEMMA LagMax ==
    ASSUME NEW N \in Nat, NEW s \in SUBSET (1 .. N), NEW m \in s, \A i \in s : i <= m
    PROVE  Lag!Max(s) = m
<1>1. \A i \in s : i \in Nat
  OBVIOUS
<1>2. m \in s /\ \A i \in s : m >= i
  BY <1>1
<1>3. \A x \in s : (\A i \in s : x >= i) => x = m
  BY <1>1, <1>2
<1> QED BY <1>2, <1>3 DEF Lag!Max

\* What dedupe makes of the candidates among some rows, by the last one of them.
LagFolds(F, rows, N, side) ==
    /\ F \in [SUBSET (1 .. N) -> Seq(LagOpp)]
    /\ F[{}] = <<>>
    /\ \A s \in SUBSET (1 .. N) : \A m \in s :
          (\A i \in s : i <= m) => F[s] = Lag!Added(F[s \ {m}], rows[m], side)

LEMMA LagFoldExists ==
    ASSUME NEW N \in Nat, NEW rows, \A i \in 1 .. N : rows[i] \in Lag!JoinedRow,
           NEW side \in Sides
    PROVE  \E F : LagFolds(F, rows, N, side)
<1> DEFINE D == 1 .. N
           V == Seq(LagOpp)
           add(i, opps) == Lag!Added(opps, rows[i], side)
           G == [i \in D |-> [opps \in V |-> add(i, opps)]]
           h == [s \in SUBSET D |-> Lag!Max(s)]
<1>1. IsFiniteSet(D)
  BY FS_Interval
<1>2. \A s \in SUBSET D : \A m \in s : (\A i \in s : i <= m) => h[s] = m
  BY LagMax
<1>3. Picks(h, D)
  <2> HIDE DEF h
  <2> SUFFICES ASSUME NEW s \in SUBSET D, s # {} PROVE h[s] \in s
    BY DEF Picks
  <2>1. PICK m \in s : \A i \in s : i <= m
    BY LatestPlace
  <2> QED BY <1>2, <2>1
<1>4. \A i \in D : \A opps \in V : add(i, opps) \in V
  BY LagAdded
<1>5. G \in [D -> [V -> V]]
  <2> HIDE DEF V, D, add
  <2> QED BY <1>4
<1>6. <<>> \in V
  OBVIOUS
<1>7. PICK F \in [SUBSET D -> V] : FoldsOver(F, G, <<>>, h, D)
  <2> HIDE DEF V, D, G, h
  <2> QED BY <1>1, <1>3, <1>5, <1>6, FoldExists
<1>8. F[{}] = <<>>
  BY <1>7 DEF FoldsOver
<1>9. ASSUME NEW s \in SUBSET D, NEW m \in s, \A i \in s : i <= m
      PROVE  F[s] = Lag!Added(F[s \ {m}], rows[m], side)
  <2>1. h[s] = m /\ s # {} /\ m \in D /\ s \ {m} \in SUBSET D
    BY <1>2, <1>9
  <2>2. F[s] = G[m][F[s \ {m}]]
    <3> HIDE DEF h, G
    <3> QED BY <1>7, <2>1 DEF FoldsOver
  <2>3. F[s \ {m}] \in V
    <3> HIDE DEF V
    <3> QED BY <1>7, <2>1
  <2>4. G[m][F[s \ {m}]] = add(m, F[s \ {m}])
    <3> HIDE DEF V, D, add
    <3> QED BY <2>1, <2>3
  <2> QED BY <2>2, <2>4
<1> QED BY <1>7, <1>8, <1>9 DEF LagFolds

LEMMA LagDedupe ==
    ASSUME NEW N \in Nat, NEW rows, NEW side, NEW F, LagFolds(F, rows, N, side),
           NEW r, NEW S \in SUBSET (1 .. N), \A i \in S : r[i] = rows[i]
    PROVE  Lag!Dedupe(r, S, side) = F[S]
<1> DEFINE Folded(E) == E = [s \in SUBSET S |-> IF s = {} THEN <<>>
                              ELSE Lag!Added(E[s \ {Lag!Max(s)}], r[Lag!Max(s)], side)]
           E == CHOOSE C : Folded(C)
           h == [s \in SUBSET S |-> Lag!Max(s)]
<1>1. \A s \in SUBSET S : s # {} =>
         h[s] = Lag!Max(s) /\ Lag!Max(s) \in s /\ \A i \in s : i <= Lag!Max(s)
  <2> SUFFICES ASSUME NEW s \in SUBSET S, s # {}
               PROVE  Lag!Max(s) \in s /\ \A i \in s : i <= Lag!Max(s)
    OBVIOUS
  <2>1. s \in SUBSET (1 .. N)
    OBVIOUS
  <2>2. PICK m \in s : \A i \in s : i <= m
    BY <2>1, LatestPlace
  <2>3. Lag!Max(s) = m
    BY <2>1, <2>2, LagMax
  <2> QED BY <2>2, <2>3
<1>2. Picks(h, S) /\ IsFiniteSet(S)
  <2>1. IsFiniteSet(1 .. N)
    BY FS_Interval
  <2> HIDE DEF h
  <2> QED BY <1>1, <2>1, FS_Subset DEF Picks
<1>3. \A s \in SUBSET S : s # {} => F[s] = Lag!Added(F[s \ {Lag!Max(s)}], r[Lag!Max(s)], side)
  <2> SUFFICES ASSUME NEW s \in SUBSET S, s # {}
               PROVE  F[s] = Lag!Added(F[s \ {Lag!Max(s)}], r[Lag!Max(s)], side)
    OBVIOUS
  <2>1. Lag!Max(s) \in s /\ (\A i \in s : i <= Lag!Max(s)) /\ s \in SUBSET (1 .. N)
    BY <1>1
  <2>2. r[Lag!Max(s)] = rows[Lag!Max(s)]
    BY <2>1
  <2> QED BY <2>1, <2>2 DEF LagFolds
<1>4. F[{}] = <<>>
  BY DEF LagFolds
<1>5. Folded([s \in SUBSET S |-> F[s]])
  <2> DEFINE C == [s \in SUBSET S |-> F[s]]
  <2>1. \A s \in SUBSET S : C[s] = IF s = {} THEN <<>>
            ELSE Lag!Added(C[s \ {Lag!Max(s)}], r[Lag!Max(s)], side)
    <3> SUFFICES ASSUME NEW s \in SUBSET S
                 PROVE  C[s] = IF s = {} THEN <<>>
                               ELSE Lag!Added(C[s \ {Lag!Max(s)}], r[Lag!Max(s)], side)
      OBVIOUS
    <3>1. s \ {Lag!Max(s)} \in SUBSET S
      OBVIOUS
    <3>2. C[s \ {Lag!Max(s)}] = F[s \ {Lag!Max(s)}] /\ C[s] = F[s]
      BY <3>1
    <3> HIDE DEF C
    <3> QED BY <1>3, <1>4, <3>2
  <2>2. DOMAIN C = SUBSET S /\ C = [s \in SUBSET S |-> C[s]]
    OBVIOUS
  <2> HIDE DEF C
  <2>3. Folded(C)
    BY <2>1, <2>2
  <2> QED BY <2>3 DEF C
<1>6. Folded(E)
  <2> HIDE DEF Folded
  <2> QED BY <1>5
<1>7. Lag!Dedupe(r, S, side) = E[S]
  BY DEF Lag!Dedupe, Lag!MapThenFoldSet
<1> HIDE DEF E
<1>8. \A s \in SUBSET S : E[s] = IF s = {} THEN <<>>
         ELSE Lag!Added(E[s \ {Lag!Max(s)}], r[Lag!Max(s)], side)
  BY <1>6
<1> DEFINE P == {s \in SUBSET S : E[s] = F[s]}
<1>9. {} \in P
  BY <1>4, <1>8
<1>10. ASSUME NEW s \in SUBSET S, s # {}, s \ {h[s]} \in P PROVE s \in P
  <2>1. h[s] = Lag!Max(s) /\ s \ {Lag!Max(s)} \in SUBSET S
    BY <1>1, <1>10
  <2>2. E[s \ {Lag!Max(s)}] = F[s \ {Lag!Max(s)}]
    BY <1>10, <2>1
  <2> HIDE DEF h
  <2> QED BY <1>3, <1>8, <1>10, <2>2
<1>11. \A s \in SUBSET S : s \in P
  <2> HIDE DEF h, P
  <2>1. Grows(P, h, S)
    BY <1>9, <1>10 DEF Grows
  <2> QED BY <1>2, <2>1, SubsetInduction
<1> QED BY <1>7, <1>11

\* The n-th opportunity among all candidates is the one that was opened as the
\* n-th when row i was added.
OpenedAs(F, rows, C, side, opp, n, i) ==
    /\ F[C \cap (1 .. i)] \in Seq(LagOpp) /\ Len(F[C \cap (1 .. i)]) = n
    /\ F[C \cap (1 .. i)][n] = Lag!Opened(rows[i], side)
    /\ SameOpening(opp, Lag!Opened(rows[i], side))

LEMMA LagOpenings ==
    ASSUME NEW N \in Nat, NEW rows, \A i \in 1 .. N : rows[i] \in Lag!JoinedRow,
           NEW side \in Sides, NEW F, LagFolds(F, rows, N, side), NEW C \in SUBSET (1 .. N)
    PROVE  \A n \in DOMAIN F[C] : \E i \in C : OpenedAs(F, rows, C, side, F[C][n], n, i)
<1> DEFINE U(k) == C \cap (1 .. k)
           Traced(k) == \A n \in DOMAIN F[U(k)] :
                           \E i \in U(k) : OpenedAs(F, rows, C, side, F[U(k)][n], n, i)
           P == {k \in Nat : k <= N => Traced(k)}
<1>1. \A k \in Nat : U(k) \in SUBSET (1 .. N) /\ F[U(k)] \in Seq(LagOpp)
  BY DEF LagFolds
<1>2. 0 \in P
  <2>1. U(0) = {}
    OBVIOUS
  <2>2. F[U(0)] = <<>>
    BY <2>1 DEF LagFolds
  <2>3. DOMAIN F[U(0)] = {}
    BY <2>2
  <2> HIDE DEF U
  <2> QED BY <2>3
<1>3. ASSUME NEW k \in Nat, k \in P PROVE k + 1 \in P
  <2> SUFFICES ASSUME k + 1 <= N PROVE Traced(k + 1)
    OBVIOUS
  <2>1. Traced(k)
    <3>1. k <= N
      OBVIOUS
    <3> HIDE DEF Traced
    <3> QED BY <1>3, <3>1
  <2>2. CASE k + 1 \notin C
    <3>1. U(k + 1) = U(k)
      BY <2>2
    <3> HIDE DEF U
    <3> QED BY <2>1, <3>1
  <2>3. CASE k + 1 \in C
    <3> DEFINE old == F[U(k)]
               new == F[U(k + 1)]
               L == Len(old)
    <3>1. /\ U(k + 1) \in SUBSET (1 .. N) /\ k + 1 \in U(k + 1)
          /\ (\A i \in U(k + 1) : i <= k + 1) /\ U(k + 1) \ {k + 1} = U(k)
          /\ U(k) \subseteq U(k + 1) /\ rows[k + 1] \in Lag!JoinedRow
      BY <2>3
    <3>2. new = Lag!Added(old, rows[k + 1], side)
      <4> HIDE DEF U
      <4> QED BY <3>1 DEF LagFolds
    <3>3. /\ new \in Seq(LagOpp) /\ old \in Seq(LagOpp)
      <4>1. k + 1 \in Nat
        OBVIOUS
      <4> HIDE DEF U
      <4> QED BY <1>1, <4>1
    <3>4. \/ /\ Len(new) = L + 1
             /\ \A n \in 1 .. L : new[n] = old[n]
             /\ new[L + 1] = Lag!Opened(rows[k + 1], side)
          \/ /\ Len(new) = L
             /\ \A n \in 1 .. L : SameOpening(new[n], old[n])
      <4> HIDE DEF new, old, U
      <4> QED BY <3>1, <3>2, <3>3, LagAdded
    <3>5. DOMAIN new = 1 .. Len(new) /\ DOMAIN old = 1 .. L /\ L \in Nat
      BY <3>3
    <3>6. ASSUME NEW n \in 1 .. L, SameOpening(new[n], old[n])
          PROVE  \E i \in U(k + 1) : OpenedAs(F, rows, C, side, new[n], n, i)
      <4>1. PICK i \in U(k) : OpenedAs(F, rows, C, side, old[n], n, i)
        <5> HIDE DEF U
        <5> QED BY <2>1, <3>5
      <4>2. OpenedAs(F, rows, C, side, new[n], n, i)
        BY <3>6, <4>1 DEF OpenedAs, SameOpening
      <4>3. i \in U(k + 1)
        BY <3>1
      <4> QED BY <4>2, <4>3
    <3>7. ASSUME Len(new) = L + 1, new[L + 1] = Lag!Opened(rows[k + 1], side)
          PROVE  OpenedAs(F, rows, C, side, new[L + 1], L + 1, k + 1)
      <4>1. SameOpening(new[L + 1], Lag!Opened(rows[k + 1], side))
        BY <3>7 DEF SameOpening
      <4> QED BY <3>3, <3>7, <4>1 DEF OpenedAs
    <3> SUFFICES ASSUME NEW n \in 1 .. Len(new)
                 PROVE  \E i \in U(k + 1) : OpenedAs(F, rows, C, side, new[n], n, i)
      BY <3>5
    <3> HIDE DEF new, old, U
    <3>8. CASE n \in 1 .. L
      <4>1. SameOpening(new[n], old[n])
        BY <3>4, <3>8 DEF SameOpening
      <4> QED BY <3>6, <3>8, <4>1
    <3>9. CASE n \notin 1 .. L
      <4>1. Len(new) = L + 1 /\ new[L + 1] = Lag!Opened(rows[k + 1], side)
        BY <3>4, <3>9
      <4>2. n = L + 1
        BY <3>5, <3>9, <4>1
      <4> QED BY <3>1, <3>7, <4>1, <4>2
    <3> QED BY <3>8, <3>9
  <2> QED BY <2>2, <2>3
<1>4. N \in P
  <2> HIDE DEF P
  <2> QED BY <1>2, <1>3, NumberInduction
<1>5. U(N) = C
  OBVIOUS
<1>6. Traced(N)
  BY <1>4
<1> HIDE DEF U
<1> QED BY <1>5, <1>6

\* The last candidate is the last that was seen of the last opportunity.
LEMMA LagSeenLast ==
    ASSUME NEW N \in Nat, NEW rows, \A i \in 1 .. N : rows[i] \in Lag!JoinedRow,
           NEW side \in Sides, NEW F, LagFolds(F, rows, N, side),
           NEW s \in SUBSET (1 .. N), NEW m \in s, \A i \in s : i <= m
    PROVE  /\ F[s] \in Seq(LagOpp) /\ Len(F[s]) \in DOMAIN F[s]
           /\ F[s][Len(F[s])].lastAt = rows[m].at
<1>1. F[s] = Lag!Added(F[s \ {m}], rows[m], side) /\ F[s \ {m}] \in Seq(LagOpp)
  BY DEF LagFolds
<1>2. F[s] \in Seq(LagOpp) /\ F[s] # <<>> /\ F[s][Len(F[s])].lastAt = rows[m].at
  BY <1>1, LagAdded
<1>3. Len(F[s]) \in DOMAIN F[s]
  BY <1>2
<1> QED BY <1>2, <1>3

\* What is said below of the first k of the recorded rows.
LagCandidate(row, settledAs, side) ==
    /\ Lag!IsShock(row, FarBps) /\ Lag!IsShock(row, ShockBps)
    /\ Lag!JumpSide(row) = side /\ Lag!Qualifies(row, settledAs)
LagCandidates(k, settledAs, side) == {i \in 1 .. k : LagCandidate(s1[i], settledAs, side)}

LEMMA LagRows ==
    ASSUME s1 \in Seq(Lag!JoinedRow)
    PROVE  /\ Len(s1) \in Nat /\ DOMAIN s1 = 1 .. Len(s1)
           /\ \A i \in 1 .. Len(s1) : s1[i] \in Lag!JoinedRow
           /\ \A i \in 1 .. Len(s1) : s1[i].at \in Nat
<1>1. \A r \in Lag!JoinedRow : r.at \in Nat
  BY DEF Lag!JoinedRow
<1>2. /\ Len(s1) \in Nat /\ DOMAIN s1 = 1 .. Len(s1)
      /\ \A i \in 1 .. Len(s1) : s1[i] \in Lag!JoinedRow
  OBVIOUS
<1> QED BY <1>1, <1>2

\* The opportunities among the first rows are those of the one side, then those of
\* the other.
LagParts(k, o, FY, FN) ==
    LET a == FY[LagCandidates(k, o, "YES")]
        b == FN[LagCandidates(k, o, "NO")]
        opps == Lag!Opportunities(SubSeq(s1, 1, k), o)
    IN  /\ a \in Seq(LagOpp) /\ b \in Seq(LagOpp) /\ opps = a \o b
        /\ DOMAIN opps = 1 .. (Len(a) + Len(b))
        /\ \A n \in DOMAIN a : n \in DOMAIN opps /\ opps[n] = a[n]
        /\ \A n \in DOMAIN b : Len(a) + n \in DOMAIN opps /\ opps[Len(a) + n] = b[n]
        /\ \A n \in DOMAIN opps : n \in DOMAIN a \/ n - Len(a) \in DOMAIN b
LEMMA LagOpportunities ==
    ASSUME s1 \in Seq(Lag!JoinedRow), NEW k \in DOMAIN s1, NEW o,
           NEW FY, LagFolds(FY, s1, Len(s1), "YES"), NEW FN, LagFolds(FN, s1, Len(s1), "NO")
    PROVE  LagParts(k, o, FY, FN)
<1> DEFINE N == Len(s1)
           r == SubSeq(s1, 1, k)
           a == FY[LagCandidates(k, o, "YES")]
           b == FN[LagCandidates(k, o, "NO")]
<1>1. N \in Nat /\ k \in 1 .. N /\ k \in Nat
  BY LagRows
<1>2. DOMAIN r = 1 .. k /\ \A i \in 1 .. k : r[i] = s1[i]
  <2>1. r \in Seq(Lag!JoinedRow) /\ Len(r) = k /\ \A i \in 1 .. k : r[i] = s1[1 + i - 1]
    BY <1>1, SubSeqProperties
  <2>2. \A i \in 1 .. k : 1 + i - 1 = i
    BY <1>1
  <2> HIDE DEF r
  <2> QED BY <2>1, <2>2
<1>3. \A side \in Sides : Lag!Candidates(r, o, side) = LagCandidates(k, o, side)
  <2> HIDE DEF r
  <2> QED BY <1>2 DEF Lag!Candidates, LagCandidates, LagCandidate
<1>4. \A side \in Sides : /\ LagCandidates(k, o, side) \in SUBSET (1 .. N)
                          /\ \A i \in LagCandidates(k, o, side) : r[i] = s1[i]
  <2>1. \A i \in 1 .. k : i \in 1 .. N
    BY <1>1
  <2> HIDE DEF r
  <2> QED BY <1>2, <2>1 DEF LagCandidates
<1>5. Lag!Dedupe(r, LagCandidates(k, o, "YES"), "YES") = a
  <2> HIDE DEF r
  <2> QED BY <1>1, <1>4, LagDedupe DEF Sides
<1>6. Lag!Dedupe(r, LagCandidates(k, o, "NO"), "NO") = b
  <2> HIDE DEF r
  <2> QED BY <1>1, <1>4, LagDedupe DEF Sides
<1>7. a \in Seq(LagOpp) /\ b \in Seq(LagOpp)
  BY <1>4 DEF LagFolds, Sides
<1>8. Lag!Opportunities(r, o) = a \o b
  <2>1. Lag!Candidates(r, o, "YES") = LagCandidates(k, o, "YES")
        /\ Lag!Candidates(r, o, "NO") = LagCandidates(k, o, "NO")
    BY <1>3 DEF Sides
  <2> HIDE DEF r, a, b
  <2> QED BY <1>5, <1>6, <2>1 DEF Lag!Opportunities
<1> HIDE DEF a, b, r
<1>9. /\ Len(a) \in Nat /\ Len(b) \in Nat /\ DOMAIN a = 1 .. Len(a) /\ DOMAIN b = 1 .. Len(b)
      /\ a \o b \in Seq(LagOpp) /\ Len(a \o b) = Len(a) + Len(b)
      /\ \A n \in 1 .. (Len(a) + Len(b)) :
            (a \o b)[n] = IF n <= Len(a) THEN a[n] ELSE b[n - Len(a)]
  BY <1>7, ConcatProperties, LenProperties
<1>10. DOMAIN (a \o b) = 1 .. (Len(a) + Len(b))
  BY <1>9
<1>11. \A n \in DOMAIN a : n \in DOMAIN (a \o b) /\ (a \o b)[n] = a[n]
  BY <1>9, <1>10
<1>12. \A n \in DOMAIN b : Len(a) + n \in DOMAIN (a \o b) /\ (a \o b)[Len(a) + n] = b[n]
  <2> SUFFICES ASSUME NEW n \in 1 .. Len(b)
               PROVE  Len(a) + n \in DOMAIN (a \o b) /\ (a \o b)[Len(a) + n] = b[n]
    BY <1>9
  <2>1. /\ Len(a) + n \in 1 .. (Len(a) + Len(b)) /\ ~(Len(a) + n <= Len(a))
        /\ (Len(a) + n) - Len(a) = n
    BY <1>9
  <2> QED BY <1>9, <1>10, <2>1
<1>13. \A n \in DOMAIN (a \o b) : n \in DOMAIN a \/ n - Len(a) \in DOMAIN b
  BY <1>9, <1>10
<1> QED BY <1>7, <1>8, <1>10, <1>11, <1>12, <1>13 DEF a, b, r, LagParts

LEMMA LagOpenedSomewhere ==
    ASSUME s1 \in Seq(Lag!JoinedRow), NEW k \in DOMAIN s1, NEW o,
           NEW FY, LagFolds(FY, s1, Len(s1), "YES"), NEW FN, LagFolds(FN, s1, Len(s1), "NO"),
           NEW n \in DOMAIN Lag!Opportunities(SubSeq(s1, 1, k), o)
    PROVE  \E side \in Sides : \E i \in LagCandidates(k, o, side), q \in Nat :
              OpenedAs(IF side = "YES" THEN FY ELSE FN, s1, LagCandidates(k, o, side), side,
                       Lag!Opportunities(SubSeq(s1, 1, k), o)[n], q, i)
<1> DEFINE a == FY[LagCandidates(k, o, "YES")]
           b == FN[LagCandidates(k, o, "NO")]
           opps == Lag!Opportunities(SubSeq(s1, 1, k), o)
           Somewhere(side, i, q) ==
               OpenedAs(IF side = "YES" THEN FY ELSE FN, s1, LagCandidates(k, o, side), side,
                        opps[n], q, i)
<1> SUFFICES \E side \in Sides : \E i \in LagCandidates(k, o, side), q \in Nat :
                Somewhere(side, i, q)
  OBVIOUS
<1>1. /\ a \in Seq(LagOpp) /\ b \in Seq(LagOpp)
      /\ \A j \in DOMAIN a : opps[j] = a[j]
      /\ \A j \in DOMAIN b : opps[Len(a) + j] = b[j]
      /\ n \in DOMAIN a \/ n - Len(a) \in DOMAIN b
      /\ DOMAIN opps = 1 .. (Len(a) + Len(b))
  <2>1. n \in DOMAIN opps
    OBVIOUS
  <2>2. /\ a \in Seq(LagOpp) /\ b \in Seq(LagOpp)
        /\ DOMAIN opps = 1 .. (Len(a) + Len(b))
        /\ \A j \in DOMAIN a : j \in DOMAIN opps /\ opps[j] = a[j]
        /\ \A j \in DOMAIN b : Len(a) + j \in DOMAIN opps /\ opps[Len(a) + j] = b[j]
        /\ \A j \in DOMAIN opps : j \in DOMAIN a \/ j - Len(a) \in DOMAIN b
    <3>1. LagParts(k, o, FY, FN)
      BY LagOpportunities
    <3> QED BY <3>1 DEF LagParts
  <2> HIDE DEF a, b, opps
  <2> QED BY <2>1, <2>2
<1>2. \A side \in Sides : LagCandidates(k, o, side) \in SUBSET (1 .. Len(s1))
  <2>1. k \in 1 .. Len(s1) /\ Len(s1) \in Nat
    BY LagRows
  <2>2. \A i \in 1 .. k : i \in 1 .. Len(s1)
    BY <2>1
  <2> QED BY <2>2 DEF LagCandidates
<1>3. Len(s1) \in Nat /\ \A i \in 1 .. Len(s1) : s1[i] \in Lag!JoinedRow
  BY LagRows
<1>4. CASE n \in DOMAIN a
  <2>1. LagCandidates(k, o, "YES") \in SUBSET (1 .. Len(s1)) /\ "YES" \in Sides
    BY <1>2 DEF Sides
  <2>2. PICK i \in LagCandidates(k, o, "YES") :
           OpenedAs(FY, s1, LagCandidates(k, o, "YES"), "YES", a[n], n, i)
    BY <1>3, <1>4, <2>1, LagOpenings
  <2>3. n \in Nat /\ opps[n] = a[n]
    BY <1>1, <1>4, LenProperties
  <2>4. Somewhere("YES", i, n)
    BY <2>2, <2>3
  <2> HIDE DEF Somewhere
  <2> QED BY <2>1, <2>3, <2>4
<1>5. CASE n - Len(a) \in DOMAIN b
  <2> DEFINE q == n - Len(a)
  <2>1. LagCandidates(k, o, "NO") \in SUBSET (1 .. Len(s1)) /\ "NO" \in Sides
    BY <1>2 DEF Sides
  <2>2. PICK i \in LagCandidates(k, o, "NO") :
           OpenedAs(FN, s1, LagCandidates(k, o, "NO"), "NO", b[q], q, i)
    BY <1>3, <1>5, <2>1, LagOpenings
  <2>3. q \in Nat /\ opps[n] = b[q]
    <3>1. q \in DOMAIN b /\ DOMAIN b = 1 .. Len(b) /\ Len(b) \in Nat /\ Len(a) \in Nat
      BY <1>1, <1>5, LenProperties
    <3>2. n \in Nat
      <4>1. n \in 1 .. (Len(a) + Len(b))
        BY <1>1
      <4> QED BY <3>1, <4>1
    <3>3. Len(a) + q = n
      BY <3>1, <3>2
    <3> QED BY <1>1, <3>1, <3>3
  <2>4. Somewhere("NO", i, q)
    BY <2>2, <2>3
  <2> HIDE DEF Somewhere, q
  <2> QED BY <2>1, <2>3, <2>4
<1> QED BY <1>1, <1>4, <1>5

LEMMA LagFoundInTime ==
    ASSUME s1 \in Seq(Lag!JoinedRow), Lag!InOrder, NEW k \in DOMAIN s1,
           NEW o \in {"none", s2}, Lag!StudyOf(k, o)
    PROVE  Lag!FoundInTime
<1> DEFINE N == Len(s1)
<1>1. /\ N \in Nat /\ DOMAIN s1 = 1 .. N /\ \A i \in 1 .. N : s1[i] \in Lag!JoinedRow
  BY LagRows
<1>2. PICK FY : LagFolds(FY, s1, N, "YES")
  BY <1>1, LagFoldExists DEF Sides
<1>3. PICK FN : LagFolds(FN, s1, N, "NO")
  BY <1>1, LagFoldExists DEF Sides
<1> DEFINE F(side) == IF side = "YES" THEN FY ELSE FN
           opps == Lag!Opportunities(SubSeq(s1, 1, k), o)
<1>4. \A side \in Sides : LagFolds(F(side), s1, N, side)
  BY <1>2, <1>3 DEF Sides
<1>5. DOMAIN s3.opps = DOMAIN opps /\ \A n \in DOMAIN opps : s3.opps[n].opp = opps[n]
  BY DEF Lag!StudyOf
<1> SUFFICES
      ASSUME NEW n \in DOMAIN opps
      PROVE  \E m \in DOMAIN s1 :
                LET then == Lag!Opportunities(SubSeq(s1, 1, m), "none")
                IN  /\ s1[m].at = opps[n].at
                    /\ opps[n].line =>
                          \E j \in DOMAIN then :
                              /\ then[j].side = opps[n].side /\ then[j].lastAt = opps[n].at
                              /\ (\A i \in DOMAIN s1 : s1[i].line) =>
                                    then[j].at = opps[n].at /\ then[j].price = opps[n].price
  BY <1>5 DEF Lag!FoundInTime
<1> DEFINE opp == opps[n]
<1>6. PICK side \in Sides : \E i \in LagCandidates(k, o, side), q \in Nat :
         OpenedAs(F(side), s1, LagCandidates(k, o, side), side, opp, q, i)
  BY <1>2, <1>3, LagOpenedSomewhere
<1>7. PICK m \in LagCandidates(k, o, side), q \in Nat :
         OpenedAs(F(side), s1, LagCandidates(k, o, side), side, opp, q, m)
  BY <1>6
<1> HIDE DEF opps
<1>8. /\ m \in DOMAIN s1 /\ m \in Nat /\ m \in 1 .. k /\ k \in Nat /\ k <= N
      /\ LagCandidate(s1[m], o, side)
  <2>1. m \in 1 .. k /\ LagCandidate(s1[m], o, side) /\ k \in 1 .. N
    BY <1>1, <1>7 DEF LagCandidates
  <2> QED BY <1>1, <2>1
<1>9. /\ opp.side = side /\ opp.price = s1[m].ask[side] /\ opp.at = s1[m].at
      /\ opp.line = s1[m].line
  BY <1>7 DEF OpenedAs, SameOpening, Lag!Opened
<1> DEFINE C == LagCandidates(m, "none", side)
           then == Lag!Opportunities(SubSeq(s1, 1, m), "none")
<1>10. ASSUME opp.line
       PROVE  \E j \in DOMAIN then :
                 /\ then[j].side = opp.side /\ then[j].lastAt = opp.at
                 /\ (\A i \in DOMAIN s1 : s1[i].line) =>
                       then[j].at = opp.at /\ then[j].price = opp.price
  <2>1. m \in C
    <3>1. LagCandidate(s1[m], "none", side)
      BY <1>8, <1>9, <1>10 DEF LagCandidate, Lag!Qualifies, Lag!HasLine
    <3> QED BY <1>8, <3>1 DEF LagCandidates
  <2>2. C \in SUBSET (1 .. N) /\ \A i \in C : i <= m
    BY <1>1, <1>8 DEF LagCandidates
  <2> DEFINE f == F(side)[C]
             last == f[Len(f)]
  <2>3. f \in Seq(LagOpp) /\ Len(f) \in DOMAIN f /\ last.lastAt = s1[m].at
    <3> HIDE DEF C, F
    <3> QED BY <1>1, <1>4, <2>1, <2>2, LagSeenLast
  <2>4. last.side = side
    <3>1. \E i \in C : OpenedAs(F(side), s1, C, side, f[Len(f)], Len(f), i)
      <4> HIDE DEF C, F
      <4> QED BY <1>1, <1>4, <2>2, <2>3, LagOpenings
    <3> QED BY <3>1 DEF OpenedAs, SameOpening, Lag!Opened
  <2>5. (\A i \in DOMAIN s1 : s1[i].line) => last.at = opp.at /\ last.price = opp.price
    <3> SUFFICES ASSUME \A i \in DOMAIN s1 : s1[i].line
                 PROVE  last.at = opp.at /\ last.price = opp.price
      OBVIOUS
    <3>1. C = LagCandidates(k, o, side) \cap (1 .. m)
      <4>1. \A i \in 1 .. m : LagCandidate(s1[i], "none", side) <=> LagCandidate(s1[i], o, side)
        <5>1. \A i \in 1 .. m : s1[i].line
          BY <1>1, <1>8
        <5> QED BY <5>1 DEF LagCandidate, Lag!Qualifies, Lag!HasLine
      <4>2. \A i \in 1 .. m : i \in 1 .. k
        BY <1>8
      <4> QED BY <4>1, <4>2 DEF LagCandidates
    <3>2. Len(f) = q /\ f[q] = Lag!Opened(s1[m], side)
      <4> HIDE DEF F, C
      <4> QED BY <1>7, <3>1 DEF OpenedAs
    <3>3. last = Lag!Opened(s1[m], side)
      BY <3>2
    <3> HIDE DEF last
    <3> QED BY <1>9, <3>3 DEF Lag!Opened
  <2>6. \E j \in DOMAIN then : then[j] = last
    <3> DEFINE a == FY[LagCandidates(m, "none", "YES")]
               b == FN[LagCandidates(m, "none", "NO")]
    <3>1. /\ \A j \in DOMAIN a : j \in DOMAIN then /\ then[j] = a[j]
          /\ \A j \in DOMAIN b : Len(a) + j \in DOMAIN then /\ then[Len(a) + j] = b[j]
      <4>1. LagParts(m, "none", FY, FN)
        BY <1>2, <1>3, <1>8, LagOpportunities
      <4> QED BY <4>1 DEF LagParts
    <3>2. f = a \/ f = b
      BY DEF Sides
    <3> HIDE DEF then, a, b, f
    <3> QED BY <2>3, <3>1, <3>2
  <2> HIDE DEF last, then
  <2> QED BY <1>9, <2>3, <2>4, <2>5, <2>6
<1> QED BY <1>8, <1>9, <1>10

LEMMA LagMinMax ==
    ASSUME NEW S \in SUBSET (0 .. 100), S # {}
    PROVE  /\ Lag!Min(S) \in S /\ \A x \in S : Lag!Min(S) <= x
           /\ Lag!Max(S) \in S /\ \A x \in S : x <= Lag!Max(S)
<1>1. \A x \in S : x \in Nat /\ x <= 100
  OBVIOUS
<1>2. PICK x \in S : \A y \in S : x <= y
  <2>1. S \in SUBSET Nat
    BY <1>1
  <2> QED BY <2>1, LeastNatural
<1>3. Lag!Min(S) \in S /\ \A y \in S : Lag!Min(S) <= y
  BY <1>2 DEF Lag!Min
<1> DEFINE T == {100 - y : y \in S}
<1>4. PICK z \in T : \A y \in T : z <= y
  <2>1. T \in SUBSET Nat /\ T # {}
    BY <1>1
  <2> HIDE DEF T
  <2> QED BY <2>1, LeastNatural
<1>5. PICK w \in S : z = 100 - w
  BY <1>4
<1>6. \A y \in S : y <= w
  <2> SUFFICES ASSUME NEW y \in S PROVE y <= w
    OBVIOUS
  <2>1. 100 - w <= 100 - y
    BY <1>4, <1>5
  <2> QED BY <1>1, <1>5, <2>1
<1>7. \A y \in S : w >= y
  BY <1>1, <1>6
<1>8. Lag!Max(S) \in S /\ \A y \in S : Lag!Max(S) >= y
  BY <1>7 DEF Lag!Max
<1> QED BY <1>1, <1>3, <1>8

LEMMA LagWorth ==
    ASSUME s1 \in Seq(Lag!JoinedRow), Lag!LagAssumption, NEW k \in DOMAIN s1, NEW o,
           Lag!StudyOf(k, o)
    PROVE  Lag!WorthItForBoth
<1> DEFINE N == Len(s1)
           opps == Lag!Opportunities(SubSeq(s1, 1, k), o)
<1>1. /\ N \in Nat /\ DOMAIN s1 = 1 .. N /\ \A i \in 1 .. N : s1[i] \in Lag!JoinedRow
  BY LagRows
<1>2. PICK FY : LagFolds(FY, s1, N, "YES")
  BY <1>1, LagFoldExists DEF Sides
<1>3. PICK FN : LagFolds(FN, s1, N, "NO")
  BY <1>1, LagFoldExists DEF Sides
<1>4. DOMAIN s3.opps = DOMAIN opps /\ \A n \in DOMAIN opps : s3.opps[n].opp = opps[n]
  BY DEF Lag!StudyOf
<1> DEFINE WorthIt(opp, row) ==
              /\ row.at = opp.at
              /\ \A chance \in row.chances :
                    (IF opp.side = "YES" THEN chance ELSE 100 - chance)
                        >= opp.price + Lag!TakerFee(opp.price, 1) + StudyBuffer
<1> SUFFICES ASSUME NEW n \in DOMAIN opps
             PROVE  \E row \in Lag!ToSet(s1) : WorthIt(opps[n], row)
  BY <1>4 DEF Lag!WorthItForBoth
<1> DEFINE opp == opps[n]
<1>5. PICK side \in Sides : \E i \in LagCandidates(k, o, side), q \in Nat :
         OpenedAs(IF side = "YES" THEN FY ELSE FN, s1, LagCandidates(k, o, side), side, opp, q, i)
  BY <1>2, <1>3, LagOpenedSomewhere
<1>6. PICK i \in LagCandidates(k, o, side), q \in Nat :
         OpenedAs(IF side = "YES" THEN FY ELSE FN, s1, LagCandidates(k, o, side), side, opp, q, i)
  BY <1>5
<1> HIDE DEF opps
<1> DEFINE row == s1[i]
           fee == Lag!TakerFee(row.ask[side], 1)
<1>7. i \in DOMAIN s1 /\ LagCandidate(row, o, side) /\ row \in Lag!JoinedRow
  <2>1. i \in 1 .. k /\ LagCandidate(row, o, side) /\ k \in 1 .. N
    BY <1>1, <1>6 DEF LagCandidates
  <2> QED BY <1>1, <2>1
<1>8. opp.side = side /\ opp.price = row.ask[side] /\ opp.at = row.at
  BY <1>6 DEF OpenedAs, SameOpening, Lag!Opened
<1>9. /\ row.ask[side] \in Int /\ row.chances \in SUBSET (0 .. 100) /\ row.chances # {}
      /\ StudyBuffer \in Int /\ StudyMinEdge \in Nat
  <2>1. row.ask[side] \in Int /\ row.chances \in (SUBSET (0 .. 100)) \ {{}}
    <3> DEFINE R == row
    <3>1. R \in Lag!JoinedRow
      BY <1>7
    <3> HIDE DEF R
    <3>2. R.ask[side] \in Int /\ R.chances \in (SUBSET (0 .. 100)) \ {{}}
      BY <3>1 DEF Lag!JoinedRow, Lag!Sides, Sides
    <3> QED BY <3>2 DEF R
  <2>2. StudyBuffer \in Int /\ StudyMinEdge \in Nat
    BY DEF Lag!LagAssumption
  <2> QED BY <2>1, <2>2
<1>10. fee \in Int
  BY <1>9 DEF Lag!TakerFee, Lag!LagAssumption
<1>11. Lag!ChanceOf(row, side) - row.ask[side] - fee - StudyBuffer >= StudyMinEdge
  BY <1>7 DEF LagCandidate, Lag!Qualifies
<1> HIDE DEF fee
<1>12. \A chance \in row.chances :
          (IF side = "YES" THEN chance ELSE 100 - chance) >= row.ask[side] + fee + StudyBuffer
  <2> SUFFICES ASSUME NEW chance \in row.chances
               PROVE  (IF side = "YES" THEN chance ELSE 100 - chance)
                         >= row.ask[side] + fee + StudyBuffer
    OBVIOUS
  <2>1. /\ Lag!Min(row.chances) \in Int /\ Lag!Min(row.chances) <= chance /\ chance \in Int
        /\ Lag!Max(row.chances) \in Int /\ chance <= Lag!Max(row.chances)
    <3> DEFINE S == row.chances
    <3>1. S \in SUBSET (0 .. 100) /\ S # {} /\ chance \in S
      BY <1>9
    <3> HIDE DEF S
    <3>2. /\ Lag!Min(S) \in S /\ Lag!Min(S) <= chance /\ Lag!Max(S) \in S /\ chance <= Lag!Max(S)
      BY <3>1, LagMinMax
    <3>3. \A x \in S : x \in Int
      <4> SUFFICES ASSUME NEW x \in S PROVE x \in Int
        OBVIOUS
      <4>1. x \in 0 .. 100
        BY <3>1
      <4> QED BY <4>1
    <3>4. Lag!Min(S) \in Int /\ Lag!Max(S) \in Int /\ chance \in Int
      BY <3>1, <3>2, <3>3
    <3> QED BY <3>2, <3>4 DEF S
  <2>2. Lag!ChanceOf(row, side) =
           IF side = "YES" THEN Lag!Min(row.chances) ELSE 100 - Lag!Max(row.chances)
    BY DEF Lag!ChanceOf
  <2> HIDE DEF row
  <2> QED BY <1>9, <1>10, <1>11, <2>1, <2>2
<1>13. row \in Lag!ToSet(s1)
  BY <1>7 DEF Lag!ToSet
<1>14. WorthIt(opp, row)
  <2> HIDE DEF opp, row
  <2> QED BY <1>8, <1>12 DEF fee
<1> HIDE DEF opp, row, WorthIt
<1> QED BY <1>13, <1>14 DEF opp

LEMMA LagHolds ==
    ASSUME Lag!LagInv, Lag!LagAssumption
    PROVE  Lag!LagIsSound
<1>1. s1 \in Seq(Lag!JoinedRow) /\ Lag!InOrder
  BY DEF Lag!LagInv
<1>2. CASE s3 = Lag!NoStudy
  <2>1. DOMAIN s3.opps = {}
    BY <1>2 DEF Lag!NoStudy
  <2> QED BY <1>1, <2>1, LagAnswersFollow
          DEF Lag!LagIsSound, Lag!FoundInTime, Lag!WorthItForBoth
<1>3. CASE \E m \in DOMAIN s1, settledAs \in {"none", s2} : Lag!StudyOf(m, settledAs)
  <2>1. PICK m \in DOMAIN s1, settledAs \in {"none", s2} : Lag!StudyOf(m, settledAs)
    BY <1>3
  <2> QED BY <1>1, <2>1, LagAnswersFollow, LagFoundInTime, LagWorth DEF Lag!LagIsSound
<1> QED BY <1>2, <1>3 DEF Lag!LagInv

LEMMA LagStart == ASSUME Lag!LagInit PROVE Lag!LagInv
BY DEF Lag!LagInit, Lag!LagInv, Lag!InOrder

\* Without rows there are no opportunities.
LEMMA LagNoRows ==
    ASSUME NEW o
    PROVE  Lag!Opportunities(<<>>, o) = <<>>
<1>1. ASSUME NEW side \in Sides PROVE Lag!Dedupe(<<>>, Lag!Candidates(<<>>, o, side), side) = <<>>
  <2>1. Lag!Candidates(<<>>, o, side) = {}
    BY DEF Lag!Candidates
  <2>2. \A i \in 1 .. 0 : <<>>[i] \in Lag!JoinedRow
    OBVIOUS
  <2>3. PICK F : LagFolds(F, <<>>, 0, side)
    BY <2>2, LagFoldExists
  <2>4. Lag!Dedupe(<<>>, {}, side) = F[{}]
    BY <2>3, LagDedupe
  <2> QED BY <2>1, <2>3, <2>4 DEF LagFolds
<1>2. Lag!Dedupe(<<>>, Lag!Candidates(<<>>, o, "YES"), "YES") = <<>>
      /\ Lag!Dedupe(<<>>, Lag!Candidates(<<>>, o, "NO"), "NO") = <<>>
  BY <1>1 DEF Sides
<1>3. <<>> \o <<>> = <<>>
  OBVIOUS
<1> QED BY <1>2, <1>3 DEF Lag!Opportunities

\* A row that comes later, with the time its gap gives it.
LEMMA LagRecord ==
    ASSUME Lag!LagInv, Lag!LagAssumption, NEW kind \in JoinedKinds, NEW gap \in Gap,
           Lag!RecordRow(kind, gap)
    PROVE  Lag!LagInv'
<1> DEFINE row == [kind EXCEPT !.at = Lag!LastAt + gap]
           N == Len(s1)
<1>1. s1 \in Seq(Lag!JoinedRow) /\ s2 = "none" /\ s1' = Append(s1, row) /\ s2' = s2 /\ s3' = s3
  BY DEF Lag!LagInv, Lag!RecordRow
<1>2. /\ N \in Nat /\ DOMAIN s1 = 1 .. N /\ \A i \in 1 .. N : s1[i] \in Lag!JoinedRow
      /\ \A i \in 1 .. N : s1[i].at \in Nat
  BY <1>1, LagRows
<1>3. gap \in Nat /\ gap > 0 /\ kind \in Lag!JoinedRow
  BY DEF Lag!LagAssumption
<1>4. Lag!LastAt \in Nat /\ \A i \in 1 .. N : s1[i].at <= Lag!LastAt
  <2>1. CASE s1 = <<>>
    <3>1. N = 0
      BY <2>1
    <3> QED BY <2>1, <3>1 DEF Lag!LastAt
  <2>2. CASE s1 # <<>>
    <3>1. N \in 1 .. N
      BY <1>1, <1>2, <2>2
    <3>2. Lag!LastAt = s1[N].at
      BY <2>2 DEF Lag!LastAt, Lag!Last
    <3>3. \A i, j \in 1 .. N : i < j => s1[i].at < s1[j].at
      BY <1>2 DEF Lag!LagInv, Lag!InOrder
    <3> HIDE DEF N
    <3>4. s1[N].at \in Nat
      BY <1>2, <3>1
    <3>5. ASSUME NEW i \in 1 .. N PROVE s1[i].at <= s1[N].at
      <4>1. i = N \/ i < N
        BY <1>2
      <4>2. s1[i].at \in Nat
        BY <1>2
      <4> QED BY <3>1, <3>3, <3>4, <4>1, <4>2
    <3> QED BY <3>2, <3>4, <3>5
  <2> QED BY <2>1, <2>2
<1>5. row \in Lag!JoinedRow /\ row.at = Lag!LastAt + gap
  <2>1. Lag!LastAt + gap \in Nat
    BY <1>3, <1>4
  <2> QED BY <1>3, <2>1 DEF Lag!JoinedRow
<1>6. /\ s1' \in Seq(Lag!JoinedRow) /\ Len(s1') = N + 1
      /\ (\A j \in 1 .. N : s1'[j] = s1[j]) /\ s1'[N + 1] = row
      /\ DOMAIN s1' = 1 .. (N + 1)
  <2> HIDE DEF row
  <2> QED BY <1>1, <1>5, AppendFacts, LenProperties
<1>7. Lag!InOrder'
  <2> SUFFICES ASSUME NEW i \in 1 .. (N + 1), NEW j \in 1 .. (N + 1), i < j
               PROVE  s1'[i].at < s1'[j].at
    BY <1>6 DEF Lag!InOrder
  <2>1. CASE j \in 1 .. N
    <3>1. i \in 1 .. N
      BY <2>1, <1>2
    <3> QED BY <1>2, <1>6, <2>1, <3>1 DEF Lag!LagInv, Lag!InOrder
  <2>2. CASE j \notin 1 .. N
    <3>1. j = N + 1 /\ i \in 1 .. N
      <4> HIDE DEF N
      <4> QED BY <1>2, <2>2
    <3>2. s1[i].at <= Lag!LastAt /\ s1[i].at \in Nat
      BY <1>2, <1>4, <3>1
    <3>3. s1'[i].at = s1[i].at /\ s1'[j].at = Lag!LastAt + gap
      BY <1>5, <1>6, <3>1
    <3> QED BY <1>3, <1>4, <3>2, <3>3
  <2> QED BY <2>1, <2>2
<1>8. ASSUME NEW m \in DOMAIN s1, NEW o, Lag!StudyOf(m, o)
      PROVE  m \in DOMAIN s1' /\ Lag!StudyOf(m, o)'
  <2>1. m \in 1 .. N /\ m \in 1 .. (N + 1)
    BY <1>2
  <2>2. SubSeq(s1', 1, m) = SubSeq(s1, 1, m)
    <3> HIDE DEF row
    <3>1. s1' = s1 \o <<row>>
      BY <1>1, <1>5, AppendIsConcat
    <3>2. <<row>> \in Seq(Lag!JoinedRow) /\ 1 \in 1 .. Len(s1)
      BY <1>2, <1>5
    <3> QED BY <1>1, <2>1, <3>1, <3>2, SubSeqOfConcat1
  <2> QED BY <1>1, <1>6, <1>8, <2>1, <2>2 DEF Lag!StudyOf
<1>9. s3' = Lag!NoStudy \/ \E m \in DOMAIN s1', o \in {"none", s2'} : Lag!StudyOf(m, o)'
  <2>1. s3 = Lag!NoStudy \/ \E m \in DOMAIN s1, o \in {"none", s2} : Lag!StudyOf(m, o)
    BY DEF Lag!LagInv
  <2> QED BY <1>1, <1>8, <2>1
<1> QED BY <1>1, <1>6, <1>7, <1>9 DEF Lag!LagInv, Lag!NoStudy

LEMMA LagRun ==
    ASSUME Lag!LagInv, Lag!RunStudy
    PROVE  Lag!LagInv'
<1> DEFINE opps == Lag!Opportunities(s1, s2)
           N == Len(s1)
<1>1. /\ s1 \in Seq(Lag!JoinedRow) /\ s1' = s1 /\ s2' = s2 /\ s3' # s3
      /\ s3' = [opps |-> [i \in DOMAIN opps |-> Lag!Scored(opps[i])],
                answers |-> {Lag!Response(s1, i) : i \in
                                {j \in DOMAIN s1 : Lag!IsShock(s1[j], FarBps)}}]
  BY DEF Lag!LagInv, Lag!RunStudy
<1>2. N \in Nat /\ DOMAIN s1 = 1 .. N
  BY <1>1, LagRows
<1>3. CASE s1 = <<>>
  <2>1. opps = <<>> /\ DOMAIN s1 = {}
    BY <1>3, LagNoRows
  <2>2. s3 = Lag!NoStudy
    BY <2>1 DEF Lag!LagInv
  <2>3. [i \in DOMAIN opps |-> Lag!Scored(opps[i])] = <<>>
    BY <2>1
  <2>4. {Lag!Response(s1, i) : i \in {j \in DOMAIN s1 : Lag!IsShock(s1[j], FarBps)}} = {}
    BY <2>1
  <2>5. s3' = Lag!NoStudy
    <3> HIDE DEF opps
    <3> QED BY <1>1, <2>3, <2>4 DEF Lag!NoStudy
  <2> QED BY <1>1, <2>2, <2>5
<1>4. CASE s1 # <<>>
  <2>1. N \in DOMAIN s1
    BY <1>1, <1>2, <1>4
  <2>2. SubSeq(s1, 1, N) = s1
    BY <1>1, SubSeqFull
  <2>3. \A i \in DOMAIN opps : Lag!Scored(opps[i]).opp = opps[i]
    BY DEF Lag!Scored
  <2>4. DOMAIN s3'.opps = DOMAIN opps /\ \A i \in DOMAIN opps : s3'.opps[i].opp = opps[i]
    <3> HIDE DEF opps
    <3> QED BY <1>1, <2>3
  <2>5. \A m, o : m = N /\ o = s2 => Lag!StudyOf(m, o)'
    BY <1>1, <2>2, <2>4 DEF Lag!StudyOf
  <2>6. Lag!InOrder'
    BY <1>1 DEF Lag!LagInv, Lag!InOrder
  <2>7. \E m \in DOMAIN s1', o \in {"none", s2'} : Lag!StudyOf(m, o)'
    BY <1>1, <2>1, <2>5
  <2> QED BY <1>1, <2>6, <2>7 DEF Lag!LagInv
<1> QED BY <1>3, <1>4

LEMMA LagStep ==
    ASSUME Lag!LagInv, Lag!LagAssumption, Lag!LagNext
    PROVE  Lag!LagInv'
<1>1. ASSUME NEW side \in Sides, Lag!PublishLabel(side) PROVE Lag!LagInv'
  <2>1. s1' = s1 /\ s2 = "none" /\ s2' = side /\ s3' = s3
    BY <1>1 DEF Lag!PublishLabel
  <2>2. Lag!InOrder' /\ s2' \in Sides
    BY <2>1 DEF Lag!LagInv, Lag!InOrder
  <2>3. \A m, o : Lag!StudyOf(m, o) => Lag!StudyOf(m, o)'
    BY <2>1 DEF Lag!StudyOf
  <2> QED BY <2>1, <2>2, <2>3 DEF Lag!LagInv, Lag!NoStudy, Lag!Sides, Sides
<1>2. Lag!Sides = Sides
  BY DEF Lag!Sides, Sides
<1> QED BY <1>1, <1>2, LagRecord, LagRun DEF Lag!LagNext

LEMMA LagStutter ==
    ASSUME Lag!LagInv, UNCHANGED Lag!lagVars
    PROVE  Lag!LagInv'
<1>1. s1' = s1 /\ s2' = s2 /\ s3' = s3
  BY DEF Lag!lagVars
<1>2. \A m, o : Lag!StudyOf(m, o) => Lag!StudyOf(m, o)'
  BY <1>1 DEF Lag!StudyOf
<1> QED BY <1>1, <1>2 DEF Lag!LagInv, Lag!InOrder, Lag!NoStudy
-----------------------------------------------------------------------------
(* The study of late repricing on feature rows (CycleLag).                  *)

CycleOpp == [side : Sides, price : Int, at : Nat, lastAt : Nat, seen : Nat]

SameStart(a, b) == a.side = b.side /\ a.price = b.price /\ a.at = b.at

LEMMA CycleRows ==
    ASSUME NEW row \in Cycle!CycleRow
    PROVE  /\ row.at \in Nat /\ row.ask \in [Sides -> 1 .. 100] /\ row.flow \in Int
           /\ row.returns \in [{5, 15} -> Int] /\ row.normed \in SUBSET {5, 15}
BY DEF Cycle!CycleRow, Cycle!Sides, Sides

LEMMA CycleDirection ==
    ASSUME NEW row \in Cycle!CycleRow
    PROVE  Cycle!Direction(row) \in Sides
<1>1. \A x : Cycle!SideOf(x) \in Sides
  BY DEF Cycle!SideOf, Sides
<1>2. CASE Cycle!Reached(row) # {}
  BY <1>1, <1>2 DEF Cycle!Direction
<1>3. CASE Cycle!Reached(row) = {} /\ row.normed # {}
  BY <1>1, <1>3 DEF Cycle!Direction
<1>4. CASE Cycle!Reached(row) = {} /\ row.normed = {}
  BY <1>1, <1>4 DEF Cycle!Direction
<1> QED BY <1>2, <1>3, <1>4

\* One step of dedup_events.
LEMMA CycleAdded ==
    ASSUME NEW opps \in Seq(CycleOpp), NEW row \in Cycle!CycleRow, CycleWindow \in Int
    PROVE  LET new == Cycle!Added(opps, row)
               L == Len(opps)
           IN  /\ new \in Seq(CycleOpp)
               /\ \/ /\ Len(new) = L + 1
                     /\ \A n \in 1 .. L : new[n] = opps[n]
                     /\ new[L + 1] = Cycle!Opened(row)
                     /\ L > 0 => row.at - opps[L].lastAt > CycleWindow
                  \/ /\ L > 0 /\ Len(new) = L
                     /\ \A n \in 1 .. L : n # L => new[n] = opps[n]
                     /\ SameStart(new[L], opps[L]) /\ new[L].seen = opps[L].seen + 1
<1> DEFINE new == Cycle!Added(opps, row)
           L == Len(opps)
<1>1. row.at \in Nat /\ row.ask[Cycle!Direction(row)] \in Int /\ Cycle!Direction(row) \in Sides
  <2>1. Cycle!Direction(row) \in Sides
    BY CycleDirection
  <2>2. row.at \in Nat /\ row.ask \in [Sides -> 1 .. 100]
    BY CycleRows
  <2>3. row.ask[Cycle!Direction(row)] \in 1 .. 100
    <3> HIDE DEF Sides
    <3> QED BY <2>1, <2>2
  <2>4. \A p \in 1 .. 100 : p \in Int
    OBVIOUS
  <2> QED BY <2>1, <2>2, <2>3, <2>4
<1>2. Cycle!Opened(row) \in CycleOpp
  BY <1>1 DEF Cycle!Opened, CycleOpp
<1>3. L \in Nat /\ (\A n \in 1 .. L : opps[n] \in CycleOpp) /\ (L = 0 <=> opps = <<>>)
  OBVIOUS
<1> DEFINE Added(q) ==
             /\ q \in Seq(CycleOpp)
             /\ \/ /\ Len(q) = L + 1
                   /\ \A n \in 1 .. L : q[n] = opps[n]
                   /\ q[L + 1] = Cycle!Opened(row)
                   /\ L > 0 => row.at - opps[L].lastAt > CycleWindow
                \/ /\ L > 0 /\ Len(q) = L
                   /\ \A n \in 1 .. L : n # L => q[n] = opps[n]
                   /\ SameStart(q[L], opps[L]) /\ q[L].seen = opps[L].seen + 1
<1> SUFFICES Added(new)
  OBVIOUS
<1>4. CASE opps # <<>> /\ Cycle!Same(Cycle!Last(opps), row)
  <2> DEFINE seen == Cycle!Seen(opps[L], row)
  <2>1. new = [opps EXCEPT ![L] = seen]
    BY <1>4 DEF Cycle!Added
  <2>2. L \in 1 .. L /\ L > 0 /\ opps[L] \in CycleOpp
    BY <1>3, <1>4
  <2>3. seen \in CycleOpp /\ SameStart(seen, opps[L]) /\ seen.seen = opps[L].seen + 1
    <3> DEFINE o == opps[L]
    <3>1. o \in CycleOpp
      BY <2>2
    <3> HIDE DEF o
    <3>2. Cycle!Seen(o, row) \in CycleOpp
      <4> DEFINE p == [o EXCEPT !.lastAt = row.at]
      <4>1. p \in CycleOpp
        BY <1>1, <3>1 DEF CycleOpp
      <4>2. o.seen + 1 \in Nat
        BY <3>1 DEF CycleOpp
      <4> HIDE DEF p
      <4>3. [p EXCEPT !.seen = o.seen + 1] \in CycleOpp
        BY <4>1, <4>2 DEF CycleOpp
      <4> QED BY <4>3 DEF p, Cycle!Seen
    <3>3. SameStart(Cycle!Seen(o, row), o) /\ Cycle!Seen(o, row).seen = o.seen + 1
      BY <1>1, <3>1 DEF Cycle!Seen, CycleOpp, SameStart
    <3> QED BY <3>2, <3>3 DEF o
  <2> HIDE DEF seen
  <2>4. /\ new \in Seq(CycleOpp) /\ Len(new) = L /\ new[L] = seen
        /\ \A n \in 1 .. L : n # L => new[n] = opps[n]
    BY <2>1, <2>2, <2>3
  <2> HIDE DEF new
  <2> QED BY <2>2, <2>3, <2>4
<1>5. CASE ~(opps # <<>> /\ Cycle!Same(Cycle!Last(opps), row))
  <2> DEFINE o == Cycle!Opened(row)
  <2>1. new = Append(opps, o)
    BY <1>5 DEF Cycle!Added
  <2>2. L > 0 => row.at - opps[L].lastAt > CycleWindow
    <3> SUFFICES ASSUME L > 0 PROVE row.at - opps[L].lastAt > CycleWindow
      OBVIOUS
    <3>1. ~Cycle!Same(opps[L], row)
      BY <1>3, <1>5 DEF Cycle!Last
    <3>2. opps[L] \in CycleOpp
      BY <1>3
    <3>3. opps[L].lastAt \in Int
      BY <3>2 DEF CycleOpp
    <3> QED BY <1>1, <3>1, <3>3 DEF Cycle!Same
  <2> HIDE DEF o
  <2>3. /\ new \in Seq(CycleOpp) /\ Len(new) = L + 1 /\ new[L + 1] = o
        /\ \A n \in 1 .. L : new[n] = opps[n]
    BY <1>2, <2>1 DEF o
  <2> HIDE DEF new
  <2> QED BY <2>2, <2>3 DEF o
<1> QED BY <1>4, <1>5

LEMMA CycleMax ==
    ASSUME NEW N \in Nat, NEW s \in SUBSET (1 .. N), NEW m \in s, \A i \in s : i <= m
    PROVE  Cycle!Max(s) = m
<1>1. \A i \in s : i \in Nat
  OBVIOUS
<1>2. m \in s /\ \A i \in s : m >= i
  BY <1>1
<1>3. \A x \in s : (\A i \in s : x >= i) => x = m
  BY <1>1, <1>2
<1> QED BY <1>2, <1>3 DEF Cycle!Max

\* What dedup_events makes of the candidates among some rows, by the last one of them.
CycleFolds(F, rows, N) ==
    /\ F \in [SUBSET (1 .. N) -> Seq(CycleOpp)]
    /\ F[{}] = <<>>
    /\ \A s \in SUBSET (1 .. N) : \A m \in s :
          (\A i \in s : i <= m) => F[s] = Cycle!Added(F[s \ {m}], rows[m])

LEMMA CycleFoldExists ==
    ASSUME NEW N \in Nat, NEW rows, \A i \in 1 .. N : rows[i] \in Cycle!CycleRow, CycleWindow \in Int
    PROVE  \E F : CycleFolds(F, rows, N)
<1> DEFINE D == 1 .. N
           V == Seq(CycleOpp)
           add(i, opps) == Cycle!Added(opps, rows[i])
           G == [i \in D |-> [opps \in V |-> add(i, opps)]]
           h == [s \in SUBSET D |-> Cycle!Max(s)]
<1>1. IsFiniteSet(D)
  BY FS_Interval
<1>2. \A s \in SUBSET D : \A m \in s : (\A i \in s : i <= m) => h[s] = m
  BY CycleMax
<1>3. Picks(h, D)
  <2> HIDE DEF h
  <2> SUFFICES ASSUME NEW s \in SUBSET D, s # {} PROVE h[s] \in s
    BY DEF Picks
  <2>1. PICK m \in s : \A i \in s : i <= m
    BY LatestPlace
  <2> QED BY <1>2, <2>1
<1>4. \A i \in D : \A opps \in V : add(i, opps) \in V
  BY CycleAdded
<1>5. G \in [D -> [V -> V]]
  <2> HIDE DEF V, D, add
  <2> QED BY <1>4
<1>6. <<>> \in V
  OBVIOUS
<1>7. PICK F \in [SUBSET D -> V] : FoldsOver(F, G, <<>>, h, D)
  <2> HIDE DEF V, D, G, h
  <2> QED BY <1>1, <1>3, <1>5, <1>6, FoldExists
<1>8. F[{}] = <<>>
  BY <1>7 DEF FoldsOver
<1>9. ASSUME NEW s \in SUBSET D, NEW m \in s, \A i \in s : i <= m
      PROVE  F[s] = Cycle!Added(F[s \ {m}], rows[m])
  <2>1. h[s] = m /\ s # {} /\ m \in D /\ s \ {m} \in SUBSET D
    BY <1>2, <1>9
  <2>2. F[s] = G[m][F[s \ {m}]]
    <3> HIDE DEF h, G
    <3> QED BY <1>7, <2>1 DEF FoldsOver
  <2>3. F[s \ {m}] \in V
    <3> HIDE DEF V
    <3> QED BY <1>7, <2>1
  <2>4. G[m][F[s \ {m}]] = add(m, F[s \ {m}])
    <3> HIDE DEF V, D, add
    <3> QED BY <2>1, <2>3
  <2> QED BY <2>2, <2>4
<1> QED BY <1>7, <1>8, <1>9 DEF CycleFolds

LEMMA CycleDedup ==
    ASSUME NEW N \in Nat, NEW rows, NEW F, CycleFolds(F, rows, N),
           NEW r, NEW S \in SUBSET (1 .. N), \A i \in S : r[i] = rows[i]
    PROVE  Cycle!Dedup(r, S) = F[S]
<1> DEFINE Folded(E) == E = [s \in SUBSET S |-> IF s = {} THEN <<>>
                              ELSE Cycle!Added(E[s \ {Cycle!Max(s)}], r[Cycle!Max(s)])]
           E == CHOOSE C : Folded(C)
           h == [s \in SUBSET S |-> Cycle!Max(s)]
<1>1. \A s \in SUBSET S : s # {} =>
         h[s] = Cycle!Max(s) /\ Cycle!Max(s) \in s /\ \A i \in s : i <= Cycle!Max(s)
  <2> SUFFICES ASSUME NEW s \in SUBSET S, s # {}
               PROVE  Cycle!Max(s) \in s /\ \A i \in s : i <= Cycle!Max(s)
    OBVIOUS
  <2>1. s \in SUBSET (1 .. N)
    OBVIOUS
  <2>2. PICK m \in s : \A i \in s : i <= m
    BY <2>1, LatestPlace
  <2>3. Cycle!Max(s) = m
    BY <2>1, <2>2, CycleMax
  <2> QED BY <2>2, <2>3
<1>2. Picks(h, S) /\ IsFiniteSet(S)
  <2>1. IsFiniteSet(1 .. N)
    BY FS_Interval
  <2> HIDE DEF h
  <2> QED BY <1>1, <2>1, FS_Subset DEF Picks
<1>3. \A s \in SUBSET S : s # {} => F[s] = Cycle!Added(F[s \ {Cycle!Max(s)}], r[Cycle!Max(s)])
  <2> SUFFICES ASSUME NEW s \in SUBSET S, s # {}
               PROVE  F[s] = Cycle!Added(F[s \ {Cycle!Max(s)}], r[Cycle!Max(s)])
    OBVIOUS
  <2>1. Cycle!Max(s) \in s /\ (\A i \in s : i <= Cycle!Max(s)) /\ s \in SUBSET (1 .. N)
    BY <1>1
  <2>2. r[Cycle!Max(s)] = rows[Cycle!Max(s)]
    BY <2>1
  <2> QED BY <2>1, <2>2 DEF CycleFolds
<1>4. F[{}] = <<>>
  BY DEF CycleFolds
<1>5. Folded([s \in SUBSET S |-> F[s]])
  <2> DEFINE C == [s \in SUBSET S |-> F[s]]
  <2>1. \A s \in SUBSET S : C[s] = IF s = {} THEN <<>>
            ELSE Cycle!Added(C[s \ {Cycle!Max(s)}], r[Cycle!Max(s)])
    <3> SUFFICES ASSUME NEW s \in SUBSET S
                 PROVE  C[s] = IF s = {} THEN <<>>
                               ELSE Cycle!Added(C[s \ {Cycle!Max(s)}], r[Cycle!Max(s)])
      OBVIOUS
    <3>1. s \ {Cycle!Max(s)} \in SUBSET S
      OBVIOUS
    <3>2. C[s \ {Cycle!Max(s)}] = F[s \ {Cycle!Max(s)}] /\ C[s] = F[s]
      BY <3>1
    <3> HIDE DEF C
    <3> QED BY <1>3, <1>4, <3>2
  <2>2. DOMAIN C = SUBSET S /\ C = [s \in SUBSET S |-> C[s]]
    OBVIOUS
  <2> HIDE DEF C
  <2>3. Folded(C)
    BY <2>1, <2>2
  <2> QED BY <2>3 DEF C
<1>6. Folded(E)
  <2> HIDE DEF Folded
  <2> QED BY <1>5
<1>7. Cycle!Dedup(r, S) = E[S]
  BY DEF Cycle!Dedup, Cycle!MapThenFoldSet
<1> HIDE DEF E
<1>8. \A s \in SUBSET S : E[s] = IF s = {} THEN <<>>
         ELSE Cycle!Added(E[s \ {Cycle!Max(s)}], r[Cycle!Max(s)])
  BY <1>6
<1> DEFINE P == {s \in SUBSET S : E[s] = F[s]}
<1>9. {} \in P
  BY <1>4, <1>8
<1>10. ASSUME NEW s \in SUBSET S, s # {}, s \ {h[s]} \in P PROVE s \in P
  <2>1. h[s] = Cycle!Max(s) /\ s \ {Cycle!Max(s)} \in SUBSET S
    BY <1>1, <1>10
  <2>2. E[s \ {Cycle!Max(s)}] = F[s \ {Cycle!Max(s)}]
    BY <1>10, <2>1
  <2> HIDE DEF h
  <2> QED BY <1>3, <1>8, <1>10, <2>2
<1>11. \A s \in SUBSET S : s \in P
  <2> HIDE DEF h, P
  <2>1. Grows(P, h, S)
    BY <1>9, <1>10 DEF Grows
  <2> QED BY <1>2, <2>1, SubsetInduction
<1> QED BY <1>7, <1>11

\* The n-th opportunity among all events is the one that was opened as the n-th
\* when row i was added.
StartedAs(F, rows, C, opp, n, i) ==
    /\ F[C \cap (1 .. i)] \in Seq(CycleOpp) /\ Len(F[C \cap (1 .. i)]) = n
    /\ F[C \cap (1 .. i)][n] = Cycle!Opened(rows[i])
    /\ SameStart(opp, Cycle!Opened(rows[i]))

LEMMA CycleOpenings ==
    ASSUME NEW N \in Nat, NEW rows, \A i \in 1 .. N : rows[i] \in Cycle!CycleRow,
           CycleWindow \in Int, NEW F, CycleFolds(F, rows, N), NEW C \in SUBSET (1 .. N)
    PROVE  \A n \in DOMAIN F[C] : \E i \in C : StartedAs(F, rows, C, F[C][n], n, i)
<1> DEFINE U(k) == C \cap (1 .. k)
           Traced(k) == \A n \in DOMAIN F[U(k)] :
                           \E i \in U(k) : StartedAs(F, rows, C, F[U(k)][n], n, i)
           P == {k \in Nat : k <= N => Traced(k)}
<1>1. \A k \in Nat : U(k) \in SUBSET (1 .. N) /\ F[U(k)] \in Seq(CycleOpp)
  BY DEF CycleFolds
<1>2. 0 \in P
  <2>1. U(0) = {}
    OBVIOUS
  <2>2. F[U(0)] = <<>>
    BY <2>1 DEF CycleFolds
  <2>3. DOMAIN F[U(0)] = {}
    BY <2>2
  <2> HIDE DEF U
  <2> QED BY <2>3
<1>3. ASSUME NEW k \in Nat, k \in P PROVE k + 1 \in P
  <2> SUFFICES ASSUME k + 1 <= N PROVE Traced(k + 1)
    OBVIOUS
  <2>1. Traced(k)
    <3>1. k <= N
      OBVIOUS
    <3> HIDE DEF Traced
    <3> QED BY <1>3, <3>1
  <2>2. CASE k + 1 \notin C
    <3>1. U(k + 1) = U(k)
      BY <2>2
    <3> HIDE DEF U
    <3> QED BY <2>1, <3>1
  <2>3. CASE k + 1 \in C
    <3> DEFINE old == F[U(k)]
               new == F[U(k + 1)]
               L == Len(old)
    <3>1. /\ U(k + 1) \in SUBSET (1 .. N) /\ k + 1 \in U(k + 1)
          /\ (\A i \in U(k + 1) : i <= k + 1) /\ U(k + 1) \ {k + 1} = U(k)
          /\ U(k) \subseteq U(k + 1) /\ rows[k + 1] \in Cycle!CycleRow
      BY <2>3
    <3>2. new = Cycle!Added(old, rows[k + 1])
      <4> HIDE DEF U
      <4> QED BY <3>1 DEF CycleFolds
    <3>3. /\ new \in Seq(CycleOpp) /\ old \in Seq(CycleOpp)
      <4>1. k + 1 \in Nat
        OBVIOUS
      <4> HIDE DEF U
      <4> QED BY <1>1, <4>1
    <3>4. \/ /\ Len(new) = L + 1
             /\ \A n \in 1 .. L : new[n] = old[n]
             /\ new[L + 1] = Cycle!Opened(rows[k + 1])
          \/ /\ Len(new) = L
             /\ \A n \in 1 .. L : SameStart(new[n], old[n])
      <4>1. \/ /\ Len(new) = L + 1
               /\ \A n \in 1 .. L : new[n] = old[n]
               /\ new[L + 1] = Cycle!Opened(rows[k + 1])
            \/ /\ L > 0 /\ Len(new) = L
               /\ \A n \in 1 .. L : n # L => new[n] = old[n]
               /\ SameStart(new[L], old[L])
        <5> HIDE DEF new, old, U
        <5> QED BY <3>1, <3>2, <3>3, CycleAdded
      <4> HIDE DEF new, old, U
      <4>2. \A a : SameStart(a, a)
        BY DEF SameStart
      <4> QED BY <4>1, <4>2
    <3>5. DOMAIN new = 1 .. Len(new) /\ DOMAIN old = 1 .. L /\ L \in Nat
      BY <3>3
    <3>6. ASSUME NEW n \in 1 .. L, SameStart(new[n], old[n])
          PROVE  \E i \in U(k + 1) : StartedAs(F, rows, C, new[n], n, i)
      <4>1. PICK i \in U(k) : StartedAs(F, rows, C, old[n], n, i)
        <5> HIDE DEF U
        <5> QED BY <2>1, <3>5
      <4>2. StartedAs(F, rows, C, new[n], n, i)
        BY <3>6, <4>1 DEF StartedAs, SameStart
      <4>3. i \in U(k + 1)
        BY <3>1
      <4> QED BY <4>2, <4>3
    <3>7. ASSUME Len(new) = L + 1, new[L + 1] = Cycle!Opened(rows[k + 1])
          PROVE  StartedAs(F, rows, C, new[L + 1], L + 1, k + 1)
      <4>1. SameStart(new[L + 1], Cycle!Opened(rows[k + 1]))
        BY <3>7 DEF SameStart
      <4> QED BY <3>3, <3>7, <4>1 DEF StartedAs
    <3> SUFFICES ASSUME NEW n \in 1 .. Len(new)
                 PROVE  \E i \in U(k + 1) : StartedAs(F, rows, C, new[n], n, i)
      BY <3>5
    <3> HIDE DEF new, old, U
    <3>8. CASE n \in 1 .. L
      <4>1. SameStart(new[n], old[n])
        BY <3>4, <3>8 DEF SameStart
      <4> QED BY <3>6, <3>8, <4>1
    <3>9. CASE n \notin 1 .. L
      <4>1. Len(new) = L + 1 /\ new[L + 1] = Cycle!Opened(rows[k + 1])
        BY <3>4, <3>9
      <4>2. n = L + 1
        BY <3>5, <3>9, <4>1
      <4> QED BY <3>1, <3>7, <4>1, <4>2
    <3> QED BY <3>8, <3>9
  <2> QED BY <2>2, <2>3
<1>4. N \in P
  <2> HIDE DEF P
  <2> QED BY <1>2, <1>3, NumberInduction
<1>5. U(N) = C
  OBVIOUS
<1>6. Traced(N)
  BY <1>4
<1> HIDE DEF U
<1> QED BY <1>5, <1>6

\* What dedup_events keeps to, whatever the events.
CycleKept(opps, s) ==
    /\ opps \in Seq(CycleOpp)
    /\ \A n \in 1 .. Len(opps) : n > 1 => opps[n].at - opps[n - 1].lastAt > CycleWindow
    /\ FoldFunction(+, 0, [n \in 1 .. Len(opps) |-> opps[n].seen]) = Cardinality(s)

LEMMA CycleKeeps ==
    ASSUME NEW opps, NEW row \in Cycle!CycleRow, CycleWindow \in Int, NEW s, IsFiniteSet(s),
           NEW m \in s, CycleKept(opps, s \ {m})
    PROVE  CycleKept(Cycle!Added(opps, row), s)
<1> DEFINE new == Cycle!Added(opps, row)
           L == Len(opps)
           seen(q) == [n \in 1 .. Len(q) |-> q[n].seen]
<1>1. /\ opps \in Seq(CycleOpp) /\ FoldFunction(+, 0, seen(opps)) = Cardinality(s \ {m})
      /\ \A n \in 1 .. L : n > 1 => opps[n].at - opps[n - 1].lastAt > CycleWindow
  BY DEF CycleKept
<1>2. L \in Nat /\ (\A n \in 1 .. L : opps[n] \in CycleOpp)
  <2>1. opps \in Seq(CycleOpp)
    BY <1>1
  <2> QED BY <2>1
<1>3. /\ new \in Seq(CycleOpp)
      /\ \/ /\ Len(new) = L + 1
            /\ \A n \in 1 .. L : new[n] = opps[n]
            /\ new[L + 1] = Cycle!Opened(row)
            /\ L > 0 => row.at - opps[L].lastAt > CycleWindow
         \/ /\ L > 0 /\ Len(new) = L
            /\ \A n \in 1 .. L : n # L => new[n] = opps[n]
            /\ SameStart(new[L], opps[L]) /\ new[L].seen = opps[L].seen + 1
  BY <1>1, CycleAdded
<1>4. Cardinality(s) = Cardinality(s \ {m}) + 1 /\ Cardinality(s \ {m}) \in Nat
  <2>1. IsFiniteSet(s \ {m}) /\ Cardinality(s \ {m}) = Cardinality(s) - 1
    BY FS_RemoveElement
  <2>2. Cardinality(s) \in Nat /\ Cardinality(s \ {m}) \in Nat
    BY <2>1, FS_CardinalityType
  <2> QED BY <2>1, <2>2
<1> HIDE DEF new
<1>5. Len(new) \in Nat /\ \A n \in 1 .. Len(new) : new[n] \in CycleOpp
  BY <1>3
<1>6. \A o \in CycleOpp : o.seen \in Nat /\ o.at \in Nat /\ o.lastAt \in Nat
  BY DEF CycleOpp
<1>7. seen(opps) \in [1 .. L -> Nat] /\ seen(new) \in [1 .. Len(new) -> Nat]
  BY <1>2, <1>5, <1>6
<1>8. IsFiniteSet(1 .. L) /\ IsFiniteSet(1 .. Len(new))
  BY <1>2, <1>5, FS_Interval
<1> SUFFICES /\ \A n \in 1 .. Len(new) : n > 1 => new[n].at - new[n - 1].lastAt > CycleWindow
             /\ FoldFunction(+, 0, seen(new)) = Cardinality(s \ {m}) + 1
  BY <1>3, <1>4 DEF CycleKept, new
<1> HIDE DEF L
<1>9. CASE /\ Len(new) = L + 1
           /\ \A n \in 1 .. L : new[n] = opps[n]
           /\ new[L + 1] = Cycle!Opened(row)
           /\ L > 0 => row.at - opps[L].lastAt > CycleWindow
  <2>1. new[L + 1].at = row.at /\ new[L + 1].seen = 1
    BY <1>9 DEF Cycle!Opened
  <2>2. ASSUME NEW n \in 1 .. Len(new), n > 1 PROVE new[n].at - new[n - 1].lastAt > CycleWindow
    <3>1. n - 1 \in 1 .. L /\ (n \in 1 .. L \/ n = L + 1)
      BY <1>2, <1>9, <2>2
    <3>2. CASE n \in 1 .. L
      BY <1>1, <1>9, <2>2, <3>1, <3>2
    <3>3. CASE n = L + 1
      <4>1. n - 1 = L /\ L > 0
        BY <1>2, <2>2, <3>3
      <4> QED BY <1>9, <2>1, <3>1, <3>3, <4>1
    <3> QED BY <3>1, <3>2, <3>3
  <2>3. Extends(seen(new), seen(opps), L + 1)
    <3>1. L + 1 \notin 1 .. L /\ 1 .. (L + 1) = (1 .. L) \cup {L + 1}
      BY <1>2
    <3>2. \A n \in 1 .. L : seen(new)[n] = seen(opps)[n]
      <4>1. \A n \in 1 .. L : n \in 1 .. Len(new)
        BY <1>2, <1>9
      <4> QED BY <1>9, <4>1 DEF L
    <3>3. DOMAIN seen(opps) = 1 .. L /\ DOMAIN seen(new) = 1 .. (L + 1)
      BY <1>9 DEF L
    <3> HIDE DEF seen
    <3> QED BY <1>7, <1>8, <1>9, <3>1, <3>2, <3>3 DEF Extends
  <2>4. seen(new)[L + 1] = 1
    <3>1. L + 1 \in 1 .. Len(new)
      BY <1>2, <1>9
    <3> QED BY <2>1, <3>1
  <2>5. FoldFunction(+, 0, seen(new)) = FoldFunction(+, 0, seen(opps)) + seen(new)[L + 1]
    <3> HIDE DEF seen
    <3> QED BY <2>3, SumGrows
  <2> HIDE DEF seen
  <2> QED BY <1>1, <2>2, <2>4, <2>5
<1>10. CASE /\ L > 0 /\ Len(new) = L
            /\ \A n \in 1 .. L : n # L => new[n] = opps[n]
            /\ SameStart(new[L], opps[L]) /\ new[L].seen = opps[L].seen + 1
  <2>1. new[L].at = opps[L].at /\ L \in 1 .. L
    BY <1>2, <1>10 DEF SameStart
  <2>2. ASSUME NEW n \in 1 .. Len(new), n > 1 PROVE new[n].at - new[n - 1].lastAt > CycleWindow
    <3>1. n - 1 \in 1 .. L /\ n - 1 # L /\ n \in 1 .. L
      BY <1>2, <1>10, <2>2
    <3>2. new[n - 1] = opps[n - 1] /\ new[n].at = opps[n].at
      BY <1>10, <2>1, <3>1
    <3> QED BY <1>1, <2>2, <3>1, <3>2
  <2>3. /\ \A n \in 1 .. L : n # L => seen(opps)[n] = seen(new)[n]
        /\ seen(new)[L] = seen(opps)[L] + 1
    BY <1>10, <2>1 DEF L
  <2>4. /\ FoldFunction(+, 0, seen(opps)) \in Nat /\ FoldFunction(+, 0, seen(new)) \in Nat
        /\ FoldFunction(+, 0, seen(opps)) + seen(new)[L]
              = FoldFunction(+, 0, seen(new)) + seen(opps)[L]
    <3>1. seen(opps) \in [1 .. L -> Nat] /\ seen(new) \in [1 .. L -> Nat]
      BY <1>7, <1>10
    <3> DEFINE f == seen(opps)
               g == seen(new)
               D == 1 .. L
    <3>2. f \in [D -> Nat] /\ g \in [D -> Nat] /\ IsFiniteSet(D) /\ L \in D
      BY <1>8, <2>1, <3>1
    <3>3. \A n \in D : n # L => f[n] = g[n]
      BY <2>3
    <3> HIDE DEF f, g, D
    <3>4. /\ FoldFunction(+, 0, f) \in Nat /\ FoldFunction(+, 0, g) \in Nat
          /\ FoldFunction(+, 0, f) + g[L] = FoldFunction(+, 0, g) + f[L]
      BY <3>2, <3>3, SumChanges
    <3> QED BY <3>4 DEF f, g
  <2>5. seen(opps)[L] \in Nat
    BY <1>7, <2>1
  <2>6. FoldFunction(+, 0, seen(new)) = FoldFunction(+, 0, seen(opps)) + 1
    <3> DEFINE a == FoldFunction(+, 0, seen(opps))
               b == FoldFunction(+, 0, seen(new))
               c == seen(opps)[L]
               d == seen(new)[L]
    <3>1. a \in Nat /\ b \in Nat /\ a + d = b + c /\ c \in Nat /\ d = c + 1
      BY <2>3, <2>4, <2>5
    <3> HIDE DEF a, b, c, d
    <3>2. b = a + 1
      BY <3>1
    <3> QED BY <3>2 DEF a, b
  <2> HIDE DEF seen
  <2> QED BY <1>1, <2>2, <2>6
<1> QED BY <1>3, <1>9, <1>10

LEMMA CycleFoldKept ==
    ASSUME NEW N \in Nat, NEW rows, \A i \in 1 .. N : rows[i] \in Cycle!CycleRow,
           CycleWindow \in Int, NEW F, CycleFolds(F, rows, N)
    PROVE  \A s \in SUBSET (1 .. N) : CycleKept(F[s], s)
<1> DEFINE D == 1 .. N
           h == [s \in SUBSET D |-> Cycle!Max(s)]
           P == {s \in SUBSET D : CycleKept(F[s], s)}
<1>1. IsFiniteSet(D)
  BY FS_Interval
<1>2. \A s \in SUBSET D : s # {} => h[s] \in s /\ \A i \in s : i <= h[s]
  <2> SUFFICES ASSUME NEW s \in SUBSET D, s # {} PROVE h[s] \in s /\ \A i \in s : i <= h[s]
    OBVIOUS
  <2>1. PICK m \in s : \A i \in s : i <= m
    BY LatestPlace
  <2>2. h[s] = m
    BY <2>1, CycleMax
  <2> QED BY <2>1, <2>2
<1>3. {} \in P
  <2>1. F[{}] = <<>> /\ Len(<<>>) = 0 /\ <<>> \in Seq(CycleOpp)
    BY DEF CycleFolds
  <2>2. 1 .. 0 = {} /\ IsFiniteSet({}) /\ Cardinality({}) = 0
    BY FS_EmptySet
  <2>3. [n \in 1 .. 0 |-> <<>>[n].seen] = [n \in {} |-> 0]
    BY <2>2
  <2>4. FoldFunction(+, 0, [n \in {} |-> 0]) = 0
    BY <2>2, SumIsZero
  <2> QED BY <2>1, <2>2, <2>3, <2>4 DEF CycleKept
<1>4. ASSUME NEW s \in SUBSET D, s # {}, s \ {h[s]} \in P PROVE s \in P
  <2>1. h[s] \in s /\ \A i \in s : i <= h[s]
    BY <1>2, <1>4
  <2> HIDE DEF h
  <2>2. F[s] = Cycle!Added(F[s \ {h[s]}], rows[h[s]]) /\ rows[h[s]] \in Cycle!CycleRow
    BY <2>1 DEF CycleFolds
  <2>3. IsFiniteSet(s)
    BY <1>1, FS_Subset
  <2>4. CycleKept(F[s], s)
    BY <1>4, <2>1, <2>2, <2>3, CycleKeeps
  <2> QED BY <2>4
<1>5. Picks(h, D) /\ Grows(P, h, D)
  <2> HIDE DEF h, P
  <2> QED BY <1>2, <1>3, <1>4 DEF Picks, Grows
<1>6. \A s \in SUBSET D : s \in P
  <2> HIDE DEF h, P, D
  <2> QED BY <1>1, <1>5, SubsetInduction
<1> QED BY <1>6

\* What the limits of a shock and of an answer are taken to be.
LEMMA CycleConstants ==
    ASSUME Cycle!CycleAssumption
    PROVE  /\ \A h \in {5, 15} : /\ CycleFloor[h] \in Nat /\ CycleDefault[h] \in Nat
                                 /\ CycleDefault[h] > 0 /\ CycleFloor[h] <= CycleDefault[h]
                                 /\ CycleDefault[Cycle!Min({5, 15})] <= CycleDefault[h]
           /\ Cycle!Min({5, 15}) \in {5, 15}
           /\ CycleTolerance \in Nat /\ CycleWindow \in Int /\ MoveDetect \in Nat /\ MoveDetect > 0
           /\ CycleKinds \subseteq Cycle!CycleRow /\ CycleGap \subseteq Nat \ {0}
<1> HIDE DEF CycleFloor, CycleDefault, CycleKinds
<1>1. \E x \in {5, 15} : \A y \in {5, 15} : x <= y
  <2>1. 5 <= 5 /\ 5 <= 15
    OBVIOUS
  <2> QED BY <2>1
<1>2. Cycle!Min({5, 15}) \in {5, 15}
  BY <1>1 DEF Cycle!Min
<1>3. /\ CycleFloor \in [{5, 15} -> Nat \ {0}] /\ CycleDefault \in [{5, 15} -> Nat \ {0}]
      /\ \A h \in {5, 15} : /\ CycleFloor[h] <= CycleDefault[h]
                            /\ CycleDefault[Cycle!Min({5, 15})] <= CycleDefault[h]
  BY DEF Cycle!CycleAssumption
<1>4. \A h \in {5, 15} : CycleFloor[h] \in Nat /\ CycleDefault[h] \in Nat /\ CycleDefault[h] > 0
  BY <1>3
<1>5. /\ CycleTolerance \in Nat /\ CycleWindow \in Int /\ MoveDetect \in Nat /\ MoveDetect > 0
      /\ CycleKinds \subseteq Cycle!CycleRow /\ CycleGap \subseteq Nat \ {0}
  BY DEF Cycle!CycleAssumption
<1> QED BY <1>2, <1>3, <1>4, <1>5

LEMMA CycleExtent ==
    ASSUME NEW x \in Int
    PROVE  Cycle!Extent(x) \in Nat /\ (x = 0 => Cycle!Extent(x) = 0)
BY DEF Cycle!Extent, Cycle!Distance

\* The largest of the returns that reach their floor.
LEMMA CycleBest ==
    ASSUME NEW row \in Cycle!CycleRow
    PROVE  /\ Cycle!Reached(row) = {} => Cycle!Best(row) = 0
           /\ Cycle!Reached(row) # {} =>
                 \E g \in Cycle!Reached(row) :
                    /\ Cycle!Best(row) = row.returns[g]
                    /\ \A h \in Cycle!Reached(row) :
                          Cycle!Extent(row.returns[g]) >= Cycle!Extent(row.returns[h])
<1> DEFINE R == Cycle!Reached(row)
           e(h) == Cycle!Extent(row.returns[h])
           larger(h, g) == LET a == Cycle!Extent(row.returns[h])
                               b == Cycle!Extent(row.returns[g])
                           IN  a > b \/ (a = b /\ h <= g)
           largest == CHOOSE h \in R : \A g \in R : larger(h, g)
<1>1. R \subseteq {5, 15} /\ e(5) \in Nat /\ e(15) \in Nat
  <2>1. row.returns \in [{5, 15} -> Int]
    BY CycleRows
  <2>2. row.returns[5] \in Int /\ row.returns[15] \in Int
    BY <2>1
  <2> QED BY <2>2, CycleExtent DEF Cycle!Reached
<1>2. Cycle!Best(row) = IF R = {} THEN 0 ELSE row.returns[largest]
  BY DEF Cycle!Best
<1>3. ASSUME R # {} PROVE \E h \in R : \A g \in R : larger(h, g)
  <2> HIDE DEF R
  <2>1. CASE R = {5}
    <3>1. larger(5, 5)
      BY <1>1
    <3> HIDE DEF larger
    <3> QED BY <2>1, <3>1
  <2>2. CASE R = {15}
    <3>1. larger(15, 15)
      BY <1>1
    <3> HIDE DEF larger
    <3> QED BY <2>2, <3>1
  <2>3. CASE R = {5, 15}
    <3>1. larger(5, 5) /\ larger(15, 15) /\ (larger(5, 15) \/ larger(15, 5))
      BY <1>1
    <3> HIDE DEF larger
    <3> QED BY <2>3, <3>1
  <2> QED BY <1>1, <1>3, <2>1, <2>2, <2>3
<1>4. ASSUME R # {}
      PROVE  largest \in R /\ \A h \in R : e(largest) >= e(h)
  <2>1. largest \in R /\ \A g \in R : larger(largest, g)
    <3> HIDE DEF R, larger
    <3> QED BY <1>3, <1>4
  <2>2. \A h \in R : e(h) \in Nat
    <3>1. \A h \in R : h = 5 \/ h = 15
      BY <1>1
    <3> HIDE DEF R, e
    <3> QED BY <1>1, <3>1
  <2> HIDE DEF R, largest
  <2> QED BY <2>1, <2>2
<1> HIDE DEF largest
<1> QED BY <1>2, <1>4

LEMMA CycleSomething ==
    ASSUME NEW row \in Cycle!CycleRow, Cycle!CycleAssumption, Cycle!Counts(row)
    PROVE  Cycle!Reached(row) # {} \/ row.normed # {}
<1> SUFFICES ASSUME Cycle!Reached(row) = {}, row.normed = {} PROVE FALSE
  OBVIOUS
<1>1. Cycle!Best(row) = 0
  BY CycleBest
<1>2. Cycle!Extent(Cycle!Best(row)) = 0
  BY <1>1, CycleExtent
<1>3. Cycle!Extent(Cycle!Best(row)) >= CycleDefault[Cycle!Min({5, 15})]
  BY DEF Cycle!Counts
<1>4. \A h \in {5, 15} : CycleDefault[h] \in Nat /\ CycleDefault[h] > 0
  BY CycleConstants
<1>5. Cycle!Min({5, 15}) \in {5, 15}
  BY CycleConstants
<1> HIDE DEF CycleDefault
<1>6. CycleDefault[Cycle!Min({5, 15})] > 0 /\ CycleDefault[Cycle!Min({5, 15})] \in Nat
  BY <1>4, <1>5
<1> QED BY <1>2, <1>3, <1>6

LEMMA CycleNoneHidden ==
    ASSUME s1 \in Seq(Cycle!CycleRow), Cycle!CycleAssumption
    PROVE  Cycle!NoShockHidden
<1> HIDE DEF CycleFloor, CycleDefault
<1> SUFFICES ASSUME NEW i \in DOMAIN s1, NEW h \in {5, 15},
                    Cycle!Extent(s1[i].returns[h]) >= CycleDefault[h]
             PROVE  /\ Cycle!IsShock(s1[i], Cycle!FlowThreshold(s1)) /\ Cycle!Counts(s1[i])
                    /\ \E g \in {5, 15} :
                          /\ Cycle!Extent(s1[i].returns[g]) >= Cycle!Extent(s1[i].returns[h])
                          /\ Cycle!Direction(s1[i]) = Cycle!SideOf(s1[i].returns[g])
  BY DEF Cycle!NoShockHidden
<1> DEFINE row == s1[i]
           e(g) == Cycle!Extent(row.returns[g])
<1>1. row \in Cycle!CycleRow
  OBVIOUS
<1> HIDE DEF row
<1>2. \A g \in {5, 15} : e(g) \in Nat
  <2>1. row.returns \in [{5, 15} -> Int]
    BY <1>1, CycleRows
  <2>2. row.returns[5] \in Int /\ row.returns[15] \in Int
    BY <2>1
  <2> QED BY <2>2, CycleExtent
<1>3. /\ CycleFloor[h] \in Nat /\ CycleDefault[h] \in Nat /\ CycleFloor[h] <= CycleDefault[h]
      /\ CycleDefault[Cycle!Min({5, 15})] <= CycleDefault[h]
      /\ \A g \in {5, 15} : CycleDefault[g] \in Nat
      /\ Cycle!Min({5, 15}) \in {5, 15}
  BY CycleConstants
<1>4. e(h) >= CycleDefault[h]
  BY DEF row
<1>5. h \in Cycle!Reached(row)
  <2>1. e(h) >= CycleFloor[h]
    BY <1>2, <1>3, <1>4
  <2> QED BY <2>1 DEF Cycle!Reached
<1>6. PICK g \in Cycle!Reached(row) : Cycle!Best(row) = row.returns[g] /\ e(g) >= e(h)
  BY <1>1, <1>5, CycleBest
<1>7. g \in {5, 15}
  BY DEF Cycle!Reached
<1>8. Cycle!Extent(Cycle!Best(row)) >= CycleDefault[Cycle!Min({5, 15})]
  <2>1. CycleDefault[Cycle!Min({5, 15})] \in Nat
    BY <1>3
  <2>2. Cycle!Extent(Cycle!Best(row)) = e(g)
    BY <1>6
  <2>3. e(g) \in Nat /\ e(h) \in Nat
    BY <1>2, <1>7
  <2> HIDE DEF e
  <2> QED BY <1>3, <1>4, <1>6, <2>1, <2>2, <2>3
<1>9. Cycle!Direction(row) = Cycle!SideOf(row.returns[g])
  BY <1>5, <1>6 DEF Cycle!Direction
<1> QED BY <1>5, <1>6, <1>7, <1>8, <1>9 DEF row, Cycle!IsShock, Cycle!Counts

LEMMA CycleRowsRecorded ==
    ASSUME s1 \in Seq(Cycle!CycleRow)
    PROVE  /\ Len(s1) \in Nat /\ DOMAIN s1 = 1 .. Len(s1)
           /\ \A i \in 1 .. Len(s1) : s1[i] \in Cycle!CycleRow
           /\ \A i \in 1 .. Len(s1) : s1[i].at \in Nat
<1>1. \A r \in Cycle!CycleRow : r.at \in Nat
  BY DEF Cycle!CycleRow
<1>2. /\ Len(s1) \in Nat /\ DOMAIN s1 = 1 .. Len(s1)
      /\ \A i \in 1 .. Len(s1) : s1[i] \in Cycle!CycleRow
  OBVIOUS
<1> QED BY <1>1, <1>2

LEMMA CycleDistance ==
    ASSUME NEW a \in Int, NEW b \in Int
    PROVE  Cycle!Distance(a, b) \in Nat /\ (a = b => Cycle!Distance(a, b) = 0)
BY DEF Cycle!Distance

\* What answers a shock (_TickerSeries.nearest).
LEMMA CycleNearest ==
    ASSUME s1 \in Seq(Cycle!CycleRow), NEW at \in Nat, Cycle!Nearest(at) # 0
    PROVE  LET j == Cycle!Nearest(at)
               d(k) == Cycle!Distance(s1[k].at, at)
           IN  /\ j \in DOMAIN s1 /\ d(j) <= CycleTolerance
               /\ \A k \in DOMAIN s1 : d(k) <= CycleTolerance
                                          => d(j) < d(k) \/ (d(j) = d(k) /\ j <= k)
<1> DEFINE n == Len(s1)
           near == {i \in DOMAIN s1 : Cycle!Distance(s1[i].at, at) <= CycleTolerance}
           d == [i \in 1 .. n |-> Cycle!Distance(s1[i].at, at)]
           closer(i, j) == LET a == Cycle!Distance(s1[i].at, at)
                               b == Cycle!Distance(s1[j].at, at)
                           IN  a < b \/ (a = b /\ i <= j)
           best == CHOOSE i \in near : \A j \in near : closer(i, j)
<1>1. n \in Nat /\ DOMAIN s1 = 1 .. n /\ \A i \in 1 .. n : s1[i].at \in Nat
  BY CycleRowsRecorded
<1>2. \A i \in 1 .. n : d[i] \in Nat
  <2> SUFFICES ASSUME NEW i \in 1 .. n PROVE d[i] \in Nat
    OBVIOUS
  <2>1. s1[i].at \in Int /\ at \in Int
    BY <1>1
  <2> HIDE DEF n
  <2> QED BY <2>1, CycleDistance
<1>3. Cycle!Nearest(at) = IF near = {} THEN 0 ELSE best
  BY <1>1 DEF Cycle!Nearest
<1>4. near # {} /\ near \in SUBSET (1 .. n)
  BY <1>1, <1>3
<1>5. \E i \in near : \A j \in near : closer(i, j)
  <2>1. \E i \in near : \A j \in near : d[i] < d[j] \/ (d[i] = d[j] /\ i <= j)
    <3> HIDE DEF near, d, n
    <3> QED BY <1>1, <1>2, <1>4, NearestExists
  <2>2. \A i \in near : d[i] = Cycle!Distance(s1[i].at, at)
    BY <1>4
  <2> HIDE DEF near, d
  <2> QED BY <2>1, <2>2
<1>6. best \in near /\ \A j \in near : closer(best, j)
  <2> HIDE DEF near, closer
  <2> QED BY <1>5
<1>7. Cycle!Nearest(at) = best
  BY <1>3, <1>4
<1> HIDE DEF best
<1> QED BY <1>1, <1>6, <1>7

\* Of two times the later one is not nearer to an earlier time.
LEMMA CycleNearerLater ==
    ASSUME NEW t \in Int, NEW u \in Int, t <= u, NEW x \in Int, NEW y \in Int, y < x,
           Cycle!Distance(y, u) <= Cycle!Distance(x, u)
    PROVE  Cycle!Distance(y, t) <= Cycle!Distance(x, t)
BY DEF Cycle!Distance

\* An earlier row is no answer: the row itself is nearer.
LEMMA CycleEarlier ==
    ASSUME NEW x \in Int, NEW y \in Int, NEW t \in Int, x < y, y <= t
    PROVE  Cycle!Distance(y, t) < Cycle!Distance(x, t)
BY DEF Cycle!Distance

LEMMA CycleMovesFollow ==
    ASSUME s1 \in Seq(Cycle!CycleRow), Cycle!InOrder, Cycle!CycleAssumption
    PROVE  Cycle!MovesFollow
<1> DEFINE Hs == {2, 4, 10, 20}
           A(i, h) == Cycle!Nearest(s1[i].at + h)
           d(k, w) == Cycle!Distance(s1[k].at, w)
<1>1. /\ DOMAIN s1 = 1 .. Len(s1) /\ Len(s1) \in Nat /\ \A i \in DOMAIN s1 : s1[i].at \in Nat
      /\ \A i \in DOMAIN s1 : s1[i] \in Cycle!CycleRow
  BY CycleRowsRecorded
<1>2. \A i, j \in DOMAIN s1 : i < j => s1[i].at < s1[j].at
  BY DEF Cycle!InOrder
<1>3. ASSUME NEW i \in DOMAIN s1, NEW h \in Hs, A(i, h) # 0
      PROVE  LET j == A(i, h)
                 w == s1[i].at + h
             IN  /\ j \in DOMAIN s1 /\ d(j, w) <= CycleTolerance
                 /\ \A k \in DOMAIN s1 : d(k, w) <= CycleTolerance
                                            => d(j, w) < d(k, w) \/ (d(j, w) = d(k, w) /\ j <= k)
  <2>1. s1[i].at + h \in Nat
    <3>1. s1[i].at \in Nat
      BY <1>1
    <3> QED BY <3>1
  <2> QED BY <1>3, <2>1, CycleNearest
<1>4. CycleTolerance \in Nat /\ MoveDetect \in Nat /\ MoveDetect > 0
  BY CycleConstants
\* An answer is never before the row itself.
<1>5. ASSUME NEW i \in DOMAIN s1, NEW h \in Hs, A(i, h) # 0
      PROVE  A(i, h) \in DOMAIN s1 /\ i <= A(i, h)
  <2> DEFINE j == A(i, h)
             w == s1[i].at + h
  <2>1. /\ j \in DOMAIN s1 /\ d(j, w) <= CycleTolerance
        /\ d(i, w) <= CycleTolerance => d(j, w) < d(i, w) \/ (d(j, w) = d(i, w) /\ j <= i)
    BY <1>3, <1>5
  <2> HIDE DEF j
  <2> SUFFICES ASSUME ~(i <= j) PROVE FALSE
    BY <2>1 DEF j
  <2>2. /\ i \in Nat /\ j \in Nat /\ s1[i].at \in Int /\ s1[j].at \in Int /\ w \in Int
        /\ s1[i].at <= w
    <3>1. s1[i].at \in Nat /\ s1[j].at \in Nat /\ h \in Nat /\ i \in Nat /\ j \in Nat
      BY <1>1, <2>1
    <3> QED BY <3>1
  <2>3. s1[j].at < s1[i].at
    BY <1>2, <2>1, <2>2
  <2>4. d(i, w) < d(j, w)
    <3> HIDE DEF w
    <3> QED BY <2>2, <2>3, CycleEarlier
  <2>5. d(i, w) \in Nat /\ d(j, w) \in Nat
    BY <2>2, CycleDistance
  <2> HIDE DEF d, w
  <2> QED BY <1>4, <2>1, <2>4, <2>5
<1>6. ASSUME NEW i \in DOMAIN s1, NEW g \in Hs, NEW h \in Hs, g <= h,
             A(i, g) # 0, A(i, h) # 0
      PROVE  A(i, g) <= A(i, h)
  <2> DEFINE x == A(i, g)
             y == A(i, h)
             t == s1[i].at + g
             u == s1[i].at + h
  <2>1. /\ x \in DOMAIN s1 /\ d(x, t) <= CycleTolerance
        /\ \A k \in DOMAIN s1 : d(k, t) <= CycleTolerance
                                  => d(x, t) < d(k, t) \/ (d(x, t) = d(k, t) /\ x <= k)
    BY <1>3, <1>6
  <2>2. /\ y \in DOMAIN s1 /\ d(y, u) <= CycleTolerance
        /\ \A k \in DOMAIN s1 : d(k, u) <= CycleTolerance
                                  => d(y, u) < d(k, u) \/ (d(y, u) = d(k, u) /\ y <= k)
    BY <1>3, <1>6
  <2> HIDE DEF x, y
  <2> SUFFICES ASSUME ~(x <= y) PROVE FALSE
    BY DEF x, y
  <2>3. /\ x \in Nat /\ y \in Nat /\ s1[x].at \in Int /\ s1[y].at \in Int /\ t \in Int /\ u \in Int
        /\ t <= u
    <3>1. s1[i].at \in Nat /\ s1[x].at \in Nat /\ s1[y].at \in Nat /\ x \in Nat /\ y \in Nat
      BY <1>1, <2>1, <2>2
    <3>2. g \in Nat /\ h \in Nat
      OBVIOUS
    <3> QED BY <1>6, <3>1, <3>2
  <2>4. s1[y].at < s1[x].at
    BY <1>2, <2>1, <2>2, <2>3
  <2>5. {d(x, t), d(y, t), d(x, u), d(y, u)} \subseteq Nat
    BY <2>3, CycleDistance
  <2>6. d(x, t) < d(y, t)
    <3> HIDE DEF t, u, d
    <3> QED BY <1>4, <2>1, <2>2, <2>3, <2>5
  <2>7. d(y, u) <= d(x, u)
    <3> HIDE DEF t, u, d
    <3> QED BY <1>4, <2>1, <2>2, <2>5
  <2>8. d(y, t) <= d(x, t)
    <3> HIDE DEF t, u
    <3> QED BY <2>3, <2>4, <2>7, CycleNearerLater
  <2> HIDE DEF t, u, d
  <2> QED BY <2>5, <2>6, <2>8
<1> DEFINE answers(i) == Cycle!Answers(i)
<1>7. ASSUME NEW i \in DOMAIN s1
      PROVE  /\ DOMAIN answers(i) = {h \in Hs : A(i, h) # 0}
             /\ \A h \in DOMAIN answers(i) : answers(i)[h] = A(i, h)
  BY DEF Cycle!Answers
<1> HIDE DEF answers, A, d, Hs
<1>8. ASSUME NEW i \in DOMAIN s1, NEW g \in DOMAIN answers(i), NEW h \in DOMAIN answers(i), g <= h
      PROVE  answers(i)[g] <= answers(i)[h]
  <2>1. /\ g \in Hs /\ A(i, g) # 0 /\ answers(i)[g] = A(i, g)
        /\ h \in Hs /\ A(i, h) # 0 /\ answers(i)[h] = A(i, h)
    BY <1>7
  <2> QED BY <1>6, <1>8, <2>1
<1>9. ASSUME NEW i \in DOMAIN s1, Cycle!TimeToMove(i) # Cycle!None
      PROVE  Cycle!TimeToMove(i) > 0
  <2> DEFINE moved == {h \in DOMAIN answers(i) :
                         Cycle!Distance(Cycle!Implied(s1[answers(i)[h]]), Cycle!Implied(s1[i]))
                            >= MoveDetect}
             h == Cycle!Min(moved)
             j == answers(i)[h]
  <2>1. Cycle!TimeToMove(i) = IF moved = {} THEN Cycle!None ELSE s1[j].at - s1[i].at
    BY DEF Cycle!TimeToMove, answers
  <2>2. moved # {} /\ Cycle!TimeToMove(i) = s1[j].at - s1[i].at
    BY <1>9, <2>1
  <2>3. moved \in SUBSET Nat
    <3>1. \A g \in Hs : g \in Nat
      BY DEF Hs
    <3>2. \A g \in DOMAIN answers(i) : g \in Nat
      BY <1>7, <3>1
    <3> QED BY <3>2
  <2>4. h \in moved
    <3> HIDE DEF moved
    <3>1. \E x \in moved : \A y \in moved : x <= y
      BY <2>2, <2>3, LeastNatural
    <3> QED BY <3>1 DEF Cycle!Min
  <2> HIDE DEF h
  <2>5. /\ h \in DOMAIN answers(i)
        /\ Cycle!Distance(Cycle!Implied(s1[j]), Cycle!Implied(s1[i])) >= MoveDetect
    BY <2>4
  <2> HIDE DEF moved
  <2>6. j \in DOMAIN s1 /\ i <= j
    <3>1. h \in Hs /\ A(i, h) # 0 /\ j = A(i, h)
      BY <1>7, <2>5
    <3> QED BY <1>5, <3>1
  <2> HIDE DEF j
  <2>7. Cycle!Implied(s1[i]) \in Int
    <3> DEFINE row == s1[i]
    <3>1. row \in Cycle!CycleRow
      BY <1>1
    <3> HIDE DEF row
    <3>2. row.ask \in [Sides -> 1 .. 100]
      BY <3>1, CycleRows
    <3>3. row.ask["YES"] \in 1 .. 100 /\ row.ask["NO"] \in 1 .. 100
      BY <3>2 DEF Sides
    <3>4. \A a, b \in 1 .. 100 : (100 * a) \div (a + b) \in Int
      OBVIOUS
    <3> QED BY <3>3, <3>4 DEF row, Cycle!Implied
  <2>8. j # i
    <3> SUFFICES ASSUME j = i PROVE FALSE
      OBVIOUS
    <3>1. Cycle!Distance(Cycle!Implied(s1[i]), Cycle!Implied(s1[i])) = 0
      BY <2>7, CycleDistance
    <3> QED BY <1>4, <2>5, <3>1
  <2>9. i \in Nat /\ j \in Nat /\ s1[i].at \in Nat /\ s1[j].at \in Nat
    BY <1>1, <2>6
  <2>10. s1[i].at < s1[j].at
    BY <1>2, <2>6, <2>8, <2>9
  <2> QED BY <2>2, <2>9, <2>10
<1> USE DEF answers
<1> QED BY <1>8, <1>9 DEF Cycle!MovesFollow

\* What is said below of the first k of the recorded rows.  What counts is a shock
\* whatever the day's flows are.
CycleEvent(row, side) ==
    Cycle!Counts(row) /\ Cycle!Direction(row) = side /\ Cycle!Qualifies(row)
CycleEvents(k, side) == {i \in 1 .. k : CycleEvent(s1[i], side)}

LEMMA CycleQualified ==
    ASSUME s1 \in Seq(Cycle!CycleRow), Cycle!CycleAssumption, NEW k \in DOMAIN s1, NEW side
    PROVE  /\ Cycle!Qualified(SubSeq(s1, 1, k), side) = CycleEvents(k, side)
           /\ \A i \in 1 .. k : SubSeq(s1, 1, k)[i] = s1[i]
           /\ CycleEvents(k, side) \in SUBSET (1 .. Len(s1)) /\ k \in 1 .. Len(s1)
           /\ Len(s1) \in Nat
<1> DEFINE N == Len(s1)
           r == SubSeq(s1, 1, k)
<1>1. N \in Nat /\ k \in 1 .. N /\ \A i \in 1 .. N : s1[i] \in Cycle!CycleRow
  BY CycleRowsRecorded
<1>2. DOMAIN r = 1 .. k /\ \A i \in 1 .. k : r[i] = s1[i]
  <2>1. r \in Seq(Cycle!CycleRow) /\ Len(r) = k /\ \A i \in 1 .. k : r[i] = s1[1 + i - 1]
    <3>1. 1 \in Int /\ k \in Int /\ 1 <= k /\ k - 1 + 1 = k
      BY <1>1
    <3>2. \A i \in 1 .. k : s1[i] \in Cycle!CycleRow
      BY <1>1
    <3> HIDE DEF r
    <3> QED BY <3>1, <3>2, SubSeqProperties DEF r
  <2>2. \A i \in 1 .. k : 1 + i - 1 = i
    BY <1>1
  <2> HIDE DEF r
  <2> QED BY <2>1, <2>2
<1>3. ASSUME NEW i \in 1 .. k, Cycle!Counts(s1[i])
      PROVE  Cycle!IsShock(s1[i], Cycle!FlowThreshold(r))
  <2>1. s1[i] \in Cycle!CycleRow
    BY <1>1
  <2>2. Cycle!Reached(s1[i]) # {} \/ s1[i].normed # {}
    BY <1>3, <2>1, CycleSomething
  <2> QED BY <2>2 DEF Cycle!IsShock
<1>4. Cycle!Qualified(r, side) = CycleEvents(k, side)
  <2> HIDE DEF r
  <2> QED BY <1>2, <1>3 DEF Cycle!Qualified, CycleEvents, CycleEvent
<1>5. \A i \in 1 .. k : i \in 1 .. N
  BY <1>1
<1> QED BY <1>1, <1>2, <1>4, <1>5 DEF CycleEvents

\* The opportunities among the first rows.
CycleParts(k, F) ==
    LET a == F[CycleEvents(k, "YES")]
        b == F[CycleEvents(k, "NO")]
        opps == Cycle!Opportunities(SubSeq(s1, 1, k))
    IN  /\ a \in Seq(CycleOpp) /\ b \in Seq(CycleOpp)
        /\ DOMAIN opps = 1 .. (Len(a) + Len(b))
        /\ \A n \in DOMAIN a : n \in DOMAIN opps /\ opps[n] = a[n]
        /\ \A n \in DOMAIN b : Len(a) + n \in DOMAIN opps /\ opps[Len(a) + n] = b[n]
        /\ \A n \in DOMAIN opps : n \in DOMAIN a \/ n - Len(a) \in DOMAIN b
LEMMA CycleOpportunities ==
    ASSUME s1 \in Seq(Cycle!CycleRow), Cycle!CycleAssumption, NEW k \in DOMAIN s1,
           NEW F, CycleFolds(F, s1, Len(s1))
    PROVE  CycleParts(k, F)
<1> DEFINE N == Len(s1)
           r == SubSeq(s1, 1, k)
           a == F[CycleEvents(k, "YES")]
           b == F[CycleEvents(k, "NO")]
<1>1. ASSUME NEW side
      PROVE  /\ Cycle!Qualified(r, side) = CycleEvents(k, side)
             /\ CycleEvents(k, side) \in SUBSET (1 .. N)
             /\ \A i \in CycleEvents(k, side) : r[i] = s1[i]
             /\ N \in Nat
  BY CycleQualified DEF CycleEvents
<1>2. ASSUME NEW side
      PROVE  /\ Cycle!Dedup(r, Cycle!Qualified(r, side)) = F[CycleEvents(k, side)]
             /\ F[CycleEvents(k, side)] \in Seq(CycleOpp)
  <2> DEFINE S == CycleEvents(k, side)
  <2>1. S \in SUBSET (1 .. N) /\ (\A i \in S : r[i] = s1[i]) /\ N \in Nat
    BY <1>1
  <2> HIDE DEF S, r, N
  <2>2. Cycle!Dedup(r, S) = F[S]
    BY <2>1, CycleDedup DEF N
  <2>3. F[S] \in Seq(CycleOpp)
    BY <2>1 DEF CycleFolds, N
  <2> QED BY <1>1, <2>2, <2>3 DEF S
<1>3. a \in Seq(CycleOpp) /\ b \in Seq(CycleOpp) /\ Cycle!Opportunities(r) = a \o b
  <2> HIDE DEF r
  <2>1. a \in Seq(CycleOpp) /\ Cycle!Dedup(r, Cycle!Qualified(r, "YES")) = a
    BY <1>2
  <2>2. b \in Seq(CycleOpp) /\ Cycle!Dedup(r, Cycle!Qualified(r, "NO")) = b
    BY <1>2
  <2> HIDE DEF a, b
  <2> QED BY <2>1, <2>2 DEF Cycle!Opportunities
<1> HIDE DEF a, b, r
<1>4. /\ Len(a) \in Nat /\ Len(b) \in Nat /\ DOMAIN a = 1 .. Len(a) /\ DOMAIN b = 1 .. Len(b)
      /\ a \o b \in Seq(CycleOpp) /\ Len(a \o b) = Len(a) + Len(b)
      /\ \A n \in 1 .. (Len(a) + Len(b)) :
            (a \o b)[n] = IF n <= Len(a) THEN a[n] ELSE b[n - Len(a)]
  BY <1>3, ConcatProperties, LenProperties
<1>5. DOMAIN (a \o b) = 1 .. (Len(a) + Len(b))
  BY <1>4
<1>6. \A n \in DOMAIN a : n \in DOMAIN (a \o b) /\ (a \o b)[n] = a[n]
  BY <1>4, <1>5
<1>7. \A n \in DOMAIN b : Len(a) + n \in DOMAIN (a \o b) /\ (a \o b)[Len(a) + n] = b[n]
  <2> SUFFICES ASSUME NEW n \in 1 .. Len(b)
               PROVE  Len(a) + n \in DOMAIN (a \o b) /\ (a \o b)[Len(a) + n] = b[n]
    BY <1>4
  <2>1. /\ Len(a) + n \in 1 .. (Len(a) + Len(b)) /\ ~(Len(a) + n <= Len(a))
        /\ (Len(a) + n) - Len(a) = n
    BY <1>4
  <2> QED BY <1>4, <1>5, <2>1
<1>8. \A n \in DOMAIN (a \o b) : n \in DOMAIN a \/ n - Len(a) \in DOMAIN b
  BY <1>4, <1>5
<1> QED BY <1>3, <1>5, <1>6, <1>7, <1>8 DEF a, b, r, CycleParts

\* Each of them began with an event of its side.
LEMMA CycleStarted ==
    ASSUME s1 \in Seq(Cycle!CycleRow), Cycle!CycleAssumption, NEW k \in DOMAIN s1,
           NEW F, CycleFolds(F, s1, Len(s1)),
           NEW n \in DOMAIN Cycle!Opportunities(SubSeq(s1, 1, k))
    PROVE  \E side \in Sides : \E i \in CycleEvents(k, side), q \in Nat :
              StartedAs(F, s1, CycleEvents(k, side),
                        Cycle!Opportunities(SubSeq(s1, 1, k))[n], q, i)
<1> DEFINE a == F[CycleEvents(k, "YES")]
           b == F[CycleEvents(k, "NO")]
           opps == Cycle!Opportunities(SubSeq(s1, 1, k))
           Started(side, i, q) == StartedAs(F, s1, CycleEvents(k, side), opps[n], q, i)
<1> SUFFICES \E side \in Sides : \E i \in CycleEvents(k, side), q \in Nat : Started(side, i, q)
  OBVIOUS
<1>1. CycleParts(k, F)
  BY CycleOpportunities
<1>2. /\ a \in Seq(CycleOpp) /\ b \in Seq(CycleOpp)
      /\ \A j \in DOMAIN a : opps[j] = a[j]
      /\ \A j \in DOMAIN b : opps[Len(a) + j] = b[j]
      /\ n \in DOMAIN a \/ n - Len(a) \in DOMAIN b
      /\ DOMAIN opps = 1 .. (Len(a) + Len(b)) /\ n \in DOMAIN opps
  BY <1>1 DEF CycleParts
<1>3. CycleWindow \in Int
  BY CycleConstants
<1>4. ASSUME NEW side
      PROVE  \A q \in DOMAIN F[CycleEvents(k, side)] : \E i \in CycleEvents(k, side) :
                StartedAs(F, s1, CycleEvents(k, side), F[CycleEvents(k, side)][q], q, i)
  <2> DEFINE C == CycleEvents(k, side)
             N == Len(s1)
  <2>1. C \in SUBSET (1 .. N) /\ N \in Nat
    BY CycleQualified
  <2>2. \A i \in 1 .. N : s1[i] \in Cycle!CycleRow
    BY CycleRowsRecorded
  <2> HIDE DEF C
  <2>3. \A q \in DOMAIN F[C] : \E i \in C : StartedAs(F, s1, C, F[C][q], q, i)
    BY <1>3, <2>1, <2>2, CycleOpenings
  <2> QED BY <2>3 DEF C
<1>5. CASE n \in DOMAIN a
  <2>1. PICK i \in CycleEvents(k, "YES") : StartedAs(F, s1, CycleEvents(k, "YES"), a[n], n, i)
    BY <1>4, <1>5
  <2>2. n \in Nat /\ opps[n] = a[n]
    BY <1>2, <1>5, LenProperties
  <2>3. Started("YES", i, n)
    BY <2>1, <2>2
  <2> HIDE DEF Started
  <2> QED BY <2>2, <2>3 DEF Sides
<1>6. CASE n - Len(a) \in DOMAIN b
  <2> DEFINE q == n - Len(a)
  <2>1. PICK i \in CycleEvents(k, "NO") : StartedAs(F, s1, CycleEvents(k, "NO"), b[q], q, i)
    BY <1>4, <1>6
  <2>2. q \in Nat /\ opps[n] = b[q]
    <3>1. q \in DOMAIN b /\ DOMAIN b = 1 .. Len(b) /\ Len(b) \in Nat /\ Len(a) \in Nat
      BY <1>2, <1>6, LenProperties
    <3>2. n \in Nat
      <4>1. n \in 1 .. (Len(a) + Len(b))
        BY <1>2
      <4> QED BY <3>1, <4>1
    <3>3. Len(a) + q = n
      BY <3>1, <3>2
    <3> QED BY <1>2, <3>1, <3>3
  <2>3. Started("NO", i, q)
    BY <2>1, <2>2
  <2> HIDE DEF Started, q
  <2> QED BY <2>2, <2>3 DEF Sides
<1> QED BY <1>2, <1>5, <1>6

\* An opportunity with what was seen of it taken back.
LEMMA AsOpened ==
    ASSUME NEW a \in CycleOpp, NEW b \in CycleOpp, SameStart(a, b),
           b.lastAt = b.at, b.seen = 1
    PROVE  [a EXCEPT !.lastAt = a.at, !.seen = 1] = b
BY DEF CycleOpp, SameStart

LEMMA CycleFound ==
    ASSUME s1 \in Seq(Cycle!CycleRow), Cycle!CycleAssumption, NEW k \in DOMAIN s1,
           Cycle!StudyOf(k)
    PROVE  Cycle!FoundAtTheTime
<1> DEFINE N == Len(s1)
           opps == Cycle!Opportunities(SubSeq(s1, 1, k))
<1>1. /\ N \in Nat /\ DOMAIN s1 = 1 .. N /\ \A i \in 1 .. N : s1[i] \in Cycle!CycleRow
  BY CycleRowsRecorded
<1>2. CycleWindow \in Int
  BY CycleConstants
<1>3. PICK F : CycleFolds(F, s1, N)
  BY <1>1, <1>2, CycleFoldExists
<1>4. DOMAIN s3.opps = DOMAIN opps /\ \A n \in DOMAIN opps : s3.opps[n].opp = opps[n]
  BY DEF Cycle!StudyOf
<1> DEFINE Then(m) == Cycle!ToSet(Cycle!Opportunities(SubSeq(s1, 1, m)))
<1> SUFFICES ASSUME NEW n \in DOMAIN opps
             PROVE  \E m \in DOMAIN s1 :
                       /\ s1[m].at = opps[n].at
                       /\ [opps[n] EXCEPT !.lastAt = opps[n].at, !.seen = 1] \in Then(m)
  BY <1>4 DEF Cycle!FoundAtTheTime
<1> DEFINE opp == opps[n]
<1>5. PICK side \in Sides : \E i \in CycleEvents(k, side), q \in Nat :
         StartedAs(F, s1, CycleEvents(k, side), opp, q, i)
  BY <1>3, CycleStarted
<1>6. PICK m \in CycleEvents(k, side), q \in Nat :
         StartedAs(F, s1, CycleEvents(k, side), opp, q, m)
  BY <1>5
<1>7. opp \in CycleOpp
  <2>1. CycleParts(k, F)
    BY <1>3, CycleOpportunities
  <2> DEFINE a == F[CycleEvents(k, "YES")]
             b == F[CycleEvents(k, "NO")]
  <2>2. /\ a \in Seq(CycleOpp) /\ b \in Seq(CycleOpp) /\ n \in DOMAIN opps
        /\ DOMAIN opps = 1 .. (Len(a) + Len(b))
        /\ \A j \in DOMAIN a : opps[j] = a[j]
        /\ \A j \in DOMAIN b : opps[Len(a) + j] = b[j]
        /\ \A j \in DOMAIN opps : j \in DOMAIN a \/ j - Len(a) \in DOMAIN b
    BY <2>1 DEF CycleParts
  <2> HIDE DEF a, b, opps
  <2>3. CASE n \in DOMAIN a
    BY <2>2, <2>3
  <2>4. CASE n - Len(a) \in DOMAIN b
    <3>1. Len(a) + (n - Len(a)) = n
      BY <2>2
    <3>2. opps[Len(a) + (n - Len(a))] = b[n - Len(a)]
      BY <2>2, <2>4
    <3> QED BY <2>2, <2>4, <3>1, <3>2
  <2> QED BY <2>2, <2>3, <2>4
<1> HIDE DEF opps
<1>8. m \in DOMAIN s1 /\ m \in 1 .. k /\ k \in 1 .. N
  <2>1. m \in 1 .. k /\ k \in 1 .. N
    BY <1>1, <1>6 DEF CycleEvents
  <2> QED BY <1>1, <2>1
<1> DEFINE C == CycleEvents(m, side)
           row == s1[m]
           first == Cycle!Opened(row)
<1>9. C = CycleEvents(k, side) \cap (1 .. m)
  <2>1. \A i \in 1 .. m : i \in 1 .. k
    BY <1>1, <1>8
  <2> QED BY <2>1 DEF CycleEvents
<1>10. F[C] \in Seq(CycleOpp) /\ Len(F[C]) = q /\ F[C][q] = first /\ SameStart(opp, first)
  BY <1>6, <1>9 DEF StartedAs
<1>11. first.lastAt = first.at /\ first.seen = 1 /\ first.at = row.at /\ first \in CycleOpp
  <2>1. row \in Cycle!CycleRow
    BY <1>1, <1>8
  <2> HIDE DEF row
  <2>2. Cycle!Direction(row) \in Sides /\ row.at \in Nat /\ row.ask \in [Sides -> 1 .. 100]
    BY <2>1, CycleDirection, CycleRows
  <2>3. row.ask[Cycle!Direction(row)] \in Int
    <3>1. row.ask[Cycle!Direction(row)] \in 1 .. 100
      BY <2>2
    <3>2. \A p \in 1 .. 100 : p \in Int
      OBVIOUS
    <3> QED BY <3>1, <3>2
  <2> QED BY <2>2, <2>3 DEF Cycle!Opened, CycleOpp
<1>12. [opp EXCEPT !.lastAt = opp.at, !.seen = 1] = first
  <2> HIDE DEF opp, first
  <2> QED BY <1>7, <1>10, <1>11, AsOpened
<1>13. q \in DOMAIN F[C]
  <2>1. m \in C
    BY <1>6, <1>8, <1>9
  <2>2. C # {} /\ C \in SUBSET (1 .. N)
    <3>1. \A i \in 1 .. k : i \in 1 .. N
      BY <1>1, <1>8
    <3> QED BY <2>1, <1>9, <3>1 DEF CycleEvents
  <2>3. \A i \in C : i <= m
    BY <1>1, <1>9
  <2>4. F[C] = Cycle!Added(F[C \ {m}], row) /\ F[C \ {m}] \in Seq(CycleOpp)
    <3> HIDE DEF C
    <3> QED BY <1>3, <2>1, <2>2, <2>3 DEF CycleFolds
  <2>5. Len(F[C]) > 0
    <3> DEFINE old == F[C \ {m}]
    <3>1. old \in Seq(CycleOpp) /\ row \in Cycle!CycleRow /\ Len(old) \in Nat
      BY <1>1, <1>8, <2>4
    <3> HIDE DEF C, row, old
    <3>2. Len(Cycle!Added(old, row)) = Len(old) + 1
          \/ (Len(old) > 0 /\ Len(Cycle!Added(old, row)) = Len(old))
      BY <1>2, <3>1, CycleAdded
    <3> QED BY <2>4, <3>1, <3>2 DEF old
  <2> HIDE DEF C
  <2> QED BY <1>10, <2>5
<1>14. first \in Then(m)
  <2> DEFINE then == Cycle!Opportunities(SubSeq(s1, 1, m))
  <2>1. CycleParts(m, F)
    BY <1>3, <1>8, CycleOpportunities
  <2>2. \E j \in DOMAIN then : then[j] = F[C][q]
    <3> DEFINE a == F[CycleEvents(m, "YES")]
               b == F[CycleEvents(m, "NO")]
    <3>1. /\ \A j \in DOMAIN a : j \in DOMAIN then /\ then[j] = a[j]
          /\ \A j \in DOMAIN b : Len(a) + j \in DOMAIN then /\ then[Len(a) + j] = b[j]
      BY <2>1 DEF CycleParts
    <3>2. F[C] = a \/ F[C] = b
      BY DEF Sides
    <3> HIDE DEF then, a, b, C
    <3> QED BY <1>13, <3>1, <3>2
  <2> HIDE DEF then
  <2> QED BY <1>10, <2>2 DEF Cycle!ToSet, then
<1>15. row.at = opp.at
  BY <1>10, <1>11 DEF SameStart
<1> HIDE DEF Then, first, opp
<1> QED BY <1>8, <1>12, <1>14, <1>15 DEF opp

\* The instance's fold is the library's.
LEMMA CycleTotals == \A f : Cycle!FoldFunction(+, 0, f) = FoldFunction(+, 0, f)
BY DEF Cycle!FoldFunction, Cycle!FoldFunctionOnSet, Cycle!MapThenFoldSet,
       FoldFunction, FoldFunctionOnSet, MapThenFoldSet

LEMMA CycleApart ==
    ASSUME s1 \in Seq(Cycle!CycleRow), Cycle!CycleAssumption
    PROVE  Cycle!Apart
<1> DEFINE N == Len(s1)
<1>1. /\ N \in Nat /\ DOMAIN s1 = 1 .. N /\ \A i \in 1 .. N : s1[i] \in Cycle!CycleRow
  BY CycleRowsRecorded
<1>2. CycleWindow \in Int
  BY CycleConstants
<1>3. PICK F : CycleFolds(F, s1, N)
  BY <1>1, <1>2, CycleFoldExists
<1> DEFINE Fair(mine, C, side) ==
              /\ \A n \in DOMAIN mine :
                    /\ mine[n].side = side
                    /\ n > 1 => mine[n].at - mine[n - 1].lastAt > CycleWindow
              /\ Cycle!FoldFunction(+, 0, [n \in DOMAIN mine |-> mine[n].seen])
                    = Cycle!Cardinality(C)
<1> SUFFICES ASSUME NEW side \in Sides
             PROVE  Fair(Cycle!Dedup(s1, Cycle!Qualified(s1, side)), Cycle!Qualified(s1, side), side)
  BY DEF Cycle!Apart, Cycle!Sides, Sides
<1> DEFINE C == Cycle!Qualified(s1, side)
           f == F[C]
<1>4. C \in SUBSET (1 .. N) /\ \A i \in C : Cycle!Direction(s1[i]) = side
  BY <1>1 DEF Cycle!Qualified
<1> HIDE DEF C
<1>5. Cycle!Dedup(s1, C) = f
  BY <1>1, <1>3, <1>4, CycleDedup
<1>6. CycleKept(f, C)
  BY <1>1, <1>2, <1>3, <1>4, CycleFoldKept
<1>7. \A n \in DOMAIN f : \E i \in C : StartedAs(F, s1, C, f[n], n, i)
  BY <1>1, <1>2, <1>3, <1>4, CycleOpenings
<1> HIDE DEF f
<1>8. \A n \in DOMAIN f : f[n].side = side
  BY <1>4, <1>7 DEF StartedAs, SameStart, Cycle!Opened
<1>9. DOMAIN f = 1 .. Len(f)
  BY <1>6, LenProperties DEF CycleKept
<1>10. Cycle!FoldFunction(+, 0, [n \in DOMAIN f |-> f[n].seen]) = Cardinality(C)
  <2>1. FoldFunction(+, 0, [n \in DOMAIN f |-> f[n].seen]) = Cardinality(C)
    BY <1>6, <1>9 DEF CycleKept
  <2> QED BY <2>1, CycleTotals
<1>11. Fair(f, C, side)
  <2>1. Cycle!Cardinality(C) = Cardinality(C)
    BY DEF Cycle!Cardinality, Cardinality
  <2>2. \A n \in DOMAIN f : f[n].side = side
                           /\ (n > 1 => f[n].at - f[n - 1].lastAt > CycleWindow)
    BY <1>6, <1>8, <1>9 DEF CycleKept
  <2> QED BY <1>10, <2>1, <2>2
<1> HIDE DEF Fair
<1> QED BY <1>5, <1>11 DEF C

LEMMA CycleHolds ==
    ASSUME Cycle!CycleInv, Cycle!CycleAssumption
    PROVE  Cycle!CycleIsSound
<1>1. s1 \in Seq(Cycle!CycleRow) /\ Cycle!InOrder
  BY DEF Cycle!CycleInv
<1>2. Cycle!Apart /\ Cycle!NoShockHidden /\ Cycle!MovesFollow
  BY <1>1, CycleApart, CycleNoneHidden, CycleMovesFollow
<1>3. CASE s3 = Cycle!NoStudy
  <2>1. DOMAIN s3.opps = {}
    BY <1>3 DEF Cycle!NoStudy
  <2> QED BY <1>2, <2>1 DEF Cycle!CycleIsSound, Cycle!FoundAtTheTime
<1>4. CASE \E m \in DOMAIN s1 : Cycle!StudyOf(m)
  BY <1>1, <1>2, <1>4, CycleFound DEF Cycle!CycleIsSound
<1> QED BY <1>3, <1>4 DEF Cycle!CycleInv

LEMMA CycleStart == ASSUME Cycle!CycleInit PROVE Cycle!CycleInv
BY DEF Cycle!CycleInit, Cycle!CycleInv, Cycle!InOrder

\* A row that comes later, with the time its gap gives it.
LEMMA CycleRecord ==
    ASSUME Cycle!CycleInv, Cycle!CycleAssumption, NEW kind \in CycleKinds, NEW gap \in CycleGap,
           Cycle!RecordRow(kind, gap)
    PROVE  Cycle!CycleInv'
<1> DEFINE row == [kind EXCEPT !.at = Cycle!LastAt + gap]
           N == Len(s1)
<1>1. s1 \in Seq(Cycle!CycleRow) /\ s2 = "none" /\ s1' = Append(s1, row) /\ s2' = s2 /\ s3' = s3
  BY DEF Cycle!CycleInv, Cycle!RecordRow
<1>2. /\ N \in Nat /\ DOMAIN s1 = 1 .. N /\ \A i \in 1 .. N : s1[i] \in Cycle!CycleRow
      /\ \A i \in 1 .. N : s1[i].at \in Nat
  BY <1>1, CycleRowsRecorded
<1>3. gap \in Nat /\ gap > 0 /\ kind \in Cycle!CycleRow
  <2>1. CycleKinds \subseteq Cycle!CycleRow /\ CycleGap \subseteq Nat \ {0}
    BY CycleConstants
  <2> HIDE DEF CycleKinds
  <2> QED BY <2>1
<1>4. Cycle!LastAt \in Nat /\ \A i \in 1 .. N : s1[i].at <= Cycle!LastAt
  <2>1. CASE s1 = <<>>
    <3>1. N = 0
      BY <2>1
    <3> QED BY <2>1, <3>1 DEF Cycle!LastAt
  <2>2. CASE s1 # <<>>
    <3>1. N \in 1 .. N
      BY <1>1, <1>2, <2>2
    <3>2. Cycle!LastAt = s1[N].at
      BY <2>2 DEF Cycle!LastAt, Cycle!Last
    <3>3. \A i, j \in 1 .. N : i < j => s1[i].at < s1[j].at
      BY <1>2 DEF Cycle!CycleInv, Cycle!InOrder
    <3> HIDE DEF N
    <3>4. s1[N].at \in Nat
      BY <1>2, <3>1
    <3>5. ASSUME NEW i \in 1 .. N PROVE s1[i].at <= s1[N].at
      <4>1. i = N \/ i < N
        BY <1>2
      <4>2. s1[i].at \in Nat
        BY <1>2
      <4> QED BY <3>1, <3>3, <3>4, <4>1, <4>2
    <3> QED BY <3>2, <3>4, <3>5
  <2> QED BY <2>1, <2>2
<1>5. row \in Cycle!CycleRow /\ row.at = Cycle!LastAt + gap
  <2>1. Cycle!LastAt + gap \in Nat
    BY <1>3, <1>4
  <2> QED BY <1>3, <2>1 DEF Cycle!CycleRow
<1>6. /\ s1' \in Seq(Cycle!CycleRow) /\ Len(s1') = N + 1
      /\ (\A j \in 1 .. N : s1'[j] = s1[j]) /\ s1'[N + 1] = row
      /\ DOMAIN s1' = 1 .. (N + 1)
  <2> HIDE DEF row
  <2> QED BY <1>1, <1>5, AppendFacts, LenProperties
<1>7. Cycle!InOrder'
  <2> SUFFICES ASSUME NEW i \in 1 .. (N + 1), NEW j \in 1 .. (N + 1), i < j
               PROVE  s1'[i].at < s1'[j].at
    BY <1>6 DEF Cycle!InOrder
  <2>1. CASE j \in 1 .. N
    <3>1. i \in 1 .. N
      BY <2>1, <1>2
    <3> QED BY <1>2, <1>6, <2>1, <3>1 DEF Cycle!CycleInv, Cycle!InOrder
  <2>2. CASE j \notin 1 .. N
    <3>1. j = N + 1 /\ i \in 1 .. N
      <4> HIDE DEF N
      <4> QED BY <1>2, <2>2
    <3>2. s1[i].at <= Cycle!LastAt /\ s1[i].at \in Nat
      BY <1>2, <1>4, <3>1
    <3>3. s1'[i].at = s1[i].at /\ s1'[j].at = Cycle!LastAt + gap
      BY <1>5, <1>6, <3>1
    <3> QED BY <1>3, <1>4, <3>2, <3>3
  <2> QED BY <2>1, <2>2
<1>8. ASSUME NEW m \in DOMAIN s1, Cycle!StudyOf(m)
      PROVE  m \in DOMAIN s1' /\ Cycle!StudyOf(m)'
  <2>1. m \in 1 .. N /\ m \in 1 .. (N + 1)
    BY <1>2
  <2>2. SubSeq(s1', 1, m) = SubSeq(s1, 1, m)
    <3> HIDE DEF row
    <3>1. s1' = s1 \o <<row>>
      BY <1>1, <1>5, AppendIsConcat
    <3>2. <<row>> \in Seq(Cycle!CycleRow) /\ 1 \in 1 .. Len(s1)
      BY <1>2, <1>5
    <3> QED BY <1>1, <2>1, <3>1, <3>2, SubSeqOfConcat1
  <2> QED BY <1>1, <1>6, <1>8, <2>1, <2>2 DEF Cycle!StudyOf
<1>9. s3' = Cycle!NoStudy \/ \E m \in DOMAIN s1' : Cycle!StudyOf(m)'
  <2>1. s3 = Cycle!NoStudy \/ \E m \in DOMAIN s1 : Cycle!StudyOf(m)
    BY DEF Cycle!CycleInv
  <2> QED BY <1>1, <1>8, <2>1
<1> QED BY <1>1, <1>6, <1>7, <1>9 DEF Cycle!CycleInv, Cycle!NoStudy

LEMMA CycleRun ==
    ASSUME Cycle!CycleInv, Cycle!RunStudy
    PROVE  Cycle!CycleInv'
<1> DEFINE opps == Cycle!Opportunities(s1)
           N == Len(s1)
<1>1. /\ s1 \in Seq(Cycle!CycleRow) /\ s1' = s1 /\ s2' = s2 /\ s1 # <<>>
      /\ s3'.opps = [i \in DOMAIN opps |-> Cycle!Scored(opps[i])]
  BY DEF Cycle!CycleInv, Cycle!RunStudy
<1>2. N \in Nat /\ DOMAIN s1 = 1 .. N /\ N \in DOMAIN s1
  BY <1>1, CycleRowsRecorded
<1>3. SubSeq(s1, 1, N) = s1
  BY <1>1, SubSeqFull
<1>4. \A i \in DOMAIN opps : Cycle!Scored(opps[i]).opp = opps[i]
  BY DEF Cycle!Scored
<1>5. DOMAIN s3'.opps = DOMAIN opps /\ \A i \in DOMAIN opps : s3'.opps[i].opp = opps[i]
  <2> HIDE DEF opps
  <2> QED BY <1>1, <1>4
<1>6. \A m : m = N => Cycle!StudyOf(m)'
  BY <1>1, <1>3, <1>5 DEF Cycle!StudyOf
<1>7. Cycle!InOrder'
  BY <1>1 DEF Cycle!CycleInv, Cycle!InOrder
<1>8. \E m \in DOMAIN s1' : Cycle!StudyOf(m)'
  BY <1>1, <1>2, <1>6
<1> QED BY <1>1, <1>7, <1>8 DEF Cycle!CycleInv

LEMMA CycleStep ==
    ASSUME Cycle!CycleInv, Cycle!CycleAssumption, Cycle!CycleNext
    PROVE  Cycle!CycleInv'
<1>1. ASSUME NEW side \in Sides, Cycle!PublishLabel(side) PROVE Cycle!CycleInv'
  <2>1. s1' = s1 /\ s2 = "none" /\ s2' = side /\ s3' = s3
    BY <1>1 DEF Cycle!PublishLabel
  <2>2. Cycle!InOrder' /\ s2' \in Sides
    BY <2>1 DEF Cycle!CycleInv, Cycle!InOrder
  <2>3. \A m : Cycle!StudyOf(m) => Cycle!StudyOf(m)'
    BY <2>1 DEF Cycle!StudyOf
  <2> QED BY <2>1, <2>2, <2>3 DEF Cycle!CycleInv, Cycle!NoStudy, Cycle!Sides, Sides
<1>2. Cycle!Sides = Sides
  BY DEF Cycle!Sides, Sides
<1> HIDE DEF CycleKinds
<1> QED BY <1>1, <1>2, CycleRecord, CycleRun DEF Cycle!CycleNext

LEMMA CycleStutter ==
    ASSUME Cycle!CycleInv, UNCHANGED Cycle!cycleVars
    PROVE  Cycle!CycleInv'
<1>1. s1' = s1 /\ s2' = s2 /\ s3' = s3
  BY DEF Cycle!cycleVars
<1>2. \A m : Cycle!StudyOf(m) => Cycle!StudyOf(m)'
  BY <1>1 DEF Cycle!StudyOf
<1> QED BY <1>1, <1>2 DEF Cycle!CycleInv, Cycle!InOrder, Cycle!NoStudy
=============================================================================
