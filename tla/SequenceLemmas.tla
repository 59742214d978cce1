--------------------------- MODULE SequenceLemmas ---------------------------
(***************************************************************************)
(* Facts about the sequence operators that the queues of this project are  *)
(* built from (append at the tail, pop at the head, delete in the middle), *)
(* stated for their length, their elements and the set of their elements;  *)
(* and about sums and other folds over finite sets, and along sequences.   *)
(***************************************************************************)
EXTENDS Integers, SequencesExt, SequenceTheorems, FiniteSetTheorems,
        WellFoundedInduction, TLAPS

\* Appending (deque.append): the old elements keep their places.
LEMMA AppendFacts ==
    ASSUME NEW S, NEW s \in Seq(S), NEW x \in S
    PROVE  /\ Append(s, x) \in Seq(S)
           /\ Len(s) \in Nat
           /\ Len(Append(s, x)) = Len(s) + 1
           /\ \A j \in 1..Len(s) : Append(s, x)[j] = s[j]
           /\ Append(s, x)[Len(s) + 1] = x
           /\ ToSet(Append(s, x)) = ToSet(s) \cup {x}
<1>1. /\ Append(s, x) \in Seq(S)
      /\ Len(s) \in Nat
      /\ Len(Append(s, x)) = Len(s) + 1
      /\ \A j \in 1..Len(s) : Append(s, x)[j] = s[j]
      /\ Append(s, x)[Len(s) + 1] = x
  OBVIOUS
<1>2. DOMAIN Append(s, x) = 1..(Len(s) + 1) /\ DOMAIN s = 1..Len(s)
  BY <1>1, LenProperties
<1>3. ToSet(Append(s, x)) \subseteq ToSet(s) \cup {x}
  <2> SUFFICES ASSUME NEW j \in 1..(Len(s) + 1)
               PROVE  Append(s, x)[j] \in ToSet(s) \cup {x}
    BY <1>2 DEF ToSet
  <2>1. j \in 1..Len(s) \/ j = Len(s) + 1
    BY <1>1
  <2>2. QED BY <2>1, <1>1, <1>2 DEF ToSet
<1>4. ToSet(s) \subseteq ToSet(Append(s, x))
  <2> SUFFICES ASSUME NEW j \in 1..Len(s)
               PROVE  s[j] \in ToSet(Append(s, x))
    BY <1>2 DEF ToSet
  <2>1. j \in 1..(Len(s) + 1) /\ Append(s, x)[j] = s[j]
    BY <1>1
  <2>2. QED BY <2>1, <1>2 DEF ToSet
<1>5. x \in ToSet(Append(s, x))
  <2>1. Len(s) + 1 \in 1..(Len(s) + 1)
    BY <1>1
  <2>2. QED BY <2>1, <1>1, <1>2 DEF ToSet
<1>6. QED BY <1>1, <1>3, <1>4, <1>5

\* Popping at the head (deque.popleft): every element moves one place down.
LEMMA TailFacts ==
    ASSUME NEW S, NEW s \in Seq(S), s # <<>>
    PROVE  /\ Head(s) \in S /\ Head(s) = s[1]
           /\ Tail(s) \in Seq(S)
           /\ Len(s) \in Nat \ {0}
           /\ Len(Tail(s)) = Len(s) - 1
           /\ \A j \in 1..(Len(s) - 1) : Tail(s)[j] = s[j + 1]
           /\ ToSet(s) = ToSet(Tail(s)) \cup {Head(s)}
<1>1. /\ Head(s) \in S /\ Head(s) = s[1]
      /\ Tail(s) \in Seq(S)
      /\ Len(s) \in Nat \ {0}
      /\ Len(Tail(s)) = Len(s) - 1
      /\ \A j \in 1..(Len(s) - 1) : Tail(s)[j] = s[j + 1]
  OBVIOUS
<1>2. DOMAIN Tail(s) = 1..(Len(s) - 1) /\ DOMAIN s = 1..Len(s)
  BY <1>1, LenProperties
<1>3. ToSet(s) \subseteq ToSet(Tail(s)) \cup {Head(s)}
  <2> SUFFICES ASSUME NEW j \in 1..Len(s)
               PROVE  s[j] \in ToSet(Tail(s)) \cup {Head(s)}
    BY <1>2 DEF ToSet
  <2>1. CASE j = 1
    BY <2>1, <1>1
  <2>2. CASE j # 1
    <3>1. j - 1 \in 1..(Len(s) - 1) /\ Tail(s)[j - 1] = s[(j - 1) + 1]
      BY <2>2, <1>1
    <3>2. (j - 1) + 1 = j
      OBVIOUS
    <3>3. QED BY <3>1, <3>2, <1>2 DEF ToSet
  <2>3. QED BY <2>1, <2>2
<1>4. ToSet(Tail(s)) \subseteq ToSet(s)
  <2> SUFFICES ASSUME NEW j \in 1..(Len(s) - 1)
               PROVE  Tail(s)[j] \in ToSet(s)
    BY <1>2 DEF ToSet
  <2>1. j + 1 \in 1..Len(s) /\ Tail(s)[j] = s[j + 1]
    BY <1>1
  <2>2. QED BY <2>1, <1>2 DEF ToSet
<1>5. Head(s) \in ToSet(s)
  <2>1. 1 \in 1..Len(s)
    BY <1>1
  <2>2. QED BY <2>1, <1>1, <1>2 DEF ToSet
<1>6. QED BY <1>1, <1>3, <1>4, <1>5

\* Deleting in the middle (del deque[i]): later elements move one place down.
LEMMA RemoveAtFacts ==
    ASSUME NEW S, NEW s \in Seq(S), NEW i \in 1..Len(s)
    PROVE  /\ RemoveAt(s, i) \in Seq(S)
           /\ Len(s) \in Nat \ {0}
           /\ Len(RemoveAt(s, i)) = Len(s) - 1
           /\ \A j \in 1..(Len(s) - 1) :
                 RemoveAt(s, i)[j] = IF j < i THEN s[j] ELSE s[j + 1]
           /\ ToSet(s) = ToSet(RemoveAt(s, i)) \cup {s[i]}
<1> DEFINE a == SubSeq(s, 1, i - 1)
           b == SubSeq(s, i + 1, Len(s))
           r == RemoveAt(s, i)
<1>1. /\ Len(s) \in Nat \ {0} /\ i \in Nat /\ i >= 1 /\ i <= Len(s)
      /\ \A j \in 1..Len(s) : s[j] \in S
  OBVIOUS
<1>2. a \in Seq(S) /\ Len(a) = i - 1 /\ \A j \in 1..(i - 1) : a[j] = s[j]
  BY <1>1, SubSeqProperties
<1>3. b \in Seq(S) /\ Len(b) = Len(s) - i /\ \A j \in 1..(Len(s) - i) : b[j] = s[i + j]
  BY <1>1, SubSeqProperties
<1>4. r = a \o b
  BY DEF RemoveAt
<1> HIDE DEF a, b
<1>5. /\ a \o b \in Seq(S) /\ Len(a \o b) = Len(s) - 1
      /\ \A j \in 1..(Len(s) - 1) :
            (a \o b)[j] = IF j <= i - 1 THEN a[j] ELSE b[j - (i - 1)]
  <2>1. /\ a \o b \in Seq(S) /\ Len(a \o b) = Len(a) + Len(b)
        /\ \A j \in 1..(Len(a) + Len(b)) :
              (a \o b)[j] = IF j <= Len(a) THEN a[j] ELSE b[j - Len(a)]
    BY <1>2, <1>3, ConcatProperties
  <2>2. Len(a) + Len(b) = Len(s) - 1
    BY <1>1, <1>2, <1>3
  <2>3. QED BY <2>1, <2>2, <1>2
<1>6. ASSUME NEW j \in 1..(Len(s) - 1)
      PROVE  (a \o b)[j] = IF j < i THEN s[j] ELSE s[j + 1]
  <2>1. CASE j < i
    BY <2>1, <1>1, <1>2, <1>5
  <2>2. CASE ~(j < i)
    <3>1. (a \o b)[j] = b[j - i + 1]
      BY <2>2, <1>1, <1>5
    <3>2. j - i + 1 \in 1..(Len(s) - i)
      BY <2>2, <1>1
    <3>3. b[j - i + 1] = s[i + (j - i + 1)]
      BY <3>2, <1>3
    <3>4. i + (j - i + 1) = j + 1
      BY <1>1
    <3>5. b[j - i + 1] = s[j + 1]
      BY <3>3, <3>4
    <3>6. QED BY <2>2, <3>1, <3>5
  <2>3. QED BY <2>1, <2>2
<1>7. r \in Seq(S) /\ Len(r) = Len(s) - 1
      /\ \A j \in 1..(Len(s) - 1) : r[j] = IF j < i THEN s[j] ELSE s[j + 1]
  BY <1>4, <1>5, <1>6
<1> HIDE DEF r
<1>8. DOMAIN r = 1..(Len(s) - 1) /\ DOMAIN s = 1..Len(s)
  BY <1>1, <1>7, LenProperties
<1>9. ToSet(s) \subseteq ToSet(r) \cup {s[i]}
  <2> SUFFICES ASSUME NEW j \in 1..Len(s)
               PROVE  s[j] \in ToSet(r) \cup {s[i]}
    BY <1>8 DEF ToSet
  <2>1. CASE j = i
    BY <2>1
  <2>2. CASE j < i
    <3>1. j \in 1..(Len(s) - 1) /\ r[j] = s[j]
      BY <2>2, <1>1, <1>7
    <3>2. QED BY <3>1, <1>8 DEF ToSet
  <2>3. CASE j > i
    <3>1. j - 1 \in 1..(Len(s) - 1) /\ ~(j - 1 < i) /\ (j - 1) + 1 = j
      BY <2>3, <1>1
    <3>2. r[j - 1] = s[j]
      BY <3>1, <1>7
    <3>3. QED BY <3>1, <3>2, <1>8 DEF ToSet
  <2>4. QED BY <2>1, <2>2, <2>3, <1>1
<1>10. ToSet(r) \subseteq ToSet(s)
  <2> SUFFICES ASSUME NEW j \in 1..(Len(s) - 1)
               PROVE  r[j] \in ToSet(s)
    BY <1>8 DEF ToSet
  <2>1. j \in 1..Len(s) /\ j + 1 \in 1..Len(s)
    BY <1>1
  <2>2. r[j] = s[j] \/ r[j] = s[j + 1]
    BY <1>7
  <2>3. QED BY <2>1, <2>2, <1>8 DEF ToSet
<1>11. s[i] \in ToSet(s)
  BY <1>8 DEF ToSet
<1>12. QED BY <1>1, <1>7, <1>9, <1>10, <1>11 DEF r
\* A non-empty set of naturals has a least element (the CHOOSE of a scan that
\* stops at the first match is defined).
LEMMA LeastNatural ==
    ASSUME NEW T \in SUBSET Nat, T # {}
    PROVE  \E x \in T : \A y \in T : x <= y
<1>1. \E x \in T : \A y \in T : ~(<<y, x>> \in OpToRel(<, Nat))
  BY NatLessThanWellFounded, WFMin
<1>2. PICK x \in T : \A y \in T : ~(<<y, x>> \in OpToRel(<, Nat))
  BY <1>1
<1>3. ASSUME NEW y \in T
      PROVE  x <= y
  <2>1. ~(<<y, x>> \in OpToRel(<, Nat))
    BY <1>2
  <2>2. <<y, x>> \in Nat \X Nat
    OBVIOUS
  <2>3. ~(y < x)
    BY <2>1, <2>2 DEF OpToRel
  <2>4. QED BY <2>3
<1>4. QED BY <1>3

\* A sequence without repetition has as many elements as places.
LEMMA DistinctCardinality ==
    ASSUME NEW S, NEW s \in Seq(S),
           \A i, j \in 1..Len(s) : i # j => s[i] # s[j]
    PROVE  IsFiniteSet(ToSet(s)) /\ Cardinality(ToSet(s)) = Len(s)
<1>1. Len(s) \in Nat /\ DOMAIN s = 1..Len(s) /\ s \in [1..Len(s) -> S]
  BY LenProperties
<1>2. ToSet(s) = {s[i] : i \in 1..Len(s)}
  BY <1>1 DEF ToSet
<1>3. s \in Bijection(1..Len(s), ToSet(s))
  <2>1. s \in [1..Len(s) -> ToSet(s)]
    BY <1>1, <1>2
  <2>2. \A i, j \in 1..Len(s) : s[i] = s[j] => i = j
    OBVIOUS
  <2>3. \A t \in ToSet(s) : \E i \in 1..Len(s) : s[i] = t
    BY <1>2
  <2>4. QED BY <2>1, <2>2, <2>3 DEF Bijection, Injection, Surjection, IsInjective
<1>4. IsFiniteSet(1..Len(s)) /\ Cardinality(1..Len(s)) = Len(s)
  BY <1>1, FS_Interval
<1>5. QED BY <1>3, <1>4, FS_Bijection DEF ExistsBijection
-----------------------------------------------------------------------------
(* Sums.  A fold of the community modules is a recursive function on the    *)
(* subsets of a set, which takes one element after the other away.  What it *)
(* comes to is shown for the smallest subset that could be an exception.    *)

\* C adds up v, taking away h[s] from s.
Picks(h, D) == \A s \in SUBSET D : s # {} => h[s] \in s
AddsUp(C, v, h, D) ==
    \A s \in SUBSET D : C[s] = IF s = {} THEN 0 ELSE v[h[s]] + C[s \ {h[s]}]

LEMMA OneLess ==
    ASSUME NEW s, IsFiniteSet(s), NEW x \in s, NEW n \in Nat, Cardinality(s) <= n
    PROVE  /\ IsFiniteSet(s \ {x}) /\ Cardinality(s \ {x}) \in Nat /\ n \in Nat \ {0}
           /\ Cardinality(s \ {x}) <= n - 1
<1>1. /\ IsFiniteSet(s \ {x}) /\ Cardinality(s \ {x}) = Cardinality(s) - 1
    BY FS_RemoveElement
<1>2. Cardinality(s) \in Nat /\ Cardinality(s \ {x}) \in Nat
    BY <1>1, FS_CardinalityType
<1> QED BY <1>1, <1>2

\* There is a function that adds up.
LEMMA SumExists ==
    ASSUME NEW D, IsFiniteSet(D), NEW v \in [D -> Nat], NEW h, Picks(h, D)
    PROVE  \E C \in [SUBSET D -> Nat] : AddsUp(C, v, h, D)
<1> DEFINE After(C, s) == IF s = {} THEN 0 ELSE v[h[s]] + C[s \ {h[s]}]
           Upto(n, C) == \A s \in SUBSET D : Cardinality(s) <= n => C[s] = After(C, s)
           Bad == {n \in Nat : ~\E C \in [SUBSET D -> Nat] : Upto(n, C)}
<1>1. \A s \in SUBSET D : IsFiniteSet(s) /\ Cardinality(s) \in Nat
    BY FS_Subset, FS_CardinalityType
<1>2. \A C \in [SUBSET D -> Nat] : \A s \in SUBSET D : After(C, s) \in Nat
  <2> SUFFICES ASSUME NEW C \in [SUBSET D -> Nat], NEW s \in SUBSET D PROVE After(C, s) \in Nat
    OBVIOUS
  <2>1. s # {} => h[s] \in D
    BY DEF Picks
  <2>2. s # {} => v[h[s]] \in Nat /\ C[s \ {h[s]}] \in Nat
    BY <2>1
  <2> QED BY <2>2
<1>3. Bad = {}
  <2> SUFFICES ASSUME Bad # {} PROVE FALSE
    OBVIOUS
  <2>1. PICK n \in Bad : \A m \in Bad : n <= m
    BY LeastNatural
  <2>0. n \in Nat /\ ~\E C \in [SUBSET D -> Nat] : Upto(n, C)
    BY <2>1
  <2>2. n # 0
    <3> SUFFICES ASSUME n = 0 PROVE FALSE
      OBVIOUS
    <3> DEFINE C == [s \in SUBSET D |-> 0]
    <3>1. C \in [SUBSET D -> Nat]
      OBVIOUS
    <3>2. Upto(0, C)
      <4> SUFFICES ASSUME NEW s \in SUBSET D, Cardinality(s) <= 0 PROVE C[s] = After(C, s)
        OBVIOUS
      <4>1. s = {}
        BY <1>1, FS_EmptySet
      <4> QED BY <4>1
    <3> HIDE DEF C
    <3> QED BY <2>0, <3>1, <3>2
  <2>3. n - 1 \in Nat /\ n - 1 \notin Bad
    <3> HIDE DEF Bad
    <3>1. n - 1 \in Nat /\ ~(n <= n - 1)
      BY <2>0, <2>2
    <3> QED BY <2>1, <3>1
  <2>4. PICK C \in [SUBSET D -> Nat] : Upto(n - 1, C)
    BY <2>3
  <2> DEFINE E == [s \in SUBSET D |-> After(C, s)]
  <2>5. E \in [SUBSET D -> Nat]
    BY <1>2, <2>4
  <2>6. ASSUME NEW s \in SUBSET D, Cardinality(s) <= n PROVE E[s] = After(E, s)
    <3>1. CASE s = {}
      BY <3>1
    <3>2. CASE s # {}
      <4> DEFINE r == s \ {h[s]}
      <4>1. h[s] \in s
        BY <3>2 DEF Picks
      <4>2. Cardinality(r) <= n - 1 /\ r \in SUBSET D
        BY <1>1, <2>0, <2>6, <4>1, OneLess
      <4>3. C[r] = After(C, r)
        BY <2>4, <4>2
      <4>4. E[r] = C[r]
        BY <4>2, <4>3
      <4>5. E[s] = v[h[s]] + C[r]
        BY <3>2
      <4> QED BY <3>2, <4>4, <4>5
    <3> QED BY <3>1, <3>2
  <2>7. n \notin Bad
    BY <2>5, <2>6
  <2> QED BY <2>1, <2>7
<1>4. Cardinality(D) \in Nat
    BY <1>1
<1>5. PICK C \in [SUBSET D -> Nat] : Upto(Cardinality(D), C)
    BY <1>3, <1>4
<1>6. \A s \in SUBSET D : Cardinality(s) <= Cardinality(D)
    BY FS_Subset
<1> QED BY <1>5, <1>6 DEF AddsUp

\* Two of them, whose values differ in one place only.
LEMMA SumsDiffer ==
    ASSUME NEW D, IsFiniteSet(D), NEW v, NEW w, NEW h, Picks(h, D),
           \A x \in D : v[x] \in Nat /\ w[x] \in Nat,
           NEW e, \A x \in D : x # e => v[x] = w[x],
           NEW C, AddsUp(C, v, h, D), NEW E, AddsUp(E, w, h, D)
    PROVE  \A s \in SUBSET D :
              /\ C[s] \in Nat /\ E[s] \in Nat
              /\ e \notin s => C[s] = E[s]
              /\ e \in s => C[s] + w[e] = E[s] + v[e]
<1> DEFINE Good(s) == /\ C[s] \in Nat /\ E[s] \in Nat
                      /\ e \notin s => C[s] = E[s]
                      /\ e \in s => C[s] + w[e] = E[s] + v[e]
           Bad == {n \in Nat : \E s \in SUBSET D : Cardinality(s) = n /\ ~Good(s)}
<1>1. \A s \in SUBSET D : IsFiniteSet(s) /\ Cardinality(s) \in Nat
    BY FS_Subset, FS_CardinalityType
<1>2. Bad = {}
  <2> SUFFICES ASSUME Bad # {} PROVE FALSE
    OBVIOUS
  <2>1. PICK n \in Bad : \A m \in Bad : n <= m
    BY LeastNatural
  <2>2. PICK s \in SUBSET D : Cardinality(s) = n /\ ~Good(s)
    BY <2>1
  <2>3. CASE s = {}
    <3>1. C[s] = 0 /\ E[s] = 0
      BY <2>3 DEF AddsUp
    <3> QED BY <2>2, <2>3, <3>1
  <2>4. CASE s # {}
    <3> DEFINE x == h[s]
               r == s \ {x}
    <3>1. x \in s /\ x \in D
      BY <2>4 DEF Picks
    <3>2. /\ C[s] = v[x] + C[r] /\ E[s] = w[x] + E[r]
      BY <2>4 DEF AddsUp
    <3>3. r \in SUBSET D /\ Cardinality(r) <= n - 1 /\ Cardinality(r) \in Nat /\ n \in Nat
      BY <1>1, <2>1, <2>2, <3>1, OneLess
    <3>4. Cardinality(r) \notin Bad
      <4> HIDE DEF Bad, r
      <4>1. ~(n <= Cardinality(r))
        BY <3>3
      <4> QED BY <2>1, <4>1
    <3>5. Good(r)
      BY <3>3, <3>4
    <3>6. v[x] \in Nat /\ w[x] \in Nat /\ (x # e => v[x] = w[x])
      BY <3>1
    <3>7. x \notin r /\ (e # x => (e \in r <=> e \in s))
      OBVIOUS
    <3> HIDE DEF x, r
    <3>8. CASE e = x
      BY <2>2, <3>1, <3>2, <3>5, <3>6, <3>7, <3>8
    <3>9. CASE e # x /\ e \in s
      <4>1. e \in D /\ v[e] \in Nat /\ w[e] \in Nat
        BY <3>9
      <4> QED BY <2>2, <3>1, <3>2, <3>5, <3>6, <3>7, <3>9, <4>1
    <3>10. CASE e \notin s
      BY <2>2, <3>1, <3>2, <3>5, <3>6, <3>7, <3>10
    <3> QED BY <3>8, <3>9, <3>10
  <2> QED BY <2>3, <2>4
<1>3. ASSUME NEW s \in SUBSET D PROVE Good(s)
    BY <1>1, <1>2
<1> QED BY <1>3

\* Of nothing but zeros.
LEMMA SumOfZeros ==
    ASSUME NEW D, IsFiniteSet(D), NEW v, NEW h, Picks(h, D), \A x \in D : v[x] = 0,
           NEW C, AddsUp(C, v, h, D)
    PROVE  C[D] = 0
<1> DEFINE Bad == {n \in Nat : \E s \in SUBSET D : Cardinality(s) = n /\ C[s] # 0}
<1>1. \A s \in SUBSET D : IsFiniteSet(s) /\ Cardinality(s) \in Nat
    BY FS_Subset, FS_CardinalityType
<1>2. Bad = {}
  <2> SUFFICES ASSUME Bad # {} PROVE FALSE
    OBVIOUS
  <2>1. PICK n \in Bad : \A m \in Bad : n <= m
    BY LeastNatural
  <2>2. PICK s \in SUBSET D : Cardinality(s) = n /\ C[s] # 0
    BY <2>1
  <2>3. s # {}
    BY <2>2 DEF AddsUp
  <2>4. h[s] \in s /\ C[s] = v[h[s]] + C[s \ {h[s]}]
    BY <2>3 DEF Picks, AddsUp
  <2>5. /\ Cardinality(s \ {h[s]}) <= n - 1 /\ Cardinality(s \ {h[s]}) \in Nat /\ n \in Nat
    BY <1>1, <2>1, <2>2, <2>4, OneLess
  <2>6. C[s \ {h[s]}] = 0
    <3> HIDE DEF Bad
    <3>1. ~(n <= Cardinality(s \ {h[s]}))
      BY <2>5
    <3>2. Cardinality(s \ {h[s]}) \notin Bad
      BY <2>1, <3>1
    <3> USE DEF Bad
    <3> QED BY <2>5, <3>2
  <2> QED BY <2>2, <2>4, <2>6
<1> QED BY <1>1, <1>2

\* A fold from the left adds in the other order.
LEMMA SumFromLeft ==
    ASSUME NEW D, IsFiniteSet(D), NEW v, NEW h, Picks(h, D), \A x \in D : v[x] \in Nat,
           NEW C,
           \A s \in SUBSET D : C[s] = IF s = {} THEN 0 ELSE C[s \ {h[s]}] + v[h[s]]
    PROVE  AddsUp(C, v, h, D)
<1> DEFINE Bad == {n \in Nat : \E s \in SUBSET D : Cardinality(s) = n /\ C[s] \notin Nat}
<1>1. \A s \in SUBSET D : IsFiniteSet(s) /\ Cardinality(s) \in Nat
    BY FS_Subset, FS_CardinalityType
<1>2. Bad = {}
  <2> SUFFICES ASSUME Bad # {} PROVE FALSE
    OBVIOUS
  <2>1. PICK n \in Bad : \A m \in Bad : n <= m
    BY LeastNatural
  <2>2. PICK s \in SUBSET D : Cardinality(s) = n /\ C[s] \notin Nat
    BY <2>1
  <2>3. s # {}
    BY <2>2
  <2>4. h[s] \in s /\ C[s] = C[s \ {h[s]}] + v[h[s]]
    BY <2>3 DEF Picks
  <2>5. /\ Cardinality(s \ {h[s]}) <= n - 1 /\ Cardinality(s \ {h[s]}) \in Nat /\ n \in Nat
    BY <1>1, <2>1, <2>2, <2>4, OneLess
  <2>6. C[s \ {h[s]}] \in Nat
    <3> HIDE DEF Bad
    <3>1. ~(n <= Cardinality(s \ {h[s]}))
      BY <2>5
    <3>2. Cardinality(s \ {h[s]}) \notin Bad
      BY <2>1, <3>1
    <3> USE DEF Bad
    <3> QED BY <2>5, <3>2
  <2> QED BY <2>2, <2>4, <2>6
<1>3. \A s \in SUBSET D : C[s] \in Nat
    BY <1>1, <1>2
<1>4. ASSUME NEW s \in SUBSET D, s # {} PROVE C[s] = v[h[s]] + C[s \ {h[s]}]
  <2>1. h[s] \in D
    BY <1>4 DEF Picks
  <2>2. v[h[s]] \in Nat /\ C[s \ {h[s]}] \in Nat /\ C[s] = C[s \ {h[s]}] + v[h[s]]
    BY <1>3, <1>4, <2>1
  <2> QED BY <2>2
<1> QED BY <1>4 DEF AddsUp

\* What FoldFunction adds up.
LEMMA SumOfFunction ==
    ASSUME NEW D, IsFiniteSet(D), NEW f \in [D -> Nat]
    PROVE  LET h == [s \in SUBSET D |-> CHOOSE x \in s : TRUE]
           IN  Picks(h, D) /\ \E C : AddsUp(C, f, h, D) /\ FoldFunction(+, 0, f) = C[D]
<1> DEFINE h == [s \in SUBSET D |-> CHOOSE x \in s : TRUE]
           PartialSums(C) == C = [s \in SUBSET D |-> IF s = {} THEN 0
                              ELSE f[CHOOSE x \in s : TRUE] + C[s \ {CHOOSE x \in s : TRUE}]]
           F == CHOOSE C : PartialSums(C)
<1>1. Picks(h, D)
    BY DEF Picks
<1>2. PICK C \in [SUBSET D -> Nat] : AddsUp(C, f, h, D)
  <2> HIDE DEF h
  <2> QED BY <1>1, SumExists
<1>3. PartialSums(C)
  <2>1. \A s \in SUBSET D : C[s] = IF s = {} THEN 0
            ELSE f[CHOOSE x \in s : TRUE] + C[s \ {CHOOSE x \in s : TRUE}]
    BY <1>2 DEF AddsUp
  <2> QED BY <2>1
<1>4. PartialSums(F)
  <2> HIDE DEF PartialSums
  <2> QED BY <1>3
<1>5. FoldFunction(+, 0, f) = F[D]
  <2>1. DOMAIN f = D
    OBVIOUS
  <2> QED BY <2>1 DEF FoldFunction, FoldFunctionOnSet, MapThenFoldSet
<1> HIDE DEF F
<1>6. AddsUp(F, f, h, D)
    BY <1>4 DEF AddsUp
<1> QED BY <1>1, <1>5, <1>6

\* A sum changes as one of its numbers does.
LEMMA SumChanges ==
    ASSUME NEW D, IsFiniteSet(D), NEW f \in [D -> Nat], NEW g \in [D -> Nat], NEW e \in D,
           \A x \in D : x # e => f[x] = g[x]
    PROVE  /\ FoldFunction(+, 0, f) \in Nat /\ FoldFunction(+, 0, g) \in Nat
           /\ FoldFunction(+, 0, f) + g[e] = FoldFunction(+, 0, g) + f[e]
<1> DEFINE h == [s \in SUBSET D |-> CHOOSE x \in s : TRUE]
<1>1. Picks(h, D) /\ \E C : AddsUp(C, f, h, D) /\ FoldFunction(+, 0, f) = C[D]
    BY SumOfFunction
<1>2. \E E : AddsUp(E, g, h, D) /\ FoldFunction(+, 0, g) = E[D]
    BY SumOfFunction
<1>3. PICK C : AddsUp(C, f, h, D) /\ FoldFunction(+, 0, f) = C[D]
    BY <1>1
<1>4. PICK E : AddsUp(E, g, h, D) /\ FoldFunction(+, 0, g) = E[D]
    BY <1>2
<1> HIDE DEF h
<1>5. \A x \in D : f[x] \in Nat /\ g[x] \in Nat
    OBVIOUS
<1>6. C[D] \in Nat /\ E[D] \in Nat /\ C[D] + g[e] = E[D] + f[e]
  <2>1. Picks(h, D) /\ AddsUp(C, f, h, D) /\ AddsUp(E, g, h, D)
    BY <1>1, <1>3, <1>4
  <2>2. \A s \in SUBSET D : /\ C[s] \in Nat /\ E[s] \in Nat
                            /\ e \notin s => C[s] = E[s]
                            /\ e \in s => C[s] + g[e] = E[s] + f[e]
    BY <1>5, <2>1, SumsDiffer
  <2>3. D \in SUBSET D
    OBVIOUS
  <2> QED BY <2>2, <2>3
<1> QED BY <1>3, <1>4, <1>6

LEMMA SumIsZero ==
    ASSUME NEW D, IsFiniteSet(D)
    PROVE  FoldFunction(+, 0, [x \in D |-> 0]) = 0
<1> DEFINE h == [s \in SUBSET D |-> CHOOSE x \in s : TRUE]
           f == [x \in D |-> 0]
<1>1. f \in [D -> Nat]
    OBVIOUS
<1>2. Picks(h, D) /\ \E C : AddsUp(C, f, h, D) /\ FoldFunction(+, 0, f) = C[D]
  <2> HIDE DEF f
  <2> QED BY <1>1, SumOfFunction
<1>3. \A x \in D : f[x] = 0
    OBVIOUS
<1> HIDE DEF f, h
<1>4. FoldFunction(+, 0, f) = 0
    BY <1>2, <1>3, SumOfZeros
<1> QED BY <1>4 DEF f

LEMMA Distributes ==
    ASSUME NEW k \in Nat, NEW m \in Nat, NEW n \in Nat
    PROVE  k * (m + n) = k * m + k * n /\ k * m \in Nat /\ k * n \in Nat
OBVIOUS

\* What lies between multiples of another number, place by place, does so in sum.
LEMMA SumsBetween ==
    ASSUME NEW D, IsFiniteSet(D), NEW v, NEW w, NEW h, Picks(h, D),
           NEW lo \in Nat, NEW hi \in Nat,
           \A x \in D : /\ v[x] \in Nat /\ w[x] \in Nat
                        /\ lo * v[x] <= w[x] /\ w[x] <= hi * v[x],
           NEW C, AddsUp(C, v, h, D), NEW E, AddsUp(E, w, h, D)
    PROVE  \A s \in SUBSET D :
              C[s] \in Nat /\ E[s] \in Nat /\ lo * C[s] <= E[s] /\ E[s] <= hi * C[s]
<1> DEFINE Good(s) == /\ C[s] \in Nat /\ E[s] \in Nat
                      /\ lo * C[s] <= E[s] /\ E[s] <= hi * C[s]
           Bad == {n \in Nat : \E s \in SUBSET D : Cardinality(s) = n /\ ~Good(s)}
<1>1. \A s \in SUBSET D : IsFiniteSet(s) /\ Cardinality(s) \in Nat
    BY FS_Subset, FS_CardinalityType
<1>2. Bad = {}
  <2> SUFFICES ASSUME Bad # {} PROVE FALSE
    OBVIOUS
  <2>1. PICK n \in Bad : \A m \in Bad : n <= m
    BY LeastNatural
  <2>2. PICK s \in SUBSET D : Cardinality(s) = n /\ ~Good(s)
    BY <2>1
  <2>3. CASE s = {}
    <3>1. C[s] = 0 /\ E[s] = 0
      BY <2>3 DEF AddsUp
    <3>2. lo * 0 = 0 /\ hi * 0 = 0
      OBVIOUS
    <3> QED BY <2>2, <3>1, <3>2
  <2>4. CASE s # {}
    <3> DEFINE x == h[s]
               r == s \ {x}
    <3>1. x \in s /\ x \in D
      BY <2>4 DEF Picks
    <3>2. /\ C[s] = v[x] + C[r] /\ E[s] = w[x] + E[r]
      BY <2>4 DEF AddsUp
    <3>3. r \in SUBSET D /\ Cardinality(r) <= n - 1 /\ Cardinality(r) \in Nat /\ n \in Nat
      BY <1>1, <2>1, <2>2, <3>1, OneLess
    <3>4. Cardinality(r) \notin Bad
      <4> HIDE DEF Bad, r
      <4>1. ~(n <= Cardinality(r))
        BY <3>3
      <4> QED BY <2>1, <4>1
    <3>5. Good(r)
      BY <3>3, <3>4
    <3>6. /\ v[x] \in Nat /\ w[x] \in Nat
          /\ lo * v[x] <= w[x] /\ w[x] <= hi * v[x]
      BY <3>1
    <3> HIDE DEF x, r
    <3>7. /\ lo * (v[x] + C[r]) = lo * v[x] + lo * C[r]
          /\ hi * (v[x] + C[r]) = hi * v[x] + hi * C[r]
          /\ {lo * v[x], lo * C[r], hi * v[x], hi * C[r]} \subseteq Nat
      BY <3>5, <3>6, Distributes
    <3> QED BY <2>2, <3>2, <3>5, <3>6, <3>7
  <2> QED BY <2>3, <2>4
<1>3. ASSUME NEW s \in SUBSET D PROVE Good(s)
    BY <1>1, <1>2
<1> QED BY <1>3

LEMMA SumBetween ==
    ASSUME NEW D, IsFiniteSet(D), NEW f \in [D -> Nat], NEW g \in [D -> Nat],
           NEW lo \in Nat, NEW hi \in Nat,
           \A x \in D : lo * f[x] <= g[x] /\ g[x] <= hi * f[x]
    PROVE  /\ FoldFunction(+, 0, f) \in Nat /\ FoldFunction(+, 0, g) \in Nat
           /\ lo * FoldFunction(+, 0, f) <= FoldFunction(+, 0, g)
           /\ FoldFunction(+, 0, g) <= hi * FoldFunction(+, 0, f)
<1> DEFINE h == [s \in SUBSET D |-> CHOOSE x \in s : TRUE]
<1>1. Picks(h, D) /\ \E C : AddsUp(C, f, h, D) /\ FoldFunction(+, 0, f) = C[D]
    BY SumOfFunction
<1>2. \E E : AddsUp(E, g, h, D) /\ FoldFunction(+, 0, g) = E[D]
    BY SumOfFunction
<1>3. PICK C : AddsUp(C, f, h, D) /\ FoldFunction(+, 0, f) = C[D]
    BY <1>1
<1>4. PICK E : AddsUp(E, g, h, D) /\ FoldFunction(+, 0, g) = E[D]
    BY <1>2
<1> HIDE DEF h
<1>5. \A x \in D : f[x] \in Nat /\ g[x] \in Nat /\ lo * f[x] <= g[x] /\ g[x] <= hi * f[x]
    OBVIOUS
<1>6. C[D] \in Nat /\ E[D] \in Nat /\ lo * C[D] <= E[D] /\ E[D] <= hi * C[D]
  <2>1. \A s \in SUBSET D :
           C[s] \in Nat /\ E[s] \in Nat /\ lo * C[s] <= E[s] /\ E[s] <= hi * C[s]
    BY <1>1, <1>3, <1>4, <1>5, SumsBetween
  <2> QED BY <2>1
<1> QED BY <1>3, <1>4, <1>6

\* A sum is not less than any of its numbers.
LEMMA SumAtLeast ==
    ASSUME NEW D, IsFiniteSet(D), NEW f \in [D -> Nat], NEW e \in D
    PROVE  FoldFunction(+, 0, f) \in Nat /\ f[e] <= FoldFunction(+, 0, f)
<1> DEFINE h == [s \in SUBSET D |-> CHOOSE x \in s : TRUE]
           g == [f EXCEPT ![e] = 0]
<1>1. Picks(h, D) /\ \E C : AddsUp(C, f, h, D) /\ FoldFunction(+, 0, f) = C[D]
    BY SumOfFunction
<1>2. g \in [D -> Nat] /\ g[e] = 0 /\ \A x \in D : x # e => f[x] = g[x]
    OBVIOUS
<1>3. PICK C : AddsUp(C, f, h, D) /\ FoldFunction(+, 0, f) = C[D]
    BY <1>1
<1>4. \E E : AddsUp(E, g, h, D) /\ FoldFunction(+, 0, g) = E[D]
  <2> HIDE DEF g
  <2> QED BY <1>2, SumOfFunction
<1>5. PICK E : AddsUp(E, g, h, D)
    BY <1>4
<1> HIDE DEF h, g
<1>6. \A x \in D : f[x] \in Nat /\ g[x] \in Nat
    BY <1>2
<1>7. Picks(h, D) /\ AddsUp(C, f, h, D)
    BY <1>1, <1>3
<1>8. \A s \in SUBSET D : /\ C[s] \in Nat /\ E[s] \in Nat
                          /\ e \notin s => C[s] = E[s]
                          /\ e \in s => C[s] + g[e] = E[s] + f[e]
    BY <1>2, <1>5, <1>6, <1>7, SumsDiffer
<1>9. C[D] \in Nat /\ f[e] <= C[D]
  <2>1. C[D] \in Nat /\ E[D] \in Nat /\ C[D] + g[e] = E[D] + f[e]
    BY <1>8
  <2> QED BY <1>2, <1>6, <2>1
<1> QED BY <1>3, <1>9

\* A sum does not depend on the element that is taken away first.
LEMMA SumRemoves ==
    ASSUME NEW D, IsFiniteSet(D), NEW v, NEW h, Picks(h, D), \A x \in D : v[x] \in Nat,
           NEW C, AddsUp(C, v, h, D)
    PROVE  \A s \in SUBSET D : C[s] \in Nat /\ \A y \in s : C[s] = v[y] + C[s \ {y}]
<1> DEFINE Good(s) == \A y \in s : C[s] = v[y] + C[s \ {y}]
           Bad == {n \in Nat : \E s \in SUBSET D : Cardinality(s) = n /\ ~Good(s)}
<1>1. \A s \in SUBSET D : IsFiniteSet(s) /\ Cardinality(s) \in Nat
    BY FS_Subset, FS_CardinalityType
<1>2. \A s \in SUBSET D : C[s] \in Nat
    BY SumsDiffer
<1>3. Bad = {}
  <2> SUFFICES ASSUME Bad # {} PROVE FALSE
    OBVIOUS
  <2>1. PICK n \in Bad : \A m \in Bad : n <= m
    BY LeastNatural
  <2>2. PICK s \in SUBSET D : Cardinality(s) = n /\ ~Good(s)
    BY <2>1
  <2>3. PICK y \in s : C[s] # v[y] + C[s \ {y}]
    BY <2>2
  <2> DEFINE x == h[s]
  <2>4. x \in s /\ x \in D /\ y \in D /\ C[s] = v[x] + C[s \ {x}]
    BY <2>3 DEF Picks, AddsUp
  <2>5. x # y
    BY <2>3, <2>4
  <2>6. ASSUME NEW z \in s PROVE Good(s \ {z})
    <3>1. s \ {z} \in SUBSET D /\ Cardinality(s \ {z}) <= n - 1 /\ Cardinality(s \ {z}) \in Nat /\ n \in Nat
      BY <1>1, <2>1, <2>2, OneLess
    <3>2. Cardinality(s \ {z}) \notin Bad
      <4> HIDE DEF Bad
      <4>1. ~(n <= Cardinality(s \ {z}))
        BY <3>1
      <4> QED BY <2>1, <4>1
    <3> QED BY <3>1, <3>2
  <2> HIDE DEF x
  <2>7. C[s \ {x}] = v[y] + C[(s \ {x}) \ {y}]
    BY <2>4, <2>5, <2>6
  <2>8. C[s \ {y}] = v[x] + C[(s \ {y}) \ {x}]
    BY <2>4, <2>5, <2>6
  <2>9. (s \ {x}) \ {y} = (s \ {y}) \ {x} /\ (s \ {x}) \ {y} \in SUBSET D
    OBVIOUS
  <2>10. v[x] \in Nat /\ v[y] \in Nat /\ C[(s \ {x}) \ {y}] \in Nat
    BY <1>2, <2>4, <2>9
  <2> DEFINE r == (s \ {x}) \ {y}
             a == C[s \ {x}]
             b == C[s \ {y}]
  <2>11. a = v[y] + C[r] /\ b = v[x] + C[r] /\ C[r] \in Nat
    BY <2>7, <2>8, <2>9, <2>10
  <2>12. C[s] = v[x] + a /\ C[s] # v[y] + b
    BY <2>3, <2>4
  <2> HIDE DEF r, a, b
  <2> QED BY <2>10, <2>11, <2>12
<1>4. ASSUME NEW s \in SUBSET D PROVE Good(s)
    BY <1>1, <1>3
<1> QED BY <1>2, <1>4

LEMMA SumWithout ==
    ASSUME NEW D, IsFiniteSet(D), NEW v, NEW h, Picks(h, D), \A x \in D : v[x] \in Nat,
           NEW C, AddsUp(C, v, h, D), NEW y \in D
    PROVE  C[D] = v[y] + C[D \ {y}]
<1>1. \A s \in SUBSET D : C[s] \in Nat /\ \A z \in s : C[s] = v[z] + C[s \ {z}]
    BY SumRemoves
<1> QED BY <1>1

\* A sum over one more, g's over f's.
Extends(g, f, e) ==
    /\ IsFiniteSet(DOMAIN f) /\ e \notin DOMAIN f
    /\ f \in [DOMAIN f -> Nat] /\ g \in [DOMAIN f \cup {e} -> Nat]
    /\ \A x \in DOMAIN f : g[x] = f[x]

LEMMA SumGrows ==
    ASSUME NEW f, NEW g, NEW e, Extends(g, f, e)
    PROVE  /\ FoldFunction(+, 0, f) \in Nat
           /\ FoldFunction(+, 0, g) = FoldFunction(+, 0, f) + g[e]
<1> DEFINE D == DOMAIN f
           B == D \cup {e}
           k == [s \in SUBSET B |-> CHOOSE x \in s : TRUE]
           h == [s \in SUBSET D |-> CHOOSE x \in s : TRUE]
<1>0. /\ IsFiniteSet(D) /\ e \notin D /\ f \in [D -> Nat] /\ g \in [B -> Nat]
      /\ \A x \in D : g[x] = f[x]
    BY DEF Extends
<1> HIDE DEF D
<1>1. IsFiniteSet(B)
    BY <1>0, FS_AddElement
<1>2. Picks(k, B) /\ \E C : AddsUp(C, g, k, B) /\ FoldFunction(+, 0, g) = C[B]
  <2> HIDE DEF B
  <2> QED BY <1>0, <1>1, SumOfFunction
<1>3. Picks(h, D) /\ \E C : AddsUp(C, f, h, D) /\ FoldFunction(+, 0, f) = C[D]
    BY <1>0, SumOfFunction
<1>4. PICK C : AddsUp(C, g, k, B) /\ FoldFunction(+, 0, g) = C[B]
    BY <1>2
<1>5. PICK E : AddsUp(E, f, h, D) /\ FoldFunction(+, 0, f) = E[D]
    BY <1>3
<1>6. AddsUp(C, f, h, D)
  <2> SUFFICES ASSUME NEW s \in SUBSET D
               PROVE  C[s] = IF s = {} THEN 0 ELSE f[h[s]] + C[s \ {h[s]}]
    BY DEF AddsUp
  <2>1. s \in SUBSET B /\ k[s] = h[s]
    OBVIOUS
  <2>2. s # {} => h[s] \in D
    BY <1>3 DEF Picks
  <2>3. C[s] = IF s = {} THEN 0 ELSE g[k[s]] + C[s \ {k[s]}]
    BY <1>4, <2>1 DEF AddsUp
  <2> HIDE DEF h, k
  <2> QED BY <1>0, <2>1, <2>2, <2>3
<1>7. C[D] = E[D] /\ E[D] \in Nat
  <2> HIDE DEF h
  <2>0. Picks(h, D) /\ AddsUp(E, f, h, D)
    BY <1>3, <1>5
  <2>1. \A x \in D : f[x] \in Nat /\ (x # e => f[x] = f[x])
    BY <1>0
  <2>2. \A s \in SUBSET D : C[s] \in Nat /\ E[s] \in Nat /\ (e \notin s => C[s] = E[s])
    BY <1>0, <1>6, <2>0, <2>1, SumsDiffer
  <2> QED BY <1>0, <2>2
<1>8. C[B] = g[e] + C[B \ {e}]
  <2>1. \A x \in B : g[x] \in Nat
    BY <1>0
  <2>2. Picks(k, B) /\ AddsUp(C, g, k, B)
    BY <1>2, <1>4
  <2>3. e \in B
    OBVIOUS
  <2> HIDE DEF h, k, B
  <2> QED BY <1>1, <2>1, <2>2, <2>3, SumWithout
<1>9. B \ {e} = D /\ g[e] \in Nat
    BY <1>0
<1>10. C[B] = E[D] + g[e] /\ E[D] \in Nat
  <2>1. C[B] = g[e] + E[D]
    BY <1>7, <1>8, <1>9
  <2> QED BY <1>7, <1>9, <2>1
<1>11. /\ C[B] = FoldFunction(+, 0, g) /\ E[D] = FoldFunction(+, 0, f)
    BY <1>4, <1>5
<1> QED BY <1>10, <1>11
-----------------------------------------------------------------------------
(* Other folds, of whatever is built up from a base: G[x] is what adding x  *)
(* does to it.                                                              *)

FoldsOver(F, G, base, h, D) ==
    \A s \in SUBSET D : F[s] = IF s = {} THEN base ELSE G[h[s]][F[s \ {h[s]}]]

\* There is such a function.
LEMMA FoldExists ==
    ASSUME NEW D, IsFiniteSet(D), NEW V, NEW G \in [D -> [V -> V]], NEW base \in V,
           NEW h, Picks(h, D)
    PROVE  \E F \in [SUBSET D -> V] : FoldsOver(F, G, base, h, D)
<1> DEFINE After(C, s) == IF s = {} THEN base ELSE G[h[s]][C[s \ {h[s]}]]
           Upto(n, C) == \A s \in SUBSET D : Cardinality(s) <= n => C[s] = After(C, s)
           Bad == {n \in Nat : ~\E C \in [SUBSET D -> V] : Upto(n, C)}
<1>1. \A s \in SUBSET D : IsFiniteSet(s) /\ Cardinality(s) \in Nat
    BY FS_Subset, FS_CardinalityType
<1>2. \A C \in [SUBSET D -> V] : \A s \in SUBSET D : After(C, s) \in V
  <2> SUFFICES ASSUME NEW C \in [SUBSET D -> V], NEW s \in SUBSET D PROVE After(C, s) \in V
    OBVIOUS
  <2>1. s # {} => h[s] \in D
    BY DEF Picks
  <2>2. s # {} => G[h[s]] \in [V -> V] /\ C[s \ {h[s]}] \in V
    BY <2>1
  <2> QED BY <2>2
<1>3. Bad = {}
  <2> SUFFICES ASSUME Bad # {} PROVE FALSE
    OBVIOUS
  <2>1. PICK n \in Bad : \A m \in Bad : n <= m
    BY LeastNatural
  <2>0. n \in Nat /\ ~\E C \in [SUBSET D -> V] : Upto(n, C)
    BY <2>1
  <2>2. n # 0
    <3> SUFFICES ASSUME n = 0 PROVE FALSE
      OBVIOUS
    <3> DEFINE C == [s \in SUBSET D |-> base]
    <3>1. C \in [SUBSET D -> V]
      OBVIOUS
    <3>2. Upto(0, C)
      <4> SUFFICES ASSUME NEW s \in SUBSET D, Cardinality(s) <= 0 PROVE C[s] = After(C, s)
        OBVIOUS
      <4>1. s = {}
        BY <1>1, FS_EmptySet
      <4> QED BY <4>1
    <3> HIDE DEF C
    <3> QED BY <2>0, <3>1, <3>2
  <2>3. n - 1 \in Nat /\ n - 1 \notin Bad
    <3> HIDE DEF Bad
    <3>1. n - 1 \in Nat /\ ~(n <= n - 1)
      BY <2>0, <2>2
    <3> QED BY <2>1, <3>1
  <2>4. PICK C \in [SUBSET D -> V] : Upto(n - 1, C)
    BY <2>3
  <2> DEFINE E == [s \in SUBSET D |-> After(C, s)]
  <2>5. E \in [SUBSET D -> V]
    BY <1>2, <2>4
  <2>6. ASSUME NEW s \in SUBSET D, Cardinality(s) <= n PROVE E[s] = After(E, s)
    <3>1. CASE s = {}
      BY <3>1
    <3>2. CASE s # {}
      <4> DEFINE r == s \ {h[s]}
      <4>1. h[s] \in s
        BY <3>2 DEF Picks
      <4>2. Cardinality(r) <= n - 1 /\ r \in SUBSET D
        BY <1>1, <2>0, <2>6, <4>1, OneLess
      <4>3. C[r] = After(C, r)
        BY <2>4, <4>2
      <4>4. E[r] = C[r]
        BY <4>2, <4>3
      <4>5. E[s] = G[h[s]][C[r]]
        BY <3>2
      <4> QED BY <3>2, <4>4, <4>5
    <3> QED BY <3>1, <3>2
  <2>7. n \notin Bad
    BY <2>5, <2>6
  <2> QED BY <2>1, <2>7
<1>4. Cardinality(D) \in Nat
    BY <1>1
<1>5. PICK C \in [SUBSET D -> V] : Upto(Cardinality(D), C)
    BY <1>3, <1>4
<1>6. \A s \in SUBSET D : Cardinality(s) <= Cardinality(D)
    BY FS_Subset
<1> QED BY <1>5, <1>6 DEF FoldsOver

\* Induction over the subsets, for what holds of the members of P.
Grows(P, h, D) == {} \in P /\ \A s \in SUBSET D : s # {} /\ s \ {h[s]} \in P => s \in P
LEMMA SubsetInduction ==
    ASSUME NEW D, IsFiniteSet(D), NEW h, Picks(h, D), NEW P, Grows(P, h, D)
    PROVE  \A s \in SUBSET D : s \in P
<1> DEFINE Bad == {n \in Nat : \E s \in SUBSET D : Cardinality(s) = n /\ s \notin P}
<1>1. \A s \in SUBSET D : IsFiniteSet(s) /\ Cardinality(s) \in Nat
    BY FS_Subset, FS_CardinalityType
<1>2. Bad = {}
  <2> SUFFICES ASSUME Bad # {} PROVE FALSE
    OBVIOUS
  <2>1. PICK n \in Bad : \A m \in Bad : n <= m
    BY LeastNatural
  <2>2. PICK s \in SUBSET D : Cardinality(s) = n /\ s \notin P
    BY <2>1
  <2>3. s # {}
    BY <2>2 DEF Grows
  <2>4. h[s] \in s
    BY <2>3 DEF Picks
  <2>5. /\ Cardinality(s \ {h[s]}) <= n - 1 /\ Cardinality(s \ {h[s]}) \in Nat /\ n \in Nat
    BY <1>1, <2>1, <2>2, <2>4, OneLess
  <2>6. s \ {h[s]} \in P
    <3> HIDE DEF Bad
    <3>1. ~(n <= Cardinality(s \ {h[s]}))
      BY <2>5
    <3>2. Cardinality(s \ {h[s]}) \notin Bad
      BY <2>1, <3>1
    <3> USE DEF Bad
    <3> QED BY <2>5, <3>2
  <2> QED BY <2>2, <2>3, <2>6 DEF Grows
<1> QED BY <1>1, <1>2

\* Induction over the natural numbers, for the members of P.
LEMMA NumberInduction ==
    ASSUME NEW P, 0 \in P, \A k \in Nat : k \in P => k + 1 \in P
    PROVE  \A k \in Nat : k \in P
<1> DEFINE Bad == {n \in Nat : n \notin P}
<1> SUFFICES ASSUME Bad # {} PROVE FALSE
    OBVIOUS
<1>1. PICK n \in Bad : \A m \in Bad : n <= m
    BY LeastNatural
<1>2. n \in Nat /\ n # 0
    BY <1>1
<1>3. n - 1 \in Nat /\ ~(n <= n - 1) /\ (n - 1) + 1 = n
    BY <1>2
<1>4. n - 1 \in P
    BY <1>1, <1>3
<1> QED BY <1>1, <1>3, <1>4

\* Of finitely many places the nearest, the first of those as near.
LEMMA NearestExists ==
    ASSUME NEW n \in Nat, NEW near \in SUBSET (1 .. n), near # {},
           NEW d, \A i \in near : d[i] \in Nat
    PROVE  \E i \in near : \A j \in near : d[i] < d[j] \/ (d[i] = d[j] /\ i <= j)
<1> DEFINE ds == {d[i] : i \in near}
<1>1. ds \in SUBSET Nat /\ ds # {}
    OBVIOUS
<1>2. PICK e \in ds : \A x \in ds : e <= x
  <2> HIDE DEF ds
  <2> QED BY <1>1, LeastNatural
<1> DEFINE is == {i \in near : d[i] = e}
<1>3. is \in SUBSET Nat /\ is # {}
  <2>1. PICK i \in near : d[i] = e
    BY <1>2
  <2>2. i \in is
    BY <2>1
  <2>3. is \in SUBSET Nat
    <3>1. \A x \in is : x \in near
      OBVIOUS
    <3>2. \A x \in 1 .. n : x \in Nat
      OBVIOUS
    <3>3. \A x \in near : x \in 1 .. n
      OBVIOUS
    <3> HIDE DEF is
    <3> QED BY <3>1, <3>2, <3>3
  <2> HIDE DEF is
  <2> QED BY <2>2, <2>3
<1>4. PICK i \in is : \A j \in is : i <= j
  <2> HIDE DEF is
  <2> QED BY <1>3, LeastNatural
<1>5. i \in near /\ d[i] = e /\ e \in Nat
    BY <1>1, <1>2, <1>4
<1>6. ASSUME NEW j \in near PROVE d[i] < d[j] \/ (d[i] = d[j] /\ i <= j)
  <2>1. d[j] \in Nat /\ e <= d[j]
    BY <1>2
  <2>2. d[j] = e => i <= j
    BY <1>4
  <2> QED BY <1>5, <2>1, <2>2
<1> QED BY <1>5, <1>6

\* A non-empty set of places has a last one.
LEMMA LatestPlace ==
    ASSUME NEW N \in Nat, NEW s \in SUBSET (1 .. N), s # {}
    PROVE  \E m \in s : \A i \in s : i <= m
<1> DEFINE P == {k \in Nat : \A t \in SUBSET (1 .. k) : t # {} => \E m \in t : \A i \in t : i <= m}
<1>1. 0 \in P
  <2>1. \A t \in SUBSET (1 .. 0) : t = {}
    OBVIOUS
  <2> QED BY <2>1
<1>2. ASSUME NEW k \in Nat, k \in P PROVE k + 1 \in P
  <2> SUFFICES ASSUME NEW t \in SUBSET (1 .. (k + 1)), t # {}
               PROVE  \E m \in t : \A i \in t : i <= m
    OBVIOUS
  <2>1. CASE k + 1 \in t
    BY <2>1
  <2>2. CASE k + 1 \notin t
    <3>1. t \in SUBSET (1 .. k)
      BY <2>2
    <3> QED BY <1>2, <3>1
  <2> QED BY <2>1, <2>2
<1>3. N \in P
  <2> HIDE DEF P
  <2> QED BY <1>1, <1>2, NumberInduction
<1> QED BY <1>3
-----------------------------------------------------------------------------
(* Sums along a sequence.                                                   *)

\* f holds the partial sums of s.
PartialSums(s, f) ==
    /\ f \in [0 .. Len(s) -> Int] /\ f[0] = 0
    /\ \A n \in 1 .. Len(s) : f[n] = f[n - 1] + s[n]

\* Two functions that hold the partial sums of a sequence are the same.
LEMMA SumsAgree ==
    ASSUME NEW s \in Seq(Int), NEW f, NEW g, PartialSums(s, f), PartialSums(s, g)
    PROVE  f = g
<1> DEFINE L == Len(s)
           Bad == {n \in 0 .. L : f[n] # g[n]}
<1>1. L \in Nat
  OBVIOUS
<1>2. f \in [0 .. L -> Int] /\ g \in [0 .. L -> Int] /\ f[0] = 0 /\ g[0] = 0
      /\ \A n \in 1 .. L : f[n] = f[n - 1] + s[n] /\ g[n] = g[n - 1] + s[n]
  BY DEF PartialSums
<1> HIDE DEF L
<1>3. Bad = {}
  <2> SUFFICES ASSUME Bad # {} PROVE FALSE
    OBVIOUS
  <2>1. Bad \in SUBSET Nat
    BY <1>1
  <2>2. PICK n \in Bad : \A k \in Bad : n <= k
    <3> HIDE DEF Bad
    <3> QED BY <2>1, LeastNatural
  <2>3. n \in 1 .. L /\ n - 1 \in 0 .. L /\ ~(n <= n - 1) /\ f[n] # g[n]
    BY <1>1, <1>2, <2>2
  <2>4. f[n - 1] = g[n - 1]
    BY <2>2, <2>3
  <2>5. QED BY <1>2, <2>3, <2>4
<1>4. f = [n \in 0 .. L |-> f[n]] /\ g = [n \in 0 .. L |-> g[n]]
  BY <1>2
<1>5. QED BY <1>3, <1>4

LEMMA SumsExist == \A s \in Seq(Int) : \E f : PartialSums(s, f)
<1> SUFFICES ASSUME NEW s \in Seq(Int) PROVE \E f : PartialSums(s, f)
  OBVIOUS
<1> DEFINE L == Len(s)
           Upto(f, m) == /\ f \in [0 .. m -> Int] /\ f[0] = 0
                         /\ \A n \in 1 .. m : f[n] = f[n - 1] + s[n]
           Bad == {m \in 0 .. L : ~\E f : Upto(f, m)}
<1>1. L \in Nat /\ \A n \in 1 .. L : s[n] \in Int
  BY ElementOfSeq
<1>2. Bad = {}
  <2> SUFFICES ASSUME Bad # {} PROVE FALSE
    OBVIOUS
  <2> HIDE DEF L
  <2>1. Bad \in SUBSET Nat
    BY <1>1
  <2>2. PICK m \in Bad : \A k \in Bad : m <= k
    <3> HIDE DEF Bad
    <3> QED BY <2>1, LeastNatural
  <2>3. m \in 0 .. L /\ m \in Nat /\ ~\E f : Upto(f, m)
    <3>1. m \in 0 .. L /\ ~\E f : Upto(f, m)
      <4> HIDE DEF Upto
      <4> QED BY <2>2
    <3>2. QED BY <1>1, <3>1
  <2>4. CASE m = 0
    <3> DEFINE f0 == [n \in 0 .. 0 |-> 0]
    <3>1. f0 \in [0 .. m -> Int] /\ f0[0] = 0
      BY <2>4
    <3>2. \A n \in 1 .. m : FALSE
      BY <2>4
    <3>3. Upto(f0, m)
      BY <3>1, <3>2
    <3>4. QED BY <2>3, <3>3
  <2>5. CASE m # 0
    <3>1. m - 1 \in 0 .. L /\ m - 1 \in Nat /\ ~(m <= m - 1) /\ m \in 1 .. L
      BY <1>1, <2>3, <2>5
    <3>2. m - 1 \notin Bad
      BY <2>2, <3>1
    <3>3. PICK g : Upto(g, m - 1)
      BY <3>1, <3>2
    <3> DEFINE f1 == [n \in 0 .. m |-> IF n < m THEN g[n] ELSE g[m - 1] + s[m]]
    <3>4. g \in [0 .. m - 1 -> Int] /\ g[m - 1] \in Int
      BY <3>1, <3>3
    <3>5. f1 \in [0 .. m -> Int]
      <4>1. \A n \in 0 .. m : n < m => g[n] \in Int
        BY <2>3, <3>4
      <4>2. QED BY <1>1, <3>1, <3>4, <4>1
    <3>6. f1[0] = 0
      BY <2>3, <2>5, <3>3
    <3>7. ASSUME NEW n \in 1 .. m PROVE f1[n] = f1[n - 1] + s[n]
      <4>1. n - 1 \in 0 .. m /\ n - 1 < m /\ n \in 0 .. m /\ f1[n - 1] = g[n - 1]
        BY <2>3
      <4>2. CASE n < m
        <5>1. n \in 1 .. m - 1 /\ f1[n] = g[n]
          BY <2>3, <4>1, <4>2
        <5>2. QED BY <3>3, <4>1, <5>1
      <4>3. CASE ~(n < m)
        <5>1. n = m
          BY <2>3, <4>3
        <5>2. QED BY <4>1, <4>3, <5>1
      <4>4. QED BY <4>2, <4>3
    <3> HIDE DEF f1
    <3>8. Upto(f1, m)
      BY <3>5, <3>6, <3>7
    <3>9. QED BY <2>3, <3>8
  <2>6. QED BY <2>4, <2>5
<1>3. L \in 0 .. L
  BY <1>1
<1>4. PICK f : Upto(f, L)
  <2> HIDE DEF Upto, L
  <2> QED BY <1>2, <1>3
<1>5. QED BY <1>4 DEF PartialSums
-----------------------------------------------------------------------------
(* How often an element is among the combinations: counted twice.            *)

\* As many as fall to each, times how many there are.
LEMMA FallToEach ==
    ASSUME NEW R, IsFiniteSet(R), NEW S, IsFiniteSet(S), NEW p \in [R -> S], NEW m \in Nat,
           \A s \in S : Cardinality({r \in R : p[r] = s}) = m
    PROVE  Cardinality(R) = m * Cardinality(S)
<1> DEFINE of(U) == {r \in R : p[r] \in U}
           Bad == {n \in Nat : \E U \in SUBSET S :
                      Cardinality(U) = n /\ Cardinality(of(U)) # m * n}
<1>1. SUFFICES Bad = {}
  <2>1. of(S) = R /\ S \in SUBSET S
    OBVIOUS
  <2>2. Cardinality(S) \in Nat
    BY FS_CardinalityType
  <2>3. Cardinality(of(S)) = m * Cardinality(S)
    <3> HIDE DEF of
    <3> QED BY <1>1, <2>1, <2>2
  <2> QED BY <2>1, <2>3
<1>2. SUFFICES ASSUME Bad # {} PROVE FALSE
  OBVIOUS
<1>3. PICK n \in Bad : \A k \in Bad : n <= k
  BY <1>2, Bad \in SUBSET Nat, LeastNatural
<1>4. PICK U \in SUBSET S : Cardinality(U) = n /\ Cardinality(of(U)) # m * n
  BY <1>3
<1>5. n \in Nat /\ IsFiniteSet(U)
  BY <1>3, FS_Subset
<1>6. U # {}
  <2> SUFFICES ASSUME U = {} PROVE FALSE
    OBVIOUS
  <2>1. n = 0 /\ of(U) = {}
    BY <1>4, FS_EmptySet
  <2>2. m * 0 = 0
    OBVIOUS
  <2> QED BY <1>4, <2>1, <2>2, FS_EmptySet
<1>7. PICK x \in U : TRUE
  BY <1>6
<1> DEFINE V == U \ {x}
           fall == {r \in R : p[r] = x}
<1>8. V \in SUBSET S /\ Cardinality(V) = n - 1 /\ n - 1 \in Nat /\ x \in S
  <2>1. IsFiniteSet(V) /\ Cardinality(V) = Cardinality(U) - 1
    BY <1>5, <1>7, FS_RemoveElement
  <2>2. Cardinality(V) \in Nat
    BY <2>1, FS_CardinalityType
  <2> QED BY <1>4, <1>7, <2>1, <2>2
<1>9. Cardinality(of(V)) = m * (n - 1)
  <2>1. (n - 1) \notin Bad
    BY <1>3, <1>5, <1>8
  <2> HIDE DEF of, V
  <2> QED BY <1>8, <2>1
<1>10. of(U) = of(V) \cup fall /\ of(V) \cap fall = {}
  BY <1>7
<1>11. IsFiniteSet(of(V)) /\ IsFiniteSet(fall)
  BY FS_Subset, of(V) \in SUBSET R, fall \in SUBSET R
<1>12. Cardinality(fall) = m
  BY <1>8
<1> HIDE DEF of, V, fall, Bad
<1>13. Cardinality(of(U)) = m * (n - 1) + m
  <2>1. Cardinality(of(V) \cup fall)
           = Cardinality(of(V)) + Cardinality(fall) - Cardinality(of(V) \cap fall)
    BY <1>11, FS_Union
  <2>2. Cardinality(of(V) \cap fall) = 0
    BY <1>10, FS_EmptySet
  <2>3. Cardinality(of(V)) \in Nat
    BY <1>11, FS_CardinalityType
  <2> QED BY <1>9, <1>10, <1>12, <2>1, <2>2, <2>3
<1>14. m * ((n - 1) + 1) = m * (n - 1) + m * 1
  BY <1>8, Distributes
<1> QED BY <1>4, <1>5, <1>13, <1>14, (n - 1) + 1 = n, m * 1 = m

\* The combinations that have g, each with h in its place, have h.
Having(C, h) == {c \in C : h \in c}

LEMMA NoGroupIsFavoured ==
    ASSUME NEW S, IsFiniteSet(S), NEW k \in Nat, NEW g \in S, NEW h \in S,
           NEW C, C = {c \in SUBSET S : Cardinality(c) = k}
    PROVE  Cardinality(Having(C, g)) <= Cardinality(Having(C, h))
<1>1. IsFiniteSet(Having(C, h))
  <2>1. IsFiniteSet(SUBSET S)
    BY FS_SUBSET
  <2> QED BY <2>1, FS_Subset, Having(C, h) \in SUBSET (SUBSET S) DEF Having
<1>2. CASE g = h
  <2>1. Cardinality(Having(C, h)) \in Nat
    BY <1>1, FS_CardinalityType
  <2> QED BY <1>2, <2>1
<1>3. CASE g # h
  <2> DEFINE put(c) == IF h \in c THEN c ELSE (c \ {g}) \cup {h}
             f == [c \in Having(C, g) |-> put(c)]
  <2>1. \A c \in C : g \in c => put(c) \in C /\ h \in put(c)
    <3> SUFFICES ASSUME NEW c \in C, g \in c, h \notin c
                 PROVE  (c \ {g}) \cup {h} \in C
      BY <1>3
    <3>1. c \in SUBSET S /\ Cardinality(c) = k /\ IsFiniteSet(c)
      BY FS_Subset
    <3>2. IsFiniteSet(c \ {g}) /\ Cardinality(c \ {g}) = k - 1
      BY <3>1, FS_RemoveElement
    <3>3. Cardinality((c \ {g}) \cup {h}) = (k - 1) + 1
      BY <3>2, FS_AddElement
    <3>4. (c \ {g}) \cup {h} \in SUBSET S
      BY <3>1
    <3> QED BY <3>3, <3>4, (k - 1) + 1 = k
  <2>2. \A c, d \in C : g \in c /\ g \in d /\ put(c) = put(d) => c = d
    <3> SUFFICES ASSUME NEW c \in C, NEW d \in C, g \in c, g \in d, put(c) = put(d)
                 PROVE  c = d
      OBVIOUS
    <3>1. CASE h \in c /\ h \in d
      BY <3>1
    <3>2. CASE h \in c /\ h \notin d
      <4>1. g \in put(c) /\ g \notin put(d)
        BY <1>3, <3>2
      <4> QED BY <4>1
    <3>3. CASE h \notin c /\ h \in d
      <4>1. g \notin put(c) /\ g \in put(d)
        BY <1>3, <3>3
      <4> QED BY <4>1
    <3>4. CASE h \notin c /\ h \notin d
      <4>1. (c \ {g}) \cup {h} = (d \ {g}) \cup {h}
        BY <3>4
      <4>2. \A x : x \in c <=> x \in d
        <5> SUFFICES ASSUME NEW x, x # g, x # h PROVE x \in c <=> x \in d
          BY <3>4
        <5>1. x \in c <=> x \in (c \ {g}) \cup {h}
          OBVIOUS
        <5>2. x \in d <=> x \in (d \ {g}) \cup {h}
          OBVIOUS
        <5> QED BY <4>1, <5>1, <5>2
      <4> QED BY <4>2
    <3> QED BY <3>1, <3>2, <3>3, <3>4
  <2> HIDE DEF put
  <2>3. f \in Injection(Having(C, g), Having(C, h))
    BY <2>1, <2>2 DEF Having, Injection, IsInjective
  <2> QED BY <1>1, <2>3, FS_Injection
<1> QED BY <1>2, <1>3

\* Every element is in as many combinations as any other.
LEMMA EachAsOften ==
    ASSUME NEW S, IsFiniteSet(S), NEW k \in Nat, NEW g \in S,
           NEW C, C = {c \in SUBSET S : Cardinality(c) = k}
    PROVE  /\ IsFiniteSet(C)
           /\ Cardinality(Having(C, g)) * Cardinality(S) = Cardinality(C) * k
<1> DEFINE with(h) == Having(C, h)
           m == Cardinality(with(g))
           R == {r \in C \X S : r[2] \in r[1]}
<1>1. IsFiniteSet(C) /\ \A h \in S : IsFiniteSet(with(h))
  <2>1. IsFiniteSet(SUBSET S)
    BY FS_SUBSET
  <2>2. C \in SUBSET (SUBSET S) /\ \A h \in S : with(h) \in SUBSET (SUBSET S)
    BY DEF Having
  <2> HIDE DEF with
  <2> QED BY <2>1, <2>2, FS_Subset
<1>2. m \in Nat
  BY <1>1, FS_CardinalityType
<1>3. IsFiniteSet(R)
  <2>1. IsFiniteSet(C \X S)
    BY <1>1, FS_Product
  <2> QED BY <2>1, FS_Subset, R \in SUBSET (C \X S)
<1>4. \A h \in S : Cardinality(with(h)) = m
  <2> SUFFICES ASSUME NEW h \in S PROVE Cardinality(with(h)) = m
    OBVIOUS
  <2>1. Cardinality(with(h)) <= m /\ m <= Cardinality(with(h))
    BY NoGroupIsFavoured
  <2>2. Cardinality(with(h)) \in Nat
    BY <1>1, FS_CardinalityType
  <2> HIDE DEF with, m
  <2> QED BY <1>2, <2>1, <2>2
<1>5. Cardinality(R) = k * Cardinality(C)
  <2> DEFINE p == [r \in R |-> r[1]]
  <2>1. p \in [R -> C]
    OBVIOUS
  <2>2. \A c \in C : Cardinality({r \in R : p[r] = c}) = k
    <3> SUFFICES ASSUME NEW c \in C
                 PROVE  Cardinality({r \in R : p[r] = c}) = k
      OBVIOUS
    <3>1. IsFiniteSet(c) /\ Cardinality(c) = k /\ c \in SUBSET S
      BY FS_Subset
    <3>2. [h \in c |-> <<c, h>>] \in Bijection(c, {r \in R : p[r] = c})
      <4> DEFINE f == [h \in c |-> <<c, h>>]
      <4>1. \A h \in c : <<c, h>> \in {r \in R : p[r] = c}
        BY <3>1
      <4>2. \A r \in {r \in R : p[r] = c} : r[2] \in c /\ r = <<c, r[2]>>
        OBVIOUS
      <4> QED BY <4>1, <4>2 DEF Bijection, Injection, Surjection, IsInjective
    <3> QED BY <3>1, <3>2, FS_Bijection DEF ExistsBijection
  <2> HIDE DEF p, R
  <2> QED BY <1>1, <1>3, <2>1, <2>2, FallToEach
<1>6. Cardinality(R) = m * Cardinality(S)
  <2> DEFINE p == [r \in R |-> r[2]]
  <2>1. p \in [R -> S]
    OBVIOUS
  <2>2. \A h \in S : Cardinality({r \in R : p[r] = h}) = m
    <3> SUFFICES ASSUME NEW h \in S
                 PROVE  Cardinality({r \in R : p[r] = h}) = m
      OBVIOUS
    <3>1. IsFiniteSet(with(h)) /\ Cardinality(with(h)) = m
      BY <1>1, <1>4
    <3>2. [c \in with(h) |-> <<c, h>>] \in Bijection(with(h), {r \in R : p[r] = h})
      <4> DEFINE f == [c \in with(h) |-> <<c, h>>]
      <4>1. \A c \in with(h) : <<c, h>> \in {r \in R : p[r] = h}
        BY DEF Having
      <4>2. \A r \in {r \in R : p[r] = h} : r[1] \in with(h) /\ r = <<r[1], h>>
        BY DEF Having
      <4> QED BY <4>1, <4>2 DEF Bijection, Injection, Surjection, IsInjective
    <3> QED BY <3>1, <3>2, FS_Bijection DEF ExistsBijection
  <2> HIDE DEF p, R, m
  <2> QED BY <1>2, <1>3, <2>1, <2>2, FallToEach
<1>7. Cardinality(C) \in Nat /\ Cardinality(S) \in Nat
  BY <1>1, FS_CardinalityType
<1> HIDE DEF m, R
<1>8. m * Cardinality(S) = Cardinality(C) * k
  BY <1>2, <1>5, <1>6, <1>7
<1> QED BY <1>1, <1>8 DEF m
=============================================================================
