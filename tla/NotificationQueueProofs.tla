----------------------- MODULE NotificationQueueProofs -----------------------
(***************************************************************************)
(* Theorems about the notification queue, for every set of events, every   *)
(* capacity and both settings of drop_low_priority_when_full and           *)
(* coalesce_low.  The inductive invariant is IInv of NotificationQueue.    *)
(***************************************************************************)
EXTENDS NotificationQueue, SequenceLemmas

-----------------------------------------------------------------------------
(* Lanes are ascending in the id of their notes.                            *)

\* A note newer than every note of a lane goes to its tail.
LEMMA AscendingAppend ==
    ASSUME NEW s \in Seq(Note), Ascending(s), NEW x \in Note,
           \A y \in ToSet(s) : y.id < x.id
    PROVE  Ascending(Append(s, x))
<1>1. /\ Len(s) \in Nat
      /\ Len(Append(s, x)) = Len(s) + 1
      /\ \A j \in 1..Len(s) : Append(s, x)[j] = s[j]
      /\ Append(s, x)[Len(s) + 1] = x
  BY AppendFacts
<1>2. \A j \in 1..Len(s) : s[j] \in ToSet(s)
  BY DEF ToSet
<1> SUFFICES ASSUME NEW i \in 1..(Len(s) + 1), NEW j \in 1..(Len(s) + 1), i < j
             PROVE  Append(s, x)[i].id < Append(s, x)[j].id
  BY <1>1 DEF Ascending
<1>3. i \in 1..Len(s)
  BY <1>1
<1>4. CASE j = Len(s) + 1
  BY <1>1, <1>2, <1>3, <1>4
<1>5. CASE j # Len(s) + 1
  <2>1. j \in 1..Len(s)
    BY <1>1, <1>5
  <2>2. QED BY <2>1, <1>1, <1>3 DEF Ascending
<1>6. QED BY <1>4, <1>5

\* The head of a lane is older than everything behind it.
LEMMA AscendingTail ==
    ASSUME NEW s \in Seq(Note), Ascending(s), s # <<>>
    PROVE  /\ Ascending(Tail(s))
           /\ \A y \in ToSet(Tail(s)) : Head(s).id < y.id
<1>1. /\ Head(s) = s[1] /\ Tail(s) \in Seq(Note) /\ Len(s) \in Nat \ {0}
      /\ Len(Tail(s)) = Len(s) - 1
      /\ \A j \in 1..(Len(s) - 1) : Tail(s)[j] = s[j + 1]
  BY TailFacts
<1>2. Ascending(Tail(s))
  <2> SUFFICES ASSUME NEW i \in 1..(Len(s) - 1), NEW j \in 1..(Len(s) - 1), i < j
               PROVE  Tail(s)[i].id < Tail(s)[j].id
    BY <1>1 DEF Ascending
  <2>1. i + 1 \in 1..Len(s) /\ j + 1 \in 1..Len(s) /\ i + 1 < j + 1
    BY <1>1
  <2>2. s[i + 1].id < s[j + 1].id
    BY <2>1 DEF Ascending
  <2>3. QED BY <2>2, <1>1
<1>3. ASSUME NEW y \in ToSet(Tail(s))
      PROVE  Head(s).id < y.id
  <2>1. PICK j \in 1..(Len(s) - 1) : y = Tail(s)[j]
    BY <1>1, LenProperties DEF ToSet
  <2>2. j + 1 \in 1..Len(s) /\ 1 \in 1..Len(s) /\ 1 < j + 1
    BY <1>1
  <2>3. s[1].id < s[j + 1].id
    BY <2>2 DEF Ascending
  <2>4. QED BY <2>1, <2>3, <1>1
<1>4. QED BY <1>2, <1>3

\* Deleting a note keeps the order, and no note of the rest has its id.
LEMMA AscendingRemoveAt ==
    ASSUME NEW s \in Seq(Note), Ascending(s), NEW k \in 1..Len(s)
    PROVE  /\ Ascending(RemoveAt(s, k))
           /\ \A y \in ToSet(RemoveAt(s, k)) : y.id # s[k].id
<1> DEFINE r == RemoveAt(s, k)
<1>1. /\ r \in Seq(Note) /\ Len(s) \in Nat \ {0} /\ Len(r) = Len(s) - 1
      /\ \A j \in 1..(Len(s) - 1) : r[j] = IF j < k THEN s[j] ELSE s[j + 1]
  BY RemoveAtFacts
<1>2. \A i \in 1..Len(s) : s[i].id \in Nat
  <2>1. \A i \in 1..Len(s) : s[i] \in Note
    OBVIOUS
  <2>2. QED BY <2>1 DEF Note
<1> HIDE DEF r
<1>3. Ascending(r)
  <2> SUFFICES ASSUME NEW i \in 1..(Len(s) - 1), NEW j \in 1..(Len(s) - 1), i < j
               PROVE  r[i].id < r[j].id
    BY <1>1 DEF Ascending
  <2>1. /\ i \in 1..Len(s) /\ i + 1 \in 1..Len(s)
        /\ j \in 1..Len(s) /\ j + 1 \in 1..Len(s)
    BY <1>1
  <2>2. s[i].id < s[j].id /\ s[i].id < s[j + 1].id /\ s[i + 1].id < s[j + 1].id
    BY <2>1 DEF Ascending
  <2>3. ~(j < k /\ ~(i < k))
    OBVIOUS
  <2>4. QED BY <2>2, <2>3, <1>1
<1>4. ASSUME NEW y \in ToSet(r)
      PROVE  y.id # s[k].id
  <2>1. PICK j \in 1..(Len(s) - 1) : y = r[j]
    BY <1>1, LenProperties DEF ToSet
  <2>2. j \in 1..Len(s) /\ j + 1 \in 1..Len(s)
    BY <1>1
  <2>3. CASE j < k
    <3>1. s[j].id < s[k].id
      BY <2>2, <2>3 DEF Ascending
    <3>2. QED BY <3>1, <2>1, <2>2, <2>3, <1>1, <1>2
  <2>4. CASE ~(j < k)
    <3>1. s[k].id < s[j + 1].id
      BY <2>2, <2>4 DEF Ascending
    <3>2. QED BY <3>1, <2>1, <2>2, <2>4, <1>1, <1>2
  <2>5. QED BY <2>3, <2>4
<1>5. QED BY <1>3, <1>4 DEF r

\* The scan for a victim finds one whenever a LOW note is queued.
LEMMA OldestLowFacts ==
    ASSUME lowmed \in Seq(Note), LowIndices # {}
    PROVE  /\ OldestLow \in 1..Len(lowmed)
           /\ IsLow(lowmed[OldestLow])
           /\ \A j \in LowIndices : OldestLow <= j
<1>1. LowIndices \in SUBSET Nat
  BY LenProperties DEF LowIndices
<1>2. \E i \in LowIndices : \A j \in LowIndices : i <= j
  BY <1>1, LeastNatural
<1>3. OldestLow \in LowIndices /\ \A j \in LowIndices : OldestLow <= j
  BY <1>2 DEF OldestLow
<1>4. QED BY <1>3, LenProperties DEF LowIndices

-----------------------------------------------------------------------------
(* Steps of the owner: enqueue, flush, close.                               *)

\* What inserting n does to the invariant, with or without a victim: rest is
\* the LOW/MEDIUM lane without it, out the set of victims (at most one).
LEMMA InsertKeeps ==
    ASSUME IInv, NEW n \in Note, n.id = offered + 1,
           NEW rest \in Seq(Note), NEW pend \in [Event -> Nat], NEW out,
           Ascending(rest), ToSet(lowmed) = ToSet(rest) \cup out,
           ToSet(rest) \cap out = {}, \A v \in out : IsLow(v),
           Len(high) + Len(rest) < MaxSize,
           offered < MaxOffers, owner = "running",
           Insert(n, rest, pend),
           offered' = offered + 1, evicted' = evicted \cup out,
           metrics' \in [Metric -> Nat],
           UNCHANGED <<thread, control, delivered>>
    PROVE  /\ TypeOK' /\ DepthBounded' /\ NoAcceptedNoteLost' /\ LaneShape'
           /\ IdOrder' /\ LaneOrder' /\ WorkerShape'
           /\ Depth' = Len(high) + Len(rest) + 1
<1> USE DEF IInv, thread, control
<1>1. high \in Seq(Note) /\ lowmed \in Seq(Note) /\ offered \in Nat
      /\ evicted \subseteq Note /\ accepted \subseteq Note
      /\ Len(high) \in Nat /\ Len(rest) \in Nat /\ MaxSize \in Nat
  BY QueueAssumption DEF TypeOK
<1>2. \A a \in accepted : a.id \in Nat /\ a.id < n.id /\ a # n
  BY <1>1 DEF IdOrder
<1>3. n \notin accepted /\ n.id \in Nat
  BY <1>2 DEF Note
<1>4. /\ ToSet(high) \subseteq accepted /\ ToSet(rest) \subseteq accepted
      /\ out \subseteq accepted /\ out \subseteq Waiting
      /\ Waiting = ToSet(high) \cup ToSet(rest) \cup out
  BY DEF NoAcceptedNoteLost, Waiting
<1>5. ToSet(high) \cap out = {}
  BY DEF LaneShape, IsHigh, IsLow, High, Low
<1>6. /\ high' \in Seq(Note) /\ lowmed' \in Seq(Note)
      /\ Waiting' = ToSet(high) \cup ToSet(rest) \cup {n}
      /\ Ascending(high') /\ Ascending(lowmed')
      /\ Len(high') + Len(lowmed') = Len(high) + Len(rest) + 1
      /\ LaneShape'
  <2>1. /\ \A y \in ToSet(high) : y.id < n.id
        /\ \A y \in ToSet(rest) : y.id < n.id
    BY <1>2, <1>4
  <2>2. CASE IsHigh(n)
    <3>1. high' = Append(high, n) /\ lowmed' = rest
      BY <2>2 DEF Insert
    <3>2. /\ Append(high, n) \in Seq(Note) /\ Ascending(Append(high, n))
          /\ Len(Append(high, n)) = Len(high) + 1
          /\ ToSet(Append(high, n)) = ToSet(high) \cup {n}
      BY <1>1, <2>1, AppendFacts, AscendingAppend DEF IdOrder
    <3>3. QED BY <3>1, <3>2, <1>1, <2>2 DEF Waiting, LaneShape
  <2>3. CASE ~IsHigh(n)
    <3>1. high' = high /\ lowmed' = Append(rest, n)
      BY <2>3 DEF Insert
    <3>2. /\ Append(rest, n) \in Seq(Note) /\ Ascending(Append(rest, n))
          /\ Len(Append(rest, n)) = Len(rest) + 1
          /\ ToSet(Append(rest, n)) = ToSet(rest) \cup {n}
      BY <1>1, <2>1, AppendFacts, AscendingAppend
    <3>3. QED BY <3>1, <3>2, <1>1, <2>3 DEF Waiting, LaneShape, IdOrder
  <2>4. QED BY <2>2, <2>3
<1>7. TypeOK'
  <2>1. pendingLow' \in [Event -> Nat]
    BY DEF Insert, Note
  <2>2. accepted' \subseteq Note /\ evicted' \subseteq Note
    BY <1>1, <1>4 DEF Insert
  <2>3. offered' \in 0..MaxOffers
    BY <1>1, QueueAssumption
  <2>4. QED BY <1>6, <2>1, <2>2, <2>3 DEF TypeOK, Insert
<1>8. Depth' = Len(high) + Len(rest) + 1 /\ DepthBounded'
  BY <1>1, <1>6 DEF Depth, DepthBounded
<1>9. InFlight' = InFlight /\ Reported' = Reported
  BY DEF InFlight, Reported
<1>10. NoAcceptedNoteLost'
  <2>1. accepted' = accepted \cup {n}
    BY DEF Insert
  <2>2. InFlight \subseteq accepted /\ Reported \subseteq accepted
        /\ evicted \subseteq accepted
    BY DEF NoAcceptedNoteLost
  <2>3. accepted' = Waiting' \cup InFlight' \cup Reported' \cup evicted'
    BY <1>4, <1>6, <1>9, <2>1 DEF NoAcceptedNoteLost
  <2>4. \A v \in evicted' : IsLow(v)
    BY DEF NoAcceptedNoteLost
  <2>5. /\ n \notin InFlight /\ n \notin Reported /\ n \notin evicted
        /\ n \notin out
    BY <1>3, <1>4, <2>2
  <2>6. Waiting' \cap (InFlight' \cup Reported' \cup evicted') = {}
    BY <1>4, <1>5, <1>6, <1>9, <2>5 DEF NoAcceptedNoteLost
  <2>7. /\ InFlight' \cap (Reported' \cup evicted') = {}
        /\ Reported' \cap evicted' = {}
    BY <1>4, <1>9 DEF NoAcceptedNoteLost
  <2>8. QED BY <2>3, <2>4, <2>6, <2>7 DEF NoAcceptedNoteLost
<1>11. IdOrder'
  <2>1. \A a \in accepted' : a.id \in 1..offered'
    BY <1>1, <1>3 DEF Insert, IdOrder
  <2>2. \A a \in InFlight \cup Reported : Before(a, n)
    BY <1>2 DEF NoAcceptedNoteLost, Before
  <2>3. /\ \A a \in InFlight', m \in Waiting' : Before(a, m)
        /\ \A a \in Reported', m \in Waiting' \cup InFlight' : Before(a, m)
    BY <1>4, <1>6, <1>9, <2>2 DEF IdOrder
  <2>4. QED BY <1>6, <2>1, <2>3 DEF IdOrder
<1>12. LaneOrder' /\ WorkerShape'
  BY DEF LaneOrder, WorkerShape
<1>13. QED BY <1>6, <1>7, <1>8, <1>10, <1>11, <1>12

\* The counters of one enqueue: Bump raises exactly one of them.
LEMMA BumpFacts ==
    ASSUME NEW m \in [Metric -> Nat], NEW name \in Metric
    PROVE  /\ Bump(m, name) \in [Metric -> Nat]
           /\ Bump(m, name)[name] = m[name] + 1
           /\ \A x \in Metric : x # name => Bump(m, name)[x] = m[x]
BY DEF Bump

\* The counters as numbers, so that arithmetic need not look into functions.
LEMMA HealthOfBump ==
    ASSUME metrics \in [Metric -> Nat], NEW name \in Metric,
           name # "blocking_sends_prevented",
           metrics' = Bump(Bump(metrics, "blocking_sends_prevented"), name)
    PROVE  /\ metrics' \in [Metric -> Nat]
           /\ metrics'["blocking_sends_prevented"] =
                metrics["blocking_sends_prevented"] + 1
           /\ metrics'[name] = metrics[name] + 1
           /\ \A x \in Metric \ {name, "blocking_sends_prevented"} :
                metrics'[x] = metrics[x]
<1> DEFINE m == Bump(metrics, "blocking_sends_prevented")
<1>1. /\ m \in [Metric -> Nat]
      /\ m["blocking_sends_prevented"] = metrics["blocking_sends_prevented"] + 1
      /\ \A x \in Metric : x # "blocking_sends_prevented" => m[x] = metrics[x]
  BY BumpFacts DEF Metric
<1> HIDE DEF m
<1>2. /\ Bump(m, name) \in [Metric -> Nat]
      /\ Bump(m, name)[name] = m[name] + 1
      /\ \A x \in Metric : x # name => Bump(m, name)[x] = m[x]
  BY <1>1, BumpFacts
<1>3. metrics' = Bump(m, name)
  BY DEF m
<1>4. "blocking_sends_prevented" \in Metric
  BY DEF Metric
<1>5. QED BY <1>1, <1>2, <1>3, <1>4

LEMMA HealthNumbers ==
    ASSUME metrics \in [Metric -> Nat], high \in Seq(Note), lowmed \in Seq(Note)
    PROVE  /\ HealthDropped \in Nat /\ Depth \in Nat /\ metrics["sent"] \in Nat
           /\ metrics["failed"] \in Nat /\ metrics["coalesced"] \in Nat
           /\ metrics["blocking_sends_prevented"] \in Nat
           /\ \A x \in Metric : metrics[x] \in Nat
<1>1. \A x \in Metric : metrics[x] \in Nat
  OBVIOUS
<1>2. /\ metrics["sent"] \in Nat /\ metrics["failed"] \in Nat
      /\ metrics["coalesced"] \in Nat /\ metrics["blocking_sends_prevented"] \in Nat
      /\ metrics["dropped_low_full"] \in Nat /\ metrics["dropped_medium_full"] \in Nat
      /\ metrics["dropped_high_full"] \in Nat /\ metrics["dropped_low_for_high"] \in Nat
      /\ metrics["dropped_low_for_medium"] \in Nat
  BY <1>1 DEF Metric
<1>3. HealthDropped \in Nat
  <2>1. \A a, b, c, d, e \in Nat : a + b + c + d + e \in Nat
    OBVIOUS
  <2>2. QED BY <1>2, <2>1, Zenon DEF HealthDropped
<1>4. Depth \in Nat
  <2>1. Len(high) \in Nat /\ Len(lowmed) \in Nat
    BY LenProperties
  <2>2. QED BY <2>1 DEF Depth
<1>5. QED BY <1>1, <1>2, <1>3, <1>4

LEMMA EnqueueKeeps ==
    ASSUME IInv, NEW o \in Offers, Enqueue(o)
    PROVE  IInv'
<1> DEFINE n == [id |-> offered + 1, event |-> o.event, pr |-> o.pr]
           m == Bump(metrics, "blocking_sends_prevented")
<1>1. /\ owner = "running" /\ offered < MaxOffers /\ offered' = offered + 1
      /\ Coalesce(n, m) \/ AcceptWithRoom(n, m) \/ AcceptEvicting(n, m) \/ Refuse(n, m)
      /\ UNCHANGED <<thread, control, delivered>>
  BY DEF Enqueue
<1>2. /\ n \in Note /\ n.id = offered + 1 /\ offered \in Nat
      /\ metrics \in [Metric -> Nat] /\ m \in [Metric -> Nat]
  <2>1. offered \in Nat /\ metrics \in [Metric -> Nat]
    BY QueueAssumption DEF IInv, TypeOK
  <2>2. m \in [Metric -> Nat]
    BY <2>1, BumpFacts DEF Metric
  <2>3. n \in Note
    BY <2>1, QueueAssumption DEF Note
  <2>4. QED BY <2>1, <2>2, <2>3
<1>3. /\ high \in Seq(Note) /\ lowmed \in Seq(Note)
      /\ Len(high) \in Nat /\ Len(lowmed) \in Nat /\ MaxSize \in Nat
      /\ pendingLow \in [Event -> Nat] /\ coalescedExtra \in [Event -> Nat]
  BY QueueAssumption DEF IInv, TypeOK
<1>4. (\A x \in {"sent", "failed", "coalesced", "dropped_low_full",
                 "dropped_medium_full", "dropped_high_full",
                 "dropped_low_for_high", "dropped_low_for_medium"} :
          x \in Metric /\ x # "blocking_sends_prevented")
      /\ "dropped_low_for_low" \in Metric
      /\ "blocking_sends_prevented" \in Metric
  BY DEF Metric
<1> HIDE DEF n, m
<1>5. CASE Coalesce(n, m)
  <2>1. /\ metrics' = Bump(m, "coalesced")
        /\ coalescedExtra' = [coalescedExtra EXCEPT ![n.event] = @ + 1]
        /\ UNCHANGED <<lanes, accepted, evicted>>
    BY <1>5 DEF Coalesce
  <2>2. coalescedExtra' \in [Event -> Nat]
    BY <1>2, <1>3, <2>1 DEF Note
  <2>3. /\ metrics' \in [Metric -> Nat]
        /\ metrics'["blocking_sends_prevented"] = metrics["blocking_sends_prevented"] + 1
        /\ metrics'["coalesced"] = metrics["coalesced"] + 1
        /\ \A x \in Metric \ {"coalesced", "blocking_sends_prevented"} :
              metrics'[x] = metrics[x]
    BY <1>2, <1>4, <2>1, HealthOfBump DEF m
  <2>4. UNCHANGED <<high, lowmed, pendingLow, worker, current, extra, sending,
                    owner, stop, flushed, delivered, accepted, evicted>>
    BY <1>1, <2>1 DEF lanes, thread, control
  <2>5. TypeOK'
    BY <1>1, <1>2, <2>2, <2>3, <2>4, QueueAssumption DEF IInv, TypeOK
  <2>6. DepthBounded' /\ NoAcceptedNoteLost' /\ LaneShape' /\ LaneOrder' /\ WorkerShape'
    BY <2>4 DEF IInv, DepthBounded, Depth, NoAcceptedNoteLost, Waiting, InFlight,
                Reported, LaneShape, LaneOrder, WorkerShape
  <2>7. IdOrder'
    BY <1>1, <1>2, <2>4 DEF IInv, IdOrder, Waiting, InFlight, Reported, Ascending
  <2>8. HealthBalances'
    <3>1. Depth' = Depth /\ current' = current
      BY <2>4 DEF Depth
    <3>2. HealthDropped' = HealthDropped
      BY <1>4, <2>3 DEF HealthDropped
    <3>3. metrics'["sent"] = metrics["sent"] /\ metrics'["failed"] = metrics["failed"]
      BY <1>4, <2>3
    <3>4. /\ HealthDropped \in Nat /\ Depth \in Nat /\ metrics["sent"] \in Nat
          /\ metrics["failed"] \in Nat /\ metrics["coalesced"] \in Nat
          /\ metrics["blocking_sends_prevented"] \in Nat
      BY <1>2, <1>3, HealthNumbers
    <3>5. QED BY <2>3, <3>1, <3>2, <3>3, <3>4 DEF IInv, HealthBalances
  <2>9. QED BY <2>5, <2>6, <2>7, <2>8 DEF IInv
<1>6. CASE AcceptWithRoom(n, m)
  <2>1. /\ Insert(n, lowmed, pendingLow) /\ metrics' = m /\ evicted' = evicted \cup {}
        /\ Len(high) + Len(lowmed) < MaxSize
    BY <1>3, <1>6 DEF AcceptWithRoom, Full, Depth
  <2>2. /\ TypeOK' /\ DepthBounded' /\ NoAcceptedNoteLost' /\ LaneShape'
        /\ IdOrder' /\ LaneOrder' /\ WorkerShape'
        /\ Depth' = Len(high) + Len(lowmed) + 1
    <3>1. /\ ToSet(lowmed) = ToSet(lowmed) \cup {} /\ ToSet(lowmed) \cap {} = {}
          /\ \A v \in {} : IsLow(v)
          /\ metrics' \in [Metric -> Nat]
          /\ Ascending(lowmed)
      BY <1>2, <2>1 DEF IInv, IdOrder
    <3>2. QED BY <1>1, <1>2, <1>3, <2>1, <3>1, InsertKeeps
  <2>3. HealthBalances'
    <3>1. /\ metrics'["blocking_sends_prevented"] = metrics["blocking_sends_prevented"] + 1
          /\ \A x \in Metric \ {"blocking_sends_prevented"} : metrics'[x] = metrics[x]
      <4>1. metrics' = Bump(metrics, "blocking_sends_prevented")
        BY <2>1 DEF m
      <4>2. QED BY <1>2, <1>4, <4>1, BumpFacts
    <3>2. HealthDropped' = HealthDropped
      BY <1>4, <3>1 DEF HealthDropped
    <3>3. /\ metrics'["sent"] = metrics["sent"] /\ metrics'["failed"] = metrics["failed"]
          /\ metrics'["coalesced"] = metrics["coalesced"]
      BY <1>4, <3>1
    <3>4. /\ HealthDropped \in Nat /\ Depth \in Nat /\ metrics["sent"] \in Nat
          /\ metrics["failed"] \in Nat /\ metrics["coalesced"] \in Nat
          /\ metrics["blocking_sends_prevented"] \in Nat
      BY <1>2, <1>3, HealthNumbers
    <3>5. current' = current /\ Depth' = Depth + 1
      BY <1>1, <2>2 DEF thread, Depth
    <3>6. QED BY <3>1, <3>2, <3>3, <3>4, <3>5 DEF IInv, HealthBalances
  <2>4. QED BY <2>2, <2>3 DEF IInv
<1>7. CASE AcceptEvicting(n, m)
  <2> DEFINE victim == lowmed[OldestLow]
             rest == RemoveAt(lowmed, OldestLow)
  <2>1. /\ LowIndices # {} /\ ~(IsLow(n) /\ DropLow) /\ Len(high) + Len(lowmed) >= MaxSize
        /\ Insert(n, rest, Uncount(pendingLow, victim.event))
        /\ evicted' = evicted \cup {victim}
        /\ metrics' = Bump(m, EvictMetric(n))
    BY <1>7 DEF AcceptEvicting, MayEvict, Full, Depth
  <2>2. OldestLow \in 1..Len(lowmed) /\ IsLow(victim)
    BY <1>3, <2>1, OldestLowFacts
  <2>3. /\ rest \in Seq(Note) /\ Len(rest) = Len(lowmed) - 1
        /\ ToSet(lowmed) = ToSet(rest) \cup {victim}
        /\ Ascending(rest) /\ \A y \in ToSet(rest) : y.id # victim.id
    BY <1>3, <2>2, RemoveAtFacts, AscendingRemoveAt DEF IInv, IdOrder
  <2>4. victim \in Note
    BY <1>3, <2>2, ElementOfSeq
  <2>5. Uncount(pendingLow, victim.event) \in [Event -> Nat]
    BY <1>3, <2>4 DEF Uncount, Note
  <2>6. EvictMetric(n) \in Metric /\ EvictMetric(n) # "blocking_sends_prevented"
    BY <1>4 DEF EvictMetric
  <2>7. /\ metrics' \in [Metric -> Nat]
        /\ metrics'["blocking_sends_prevented"] = metrics["blocking_sends_prevented"] + 1
        /\ metrics'[EvictMetric(n)] = metrics[EvictMetric(n)] + 1
        /\ \A x \in Metric \ {EvictMetric(n), "blocking_sends_prevented"} :
              metrics'[x] = metrics[x]
    BY <1>2, <2>1, <2>6, HealthOfBump DEF m
  <2>8. Len(high) + Len(rest) < MaxSize
    BY <1>3, <2>3 DEF IInv, DepthBounded, Depth
  <2>9. ToSet(rest) \cap {victim} = {}
    BY <2>3
  <2> HIDE DEF victim, rest
  <2>10. /\ TypeOK' /\ DepthBounded' /\ NoAcceptedNoteLost' /\ LaneShape'
         /\ IdOrder' /\ LaneOrder' /\ WorkerShape'
         /\ Depth' = Len(high) + Len(rest) + 1
    BY <1>1, <1>2, <2>1, <2>2, <2>3, <2>5, <2>7, <2>8, <2>9, InsertKeeps
  <2>11. HealthBalances'
    <3> SUFFICES ASSUME DropLow
                 PROVE  HealthBalances'
      BY DEF HealthBalances
    <3>1. EvictMetric(n) \in {"dropped_low_for_high", "dropped_low_for_medium"}
      BY <2>1 DEF EvictMetric
    <3>2. /\ HealthDropped \in Nat /\ Depth \in Nat /\ metrics["sent"] \in Nat
          /\ metrics["failed"] \in Nat /\ metrics["coalesced"] \in Nat
          /\ metrics["blocking_sends_prevented"] \in Nat
          /\ \A x \in Metric : metrics[x] \in Nat
      BY <1>2, <1>3, HealthNumbers
    <3>3. HealthDropped' = HealthDropped + 1
      <4>1. CASE EvictMetric(n) = "dropped_low_for_high"
        BY <4>1, <1>4, <2>7, <3>2 DEF HealthDropped
      <4>2. CASE EvictMetric(n) = "dropped_low_for_medium"
        BY <4>2, <1>4, <2>7, <3>2 DEF HealthDropped
      <4>3. QED BY <3>1, <4>1, <4>2
    <3>4. /\ metrics'["sent"] = metrics["sent"] /\ metrics'["failed"] = metrics["failed"]
          /\ metrics'["coalesced"] = metrics["coalesced"]
      BY <1>4, <2>7, <3>1
    <3>5. current' = current /\ Depth' = Depth
      BY <1>1, <1>3, <2>3, <2>10 DEF thread, Depth
    <3>6. QED BY <2>7, <3>2, <3>3, <3>4, <3>5 DEF IInv, HealthBalances
  <2>12. QED BY <2>10, <2>11 DEF IInv
<1>8. CASE Refuse(n, m)
  <2>1. /\ metrics' = Bump(m, RefuseMetric(n))
        /\ UNCHANGED <<lanes, coalescedExtra, accepted, evicted>>
    BY <1>8 DEF Refuse
  <2>2. RefuseMetric(n) \in {"dropped_low_full", "dropped_medium_full", "dropped_high_full"}
    BY DEF RefuseMetric
  <2>3. /\ metrics' \in [Metric -> Nat]
        /\ metrics'["blocking_sends_prevented"] = metrics["blocking_sends_prevented"] + 1
        /\ metrics'[RefuseMetric(n)] = metrics[RefuseMetric(n)] + 1
        /\ \A x \in Metric \ {RefuseMetric(n), "blocking_sends_prevented"} :
              metrics'[x] = metrics[x]
    BY <1>2, <1>4, <2>1, <2>2, HealthOfBump DEF m
  <2>4. UNCHANGED <<high, lowmed, pendingLow, coalescedExtra, worker, current, extra,
                    sending, owner, stop, flushed, delivered, accepted, evicted>>
    BY <1>1, <2>1 DEF lanes, thread, control
  <2>5. TypeOK'
    BY <1>1, <1>2, <2>3, <2>4, QueueAssumption DEF IInv, TypeOK
  <2>6. DepthBounded' /\ NoAcceptedNoteLost' /\ LaneShape' /\ LaneOrder' /\ WorkerShape'
    BY <2>4 DEF IInv, DepthBounded, Depth, NoAcceptedNoteLost, Waiting, InFlight,
                Reported, LaneShape, LaneOrder, WorkerShape
  <2>7. IdOrder'
    BY <1>1, <1>2, <2>4 DEF IInv, IdOrder, Waiting, InFlight, Reported, Ascending
  <2>8. HealthBalances'
    <3>1. Depth' = Depth /\ current' = current
      BY <2>4 DEF Depth
    <3>2. /\ HealthDropped \in Nat /\ Depth \in Nat /\ metrics["sent"] \in Nat
          /\ metrics["failed"] \in Nat /\ metrics["coalesced"] \in Nat
          /\ metrics["blocking_sends_prevented"] \in Nat
          /\ \A x \in Metric : metrics[x] \in Nat
      BY <1>2, <1>3, HealthNumbers
    <3>3. HealthDropped' = HealthDropped + 1
      <4>1. CASE RefuseMetric(n) = "dropped_low_full"
        BY <4>1, <1>4, <2>3, <3>2 DEF HealthDropped
      <4>2. CASE RefuseMetric(n) = "dropped_medium_full"
        BY <4>2, <1>4, <2>3, <3>2 DEF HealthDropped
      <4>3. CASE RefuseMetric(n) = "dropped_high_full"
        BY <4>3, <1>4, <2>3, <3>2 DEF HealthDropped
      <4>4. QED BY <2>2, <4>1, <4>2, <4>3
    <3>4. /\ metrics'["sent"] = metrics["sent"] /\ metrics'["failed"] = metrics["failed"]
          /\ metrics'["coalesced"] = metrics["coalesced"]
      BY <1>4, <2>2, <2>3
    <3>5. QED BY <2>3, <3>1, <3>2, <3>3, <3>4 DEF IInv, HealthBalances
  <2>9. QED BY <2>5, <2>6, <2>7, <2>8 DEF IInv
<1>9. QED BY <1>1, <1>5, <1>6, <1>7, <1>8

\* flush() and close() move only the owner.
LEMMA OwnerKeeps ==
    ASSUME IInv, Owner
    PROVE  IInv'
<1>1. UnchangedByOwner
  BY DEF Owner, BeginFlush, FlushReturnsTrue, FlushTimesOut, Close, JoinReturns
<1>2. UNCHANGED <<high, lowmed, pendingLow, coalescedExtra, metrics, worker, current,
                  extra, sending, offered, accepted, evicted, delivered>>
  BY <1>1 DEF UnchangedByOwner, lanes, thread, history
<1>3. /\ owner' \in {"running", "flushing", "joining", "joined", "gone"}
      /\ stop' \in BOOLEAN /\ flushed' \in {"none", "true", "false"}
      /\ stop => stop' /\ owner' \in {"joining", "joined", "gone"}
      /\ stop' => stop \/ owner' \in {"joining", "joined", "gone"}
  <2> USE DEF IInv, TypeOK, WorkerShape
  <2>1. CASE BeginFlush
    BY <2>1, Zenon DEF BeginFlush
  <2>2. CASE FlushReturnsTrue
    BY <2>2, Zenon DEF FlushReturnsTrue
  <2>3. CASE FlushTimesOut
    BY <2>3, Zenon DEF FlushTimesOut
  <2>4. CASE Close
    BY <2>4, Zenon DEF Close
  <2>5. CASE JoinReturns
    BY <2>5, Zenon DEF JoinReturns
  <2>6. QED BY <2>1, <2>2, <2>3, <2>4, <2>5 DEF Owner
<1>4. TypeOK'
  BY <1>2, <1>3 DEF IInv, TypeOK
<1>5. WorkerShape'
  BY <1>2, <1>3 DEF IInv, WorkerShape
<1>6. /\ DepthBounded' /\ NoAcceptedNoteLost' /\ HealthBalances' /\ LaneShape'
      /\ IdOrder' /\ LaneOrder'
  BY <1>2 DEF IInv, DepthBounded, Depth, NoAcceptedNoteLost, Waiting, InFlight,
     Reported, HealthBalances, HealthDropped, LaneShape, IdOrder, Ascending, LaneOrder
<1>7. QED BY <1>4, <1>5, <1>6 DEF IInv

-----------------------------------------------------------------------------
(* Steps of the worker.                                                     *)

\* What a pop takes and leaves: the oldest HIGH note, or else the oldest note
\* of the other lane.
LEMMA TakeFacts ==
    ASSUME IInv, Take
    PROVE  /\ high' \in Seq(Note) /\ lowmed' \in Seq(Note) /\ current' \in Note
           /\ pendingLow' \in [Event -> Nat]
           /\ Depth \in Nat \ {0} /\ Depth' = Depth - 1
           /\ Ascending(high') /\ Ascending(lowmed') /\ LaneShape'
           /\ Waiting = Waiting' \cup {current'} /\ current' \notin Waiting'
           /\ \A m \in Waiting' : Before(current', m)
           /\ IsHigh(current') \/ high = <<>>
<1>1. /\ high \in Seq(Note) /\ lowmed \in Seq(Note)
      /\ Len(high) \in Nat /\ Len(lowmed) \in Nat
      /\ pendingLow \in [Event -> Nat]
      /\ Ascending(high) /\ Ascending(lowmed) /\ LaneShape
  BY DEF IInv, TypeOK, IdOrder
<1>2. CASE high # <<>> /\ current' = Head(high) /\ high' = Tail(high)
           /\ UNCHANGED <<lowmed, pendingLow>>
  <2>1. /\ Head(high) \in Note /\ Tail(high) \in Seq(Note)
        /\ Len(high) \in Nat \ {0} /\ Len(Tail(high)) = Len(high) - 1
        /\ ToSet(high) = ToSet(Tail(high)) \cup {Head(high)}
    BY <1>1, <1>2, TailFacts
  <2>2. /\ Ascending(Tail(high))
        /\ \A y \in ToSet(Tail(high)) : Head(high).id < y.id
    BY <1>1, <1>2, AscendingTail
  <2>3. Head(high).id \in Nat
    BY <2>1 DEF Note
  <2>4. IsHigh(Head(high)) /\ \A y \in ToSet(lowmed) : ~IsHigh(y)
    BY <1>1, <2>1 DEF LaneShape
  <2>5. Head(high) \notin ToSet(Tail(high)) /\ Head(high) \notin ToSet(lowmed)
    BY <2>2, <2>3, <2>4
  <2>6. Depth \in Nat \ {0} /\ Depth' = Depth - 1
    BY <1>1, <1>2, <2>1 DEF Depth
  <2>7. LaneShape'
    BY <1>1, <1>2, <2>1 DEF LaneShape
  <2>8. \A m \in Waiting' : Before(current', m)
    BY <1>2, <2>2, <2>4 DEF Waiting, Before
  <2>9. QED BY <1>1, <1>2, <2>1, <2>2, <2>4, <2>5, <2>6, <2>7, <2>8 DEF Waiting
<1>3. CASE high = <<>> /\ lowmed # <<>> /\ current' = Head(lowmed)
           /\ lowmed' = Tail(lowmed) /\ UNCHANGED high
           /\ pendingLow' = IF IsLow(Head(lowmed))
                            THEN Uncount(pendingLow, Head(lowmed).event)
                            ELSE pendingLow
  <2>1. /\ Head(lowmed) \in Note /\ Tail(lowmed) \in Seq(Note)
        /\ Len(lowmed) \in Nat \ {0} /\ Len(Tail(lowmed)) = Len(lowmed) - 1
        /\ ToSet(lowmed) = ToSet(Tail(lowmed)) \cup {Head(lowmed)}
    BY <1>1, <1>3, TailFacts
  <2>2. /\ Ascending(Tail(lowmed))
        /\ \A y \in ToSet(Tail(lowmed)) : Head(lowmed).id < y.id
    BY <1>1, <1>3, AscendingTail
  <2>3. Head(lowmed).id \in Nat /\ Head(lowmed).event \in Event
    BY <2>1 DEF Note
  <2>4. ToSet(high) = {}
    BY <1>3 DEF ToSet
  <2>5. Head(lowmed) \notin ToSet(Tail(lowmed))
    BY <2>2, <2>3
  <2>6. Depth \in Nat \ {0} /\ Depth' = Depth - 1
    BY <1>1, <1>3, <2>1 DEF Depth
  <2>7. LaneShape'
    BY <1>1, <1>3, <2>1 DEF LaneShape
  <2>8. \A m \in Waiting' : Before(current', m)
    BY <1>3, <2>2, <2>4 DEF Waiting, Before
  <2>9. pendingLow' \in [Event -> Nat]
    BY <1>1, <1>3, <2>3 DEF Uncount
  <2>10. QED BY <1>1, <1>3, <2>1, <2>2, <2>4, <2>5, <2>6, <2>7, <2>8, <2>9 DEF Waiting
<1>4. QED BY <1>2, <1>3 DEF Take

LEMMA TakeKeeps ==
    ASSUME IInv, Take
    PROVE  IInv'
<1>1. /\ worker = "idle" /\ worker' = "folding" /\ sending' = TRUE /\ owner # "gone"
      /\ UNCHANGED <<coalescedExtra, metrics, extra, owner, stop, flushed, offered,
                     accepted, evicted, delivered>>
  BY DEF Take, control, history
<1>2. /\ high' \in Seq(Note) /\ lowmed' \in Seq(Note) /\ current' \in Note
      /\ pendingLow' \in [Event -> Nat]
      /\ Depth \in Nat \ {0} /\ Depth' = Depth - 1
      /\ Ascending(high') /\ Ascending(lowmed') /\ LaneShape'
      /\ Waiting = Waiting' \cup {current'} /\ current' \notin Waiting'
      /\ \A m \in Waiting' : Before(current', m)
  BY TakeFacts
<1>3. current = NoNote /\ InFlight = {}
  BY <1>1 DEF IInv, TypeOK, InFlight
<1>4. current' # NoNote /\ InFlight' = {current'} /\ Reported' = Reported
  BY <1>1, <1>2, QueueAssumption DEF InFlight, Reported
<1>5. TypeOK'
  BY <1>1, <1>2, <1>4 DEF IInv, TypeOK
<1>6. DepthBounded'
  BY <1>2, QueueAssumption DEF IInv, DepthBounded
<1>7. NoAcceptedNoteLost'
  <2>1. accepted' = Waiting' \cup InFlight' \cup Reported' \cup evicted'
    BY <1>1, <1>2, <1>3, <1>4 DEF IInv, NoAcceptedNoteLost
  <2>2. Waiting' \cap (InFlight' \cup Reported' \cup evicted') = {}
    BY <1>1, <1>2, <1>4 DEF IInv, NoAcceptedNoteLost
  <2>3. InFlight' \cap (Reported' \cup evicted') = {}
    BY <1>1, <1>2, <1>4 DEF IInv, NoAcceptedNoteLost
  <2>4. QED BY <1>1, <1>4, <2>1, <2>2, <2>3 DEF IInv, NoAcceptedNoteLost
<1>8. HealthBalances'
  <2>1. /\ HealthDropped' = HealthDropped /\ HealthDropped \in Nat
        /\ metrics["sent"] \in Nat /\ metrics["failed"] \in Nat
        /\ metrics["coalesced"] \in Nat /\ metrics["blocking_sends_prevented"] \in Nat
    BY <1>1, HealthNumbers DEF IInv, TypeOK, HealthDropped
  <2>2. QED BY <1>1, <1>2, <1>3, <1>4, <2>1 DEF IInv, HealthBalances
<1>9. IdOrder'
  <2>1. \A n \in Reported', m \in Waiting' \cup InFlight' : Before(n, m)
    BY <1>2, <1>4 DEF IInv, IdOrder
  <2>2. QED BY <1>1, <1>2, <1>4, <2>1 DEF IInv, IdOrder
<1>10. LaneOrder'
  BY <1>1 DEF IInv, LaneOrder
<1>11. WorkerShape'
  BY <1>1 DEF IInv, WorkerShape
<1>12. QED BY <1>2, <1>5, <1>6, <1>7, <1>8, <1>9, <1>10, <1>11 DEF IInv

LEMMA FoldKeeps ==
    ASSUME IInv, Fold
    PROVE  IInv'
<1>1. /\ worker = "folding" /\ worker' = "sending"
      /\ extra' = coalescedExtra[current.event]
      /\ coalescedExtra' = [coalescedExtra EXCEPT ![current.event] = 0]
      /\ UNCHANGED <<high, lowmed, pendingLow, metrics, current, sending, owner, stop,
                     flushed, offered, accepted, evicted, delivered>>
  BY DEF Fold, lanes, control, history
<1>2. current \in Note
  BY <1>1 DEF IInv, TypeOK
<1>3. extra' \in Nat /\ coalescedExtra' \in [Event -> Nat]
  BY <1>1, <1>2 DEF IInv, TypeOK, Note
<1>4. TypeOK'
  BY <1>1, <1>3 DEF IInv, TypeOK
<1>5. /\ DepthBounded' /\ NoAcceptedNoteLost' /\ HealthBalances' /\ LaneShape'
      /\ IdOrder' /\ LaneOrder' /\ WorkerShape'
  BY <1>1 DEF IInv, DepthBounded, Depth, NoAcceptedNoteLost, Waiting, InFlight,
     Reported, HealthBalances, HealthDropped, LaneShape, IdOrder, Ascending, LaneOrder,
     WorkerShape
<1>6. QED BY <1>4, <1>5 DEF IInv

LEMMA SendKeeps ==
    ASSUME IInv, Send
    PROVE  IInv'
<1> DEFINE d == [note |-> current, extra |-> extra]
           Done == [note : Note, extra : Nat]
<1>1. /\ worker = "sending" /\ worker' = "clearing" /\ current' = NoNote /\ extra' = 0
      /\ delivered' = Append(delivered, d)
      /\ UNCHANGED <<high, lowmed, pendingLow, coalescedExtra, sending, owner, stop,
                     flushed, offered, accepted, evicted>>
  BY DEF Send, lanes, control, history
<1>2. PICK outcome \in {"sent", "failed"} : metrics' = Bump(metrics, outcome)
  BY DEF Send
<1>3. /\ current \in Note /\ current # NoNote /\ d \in Done /\ delivered \in Seq(Done)
      /\ metrics \in [Metric -> Nat] /\ high \in Seq(Note) /\ lowmed \in Seq(Note)
      /\ d.note = current
  BY <1>1, QueueAssumption DEF IInv, TypeOK
<1> HIDE DEF d, Done
<1>4. /\ delivered' \in Seq(Done) /\ Len(delivered) \in Nat
      /\ Len(delivered') = Len(delivered) + 1
      /\ \A j \in 1..Len(delivered) : delivered'[j] = delivered[j]
      /\ delivered'[Len(delivered) + 1] = d
      /\ ToSet(delivered') = ToSet(delivered) \cup {d}
  BY <1>1, <1>3, AppendFacts
<1>5. /\ Reported' = Reported \cup {current} /\ InFlight = {current} /\ InFlight' = {}
      /\ Waiting' = Waiting
  BY <1>1, <1>3, <1>4 DEF Reported, InFlight, Waiting
<1>14. Done = [note : Note, extra : Nat]
  BY DEF Done
<1>6. /\ metrics' \in [Metric -> Nat] /\ metrics'[outcome] = metrics[outcome] + 1
      /\ \A x \in Metric : x # outcome => metrics'[x] = metrics[x]
  <2>1. outcome \in Metric
    BY <1>2 DEF Metric
  <2>2. QED BY <1>2, <1>3, <2>1, BumpFacts
<1>7. TypeOK'
  BY <1>1, <1>4, <1>6, <1>14 DEF IInv, TypeOK
<1>8. NoAcceptedNoteLost'
  BY <1>1, <1>5 DEF IInv, NoAcceptedNoteLost
<1>9. IdOrder'
  BY <1>1, <1>5 DEF IInv, IdOrder, Ascending
<1>10. LaneOrder'
  <2> SUFFICES ASSUME NEW i \in 1..(Len(delivered) + 1), NEW j \in 1..(Len(delivered) + 1),
                      i < j, IsHigh(delivered'[i].note) <=> IsHigh(delivered'[j].note)
               PROVE  delivered'[i].note.id < delivered'[j].note.id
    <3>1. DOMAIN delivered' = 1..(Len(delivered) + 1)
      BY <1>4, LenProperties
    <3>2. QED BY <3>1 DEF LaneOrder
  <2>1. i \in 1..Len(delivered) /\ DOMAIN delivered = 1..Len(delivered)
    BY <1>3, <1>4, LenProperties
  <2>2. delivered'[i] = delivered[i] /\ delivered[i] \in ToSet(delivered)
    BY <1>4, <2>1 DEF ToSet
  <2>3. CASE j = Len(delivered) + 1
    <3>1. delivered'[j].note = current
      BY <1>3, <1>4, <2>3
    <3>2. delivered[i].note \in Reported
      BY <2>2 DEF Reported
    <3>3. Before(delivered[i].note, current)
      BY <1>5, <3>2 DEF IInv, IdOrder
    <3>4. QED BY <2>2, <3>1, <3>3 DEF Before
  <2>4. CASE j # Len(delivered) + 1
    <3>1. j \in 1..Len(delivered) /\ delivered'[j] = delivered[j]
      BY <1>4, <2>4
    <3>2. QED BY <2>1, <2>2, <3>1 DEF IInv, LaneOrder
  <2>5. QED BY <2>3, <2>4
<1>11. HealthBalances'
  <2>1. /\ HealthDropped \in Nat /\ Depth \in Nat /\ metrics["sent"] \in Nat
        /\ metrics["failed"] \in Nat /\ metrics["coalesced"] \in Nat
        /\ metrics["blocking_sends_prevented"] \in Nat
    BY <1>3, HealthNumbers
  <2>2. Depth' = Depth
    BY <1>1 DEF Depth
  <2>3. /\ HealthDropped' = HealthDropped /\ metrics'["coalesced"] = metrics["coalesced"]
        /\ metrics'["blocking_sends_prevented"] = metrics["blocking_sends_prevented"]
    BY <1>2, <1>6 DEF HealthDropped, Metric
  <2>4. metrics'["sent"] + metrics'["failed"] = metrics["sent"] + metrics["failed"] + 1
    <3>1. "sent" \in Metric /\ "failed" \in Metric
      BY DEF Metric
    <3>2. CASE outcome = "sent"
      BY <3>1, <3>2, <1>6, <2>1
    <3>3. CASE outcome = "failed"
      BY <3>1, <3>3, <1>6, <2>1
    <3>4. QED BY <3>2, <3>3
  <2>5. metrics'["sent"] \in Nat /\ metrics'["failed"] \in Nat
    BY <1>6 DEF Metric
  <2>6. SUFFICES ASSUME DropLow
                 PROVE  metrics'["blocking_sends_prevented"] =
                          metrics'["sent"] + metrics'["failed"] + metrics'["coalesced"]
                          + HealthDropped' + Depth' + 0
    BY <1>1 DEF HealthBalances
  <2>7. metrics["blocking_sends_prevented"] =
          metrics["sent"] + metrics["failed"] + metrics["coalesced"]
          + HealthDropped + Depth + 1
    BY <1>3, <2>6 DEF IInv, HealthBalances
  <2>8. \A p, s1, s2, f1, f2, c, h, k \in Nat :
           p = s1 + f1 + c + h + k + 1 /\ s2 + f2 = s1 + f1 + 1
              => p = s2 + f2 + c + h + k + 0
    OBVIOUS
  <2>9. QED BY <2>1, <2>2, <2>3, <2>4, <2>5, <2>7, <2>8
<1>12. DepthBounded' /\ LaneShape' /\ WorkerShape'
  BY <1>1 DEF IInv, DepthBounded, Depth, LaneShape, WorkerShape
<1>13. QED BY <1>7, <1>8, <1>9, <1>10, <1>11, <1>12 DEF IInv

LEMMA ClearOrExitKeeps ==
    ASSUME IInv, ClearSending \/ WorkerExit
    PROVE  IInv'
<1>1. /\ UNCHANGED <<high, lowmed, pendingLow, coalescedExtra, metrics, current, extra,
                     owner, stop, flushed, offered, accepted, evicted, delivered>>
      /\ \/ worker = "clearing" /\ worker' = "idle" /\ sending' = FALSE
         \/ worker = "idle" /\ worker' = "exited" /\ sending' = sending
            /\ stop /\ high = <<>> /\ lowmed = <<>>
  BY DEF ClearSending, WorkerExit, lanes, control, history
<1>2. TypeOK'
  BY <1>1 DEF IInv, TypeOK
<1>3. /\ DepthBounded' /\ NoAcceptedNoteLost' /\ HealthBalances' /\ LaneShape'
      /\ IdOrder' /\ LaneOrder' /\ WorkerShape'
  BY <1>1 DEF IInv, DepthBounded, Depth, NoAcceptedNoteLost, Waiting, InFlight,
     Reported, HealthBalances, HealthDropped, LaneShape, IdOrder, Ascending, LaneOrder,
     WorkerShape
<1>4. QED BY <1>2, <1>3 DEF IInv

-----------------------------------------------------------------------------
(* The theorems.                                                            *)

LEMMA InitEstablishes == Init => IInv
<1> SUFFICES ASSUME Init
             PROVE  IInv
  OBVIOUS
<1> USE DEF Init
<1>1. ToSet(high) = {} /\ ToSet(lowmed) = {} /\ ToSet(delivered) = {}
  BY DEF ToSet
<1>2. Waiting = {} /\ InFlight = {} /\ Reported = {}
  BY <1>1 DEF Waiting, InFlight, Reported
<1>3. TypeOK
  <2>1. /\ high \in Seq(Note) /\ lowmed \in Seq(Note)
        /\ delivered \in Seq([note : Note, extra : Nat])
    BY EmptySeq
  <2>2. /\ pendingLow \in [Event -> Nat] /\ coalescedExtra \in [Event -> Nat]
        /\ metrics \in [Metric -> Nat] /\ offered \in 0..MaxOffers
    BY QueueAssumption
  <2>3. QED BY <2>1, <2>2 DEF TypeOK
<1>4. DepthBounded
  BY QueueAssumption DEF DepthBounded, Depth
<1>5. NoAcceptedNoteLost /\ LaneShape /\ IdOrder /\ LaneOrder /\ WorkerShape
  BY <1>1, <1>2 DEF NoAcceptedNoteLost, LaneShape, IdOrder, Ascending, LaneOrder,
                    WorkerShape
<1>6. HealthBalances
  BY DEF HealthBalances, HealthDropped, Depth, Metric
<1>7. QED BY <1>3, <1>4, <1>5, <1>6 DEF IInv

LEMMA NextKeeps == IInv /\ [Next]_vars => IInv'
<1> SUFFICES ASSUME IInv, [Next]_vars
             PROVE  IInv'
  OBVIOUS
<1>1. ASSUME NEW o \in Offers, Enqueue(o)
      PROVE  IInv'
  BY <1>1, EnqueueKeeps
<1>2. CASE Worker
  BY <1>2, TakeKeeps, FoldKeeps, SendKeeps, ClearOrExitKeeps DEF Worker
<1>3. CASE Owner
  BY <1>3, OwnerKeeps
<1>4. CASE UNCHANGED vars
  BY <1>4 DEF vars, lanes, thread, control, history, IInv, TypeOK, DepthBounded, Depth,
     NoAcceptedNoteLost, Waiting, InFlight, Reported, HealthBalances, HealthDropped,
     LaneShape, IdOrder, Ascending, LaneOrder, WorkerShape
<1>5. QED BY <1>1, <1>2, <1>3, <1>4 DEF Next

\* The inductive invariant holds in every reachable state of the queue.
THEOREM InductiveInvariant == Spec => []IInv
BY InitEstablishes, NextKeeps, PTL DEF Spec

\* Type correctness of every variable, the worker's note included: it holds a
\* note exactly between the pop and the end of notifier.send().
THEOREM TypeCorrect == Spec => []TypeOK
<1>1. IInv => TypeOK
  BY DEF IInv
<1>2. QED BY <1>1, InductiveInvariant, PTL

\* "Bounded" (queue.py:13): the lanes never hold more than maxsize notes.
THEOREM Bounded == Spec => []DepthBounded
<1>1. IInv => DepthBounded
  BY DEF IInv
<1>2. QED BY <1>1, InductiveInvariant, PTL

\* An accepted note is in exactly one place, and only LOW notes are evicted.
THEOREM NothingAcceptedIsLost == Spec => []NoAcceptedNoteLost
<1>1. IInv => NoAcceptedNoteLost
  BY DEF IInv
<1>2. QED BY <1>1, InductiveInvariant, PTL

\* The counters of health() add up to the number of enqueue calls.
THEOREM HealthAddsUp == Spec => []HealthBalances
<1>1. IInv => HealthBalances
  BY DEF IInv
<1>2. QED BY <1>1, InductiveInvariant, PTL

\* Each lane is reported in the order in which it was offered.
THEOREM LanesAreFifo == Spec => []LaneOrder
<1>1. IInv => LaneOrder
  BY DEF IInv
<1>2. QED BY <1>1, InductiveInvariant, PTL

\* With the lanes empty and the worker holding nothing, every accepted note
\* has been reported or evicted.
LEMMA NothingOutstanding ==
    ASSUME IInv, high = <<>>, lowmed = <<>>, current = NoNote
    PROVE  accepted = Reported \cup evicted
<1>1. Waiting = {} /\ InFlight = {}
  BY DEF Waiting, ToSet, InFlight
<1>2. QED BY <1>1 DEF IInv, NoAcceptedNoteLost

\* A worker that ended left nothing behind: close() drains.
THEOREM CloseDrainsTheQueue == Spec => []CloseDrains
<1>1. IInv => CloseDrains
  <2> SUFFICES ASSUME IInv, worker = "exited"
               PROVE  accepted = Reported \cup evicted
    BY DEF CloseDrains
  <2>1. high = <<>> /\ lowmed = <<>> /\ current = NoNote
    BY DEF IInv, WorkerShape, TypeOK
  <2>2. QED BY <2>1, NothingOutstanding
<1>2. QED BY <1>1, InductiveInvariant, PTL

\* flush() answers True only when every accepted note was handed over.
THEOREM FlushIsExact == Spec => FlushTrueMeansReported
<1> DEFINE Flushed == flushed' = "true" /\ owner = "flushing" /\ owner' = "running"
                         => accepted = Reported \cup evicted
<1>1. IInv /\ [Next]_vars => [Flushed]_vars
  <2> SUFFICES ASSUME IInv, Next, flushed' = "true", owner = "flushing",
                      owner' = "running"
               PROVE  accepted = Reported \cup evicted
    OBVIOUS
  <2>1. FlushReturnsTrue
    BY DEF Next, Enqueue, Worker, Take, Fold, Send, ClearSending, WorkerExit, control,
           Owner, BeginFlush, FlushTimesOut, Close, JoinReturns
  <2>2. high = <<>> /\ lowmed = <<>> /\ ~sending
    BY <2>1 DEF FlushReturnsTrue, Drained
  <2>3. current = NoNote
    BY <2>2 DEF IInv, WorkerShape, TypeOK
  <2>4. QED BY <2>2, <2>3, NothingOutstanding
<1>2. QED BY <1>1, InductiveInvariant, PTL DEF Spec, FlushTrueMeansReported

-----------------------------------------------------------------------------
(* Folded repeats.  What was reported is a fold over the sequence of reports, *)
(* what is pending one over the events; both add one number at a time.        *)

\* A set of places has a last one.
LEMMA LastPlace ==
    ASSUME NEW n \in Nat, NEW s \in SUBSET (1..n), s # {}
    PROVE  Max(s) \in s /\ \A y \in s : Max(s) >= y
<1> DEFINE gaps == {n - x : x \in s}
<1>1. gaps # {} /\ gaps \subseteq Nat
  <2>1. PICK x \in s : TRUE
    OBVIOUS
  <2>2. n - x \in gaps
    BY <2>1
  <2>3. \A y \in s : n - y \in Nat
    OBVIOUS
  <2> QED BY <2>2, <2>3
<1>2. PICK g \in gaps : \A k \in gaps : g <= k
  <2> HIDE DEF gaps
  <2> QED BY <1>1, LeastNatural
<1>3. PICK x \in s : g = n - x
    BY <1>2
<1>4. \A y \in s : x >= y
  <2> SUFFICES ASSUME NEW y \in s PROVE x >= y
    OBVIOUS
  <2>1. n - x <= n - y
    BY <1>2, <1>3
  <2> QED BY <2>1
<1> QED BY <1>3, <1>4 DEF Max

\* A total adds up the places of its sequence, the last of them first.
LEMMA CarriedAddsUp ==
    ASSUME NEW q, NEW n \in Nat, DOMAIN q = 1..n, \A i \in 1..n : q[i].extra \in Nat
    PROVE  LET v == [i \in 1..n |-> q[i].extra]
               h == [s \in SUBSET (1..n) |-> Max(s)]
           IN  Picks(h, 1..n) /\ \E C : AddsUp(C, v, h, 1..n) /\ Carried(q) = C[1..n]
<1> DEFINE D == 1..n
           v == [i \in 1..n |-> q[i].extra]
           h == [s \in SUBSET (1..n) |-> Max(s)]
           Sums(C) == C = [s \in SUBSET (1..n) |-> IF s = {} THEN 0
                              ELSE C[s \ {Max(s)}] + q[Max(s)].extra]
           F == CHOOSE C : Sums(C)
<1>1. Picks(h, 1..n)
  <2>1. ASSUME NEW s \in SUBSET (1..n), s # {} PROVE h[s] \in s
    BY <2>1, LastPlace
  <2> QED BY <2>1 DEF Picks
<1>2. v \in [1..n -> Nat] /\ IsFiniteSet(1..n)
    BY FS_Interval
<1>3. PICK C \in [SUBSET (1..n) -> Nat] : AddsUp(C, v, h, 1..n)
  <2> HIDE DEF h, v
  <2> QED BY <1>1, <1>2, SumExists
<1>4. \A s \in SUBSET (1..n) : s # {} =>
          /\ Max(s) \in 1..n /\ h[s] = Max(s) /\ v[Max(s)] = q[Max(s)].extra
          /\ s \ {Max(s)} \in SUBSET (1..n)
    BY LastPlace
<1>5. Sums(C)
  <2>1. ASSUME NEW s \in SUBSET (1..n)
        PROVE  C[s] = IF s = {} THEN 0 ELSE C[s \ {Max(s)}] + q[Max(s)].extra
    <3>1. CASE s = {}
      BY <1>3, <3>1 DEF AddsUp
    <3>2. CASE s # {}
      <4>1. C[s] = v[h[s]] + C[s \ {h[s]}]
        <5> HIDE DEF h, v
        <5> QED BY <1>3, <3>2 DEF AddsUp
      <4>2. /\ Max(s) \in 1..n /\ h[s] = Max(s) /\ v[Max(s)] = q[Max(s)].extra
            /\ s \ {Max(s)} \in SUBSET (1..n)
        BY <1>4, <3>2
      <4> HIDE DEF h, v
      <4>3. q[Max(s)].extra \in Nat /\ C[s \ {Max(s)}] \in Nat
        BY <1>3, <4>2
      <4> QED BY <3>2, <4>1, <4>2, <4>3
    <3> QED BY <3>1, <3>2
  <2>2. C = [s \in SUBSET (1..n) |-> C[s]]
    BY <1>3
  <2> HIDE DEF h, v
  <2> QED BY <2>1, <2>2
<1>6. Sums(F)
  <2> HIDE DEF Sums
  <2> QED BY <1>5
<1>7. Carried(q) = F[1..n]
    BY DEF Carried, FoldLeft, MapThenFoldSet
<1> HIDE DEF F
<1>8. \A s \in SUBSET (1..n) : F[s] = IF s = {} THEN 0 ELSE F[s \ {h[s]}] + v[h[s]]
  <2> SUFFICES ASSUME NEW s \in SUBSET (1..n)
               PROVE  F[s] = IF s = {} THEN 0 ELSE F[s \ {h[s]}] + v[h[s]]
    OBVIOUS
  <2>1. F[s] = IF s = {} THEN 0 ELSE F[s \ {Max(s)}] + q[Max(s)].extra
    BY <1>6
  <2>2. s # {} => h[s] = Max(s) /\ v[Max(s)] = q[Max(s)].extra
    BY <1>4
  <2> HIDE DEF h, v
  <2> QED BY <2>1, <2>2
<1>9. AddsUp(F, v, h, 1..n)
  <2> HIDE DEF h, Sums
  <2>1. \A x \in 1..n : v[x] \in Nat
    BY <1>2
  <2> HIDE DEF v
  <2> QED BY <1>1, <1>2, <1>8, <2>1, SumFromLeft
<1> QED BY <1>1, <1>7, <1>9

LEMMA NoneCarried == Carried(<<>>) = 0
<1> DEFINE q == <<>>
<1>1. DOMAIN q = 1..0 /\ 1..0 = {} /\ \A i \in 1..0 : q[i].extra \in Nat
    OBVIOUS
<1>2. \E v, h, C : AddsUp(C, v, h, 1..0) /\ Carried(q) = C[1..0]
  <2> HIDE DEF q
  <2> QED BY <1>1, CarriedAddsUp
<1> QED BY <1>1, <1>2 DEF AddsUp

LEMMA CarriedIsNat ==
    ASSUME NEW S, \A x \in S : x.extra \in Nat, NEW q \in Seq(S)
    PROVE  Carried(q) \in Nat
<1> DEFINE n == Len(q)
           v == [i \in 1..n |-> q[i].extra]
           h == [s \in SUBSET (1..n) |-> Max(s)]
<1>1. /\ n \in Nat /\ DOMAIN q = 1..n /\ IsFiniteSet(1..n) /\ \A i \in 1..n : q[i] \in S
    BY LenProperties, ElementOfSeq, FS_Interval
<1>2. \A i \in 1..n : q[i].extra \in Nat
    BY <1>1
<1>3. Picks(h, 1..n) /\ \E C : AddsUp(C, v, h, 1..n) /\ Carried(q) = C[1..n]
  <2> HIDE DEF n
  <2> QED BY <1>1, <1>2, CarriedAddsUp
<1>4. \A x \in 1..n : v[x] \in Nat
    BY <1>2
<1>5. PICK C : AddsUp(C, v, h, 1..n) /\ Carried(q) = C[1..n]
    BY <1>3
<1> HIDE DEF h, v, n
<1>6. \A s \in SUBSET (1..n) : C[s] \in Nat
    BY <1>1, <1>3, <1>4, <1>5, SumsDiffer
<1> QED BY <1>5, <1>6

\* One more report adds its count.
LEMMA CarriedByOneMore ==
    ASSUME NEW S, \A x \in S : x.extra \in Nat, NEW q \in Seq(S), NEW d \in S
    PROVE  /\ Carried(q) \in Nat
           /\ Carried(Append(q, d)) = Carried(q) + d.extra
<1> DEFINE n == Len(q)
           r == Append(q, d)
           v == [i \in 1..n |-> q[i].extra]
           w == [i \in 1..(n + 1) |-> r[i].extra]
           h == [s \in SUBSET (1..n) |-> Max(s)]
           k == [s \in SUBSET (1..(n + 1)) |-> Max(s)]
<1>1. /\ n \in Nat /\ n + 1 \in Nat /\ DOMAIN q = 1..n /\ DOMAIN r = 1..(n + 1)
      /\ \A i \in 1..n : q[i] \in S /\ r[i] = q[i]
      /\ r[n + 1] = d
    BY AppendFacts, LenProperties, ElementOfSeq
<1>2. /\ \A i \in 1..n : q[i].extra \in Nat
      /\ \A i \in 1..(n + 1) : r[i].extra \in Nat
    BY <1>1
<1>3. Picks(h, 1..n) /\ \E C : AddsUp(C, v, h, 1..n) /\ Carried(q) = C[1..n]
  <2> HIDE DEF n
  <2> QED BY <1>1, <1>2, CarriedAddsUp
<1>4. Picks(k, 1..(n + 1)) /\ \E E : AddsUp(E, w, k, 1..(n + 1)) /\ Carried(r) = E[1..(n + 1)]
  <2> HIDE DEF n, r
  <2> QED BY <1>1, <1>2, CarriedAddsUp
<1>5. PICK C : AddsUp(C, v, h, 1..n) /\ Carried(q) = C[1..n]
    BY <1>3
<1>6. PICK E : AddsUp(E, w, k, 1..(n + 1)) /\ Carried(r) = E[1..(n + 1)]
    BY <1>4
<1>7. \A s \in SUBSET (1..n) : s \in SUBSET (1..(n + 1)) /\ k[s] = h[s]
  <2> HIDE DEF r
  <2> QED BY <1>1
<1>8. \A x \in 1..n : v[x] \in Nat /\ w[x] \in Nat /\ v[x] = w[x]
  <2> HIDE DEF r, n
  <2> QED BY <1>1, <1>2
<1>9. k[1..(n + 1)] = n + 1 /\ (1..(n + 1)) \ {n + 1} = 1..n /\ 1..(n + 1) # {}
  <2> HIDE DEF n
  <2> DEFINE all == 1..(n + 1)
  <2>2. n + 1 \in 1..(n + 1)
    BY <1>1
  <2>6. all \in SUBSET (1..(n + 1)) /\ all # {}
    BY <2>2
  <2>7. Max(all) \in all /\ \A y \in all : Max(all) >= y
    <3> HIDE DEF all
    <3> QED BY <1>1, <2>6, LastPlace
  <2>1. Max(1..(n + 1)) \in 1..(n + 1) /\ \A y \in 1..(n + 1) : Max(1..(n + 1)) >= y
    BY <2>7
  <2>3. Max(1..(n + 1)) = n + 1
    BY <1>1, <2>1, <2>2
  <2>4. 1..(n + 1) \in SUBSET (1..(n + 1))
    OBVIOUS
  <2>5. (1..(n + 1)) \ {n + 1} = 1..n
    BY <1>1
  <2> QED BY <2>2, <2>3, <2>4, <2>5
<1>10. w[n + 1] = d.extra /\ d.extra \in Nat
  <2> HIDE DEF r, n
  <2> QED BY <1>1
<1>11. n + 1 \notin 1..n /\ IsFiniteSet(1..n)
    BY <1>1, FS_Interval
<1>12. AddsUp(E, w, h, 1..n)
  <2> HIDE DEF h, k, w, n, v
  <2> QED BY <1>6, <1>7 DEF AddsUp
<1> HIDE DEF h, k, w, v, n, r
<1>13. \A s \in SUBSET (1..n) : /\ C[s] \in Nat /\ E[s] \in Nat
                                /\ n + 1 \notin s => C[s] = E[s]
                                /\ n + 1 \in s => C[s] + w[n + 1] = E[s] + v[n + 1]
  <2>1. \A x \in 1..n : x # n + 1 => v[x] = w[x]
    BY <1>8
  <2>2. \A x \in 1..n : v[x] \in Nat /\ w[x] \in Nat
    BY <1>8
  <2>3. Picks(h, 1..n) /\ AddsUp(C, v, h, 1..n)
    BY <1>3, <1>5
  <2> DEFINE D == 1..n
             e == n + 1
  <2>4. /\ IsFiniteSet(D) /\ Picks(h, D) /\ AddsUp(C, v, h, D) /\ AddsUp(E, w, h, D)
        /\ \A x \in D : v[x] \in Nat /\ w[x] \in Nat
        /\ \A x \in D : x # e => v[x] = w[x]
    BY <1>11, <1>12, <2>1, <2>2, <2>3
  <2>5. \A s \in SUBSET D : /\ C[s] \in Nat /\ E[s] \in Nat
                            /\ e \notin s => C[s] = E[s]
                            /\ e \in s => C[s] + w[e] = E[s] + v[e]
    <3> HIDE DEF D, e
    <3> QED BY <2>4, SumsDiffer
  <2> QED BY <2>5
<1>14. C[1..n] \in Nat /\ C[1..n] = E[1..n]
    BY <1>11, <1>13
<1>15. E[1..(n + 1)] = w[n + 1] + E[1..n]
    BY <1>6, <1>9 DEF AddsUp
<1>16. Carried(q) \in Nat /\ Carried(r) = Carried(q) + d.extra
    BY <1>5, <1>6, <1>10, <1>14, <1>15
<1> QED BY <1>16 DEF r

\* The count a note carries is reset when it is reported; a folded repeat
\* moves from the pending counts to the note and on to the reports.
Folding == FoldedOnce /\ (worker # "sending" => extra = 0)

LEMMA PendingChanges ==
    ASSUME NEW D, IsFiniteSet(D), NEW f \in [D -> Nat], NEW g \in [D -> Nat], NEW e \in D,
           \A x \in D : x # e => f[x] = g[x]
    PROVE  /\ Pending(f) \in Nat /\ Pending(g) \in Nat
           /\ Pending(f) + g[e] = Pending(g) + f[e]
BY SumChanges DEF Pending

LEMMA NothingPending ==
    ASSUME NEW D, IsFiniteSet(D)
    PROVE  Pending([x \in D |-> 0]) = 0
BY SumIsZero DEF Pending

LEMMA FoldingStarts == Init => Folding
<1> SUFFICES ASSUME Init PROVE Folding
    OBVIOUS
<1>1. /\ coalescedExtra = [e \in Event |-> 0] /\ metrics["coalesced"] = 0
      /\ extra = 0 /\ delivered = <<>>
    BY DEF Init, Metric
<1>2. Pending(coalescedExtra) = 0
    BY <1>1, NothingPending, QueueAssumption
<1>3. Carried(delivered) = 0
    BY <1>1, NoneCarried
<1>4. metrics["coalesced"] = Pending(coalescedExtra) + extra + Carried(delivered)
    BY <1>1, <1>2, <1>3
<1> QED BY <1>1, <1>4 DEF Folding, FoldedOnce

\* Folding, in numbers.
LEMMA FoldingNumbers ==
    ASSUME IInv, Folding
    PROVE  /\ Pending(coalescedExtra) \in Nat /\ extra \in Nat /\ Carried(delivered) \in Nat
           /\ metrics["coalesced"] = Pending(coalescedExtra) + extra + Carried(delivered)
           /\ metrics \in [Metric -> Nat] /\ coalescedExtra \in [Event -> Nat]
           /\ IsFiniteSet(Event)
<1> DEFINE Done == [note : Note, extra : Nat]
<1>1. /\ metrics \in [Metric -> Nat] /\ coalescedExtra \in [Event -> Nat] /\ extra \in Nat
      /\ delivered \in Seq(Done) /\ IsFiniteSet(Event)
    BY QueueAssumption DEF IInv, TypeOK
<1>2. Carried(delivered) \in Nat
  <2>1. \A x \in Done : x.extra \in Nat
    OBVIOUS
  <2> HIDE DEF Done
  <2> QED BY <1>1, <2>1, CarriedIsNat
<1>3. Pending(coalescedExtra) \in Nat
  <2>1. CASE Event = {}
    <3>1. coalescedExtra = [e \in Event |-> 0]
      BY <1>1, <2>1
    <3> QED BY <1>1, <3>1, NothingPending
  <2>2. CASE Event # {}
    <3>1. PICK e \in Event : TRUE
      BY <2>2
    <3> QED BY <1>1, <3>1, PendingChanges
  <2> QED BY <2>1, <2>2
<1>4. metrics["coalesced"] = Pending(coalescedExtra) + extra + Carried(delivered)
    BY DEF Folding, FoldedOnce
<1> QED BY <1>1, <1>2, <1>3, <1>4

\* What a step that leaves all of it alone keeps.
LEMMA FoldingAlone ==
    ASSUME IInv, Folding, UNCHANGED <<coalescedExtra, extra, delivered>>,
           metrics'["coalesced"] = metrics["coalesced"],
           worker' = "sending" => worker = "sending" \/ extra = 0,
           worker' # "sending" => worker # "sending"
    PROVE  Folding'
<1>1. Pending(coalescedExtra') = Pending(coalescedExtra) /\ Carried(delivered') = Carried(delivered)
    OBVIOUS
<1> QED BY <1>1 DEF Folding, FoldedOnce

LEMMA FoldingEnqueue ==
    ASSUME IInv, Folding, NEW o \in Offers, Enqueue(o)
    PROVE  Folding'
<1> DEFINE n == [id |-> offered + 1, event |-> o.event, pr |-> o.pr]
           m == Bump(metrics, "blocking_sends_prevented")
<1>1. /\ Coalesce(n, m) \/ AcceptWithRoom(n, m) \/ AcceptEvicting(n, m) \/ Refuse(n, m)
      /\ UNCHANGED <<worker, extra, delivered>>
      /\ n.event \in Event
    BY QueueAssumption DEF Enqueue, thread
<1>2. /\ Pending(coalescedExtra) \in Nat /\ extra \in Nat /\ Carried(delivered) \in Nat
      /\ metrics["coalesced"] = Pending(coalescedExtra) + extra + Carried(delivered)
      /\ metrics \in [Metric -> Nat] /\ coalescedExtra \in [Event -> Nat]
      /\ IsFiniteSet(Event)
    BY FoldingNumbers
<1>3. m \in [Metric -> Nat] /\ m["coalesced"] = metrics["coalesced"]
    BY <1>2, BumpFacts DEF Metric
<1> HIDE DEF n, m
<1>4. CASE Coalesce(n, m)
  <2>1. /\ coalescedExtra' = [coalescedExtra EXCEPT ![n.event] = @ + 1]
        /\ metrics' = Bump(m, "coalesced")
    BY <1>4 DEF Coalesce
  <2>2. metrics'["coalesced"] = metrics["coalesced"] + 1
    <3>1. "coalesced" \in Metric
      BY DEF Metric
    <3> QED BY <1>3, <2>1, <3>1, BumpFacts
  <2>3. /\ coalescedExtra' \in [Event -> Nat]
        /\ coalescedExtra'[n.event] = coalescedExtra[n.event] + 1
        /\ \A e \in Event : e # n.event => coalescedExtra[e] = coalescedExtra'[e]
        /\ coalescedExtra[n.event] \in Nat
    BY <1>1, <1>2, <2>1
  <2>4. /\ Pending(coalescedExtra') \in Nat
        /\ Pending(coalescedExtra) + coalescedExtra'[n.event]
             = Pending(coalescedExtra') + coalescedExtra[n.event]
    BY <1>1, <1>2, <2>3, PendingChanges
  <2>5. Pending(coalescedExtra') = Pending(coalescedExtra) + 1
    BY <1>2, <2>3, <2>4
  <2>6. Carried(delivered') = Carried(delivered)
    BY <1>1
  <2>7. metrics'["coalesced"] = Pending(coalescedExtra') + extra' + Carried(delivered')
    BY <1>1, <1>2, <2>2, <2>5, <2>6
  <2>8. FoldedOnce'
    BY <2>7 DEF FoldedOnce
  <2> QED BY <1>1, <2>8 DEF Folding
<1>5. CASE AcceptWithRoom(n, m) \/ AcceptEvicting(n, m) \/ Refuse(n, m)
  <2>1. coalescedExtra' = coalescedExtra
    BY <1>5 DEF AcceptWithRoom, AcceptEvicting, Refuse, Insert
  <2>2. \A name \in Metric \ {"coalesced"} :
            metrics' = Bump(m, name) => metrics'["coalesced"] = m["coalesced"]
    <3>1. "coalesced" \in Metric
      BY DEF Metric
    <3> QED BY <1>3, <3>1, BumpFacts
  <2>3. \A x : EvictMetric(x) \in Metric \ {"coalesced"} /\ RefuseMetric(x) \in Metric \ {"coalesced"}
    BY DEF EvictMetric, RefuseMetric, Metric
  <2>4. metrics' = m \/ \E name \in Metric \ {"coalesced"} : metrics' = Bump(m, name)
    BY <1>5, <2>3 DEF AcceptWithRoom, AcceptEvicting, Refuse
  <2>5. metrics'["coalesced"] = metrics["coalesced"]
    BY <1>3, <2>2, <2>4
  <2> QED BY <1>1, <2>1, <2>5, FoldingAlone
<1> QED BY <1>1, <1>4, <1>5

LEMMA FoldingWorker ==
    ASSUME IInv, Folding, Fold \/ Send
    PROVE  Folding'
<1>1. /\ Pending(coalescedExtra) \in Nat /\ extra \in Nat /\ Carried(delivered) \in Nat
      /\ metrics["coalesced"] = Pending(coalescedExtra) + extra + Carried(delivered)
      /\ metrics \in [Metric -> Nat] /\ coalescedExtra \in [Event -> Nat]
      /\ IsFiniteSet(Event)
    BY FoldingNumbers
<1>2. worker \in {"folding", "sending"} /\ current \in Note /\ current.event \in Event
    BY DEF IInv, TypeOK, Fold, Send, Note
<1>3. CASE Fold
  <2>1. /\ worker = "folding" /\ worker' = "sending"
        /\ extra' = coalescedExtra[current.event]
        /\ coalescedExtra' = [coalescedExtra EXCEPT ![current.event] = 0]
        /\ UNCHANGED <<metrics, delivered>>
    BY <1>3 DEF Fold
  <2>2. extra = 0
    BY <2>1 DEF Folding
  <2>3. /\ coalescedExtra' \in [Event -> Nat]
        /\ coalescedExtra'[current.event] = 0
        /\ \A e \in Event : e # current.event => coalescedExtra[e] = coalescedExtra'[e]
        /\ coalescedExtra[current.event] \in Nat
    BY <1>1, <1>2, <2>1
  <2>4. /\ Pending(coalescedExtra') \in Nat
        /\ Pending(coalescedExtra) + coalescedExtra'[current.event]
             = Pending(coalescedExtra') + coalescedExtra[current.event]
    BY <1>1, <1>2, <2>3, PendingChanges
  <2>6. Carried(delivered') = Carried(delivered) /\ metrics' = metrics
    BY <2>1
  <2>7. metrics'["coalesced"] = Pending(coalescedExtra') + extra' + Carried(delivered')
    BY <1>1, <2>1, <2>2, <2>3, <2>4, <2>6
  <2>8. FoldedOnce'
    BY <2>7 DEF FoldedOnce
  <2> QED BY <2>1, <2>8 DEF Folding
<1>4. CASE Send
  <2> DEFINE d == [note |-> current, extra |-> extra]
             Done == [note : Note, extra : Nat]
  <2>1. /\ worker' = "clearing" /\ extra' = 0 /\ coalescedExtra' = coalescedExtra
        /\ delivered' = Append(delivered, d)
        /\ \E outcome \in {"sent", "failed"} : metrics' = Bump(metrics, outcome)
    BY <1>4 DEF Send
  <2>2. metrics'["coalesced"] = metrics["coalesced"]
    <3>1. "coalesced" \in Metric /\ {"sent", "failed"} \subseteq Metric \ {"coalesced"}
      BY DEF Metric
    <3>2. PICK outcome \in {"sent", "failed"} : metrics' = Bump(metrics, outcome)
      BY <2>1
    <3>3. outcome \in Metric /\ outcome # "coalesced"
      BY <3>1, <3>2
    <3> QED BY <1>1, <3>1, <3>2, <3>3, BumpFacts
  <2>3. delivered \in Seq(Done) /\ d \in Done /\ d.extra = extra
    BY <1>1, <1>2 DEF IInv, TypeOK
  <2>4. \A x \in Done : x.extra \in Nat
    OBVIOUS
  <2> HIDE DEF d, Done
  <2>5. Carried(delivered') = Carried(delivered) + extra
    BY <2>1, <2>3, <2>4, CarriedByOneMore
  <2>6. Pending(coalescedExtra') = Pending(coalescedExtra)
    BY <2>1
  <2>7. metrics'["coalesced"] = Pending(coalescedExtra') + extra' + Carried(delivered')
    BY <1>1, <2>1, <2>2, <2>5, <2>6
  <2>8. FoldedOnce'
    BY <2>7 DEF FoldedOnce
  <2> QED BY <2>1, <2>8 DEF Folding
<1> QED BY <1>3, <1>4

LEMMA FoldingKeeps == IInv /\ Folding /\ [Next]_vars => Folding'
<1> SUFFICES ASSUME IInv, Folding, [Next]_vars
             PROVE  Folding'
    OBVIOUS
<1>1. ASSUME NEW o \in Offers, Enqueue(o)
      PROVE  Folding'
    BY <1>1, FoldingEnqueue
<1>2. CASE Fold \/ Send
    BY <1>2, FoldingWorker
<1>3. CASE Take \/ ClearSending \/ WorkerExit
  <2>1. /\ UNCHANGED <<coalescedExtra, extra, delivered, metrics>>
        /\ worker # "sending" /\ worker' # "sending"
    BY <1>3 DEF Take, ClearSending, WorkerExit
  <2> QED BY <2>1, FoldingAlone
<1>4. CASE Owner \/ UNCHANGED vars
  <2>1. UNCHANGED <<coalescedExtra, extra, delivered, metrics, worker>>
    BY <1>4 DEF Owner, BeginFlush, FlushReturnsTrue, FlushTimesOut, Close, JoinReturns,
       UnchangedByOwner, thread, vars
  <2> QED BY <2>1, FoldingAlone
<1> QED BY <1>1, <1>2, <1>3, <1>4 DEF Next, Worker

\* A folded repeat is reported once: the coalesced counter is what is pending,
\* what the worker carries and what the reports carried, whichever enqueues
\* come between the worker's unlocked fold and its send.
THEOREM FoldsAreReportedOnce == Spec => []FoldedOnce
<1>1. Folding => FoldedOnce
    BY DEF Folding
<1>2. QED BY <1>1, FoldingStarts, FoldingKeeps, InductiveInvariant, PTL DEF Spec

-----------------------------------------------------------------------------
(* Refinement: the queue implements the outbox.                             *)

\* A note whose id exceeds those of a lane is not in it; two notes of one lane
\* differ, so that the set of waiting notes has as many members as places.
LEMMA WaitingCardinality ==
    ASSUME IInv
    PROVE  IsFiniteSet(Waiting) /\ Cardinality(Waiting) = Depth
<1>1. /\ high \in Seq(Note) /\ lowmed \in Seq(Note)
      /\ Ascending(high) /\ Ascending(lowmed)
  BY DEF IInv, TypeOK, IdOrder
<1>2. ASSUME NEW s \in Seq(Note), Ascending(s)
      PROVE  IsFiniteSet(ToSet(s)) /\ Cardinality(ToSet(s)) = Len(s)
  <2>1. ASSUME NEW i \in 1..Len(s), NEW j \in 1..Len(s), i # j
        PROVE  s[i] # s[j]
    <3>1. s[i] \in Note /\ s[j] \in Note
      BY ElementOfSeq
    <3>2. s[i].id \in Nat /\ s[j].id \in Nat
      BY <3>1 DEF Note
    <3>3. i < j \/ j < i
      BY <2>1
    <3>4. s[i].id < s[j].id \/ s[j].id < s[i].id
      BY <1>2, <3>3 DEF Ascending
    <3>5. QED BY <3>2, <3>4
  <2>2. QED BY <2>1, DistinctCardinality
<1>3. ToSet(high) \cap ToSet(lowmed) = {}
  BY DEF IInv, LaneShape
<1>4. /\ IsFiniteSet(ToSet(high)) /\ Cardinality(ToSet(high)) = Len(high)
      /\ IsFiniteSet(ToSet(lowmed)) /\ Cardinality(ToSet(lowmed)) = Len(lowmed)
  BY <1>1, <1>2
<1>5. Len(high) \in Nat /\ Len(lowmed) \in Nat
  BY <1>1, LenProperties
<1>6. /\ IsFiniteSet(ToSet(high) \cup ToSet(lowmed))
      /\ Cardinality(ToSet(high) \cup ToSet(lowmed)) =
           Len(high) + Len(lowmed) - Cardinality(ToSet(high) \cap ToSet(lowmed))
  BY <1>4, FS_Union
<1>7. Cardinality(ToSet(high) \cap ToSet(lowmed)) = 0
  BY <1>3, FS_EmptySet
<1>8. QED BY <1>5, <1>6, <1>7 DEF Waiting, Depth

\* The outbox counts with the same cardinality.
LEMMA SameCardinality == \A S : Promise!Cardinality(S) = Cardinality(S)
BY DEF Promise!Cardinality, Cardinality, Promise!IsFiniteSet, IsFiniteSet

\* A step of the detailed queue is a step of the outbox or leaves it alone.
LEMMA StepSimulates ==
    ASSUME IInv, Next
    PROVE  Promise!Next \/ UNCHANGED Promise!vars
<1> USE DEF Promise!vars
<1> DEFINE Everything == UNION {{[id |-> i, event |-> o.event, pr |-> o.pr] : o \in Offers}
                                   : i \in 1..MaxOffers}
<1>1. ASSUME NEW o \in Offers, Enqueue(o)
      PROVE  Promise!Next \/ UNCHANGED Promise!vars
  <2> DEFINE n == [id |-> offered + 1, event |-> o.event, pr |-> o.pr]
             m == Bump(metrics, "blocking_sends_prevented")
  <2>1. /\ offered < MaxOffers
        /\ Coalesce(n, m) \/ AcceptWithRoom(n, m) \/ AcceptEvicting(n, m) \/ Refuse(n, m)
        /\ UNCHANGED <<current, owner, delivered>>
    BY <1>1 DEF Enqueue, thread, control
  <2>2. offered \in Nat /\ high \in Seq(Note) /\ lowmed \in Seq(Note) /\ n.pr = o.pr
    BY QueueAssumption DEF IInv, TypeOK
  <2>3. n \in Everything
    <3>1. offered + 1 \in 1..MaxOffers
      BY <2>1, <2>2, QueueAssumption
    <3>2. n \in {[id |-> offered + 1, event |-> x.event, pr |-> x.pr] : x \in Offers}
      OBVIOUS
    <3>3. QED BY <3>1, <3>2
  <2>4. n \notin Waiting \cup InFlight \cup Reported \cup evicted
    <3>1. \A a \in accepted : a.id \in 1..offered
      BY DEF IInv, IdOrder
    <3>2. n.id = offered + 1
      OBVIOUS
    <3>3. n \notin accepted
      BY <2>2, <3>1, <3>2
    <3>4. QED BY <3>3 DEF IInv, NoAcceptedNoteLost
  <2>5. n \in Note
    BY <2>2, QueueAssumption DEF Note
  <2>6. UNCHANGED <<InFlight, Reported, owner>>
    BY <2>1 DEF InFlight, Reported
  <2> HIDE DEF n, m
  <2>7. CASE Coalesce(n, m) \/ Refuse(n, m)
    <3>1. UNCHANGED <<high, lowmed, evicted>>
      BY <2>7 DEF Coalesce, Refuse, lanes
    <3>2. QED BY <2>6, <3>1 DEF Waiting
  <2>8. ASSUME NEW rest \in Seq(Note), NEW pend, Insert(n, rest, pend)
        PROVE  Waiting' = ToSet(high) \cup ToSet(rest) \cup {n}
    <3>1. CASE IsHigh(n)
      <4>1. high' = Append(high, n) /\ lowmed' = rest
        BY <2>8, <3>1 DEF Insert
      <4>2. ToSet(Append(high, n)) = ToSet(high) \cup {n}
        BY <2>2, <2>5, AppendFacts
      <4>3. QED BY <4>1, <4>2 DEF Waiting
    <3>2. CASE ~IsHigh(n)
      <4>1. high' = high /\ lowmed' = Append(rest, n)
        BY <2>8, <3>2 DEF Insert
      <4>2. ToSet(Append(rest, n)) = ToSet(rest) \cup {n}
        BY <2>5, <2>8, AppendFacts
      <4>3. QED BY <4>1, <4>2 DEF Waiting
    <3>3. QED BY <3>1, <3>2
  <2>9. CASE AcceptWithRoom(n, m)
    <3>1. Insert(n, lowmed, pendingLow) /\ evicted' = evicted /\ Depth < MaxSize
      BY <2>9, WaitingCardinality, QueueAssumption, HealthNumbers
         DEF AcceptWithRoom, Full, IInv, TypeOK
    <3>2. Waiting' = Waiting \cup {n}
      BY <2>2, <2>8, <3>1 DEF Waiting
    <3>3. Promise!Accept(n)
      <4>1. n \notin Promise!Known
        BY <2>4 DEF Promise!Known
      <4>2. Promise!Cardinality(Waiting) < MaxSize
        BY <3>1, WaitingCardinality, SameCardinality
      <4>3. UNCHANGED <<InFlight, Reported, evicted, owner # "gone">>
        BY <2>6, <3>1
      <4>4. QED BY <3>2, <4>1, <4>2, <4>3 DEF Promise!Accept
    <3>4. QED BY <2>3, <3>3 DEF Promise!Next
  <2>10. CASE AcceptEvicting(n, m)
    <3> DEFINE victim == lowmed[OldestLow]
               rest == RemoveAt(lowmed, OldestLow)
    <3>1. /\ LowIndices # {} /\ Depth >= MaxSize
          /\ Insert(n, rest, Uncount(pendingLow, victim.event))
          /\ evicted' = evicted \cup {victim}
      BY <2>10 DEF AcceptEvicting, MayEvict, Full
    <3>2. /\ OldestLow \in 1..Len(lowmed) /\ IsLow(victim)
          /\ \A j \in LowIndices : OldestLow <= j
      BY <2>2, <3>1, OldestLowFacts
    <3>3. /\ rest \in Seq(Note)
          /\ ToSet(lowmed) = ToSet(rest) \cup {victim}
          /\ \A y \in ToSet(rest) : y.id # victim.id
      BY <2>2, <3>2, RemoveAtFacts, AscendingRemoveAt DEF IInv, IdOrder
    <3>4. victim \in ToSet(lowmed) /\ victim \notin ToSet(rest) /\ victim \notin ToSet(high)
      BY <3>2, <3>3 DEF IInv, LaneShape, IsHigh, IsLow, High, Low
    <3>5. Waiting' = (Waiting \ {victim}) \cup {n}
      BY <2>8, <3>1, <3>3, <3>4 DEF Waiting
    <3>6. ASSUME NEW w \in Waiting, IsLow(w)
          PROVE  victim.id <= w.id
      <4>1. w \in ToSet(lowmed)
        <5>1. w \in Note
          BY <2>2, ElementOfSeq, LenProperties DEF Waiting, ToSet
        <5>2. ~IsHigh(w)
          BY <3>6, <5>1 DEF IsHigh, IsLow, High, Low, Note, Priority, Medium
        <5>3. QED BY <5>2 DEF Waiting, IInv, LaneShape
      <4>2. PICK j \in 1..Len(lowmed) : w = lowmed[j]
        BY <2>2, <4>1, LenProperties DEF ToSet
      <4>3. j \in LowIndices
        BY <2>2, <3>6, <4>2, LenProperties DEF LowIndices
      <4>4. OldestLow = j \/ OldestLow < j
        BY <3>2, <4>2, <4>3
      <4>5. victim \in Note /\ w \in Note
        BY <2>2, <3>2, <4>2, ElementOfSeq
      <4>6. QED BY <3>2, <4>2, <4>4, <4>5 DEF IInv, IdOrder, Ascending, Note
    <3>7. Promise!Exchange(n, victim)
      <4>1. n \notin Promise!Known
        BY <2>4 DEF Promise!Known
      <4>2. Promise!Cardinality(Waiting) >= MaxSize
        BY <3>1, WaitingCardinality, SameCardinality
      <4>3. UNCHANGED <<InFlight, Reported, owner # "gone">>
        BY <2>6
      <4>4. /\ Promise!IsLowNote(victim)
            /\ \A w \in Waiting : Promise!IsLowNote(w) => victim.id <= w.id
        BY <3>2, <3>6 DEF Promise!IsLowNote, IsLow
      <4>5. evicted' = evicted \cup {victim}
        BY <3>1
      <4> HIDE DEF victim
      <4>6. QED BY <3>5, <4>1, <4>2, <4>3, <4>4, <4>5 DEF Promise!Exchange
    <3>8. victim \in Waiting
      BY <3>4 DEF Waiting
    <3>9. QED BY <2>3, <3>7, <3>8 DEF Promise!Next
  <2>11. QED BY <2>1, <2>7, <2>9, <2>10
<1>2. CASE Take
  <2>1. /\ worker = "idle" /\ owner # "gone" /\ UNCHANGED <<owner, evicted, delivered>>
    BY <1>2 DEF Take, control, history
  <2>2. /\ current' \in Note
        /\ Waiting = Waiting' \cup {current'} /\ current' \notin Waiting'
        /\ \A w \in Waiting' : Before(current', w)
        /\ IsHigh(current') \/ high = <<>>
    BY <1>2, TakeFacts
  <2>3. InFlight = {} /\ InFlight' = {current'} /\ Reported' = Reported
    BY <2>1, <2>2, QueueAssumption DEF InFlight, Reported, IInv, TypeOK
  <2>4. ASSUME NEW w \in Waiting
        PROVE  Promise!GoesBefore(current', w)
    <3>1. w \in Note
      BY ElementOfSeq, LenProperties DEF Waiting, ToSet, IInv, TypeOK
    <3>2. CASE w = current'
      BY <3>1, <3>2 DEF Promise!GoesBefore, Promise!IsHighNote, Note
    <3>3. CASE w # current' /\ (IsHigh(current') <=> IsHigh(w))
      <4>1. current'.id < w.id
        BY <2>2, <3>3 DEF Before
      <4>2. QED BY <2>2, <3>1, <3>3, <4>1
                DEF Promise!GoesBefore, Promise!IsHighNote, IsHigh, Note
    <3>4. CASE ~(IsHigh(current') <=> IsHigh(w))
      <4>1. IsHigh(current')
        <5>1. CASE high = <<>>
          BY <5>1, <3>4 DEF Waiting, ToSet, IInv, LaneShape
        <5>2. QED BY <2>2, <5>1
      <4>2. QED BY <3>4, <4>1 DEF Promise!GoesBefore, Promise!IsHighNote, IsHigh
    <3>5. QED BY <3>2, <3>3, <3>4
  <2>5. Promise!Start(current')
    BY <2>1, <2>2, <2>3, <2>4 DEF Promise!Start
  <2>6. current' \in Waiting
    BY <2>2
  <2>7. QED BY <2>5, <2>6 DEF Promise!Next
<1>3. CASE Send
  <2>1. /\ worker = "sending" /\ owner # "gone" /\ current' = NoNote
        /\ delivered' = Append(delivered, [note |-> current, extra |-> extra])
        /\ UNCHANGED <<high, lowmed, owner, evicted>>
    BY <1>3 DEF Send, lanes, control, history
  <2>2. current \in Note /\ current # NoNote
    BY <2>1 DEF IInv, TypeOK
  <2>3. ToSet(delivered') = ToSet(delivered) \cup {[note |-> current, extra |-> extra]}
    <3>1. /\ [note |-> current, extra |-> extra] \in [note : Note, extra : Nat]
          /\ delivered \in Seq([note : Note, extra : Nat])
      BY <2>2 DEF IInv, TypeOK
    <3> DEFINE d == [note |-> current, extra |-> extra]
               Done == [note : Note, extra : Nat]
    <3>2. d \in Done /\ delivered \in Seq(Done) /\ delivered' = Append(delivered, d)
      BY <2>1, <3>1
    <3> HIDE DEF d, Done
    <3>3. ToSet(delivered') = ToSet(delivered) \cup {d}
      BY <3>2, AppendFacts
    <3>4. QED BY <3>3 DEF d
  <2>4. Reported' = Reported \cup InFlight /\ InFlight = {current} /\ InFlight' = {}
        /\ Waiting' = Waiting
    BY <2>1, <2>2, <2>3 DEF Reported, InFlight, Waiting
  <2>5. Promise!Report
    BY <2>1, <2>4 DEF Promise!Report
  <2>6. QED BY <2>5 DEF Promise!Next
<1>4. CASE Fold \/ ClearSending \/ WorkerExit
  <2>1. UNCHANGED <<high, lowmed, current, owner, evicted, delivered>>
    BY <1>4 DEF Fold, ClearSending, WorkerExit, lanes, control, history
  <2>2. QED BY <2>1 DEF Waiting, InFlight, Reported
<1>5. CASE Owner
  <2>1. UNCHANGED <<high, lowmed, current, evicted, delivered>>
    BY <1>5 DEF Owner, BeginFlush, FlushReturnsTrue, FlushTimesOut, Close, JoinReturns,
                UnchangedByOwner, lanes, thread, history
  <2>2. UNCHANGED <<Waiting, InFlight, Reported, evicted>>
    BY <2>1 DEF Waiting, InFlight, Reported
  <2>3. owner # "gone"
    BY <1>5 DEF Owner, BeginFlush, FlushReturnsTrue, FlushTimesOut, Close, JoinReturns
  <2>4. CASE owner' = "gone"
    <3>1. Promise!Halt
      BY <2>2, <2>3, <2>4 DEF Promise!Halt
    <3>2. QED BY <3>1 DEF Promise!Next
  <2>5. CASE owner' # "gone"
    BY <2>2, <2>3, <2>5
  <2>6. QED BY <2>4, <2>5
<1>6. QED BY <1>1, <1>2, <1>3, <1>4, <1>5 DEF Next, Worker

\* The two locks-and-lanes threads implement the bounded priority outbox: HIGH
\* first, oldest first, only the oldest LOW note ever traded for room.
THEOREM QueueImplementsOutbox == Spec => ImplementsOutbox
<1>1. Init => Promise!Init
  BY DEF Init, Promise!Init, Waiting, ToSet, InFlight, Reported
<1>2. IInv /\ [Next]_vars => [Promise!Next]_(Promise!vars)
  <2>1. CASE Next
    BY <2>1, StepSimulates
  <2>2. CASE UNCHANGED vars
    BY <2>2 DEF vars, lanes, thread, control, history, Promise!vars, Waiting, InFlight,
                Reported
  <2>3. QED BY <2>1, <2>2
<1>3. QED BY <1>1, <1>2, InductiveInvariant, PTL DEF Spec, ImplementsOutbox, Promise!Spec
=============================================================================
