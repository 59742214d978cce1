--------------------------- MODULE ResearchProofs ---------------------------
(***************************************************************************)
(* Proofs about the judging of strategies on recorded data.  The parts     *)
(* share no state, so there is an inductive invariant for each, and a      *)
(* behaviour of MCResearch, which is one of theirs, keeps the one of its   *)
(* part.  Those of mining, training and the studies are in StudyProofs.    *)
(***************************************************************************)
EXTENDS StudyProofs

-----------------------------------------------------------------------------
(* The resting order (MakerEntry): s1 is the clock, s2 the bids, s3 the     *)
(* offers, s4 the snapshots, s5 the prints, s6 the order, s7 what is ahead  *)
(* of it, s8 the truth.                                                     *)

LEMMA LeastFacts ==
    ASSUME NEW S \in SUBSET Nat, S # {}
    PROVE  Maker!Min(S) \in S /\ \A n \in S : Maker!Min(S) <= n
<1>1. PICK x \in S : \A n \in S : x <= n
  BY LeastNatural
<1>2. QED BY <1>1 DEF Maker!Min

LEMMA SnapshotFacts ==
    Maker!MakerInv => \A i \in DOMAIN s4 : s4[i] \in Maker!Snapshots /\ s4[i].at \in Nat
<1> SUFFICES ASSUME s4 \in Seq(Maker!Snapshots), NEW i \in DOMAIN s4
             PROVE  s4[i] \in Maker!Snapshots /\ s4[i].at \in Nat
  BY DEF Maker!MakerInv, Maker!MakerTypeOK
<1>1. s4[i] \in Maker!Snapshots
  BY ElementOfSeq, LenProperties
<1>2. QED BY <1>1 DEF Maker!Snapshots

LEMMA TradeFacts == Maker!MakerInv => \A t \in s5 : t.at \in Nat
BY DEF Maker!MakerInv, Maker!MakerTypeOK, Maker!Trades

LEMMA BestAskFacts ==
    ASSUME Top \in Nat, s3 \in [Maker!Prices -> Nat]
    PROVE  /\ Maker!BestAsk \in 1..(Top + 1)
           /\ Maker!BestAsk <= Top => Maker!BestAsk \in Maker!Prices /\ s3[Maker!BestAsk] > 0
           /\ \A p \in Maker!Prices : s3[p] > 0 => Maker!BestAsk <= p
<1> DEFINE S == {Top + 1} \cup {p \in Maker!Prices : s3[p] > 0}
<1>1. S \in SUBSET Nat /\ S # {}
  BY DEF Maker!Prices
<1>2. Maker!BestAsk = Maker!Min(S)
  BY DEF Maker!BestAsk
<1>3. Maker!BestAsk \in S /\ \A n \in S : Maker!BestAsk <= n
  <2> HIDE DEF S
  <2>1. QED BY <1>1, <1>2, LeastFacts
<1>4. QED BY <1>3 DEF Maker!Prices

LEMMA BestBidFacts ==
    ASSUME Top \in Nat, s2 \in [Maker!Prices -> Nat]
    PROVE  Maker!BestBid \in 0..Top
<1> DEFINE S == {0} \cup {p \in Maker!Prices : s2[p] > 0}
           T == {Top - p : p \in S}
<1>1. S \subseteq 0..Top
  BY DEF Maker!Prices
<1>2. T \in SUBSET Nat /\ T # {}
  <2>1. \A p \in S : Top - p \in Nat
    BY <1>1
  <2>2. 0 \in S
    OBVIOUS
  <2> HIDE DEF S
  <2>3. QED BY <2>1, <2>2
<1>3. PICK x \in T : \A y \in T : x <= y
  <2> HIDE DEF T
  <2>1. QED BY <1>2, LeastNatural
<1>4. PICK m \in S : x = Top - m
  BY <1>3
<1>5. \A n \in S : m >= n
  <2> TAKE n \in S
  <2>1. Top - m <= Top - n
    BY <1>3, <1>4
  <2> HIDE DEF S
  <2>2. QED BY <1>1, <1>4, <2>1
<1>6. Maker!BestBid = Maker!Max(S)
  BY DEF Maker!BestBid
<1>7. Maker!BestBid \in S
  <2> HIDE DEF S
  <2>1. QED BY <1>4, <1>5, <1>6 DEF Maker!Max
<1>8. QED BY <1>1, <1>7

LEMMA MakerInit == Maker!Init => Maker!MakerInv
<1> SUFFICES ASSUME Maker!Init PROVE Maker!MakerInv
  OBVIOUS
<1>1. Close \in Nat /\ MaxSize \in Nat
  BY ResearchAssumption DEF Maker!MakerAssumption
<1>2. DOMAIN s4 = {}
  BY DEF Maker!Init
<1>3. QED BY <1>1, <1>2 DEF Maker!Init, Maker!MakerInv, Maker!MakerTypeOK, Maker!None,
                            Maker!Never, Maker!Pending

\* A recorded snapshot shows no offer the waiting order would have met.
LEMMA MakerSnapshot ==
    ASSUME Maker!MakerInv, NEW decide, NEW mode, Maker!Snapshot(decide, mode)
    PROVE  Maker!MakerInv'
<1> USE DEF Maker!MakerInv, Maker!MakerTypeOK
<1>0. Close \in Nat /\ Top \in Nat /\ Improve \in Nat
  BY ResearchAssumption DEF Maker!MakerAssumption
<1> DEFINE snap == [at |-> s1, bid |-> Maker!BestBid, ask |-> Maker!BestAsk]
           limit == Maker!BestBid + (IF mode = "improve" THEN Improve ELSE 0)
<1>1. /\ Maker!BestBid \in Maker!Prices /\ Maker!BestAsk \in Maker!Prices
      /\ \A p \in Maker!Prices : s3[p] > 0 => Maker!BestAsk <= p
      /\ s3[Maker!BestAsk] > 0
  <2>1. Maker!BestBid > 0 /\ Maker!BestAsk <= Top
    BY DEF Maker!Snapshot
  <2>2. Maker!BestBid \in 0..Top
    BY <1>0, BestBidFacts
  <2>3. QED BY <1>0, <2>1, <2>2, BestAskFacts DEF Maker!Prices
<1>2. snap \in Maker!Snapshots
  BY <1>1 DEF Maker!Snapshots
<1>3. /\ s4' = Append(s4, snap) /\ s1' = s1 + 1 /\ s1 < Close
      /\ UNCHANGED <<s2, s3, s5, s8>>
  BY DEF Maker!Snapshot
<1>4. /\ s4' \in Seq(Maker!Snapshots) /\ Len(s4) \in Nat /\ DOMAIN s4' = 1..(Len(s4) + 1)
      /\ DOMAIN s4 = 1..Len(s4)
      /\ \A i \in 1..Len(s4) : s4'[i] = s4[i]
      /\ s4'[Len(s4) + 1] = snap
  <2>1. s4 \in Seq(Maker!Snapshots)
    OBVIOUS
  <2> HIDE DEF snap
  <2>2. QED BY <1>2, <1>3, <2>1, AppendFacts, LenProperties
<1>5. \A i \in DOMAIN s4' : s4'[i].at \in Nat /\ s4'[i].at < s1'
  <2>1. \A i \in 1..Len(s4) : s4[i] \in Maker!Snapshots
    <3>1. s4 \in Seq(Maker!Snapshots)
      OBVIOUS
    <3>2. QED BY <3>1, ElementOfSeq
  <2>2. \A i \in 1..Len(s4) : s4[i].at \in Nat /\ s4[i].at < s1
    BY <1>4, <2>1 DEF Maker!Snapshots
  <2>3. s1 \in Nat /\ snap.at = s1
    OBVIOUS
  <2> HIDE DEF snap, Maker!MakerInv
  <2>4. QED BY <1>3, <1>4, <2>2, <2>3
<1>6. CASE UNCHANGED <<s6, s7>>
  <2>1. Maker!Pending' <=> Maker!Pending
    BY <1>3, <1>6 DEF Maker!Pending
  <2>2. s6 # Maker!None /\ s6.at < snap.at /\ snap.ask <= s6.limit => s8 <= snap.at
    <3> SUFFICES ASSUME s6 # Maker!None, Maker!BestAsk <= s6.limit
                 PROVE  s8 <= s1
      OBVIOUS
    <3>1. s6.limit \in Maker!Prices
      OBVIOUS
    <3>2. ~Maker!Pending
      BY <1>1, <3>1 DEF Maker!Prices
    <3>3. QED BY <3>2, <1>0 DEF Maker!Pending, Maker!Never
  <2> HIDE DEF snap
  <2>3. Maker!MakerTypeOK'
    BY <1>3, <1>4, <1>6
  <2>4. s6' # Maker!None =>
           \A i \in DOMAIN s4' :
              s6'.at < s4'[i].at /\ s4'[i].ask <= s6'.limit => s8' <= s4'[i].at
    <3> HIDE DEF snap
    <3>1. QED BY <1>3, <1>4, <1>6, <2>2
  <2>5. (\A t \in s5' : t.at < s1') /\ (s8' # Maker!Never => s8' < s1')
    BY <1>0, <1>3, TradeFacts DEF Maker!Never
  <2> HIDE DEF snap, Maker!MakerTypeOK
  <2>6. QED BY <1>3, <1>5, <1>6, <2>1, <2>3, <2>4, <2>5
<1>7. CASE ~UNCHANGED <<s6, s7>>
  <2>1. /\ s6 = Maker!None /\ s6' = [at |-> s1, limit |-> limit] /\ s7' = s2[limit]
        /\ limit < Maker!BestAsk
    BY <1>0, <1>1, <1>7 DEF Maker!Snapshot, Maker!WouldCross, Maker!Prices
  <2>2. limit \in Maker!Prices
    BY <1>0, <1>1, <2>1 DEF Maker!Prices
  <2>3. s6' \in [at : Nat, limit : Maker!Prices] /\ s7' \in Nat
    BY <2>1, <2>2
  <2>4. \A p \in Maker!Prices : s3'[p] > 0 => s6'.limit < p
    BY <1>1, <1>3, <2>1, <2>2 DEF Maker!Prices
  <2>5. \A i \in DOMAIN s4' : ~(s6'.at < s4'[i].at)
    <3>1. s1 \in Nat /\ s6'.at = s1
      BY <2>1
    <3> HIDE DEF snap, Maker!MakerInv
    <3>2. QED BY <1>3, <1>5, <3>1
  <2>6. \A t \in s5' : ~(s6'.at < t.at)
    BY <1>3, <2>1, TradeFacts
  <2> HIDE DEF snap, limit
  <2>7. Maker!MakerTypeOK'
    BY <1>3, <1>4, <2>3
  <2>8. (\A t \in s5' : t.at < s1') /\ (s8' # Maker!Never => s8' < s1')
    BY <1>0, <1>3, TradeFacts DEF Maker!Never
  <2> HIDE DEF Maker!MakerTypeOK
  <2>9. QED BY <1>5, <2>4, <2>5, <2>6, <2>7, <2>8 DEF Maker!Pending
<1>8. QED BY <1>6, <1>7

\* What a step of the market has to show.
LEMMA MarketMoves ==
    ASSUME Maker!MakerInv, s1 < Close, s1' = s1 + 1, UNCHANGED <<s4, s6>>,
           s2' \in [Maker!Prices -> Nat], s3' \in [Maker!Prices -> Nat], s7' \in Nat,
           s5' \subseteq Maker!Trades,
           s8' = s8 \/ (Maker!Pending /\ s8' = s1),
           \A t \in s5' :
              \/ t \in s5
              \/ /\ t.at = s1
                 /\ Maker!Pending /\ t.taker = "no" /\ t.price < s6.limit
                       => s8' = s1,
           Maker!Pending' => \A p \in Maker!Prices : s3'[p] > 0 => s6.limit < p
    PROVE  Maker!MakerInv'
<1>0. Close \in Nat /\ s1 \in Nat
  BY ResearchAssumption DEF Maker!MakerAssumption, Maker!MakerInv, Maker!MakerTypeOK
<1>1. Maker!MakerTypeOK'
  BY <1>0 DEF Maker!MakerInv, Maker!MakerTypeOK, Maker!Never
<1>2. \A i \in DOMAIN s4 : s4[i].at \in Nat
  BY SnapshotFacts
<1>3. /\ \A t \in s5 : t.at \in Nat
      /\ \A t \in s5' : t.at \in Nat
  BY DEF Maker!MakerInv, Maker!MakerTypeOK, Maker!Trades
<1>4. /\ \A i \in DOMAIN s4' : s4'[i].at < s1'
      /\ \A t \in s5' : t.at < s1'
      /\ s8' # Maker!Never => s8' < s1'
  <2>1. \A i \in DOMAIN s4' : s4'[i].at < s1'
    BY <1>0, <1>2 DEF Maker!MakerInv
  <2>2. \A t \in s5' : t.at < s1'
    <3>1. \A t \in s5 : t.at < s1 /\ t.at \in Nat
      BY <1>3 DEF Maker!MakerInv
    <3>2. \A t \in s5' : t \in s5 \/ t.at = s1
      BY DEF Maker!Pending
    <3>3. QED BY <1>0, <3>1, <3>2
  <2>3. s8' # Maker!Never => s8' < s1'
    <3>1. s8 # Maker!Never => s8 \in Nat /\ s8 < s1
      BY <1>0 DEF Maker!MakerInv, Maker!MakerTypeOK, Maker!Never
    <3>2. s8' = s8 \/ s8' = s1
      OBVIOUS
    <3>3. QED BY <1>0, <3>1, <3>2 DEF Maker!Never
  <2>4. QED BY <2>1, <2>2, <2>3
<1>5. Maker!Pending =>
         /\ \A i \in DOMAIN s4 : ~(s8 <= s4[i].at)
         /\ \A t \in s5 : ~(s8 <= t.at)
  <2> SUFFICES ASSUME Maker!Pending
               PROVE  /\ \A i \in DOMAIN s4 : ~(s8 <= s4[i].at)
                      /\ \A t \in s5 : ~(s8 <= t.at)
    OBVIOUS
  <2>1. s8 = Close + 1
    BY DEF Maker!Pending, Maker!Never
  <2>2. QED BY <1>0, <1>2, <1>3, <2>1 DEF Maker!MakerInv
<1>6. ASSUME s6' # Maker!None
      PROVE  /\ \A i \in DOMAIN s4' :
                   s6'.at < s4'[i].at /\ s4'[i].ask <= s6'.limit => s8' <= s4'[i].at
             /\ \A t \in s5' :
                   s6'.at < t.at /\ t.taker = "no" /\ t.price < s6'.limit => s8' <= t.at
  <2>1. s6 # Maker!None
    BY <1>6
  <2>2. ASSUME NEW i \in DOMAIN s4, s6.at < s4[i].at, s4[i].ask <= s6.limit
        PROVE  s8' <= s4[i].at
    BY <1>5, <2>1, <2>2 DEF Maker!MakerInv
  <2>3. ASSUME NEW t \in s5', s6.at < t.at, t.taker = "no", t.price < s6.limit
        PROVE  s8' <= t.at
    <3>1. CASE t \in s5
      BY <1>5, <2>1, <2>3, <3>1 DEF Maker!MakerInv
    <3>2. CASE t \notin s5
      <4>1. t.at = s1 /\ (Maker!Pending => s8' = s1)
        BY <2>3, <3>2 DEF Maker!Pending
      <4>2. ~Maker!Pending => s8' = s8 /\ s8 \in Nat /\ s8 < s1
        BY <1>0, <2>1 DEF Maker!Pending, Maker!MakerInv, Maker!MakerTypeOK, Maker!Never
      <4>3. QED BY <1>0, <4>1, <4>2
    <3>3. QED BY <3>1, <3>2
  <2>4. QED BY <2>2, <2>3
<1>7. Maker!Pending' => \A p \in Maker!Prices : s3'[p] > 0 => s6'.limit < p
  OBVIOUS
<1>8. QED BY <1>1, <1>4, <1>6, <1>7 DEF Maker!MakerInv

LEMMA MakerBids ==
    ASSUME Maker!MakerInv, NEW price \in Maker!Prices,
           Maker!Bid(price) \/ \E before \in BOOLEAN : Maker!CancelBid(price, before)
    PROVE  Maker!MakerInv'
<1>1. /\ s1 < Close /\ s1' = s1 + 1 /\ UNCHANGED <<s3, s4, s5, s6, s8>>
      /\ s2' \in [Maker!Prices -> Nat] /\ s3' \in [Maker!Prices -> Nat] /\ s7' \in Nat
      /\ s5' \subseteq Maker!Trades
  BY DEF Maker!MakerInv, Maker!MakerTypeOK, Maker!Bid, Maker!CancelBid
<1>2. Maker!Pending' => \A p \in Maker!Prices : s3'[p] > 0 => s6.limit < p
  BY <1>1 DEF Maker!MakerInv, Maker!Pending
<1>3. QED BY <1>1, <1>2, MarketMoves

\* An offer that the order would have met fills it.
LEMMA MakerOffers ==
    ASSUME Maker!MakerInv, NEW price \in Maker!Prices,
           Maker!Offer(price) \/ Maker!CancelOffer(price)
    PROVE  Maker!MakerInv'
<1>0. Close \in Nat
  BY ResearchAssumption DEF Maker!MakerAssumption
<1>1. /\ s1 \in Nat /\ s1 < Close /\ s1' = s1 + 1 /\ UNCHANGED <<s2, s4, s5, s6, s7>>
      /\ s2' \in [Maker!Prices -> Nat] /\ s3' \in [Maker!Prices -> Nat] /\ s7' \in Nat
      /\ s5' \subseteq Maker!Trades
  BY DEF Maker!MakerInv, Maker!MakerTypeOK, Maker!Offer, Maker!CancelOffer
<1>2. s8' = s8 \/ (Maker!Pending /\ s8' = s1)
  BY DEF Maker!Offer, Maker!CancelOffer
<1>3. ASSUME Maker!Pending', NEW p \in Maker!Prices, s3'[p] > 0
      PROVE  s6.limit < p
  <2>1. Maker!Pending /\ s8' = s8 /\ s6.limit \in Maker!Prices
    BY <1>0, <1>1, <1>2, <1>3
       DEF Maker!Pending, Maker!Never, Maker!MakerInv, Maker!MakerTypeOK
  <2>2. CASE s3[p] > 0
    BY <2>1, <2>2 DEF Maker!MakerInv
  <2>3. CASE ~(s3[p] > 0)
    <3>1. Maker!Offer(price) /\ p = price
      BY <1>3, <2>3 DEF Maker!Offer, Maker!CancelOffer, Maker!MakerInv, Maker!MakerTypeOK
    <3>2. ~(price <= s6.limit)
      BY <1>0, <1>1, <2>1, <3>1 DEF Maker!Offer, Maker!Pending, Maker!Never
    <3>3. QED BY <2>1, <3>1, <3>2 DEF Maker!Prices
  <2>4. QED BY <2>2, <2>3
<1>4. QED BY <1>1, <1>2, <1>3, MarketMoves

LEMMA MakerBuyers ==
    ASSUME Maker!MakerInv, Maker!TakerBuys
    PROVE  Maker!MakerInv'
<1>1. Maker!BestAsk \in Maker!Prices /\ s3[Maker!BestAsk] > 0
  BY ResearchAssumption, BestAskFacts
     DEF Maker!MakerAssumption, Maker!MakerInv, Maker!MakerTypeOK, Maker!TakerBuys
<1>2. /\ s1 \in Nat /\ s1 < Close /\ s1' = s1 + 1 /\ UNCHANGED <<s2, s4, s6, s7, s8>>
      /\ s2' \in [Maker!Prices -> Nat] /\ s7' \in Nat
      /\ s5' = s5 \cup {[at |-> s1, taker |-> "yes", price |-> Maker!BestAsk]}
      /\ s3' = [s3 EXCEPT ![Maker!BestAsk] = @ - 1]
  BY DEF Maker!MakerInv, Maker!MakerTypeOK, Maker!TakerBuys
<1>3. /\ s3' \in [Maker!Prices -> Nat]
      /\ \A p \in Maker!Prices : s3'[p] > 0 => s3[p] > 0
  BY <1>1, <1>2 DEF Maker!MakerInv, Maker!MakerTypeOK
<1>4. s5' \subseteq Maker!Trades
  BY <1>1, <1>2 DEF Maker!MakerInv, Maker!MakerTypeOK, Maker!Trades
<1>5. Maker!Pending' => \A p \in Maker!Prices : s3'[p] > 0 => s6.limit < p
  BY <1>2, <1>3 DEF Maker!MakerInv, Maker!Pending
<1>6. \A t \in s5' : t \in s5 \/ (t.at = s1 /\ t.taker # "no")
  BY <1>2
<1>7. QED BY <1>2, <1>3, <1>4, <1>5, <1>6, MarketMoves

\* A taker that sells below the limit has filled the order on its way.
LEMMA MakerSellers ==
    ASSUME Maker!MakerInv, NEW price \in Maker!Prices, NEW level \in Maker!Prices,
           NEW taken \in 1..MaxSize, NEW more \in BOOLEAN,
           Maker!TakerSells(price, level, taken, more)
    PROVE  Maker!MakerInv'
<1> DEFINE sold == [p \in Maker!Prices |-> IF p > level THEN s2[p]
                                          ELSE IF p = level THEN taken ELSE 0]
<1>0. MaxSize \in Nat /\ taken \in Nat /\ level \in Nat /\ price \in Nat
      /\ s2 \in [Maker!Prices -> Nat] /\ s7 \in Nat /\ s1 \in Nat
  BY ResearchAssumption
     DEF Maker!MakerAssumption, Maker!MakerInv, Maker!MakerTypeOK, Maker!Prices
<1>1. /\ s1 < Close /\ s1' = s1 + 1 /\ UNCHANGED <<s3, s4, s6>>
      /\ price <= level /\ taken \in 1..s2[level]
      /\ s2' = [p \in Maker!Prices |-> s2[p] - sold[p]]
      /\ s5' = s5 \cup {[at |-> s1, taker |-> "no", price |-> p] :
                           p \in {q \in Maker!Prices : sold[q] > 0}}
      /\ IF Maker!Pending /\ price <= s6.limit
         THEN /\ s8' = IF level < s6.limit \/ more \/ (level = s6.limit /\ taken > s7)
                       THEN s1 ELSE s8
              /\ s7' = Maker!Max({0, s7 - sold[s6.limit]})
         ELSE s8' = s8 /\ s7' = s7
  BY DEF Maker!TakerSells
<1>2. \A p \in Maker!Prices : sold[p] \in Nat /\ sold[p] <= s2[p]
  BY <1>0, <1>1
<1>3. \A p \in Maker!Prices : sold[p] > 0 => level <= p
  BY <1>0 DEF Maker!Prices
<1> HIDE DEF sold
<1>4. s2' \in [Maker!Prices -> Nat]
  BY <1>0, <1>1, <1>2
<1>5. s7' \in Nat
  <2>1. CASE Maker!Pending /\ price <= s6.limit
    <3>1. s6.limit \in Maker!Prices
      BY <2>1 DEF Maker!Pending, Maker!MakerInv, Maker!MakerTypeOK
    <3> DEFINE d == s7 - sold[s6.limit]
    <3>2. d \in Int /\ s7' = Maker!Max({0, d})
      <4>1. sold[s6.limit] \in Nat
        BY <1>2, <3>1
      <4>2. s7' = Maker!Max({0, s7 - sold[s6.limit]})
        BY <1>1, <2>1
      <4>3. QED BY <1>0, <4>1, <4>2
    <3> HIDE DEF d
    <3>3. \E x \in {0, d} : \A y \in {0, d} : x >= y
      BY <3>2
    <3>4. s7' \in {0, d} /\ s7' >= 0
      BY <3>2, <3>3 DEF Maker!Max
    <3>5. QED BY <3>2, <3>4
  <2>2. QED BY <1>0, <1>1, <2>1
<1>6. s5' \subseteq Maker!Trades
  BY <1>0, <1>1 DEF Maker!MakerInv, Maker!MakerTypeOK, Maker!Trades
<1>7. ASSUME NEW t \in s5', t \notin s5
      PROVE  t.at = s1 /\ (Maker!Pending /\ t.taker = "no" /\ t.price < s6.limit => s8' = s1)
  <2>1. PICK p \in Maker!Prices : sold[p] > 0 /\ t = [at |-> s1, taker |-> "no", price |-> p]
    BY <1>1, <1>7
  <2>2. ASSUME Maker!Pending, p < s6.limit PROVE s8' = s1
    <3>1. s6.limit \in Maker!Prices /\ level <= p
      BY <1>3, <2>1, <2>2 DEF Maker!Pending, Maker!MakerInv, Maker!MakerTypeOK
    <3>2. level < s6.limit /\ price <= s6.limit
      BY <1>0, <1>1, <2>2, <3>1 DEF Maker!Prices
    <3>3. QED BY <1>1, <2>2, <3>2
  <2>3. QED BY <2>1, <2>2
<1>8. s8' = s8 \/ (Maker!Pending /\ s8' = s1)
  BY <1>1
<1>9. Maker!Pending' => \A p \in Maker!Prices : s3'[p] > 0 => s6.limit < p
  <2>1. Maker!Pending' => Maker!Pending
    BY <1>1, <1>8 DEF Maker!Pending
  <2>2. QED BY <1>1, <2>1 DEF Maker!MakerInv
<1>10. s3' \in [Maker!Prices -> Nat]
  BY <1>1 DEF Maker!MakerInv, Maker!MakerTypeOK
<1>11. QED BY <1>1, <1>4, <1>5, <1>6, <1>7, <1>8, <1>9, <1>10, MarketMoves

LEMMA MakerStep ==
    ASSUME Maker!MakerInv, [Maker!Next]_(Maker!vars)
    PROVE  Maker!MakerInv'
<1>1. CASE UNCHANGED Maker!vars
  BY <1>1 DEF Maker!vars, Maker!MakerInv, Maker!MakerTypeOK, Maker!Pending
<1>2. CASE Maker!Next
  BY <1>2, MakerSnapshot, MakerBids, MakerOffers, MakerBuyers, MakerSellers
     DEF Maker!Next
<1>3. QED BY <1>1, <1>2

LEMMA MakerFills == Maker!MakerInv => Maker!FillsAreReal
<1> SUFFICES ASSUME Maker!MakerInv, s6 # Maker!None
             PROVE  /\ s8 <= Maker!FirstTradeThrough(s6)
                    /\ s8 <= Maker!FirstPrintFill(s6, "through")
  BY DEF Maker!FillsAreReal
<1>0. Close \in Nat /\ Maker!Never \in Nat /\ s8 \in Nat /\ s8 <= Maker!Never
  BY ResearchAssumption
     DEF Maker!MakerAssumption, Maker!MakerInv, Maker!MakerTypeOK, Maker!Never
<1>1. s8 <= Maker!FirstTradeThrough(s6)
  <2> DEFINE S == {Maker!Never} \cup
                     {s.at : s \in {t \in Maker!Range(s4) :
                                       t.at > s6.at /\ t.ask <= s6.limit}}
  <2>1. \A i \in DOMAIN s4 : s4[i].at \in Nat
    BY SnapshotFacts
  <2>2. \A s \in Maker!Range(s4) : \E i \in DOMAIN s4 : s = s4[i]
    BY DEF Maker!Range
  <2>3. S \in SUBSET Nat /\ S # {} /\ \A n \in S : s8 <= n
    BY <1>0, <2>1, <2>2 DEF Maker!MakerInv
  <2>4. Maker!FirstTradeThrough(s6) = Maker!Min(S)
    BY DEF Maker!FirstTradeThrough
  <2> HIDE DEF S
  <2>5. QED BY <2>3, <2>4, LeastFacts
<1>2. s8 <= Maker!FirstPrintFill(s6, "through")
  <2> DEFINE S == {Maker!Never} \cup
                     {p.at : p \in {t \in s5 :
                         /\ t.at > s6.at /\ t.at < Close /\ t.taker = "no"
                         /\ Maker!Reaches("through", t.price, s6.limit)}}
  <2>1. S \in SUBSET Nat /\ S # {} /\ \A n \in S : s8 <= n
    BY <1>0 DEF Maker!MakerInv, Maker!MakerTypeOK, Maker!Trades, Maker!Reaches
  <2>2. Maker!FirstPrintFill(s6, "through") = Maker!Min(S)
    BY DEF Maker!FirstPrintFill
  <2> HIDE DEF S
  <2>3. QED BY <2>1, <2>2, LeastFacts
<1>3. QED BY <1>1, <1>2
-----------------------------------------------------------------------------
(* Adding up (LockProfit).                                                  *)

\* Total is the last value of whatever holds the partial sums.
LEMMA TotalIsSum ==
    ASSUME NEW s \in Seq(Int), NEW f, PartialSums(s, f)
    PROVE  Positions!Total(s) = f[Len(s)]
<1> DEFINE L == Len(s)
           Rule(g) == [n \in 0 .. L |-> IF n = 0 THEN 0 ELSE g[n - 1] + s[n]]
           upto == CHOOSE g : g = Rule(g)
<1>1. L \in Nat
  OBVIOUS
<1>2. Positions!Total(s) = upto[L]
  BY DEF Positions!Total
<1> HIDE DEF L
<1>3. f \in [0 .. L -> Int] /\ f[0] = 0 /\ \A n \in 1 .. L : f[n] = f[n - 1] + s[n]
  BY DEF PartialSums, L
<1>4. f = Rule(f)
  <2>1. f = [n \in 0 .. L |-> f[n]]
    BY <1>3
  <2>2. \A n \in 0 .. L : f[n] = IF n = 0 THEN 0 ELSE f[n - 1] + s[n]
    <3> TAKE n \in 0 .. L
    <3>1. n = 0 \/ (n \in 1 .. L /\ n # 0)
      BY <1>1
    <3>2. QED BY <1>3, <3>1
  <2>3. QED BY <2>1, <2>2
<1>5. upto = Rule(upto)
  <2> HIDE DEF Rule
  <2> QED BY <1>4
<1>6. \A n \in 1 .. L : s[n] \in Int
  BY ElementOfSeq DEF L
<1> DEFINE Bad == {n \in 0 .. L : upto[n] # f[n]}
<1> HIDE DEF upto
<1>7. Bad = {}
  <2> SUFFICES ASSUME Bad # {} PROVE FALSE
    OBVIOUS
  <2>1. Bad \in SUBSET Nat
    BY <1>1
  <2>2. PICK n \in Bad : \A k \in Bad : n <= k
    <3> HIDE DEF Bad
    <3> QED BY <2>1, LeastNatural
  <2>3. n \in 0 .. L /\ upto[n] # f[n] /\ n \in Nat
    BY <1>1, <2>2
  <2>4. upto[n] = IF n = 0 THEN 0 ELSE upto[n - 1] + s[n]
    BY <1>5, <2>3
  <2>5. n \in 1 .. L /\ n - 1 \in 0 .. L /\ ~(n <= n - 1) /\ n # 0
    BY <1>1, <1>3, <2>3, <2>4
  <2>6. upto[n - 1] = f[n - 1]
    BY <2>2, <2>5
  <2>7. QED BY <1>3, <2>3, <2>4, <2>5, <2>6
<1>8. L \in 0 .. L
  BY <1>1
<1>9. QED BY <1>2, <1>7, <1>8 DEF L

\* A sequence that is zero but at one place, and one that is zero everywhere.
LEMMA TotalOfSole ==
    ASSUME NEW s \in Seq(Int), NEW e \in 1 .. Len(s),
           \A i \in 1 .. Len(s) : i # e => s[i] = 0
    PROVE  Positions!Total(s) = s[e]
<1> DEFINE L == Len(s)
           f == [n \in 0 .. L |-> IF n < e THEN 0 ELSE s[e]]
<1>1. L \in Nat /\ s[e] \in Int
  BY ElementOfSeq
<1>2. f \in [0 .. L -> Int] /\ f[0] = 0 /\ f[L] = s[e]
  BY <1>1
<1>3. \A n \in 1 .. L : f[n] = f[n - 1] + s[n]
  <2> TAKE n \in 1 .. L
  <2>1. n \in 0 .. L /\ n - 1 \in 0 .. L
    BY <1>1
  <2>2. CASE n < e
    BY <1>1, <2>1, <2>2
  <2>3. CASE n = e
    BY <1>1, <2>1, <2>3
  <2>4. CASE n > e
    BY <1>1, <2>1, <2>4
  <2>5. QED BY <2>2, <2>3, <2>4
<1>4. PartialSums(s, f)
  BY <1>2, <1>3 DEF PartialSums
<1> HIDE DEF f
<1>5. QED BY <1>2, <1>4, TotalIsSum

LEMMA TotalOfZeros ==
    ASSUME NEW s \in Seq(Int), \A i \in 1 .. Len(s) : s[i] = 0
    PROVE  Positions!Total(s) = 0
<1> DEFINE f == [n \in 0 .. Len(s) |-> 0]
<1>1. Len(s) \in Nat
  OBVIOUS
<1>2. f \in [0 .. Len(s) -> Int] /\ f[0] = 0 /\ f[Len(s)] = 0
  BY <1>1
<1>3. \A n \in 1 .. Len(s) : f[n] = f[n - 1] + s[n]
  BY <1>1
<1>4. PartialSums(s, f)
  BY <1>2, <1>3 DEF PartialSums
<1> HIDE DEF f
<1>5. QED BY <1>2, <1>4, TotalIsSum

LEMMA TotalIsInt == ASSUME NEW s \in Seq(Int) PROVE Positions!Total(s) \in Int
<1>1. PICK f : PartialSums(s, f)
  BY SumsExist
<1>2. f[Len(s)] \in Int
  BY <1>1 DEF PartialSums
<1>3. QED BY <1>1, <1>2, TotalIsSum

LEMMA TotalIsNat ==
    ASSUME NEW s \in Seq(Int), \A i \in 1 .. Len(s) : s[i] >= 0
    PROVE  Positions!Total(s) \in Nat
<1> DEFINE L == Len(s)
<1>1. L \in Nat /\ \A i \in 1 .. L : s[i] \in Int
  BY ElementOfSeq
<1>2. PICK f : PartialSums(s, f)
  BY SumsExist
<1>3. f \in [0 .. L -> Int] /\ f[0] = 0 /\ \A n \in 1 .. L : f[n] = f[n - 1] + s[n]
  BY <1>2 DEF PartialSums
<1> DEFINE Bad == {n \in 0 .. L : f[n] < 0}
<1>4. Positions!Total(s) = f[L]
  BY <1>2, TotalIsSum
<1>5. \A n \in 1 .. L : s[n] >= 0
  OBVIOUS
<1> HIDE DEF L
<1>6. Bad = {}
  <2> SUFFICES ASSUME Bad # {} PROVE FALSE
    OBVIOUS
  <2>1. Bad \in SUBSET Nat
    BY <1>1
  <2>2. PICK n \in Bad : \A k \in Bad : n <= k
    <3> HIDE DEF Bad
    <3> QED BY <2>1, LeastNatural
  <2>3. n \in 1 .. L /\ n - 1 \in 0 .. L /\ ~(n <= n - 1) /\ f[n] < 0
    BY <1>1, <1>3, <2>2
  <2>4. f[n - 1] \in Int /\ f[n - 1] >= 0 /\ s[n] \in Int
    BY <1>1, <1>3, <2>2, <2>3
  <2>5. QED BY <1>3, <1>5, <2>3, <2>4
<1>7. L \in 0 .. L
  BY <1>1
<1>8. QED BY <1>3, <1>4, <1>6, <1>7

LEMMA TotalConcat ==
    ASSUME NEW a \in Seq(Int), NEW b \in Seq(Int)
    PROVE  Positions!Total(a \o b) = Positions!Total(a) + Positions!Total(b)
<1> DEFINE K == Len(a)
           L == Len(b)
<1>1. K \in Nat /\ L \in Nat
  OBVIOUS
<1>2. /\ a \o b \in Seq(Int) /\ Len(a \o b) = K + L
      /\ \A i \in 1 .. K + L : (a \o b)[i] = IF i <= K THEN a[i] ELSE b[i - K]
  BY ConcatProperties
<1>3. PICK f : PartialSums(a, f)
  BY SumsExist
<1>4. PICK g : PartialSums(b, g)
  BY SumsExist
<1> DEFINE h == [n \in 0 .. K + L |-> IF n <= K THEN f[n] ELSE f[K] + g[n - K]]
<1>5. /\ f \in [0 .. K -> Int] /\ f[0] = 0
      /\ \A n \in 1 .. K : f[n] = f[n - 1] + a[n]
  BY <1>3 DEF PartialSums
<1>6. /\ g \in [0 .. L -> Int] /\ g[0] = 0
      /\ \A n \in 1 .. L : g[n] = g[n - 1] + b[n]
  BY <1>4 DEF PartialSums
<1>7. Positions!Total(a) = f[K] /\ Positions!Total(b) = g[L]
  BY <1>3, <1>4, TotalIsSum
<1>8. \A i \in 1 .. L : b[i] \in Int
  BY ElementOfSeq
<1> HIDE DEF K, L
<1>9. f[K] \in Int /\ g[L] \in Int
  BY <1>1, <1>5, <1>6
<1>10. h \in [0 .. K + L -> Int] /\ h[0] = 0 /\ h[K + L] = f[K] + g[L]
  <2>1. ASSUME NEW n \in 0 .. K + L PROVE h[n] \in Int
    <3>1. CASE n <= K
      <4>1. n \in 0 .. K
        BY <1>1, <3>1
      <4>2. QED BY <1>5, <3>1, <4>1
    <3>2. CASE ~(n <= K)
      <4>1. n - K \in 0 .. L
        BY <1>1, <3>2
      <4>2. g[n - K] \in Int
        BY <1>6, <4>1
      <4>3. QED BY <1>9, <3>2, <4>2
    <3>3. QED BY <3>1, <3>2
  <2>2. 0 \in 0 .. K + L /\ 0 <= K
    BY <1>1
  <2>3. h[0] = 0
    BY <1>5, <2>2
  <2>4. h[K + L] = f[K] + g[L]
    <3>1. K + L \in 0 .. K + L /\ (K + L) - K = L
      BY <1>1
    <3>2. CASE K + L <= K
      <4>1. K + L = K /\ L = 0
        BY <1>1, <3>2
      <4>2. QED BY <1>6, <1>9, <3>1, <3>2, <4>1
    <3>3. CASE ~(K + L <= K)
      BY <3>1, <3>3
    <3>4. QED BY <3>2, <3>3
  <2>5. QED BY <2>1, <2>3, <2>4
<1>11. ASSUME NEW n \in 1 .. K + L
       PROVE  h[n] = h[n - 1] + (a \o b)[n]
  <2>1. n \in 0 .. K + L /\ n - 1 \in 0 .. K + L
    BY <1>1
  <2>2. CASE n <= K
    <3>1. n \in 1 .. K /\ n - 1 <= K
      BY <1>1, <2>2
    <3>2. QED BY <1>2, <1>5, <2>1, <2>2, <3>1
  <2>3. CASE n = K + 1
    <3>1. ~(n <= K) /\ n - 1 = K /\ n - K = 1 /\ 1 \in 1 .. L /\ 1 - 1 = 0 /\ n - 1 <= K
      BY <1>1, <2>3
    <3>2. h[n] = f[K] + g[1] /\ h[n - 1] = f[K] /\ (a \o b)[n] = b[1]
      BY <1>2, <2>1, <3>1
    <3>3. g[1] = 0 + b[1] /\ b[1] \in Int
      BY <1>6, <1>8, <3>1
    <3>4. QED BY <1>9, <3>2, <3>3
  <2>4. CASE n > K + 1
    <3>1. ~(n <= K) /\ ~(n - 1 <= K) /\ n - K \in 1 .. L /\ (n - 1) - K = (n - K) - 1
          /\ (n - K) - 1 \in 0 .. L
      BY <1>1, <2>4
    <3>2. h[n] = f[K] + g[n - K] /\ h[n - 1] = f[K] + g[(n - K) - 1]
          /\ (a \o b)[n] = b[n - K]
      BY <1>2, <2>1, <3>1
    <3>3. g[n - K] = g[(n - K) - 1] + b[n - K]
      BY <1>6, <3>1
    <3>4. g[(n - K) - 1] \in Int /\ b[n - K] \in Int
      BY <1>6, <1>8, <3>1
    <3>5. QED BY <1>9, <3>2, <3>3, <3>4
  <2>5. n <= K \/ n = K + 1 \/ n > K + 1
    BY <1>1
  <2>6. QED BY <2>2, <2>3, <2>4, <2>5
<1> HIDE DEF h
<1>12. PartialSums(a \o b, h)
  BY <1>2, <1>10, <1>11 DEF PartialSums
<1>13. QED BY <1>2, <1>7, <1>10, <1>12, TotalIsSum
-----------------------------------------------------------------------------
(* What the lots of a ledger add up to (LockProfit, PaperPositions): s1 is  *)
(* the markets, s2 what is known, s3 the settled tickers, s4 the entries,   *)
(* s5 the fills, s6 the replay.                                             *)

AnyLots == Positions!EntryLots \cup Positions!FillLots
Count(lots, t, side) == Positions!Total(Positions!LotCounts(lots, t, side))
Cost(lots, t, side) == Positions!Total(Positions!LotCosts(lots, t, side))

LEMMA LotFacts ==
    ASSUME NEW x \in AnyLots
    PROVE  /\ x.ticker \in Tickers /\ x.side \in Positions!Sides
           /\ x.qty \in Nat /\ x.price \in Int /\ x.fee \in Int
<1>1. Positions!PositionsAssumption
  BY ResearchAssumption
<1>2. Size \in Nat
  BY <1>1 DEF Positions!PositionsAssumption
<1>3. QED BY <1>2 DEF AnyLots, Positions!EntryLots, Positions!FillLots

LEMMA CountFacts ==
    ASSUME NEW lots \in Seq(AnyLots), NEW t, NEW side
    PROVE  LET counts == Positions!LotCounts(lots, t, side)
               costs == Positions!LotCosts(lots, t, side)
           IN  /\ counts \in Seq(Int) /\ Len(counts) = Len(lots)
               /\ costs \in Seq(Int) /\ Len(costs) = Len(lots)
               /\ \A i \in 1 .. Len(lots) :
                     IF lots[i].ticker = t /\ lots[i].side = side
                     THEN /\ counts[i] = lots[i].qty
                          /\ costs[i] = lots[i].qty * lots[i].price + lots[i].fee
                     ELSE counts[i] = 0 /\ costs[i] = 0
               /\ Count(lots, t, side) \in Nat /\ Cost(lots, t, side) \in Int
<1> DEFINE counts == Positions!LotCounts(lots, t, side)
           costs == Positions!LotCosts(lots, t, side)
           L == Len(lots)
<1>1. L \in Nat /\ DOMAIN lots = 1 .. L
  BY LenProperties
<1>2. \A i \in 1 .. L : /\ lots[i].qty \in Nat
                        /\ lots[i].qty * lots[i].price + lots[i].fee \in Int
  <2> TAKE i \in 1 .. L
  <2>1. lots[i] \in AnyLots
    BY ElementOfSeq
  <2>2. lots[i].qty \in Nat /\ lots[i].price \in Int /\ lots[i].fee \in Int
    BY <2>1, LotFacts
  <2>3. QED BY <2>2
<1> HIDE DEF L
<1>3. /\ counts \in [1 .. L -> Int] /\ costs \in [1 .. L -> Int]
      /\ \A i \in 1 .. L :
            IF lots[i].ticker = t /\ lots[i].side = side
            THEN /\ counts[i] = lots[i].qty
                 /\ costs[i] = lots[i].qty * lots[i].price + lots[i].fee
            ELSE counts[i] = 0 /\ costs[i] = 0
  BY <1>1, <1>2 DEF Positions!LotCounts, Positions!LotCosts, Positions!IsOf
<1> HIDE DEF counts, costs
<1>4. /\ counts \in Seq(Int) /\ Len(counts) = L
      /\ costs \in Seq(Int) /\ Len(costs) = L
  BY <1>1, <1>3, SeqDef, LenProperties
<1>5. \A i \in 1 .. L : counts[i] >= 0
  BY <1>2, <1>3
<1>6. Count(lots, t, side) \in Nat
  BY <1>4, <1>5, TotalIsNat DEF Count, counts
<1>7. Cost(lots, t, side) \in Int
  BY <1>4, TotalIsInt DEF Cost, costs
<1>8. QED BY <1>3, <1>4, <1>6, <1>7 DEF counts, costs, L

LEMMA CountConcat ==
    ASSUME NEW a \in Seq(AnyLots), NEW b \in Seq(AnyLots), NEW t, NEW side
    PROVE  /\ Count(a \o b, t, side) = Count(a, t, side) + Count(b, t, side)
           /\ Cost(a \o b, t, side) = Cost(a, t, side) + Cost(b, t, side)
<1> DEFINE counts(lots) == Positions!LotCounts(lots, t, side)
           costs(lots) == Positions!LotCosts(lots, t, side)
           number(lot) == IF lot.ticker = t /\ lot.side = side THEN lot.qty ELSE 0
           price(lot) == IF lot.ticker = t /\ lot.side = side
                         THEN lot.qty * lot.price + lot.fee ELSE 0
           K == Len(a)
           L == Len(b)
<1>1. /\ K \in Nat /\ L \in Nat /\ a \o b \in Seq(AnyLots) /\ Len(a \o b) = K + L
      /\ \A i \in 1 .. K + L : (a \o b)[i] = IF i <= K THEN a[i] ELSE b[i - K]
  BY ConcatProperties
<1>2. ASSUME NEW lots \in Seq(AnyLots)
      PROVE
         /\ counts(lots) \in Seq(Int) /\ Len(counts(lots)) = Len(lots)
         /\ costs(lots) \in Seq(Int) /\ Len(costs(lots)) = Len(lots)
         /\ \A i \in 1 .. Len(lots) : /\ counts(lots)[i] = number(lots[i])
                                      /\ costs(lots)[i] = price(lots[i])
  BY CountFacts
<1> HIDE DEF counts, costs, number, price
<1>c. /\ counts(a) \in Seq(Int) /\ Len(counts(a)) = K
      /\ counts(b) \in Seq(Int) /\ Len(counts(b)) = L
      /\ costs(a) \in Seq(Int) /\ Len(costs(a)) = K
      /\ costs(b) \in Seq(Int) /\ Len(costs(b)) = L
  BY <1>2
<1>3. /\ counts(a) \o counts(b) \in Seq(Int) /\ Len(counts(a) \o counts(b)) = K + L
      /\ \A i \in 1 .. K + L :
            (counts(a) \o counts(b))[i] = IF i <= K THEN counts(a)[i] ELSE counts(b)[i - K]
  <2>1. /\ counts(a) \o counts(b) \in Seq(Int)
        /\ Len(counts(a) \o counts(b)) = Len(counts(a)) + Len(counts(b))
        /\ \A i \in 1 .. Len(counts(a)) + Len(counts(b)) :
              (counts(a) \o counts(b))[i] = IF i <= Len(counts(a)) THEN counts(a)[i]
                                       ELSE counts(b)[i - Len(counts(a))]
    BY <1>c, ConcatProperties
  <2>2. QED BY <1>c, <2>1
<1>4. /\ costs(a) \o costs(b) \in Seq(Int) /\ Len(costs(a) \o costs(b)) = K + L
      /\ \A i \in 1 .. K + L :
            (costs(a) \o costs(b))[i] = IF i <= K THEN costs(a)[i] ELSE costs(b)[i - K]
  <2>1. /\ costs(a) \o costs(b) \in Seq(Int)
        /\ Len(costs(a) \o costs(b)) = Len(costs(a)) + Len(costs(b))
        /\ \A i \in 1 .. Len(costs(a)) + Len(costs(b)) :
              (costs(a) \o costs(b))[i] = IF i <= Len(costs(a)) THEN costs(a)[i]
                                       ELSE costs(b)[i - Len(costs(a))]
    BY <1>c, ConcatProperties
  <2>2. QED BY <1>c, <2>1
<1> HIDE DEF K, L
<1>5. ASSUME NEW i \in 1 .. K + L
      PROVE  /\ counts(a \o b)[i] = (counts(a) \o counts(b))[i]
             /\ costs(a \o b)[i] = (costs(a) \o costs(b))[i]
  <2>1. CASE i <= K
    <3>1. i \in 1 .. K /\ (a \o b)[i] = a[i]
      BY <1>1, <2>1
    <3>2. /\ counts(a)[i] = number(a[i]) /\ costs(a)[i] = price(a[i])
      BY <1>2, <3>1 DEF K
    <3>3. /\ counts(a \o b)[i] = number((a \o b)[i])
          /\ costs(a \o b)[i] = price((a \o b)[i])
      BY <1>1, <1>2
    <3>4. QED BY <1>3, <1>4, <2>1, <3>1, <3>2, <3>3
  <2>2. CASE ~(i <= K)
    <3>1. i - K \in 1 .. L /\ (a \o b)[i] = b[i - K]
      BY <1>1, <2>2
    <3>2. /\ counts(b)[i - K] = number(b[i - K])
          /\ costs(b)[i - K] = price(b[i - K])
      BY <1>2, <3>1 DEF L
    <3>3. /\ counts(a \o b)[i] = number((a \o b)[i])
          /\ costs(a \o b)[i] = price((a \o b)[i])
      BY <1>1, <1>2
    <3>4. QED BY <1>3, <1>4, <2>2, <3>1, <3>2, <3>3
  <2>3. QED BY <2>1, <2>2
<1>6. counts(a \o b) = counts(a) \o counts(b) /\ costs(a \o b) = costs(a) \o costs(b)
  <2>1. /\ counts(a \o b) \in Seq(Int) /\ Len(counts(a \o b)) = K + L
        /\ costs(a \o b) \in Seq(Int) /\ Len(costs(a \o b)) = K + L
    BY <1>1, <1>2
  <2>2. QED BY <1>3, <1>4, <1>5, <2>1, SeqEqual
<1>7. /\ Positions!Total(counts(a) \o counts(b))
         = Positions!Total(counts(a)) + Positions!Total(counts(b))
      /\ Positions!Total(costs(a) \o costs(b))
         = Positions!Total(costs(a)) + Positions!Total(costs(b))
  BY <1>2, TotalConcat
<1>8. QED BY <1>6, <1>7 DEF Count, Cost, counts, costs

LEMMA CountOfNone ==
    ASSUME NEW lots \in Seq(AnyLots), NEW t, NEW side,
           \A i \in 1 .. Len(lots) : ~(lots[i].ticker = t /\ lots[i].side = side)
    PROVE  Count(lots, t, side) = 0 /\ Cost(lots, t, side) = 0
<1> DEFINE counts == Positions!LotCounts(lots, t, side)
           costs == Positions!LotCosts(lots, t, side)
<1>1. /\ counts \in Seq(Int) /\ \A i \in 1 .. Len(counts) : counts[i] = 0
      /\ costs \in Seq(Int) /\ \A i \in 1 .. Len(costs) : costs[i] = 0
  BY CountFacts
<1> HIDE DEF counts, costs
<1>2. Positions!Total(counts) = 0 /\ Positions!Total(costs) = 0
  BY <1>1, TotalOfZeros
<1>3. QED BY <1>2 DEF Count, Cost, counts, costs

LEMMA CountOfSole ==
    ASSUME NEW lots \in Seq(AnyLots), NEW t, NEW side, NEW e \in 1 .. Len(lots),
           lots[e].ticker = t, lots[e].side = side,
           \A i \in 1 .. Len(lots) : i # e => ~(lots[i].ticker = t /\ lots[i].side = side)
    PROVE  /\ Count(lots, t, side) = lots[e].qty
           /\ Cost(lots, t, side) = lots[e].qty * lots[e].price + lots[e].fee
<1> DEFINE counts == Positions!LotCounts(lots, t, side)
           costs == Positions!LotCosts(lots, t, side)
<1>1. /\ counts \in Seq(Int) /\ \A i \in 1 .. Len(counts) : i # e => counts[i] = 0
      /\ costs \in Seq(Int) /\ \A i \in 1 .. Len(costs) : i # e => costs[i] = 0
      /\ e \in 1 .. Len(counts) /\ e \in 1 .. Len(costs)
      /\ counts[e] = lots[e].qty
      /\ costs[e] = lots[e].qty * lots[e].price + lots[e].fee
  <2>1. /\ counts \in Seq(Int) /\ Len(counts) = Len(lots)
        /\ costs \in Seq(Int) /\ Len(costs) = Len(lots)
        /\ \A i \in 1 .. Len(lots) :
              IF lots[i].ticker = t /\ lots[i].side = side
              THEN /\ counts[i] = lots[i].qty
                   /\ costs[i] = lots[i].qty * lots[i].price + lots[i].fee
              ELSE counts[i] = 0 /\ costs[i] = 0
    BY CountFacts
  <2> HIDE DEF counts, costs
  <2>2. QED BY <2>1
<1> HIDE DEF counts, costs
<1>2. Positions!Total(counts) = counts[e] /\ Positions!Total(costs) = costs[e]
  BY <1>1, TotalOfSole
<1>3. QED BY <1>1, <1>2 DEF Count, Cost, counts, costs

\* A position whose numbers are numbers, and that of two ledgers is one.
Sane(pos) ==
    /\ pos.held \in Positions!Sides
    /\ \A side \in Positions!Sides : pos.qty[side] \in Nat /\ pos.paid[side] \in Int
    /\ pos.held = IF pos.qty["YES"] > pos.qty["NO"] THEN "YES" ELSE "NO"
    /\ pos.naked = pos.qty[pos.held] - pos.qty[Positions!Other(pos.held)]
    /\ pos.locked = pos.qty[Positions!Other(pos.held)]
    /\ pos.naked \in Nat

LEMMA PositionFacts ==
    ASSUME NEW a \in Seq(AnyLots), NEW b \in Seq(AnyLots), NEW t,
           NEW pos, pos = Positions!FromLots(a \o b, t)
    PROVE  /\ Sane(pos)
           /\ \A side \in Positions!Sides :
                 /\ pos.qty[side] = Count(a, t, side) + Count(b, t, side)
                 /\ pos.paid[side] = Cost(a, t, side) + Cost(b, t, side)
<1> DEFINE qty == [side \in Positions!Sides |-> Count(a, t, side) + Count(b, t, side)]
           paid == [side \in Positions!Sides |-> Cost(a, t, side) + Cost(b, t, side)]
<1>1. \A side \in Positions!Sides :
         /\ Count(a \o b, t, side) = Count(a, t, side) + Count(b, t, side)
         /\ Cost(a \o b, t, side) = Cost(a, t, side) + Cost(b, t, side)
         /\ Count(a, t, side) \in Nat /\ Count(b, t, side) \in Nat
         /\ Cost(a, t, side) \in Int /\ Cost(b, t, side) \in Int
  BY CountConcat, CountFacts
<1>2. /\ [side \in Positions!Sides |-> Count(a \o b, t, side)] = qty
      /\ [side \in Positions!Sides |-> Cost(a \o b, t, side)] = paid
  BY <1>1
<1>3. \A side \in Positions!Sides : qty[side] \in Nat /\ paid[side] \in Int
  BY <1>1
<1> HIDE DEF qty, paid
<1>4. pos = LET held == IF qty["YES"] > qty["NO"] THEN "YES" ELSE "NO"
            IN  [qty |-> qty, paid |-> paid, held |-> held,
                 naked |-> qty[held] - qty[Positions!Other(held)],
                 locked |-> qty[Positions!Other(held)]]
  BY <1>2 DEF Positions!FromLots, Count, Cost
<1>5. /\ pos.qty = qty /\ pos.paid = paid
      /\ pos.held = IF qty["YES"] > qty["NO"] THEN "YES" ELSE "NO"
      /\ pos.naked = qty[pos.held] - qty[Positions!Other(pos.held)]
      /\ pos.locked = qty[Positions!Other(pos.held)]
  BY <1>4
<1>6. /\ pos.held \in Positions!Sides /\ pos.naked \in Nat
  BY <1>3, <1>5 DEF Positions!Sides, Positions!Other
<1>7. Sane(pos)
  BY <1>3, <1>5, <1>6 DEF Sane
<1>8. QED BY <1>5, <1>7 DEF qty, paid
-----------------------------------------------------------------------------
(* What locking decides (LockProfit, PositionLifecycle).                    *)

LEMMA FeeIsInt ==
    ASSUME NEW price \in Int, NEW contracts \in Int
    PROVE  Positions!TakerFee(price, contracts) \in Int
<1>1. FeeRate \in Nat
  BY ResearchAssumption DEF Positions!PositionsAssumption
<1>2. FeeRate * contracts * price * (100 - price) + 9999 \in Int
  BY <1>1
<1>3. QED BY <1>2 DEF Positions!TakerFee

LEMMA UnitFeeIsInt == \A price : price \in Int => Positions!TakerFee(price, 1) \in Int
BY FeeIsInt

LEMMA WorthIsInt ==
    ASSUME NEW pos, Sane(pos), NEW ask \in Int
    PROVE  /\ Positions!Worth(pos, ask) \in Int
           /\ Positions!LockWorth(pos, ask)
              = pos.qty[pos.held] * (100 - ask - Positions!TakerFee(ask, 1))
                - pos.paid[pos.held]
           /\ Positions!LockWorth(pos, ask) \in Int
           /\ Positions!Cents(pos, MinLock) = pos.qty[pos.held] * MinLock
           /\ Positions!Cents(pos, MinLock) \in Int
<1>1. MinLock \in Nat
  BY ResearchAssumption DEF Positions!PositionsAssumption
<1>2. pos.qty[pos.held] \in Nat /\ pos.paid[pos.held] \in Int
  BY DEF Sane
<1>3. Positions!TakerFee(ask, 1) \in Int
  BY FeeIsInt
<1>4. /\ \A n \in Int : Positions!Worth(pos, n) = pos.qty[pos.held] * n - pos.paid[pos.held]
      /\ \A n \in Int : Positions!Worth(pos, n) \in Int
  BY <1>2 DEF Positions!Worth
<1>5. 100 - ask - Positions!TakerFee(ask, 1) \in Int
  BY <1>3
<1>6. Positions!LockWorth(pos, ask) = Positions!Worth(pos, 100 - ask - Positions!TakerFee(ask, 1))
  BY DEF Positions!LockWorth
<1>7. /\ Positions!Cents(pos, MinLock) = pos.qty[pos.held] * MinLock
      /\ Positions!Cents(pos, MinLock) \in Int
  BY <1>1, <1>2 DEF Positions!Cents
<1>8. QED BY <1>4, <1>5, <1>6, <1>7

\* The opposite leg is bought only when it pays the minimum, and never more of
\* it than is naked.
LEMMA LockDecides ==
    ASSUME NEW pos, Sane(pos), NEW inp, inp.askDepth \in Nat, inp.ask \in Int, NEW noise,
           Positions!EvaluateLock(pos, inp, noise).state \in Positions!Locks
    PROVE  /\ Positions!EvaluateLock(pos, inp, noise).qty \in 0 .. pos.naked
           /\ Positions!LockWorth(pos, inp.ask) >= Positions!Cents(pos, MinLock)
<1> DEFINE lock == Positions!EvaluateLock(pos, inp, noise)
<1>1. pos.naked \in Nat /\ \A side \in Positions!Sides : pos.qty[side] \in Nat
  BY DEF Sane
<1>2. /\ pos.qty["YES"] + pos.qty["NO"] # 0 /\ Positions!Open(pos)
      /\ ~Positions!LockRejected(inp) /\ Positions!LockWanted(pos, inp, noise)
      /\ lock = IF inp.askDepth >= pos.naked
                THEN [state |-> "LOCK_FULL", qty |-> pos.naked]
                ELSE IF AllowPartialLock
                THEN [state |-> "LOCK_PARTIAL", qty |-> inp.askDepth]
                ELSE Positions!NoLock("REJECTED")
  <2>1. pos.qty["YES"] + pos.qty["NO"] # 0
    <3> SUFFICES ASSUME pos.qty["YES"] + pos.qty["NO"] = 0 PROVE FALSE
      OBVIOUS
    <3>0. ~Positions!Open(pos)
      BY <1>1 DEF Sane, Positions!Open, Positions!Sides, Positions!Other
    <3>1. lock = Positions!NoLock("NO_POSITION")
      BY <3>0, <1>1 DEF Positions!EvaluateLock, Positions!Sides
    <3>2. QED BY <3>1 DEF Positions!NoLock, Positions!Locks
  <2>2. pos.qty["YES"] + pos.qty["NO"] > 0
    BY <1>1, <2>1 DEF Positions!Sides
  <2>3. Positions!Open(pos)
    <3> SUFFICES ASSUME ~Positions!Open(pos) PROVE FALSE
      OBVIOUS
    <3>1. lock = Positions!NoLock("ALREADY_FULLY_LOCKED")
      BY <2>1, <2>2 DEF Positions!EvaluateLock
    <3>2. QED BY <3>1 DEF Positions!NoLock, Positions!Locks
  <2>4. ~Positions!LockRejected(inp)
    <3> SUFFICES ASSUME Positions!LockRejected(inp) PROVE FALSE
      OBVIOUS
    <3>1. lock = Positions!NoLock("REJECTED")
      BY <2>1, <2>2, <2>3 DEF Positions!EvaluateLock
    <3>2. QED BY <3>1 DEF Positions!NoLock, Positions!Locks
  <2>5. Positions!LockWanted(pos, inp, noise)
    <3> SUFFICES ASSUME ~Positions!LockWanted(pos, inp, noise) PROVE FALSE
      OBVIOUS
    <3>1. lock = Positions!NoLock("RIDE") \/ lock = Positions!NoLock("WATCH")
      BY <2>1, <2>2, <2>3, <2>4 DEF Positions!EvaluateLock
    <3>2. QED BY <3>1 DEF Positions!NoLock, Positions!Locks
  <2>6. QED BY <2>1, <2>2, <2>3, <2>4, <2>5 DEF Positions!EvaluateLock
<1>3. lock.qty \in 0 .. pos.naked
  <2> HIDE DEF lock
  <2>1. lock.state # "REJECTED"
    BY DEF Positions!Locks, lock
  <2>2. QED BY <1>1, <1>2, <2>1 DEF Positions!NoLock
<1>4. Positions!LockWorth(pos, inp.ask) \in Int /\ Positions!Cents(pos, MinLock) \in Int
  BY WorthIsInt
<1>5. QED BY <1>2, <1>3, <1>4 DEF Positions!LockWanted, Positions!Lockable, Positions!Exceeds

\* With nothing to sell into, what the ladder acts on either has no size or pays
\* the lock's minimum.
LEMMA LadderPays ==
    ASSUME NEW pos, Sane(pos), NEW inp, inp.askDepth \in Nat, inp.ask \in Int,
           inp.bidDepth = 0, pos.naked > 0, NEW noise
    PROVE  LET rungs == Positions!Ladder(pos, inp, noise)
           IN  /\ DOMAIN rungs = 1 .. 12 /\ rungs[12].if = TRUE
               /\ \A i \in 1 .. 12 :
                     rungs[i].if /\ rungs[i].do.act \in Positions!Acts =>
                         \/ rungs[i].do.qty = 0
                         \/ Positions!LockWorth(pos, inp.ask) >= Positions!Cents(pos, MinLock)
<1> DEFINE rungs == Positions!Ladder(pos, inp, noise)
           pays == Positions!LockWorth(pos, inp.ask) >= Positions!Cents(pos, MinLock)
           lock == Positions!EvaluateLock(pos, inp, noise)
           exit == Positions!SameLegExit(pos, inp)
<1>1. lock.state \in Positions!Locks => pays
  BY LockDecides
<1>2. exit.qty = 0
  BY DEF Positions!SameLegExit
<1>3. DOMAIN rungs = 1 .. 12 /\ rungs[12].if = TRUE
  BY DEF Positions!Ladder
<1> DEFINE Fine(rung) == rung.if /\ rung.do.act \in Positions!Acts => rung.do.qty = 0 \/ pays
<1>4. Fine(rungs[1]) /\ Fine(rungs[4]) /\ Fine(rungs[6])
  BY <1>2 DEF Positions!Ladder, Positions!Decision
<1>5. Fine(rungs[2]) /\ Fine(rungs[5])
  BY <1>1 DEF Positions!Ladder, Positions!Decision
<1>6. Fine(rungs[7])
  BY DEF Positions!Ladder, Positions!Decision
<1>7. Fine(rungs[8])
  BY Zenon, <1>2 DEF Positions!Ladder, Positions!Decision
<1>8. Fine(rungs[9])
  BY <1>1, <1>2 DEF Positions!Ladder, Positions!Decision
<1>9. Fine(rungs[3]) /\ Fine(rungs[10]) /\ Fine(rungs[11]) /\ Fine(rungs[12])
  BY Zenon DEF Positions!Ladder, Positions!Decision
<1> HIDE DEF rungs, Fine
<1>10. \A i \in 1 .. 12 : Fine(rungs[i])
  <2> TAKE i \in 1 .. 12
  <2>1. i \in {1, 2, 3, 4, 5, 6, 7, 8, 9, 10, 11, 12}
    OBVIOUS
  <2>2. QED BY <1>4, <1>5, <1>6, <1>7, <1>8, <1>9, <2>1
<1>11. QED BY <1>3, <1>10 DEF rungs, Fine

LEMMA LifecyclePays ==
    ASSUME NEW pos, Sane(pos), NEW inp, inp.askDepth \in Nat, inp.ask \in Int,
           inp.bidDepth = 0, pos.naked > 0, NEW noise,
           Positions!EvaluateLifecycle(pos, inp, noise).act \in Positions!Acts
    PROVE  \/ Positions!EvaluateLifecycle(pos, inp, noise).qty = 0
           \/ Positions!LockWorth(pos, inp.ask) >= Positions!Cents(pos, MinLock)
<1> DEFINE rungs == Positions!Ladder(pos, inp, noise)
           Decides(i) == rungs[i].if /\ \A j \in 1 .. i - 1 : ~rungs[j].if
           S == {i \in 1 .. 12 : rungs[i].if}
           first == CHOOSE i \in DOMAIN rungs : Decides(i)
<1>1. DOMAIN rungs = 1 .. 12 /\ rungs[12].if = TRUE
  BY LadderPays
<1>2. \E i \in DOMAIN rungs : Decides(i)
  <2> HIDE DEF rungs
  <2>1. S \in SUBSET Nat /\ S # {}
    BY <1>1
  <2>2. PICK i \in S : \A j \in S : i <= j
    <3> HIDE DEF S
    <3> QED BY <2>1, LeastNatural
  <2>3. \A j \in 1 .. i - 1 : ~rungs[j].if
    BY <2>2
  <2>4. QED BY <1>1, <2>2, <2>3
<1>3. first \in 1 .. 12 /\ rungs[first].if
  <2> HIDE DEF rungs
  <2> QED BY <1>1, <1>2
<1>4. \/ Positions!EvaluateLifecycle(pos, inp, noise) = rungs[first].do
      \/ Positions!EvaluateLifecycle(pos, inp, noise).act \notin Positions!Acts
  BY DEF Positions!EvaluateLifecycle, Positions!Decision, Positions!Acts, Positions!Sells
<1> HIDE DEF first
<1>5. QED BY <1>3, <1>4, LadderPays
-----------------------------------------------------------------------------
(* The positions of two ledgers (PaperPositions).                           *)

LEMMA LedgersAreLots ==
    Positions!PositionsTypeOK => s4 \in Seq(AnyLots) /\ s5 \in Seq(AnyLots)
<1> SUFFICES ASSUME s4 \in Seq(Positions!EntryLots), s5 \in Seq(Positions!FillLots)
             PROVE  s4 \in Seq(AnyLots) /\ s5 \in Seq(AnyLots)
  BY DEF Positions!PositionsTypeOK
<1>1. \A S, T, s : s \in Seq(S) /\ S \subseteq T => s \in Seq(T)
  OBVIOUS
<1>2. Positions!EntryLots \subseteq AnyLots /\ Positions!FillLots \subseteq AnyLots
  BY DEF AnyLots
<1>3. QED BY <1>1, <1>2

\* A ticker with one entry whose fills all buy the opposite leg.
LEMMA SolePosition ==
    ASSUME NEW a \in Seq(AnyLots), NEW b \in Seq(AnyLots), NEW t, NEW e \in 1 .. Len(a),
           \A i \in 1 .. Len(a) : a[i].ticker = t <=> i = e,
           \A i \in 1 .. Len(b) : b[i].ticker = t => b[i].side = Positions!Other(a[e].side),
           NEW pos, pos = Positions!FromLots(a \o b, t),
           NEW own, own = a[e].side, NEW opp, opp = Positions!Other(own)
    PROVE  /\ Sane(pos) /\ own \in Positions!Sides /\ opp \in Positions!Sides
           /\ own # opp /\ Positions!Other(opp) = own
           /\ pos.qty[own] = a[e].qty /\ pos.qty[opp] = Count(b, t, opp)
           /\ pos.paid[own] = a[e].qty * a[e].price + a[e].fee
           /\ pos.paid[opp] = Cost(b, t, opp)
<1>1. own \in Positions!Sides /\ a[e] \in AnyLots /\ a[e].qty \in Nat
      /\ a[e].price \in Int /\ a[e].fee \in Int
  BY LotFacts, ElementOfSeq
<1>2. opp \in Positions!Sides /\ own # opp /\ Positions!Other(opp) = own
  BY <1>1 DEF Positions!Sides, Positions!Other
<1>3. /\ Sane(pos)
      /\ \A side \in Positions!Sides :
            /\ pos.qty[side] = Count(a, t, side) + Count(b, t, side)
            /\ pos.paid[side] = Cost(a, t, side) + Cost(b, t, side)
  BY PositionFacts
<1>4. /\ Count(a, t, own) = a[e].qty
      /\ Cost(a, t, own) = a[e].qty * a[e].price + a[e].fee
  <2>1. \A i \in 1 .. Len(a) : i # e => ~(a[i].ticker = t /\ a[i].side = own)
    OBVIOUS
  <2>2. a[e].ticker = t
    OBVIOUS
  <2>3. QED BY <2>1, <2>2, CountOfSole
<1>5. Count(a, t, opp) = 0 /\ Cost(a, t, opp) = 0
  <2>1. \A i \in 1 .. Len(a) : ~(a[i].ticker = t /\ a[i].side = opp)
    BY <1>2
  <2>2. QED BY <2>1, CountOfNone
<1>6. Count(b, t, own) = 0 /\ Cost(b, t, own) = 0
  <2>1. \A i \in 1 .. Len(b) : ~(b[i].ticker = t /\ b[i].side = own)
    BY <1>2
  <2>2. QED BY <2>1, CountOfNone
<1>7. /\ Count(b, t, opp) \in Nat /\ Cost(b, t, opp) \in Int
      /\ Cost(a, t, own) \in Int
  BY CountFacts
<1>8. QED BY <1>1, <1>2, <1>3, <1>4, <1>5, <1>6, <1>7

LEMMA BoundedFacts ==
    ASSUME NEW S, NEW n \in Nat, NEW s \in Positions!BoundedSeq(S, n)
    PROVE  \E m \in Nat : s \in [1 .. m -> S]
BY DEF Positions!BoundedSeq, Positions!SeqOf

\* As long as nothing is locked, nothing has to be covered.
LEMMA NothingLocked ==
    ASSUME NEW qty \in Nat, NEW cost \in Int, NEW m \in Int
    PROVE  0 \in 0 .. qty /\ cost * 0 <= qty * ((100 - m) * 0 - 0)
<1>1. cost * 0 = 0 /\ (100 - m) * 0 - 0 = 0 /\ qty * 0 = 0
  OBVIOUS
<1>2. QED BY <1>1

LEMMA CandidateFacts ==
    ASSUME NEW noise, NEW evidence, NEW row,
           Positions!EvaluatePolicy(evidence, row, noise).state = "PAPER_CANDIDATE"
    PROVE  /\ Positions!EvaluatePolicy(evidence, row, noise).side \in Positions!Sides
           /\ Positions!CanEmit(evidence)
<1> DEFINE chance == Positions!PolicyChance(evidence, row)
           eligible == {side \in Positions!Sides :
                           Positions!Eligible(row, side, chance, noise)}
<1>1. /\ PolicyOn /\ ~Positions!RejectInfra(evidence, row)
      /\ ~Positions!WatchInfra(evidence, chance) /\ eligible # {}
      /\ Positions!EvaluatePolicy(evidence, row, noise).side = CHOOSE s \in eligible : TRUE
  BY DEF Positions!EvaluatePolicy, Positions!Verdict
<1>2. (CHOOSE s \in eligible : TRUE) \in eligible
  <2> HIDE DEF eligible
  <2> QED BY <1>1
<1>3. Positions!CanEmit(evidence)
  BY <1>1 DEF Positions!CanEmit, Positions!RejectInfra, Positions!WatchInfra
<1>4. QED BY <1>1, <1>2, <1>3

LEMMA PositionsInit == Positions!Init => Positions!PositionsInv
<1> SUFFICES ASSUME Positions!Init PROVE Positions!PositionsInv
  OBVIOUS
<1>1. s1 \in TwoMarkets /\ s3 = {} /\ s4 = <<>> /\ s5 = <<>> /\ s6 = <<>>
  BY DEF Positions!Init
<1>2. Positions!PositionsTypeOK
  BY <1>1 DEF Positions!PositionsTypeOK
<1>3. DOMAIN s4 = {} /\ DOMAIN s5 = {} /\ DOMAIN s6 = {}
  BY <1>1
<1>4. QED
  BY <1>1, <1>2, <1>3 DEF Positions!PositionsInv, Positions!FillsFollowEntries,
     Positions!ReplayRealisesMinimum, Positions!CandidatesAreAnnounced

LEMMA PositionsSettle ==
    ASSUME Positions!PositionsInv, NEW t \in Tickers, Positions!Settle(t)
    PROVE  Positions!PositionsInv'
<1>1. s3' = s3 \cup {t} /\ UNCHANGED <<s1, s2, s4, s5, s6>>
  BY DEF Positions!Settle
<1>2. Positions!PositionsTypeOK'
  BY <1>1 DEF Positions!PositionsTypeOK, Positions!PositionsInv
<1>3. QED
  BY <1>1, <1>2 DEF Positions!PositionsInv, Positions!FillsFollowEntries,
     Positions!SoleEntry, Positions!LocksAreCovered,
     Positions!ReplayRealisesMinimum, Positions!CandidatesAreAnnounced

\* What PositionsInv says of the ledgers is kept by entries of what has no fills.
LEMMA EntriesKeepCover ==
    ASSUME Positions!PositionsTypeOK, Positions!FillsFollowEntries,
           \A t \in Tickers : \A e \in DOMAIN s4 :
              Positions!SoleEntry(t, e) => Positions!LocksAreCovered(t, e),
           NEW new \in Seq(Positions!EntryLots), s4' = s4 \o new, s5' = s5
    PROVE  /\ s4' \in Seq(Positions!EntryLots)
           /\ Positions!FillsFollowEntries'
           /\ \A t \in Tickers : \A e \in DOMAIN s4' :
                 Positions!SoleEntry(t, e)' => Positions!LocksAreCovered(t, e)'
<1> DEFINE K == Len(s4)
           L == Len(new)
<1>1. s4 \in Seq(Positions!EntryLots) /\ s5 \in Seq(Positions!FillLots)
  BY DEF Positions!PositionsTypeOK
<1>2. /\ K \in Nat /\ L \in Nat /\ DOMAIN s4 = 1 .. K /\ DOMAIN s5 = 1 .. Len(s5)
      /\ s4' \in Seq(Positions!EntryLots) /\ Len(s4') = K + L
      /\ DOMAIN s4' = 1 .. K + L
      /\ \A i \in 1 .. K + L : s4'[i] = IF i <= K THEN s4[i] ELSE new[i - K]
  BY <1>1, ConcatProperties, LenProperties
<1>3. s5 \in Seq(AnyLots)
  BY LedgersAreLots
<1> HIDE DEF K, L
<1>4. Positions!FillsFollowEntries'
  <2> SUFFICES ASSUME NEW i \in DOMAIN s5
               PROVE  \E e \in DOMAIN s4' : s4'[e].ticker = s5[i].ticker
    BY DEF Positions!FillsFollowEntries
  <2>1. PICK e \in DOMAIN s4 : s4[e].ticker = s5[i].ticker
    BY DEF Positions!FillsFollowEntries
  <2>2. e \in DOMAIN s4' /\ s4'[e] = s4[e]
    BY <1>2
  <2>3. QED BY <2>1, <2>2
<1>5. ASSUME NEW t \in Tickers, NEW e \in 1 .. K + L,
             \A i \in 1 .. K + L : s4'[i].ticker = t <=> i = e
      PROVE  Positions!LocksAreCovered(t, e)'
  <2>1. CASE e <= K
    <3>1. e \in DOMAIN s4 /\ s4'[e] = s4[e]
      BY <1>2, <2>1
    <3>2. Positions!SoleEntry(t, e)
      <4> SUFFICES ASSUME NEW i \in 1 .. K PROVE s4[i].ticker = t <=> i = e
        BY <1>2 DEF Positions!SoleEntry
      <4>1. i \in 1 .. K + L /\ s4'[i] = s4[i]
        BY <1>2
      <4>2. QED BY <1>5, <4>1
    <3>3. Positions!LocksAreCovered(t, e)
      BY <3>1, <3>2
    <3>4. QED BY <3>1, <3>3 DEF Positions!LocksAreCovered
  <2>2. CASE e > K
    <3>1. \A i \in DOMAIN s5 : s5[i].ticker # t
      <4> SUFFICES ASSUME NEW i \in DOMAIN s5, s5[i].ticker = t PROVE FALSE
        OBVIOUS
      <4>1. PICK j \in DOMAIN s4 : s4[j].ticker = t
        BY DEF Positions!FillsFollowEntries
      <4>2. j \in 1 .. K + L /\ s4'[j] = s4[j] /\ j # e
        BY <1>2, <2>2, <4>1
      <4>3. QED BY <1>5, <4>1, <4>2
    <3> DEFINE entry == s4'[e]
               opp == Positions!Other(entry.side)
               paid == entry.qty * entry.price + entry.fee
    <3>2. Count(s5, t, opp) = 0 /\ Cost(s5, t, opp) = 0
      BY <1>2, <1>3, <3>1, CountOfNone
    <3>3. s4'[e] \in Positions!EntryLots /\ e \in DOMAIN s4'
      BY <1>2, ElementOfSeq
    <3>4. entry.qty \in Nat /\ entry.price \in Int /\ entry.fee \in Int
      BY <3>3, LotFacts DEF AnyLots
    <3>5. MinLock \in Int
      BY ResearchAssumption DEF Positions!PositionsAssumption
    <3>6. entry.qty \in Nat /\ paid \in Int
      <4> HIDE DEF entry
      <4> QED BY <3>4
    <3>7. /\ 0 \in 0 .. entry.qty
          /\ paid * 0 <= entry.qty * ((100 - MinLock) * 0 - 0)
      <4> HIDE DEF entry, paid
      <4> QED BY <3>5, <3>6, NothingLocked
    <3>8. s5' = s5
      OBVIOUS
    <3>9. QED BY <3>1, <3>2, <3>7, <3>8 DEF Positions!LocksAreCovered, Count, Cost
  <2>3. QED BY <1>2, <2>1, <2>2
<1>6. ASSUME NEW t \in Tickers, NEW e \in DOMAIN s4', Positions!SoleEntry(t, e)'
      PROVE  Positions!LocksAreCovered(t, e)'
  <2>1. e \in 1 .. K + L /\ \A i \in 1 .. K + L : s4'[i].ticker = t <=> i = e
    BY <1>2, <1>6 DEF Positions!SoleEntry
  <2>2. QED BY <1>5, <2>1
<1>7. QED BY <1>2, <1>4, <1>6

LEMMA PositionsEnter ==
    ASSUME Positions!PositionsInv, NEW noise, NEW rows \in Positions!LatestRows,
           Positions!RunPaperPolicySim(rows, noise)
    PROVE  Positions!PositionsInv'
<1> DEFINE row(i) == s1[rows[i][1]].rows[rows[i][2]]
           verdict == [i \in DOMAIN rows |-> Positions!EvaluatePolicy(s2, row(i), noise)]
           candidates == {i \in DOMAIN rows : verdict[i].state = "PAPER_CANDIDATE"}
           first == {i \in candidates :
                        \A j \in candidates : rows[j][1] = rows[i][1] => i <= j}
           lot(i) == LET ask == Positions!Ask(row(i).bid, verdict[i].side)
                     IN  [ticker |-> rows[i][1], side |-> verdict[i].side,
                          qty |-> Size, price |-> ask,
                          fee |-> Positions!TakerFee(ask, Size), at |-> row(i).at]
           keys == UNION {{<<t, i>> : i \in DOMAIN s1[t].rows} : t \in s3}
<1>1. PICK order \in Positions!BoundedSeq(first, LastRows) :
         /\ s4' = s4 \o [k \in DOMAIN order |-> lot(order[k])]
         /\ UNCHANGED <<s1, s2, s3, s5, s6>>
  BY Zenon DEF Positions!RunPaperPolicySim
<1> DEFINE new == [k \in DOMAIN order |-> lot(order[k])]
<1> HIDE DEF row, verdict, candidates, first, lot, keys, new
<1>2. /\ s1 \in TwoMarkets /\ s3 \subseteq Tickers
      /\ LastRows \in Nat /\ Size \in Nat
      /\ \A t \in Tickers : \A i \in DOMAIN s1[t].rows :
            /\ s1[t].rows[i].bid \in [Positions!Sides -> Int]
            /\ s1[t].rows[i].at \in Int
  BY ResearchAssumption DEF Positions!PositionsAssumption, Positions!PositionsInv,
     Positions!PositionsTypeOK
<1>3. ASSUME NEW i \in DOMAIN rows
      PROVE  rows[i][1] \in Tickers /\ rows[i][2] \in DOMAIN s1[rows[i][1]].rows
  <2>1. rows \in Positions!BoundedSeq(keys, LastRows)
    BY DEF Positions!LatestRows, keys
  <2>2. rows[i] \in keys
    <3>1. PICK m \in Nat : rows \in [1 .. m -> keys]
      BY <1>2, <2>1, BoundedFacts
    <3> QED BY <3>1
  <2>3. PICK t \in s3 : \E j \in DOMAIN s1[t].rows : rows[i] = <<t, j>>
    BY <2>2 DEF keys
  <2>4. PICK j \in DOMAIN s1[t].rows : rows[i] = <<t, j>>
    BY <2>3
  <2>5. rows[i][1] = t /\ rows[i][2] = j
    BY SMTT(30), <2>4
  <2>6. t \in Tickers
    BY <1>2
  <2>7. QED BY <2>5, <2>6
<1>4. ASSUME NEW i \in first
      PROVE  lot(i) \in Positions!EntryLots /\ Positions!CanEmit(s2)
  <2>1. i \in DOMAIN rows
        /\ Positions!EvaluatePolicy(s2, row(i), noise).state = "PAPER_CANDIDATE"
        /\ verdict[i] = Positions!EvaluatePolicy(s2, row(i), noise)
    BY DEF first, candidates, verdict
  <2>2. verdict[i].side \in Positions!Sides /\ Positions!CanEmit(s2)
    BY <2>1, CandidateFacts
  <2>3. rows[i][1] \in Tickers /\ row(i).bid \in [Positions!Sides -> Int] /\ row(i).at \in Int
    BY <1>2, <1>3, <2>1 DEF row
  <2>4. Positions!Ask(row(i).bid, verdict[i].side) \in Int
    BY <2>2, <2>3 DEF Positions!Ask, Positions!Other, Positions!None, Positions!Sides
  <2>5. Positions!TakerFee(Positions!Ask(row(i).bid, verdict[i].side), Size) \in Int
    BY <1>2, <2>4, FeeIsInt
  <2>6. lot(i) \in Positions!EntryLots
    BY <2>2, <2>3, <2>4, <2>5 DEF Positions!EntryLots, lot
  <2>7. QED BY <2>2, <2>6
<1>5. PICK m \in Nat : order \in [1 .. m -> first]
  BY <1>2, BoundedFacts
<1>6. new \in Seq(Positions!EntryLots)
  <2>1. new \in [1 .. m -> Positions!EntryLots]
    BY <1>4, <1>5 DEF new
  <2>2. QED BY <1>5, <2>1, SeqDef
<1>7. s4' # <<>> => Positions!CanEmit(s2)
  <2>1. CASE m = 0
    <3>1. DOMAIN new = {}
      BY <1>5, <2>1 DEF new
    <3>2. new = <<>>
      <4>1. Len(new) \in Nat /\ DOMAIN new = 1 .. Len(new)
        BY <1>6, LenProperties
      <4>2. Len(new) = 0
        BY <3>1, <4>1
      <4>3. QED BY <1>6, <4>2, EmptySeq
    <3>3. s4 \in Seq(Positions!EntryLots)
      BY DEF Positions!PositionsInv, Positions!PositionsTypeOK
    <3>4. s4' = s4
      <4>1. s4 \o <<>> = s4
        BY <3>3, ConcatEmptySeq
      <4>2. QED BY <1>1, <3>2, <4>1 DEF new
    <3>5. QED BY <3>4 DEF Positions!PositionsInv, Positions!CandidatesAreAnnounced
  <2>2. CASE m # 0
    <3>1. order[1] \in first
      BY <1>5, <2>2
    <3>2. QED BY <1>4, <3>1
  <2>3. QED BY <2>1, <2>2
<1>8. s4' = s4 \o new /\ s5' = s5
  BY <1>1 DEF new
<1>9. /\ Positions!PositionsTypeOK /\ Positions!FillsFollowEntries
      /\ \A t \in Tickers : \A e \in DOMAIN s4 :
            Positions!SoleEntry(t, e) => Positions!LocksAreCovered(t, e)
  BY DEF Positions!PositionsInv
<1>10. /\ s4' \in Seq(Positions!EntryLots)
       /\ Positions!FillsFollowEntries'
       /\ \A t \in Tickers : \A e \in DOMAIN s4' :
             Positions!SoleEntry(t, e)' => Positions!LocksAreCovered(t, e)'
  BY <1>6, <1>8, <1>9, EntriesKeepCover
<1>11. Positions!PositionsTypeOK'
  BY <1>1, <1>9, <1>10 DEF Positions!PositionsTypeOK
<1>12. Positions!ReplayRealisesMinimum'
  BY <1>1 DEF Positions!ReplayRealisesMinimum, Positions!PositionsInv
<1>13. Positions!CandidatesAreAnnounced'
  BY <1>1, <1>7 DEF Positions!CandidatesAreAnnounced
<1>14. QED BY <1>10, <1>11, <1>12, <1>13 DEF Positions!PositionsInv

\* The pairs that a lock adds pay the minimum, after the share of the entry's cost
\* that they lock.
Covers(Q, cost, m, L, paid) == cost * L <= Q * ((100 - m) * L - paid)
Pays(Q, cost, m, price, fee) == Q * (100 - price - fee) - cost >= Q * m
LEMMA CoverGrows ==
    ASSUME NEW Q \in Nat, NEW cost \in Int, NEW m \in Int, NEW L \in Nat, NEW paid \in Int,
           NEW q \in Nat, NEW price \in Int, NEW fee \in Int,
           Covers(Q, cost, m, L, paid), Pays(Q, cost, m, price, fee)
    PROVE  Covers(Q, cost, m, L + q, paid + (q * price + q * fee))
<1>0. cost * L <= Q * ((100 - m) * L - paid) /\ Q * (100 - price - fee) - cost >= Q * m
  BY DEF Covers, Pays
<1> DEFINE gain == 100 - m - price - fee
           rest == (100 - m) * L - paid
<1>1. gain \in Int /\ rest \in Int
  OBVIOUS
<1>2. Q * (100 - price - fee) - Q * m = Q * gain
  OBVIOUS
<1>3. cost <= Q * gain
  <2>1. Q * (100 - price - fee) \in Int /\ Q * m \in Int /\ Q * gain \in Int
    BY <1>1
  <2> HIDE DEF gain
  <2>2. QED BY <1>0, <1>2, <2>1
<1>4. \A x, y \in Int : x <= y => q * x <= q * y
  OBVIOUS
<1>5. q * cost <= q * (Q * gain)
  <2>1. Q * gain \in Int
    BY <1>1
  <2> HIDE DEF gain
  <2>2. QED BY <1>3, <1>4, <2>1
<1>6. (100 - m) * (L + q) - (paid + (q * price + q * fee)) = rest + q * gain
  OBVIOUS
<1>7. cost * (L + q) = cost * L + q * cost
  OBVIOUS
<1>8. Q * (rest + q * gain) = Q * rest + q * (Q * gain)
  <2> HIDE DEF gain, rest
  <2> QED BY <1>1
<1>9. cost * L <= Q * rest
  BY <1>0
<1>10. cost * L \in Int /\ q * cost \in Int /\ Q * rest \in Int /\ q * (Q * gain) \in Int
  <2> HIDE DEF gain, rest
  <2> QED BY <1>1
<1> HIDE DEF gain, rest
<1>11. cost * L + q * cost <= Q * rest + q * (Q * gain)
  BY <1>5, <1>9, <1>10
<1>12. QED BY <1>6, <1>7, <1>8, <1>11 DEF Covers

\* What is recorded when a lock is.
LEMMA RecordLockFacts ==
    ASSUME Positions!PositionsInv, NEW t \in Tickers, NEW noise,
           Positions!RecordLock(t, noise),
           NEW pos, pos = Positions!Position(t)
    PROVE  \E fill \in Positions!FillLots :
              /\ s5' = Append(s5, fill) /\ UNCHANGED <<s1, s2, s3, s4, s6>>
              /\ Sane(pos) /\ pos.naked > 0
              /\ fill.ticker = t /\ fill.side = Positions!Other(pos.held)
              /\ fill.qty \in 0 .. pos.naked
              /\ fill.fee = fill.qty * Positions!TakerFee(fill.price, 1)
              /\ Positions!LockWorth(pos, fill.price) >= Positions!Cents(pos, MinLock)
              /\ fill.nakedAfter = pos.naked - fill.qty
              /\ fill.lockedAfter = pos.locked + fill.qty
<1> DEFINE row == Positions!LatestRow(t)
           inp == Positions!InputFromRow(pos, row)
           lock == Positions!EvaluateLock(pos, inp, noise)
           fill == [ticker |-> t, side |-> Positions!Other(pos.held), qty |-> lock.qty,
                    price |-> inp.ask, fee |-> lock.qty * Positions!TakerFee(inp.ask, 1),
                    at |-> row.at, nakedAfter |-> pos.naked - lock.qty,
                    lockedAfter |-> pos.locked + lock.qty]
<1>1. /\ Positions!Open(pos) /\ lock.state \in Positions!Locks
      /\ s5' = Append(s5, fill) /\ UNCHANGED <<s1, s2, s3, s4, s6>>
  BY DEF Positions!RecordLock, Positions!LockDecision
<1>2. s4 \in Seq(AnyLots) /\ s5 \in Seq(AnyLots)
  BY LedgersAreLots DEF Positions!PositionsInv
<1>3. pos = Positions!FromLots(s4 \o s5, t)
  BY DEF Positions!Position, Positions!Lots
<1>4. Sane(pos)
  BY <1>2, <1>3, PositionFacts
<1>5. /\ row.bid \in [Positions!Sides -> Int] /\ row.at \in Int
      /\ row.depth \in [Positions!Sides -> Nat]
  <2>1. /\ s1 \in TwoMarkets /\ Len(s1[t].rows) \in Nat \ {0}
        /\ DOMAIN s1[t].rows = 1 .. Len(s1[t].rows)
        /\ \A i \in DOMAIN s1[t].rows :
              /\ s1[t].rows[i].bid \in [Positions!Sides -> Int]
              /\ s1[t].rows[i].at \in Int
              /\ s1[t].rows[i].depth \in [Positions!Sides -> Nat]
    BY ResearchAssumption DEF Positions!PositionsAssumption, Positions!PositionsInv,
       Positions!PositionsTypeOK
  <2>2. row = s1[t].rows[Len(s1[t].rows)] /\ Len(s1[t].rows) \in DOMAIN s1[t].rows
    BY <2>1 DEF Positions!LatestRow, Positions!Last
  <2> HIDE DEF row
  <2>3. QED BY <2>1, <2>2
<1>6. inp.askDepth \in Nat /\ inp.ask \in Int
  <2> HIDE DEF row
  <2>1. pos.held \in Positions!Sides /\ Positions!Other(pos.held) \in Positions!Sides
        /\ Positions!Other(Positions!Other(pos.held)) \in Positions!Sides
    BY <1>4 DEF Sane, Positions!Sides, Positions!Other
  <2>2. QED BY <1>5, <2>1 DEF Positions!InputFromRow, Positions!Ask, Positions!None
<1> HIDE DEF inp, row
<1>7. /\ lock.qty \in 0 .. pos.naked
      /\ Positions!LockWorth(pos, inp.ask) >= Positions!Cents(pos, MinLock)
  BY <1>1, <1>4, <1>6, LockDecides
<1>8. pos.naked \in Nat /\ pos.naked > 0 /\ pos.locked \in Nat
      /\ Positions!Other(pos.held) \in Positions!Sides
  BY <1>1, <1>4 DEF Sane, Positions!Open, Positions!Sides, Positions!Other
<1>9. Positions!TakerFee(inp.ask, 1) \in Int
  BY <1>6, UnitFeeIsInt
<1> HIDE DEF lock
<1>10. fill \in Positions!FillLots
  BY <1>5, <1>6, <1>7, <1>8, <1>9 DEF Positions!FillLots
<1>11. QED BY <1>1, <1>4, <1>7, <1>8, <1>10

LEMMA PositionsLock ==
    ASSUME Positions!PositionsInv, NEW t0 \in Tickers, NEW noise,
           Positions!RecordLock(t0, noise)
    PROVE  Positions!PositionsInv'
<1> DEFINE pos0 == Positions!Position(t0)
<1>1. PICK fill \in Positions!FillLots :
              /\ s5' = Append(s5, fill) /\ UNCHANGED <<s1, s2, s3, s4, s6>>
              /\ Sane(pos0) /\ pos0.naked > 0
              /\ fill.ticker = t0 /\ fill.side = Positions!Other(pos0.held)
              /\ fill.qty \in 0 .. pos0.naked
              /\ fill.fee = fill.qty * Positions!TakerFee(fill.price, 1)
              /\ Positions!LockWorth(pos0, fill.price) >= Positions!Cents(pos0, MinLock)
  BY RecordLockFacts
<1>2. /\ s4 \in Seq(AnyLots) /\ s5 \in Seq(AnyLots)
      /\ s4 \in Seq(Positions!EntryLots) /\ s5 \in Seq(Positions!FillLots)
      /\ pos0 = Positions!FromLots(s4 \o s5, t0)
  BY LedgersAreLots DEF Positions!PositionsInv, Positions!PositionsTypeOK,
     Positions!Position, Positions!Lots
<1> HIDE DEF pos0
<1> DEFINE L == Len(s5)
<1>3. fill \in AnyLots /\ fill.qty \in Nat /\ fill.price \in Int /\ fill.fee \in Int
      /\ fill.side \in Positions!Sides
  <2>1. fill \in AnyLots
    BY DEF AnyLots
  <2>2. QED BY <2>1, LotFacts
<1>4. /\ s5' \in Seq(Positions!FillLots) /\ L \in Nat
      /\ DOMAIN s5' = 1 .. L + 1 /\ DOMAIN s5 = 1 .. L /\ DOMAIN s4 = 1 .. Len(s4)
      /\ \A i \in 1 .. L : s5'[i] = s5[i]
      /\ s5'[L + 1] = fill
  BY <1>1, <1>2, AppendFacts, LenProperties
<1>5. <<fill>> \in Seq(AnyLots) /\ s5' = s5 \o <<fill>>
  BY <1>1, <1>2, <1>3, AppendIsConcat
<1>6. ASSUME NEW t, NEW side
      PROVE  /\ Count(s5', t, side) = Count(s5, t, side) + Count(<<fill>>, t, side)
             /\ Cost(s5', t, side) = Cost(s5, t, side) + Cost(<<fill>>, t, side)
  <2> DEFINE one == <<fill>>
  <2>1. one \in Seq(AnyLots) /\ s5' = s5 \o one
    BY <1>5
  <2> HIDE DEF one
  <2>2. /\ Count(s5 \o one, t, side) = Count(s5, t, side) + Count(one, t, side)
        /\ Cost(s5 \o one, t, side) = Cost(s5, t, side) + Cost(one, t, side)
    BY <1>2, <2>1, CountConcat
  <2>3. QED BY <2>1, <2>2 DEF one
<1> HIDE DEF L
<1>7. ASSUME NEW t \in Tickers, t # t0, NEW side
      PROVE  Count(s5', t, side) = Count(s5, t, side) /\ Cost(s5', t, side) = Cost(s5, t, side)
  <2>1. Count(<<fill>>, t, side) = 0 /\ Cost(<<fill>>, t, side) = 0
    <3>1. \A i \in 1 .. Len(<<fill>>) : <<fill>>[i] = fill
      OBVIOUS
    <3>2. fill.ticker # t
      BY <1>1, <1>7
    <3>3. QED BY <1>5, <3>1, <3>2, CountOfNone
  <2>2. Count(s5, t, side) \in Nat /\ Cost(s5, t, side) \in Int
    BY <1>2, CountFacts
  <2>3. QED BY <1>6, <2>1, <2>2
<1>8. /\ Count(<<fill>>, t0, fill.side) = fill.qty
      /\ Cost(<<fill>>, t0, fill.side) = fill.qty * fill.price + fill.fee
  <2> DEFINE one == <<fill>>
  <2>1. /\ 1 \in 1 .. Len(one) /\ one[1] = fill
        /\ \A i \in 1 .. Len(one) : ~(i # 1)
    OBVIOUS
  <2>2. one \in Seq(AnyLots)
    BY <1>5
  <2> HIDE DEF one
  <2>3. one[1].ticker = t0 /\ one[1].side = fill.side
    BY <1>1, <2>1
  <2>4. /\ Count(one, t0, fill.side) = one[1].qty
        /\ Cost(one, t0, fill.side) = one[1].qty * one[1].price + one[1].fee
    BY <2>1, <2>2, <2>3, CountOfSole
  <2>5. /\ Count(one, t0, fill.side) = fill.qty
        /\ Cost(one, t0, fill.side) = fill.qty * fill.price + fill.fee
    BY <2>1, <2>4
  <2> QED BY <2>5 DEF one
\* Something of the ticker is held, so it was entered.
<1>9. \E e \in DOMAIN s4 : s4[e].ticker = t0
  <2> SUFFICES ASSUME \A e \in DOMAIN s4 : s4[e].ticker # t0 PROVE FALSE
    OBVIOUS
  <2>1. \A i \in DOMAIN s5 : s5[i].ticker # t0
    BY DEF Positions!PositionsInv, Positions!FillsFollowEntries
  <2>2. \A side : Count(s4, t0, side) = 0 /\ Count(s5, t0, side) = 0
    BY <1>2, <1>4, <2>1, CountOfNone DEF L
  <2>3. \A side \in Positions!Sides : pos0.qty[side] = 0
    <3>1. \A side \in Positions!Sides :
             pos0.qty[side] = Count(s4, t0, side) + Count(s5, t0, side)
      BY <1>2, PositionFacts
    <3>2. QED BY <2>2, <3>1
  <2>4. pos0.naked = 0
    BY <1>1, <2>3 DEF Sane, Positions!Sides, Positions!Other
  <2>5. QED BY <1>1, <2>4
<1>10. Positions!FillsFollowEntries'
  <2> SUFFICES ASSUME NEW i \in 1 .. L + 1
               PROVE  \E e \in DOMAIN s4 : s4[e].ticker = s5'[i].ticker
    BY <1>1, <1>4 DEF Positions!FillsFollowEntries
  <2>1. CASE i = L + 1
    BY <1>1, <1>4, <1>9, <2>1
  <2>2. CASE i # L + 1
    <3>1. i \in DOMAIN s5 /\ s5'[i] = s5[i]
      BY <1>4, <2>2
    <3>2. QED BY <3>1 DEF Positions!PositionsInv, Positions!FillsFollowEntries
  <2>3. QED BY <2>1, <2>2
<1>11. ASSUME NEW t \in Tickers, NEW e \in DOMAIN s4, Positions!SoleEntry(t, e)
       PROVE  Positions!LocksAreCovered(t, e)'
  <2> DEFINE entry == s4[e]
             own == entry.side
             opp == Positions!Other(own)
             cost == entry.qty * entry.price + entry.fee
             locked == Count(s5, t, opp)
             paid == Cost(s5, t, opp)
  <2>1. /\ \A i \in DOMAIN s5 : s5[i].ticker = t => s5[i].side = opp
        /\ locked \in 0 .. entry.qty
        /\ cost * locked <= entry.qty * ((100 - MinLock) * locked - paid)
    BY <1>11 DEF Positions!PositionsInv, Positions!LocksAreCovered, Count, Cost
  <2>2. s4'[e] = entry /\ s4' = s4
    BY <1>1
  <2>3. CASE t # t0
    <3>1. Count(s5', t, opp) = locked /\ Cost(s5', t, opp) = paid
      BY <1>7, <2>3
    <3>2. \A i \in DOMAIN s5' : s5'[i].ticker = t => s5'[i].side = opp
      <4> SUFFICES ASSUME NEW i \in 1 .. L + 1, s5'[i].ticker = t PROVE s5'[i].side = opp
        BY <1>4
      <4>1. i # L + 1
        BY <1>1, <1>4, <2>3
      <4>2. i \in DOMAIN s5 /\ s5'[i] = s5[i]
        BY <1>4, <4>1
      <4>3. QED BY <2>1, <4>2
    <3>3. QED BY <2>1, <2>2, <3>1, <3>2 DEF Positions!LocksAreCovered, Count, Cost
  <2>4. CASE t = t0
    <3>1. /\ e \in 1 .. Len(s4)
          /\ \A i \in 1 .. Len(s4) : s4[i].ticker = t0 <=> i = e
          /\ \A i \in 1 .. Len(s5) : s5[i].ticker = t0 => s5[i].side = Positions!Other(s4[e].side)
      BY <1>4, <1>11, <2>1, <2>4 DEF Positions!SoleEntry, L
    <3>2. /\ own \in Positions!Sides /\ opp \in Positions!Sides /\ own # opp
          /\ Positions!Other(opp) = own
          /\ pos0.qty[own] = entry.qty /\ pos0.qty[opp] = locked
          /\ pos0.paid[own] = cost
      BY <1>2, <2>4, <3>1, SolePosition
    <3>3. /\ entry.qty \in Nat /\ entry.price \in Int /\ entry.fee \in Int
          /\ locked \in Nat /\ paid \in Int /\ MinLock \in Int
      <4>1. s4[e] \in AnyLots
        BY <1>2, <3>1, ElementOfSeq
      <4>2. entry.qty \in Nat /\ entry.price \in Int /\ entry.fee \in Int
        BY <4>1, LotFacts
      <4>3. locked \in Nat /\ paid \in Int
        BY <1>2, CountFacts
      <4>4. QED
        BY <4>2, <4>3, ResearchAssumption DEF Positions!PositionsAssumption
    <3>c. cost \in Int
      <4> HIDE DEF entry
      <4> QED BY <3>3
    <3> HIDE DEF entry, own, opp, cost, locked, paid
    <3>4. pos0.held = own
      BY <1>1, <2>1, <3>2, <3>3 DEF Sane, Positions!Sides, Positions!Other
    <3>5. pos0.naked = entry.qty - locked /\ fill.side = opp
      BY <1>1, <3>2, <3>4 DEF Sane, opp
    <3>6. /\ Count(s5', t, opp) = locked + fill.qty
          /\ Cost(s5', t, opp) = paid + (fill.qty * fill.price + fill.fee)
      BY <1>6, <1>8, <2>4, <3>5 DEF locked, paid
    <3>7. locked + fill.qty \in 0 .. entry.qty
      BY <1>1, <1>3, <3>3, <3>5
    <3>8. \A i \in DOMAIN s5' : s5'[i].ticker = t => s5'[i].side = opp
      <4> SUFFICES ASSUME NEW i \in 1 .. L + 1, s5'[i].ticker = t PROVE s5'[i].side = opp
        BY <1>4
      <4>1. CASE i = L + 1
        BY <1>4, <3>5, <4>1
      <4>2. CASE i # L + 1
        <5>1. i \in DOMAIN s5 /\ s5'[i] = s5[i]
          BY <1>4, <4>2
        <5>2. QED BY <2>1, <5>1
      <4>3. QED BY <4>1, <4>2
    <3>9. Pays(entry.qty, cost, MinLock, fill.price, Positions!TakerFee(fill.price, 1))
      <4>1. /\ Positions!LockWorth(pos0, fill.price)
               = pos0.qty[pos0.held]
                 * (100 - fill.price - Positions!TakerFee(fill.price, 1))
                 - pos0.paid[pos0.held]
            /\ Positions!Cents(pos0, MinLock) = pos0.qty[pos0.held] * MinLock
        BY <1>1, <1>3, WorthIsInt
      <4>2. pos0.qty[pos0.held] = entry.qty /\ pos0.paid[pos0.held] = cost
        BY <3>2, <3>4
      <4>3. QED BY <1>1, <4>1, <4>2 DEF Pays
    <3>10. Positions!TakerFee(fill.price, 1) \in Int
      BY <1>3, UnitFeeIsInt
    <3>11. Covers(entry.qty, cost, MinLock, locked + fill.qty,
                  paid + (fill.qty * fill.price
                          + fill.qty * Positions!TakerFee(fill.price, 1)))
      <4>1. Covers(entry.qty, cost, MinLock, locked, paid)
        BY <2>1 DEF Covers
      <4>2. QED BY <1>3, <3>3, <3>c, <3>9, <3>10, <4>1, CoverGrows
    <3>12. cost * (locked + fill.qty)
           <= entry.qty * ((100 - MinLock) * (locked + fill.qty)
                           - (paid + (fill.qty * fill.price + fill.fee)))
      BY <1>1, <3>11 DEF Covers
    <3>13. QED
      BY <2>2, <3>6, <3>7, <3>8, <3>12
      DEF Positions!LocksAreCovered, Count, Cost, entry, opp, own, cost
  <2>5. QED BY <2>3, <2>4
<1>12. \A t \in Tickers : \A e \in DOMAIN s4' :
          Positions!SoleEntry(t, e)' => Positions!LocksAreCovered(t, e)'
  BY <1>1, <1>11 DEF Positions!SoleEntry
<1>13. Positions!PositionsTypeOK'
  BY <1>1, <1>4 DEF Positions!PositionsTypeOK, Positions!PositionsInv
<1>14. Positions!ReplayRealisesMinimum' /\ Positions!CandidatesAreAnnounced'
  BY <1>1 DEF Positions!ReplayRealisesMinimum, Positions!CandidatesAreAnnounced,
     Positions!PositionsInv
<1>15. QED BY <1>10, <1>12, <1>13, <1>14 DEF Positions!PositionsInv

\* What a replay finds, where it managed the whole position.
LEMMA ReplayPays ==
    ASSUME Positions!PositionsInv, NEW t \in Tickers, NEW noise,
           Positions!Open(Positions!Position(t)),
           NEW found, found = Positions!Replayed(t, noise),
           found.act \in Positions!Acts, found.qty = found.naked
    PROVE  found.managed >= found.naked * found.held * MinLock
<1> DEFINE pos == Positions!Position(t)
           rows == s1[t].rows
           decided == [i \in DOMAIN rows |->
                          Positions!EvaluateLifecycle(
                              pos, Positions!InputFromRow(pos, rows[i]), noise)]
           acted == {i \in DOMAIN rows : decided[i].act \in Positions!Acts}
           first == Positions!Min(acted)
           label == s1[t].label
           inp(i) == Positions!InputFromRow(pos, rows[i])
<1>1. /\ s1 \in TwoMarkets /\ DOMAIN rows \in SUBSET Nat
      /\ \A i \in DOMAIN rows :
            /\ rows[i].bid \in [Positions!Sides -> Int]
            /\ rows[i].depth \in [Positions!Sides -> Nat]
  BY ResearchAssumption DEF Positions!PositionsAssumption, Positions!PositionsInv,
     Positions!PositionsTypeOK
<1>2. Sane(pos) /\ pos.naked > 0
  <2>1. s4 \in Seq(AnyLots) /\ s5 \in Seq(AnyLots)
    BY LedgersAreLots DEF Positions!PositionsInv
  <2>2. pos = Positions!FromLots(s4 \o s5, t)
    BY DEF Positions!Position, Positions!Lots
  <2>3. pos.naked > 0
    BY DEF Positions!Open
  <2> HIDE DEF pos
  <2>4. QED BY <2>1, <2>2, <2>3, PositionFacts
<1>3. /\ acted # {}
      /\ found = [act |-> decided[first].act, at |-> rows[first].at,
                  qty |-> decided[first].qty, naked |-> pos.naked,
                  held |-> pos.qty[pos.held],
                  ride |-> Positions!SettleNaked(pos, pos.naked, label),
                  managed |-> decided[first].qty * Positions!LockWorth(pos, inp(first).ask)
                     + Positions!SettleNaked(pos, pos.naked - decided[first].qty, label)]
  <2>1. CASE acted = {}
    <3>1. found.act = "RIDE/WATCH"
      BY ZenonT(30), <2>1 DEF Positions!Replayed
    <3> HIDE DEF decided
    <3>2. QED BY ZenonT(30), <3>1 DEF Positions!Acts, Positions!Sells
  <2>2. CASE acted # {}
    BY ZenonT(30), <2>2 DEF Positions!Replayed
  <2>3. QED BY Zenon, <2>1, <2>2
<1>4. first \in acted
  <2>1. acted \in SUBSET Nat
    BY <1>1
  <2>2. PICK x \in acted : \A n \in acted : x <= n
    <3> HIDE DEF acted
    <3> QED BY <1>3, <2>1, LeastNatural
  <2> HIDE DEF acted
  <2>3. QED BY <2>2 DEF Positions!Min
<1>5. /\ first \in DOMAIN rows /\ decided[first].act \in Positions!Acts
      /\ decided[first] = Positions!EvaluateLifecycle(pos, inp(first), noise)
  BY <1>4
<1>6. /\ decided[first].qty = pos.naked
      /\ found.managed = pos.naked * Positions!LockWorth(pos, inp(first).ask)
            + Positions!SettleNaked(pos, pos.naked - pos.naked, label)
      /\ found.naked = pos.naked /\ found.held = pos.qty[pos.held]
  <2> HIDE DEF pos, rows, decided, acted, first, label, inp
  <2> QED BY <1>3
<1>7. inp(first).askDepth \in Nat /\ inp(first).ask \in Int /\ inp(first).bidDepth = 0
  <2>1. /\ rows[first].bid \in [Positions!Sides -> Int]
        /\ rows[first].depth \in [Positions!Sides -> Nat]
    BY <1>1, <1>5
  <2> HIDE DEF pos, rows, first
  <2>2. pos.held \in Positions!Sides /\ Positions!Other(pos.held) \in Positions!Sides
        /\ Positions!Other(Positions!Other(pos.held)) \in Positions!Sides
    BY <1>2 DEF Sane, Positions!Sides, Positions!Other
  <2>3. QED BY <2>1, <2>2 DEF Positions!InputFromRow, Positions!Ask, Positions!None
<1> HIDE DEF pos, rows, decided, acted, first, label, inp
<1>8. Positions!LockWorth(pos, inp(first).ask) >= Positions!Cents(pos, MinLock)
  BY <1>2, <1>5, <1>6, <1>7, LifecyclePays
<1>9. /\ Positions!LockWorth(pos, inp(first).ask) \in Int
      /\ Positions!Cents(pos, MinLock) = pos.qty[pos.held] * MinLock
      /\ Positions!Cents(pos, MinLock) \in Int
  BY <1>2, <1>7, WorthIsInt
<1>10. pos.naked \in Nat /\ pos.qty[pos.held] \in Nat /\ MinLock \in Int
  BY <1>2, ResearchAssumption DEF Sane, Positions!PositionsAssumption
<1>11. Positions!SettleNaked(pos, pos.naked - pos.naked, label) = 0
  <2>1. Positions!Worth(pos, IF label = pos.held THEN 100 ELSE 0) \in Int
    BY <1>2, WorthIsInt
  <2>2. pos.naked - pos.naked = 0
    BY <1>10
  <2>3. QED BY <2>1, <2>2 DEF Positions!SettleNaked
<1>12. /\ pos.naked * Positions!LockWorth(pos, inp(first).ask)
          >= pos.naked * (pos.qty[pos.held] * MinLock)
       /\ pos.naked * Positions!LockWorth(pos, inp(first).ask) \in Int
       /\ pos.naked * (pos.qty[pos.held] * MinLock)
          = pos.naked * pos.qty[pos.held] * MinLock
  <2>1. \A n \in Nat, x, y \in Int : x >= y => n * x >= n * y
    OBVIOUS
  <2>2. \A n, x, y \in Int : n * (x * y) = n * x * y /\ n * x \in Int
    OBVIOUS
  <2>3. QED BY <1>8, <1>9, <1>10, <2>1, <2>2
<1>13. QED BY <1>6, <1>11, <1>12

LEMMA PositionsReplay ==
    ASSUME Positions!PositionsInv, NEW noise, Positions!RunPositionMonitorSim(noise)
    PROVE  Positions!PositionsInv'
<1>1. /\ s6' = [t \in {u \in Tickers : Positions!Open(Positions!Position(u))} |->
                   Positions!Replayed(t, noise)]
      /\ UNCHANGED <<s1, s2, s3, s4, s5>>
  BY DEF Positions!RunPositionMonitorSim
<1>2. Positions!ReplayRealisesMinimum'
  <2> SUFFICES ASSUME NEW t \in DOMAIN s6', s6'[t].act \in Positions!Acts,
                      s6'[t].qty = s6'[t].naked
               PROVE  s6'[t].managed >= s6'[t].naked * s6'[t].held * MinLock
    BY DEF Positions!ReplayRealisesMinimum
  <2>1. t \in Tickers /\ Positions!Open(Positions!Position(t))
        /\ s6'[t] = Positions!Replayed(t, noise)
    BY <1>1
  <2>2. QED BY <2>1, ReplayPays
<1>3. QED
  BY <1>1, <1>2 DEF Positions!PositionsInv, Positions!PositionsTypeOK,
     Positions!FillsFollowEntries, Positions!SoleEntry, Positions!LocksAreCovered,
     Positions!CandidatesAreAnnounced

LEMMA PositionsStep ==
    ASSUME Positions!PositionsInv, Positions!Next
    PROVE  Positions!PositionsInv'
<1>1. CASE \E t \in Tickers : Positions!Settle(t)
  BY <1>1, PositionsSettle
<1>2. ASSUME NEW noise \in Exactness,
             \/ \E rows \in Positions!LatestRows : Positions!RunPaperPolicySim(rows, noise)
             \/ Positions!RunPositionMonitorSim(noise)
             \/ \E t \in Tickers : Positions!RecordLock(t, noise)
      PROVE  Positions!PositionsInv'
  BY <1>2, PositionsEnter, PositionsReplay, PositionsLock
<1>3. QED BY <1>1, <1>2 DEF Positions!Next

LEMMA PositionsStutter ==
    ASSUME Positions!PositionsInv, UNCHANGED <<s1, s2, s3, s4, s5, s6>>
    PROVE  Positions!PositionsInv'
BY DEF Positions!PositionsInv, Positions!PositionsTypeOK,
   Positions!FillsFollowEntries, Positions!SoleEntry, Positions!LocksAreCovered,
   Positions!CandidatesAreAnnounced, Positions!ReplayRealisesMinimum

\* What was entered once and locked to the last contract pays the minimum.
LEMMA PromiseIsKept ==
    ASSUME Positions!PositionsInv
    PROVE  Positions!LockKeepsItsPromise
<1>1. /\ s4 \in Seq(AnyLots) /\ s5 \in Seq(AnyLots)
      /\ s4 \in Seq(Positions!EntryLots)
      /\ DOMAIN s4 = 1 .. Len(s4) /\ DOMAIN s5 = 1 .. Len(s5)
  BY LedgersAreLots, LenProperties DEF Positions!PositionsInv, Positions!PositionsTypeOK
<1>2. Size \in Nat \ {0} /\ MinLock \in Int
  BY ResearchAssumption DEF Positions!PositionsAssumption
<1> SUFFICES ASSUME NEW t \in Tickers,
                    \E e \in DOMAIN s4 : Positions!SoleEntry(t, e),
                    ~Positions!Open(Positions!Position(t))
             PROVE  100 * Positions!Position(t).locked
                    - Positions!Position(t).paid["YES"] - Positions!Position(t).paid["NO"]
                    >= MinLock * Positions!Position(t).locked
  BY DEF Positions!LockKeepsItsPromise
<1> DEFINE pos == Positions!Position(t)
<1>3. PICK e \in DOMAIN s4 : Positions!SoleEntry(t, e)
  OBVIOUS
<1> DEFINE entry == s4[e]
           own == entry.side
           opp == Positions!Other(own)
           cost == entry.qty * entry.price + entry.fee
           locked == Count(s5, t, opp)
           paid == Cost(s5, t, opp)
<1>5. /\ \A i \in DOMAIN s5 : s5[i].ticker = t => s5[i].side = opp
      /\ locked \in 0 .. entry.qty
      /\ cost * locked <= entry.qty * ((100 - MinLock) * locked - paid)
  BY <1>3 DEF Positions!PositionsInv, Positions!LocksAreCovered, Count, Cost
<1>6. /\ e \in 1 .. Len(s4)
      /\ \A i \in 1 .. Len(s4) : s4[i].ticker = t <=> i = e
      /\ \A i \in 1 .. Len(s5) : s5[i].ticker = t => s5[i].side = Positions!Other(s4[e].side)
  BY <1>1, <1>3, <1>5 DEF Positions!SoleEntry
<1>7. pos = Positions!FromLots(s4 \o s5, t)
  BY DEF Positions!Position, Positions!Lots
<1>8. ~(pos.naked > 0)
  BY DEF Positions!Open
<1> HIDE DEF pos
<1>9. /\ Sane(pos) /\ own \in Positions!Sides /\ opp \in Positions!Sides /\ own # opp
      /\ Positions!Other(opp) = own
      /\ pos.qty[own] = entry.qty /\ pos.qty[opp] = locked
      /\ pos.paid[own] = cost /\ pos.paid[opp] = paid
  BY <1>1, <1>6, <1>7, SolePosition
<1>10. entry.qty = Size /\ entry.qty \in Nat /\ entry.price \in Int /\ entry.fee \in Int
       /\ locked \in Nat /\ paid \in Int
  <2>1. s4[e] \in AnyLots /\ s4[e] \in Positions!EntryLots
    BY <1>1, <1>6, ElementOfSeq
  <2>2. entry.qty \in Nat /\ entry.price \in Int /\ entry.fee \in Int
    BY <2>1, LotFacts
  <2>3. entry.qty = Size
    BY <2>1 DEF Positions!EntryLots
  <2>4. locked \in Nat /\ paid \in Int
    BY <1>1, CountFacts
  <2>5. QED BY <2>2, <2>3, <2>4
<1>11. cost \in Int
  <2> HIDE DEF entry
  <2> QED BY <1>10
<1> HIDE DEF entry, own, opp, cost, locked, paid
<1>12. pos.locked = Size /\ locked = Size
  BY <1>2, <1>5, <1>8, <1>9, <1>10 DEF Sane, Positions!Sides, Positions!Other
<1>13. pos.paid["YES"] + pos.paid["NO"] = cost + paid
  BY <1>9, <1>10, <1>11 DEF Positions!Sides
<1>14. cost * Size <= Size * ((100 - MinLock) * Size - paid)
  BY <1>5, <1>10, <1>12
<1>15. cost <= (100 - MinLock) * Size - paid
  <2> DEFINE x == (100 - MinLock) * Size - paid
  <2>1. x \in Int /\ Size \in Nat \ {0}
    BY <1>2, <1>10
  <2>2. \A n \in Nat \ {0}, c, y \in Int : c * n <= n * y => c <= y
    <3> TAKE n \in Nat \ {0}, c, y \in Int
    <3>1. c > y => c * n > n * y
      <4> SUFFICES ASSUME c > y PROVE c * n > n * y
        OBVIOUS
      <4>1. c - y >= 1 /\ c * n = n * y + (c - y) * n
        OBVIOUS
      <4>2. (c - y) * n >= 1
        BY <4>1
      <4>3. QED BY <4>1, <4>2
    <3>2. QED BY <3>1
  <2> HIDE DEF x
  <2>3. QED BY <1>11, <1>14, <2>1, <2>2 DEF x
<1>16. 100 * Size - (cost + paid) >= MinLock * Size
  <2>1. (100 - MinLock) * Size = 100 * Size - MinLock * Size
        /\ 100 * Size \in Int /\ MinLock * Size \in Int
    BY <1>2
  <2>2. QED BY <1>10, <1>11, <1>15, <2>1
<1>17. 100 * Size - pos.paid["YES"] - pos.paid["NO"] >= MinLock * Size
  <2>1. /\ pos.paid["YES"] \in Int /\ pos.paid["NO"] \in Int
        /\ 100 * Size \in Int /\ MinLock * Size \in Int
    BY <1>2, <1>9 DEF Sane, Positions!Sides
  <2>2. QED BY <1>10, <1>11, <1>13, <1>16, <2>1
<1>18. QED BY <1>12, <1>17 DEF pos

\* A fill is read back as it was announced.
LEMMA FillIsReloaded ==
    ASSUME Positions!PositionsInv, NEW t0 \in Tickers, NEW noise,
           Positions!RecordLock(t0, noise)
    PROVE  Positions!LockFillReloads
<1> DEFINE pos0 == Positions!Position(t0)
<1>1. PICK fill \in Positions!FillLots :
              /\ s5' = Append(s5, fill) /\ UNCHANGED <<s1, s2, s3, s4, s6>>
              /\ Sane(pos0) /\ pos0.naked > 0
              /\ fill.ticker = t0 /\ fill.side = Positions!Other(pos0.held)
              /\ fill.qty \in 0 .. pos0.naked
              /\ fill.nakedAfter = pos0.naked - fill.qty
              /\ fill.lockedAfter = pos0.locked + fill.qty
  BY RecordLockFacts
<1> DEFINE pos1 == Positions!Position(t0)'
           one == <<fill>>
           opp == fill.side
<1>2. /\ s4 \in Seq(AnyLots) /\ s5 \in Seq(AnyLots)
      /\ pos0 = Positions!FromLots(s4 \o s5, t0)
      /\ pos1 = Positions!FromLots(s4 \o s5', t0)
  BY <1>1, LedgersAreLots DEF Positions!PositionsInv, Positions!Position, Positions!Lots
<1>3. fill \in AnyLots /\ fill.qty \in Nat /\ opp \in Positions!Sides
      /\ Positions!Other(opp) \in Positions!Sides /\ Positions!Other(opp) # opp
      /\ pos0.held = Positions!Other(opp)
  <2>1. fill \in AnyLots
    BY DEF AnyLots
  <2>2. fill.qty \in Nat /\ opp \in Positions!Sides
    BY <2>1, LotFacts
  <2> HIDE DEF pos0
  <2>3. QED BY <1>1, <2>1, <2>2 DEF Sane, Positions!Sides, Positions!Other
<1>4. /\ s5' \in Seq(AnyLots) /\ Len(s5') \in Nat /\ s5'[Len(s5')] = fill
  <2>1. /\ s5' \in Seq(AnyLots) /\ Len(s5) \in Nat
        /\ Len(s5') = Len(s5) + 1 /\ s5'[Len(s5) + 1] = fill
    BY <1>1, <1>2, <1>3, AppendFacts
  <2>2. QED BY <2>1
<1>5. one \in Seq(AnyLots) /\ s5' = s5 \o one
      /\ 1 \in 1 .. Len(one) /\ one[1] = fill /\ Len(one) = 1
  BY <1>1, <1>2, <1>3, AppendIsConcat
<1> HIDE DEF pos0, pos1, one
<1>6. \A side \in Positions!Sides : Count(s5', t0, side) = Count(s5, t0, side)
                                    + (IF side = opp THEN fill.qty ELSE 0)
  <2> SUFFICES ASSUME NEW side \in Positions!Sides
               PROVE  Count(s5', t0, side) = Count(s5, t0, side)
                                             + (IF side = opp THEN fill.qty ELSE 0)
    OBVIOUS
  <2>1. Count(s5 \o one, t0, side) = Count(s5, t0, side) + Count(one, t0, side)
    BY <1>2, <1>5, CountConcat
  <2>2. CASE side = opp
    <3>1. Count(one, t0, side) = one[1].qty
      <4>1. one[1].ticker = t0 /\ one[1].side = side
            /\ \A i \in 1 .. Len(one) : ~(i # 1)
        BY <1>1, <1>5, <2>2
      <4>2. QED BY <1>5, <4>1, CountOfSole
    <3>2. QED BY <1>5, <2>1, <2>2, <3>1
  <2>3. CASE side # opp
    <3>1. Count(one, t0, side) = 0
      <4>1. \A i \in 1 .. Len(one) : one[i].side # side
        BY <1>5, <2>3
      <4>2. QED BY <1>5, <4>1, CountOfNone
    <3>2. QED BY <1>5, <2>1, <2>3, <3>1
  <2>4. QED BY <2>2, <2>3
<1>7. /\ Sane(pos1)
      /\ \A side \in Positions!Sides :
            /\ pos0.qty[side] = Count(s4, t0, side) + Count(s5, t0, side)
            /\ pos1.qty[side] = Count(s4, t0, side) + Count(s5', t0, side)
            /\ Count(s4, t0, side) \in Nat /\ Count(s5, t0, side) \in Nat
  <2>1. Sane(pos1) /\ \A side \in Positions!Sides :
                         pos1.qty[side] = Count(s4, t0, side) + Count(s5', t0, side)
    BY <1>2, <1>4, PositionFacts
  <2>2. \A side \in Positions!Sides :
           pos0.qty[side] = Count(s4, t0, side) + Count(s5, t0, side)
    BY <1>2, PositionFacts
  <2>3. \A side \in Positions!Sides :
           Count(s4, t0, side) \in Nat /\ Count(s5, t0, side) \in Nat
    BY <1>2, CountFacts
  <2>4. QED BY <2>1, <2>2, <2>3
<1> DEFINE own == Positions!Other(opp)
<1>8. /\ pos1.qty[opp] = pos0.qty[opp] + fill.qty
      /\ pos1.qty[own] = pos0.qty[own]
  <2>1. /\ pos1.qty[opp] = Count(s4, t0, opp) + (Count(s5, t0, opp) + fill.qty)
        /\ pos1.qty[own] = Count(s4, t0, own) + (Count(s5, t0, own) + 0)
    BY <1>3, <1>6, <1>7
  <2>2. QED BY <1>3, <1>7, <2>1
<1>9. /\ pos1.naked = pos0.naked - fill.qty /\ pos1.locked = pos0.locked + fill.qty
      /\ pos1.naked > 0 => pos1.held # fill.side
  <2>1. /\ pos0.held = own /\ pos0.naked = pos0.qty[own] - pos0.qty[opp]
        /\ pos0.locked = pos0.qty[opp]
        /\ pos0.qty[own] \in Nat /\ pos0.qty[opp] \in Nat
        /\ opp = Positions!Other(own) /\ own \in Positions!Sides
        /\ fill.qty \in 0 .. pos0.naked /\ fill.qty \in Nat
    BY <1>1, <1>3 DEF Sane, Positions!Sides, Positions!Other
  <2>c. /\ pos1.qty[opp] = pos0.qty[opp] + fill.qty
        /\ pos1.qty[own] = pos0.qty[own]
    BY <1>8
  <2> HIDE DEF own, opp
  <2>2. pos1.qty[opp] <= pos1.qty[own] /\ pos1.qty[opp] \in Nat /\ pos1.qty[own] \in Nat
    BY <2>1, <2>c
  <2>3. /\ pos1.naked = pos1.qty[own] - pos1.qty[opp]
        /\ pos1.locked = pos1.qty[opp]
        /\ pos1.naked > 0 => pos1.held = own
    <3>1. CASE own = "YES"
      <4>1. opp = "NO"
        BY <2>1, <3>1 DEF Positions!Other
      <4>2. QED
        BY <1>7, <2>2, <3>1, <4>1 DEF Sane, Positions!Sides, Positions!Other
    <3>2. CASE own = "NO"
      <4>1. opp = "YES"
        BY <2>1, <3>2 DEF Positions!Other
      <4>2. QED
        BY <1>7, <2>2, <3>2, <4>1 DEF Sane, Positions!Sides, Positions!Other
    <3>3. QED BY <2>1, <3>1, <3>2 DEF Positions!Sides
  <2>4. pos1.naked > 0 => pos1.held # opp
    BY <2>1, <2>3 DEF Positions!Sides, Positions!Other
  <2>5. QED BY <2>1, <2>c, <2>3, <2>4 DEF opp
<1>10. Positions!Last(s5') = fill
  BY <1>4 DEF Positions!Last
<1>11. /\ pos1.naked = fill.nakedAfter /\ pos1.locked = fill.lockedAfter
       /\ Positions!Open(pos1) => pos1.held # fill.side
  BY <1>1, <1>9 DEF Positions!Open
<1>12. ASSUME NEW t \in Tickers, fill.ticker = t
       PROVE  /\ Positions!Position(t)'.naked = fill.nakedAfter
              /\ Positions!Position(t)'.locked = fill.lockedAfter
              /\ Positions!Open(Positions!Position(t)') =>
                    Positions!Position(t)'.held # fill.side
  <2>1. t = t0
    BY <1>1, <1>12
  <2>2. QED BY <1>11, <2>1 DEF pos1
<1>13. QED BY <1>10, <1>12 DEF Positions!LockFillReloads

LEMMA FillsAreReloaded ==
    ASSUME Positions!PositionsInv, Positions!Next
    PROVE  Positions!LockFillReloads
<1>1. ASSUME NEW t \in Tickers, Positions!Settle(t)
      PROVE  s5' = s5
  BY <1>1 DEF Positions!Settle
<1>2. ASSUME NEW noise, NEW rows, Positions!RunPaperPolicySim(rows, noise)
      PROVE  s5' = s5
  BY Zenon, <1>2 DEF Positions!RunPaperPolicySim
<1>3. ASSUME NEW noise, Positions!RunPositionMonitorSim(noise)
      PROVE  s5' = s5
  BY <1>3 DEF Positions!RunPositionMonitorSim
<1>4. ASSUME s5' = s5 PROVE Positions!LockFillReloads
  BY <1>4 DEF Positions!LockFillReloads
<1>5. ASSUME NEW noise, NEW t \in Tickers, Positions!RecordLock(t, noise)
      PROVE  Positions!LockFillReloads
  BY <1>5, FillIsReloaded
<1>6. QED BY <1>1, <1>2, <1>3, <1>4, <1>5 DEF Positions!Next
-----------------------------------------------------------------------------
(* The backtest and the frontier (ExecutableBacktest): s1 is the scenario,  *)
(* s2 the noise, s3 the clock, s4 the number of rows, s5 the last one, s6   *)
(* the trades, s7 what the frontier accepted, s8 the last refusals, s9 the  *)
(* days, s10 the windows that are not comparable.                           *)

LEMMA UnitFeeIsNat == \A price \in Int : Backtest!TakerFee(price, 1) \in Nat
<1> SUFFICES ASSUME NEW price \in Int PROVE Backtest!TakerFee(price, 1) \in Nat
  OBVIOUS
<1>1. FeeRate \in Nat
  BY ResearchAssumption DEF Backtest!BacktestAssumption
<1>2. CASE price \in 1 .. 99
  <2>1. FeeRate * 1 * price \in Nat /\ 100 - price \in Nat
    BY <1>1, <1>2
  <2>2. FeeRate * 1 * price * (100 - price) + 9999 \in Nat
    BY <2>1
  <2>3. (FeeRate * 1 * price * (100 - price) + 9999) \div 10000 \in Nat
    BY <2>2
  <2>4. QED BY <1>2, <2>3 DEF Backtest!TakerFee
<1>3. CASE price \notin 1 .. 99
  BY <1>3 DEF Backtest!TakerFee
<1>4. QED BY <1>2, <1>3

\* The edges of a row are numbers, and its best side does not depend on which
\* limits without a buffer it is judged by.
LEMMA EdgeFacts ==
    ASSUME NEW row \in AnyKinds
    PROVE  /\ \A side \in Backtest!Sides :
                 /\ Backtest!RawEdge(row, side, Backtest!ProbFor(row)) \in Int
                 /\ Backtest!Net(row, side, BacktestGates) \in Int
                 /\ Backtest!Net(row, side, BacktestGates)
                    = Backtest!Net(row, side, Backtest!Permissive)
                 /\ Backtest!Net(row, side, BacktestGates)
                    <= Backtest!RawEdge(row, side, Backtest!ProbFor(row))
           /\ Backtest!Best(row, BacktestGates) \in Backtest!Sides
           /\ Backtest!Best(row, BacktestGates) = Backtest!Best(row, Backtest!Permissive)
<1>1. /\ row.bid \in [Backtest!Sides -> Int]
      /\ row.raw \in Int /\ row.calibrated \in Int
      /\ BacktestGates.buffer = 0 /\ Backtest!Permissive.buffer = 0
  BY ResearchAssumption DEF Backtest!BacktestAssumption, Backtest!Permissive
<1>2. ASSUME NEW side \in Backtest!Sides
      PROVE  /\ Backtest!RawEdge(row, side, Backtest!ProbFor(row)) \in Int
             /\ Backtest!Net(row, side, BacktestGates) \in Int
             /\ Backtest!Net(row, side, BacktestGates)
                = Backtest!Net(row, side, Backtest!Permissive)
             /\ Backtest!Net(row, side, BacktestGates)
                <= Backtest!RawEdge(row, side, Backtest!ProbFor(row))
  <2>1. Backtest!Ask(row.bid, side) \in Int
    BY <1>1 DEF Backtest!Ask, Backtest!Other, Backtest!None, Backtest!Sides
  <2>2. Backtest!ProbFor(row) \in Int
    BY <1>1 DEF Backtest!ProbFor
  <2>3. Backtest!RawEdge(row, side, Backtest!ProbFor(row)) \in Int
    BY <2>1, <2>2 DEF Backtest!RawEdge
  <2>4. Backtest!TakerFee(Backtest!Ask(row.bid, side), 1) \in Nat
    BY <2>1, UnitFeeIsNat
  <2>5. QED BY <1>1, <2>3, <2>4 DEF Backtest!Net
<1>3. QED BY <1>2 DEF Backtest!Best, Backtest!Sides

\* Where the two are comparable, the base scenario takes what the backtest takes.
LEMMA BaseDecides ==
    ASSUME Backtest!BacktestTypeOK, s1.base, NEW row \in AnyKinds,
           ~Backtest!Incomparable(row)
    PROVE  /\ Backtest!EvaluateRow(row, BacktestGates, s2) <=>
                 /\ Backtest!EvaluateRow(row, Backtest!Permissive, s2)
                 /\ Backtest!ScenarioPasses(row)
           /\ Backtest!EvaluateRow(row, Backtest!Permissive, s2) =>
                 ~(s9[s3 \div Day] >= s1.daily)
<1> DEFINE side == Backtest!Best(row, BacktestGates)
           net == Backtest!Net(row, side, BacktestGates)
           raw == Backtest!RawEdge(row, side, Backtest!ProbFor(row))
           free == Backtest!Permissive
<1>1. /\ side = Backtest!Best(row, free) /\ net = Backtest!Net(row, side, free)
      /\ side \in Backtest!Sides /\ net \in Int /\ raw \in Int /\ net <= raw
  BY EdgeFacts
<1>2. /\ row.depth \in [Backtest!Sides -> Int] /\ row.secs \in Int /\ row.spread \in Int
      /\ BacktestGates.net \in Nat /\ BacktestGates.fresh = {"book", "underlying"}
      /\ BacktestGates.minSecs \in Nat /\ BacktestGates.maxSecs \in Int
      /\ BacktestGates.maxSecs <= free.maxSecs
      /\ BacktestGates.spread \in Int /\ BacktestGates.spread <= free.spread
      /\ BacktestGates.depth \in Nat
  BY ResearchAssumption DEF Backtest!BacktestAssumption, Backtest!Permissive
<1>3. /\ s1.net = BacktestGates.net /\ s1.depth = BacktestGates.depth
      /\ s1.minSecs = BacktestGates.minSecs /\ s1.maxSecs = BacktestGates.maxSecs
      /\ s1.spread \in Int /\ s1.spread <= BacktestGates.spread
  BY ResearchAssumption DEF Backtest!BacktestAssumption, Backtest!BacktestTypeOK
<1>4. /\ free.fresh = {} /\ free.minSecs = 0 /\ free.maxSecs = 1000000 /\ free.spread = 100
      /\ free.depth = 0 /\ free.net = -1000000
  BY DEF Backtest!Permissive
<1>5. row.depth["YES"] + row.depth["NO"] \in Int
  BY <1>2 DEF Backtest!Sides
<1>6. Backtest!Passes(row, free) =>
         /\ ~row.underlyingOld /\ net # BacktestGates.net
         /\ ~(row.spread > s1.spread) /\ ~(s9[s3 \div Day] >= s1.daily)
  BY DEF Backtest!Incomparable
<1>7. Backtest!EvaluateRow(row, BacktestGates, s2) <=>
         /\ Backtest!Passes(row, BacktestGates) /\ row.depth[side] >= 1
         /\ Backtest!Exceeds(net, BacktestGates.net, "net", s2)
  BY DEF Backtest!EvaluateRow
<1>8. Backtest!EvaluateRow(row, free, s2) <=>
         /\ Backtest!Passes(row, free) /\ row.depth[side] >= 1
         /\ Backtest!Exceeds(net, free.net, "net", s2)
  BY <1>1 DEF Backtest!EvaluateRow
<1>9. Backtest!ScenarioPasses(row) <=>
         /\ net >= s1.net /\ net # 0 /\ raw > 0
         /\ row.secs >= s1.minSecs /\ row.secs <= s1.maxSecs
         /\ ~row.bookOld /\ row.spread <= s1.spread
         /\ row.depth["YES"] + row.depth["NO"] >= s1.depth
  BY <1>1 DEF Backtest!ScenarioPasses
<1> HIDE DEF side, net, raw, free
<1>10. Backtest!Exceeds(net, BacktestGates.net, "net", s2) =>
          net >= BacktestGates.net
  BY <1>1, <1>2 DEF Backtest!Exceeds
<1>11. net > BacktestGates.net =>
          Backtest!Exceeds(net, BacktestGates.net, "net", s2)
  BY DEF Backtest!Exceeds
<1>12. /\ Backtest!Passes(row, BacktestGates) =>
             /\ Backtest!Passes(row, free) /\ ~row.bookOld
             /\ row.secs >= BacktestGates.minSecs /\ row.secs <= BacktestGates.maxSecs
             /\ row.depth["YES"] + row.depth["NO"] >= BacktestGates.depth
       /\ /\ Backtest!Passes(row, free) /\ ~row.bookOld /\ ~row.underlyingOld
          /\ row.secs >= BacktestGates.minSecs /\ row.secs <= BacktestGates.maxSecs
          /\ row.depth["YES"] + row.depth["NO"] >= BacktestGates.depth
          /\ row.spread <= BacktestGates.spread
          => Backtest!Passes(row, BacktestGates)
  <2>1. ASSUME Backtest!Passes(row, BacktestGates)
        PROVE  /\ Backtest!Passes(row, free) /\ ~row.bookOld
               /\ row.secs >= BacktestGates.minSecs /\ row.secs <= BacktestGates.maxSecs
               /\ row.depth["YES"] + row.depth["NO"] >= BacktestGates.depth
    BY <1>2, <1>4, <1>5, <2>1 DEF Backtest!Passes
  <2>2. ASSUME Backtest!Passes(row, free), ~row.bookOld, ~row.underlyingOld,
               row.secs >= BacktestGates.minSecs, row.secs <= BacktestGates.maxSecs,
               row.depth["YES"] + row.depth["NO"] >= BacktestGates.depth,
               row.spread <= BacktestGates.spread
        PROVE  Backtest!Passes(row, BacktestGates)
    BY <2>2 DEF Backtest!Passes
  <2>3. QED BY <2>1, <2>2
<1>13. ASSUME Backtest!EvaluateRow(row, BacktestGates, s2)
       PROVE  Backtest!EvaluateRow(row, free, s2) /\ Backtest!ScenarioPasses(row)
  <2>1. Backtest!Passes(row, free) /\ net > BacktestGates.net
    BY <1>1, <1>2, <1>6, <1>7, <1>10, <1>12, <1>13
  <2>2. net > free.net /\ net >= s1.net /\ net # 0 /\ raw > 0
    BY <1>1, <1>2, <1>3, <1>4, <2>1
  <2>3. Backtest!Exceeds(net, free.net, "net", s2)
    BY <2>2 DEF Backtest!Exceeds
  <2>4. row.spread <= s1.spread
    BY <1>2, <1>3, <1>6, <2>1
  <2>5. QED BY <1>3, <1>7, <1>8, <1>9, <1>12, <1>13, <2>1, <2>2, <2>3, <2>4
<1>14. ASSUME Backtest!EvaluateRow(row, free, s2), Backtest!ScenarioPasses(row)
       PROVE  Backtest!EvaluateRow(row, BacktestGates, s2)
  <2>1. Backtest!Passes(row, free) /\ row.depth[side] >= 1
    BY <1>8, <1>14
  <2>2. net > BacktestGates.net /\ row.spread <= BacktestGates.spread
    BY <1>1, <1>2, <1>3, <1>6, <1>9, <1>14, <2>1
  <2>3. Backtest!Passes(row, BacktestGates)
    BY <1>3, <1>6, <1>9, <1>12, <1>14, <2>1, <2>2
  <2>4. QED BY <1>7, <1>11, <2>1, <2>2, <2>3
<1>15. QED BY <1>6, <1>8, <1>13, <1>14 DEF free

AnyEntry == [at : Nat, side : Backtest!Sides]
Entry(side) == [at |-> s3, side |-> side]

LEMMA BacktestFacts ==
    ASSUME Backtest!BacktestTypeOK
    PROVE  /\ s3 \in Nat /\ s1.perWindow \in Nat /\ s1.afterEntry \in Nat /\ s1.daily \in Nat
           /\ s3 \div Day \in DOMAIN s9 /\ s9 \in [DOMAIN s9 -> Nat]
           /\ \A w \in Tickers :
                 /\ s7[w] \in Seq(AnyEntry)
                 /\ Len(s7[w]) \in Nat /\ DOMAIN s7[w] = 1 .. Len(s7[w])
                 /\ \A i \in DOMAIN s7[w] : s7[w][i].at \in Nat /\ s8[w] \in Int
           /\ \A side \in Backtest!Sides : Entry(side) \in AnyEntry
<1>1. s3 \in 0 .. MaxRows * MaxStep /\ MaxRows \in Nat /\ MaxStep \in Nat
  BY ResearchAssumption DEF Backtest!BacktestAssumption, Backtest!BacktestTypeOK
<1>2. s3 \in Nat
  <2>1. MaxRows * MaxStep \in Nat
    BY <1>1
  <2>2. QED BY <1>1, <2>1
<1>3. s1.perWindow \in Nat /\ s1.afterEntry \in Nat /\ s1.daily \in Nat
  BY ResearchAssumption DEF Backtest!BacktestAssumption, Backtest!BacktestTypeOK
<1>4. s3 \div Day \in DOMAIN s9 /\ s9 \in [DOMAIN s9 -> Nat]
  BY <1>1 DEF Backtest!BacktestTypeOK
<1>5. ASSUME NEW w \in Tickers
      PROVE  /\ s7[w] \in Seq(AnyEntry)
             /\ Len(s7[w]) \in Nat /\ DOMAIN s7[w] = 1 .. Len(s7[w])
             /\ \A i \in DOMAIN s7[w] : s7[w][i].at \in Nat /\ s8[w] \in Int
  <2>1. s7[w] \in Seq(AnyEntry) /\ s8[w] \in Int
    BY DEF Backtest!BacktestTypeOK, Backtest!EntrySeqs, AnyEntry
  <2>2. Len(s7[w]) \in Nat /\ DOMAIN s7[w] = 1 .. Len(s7[w])
    BY <2>1, LenProperties
  <2>3. \A i \in DOMAIN s7[w] : s7[w][i] \in AnyEntry
    BY <2>1, <2>2, ElementOfSeq
  <2>4. QED BY <2>1, <2>2, <2>3 DEF AnyEntry
<1>6. \A side \in Backtest!Sides : Entry(side) \in AnyEntry
  BY <1>2 DEF Entry, AnyEntry
<1>7. QED BY <1>2, <1>3, <1>4, <1>5, <1>6

\* What the frontier has accepted is in order of time and keeps the caps of a
\* window.
Spaced(w) ==
    /\ Len(s7[w]) <= s1.perWindow
    /\ \A i \in DOMAIN s7[w] :
          /\ s7[w][i].at <= s3
          /\ \A j \in DOMAIN s7[w] :
                i < j => /\ s7[w][i].at <= s7[w][j].at
                         /\ s7[w][j].at - s7[w][i].at >= s1.afterEntry
                         /\ s1.otherSide => s7[w][i].side # s7[w][j].side

LEMMA SpacedAsBefore ==
    ASSUME NEW w, s1' = s1, s3' = s3, s7'[w] = s7[w]
    PROVE  Spaced(w)' <=> Spaced(w)
BY DEF Spaced

LEMMA EntryKeepsSpacing ==
    ASSUME Backtest!BacktestTypeOK, NEW w \in Tickers, NEW side \in Backtest!Sides,
           \A v \in Tickers : Spaced(v), Backtest!WithinCaps(w, side),
           s1' = s1, s3' = s3, s7' = [s7 EXCEPT ![w] = Append(@, Entry(side))]
    PROVE  \A v \in Tickers : Spaced(v)'
<1> SUFFICES ASSUME NEW v \in Tickers PROVE Spaced(v)'
  OBVIOUS
<1>1. CASE v # w
  <2>1. s7'[v] = s7[v]
    BY <1>1 DEF Backtest!BacktestTypeOK, Backtest!EntrySeqs
  <2>2. QED BY <2>1, SpacedAsBefore
<1>2. CASE v = w
  <2> DEFINE old == s7[w]
             new == s7'[w]
             n == Len(s7[w])
  <2>1. /\ old \in Seq(AnyEntry)
        /\ n \in Nat /\ DOMAIN old = 1 .. n
        /\ \A i \in DOMAIN old : old[i].at \in Nat
        /\ Entry(side) \in AnyEntry
        /\ s3 \in Nat /\ s1.perWindow \in Nat /\ s1.afterEntry \in Nat
    BY BacktestFacts
  <2>2. new = Append(old, Entry(side))
    BY DEF Backtest!BacktestTypeOK, Backtest!EntrySeqs
  <2>3. /\ new \in Seq(AnyEntry)
        /\ Len(new) = n + 1 /\ new[n + 1] = Entry(side)
        /\ \A i \in 1 .. n : new[i] = old[i]
    BY <2>1, <2>2, AppendFacts
  <2>4. DOMAIN new = 1 .. n + 1
    BY <2>1, <2>3, LenProperties
  <2>5. /\ n <= s1.perWindow
        /\ \A i \in 1 .. n :
              /\ old[i].at <= s3
              /\ \A j \in 1 .. n :
                    i < j => /\ old[i].at <= old[j].at
                             /\ old[j].at - old[i].at >= s1.afterEntry
                             /\ s1.otherSide => old[i].side # old[j].side
    BY <2>1 DEF Spaced
  <2>6. /\ n < s1.perWindow
        /\ n > 0 => /\ s3 - old[n].at >= s1.afterEntry
                    /\ s1.otherSide => \A i \in 1 .. n : old[i].side # side
    <3>1. n > 0 => old # <<>>
      BY <2>1
    <3>2. /\ n < s1.perWindow
          /\ old # <<>> => /\ s3 - old[n].at >= s1.afterEntry
                           /\ s1.otherSide => \A i \in DOMAIN old : old[i].side # side
      BY DEF Backtest!WithinCaps, Backtest!Rested
    <3>3. QED BY <2>1, <3>1, <3>2
  <2>7. Entry(side).at = s3 /\ Entry(side).side = side
    BY DEF Entry
  <2> HIDE DEF old, new, n
  <2>8. Len(new) <= s1.perWindow
    BY <2>1, <2>3, <2>6
  <2>9. ASSUME NEW i \in DOMAIN new PROVE new[i].at <= s3
    BY <2>1, <2>3, <2>4, <2>5, <2>7
  <2>10. ASSUME NEW i \in DOMAIN new, NEW j \in DOMAIN new, i < j
         PROVE  /\ new[i].at <= new[j].at
                /\ new[j].at - new[i].at >= s1.afterEntry
                /\ s1.otherSide => new[i].side # new[j].side
    <3>1. i \in 1 .. n /\ new[i] = old[i]
      BY <2>1, <2>3, <2>4, <2>10
    <3>2. CASE j \in 1 .. n
      BY <2>3, <2>5, <2>10, <3>1, <3>2
    <3>3. CASE j = n + 1
      <4>1. n > 0 /\ n \in 1 .. n
        BY <2>1, <3>1
      <4>2. /\ old[i].at \in Nat /\ old[n].at \in Nat
            /\ old[i].at <= old[n].at
        <5>1. old[i].at \in Nat /\ old[n].at \in Nat
          BY <2>1, <3>1, <4>1
        <5>2. CASE i = n
          BY <5>1, <5>2
        <5>3. CASE i < n
          BY <2>5, <3>1, <4>1, <5>1, <5>3
        <5>4. QED BY <2>1, <3>1, <5>1, <5>2, <5>3
      <4>3. s3 - old[i].at >= s1.afterEntry /\ old[i].at <= s3
        BY <2>1, <2>5, <2>6, <3>1, <4>1, <4>2
      <4>4. s1.otherSide => old[i].side # side
        BY <2>6, <3>1, <4>1
      <4>5. QED BY <2>3, <2>7, <3>1, <3>3, <4>3, <4>4
    <3>4. QED BY <2>1, <2>4, <3>2, <3>3
  <2>11. QED BY <1>2, <2>8, <2>9, <2>10 DEF Spaced, new
<1>3. QED BY <1>1, <1>2

\* The frontier's count of a day is the number of its entries on that day.
Counted == \A day \in DOMAIN s9 :
    /\ s9[day] = Cardinality(Backtest!DayTrades(day)) /\ IsFiniteSet(Backtest!DayTrades(day))
    /\ s9[day] <= s1.daily

LEMMA EntryIsCounted ==
    ASSUME Backtest!BacktestTypeOK, NEW w \in Tickers, NEW side \in Backtest!Sides,
           Counted, Backtest!WithinCaps(w, side),
           s1' = s1, s3' = s3, s7' = [s7 EXCEPT ![w] = Append(@, Entry(side))],
           s9' = [s9 EXCEPT ![s3 \div Day] = @ + 1]
    PROVE  Counted'
<1> DEFINE n == Len(s7[w])
           today == s3 \div Day
<1>1. /\ s7[w] \in Seq(AnyEntry)
      /\ n \in Nat /\ DOMAIN s7[w] = 1 .. n
      /\ Entry(side) \in AnyEntry
      /\ s1.perWindow \in Nat /\ s1.daily \in Nat
      /\ today \in DOMAIN s9 /\ s9 \in [DOMAIN s9 -> Nat]
  BY BacktestFacts
<1>2. s7'[w] = Append(s7[w], Entry(side)) /\ \A v \in Tickers : v # w => s7'[v] = s7[v]
  BY DEF Backtest!BacktestTypeOK, Backtest!EntrySeqs
<1>3. /\ DOMAIN s7'[w] = 1 .. n + 1 /\ s7'[w][n + 1].at = s3
      /\ \A i \in 1 .. n : s7'[w][i] = s7[w][i]
  <2>1. /\ s7'[w] \in Seq(AnyEntry)
        /\ Len(s7'[w]) = n + 1 /\ s7'[w][n + 1] = Entry(side)
        /\ \A i \in 1 .. n : s7'[w][i] = s7[w][i]
    BY <1>1, <1>2, AppendFacts
  <2>2. QED BY <2>1, LenProperties DEF Entry
<1>4. n < s1.perWindow /\ s9[today] < s1.daily
  BY DEF Backtest!WithinCaps
<1>5. DOMAIN s9' = DOMAIN s9 /\ s9'[today] = s9[today] + 1
      /\ \A day \in DOMAIN s9 : day # today => s9'[day] = s9[day]
  BY <1>1
<1> HIDE DEF n, today
<1>6. ASSUME NEW day \in DOMAIN s9
      PROVE  Backtest!DayTrades(day)' =
                IF day = today THEN Backtest!DayTrades(day) \cup {<<w, n + 1>>}
                ELSE Backtest!DayTrades(day)
  <2>1. ASSUME NEW v \in Tickers, NEW k \in 1 .. s1.perWindow
        PROVE  <<v, k>> \in Backtest!DayTrades(day)' <=>
                  \/ <<v, k>> \in Backtest!DayTrades(day)
                  \/ day = today /\ v = w /\ k = n + 1
    <3>1. <<v, k>> \in Backtest!DayTrades(day) <=>
             k \in DOMAIN s7[v] /\ s7[v][k].at \div Day = day
      BY DEF Backtest!DayTrades
    <3>2. <<v, k>> \in Backtest!DayTrades(day)' <=>
             k \in DOMAIN s7'[v] /\ s7'[v][k].at \div Day = day
      BY DEF Backtest!DayTrades
    <3>3. CASE v # w
      BY <1>2, <3>1, <3>2, <3>3
    <3>4. CASE v = w /\ k = n + 1
      BY <1>1, <1>3, <3>1, <3>2, <3>4 DEF today
    <3>5. CASE v = w /\ k # n + 1
      <4>1. k \in 1 .. n + 1 <=> k \in 1 .. n
        BY <1>1, <3>5
      <4>2. QED BY <1>1, <1>3, <3>1, <3>2, <3>5, <4>1
    <3>6. QED BY <3>3, <3>4, <3>5
  <2>2. /\ Backtest!DayTrades(day) \subseteq Tickers \X (1 .. s1.perWindow)
        /\ Backtest!DayTrades(day)' \subseteq Tickers \X (1 .. s1.perWindow)
        /\ <<w, n + 1>> \in Tickers \X (1 .. s1.perWindow)
    BY <1>1, <1>4 DEF Backtest!DayTrades
  <2>3. \A p \in Tickers \X (1 .. s1.perWindow) :
           p \in Backtest!DayTrades(day)' <=>
              p \in Backtest!DayTrades(day) \/ (day = today /\ p = <<w, n + 1>>)
    BY <2>1
  <2>4. CASE day = today
    BY <2>2, <2>3, <2>4
  <2>5. CASE day # today
    BY <2>2, <2>3, <2>5
  <2>6. QED BY <2>4, <2>5
<1>7. <<w, n + 1>> \notin Backtest!DayTrades(today)
  BY <1>1 DEF Backtest!DayTrades
<1>8. ASSUME NEW day \in DOMAIN s9
      PROVE  /\ s9'[day] = Cardinality(Backtest!DayTrades(day)')
             /\ IsFiniteSet(Backtest!DayTrades(day)') /\ s9'[day] <= s1.daily
  <2>1. /\ s9[day] = Cardinality(Backtest!DayTrades(day))
        /\ IsFiniteSet(Backtest!DayTrades(day)) /\ s9[day] <= s1.daily
    BY DEF Counted
  <2>2. CASE day = today
    <3>1. /\ IsFiniteSet(Backtest!DayTrades(day) \cup {<<w, n + 1>>})
          /\ Cardinality(Backtest!DayTrades(day) \cup {<<w, n + 1>>})
             = Cardinality(Backtest!DayTrades(day)) + 1
      BY <1>7, <2>1, <2>2, FS_AddElement
    <3>2. s9[today] + 1 <= s1.daily
      BY <1>1, <1>4
    <3>3. QED BY <1>5, <1>6, <2>1, <2>2, <3>1, <3>2
  <2>3. CASE day # today
    BY <1>5, <1>6, <2>1, <2>3
  <2>4. QED BY <2>2, <2>3
<1>9. QED BY <1>5, <1>8 DEF Counted

LEMMA SameCardinality ==
    \A S : /\ Backtest!Cardinality(S) = Cardinality(S)
           /\ Backtest!IsFiniteSet(S) <=> IsFiniteSet(S)
BY DEF Backtest!Cardinality, Cardinality, Backtest!IsFiniteSet, IsFiniteSet

\* What is between the rows of a window.
Once(w) == Len(s6[w]) <= 1 /\ s8[w] <= s3

Parts ==
    /\ Backtest!BacktestTypeOK /\ Backtest!FrontierIsBacktest /\ Counted
    /\ \A w \in Tickers : Once(w) /\ Spaced(w)

LEMMA BacktestParts == Backtest!BacktestInv <=> Parts
<1>1. ASSUME Backtest!BacktestInv
      PROVE  /\ Backtest!BacktestTypeOK /\ Backtest!FrontierIsBacktest /\ Counted
             /\ \A w \in Tickers : Once(w) /\ Spaced(w)
  <2>1. Backtest!BacktestTypeOK /\ Backtest!FrontierIsBacktest
    BY <1>1 DEF Backtest!BacktestInv
  <2>2. Counted
    BY <1>1, SameCardinality DEF Backtest!BacktestInv, Backtest!FrontierCapsHold, Counted
  <2>3. ASSUME NEW w \in Tickers PROVE Once(w)
    BY <1>1 DEF Backtest!BacktestInv, Once
  <2>4. ASSUME NEW w \in Tickers PROVE Spaced(w)
    BY <1>1 DEF Backtest!BacktestInv, Backtest!FrontierCapsHold, Spaced
  <2>5. QED BY <2>1, <2>2, <2>3, <2>4
<1>2. ASSUME Backtest!BacktestTypeOK, Backtest!FrontierIsBacktest, Counted,
             \A w \in Tickers : Once(w) /\ Spaced(w)
      PROVE  Backtest!BacktestInv
  <2>1. ASSUME NEW w \in Tickers
        PROVE  /\ Len(s6[w]) <= 1 /\ s8[w] <= s3 /\ Len(s7[w]) <= s1.perWindow
               /\ \A i \in DOMAIN s7[w] :
                     /\ s7[w][i].at <= s3
                     /\ \A j \in DOMAIN s7[w] :
                           i < j => s7[w][i].at <= s7[w][j].at
               /\ \A i, j \in DOMAIN s7[w] :
                     i < j => /\ s7[w][j].at - s7[w][i].at >= s1.afterEntry
                              /\ s1.otherSide => s7[w][i].side # s7[w][j].side
    BY <1>2 DEF Once, Spaced
  <2>2. ASSUME NEW day \in DOMAIN s9
        PROVE  /\ s9[day] = Backtest!Cardinality(Backtest!DayTrades(day))
               /\ Backtest!IsFiniteSet(Backtest!DayTrades(day))
               /\ Backtest!Cardinality(Backtest!DayTrades(day)) <= s1.daily
    BY <1>2, SameCardinality DEF Counted
  <2>3. Backtest!FrontierCapsHold
    BY <2>1, <2>2 DEF Backtest!FrontierCapsHold
  <2>4. QED BY <1>2, <2>1, <2>2, <2>3 DEF Backtest!BacktestInv
<1>3. QED BY <1>1, <1>2 DEF Parts

LEMMA BacktestInit == Backtest!Init => Backtest!BacktestInv
<1> SUFFICES ASSUME Backtest!Init PROVE Backtest!BacktestInv
  OBVIOUS
<1>1. /\ s3 = 0 /\ s1 \in Frontier /\ s5 = <<>> /\ s10 = {}
      /\ \A w \in Tickers : s6[w] = <<>> /\ s7[w] = <<>> /\ s8[w] = Backtest!None
      /\ s6 \in [Tickers -> {<<>>}] /\ s7 \in [Tickers -> {<<>>}]
      /\ s8 \in [Tickers -> {Backtest!None}]
      /\ s9 = [d \in {t \div Day : t \in 0 .. MaxRows * MaxStep} |-> 0]
  BY DEF Backtest!Init
<1>2. {MaxRows, MaxStep} \subseteq Nat /\ s1.perWindow \in Nat /\ s1.daily \in Nat
  BY <1>1, ResearchAssumption DEF Backtest!BacktestAssumption
<1>3. \A S : <<>> \in Seq(S) /\ Len(<<>>) = 0 /\ DOMAIN <<>> = {}
  BY EmptySeq
<1>4. Backtest!BacktestTypeOK
  <2>1. s3 \in 0 .. MaxRows * MaxStep
    <3>1. MaxRows * MaxStep \in Nat
      BY <1>2
    <3>2. QED BY <1>1, <3>1
  <2>2. s6 \in Backtest!EntrySeqs /\ s7 \in Backtest!EntrySeqs
    BY <1>1, <1>3 DEF Backtest!EntrySeqs
  <2>3. s8 \in [Tickers -> Int] /\ Backtest!None = -1
    BY <1>1 DEF Backtest!None
  <2>4. s9 \in [{t \div Day : t \in 0 .. MaxRows * MaxStep} -> Nat]
    BY <1>1
  <2>5. \A i \in DOMAIN s5 : s5[i] \in AnyKinds
    BY <1>1, <1>3
  <2>6. QED BY <1>1, <2>1, <2>2, <2>3, <2>4, <2>5 DEF Backtest!BacktestTypeOK
<1>5. Backtest!FrontierIsBacktest
  BY <1>1 DEF Backtest!FrontierIsBacktest
<1>6. ASSUME NEW w \in Tickers PROVE Once(w) /\ Spaced(w)
  BY <1>1, <1>2, <1>3 DEF Once, Spaced, Backtest!None
<1>7. Counted
  <2>1. ASSUME NEW day \in DOMAIN s9
        PROVE  Backtest!DayTrades(day) = {} /\ s9[day] = 0
    BY <1>1, <1>3 DEF Backtest!DayTrades
  <2>2. IsFiniteSet({}) /\ Cardinality({}) = 0
    BY FS_EmptySet
  <2>3. QED BY <1>2, <2>1, <2>2 DEF Counted
<1>8. QED BY <1>4, <1>5, <1>6, <1>7, BacktestParts DEF Parts

LEMMA BacktestPass ==
    ASSUME Backtest!BacktestInv, NEW step \in 1 .. MaxStep, Backtest!Pass(step)
    PROVE  Backtest!BacktestInv'
<1>1. /\ Backtest!BacktestTypeOK /\ Backtest!FrontierIsBacktest /\ Counted
      /\ \A w \in Tickers : Once(w) /\ Spaced(w)
  BY BacktestParts DEF Parts
<1>2. /\ s3' = s3 + step /\ s3' <= MaxRows * MaxStep
      /\ s1' = s1 /\ s5' = s5 /\ s6' = s6 /\ s7' = s7 /\ s8' = s8 /\ s9' = s9 /\ s10' = s10
  BY DEF Backtest!Pass
<1>3. /\ s3 \in Nat /\ step \in Nat /\ s3' \in Nat /\ s3 <= s3'
      /\ MaxRows * MaxStep \in Nat
  <2>1. s3 \in Nat /\ MaxRows \in Nat /\ MaxStep \in Nat
    BY <1>1, BacktestFacts, ResearchAssumption DEF Backtest!BacktestAssumption
  <2>2. MaxRows * MaxStep \in Nat
    BY <2>1
  <2>3. QED BY <1>2, <2>1, <2>2
<1>4. Backtest!BacktestTypeOK'
  <2>1. s3' \in 0 .. MaxRows * MaxStep
    BY <1>2, <1>3
  <2>2. QED BY <1>1, <1>2, <2>1 DEF Backtest!BacktestTypeOK
<1>5. Backtest!FrontierIsBacktest'
  BY <1>1, <1>2 DEF Backtest!FrontierIsBacktest
<1>6. Counted'
  BY <1>1, <1>2 DEF Counted, Backtest!DayTrades
<1>7. ASSUME NEW w \in Tickers PROVE Once(w)' /\ Spaced(w)'
  <2>1. /\ s8[w] \in Int /\ \A i \in DOMAIN s7[w] : s7[w][i].at \in Nat
    BY <1>1, BacktestFacts DEF Backtest!BacktestTypeOK
  <2>2. s8[w] <= s3' /\ \A i \in DOMAIN s7[w] : s7[w][i].at <= s3'
    BY <1>1, <1>3, <2>1 DEF Once, Spaced
  <2>3. QED BY <1>1, <1>2, <2>2 DEF Once, Spaced
<1>8. (Backtest!BacktestInv <=> Parts)'
  BY BacktestParts, PTL
<1>9. QED BY <1>4, <1>5, <1>6, <1>7, <1>8 DEF Parts

\* What the frontier does with a row, and what the backtest does.
Takes(w, row) ==
    /\ Backtest!EvaluateRow(row, Backtest!Permissive, s2) /\ Backtest!ScenarioPasses(row)
    /\ Backtest!WithinCaps(w, Backtest!Best(row, Backtest!Permissive))
Enters(w, row) == s6[w] = <<>> /\ Backtest!EvaluateRow(row, BacktestGates, s2)

LEMMA RowEffect ==
    ASSUME NEW w \in Tickers, NEW row \in AnyKinds, Backtest!Row(w, row)
    PROVE  LET entry == Entry(Backtest!Best(row, Backtest!Permissive))
           IN  /\ s1' = s1 /\ s3' = s3 /\ s5' = <<row>>
               /\ s6' = IF Enters(w, row) THEN [s6 EXCEPT ![w] = <<entry>>] ELSE s6
               /\ s7' = IF Takes(w, row) THEN [s7 EXCEPT ![w] = Append(@, entry)] ELSE s7
               /\ s8' = s8 \/ s8' = [s8 EXCEPT ![w] = s3]
               /\ s9' = IF Takes(w, row) THEN [s9 EXCEPT ![s3 \div Day] = @ + 1] ELSE s9
               /\ s10' = IF Backtest!Incomparable(row) THEN s10 \cup {w} ELSE s10
<1>1. Backtest!Best(row, BacktestGates) = Backtest!Best(row, Backtest!Permissive)
  BY EdgeFacts
<1>2. /\ s1' = s1 /\ s3' = s3 /\ s5' = <<row>>
      /\ Backtest!BacktestRow(w, row) /\ Backtest!FrontierRow(w, row)
      /\ s10' = IF Backtest!Incomparable(row) THEN s10 \cup {w} ELSE s10
  BY DEF Backtest!Row
<1>3. s6' = IF Enters(w, row)
            THEN [s6 EXCEPT ![w] = <<Entry(Backtest!Best(row, Backtest!Permissive))>>]
            ELSE s6
  BY <1>1, <1>2 DEF Backtest!BacktestRow, Enters, Entry
<1>4. /\ s7' = IF Takes(w, row)
               THEN [s7 EXCEPT ![w] =
                        Append(@, Entry(Backtest!Best(row, Backtest!Permissive)))]
               ELSE s7
      /\ s9' = IF Takes(w, row) THEN [s9 EXCEPT ![s3 \div Day] = @ + 1] ELSE s9
  BY <1>2 DEF Backtest!FrontierRow, Takes, Entry
<1>5. s8' = s8 \/ s8' = [s8 EXCEPT ![w] = s3]
  BY <1>2 DEF Backtest!FrontierRow
<1>6. QED BY <1>2, <1>3, <1>4, <1>5

LEMMA BacktestRowKeeps ==
    ASSUME Backtest!BacktestInv, NEW w \in Tickers, NEW row \in AnyKinds,
           Backtest!Row(w, row)
    PROVE  Backtest!BacktestInv'
<1> DEFINE side == Backtest!Best(row, Backtest!Permissive)
           entry == Entry(side)
           one == <<entry>>
<1>1. /\ Backtest!BacktestTypeOK /\ Backtest!FrontierIsBacktest /\ Counted
      /\ \A v \in Tickers : Once(v) /\ Spaced(v)
  BY BacktestParts DEF Parts
<1>2. /\ s1' = s1 /\ s3' = s3 /\ s5' = <<row>>
      /\ s6' = IF Enters(w, row) THEN [s6 EXCEPT ![w] = one] ELSE s6
      /\ s7' = IF Takes(w, row) THEN [s7 EXCEPT ![w] = Append(@, entry)] ELSE s7
      /\ s8' = s8 \/ s8' = [s8 EXCEPT ![w] = s3]
      /\ s9' = IF Takes(w, row) THEN [s9 EXCEPT ![s3 \div Day] = @ + 1] ELSE s9
      /\ s10' = IF Backtest!Incomparable(row) THEN s10 \cup {w} ELSE s10
  BY RowEffect
<1>3. side \in Backtest!Sides
  BY EdgeFacts
<1>4. /\ s3 \in Nat /\ s3 \div Day \in DOMAIN s9 /\ s9 \in [DOMAIN s9 -> Nat]
      /\ s7[w] \in Seq(AnyEntry) /\ entry \in AnyEntry
  BY <1>1, <1>3, BacktestFacts
<1>5. one \in Seq(AnyEntry) /\ Len(one) <= 1
  BY <1>4
<1>6. Append(s7[w], entry) \in Seq(AnyEntry)
  BY <1>4, AppendFacts
<1>7. /\ s6 \in [Tickers -> Seq(AnyEntry)] /\ s7 \in [Tickers -> Seq(AnyEntry)]
      /\ s8 \in [Tickers -> Int]
  BY <1>1 DEF Backtest!BacktestTypeOK, Backtest!EntrySeqs, AnyEntry
<1>8. s7[w] = <<>> => Append(s7[w], entry) = one
  OBVIOUS
<1>9. Takes(w, row) => Backtest!WithinCaps(w, side)
  BY DEF Takes
<1> HIDE DEF side, entry, one
<1>10. Backtest!BacktestTypeOK'
  <2>1. s6' \in [Tickers -> Seq(AnyEntry)] /\ s7' \in [Tickers -> Seq(AnyEntry)]
    BY <1>2, <1>5, <1>6, <1>7
  <2>2. s8' \in [Tickers -> Int]
    BY <1>2, <1>4, <1>7
  <2>3. s9' \in [DOMAIN s9 -> Nat]
    BY <1>2, <1>4
  <2>4. \A i \in DOMAIN s5' : s5'[i] \in AnyKinds
    BY <1>2
  <2>5. QED
    BY <1>1, <1>2, <2>1, <2>2, <2>3, <2>4
       DEF Backtest!BacktestTypeOK, Backtest!EntrySeqs, AnyEntry
<1>11. ASSUME NEW v \in Tickers PROVE Once(v)'
  <2>1. Len(s6[v]) <= 1 /\ s8[v] <= s3
    BY <1>1 DEF Once
  <2>2. s8'[v] = s8[v] \/ s8'[v] = s3
    BY <1>2, <1>7
  <2>3. s6'[v] = s6[v] \/ s6'[v] = one
    BY <1>2, <1>7
  <2>4. s3' = s3 /\ s8'[v] <= s3
    BY <1>2, <1>4, <2>1, <2>2
  <2>5. Len(s6'[v]) <= 1
    <3>1. CASE s6'[v] = s6[v]
      BY <2>1, <3>1
    <3>2. CASE s6'[v] = one
      BY <1>5, <3>2
    <3>3. QED BY <2>3, <3>1, <3>2
  <2>6. QED BY <2>4, <2>5 DEF Once
<1>12. (\A v \in Tickers : Spaced(v)') /\ Counted'
  <2>1. CASE Takes(w, row)
    <3>1. /\ Backtest!WithinCaps(w, side) /\ s1' = s1 /\ s3' = s3
          /\ s7' = [s7 EXCEPT ![w] = Append(@, Entry(side))]
          /\ s9' = [s9 EXCEPT ![s3 \div Day] = @ + 1]
      BY <1>2, <1>9, <2>1 DEF entry
    <3>2. \A v \in Tickers : Spaced(v)'
      BY <1>1, <1>3, <3>1, EntryKeepsSpacing
    <3>3. Counted'
      BY <1>1, <1>3, <3>1, EntryIsCounted
    <3>4. QED BY <3>2, <3>3
  <2>2. CASE ~Takes(w, row)
    <3>1. s1' = s1 /\ s3' = s3 /\ s7' = s7 /\ s9' = s9
      BY <1>2, <2>2
    <3>2. \A v \in Tickers : Spaced(v)'
      BY <1>1, <3>1, SpacedAsBefore
    <3>3. Counted'
      BY <1>1, <3>1 DEF Counted, Backtest!DayTrades
    <3>4. QED BY <3>2, <3>3
  <2>3. QED BY <2>1, <2>2
<1>13. Backtest!FrontierIsBacktest'
  <2> SUFFICES ASSUME s1.base, NEW v \in Tickers, v \notin s10'
               PROVE  s7'[v] = s6'[v]
    BY <1>2 DEF Backtest!FrontierIsBacktest
  <2>1. v \notin s10 /\ s7[v] = s6[v]
    BY <1>1, <1>2 DEF Backtest!FrontierIsBacktest
  <2>2. CASE v # w
    BY <1>2, <1>7, <2>1, <2>2
  <2>3. CASE v = w
    <3>1. ~Backtest!Incomparable(row)
      BY <1>2, <2>3
    <3>2. /\ Backtest!EvaluateRow(row, BacktestGates, s2) <=>
                /\ Backtest!EvaluateRow(row, Backtest!Permissive, s2)
                /\ Backtest!ScenarioPasses(row)
          /\ Backtest!EvaluateRow(row, Backtest!Permissive, s2) =>
                ~(s9[s3 \div Day] >= s1.daily)
      BY <1>1, <3>1, BaseDecides
    <3>3. s1.perWindow = 1 /\ s1.afterReject = 0 /\ s1.daily \in Nat /\ s8[w] \in Int
          /\ s9[s3 \div Day] \in Nat
      BY <1>1, <1>4, <1>7, ResearchAssumption
         DEF Backtest!BacktestAssumption, Backtest!BacktestTypeOK
    <3>4. CASE s7[w] = <<>>
      <4>1. Len(s7[w]) = 0
        BY <3>4, EmptySeq
      <4>2. Backtest!EvaluateRow(row, Backtest!Permissive, s2) =>
               Backtest!WithinCaps(w, side)
        <5>1. s3 - s8[w] >= s1.afterReject
          BY <1>1, <1>4, <3>3 DEF Once
        <5>2. Backtest!EvaluateRow(row, Backtest!Permissive, s2) =>
                 s9[s3 \div Day] < s1.daily
          BY <3>2, <3>3
        <5>3. QED
          BY <3>3, <3>4, <4>1, <5>1, <5>2 DEF Backtest!WithinCaps, Backtest!Rested
      <4>3. Takes(w, row) <=> Enters(w, row)
        BY <2>1, <2>3, <3>2, <3>4, <4>2 DEF Takes, Enters, side
      <4>4. QED BY <1>2, <1>7, <1>8, <2>1, <2>3, <3>4, <4>3
    <3>5. CASE s7[w] # <<>>
      <4>1. Len(s7[w]) \in Nat /\ Len(s7[w]) # 0
        BY <1>4, <3>5, EmptySeq, LenProperties
      <4>2. ~Backtest!WithinCaps(w, side)
        BY <3>3, <4>1 DEF Backtest!WithinCaps
      <4>3. ~Takes(w, row) /\ ~Enters(w, row)
        BY <1>9, <2>1, <2>3, <3>5, <4>2 DEF Enters
      <4>4. QED BY <1>2, <2>1, <4>3
    <3>6. QED BY <3>4, <3>5
  <2>4. QED BY <2>2, <2>3
<1>14. (Backtest!BacktestInv <=> Parts)'
  BY BacktestParts, PTL
<1>15. QED BY <1>10, <1>11, <1>12, <1>13, <1>14 DEF Parts

LEMMA BacktestStep ==
    ASSUME Backtest!BacktestInv, [Backtest!Next]_(Backtest!vars)
    PROVE  Backtest!BacktestInv'
<1>1. CASE UNCHANGED Backtest!vars
  <2>1. /\ s1' = s1 /\ s3' = s3 /\ s5' = s5 /\ s6' = s6 /\ s7' = s7 /\ s8' = s8
        /\ s9' = s9 /\ s10' = s10
    BY <1>1 DEF Backtest!vars
  <2>2. QED
    BY <2>1 DEF Backtest!BacktestInv, Backtest!BacktestTypeOK, Backtest!DayTrades,
                Backtest!FrontierIsBacktest, Backtest!FrontierCapsHold
<1>2. CASE Backtest!Next
  BY <1>2, BacktestRowKeeps, BacktestPass DEF Backtest!Next
<1>3. QED BY <1>1, <1>2

\* A row on which the policy would act is one the backtest would enter, on the
\* same side.
LEMMA CandidateIsTraded ==
    ASSUME NEW row \in AnyKinds, NEW noise, NEW verdict,
           verdict = Backtest!EvaluatePolicy(Sound, row, noise),
           verdict.state = "PAPER_CANDIDATE",
           Backtest!Ask(row.bid, "YES") + Backtest!Ask(row.bid, "NO") >= 100,
           row.depth[verdict.side] >= 1
    PROVE  Backtest!EvaluateRow(row, BacktestGates, noise)
           /\ Backtest!Best(row, BacktestGates) = verdict.side
<1> DEFINE chance == Backtest!PolicyChance(Sound, row)
           eligible == {s \in Backtest!Sides : Backtest!Eligible(row, s, chance, noise)}
           side == CHOOSE s \in eligible : TRUE
<1>1. /\ eligible # {} /\ verdict.side = side
      /\ ~Backtest!RowRejected(row)
  <2>1. /\ PolicyOn /\ ~Backtest!RejectInfra(Sound, row)
        /\ ~Backtest!WatchInfra(Sound, chance) /\ ~Backtest!RowRejected(row)
        /\ eligible # {} /\ verdict = Backtest!Verdict("PAPER_CANDIDATE", side)
    BY DEF Backtest!EvaluatePolicy, Backtest!Verdict
  <2>2. QED BY <2>1 DEF Backtest!Verdict
<1>2. side \in Backtest!Sides /\ Backtest!Eligible(row, side, chance, noise)
  BY <1>1
<1>3. chance = row.calibrated
  BY DEF Backtest!PolicyChance, Sound
<1> HIDE DEF chance, eligible, side
<1>4. /\ row.calibrated # Backtest!None
      /\ Backtest!ProbFor(row) = row.calibrated
  BY <1>2, <1>3 DEF Backtest!Eligible, Backtest!ProbFor
<1> DEFINE raw(s) == Backtest!RawEdge(row, s, row.calibrated)
           net(s) == Backtest!Net(row, s, BacktestGates)
           fee(s) == Backtest!TakerFee(Backtest!Ask(row.bid, s), 1)
<1>5. /\ row.bid \in [Backtest!Sides -> Int] /\ row.depth \in [Backtest!Sides -> Int]
      /\ row.calibrated \in Int /\ row.secs \in Int /\ row.spread \in Int
      /\ MinNet \in Int /\ MinRaw \in Nat /\ MinRaw > 0 /\ Buffer \in Nat /\ MinSecs \in Int /\ MinSecs > 0
      /\ MaxSecs \in Int /\ MaxSpread \in Int /\ MinTopDepth \in Int
      /\ BacktestGates.net \in Nat /\ BacktestGates.net <= MinNet
      /\ BacktestGates.buffer = 0
      /\ BacktestGates.minSecs \in Nat /\ BacktestGates.minSecs <= MinSecs
      /\ BacktestGates.maxSecs \in Int /\ MaxSecs <= BacktestGates.maxSecs
      /\ BacktestGates.spread \in Int /\ MaxSpread <= BacktestGates.spread
      /\ BacktestGates.depth \in Int /\ BacktestGates.depth <= MinTopDepth
  BY ResearchAssumption DEF Backtest!BacktestAssumption, Backtest!Permissive
<1>6. ASSUME NEW s \in Backtest!Sides
      PROVE  /\ raw(s) \in Int /\ fee(s) \in Nat /\ net(s) = raw(s) - fee(s)
             /\ Backtest!Ask(row.bid, s) \in Int
  <2>1. Backtest!Ask(row.bid, s) \in Int
    BY <1>5 DEF Backtest!Ask, Backtest!Other, Backtest!None, Backtest!Sides
  <2>2. raw(s) \in Int
    BY <1>5, <2>1 DEF Backtest!RawEdge
  <2>3. fee(s) \in Nat
    BY <2>1, UnitFeeIsNat
  <2>4. net(s) = raw(s) - fee(s) - BacktestGates.buffer
    BY <1>4 DEF Backtest!Net
  <2>5. QED BY <1>5, <2>1, <2>2, <2>3, <2>4
<1>7. raw("YES") + raw("NO") <= 0
  BY <1>5, <1>6 DEF Backtest!RawEdge, Backtest!Sides
<1>8. Backtest!Exceeds(raw(side) - fee(side) - Buffer, MinNet, "net", noise)
  BY <1>2, <1>3 DEF Backtest!Eligible, Backtest!NetEdge
<1>9. Backtest!Exceeds(net(side), BacktestGates.net, "net", noise)
  <2>1. raw(side) - fee(side) - Buffer > MinNet
        \/ (raw(side) - fee(side) - Buffer = MinNet /\ "net" \in noise)
    BY <1>8 DEF Backtest!Exceeds
  <2>2. net(side) > BacktestGates.net
        \/ (net(side) = BacktestGates.net /\ "net" \in noise)
    <3>1. /\ raw(side) \in Int /\ fee(side) \in Nat /\ net(side) = raw(side) - fee(side)
      BY <1>2, <1>6
    <3> HIDE DEF raw, net, fee
    <3>2. CASE raw(side) - fee(side) - Buffer > MinNet
      BY <1>5, <3>1, <3>2
    <3>3. CASE raw(side) - fee(side) - Buffer = MinNet /\ "net" \in noise
      <4>1. net(side) >= BacktestGates.net /\ net(side) \in Int
        BY <1>5, <3>1, <3>3
      <4>2. QED BY <1>5, <3>3, <4>1
    <3>4. QED BY <2>1, <3>2, <3>3
  <2>3. QED BY <2>2 DEF Backtest!Exceeds
<1>10. net(side) >= 0 /\ raw(side) > 0
  <2>1. net(side) >= BacktestGates.net
    BY <1>2, <1>5, <1>6, <1>9 DEF Backtest!Exceeds
  <2>2. Backtest!Exceeds(raw(side), MinRaw, "raw", noise)
    BY <1>2, <1>3 DEF Backtest!Eligible
  <2>3. raw(side) >= MinRaw
    BY <1>2, <1>5, <1>6, <2>2 DEF Backtest!Exceeds
  <2>4. QED BY <1>2, <1>5, <1>6, <2>1, <2>3
<1>11. Backtest!Best(row, BacktestGates) = side
  <2>1. Backtest!Best(row, BacktestGates)
           = IF net("YES") >= net("NO") THEN "YES" ELSE "NO"
    BY DEF Backtest!Best
  <2>2. /\ net("YES") <= raw("YES") /\ net("NO") <= raw("NO")
        /\ {net("YES"), net("NO"), raw("YES"), raw("NO")} \subseteq Int
    BY <1>6 DEF Backtest!Sides
  <2> HIDE DEF raw, net
  <2>3. CASE side = "YES"
    BY <1>7, <1>10, <2>1, <2>2, <2>3
  <2>4. CASE side = "NO"
    BY <1>7, <1>10, <2>1, <2>2, <2>4
  <2>5. QED BY <1>2, <2>3, <2>4 DEF Backtest!Sides
<1>12. Backtest!Passes(row, BacktestGates)
  <2>1. /\ row.bookOk /\ \A s \in Backtest!Sides : Backtest!Ask(row.bid, s) # Backtest!None
        /\ row.reference /\ ~row.bookOld /\ ~row.underlyingOld /\ row.healthy
        /\ row.spread <= MaxSpread /\ row.secs >= MinSecs /\ row.secs <= MaxSecs
        /\ row.depth["YES"] + row.depth["NO"] >= MinTopDepth
    BY <1>1, <1>5 DEF Backtest!RowRejected, Backtest!Sides
  <2>2. row.depth["YES"] + row.depth["NO"] \in Int
    BY <1>5 DEF Backtest!Sides
  <2>3. QED BY <1>4, <1>5, <2>1, <2>2 DEF Backtest!Passes
<1>13. QED
  BY <1>1, <1>9, <1>11, <1>12 DEF Backtest!EvaluateRow

\* Nor does it matter what else a row may show: what the policy would act on has
\* been traded.
LEMMA CandidatesWereTraded ==
    ASSUME Backtest!BacktestInv PROVE Backtest!CandidateIsBacktested
<1>1. \A i \in DOMAIN s5 : s5[i] \in AnyKinds
  BY DEF Backtest!BacktestInv, Backtest!BacktestTypeOK
<1>2. QED
  BY <1>1, CandidateIsTraded DEF Backtest!CandidateIsBacktested
-----------------------------------------------------------------------------
(* The edge gate (EdgePolicy): s1 is what has settled, s2 the buckets of the *)
(* run, s3 whether it is prepared, s4 the last decision or sweep.  The mean  *)
(* of a bucket lies in it, so a prediction is at most 9 cents above the mean *)
(* it was calibrated with; the market's opinion of a side is at most its     *)
(* ask, half of the distance to it is charged, and the two margins make up   *)
(* for the rest.  Stricter limits move the edges of both sides alike.        *)

\* The instance's fold is the library's.
LEMMA EdgeTotals == \A f : Edge!TotalOf(f) = FoldFunction(+, 0, f)
BY DEF Edge!TotalOf, Edge!FoldFunction, Edge!FoldFunctionOnSet, Edge!MapThenFoldSet,
       FoldFunction, FoldFunctionOnSet, MapThenFoldSet

\* What the assumption says of the numbers.
LEMMA EdgeConstants ==
    /\ Chances \subseteq 1..99 /\ IsFiniteSet(Chances)
    /\ MinFinal \in Nat /\ MinProfit \in Nat /\ FixedBuffer \in Nat /\ StaleBuffer \in Nat
    /\ SourceBuffer \in Nat /\ RegimeBuffer \in Nat /\ ThinBuffer \in Nat
    /\ MinBookDepth \in Nat /\ MaxBookAge \in Nat /\ FeedMaxAge \in Nat
    /\ MaxUnderlying \in Nat /\ FeeRate \in Nat \ {0} /\ MinFinal + MinProfit >= 4
    /\ MaxUnderlying <= FeedMaxAge
    /\ EdgeMinRaw \in Nat /\ MinBucketRows \in Nat /\ MaxWidth \in Nat
    /\ MaxDisagreement \in Nat
<1>1. Edge!EdgeAssumption
  BY ResearchAssumption
<1> HIDE DEF RowsOf, SweepAxes, JudgedRows
<1>2. /\ Chances \subseteq 1..99
      /\ {MinFinal, MinProfit, FixedBuffer, StaleBuffer, SourceBuffer, RegimeBuffer,
          ThinBuffer, MinBookDepth, MaxBookAge, FeedMaxAge, MaxUnderlying} \subseteq Nat
      /\ FeeRate \in Nat \ {0} /\ MinFinal + MinProfit >= 4
      /\ MaxUnderlying <= FeedMaxAge
      /\ {EdgeMinRaw, MinBucketRows, MaxWidth, MaxDisagreement} \subseteq Nat
  BY <1>1 DEF Edge!EdgeAssumption
<1>3. IsFiniteSet(Chances)
  <2>1. IsFiniteSet(1..99)
    BY FS_Interval, 1 \in Int, 99 \in Int
  <2>2. Chances \in SUBSET (1..99)
    BY <1>2
  <2> QED BY <2>1, <2>2, FS_Subset
<1> QED BY <1>2, <1>3

LEMMA MaxOfTwo ==
    ASSUME NEW a \in Int, NEW b \in Int
    PROVE  Edge!Max({a, b}) \in {a, b} /\ a <= Edge!Max({a, b}) /\ b <= Edge!Max({a, b})
<1>1. \E x \in {a, b} : \A y \in {a, b} : x >= y
  <2>1. CASE a >= b
    BY <2>1
  <2>2. CASE b >= a
    BY <2>2
  <2> QED BY <2>1, <2>2
<1> QED BY <1>1 DEF Edge!Max

LEMMA MinOfTwo ==
    ASSUME NEW a \in Int, NEW b \in Int
    PROVE  Edge!Min({a, b}) \in {a, b} /\ Edge!Min({a, b}) <= a /\ Edge!Min({a, b}) <= b
<1>1. \E x \in {a, b} : \A y \in {a, b} : x <= y
  <2>1. CASE a >= b
    BY <2>1
  <2>2. CASE b >= a
    BY <2>2
  <2> QED BY <2>1, <2>2
<1> QED BY <1>1 DEF Edge!Min

\* A root is a number: the one before the first whose square is above n.
LEMMA RootIsNat == ASSUME NEW n \in Nat PROVE Edge!Root(n) \in Nat
<1> DEFINE S == {r \in Nat : n < r * r}
<1>1. PICK k \in S : \A r \in S : k <= r
  <2>1. n < (n + 1) * (n + 1)
    OBVIOUS
  <2>2. n + 1 \in S /\ S \subseteq Nat
    BY <2>1
  <2> HIDE DEF S
  <2> QED BY <2>2, LeastNatural
<1>2. k \in Nat /\ k # 0 /\ n < k * k
  OBVIOUS
<1>3. k - 1 \in Nat /\ (k - 1) * (k - 1) <= n /\ n < ((k - 1) + 1) * ((k - 1) + 1)
  <2>1. k - 1 \in Nat /\ ~(k <= k - 1) /\ (k - 1) + 1 = k
    BY <1>2
  <2>2. k - 1 \notin S
    BY <1>1, <2>1
  <2>3. (k - 1) * (k - 1) \in Nat
    BY <2>1
  <2> QED BY <1>2, <2>1, <2>2, <2>3
<1>4. \A r \in Nat : r <= r * r
  OBVIOUS
<1>5. k - 1 \in 0..n
  BY <1>3, <1>4
<1>6. \E r \in 0..n : r * r <= n /\ n < (r + 1) * (r + 1)
  BY <1>3, <1>5
<1>7. Edge!Root(n) \in 0..n
  BY <1>6 DEF Edge!Root
<1> QED BY <1>7

\* Division rounds down.
LEMMA DivFacts ==
    ASSUME NEW a \in Int, NEW n \in Nat \ {0}
    PROVE  /\ a \div n \in Int
           /\ n * (a \div n) <= a /\ a < n * (a \div n) + n
OBVIOUS

\* The ends of an interval are whole numbers of its unit.
LEMMA WilsonIsInt ==
    ASSUME NEW n \in Nat \ {0}, NEW yes \in Nat, yes <= n
    PROVE  Edge!WilsonInterval(yes, n).low \in Int /\ Edge!WilsonInterval(yes, n).high \in Int
<1> DEFINE d == 100 * n + 164
           mid == (10000 * (100 * yes + 82)) \div d
           spread == (16424 * yes * (n - yes)) \div n + 6744
           half == (10000 * Edge!Root(spread)) \div d
<1>1. d \in Nat \ {0}
  OBVIOUS
<1>2. mid \in Int
  <2> HIDE DEF d
  <2> QED BY <1>1, DivFacts
<1>3. spread \in Nat
  <2>1. n - yes \in Nat
    OBVIOUS
  <2>2. 16424 * yes \in Nat
    OBVIOUS
  <2>3. (16424 * yes) * (n - yes) \in Nat
    BY <2>1, <2>2
  <2>4. \A a \in Nat : a \div n \in Nat
    OBVIOUS
  <2> QED BY <2>3, <2>4
<1>4. Edge!Root(spread) \in Nat
  <2> HIDE DEF spread
  <2> QED BY <1>3, RootIsNat
<1>5. half \in Int
  <2> HIDE DEF d, spread
  <2> QED BY <1>1, <1>4, DivFacts
<1> HIDE DEF mid, half
<1>6. Edge!Max({0, mid - half}) \in Int /\ Edge!Min({10000, mid + half}) \in Int
  <2> DEFINE least == mid - half
             most == mid + half
  <2>1. least \in Int /\ most \in Int /\ 0 \in Int /\ 10000 \in Int
    BY <1>2, <1>5
  <2> HIDE DEF least, most
  <2>2. Edge!Max({0, least}) \in {0, least}
    BY <2>1, MaxOfTwo
  <2>3. Edge!Min({10000, most}) \in {10000, most}
    BY <2>1, MinOfTwo
  <2>4. Edge!Max({0, least}) \in Int /\ Edge!Min({10000, most}) \in Int
    BY <2>1, <2>2, <2>3
  <2> QED BY <2>4 DEF least, most
<1> USE DEF mid, half
<1> QED BY <1>6 DEF Edge!WilsonInterval

\* The bucket of a prediction is the ten per cent it lies in.
LEMMA BucketFacts ==
    ASSUME NEW p \in 1..99
    PROVE  /\ Edge!BucketOf(p) \in 0..9
           /\ 10 * Edge!BucketOf(p) <= p /\ p <= 10 * Edge!BucketOf(p) + 9
<1>1. p \div 10 \in 0..9 /\ 10 * (p \div 10) <= p /\ p <= 10 * (p \div 10) + 9
  OBVIOUS
<1>2. Edge!Min({9, p \div 10}) = p \div 10
  <2> DEFINE q == p \div 10
  <2>1. q \in Int /\ 9 \in Int /\ q <= 9
    BY <1>1
  <2> HIDE DEF q
  <2>2. /\ Edge!Min({9, q}) \in {9, q} /\ Edge!Min({9, q}) <= 9 /\ Edge!Min({9, q}) <= q
    BY <2>1, MinOfTwo
  <2>3. Edge!Min({9, q}) = q
    BY <2>1, <2>2
  <2> QED BY <2>3 DEF q
<1> QED BY <1>1, <1>2 DEF Edge!BucketOf

Histories == [Chances -> [Edge!Sides -> Nat]]

\* A prediction that ended YES so often was made at least as often.
LEMMA CountsAreNat ==
    ASSUME NEW history \in Histories, NEW p \in Chances
    PROVE  /\ RowsOf[p] \in Nat /\ history[p]["YES"] \in Nat
           /\ Edge!RowCount(history, p) \in Nat
           /\ RowsOf[p] * history[p]["YES"] \in Nat
           /\ RowsOf[p] * history[p]["YES"] <= Edge!RowCount(history, p)
<1>1. RowsOf \in [Chances -> Nat]
  BY ResearchAssumption DEF Edge!EdgeAssumption
<1>2. history[p]["YES"] \in Nat /\ history[p]["NO"] \in Nat
  BY DEF Histories, Edge!Sides
<1>3. RowsOf[p] \in Nat
  BY <1>1
<1>4. Edge!RowCount(history, p) = RowsOf[p] * history[p]["YES"] + RowsOf[p] * history[p]["NO"]
  BY <1>2, <1>3, Distributes DEF Edge!RowCount
<1>5. RowsOf[p] * history[p]["YES"] \in Nat /\ RowsOf[p] * history[p]["NO"] \in Nat
  BY <1>2, <1>3, Distributes
<1> QED BY <1>2, <1>3, <1>4, <1>5

\* The mean prediction of what a bucket holds lies in the bucket.
LEMMA MeanFacts ==
    \A b \in 0..9, n \in Nat \ {0}, total \in Nat :
        (10 * b) * n <= total /\ total <= (10 * b + 9) * n
            => (100 * total) \div n \in Edge!Span(b)
<1> SUFFICES ASSUME NEW b \in 0..9, NEW n \in Nat \ {0}, NEW total \in Nat,
                    (10 * b) * n <= total, total <= (10 * b + 9) * n
             PROVE  (100 * total) \div n \in Edge!Span(b)
  OBVIOUS
<1> DEFINE q == (100 * total) \div n
<1>1. q \in Int /\ n * q <= 100 * total /\ 100 * total < n * q + n
  BY DivFacts, 100 * total \in Int
<1> HIDE DEF q
<1>2. 1000 * b < q + 1
  <2>1. (1000 * b) * n = 100 * ((10 * b) * n)
    OBVIOUS
  <2>2. (1000 * b) * n < (q + 1) * n
    BY <1>1, <2>1
  <2>3. \A x, y \in Int : x * n < y * n => x < y
    OBVIOUS
  <2> QED BY <1>1, <2>2, <2>3
<1>3. q <= 1000 * b + 900
  <2>1. (1000 * b + 900) * n = 100 * ((10 * b + 9) * n)
    OBVIOUS
  <2>2. q * n <= (1000 * b + 900) * n
    BY <1>1, <2>1
  <2>3. \A x, y \in Int : x * n <= y * n => x <= y
    OBVIOUS
  <2> QED BY <1>1, <2>2, <2>3
<1> QED BY <1>1, <1>2, <1>3 DEF q, Edge!Span

\* Whatever has been settled, the buckets built from it have their mean inside:
\* the sums over the predictions of a bucket lie between its ends times its rows.
LEMMA BucketsBuilt ==
    \A history \in Histories : Edge!MeansInBuckets(Edge!BuildCalibrationBuckets(history))
<1> SUFFICES ASSUME NEW history \in Histories
             PROVE  Edge!MeansInBuckets(Edge!BuildCalibrationBuckets(history))
  OBVIOUS
<1> DEFINE bs == Edge!BuildCalibrationBuckets(history)
<1>1. SUFFICES ASSUME NEW b \in 0..9, Edge!Seen(history, b) # {}
               PROVE  /\ {bs[b].n, bs[b].low, bs[b].high} \subseteq Int
                      /\ bs[b].pred \in Edge!Span(b)
  <2>1. DOMAIN bs = {c \in 0..9 : Edge!Seen(history, c) # {}}
    BY DEF Edge!BuildCalibrationBuckets
  <2> SUFFICES Edge!MeansInBuckets(bs)
    OBVIOUS
  <2> HIDE DEF bs
  <2> QED BY <2>1 DEF Edge!MeansInBuckets
<1> DEFINE seen == Edge!Seen(history, b)
           f == [p \in seen |-> Edge!RowCount(history, p)]
           y == [p \in seen |-> RowsOf[p] * history[p]["YES"]]
           g == [p \in seen |-> p * Edge!RowCount(history, p)]
           n == FoldFunction(+, 0, f)
           yes == FoldFunction(+, 0, y)
           total == FoldFunction(+, 0, g)
           wilson == Edge!WilsonInterval(yes, n)
<1>2. bs[b] = [n |-> n, low |-> wilson.low, high |-> wilson.high,
               pred |-> (100 * total) \div n]
  <2>1. bs[b] = [n |-> Edge!TotalOf(f),
                 low |-> Edge!WilsonInterval(Edge!TotalOf(y), Edge!TotalOf(f)).low,
                 high |-> Edge!WilsonInterval(Edge!TotalOf(y), Edge!TotalOf(f)).high,
                 pred |-> (100 * Edge!TotalOf(g)) \div Edge!TotalOf(f)]
    BY <1>1 DEF Edge!BuildCalibrationBuckets
  <2>2. Edge!TotalOf(f) = n /\ Edge!TotalOf(y) = yes /\ Edge!TotalOf(g) = total
    <3> HIDE DEF f, y, g
    <3> QED BY EdgeTotals
  <2> HIDE DEF f, y, g, n, yes, total, bs
  <2> QED BY <2>1, <2>2
<1>3. /\ seen \subseteq Chances /\ IsFiniteSet(seen)
      /\ \A p \in seen : Edge!BucketOf(p) = b /\ Edge!RowCount(history, p) > 0
  <2>1. seen \in SUBSET Chances
    BY DEF Edge!Seen
  <2>2. IsFiniteSet(seen)
    <3> HIDE DEF seen
    <3> QED BY <2>1, EdgeConstants, FS_Subset
  <2> QED BY <2>1, <2>2 DEF Edge!Seen
<1>4. /\ 10 * b \in Nat /\ 10 * b + 9 \in Nat
      /\ \A p \in seen : /\ p \in Nat /\ 10 * b <= p /\ p <= 10 * b + 9
                         /\ Edge!RowCount(history, p) \in Nat
                         /\ RowsOf[p] * history[p]["YES"] \in Nat
                         /\ RowsOf[p] * history[p]["YES"] <= Edge!RowCount(history, p)
  <2> HIDE DEF seen
  <2>1. ASSUME NEW p \in seen
        PROVE  p \in Nat /\ 10 * b <= p /\ p <= 10 * b + 9
    <3>1. p \in 1..99 /\ Edge!BucketOf(p) = b
      BY <1>3, EdgeConstants
    <3> QED BY <3>1, BucketFacts
  <2>2. ASSUME NEW p \in seen
        PROVE  /\ Edge!RowCount(history, p) \in Nat
               /\ RowsOf[p] * history[p]["YES"] \in Nat
               /\ RowsOf[p] * history[p]["YES"] <= Edge!RowCount(history, p)
    BY <1>3, CountsAreNat
  <2> QED BY <1>1, <2>1, <2>2
<1> HIDE DEF seen
<1>5. /\ f \in [seen -> Nat] /\ y \in [seen -> Nat] /\ g \in [seen -> Nat]
      /\ \A p \in seen : /\ 0 * f[p] <= y[p] /\ y[p] <= 1 * f[p] /\ f[p] > 0
                         /\ (10 * b) * f[p] <= g[p] /\ g[p] <= (10 * b + 9) * f[p]
  <2>1. \A k, m \in Nat : k * m \in Nat
    OBVIOUS
  <2>2. \A k, l, m \in Nat : k <= l => k * m <= l * m
    OBVIOUS
  <2>3. /\ f \in [seen -> Nat] /\ y \in [seen -> Nat] /\ g \in [seen -> Nat]
    BY <1>4, <2>1
  <2>4. ASSUME NEW p \in seen
        PROVE  /\ 0 * f[p] <= y[p] /\ y[p] <= 1 * f[p] /\ f[p] > 0
               /\ (10 * b) * f[p] <= g[p] /\ g[p] <= (10 * b + 9) * f[p]
    <3>1. f[p] \in Nat /\ y[p] \in Nat /\ y[p] <= f[p] /\ f[p] > 0 /\ g[p] = p * f[p]
      BY <1>3, <1>4
    <3> HIDE DEF f, y, g
    <3>2. (10 * b) * f[p] <= p * f[p] /\ p * f[p] <= (10 * b + 9) * f[p]
      BY <1>4, <2>2, <3>1
    <3> QED BY <3>1, <3>2
  <2> QED BY <2>3, <2>4
<1> HIDE DEF f, y, g
<1>6. /\ n \in Nat /\ total \in Nat
      /\ (10 * b) * n <= total /\ total <= (10 * b + 9) * n
  BY <1>3, <1>4, <1>5, SumBetween
<1>7. yes \in Nat /\ yes <= 1 * n
  BY <1>3, <1>5, SumBetween, 0 \in Nat, 1 \in Nat
<1>8. PICK p \in seen : f[p] <= n
  BY <1>1, <1>3, <1>5, SumAtLeast DEF seen
<1> HIDE DEF n, yes, total
<1>9. n \in Nat \ {0} /\ yes <= n
  BY <1>5, <1>6, <1>7, <1>8
<1>10. wilson.low \in Int /\ wilson.high \in Int
  BY <1>7, <1>9, WilsonIsInt
<1>11. (100 * total) \div n \in Edge!Span(b)
  BY <1>6, <1>9, MeanFacts
<1> HIDE DEF wilson, bs
<1> QED BY <1>2, <1>9, <1>10, <1>11

\* The fee of a contract is at least a cent.
LEMMA EdgeFee ==
    ASSUME NEW price \in Int
    PROVE  /\ Edge!TakerFee(price, 1) \in Nat
           /\ price \in 1..99 => Edge!TakerFee(price, 1) >= 1
<1>1. CASE price \in 1..99
  <2>1. FeeRate \in Nat \ {0}
    BY EdgeConstants
  <2>2. \A a, b \in Nat \ {0} : a * b \in Nat \ {0}
    OBVIOUS
  <2>3. FeeRate * 1 * price * (100 - price) \in Nat \ {0}
    <3>1. FeeRate * 1 \in Nat \ {0} /\ price \in Nat \ {0} /\ 100 - price \in Nat \ {0}
      BY <1>1, <2>1
    <3>2. FeeRate * 1 * price \in Nat \ {0}
      BY <2>2, <3>1
    <3> QED BY <2>2, <3>1, <3>2
  <2>4. \A a \in Nat \ {0} : (a + 9999) \div 10000 \in Nat \ {0}
    OBVIOUS
  <2>5. Edge!TakerFee(price, 1) \in Nat \ {0}
    BY <1>1, <2>3, <2>4 DEF Edge!TakerFee
  <2> QED BY <2>5
<1>2. CASE price \notin 1..99
  BY <1>2 DEF Edge!TakerFee
<1> QED BY <1>1, <1>2

\* The fixed margins and the distance to the market outweigh how far the
\* prediction lies from the mean of its bucket.
LEMMA MarginsSuffice ==
    ASSUME NEW h \in Int, NEW ask \in Nat \ {0}, NEW fee \in Nat \ {0},
           NEW implied \in Int, implied <= 100 * ask,
           NEW model \in Int, 2 * model + 1 >= 100 * h - implied,
           NEW cons \in {0, 100 * h - model}, NEW cal \in Nat, NEW buffers \in Nat,
           NEW profit \in Nat, NEW final \in Nat, profit + final >= 4,
           cons - 100 * ask - 100 * fee - cal - buffers - 100 * profit >= 100 * final,
           NEW k \in Int, NEW mean \in Int, 100 * k <= mean, h <= k + 9,
           NEW worst \in Int, worst >= mean - cal
    PROVE  worst >= 100 * (ask + fee)
<1>1. cons = 100 * h - model
  OBVIOUS
<1>2. 100 * h - model >= 100 * (ask + fee) + cal + 400
  BY <1>1
<1>3. 2 * model + 1 >= 100 * h - 100 * ask /\ 100 * h - 100 * ask >= model + 100 * fee + cal + 400
  BY <1>2
<1>4. model >= 499 + cal
  BY <1>3
<1>5. 100 * (ask + fee) <= 100 * h - 899 - 2 * cal
  BY <1>2, <1>4
<1>6. 100 * (ask + fee) <= 100 * k + 1 - 2 * cal
  BY <1>5
<1>7. CASE cal = 0
  <2>1. ask + fee <= k
    BY <1>6, <1>7
  <2> QED BY <2>1, <1>7
<1>8. CASE cal >= 1
  BY <1>6, <1>8
<1> QED BY <1>7, <1>8

\* What a candidate has passed.
LEMMA CandidatePassed ==
    ASSUME NEW row, NEW bs, NEW noise,
           Edge!GateRow(row, bs, noise).state = "PAPER_CANDIDATE"
    PROVE  LET side == Edge!GateRow(row, bs, noise).side
           IN  /\ side \in Edge!Sides /\ row.bookOk /\ row.calibrated # Edge!None
               /\ \A s \in Edge!Sides : Edge!Ask(row.bid, s) # Edge!None
               /\ ~Edge!PolicyInput(row).underlyingOld /\ Edge!PaperCandidateFresh(row)
               /\ Edge!SideBreakdown(row, side, bs, Edge!Limits).tradeable
<1> DEFINE input == Edge!PolicyInput(row)
           policy == Edge!EvaluatePolicy(Edge!Promoted, input, noise)
           edge == Edge!EvaluateEdge(row, bs, Edge!Limits)
           gate == Edge!GateRow(row, bs, noise)
<1>1. /\ gate = policy /\ policy.state = "PAPER_CANDIDATE"
      /\ Edge!PaperCandidateFresh(row) /\ edge.ok /\ edge.side = policy.side
  <2> HIDE DEF policy, edge
  <2> QED BY DEF Edge!GateRow, Edge!Verdict, policy, edge
<1>2. policy.side \in Edge!Sides /\ ~Edge!RowRejected(input)
  <2> HIDE DEF input
  <2> DEFINE chance == Edge!PolicyChance(Edge!Promoted, input)
             eligible == {side \in Edge!Sides : Edge!Eligible(input, side, chance, noise)}
             one == CHOOSE s \in eligible : TRUE
  <2>1. eligible # {} => one \in Edge!Sides
    OBVIOUS
  <2>2. /\ ~Edge!RowRejected(input) /\ eligible # {}
        /\ policy = Edge!Verdict("PAPER_CANDIDATE", one)
    <3>1. policy = Edge!EvaluatePolicy(Edge!Promoted, input, noise) /\ policy.state = "PAPER_CANDIDATE"
      BY <1>1
    <3> HIDE DEF chance, policy
    <3> QED BY <3>1 DEF Edge!EvaluatePolicy, Edge!Verdict, chance
  <2> QED BY <2>1, <2>2 DEF Edge!Verdict
<1>3. /\ row.bookOk /\ ~input.underlyingOld
      /\ \A s \in Edge!Sides : Edge!Ask(row.bid, s) # Edge!None
  BY <1>2 DEF Edge!RowRejected, Edge!PolicyInput
<1>4. /\ row.calibrated # Edge!None
      /\ Edge!SideBreakdown(row, edge.side, bs, Edge!Limits).tradeable
  <2>1. {side \in Edge!Sides : Edge!Ask(row.bid, side) # Edge!None} = Edge!Sides
    BY <1>3
  <2>2. edge.ok
    BY <1>1
  <2> QED BY <2>1, <2>2 DEF Edge!EvaluateEdge, Edge!Sides
<1> HIDE DEF input, policy, edge, gate
<1>5. gate.side \in Edge!Sides /\ gate.side = edge.side
  BY <1>1, <1>2
<1> QED BY <1>1, <1>3, <1>4, <1>5 DEF input, gate

\* The two looks at the feeds together: none that is known is too old.
LEMMA CandidateIsFresh ==
    ASSUME NEW row, Edge!SoundRow(row), Edge!PaperCandidateFresh(row),
           ~Edge!PolicyInput(row).underlyingOld
    PROVE  LET ages == {row.spotAge, row.perpAge}
           IN  ages # {Edge!None} /\ \A age \in ages : ~Edge!FeedStale(age)
<1> DEFINE spot == row.spotAge
           perp == row.perpAge
           known == {spot, perp} \ {Edge!None}
<1>1. /\ spot \in Nat \cup {Edge!None} /\ perp \in Nat \cup {Edge!None} /\ Edge!None \notin Nat
      /\ MaxUnderlying \in Nat /\ FeedMaxAge \in Nat /\ MaxUnderlying <= FeedMaxAge
  BY EdgeConstants DEF Edge!SoundRow, Edge!None
<1>2. spot # Edge!None \/ perp # Edge!None
  BY DEF Edge!PaperCandidateFresh, Edge!UnderlyingStale, Edge!Stale
<1>3. \A age \in known : age <= Edge!Max(known)
  <2>1. CASE spot = Edge!None
    <3>1. known = {perp, perp} /\ perp \in Int
      BY <1>1, <1>2, <2>1
    <3> HIDE DEF known, perp
    <3> QED BY <3>1, MaxOfTwo
  <2>2. CASE perp = Edge!None
    <3>1. known = {spot, spot} /\ spot \in Int
      BY <1>1, <1>2, <2>2
    <3> HIDE DEF known, spot
    <3> QED BY <3>1, MaxOfTwo
  <2>3. CASE spot # Edge!None /\ perp # Edge!None
    <3>1. known = {spot, perp} /\ spot \in Int /\ perp \in Int
      BY <1>1, <2>3
    <3> HIDE DEF known, spot, perp
    <3> QED BY <3>1, MaxOfTwo
  <2> QED BY <2>1, <2>2, <2>3
<1>4. Edge!Max(known) <= MaxUnderlying /\ Edge!Max(known) \in known
  <2>1. known # {} /\ Edge!UnderlyingAge(row) = Edge!Max(known)
    BY <1>2 DEF Edge!UnderlyingAge
  <2>2. Edge!Max(known) \in known
    <3>1. CASE spot = Edge!None
      <4>1. known = {perp, perp} /\ perp \in Int
        BY <1>1, <1>2, <3>1
      <4> HIDE DEF known, perp
      <4> QED BY <4>1, MaxOfTwo
    <3>2. CASE perp = Edge!None
      <4>1. known = {spot, spot} /\ spot \in Int
        BY <1>1, <1>2, <3>2
      <4> HIDE DEF known, spot
      <4> QED BY <4>1, MaxOfTwo
    <3>3. CASE spot # Edge!None /\ perp # Edge!None
      <4>1. known = {spot, perp} /\ spot \in Int /\ perp \in Int
        BY <1>1, <3>3
      <4> HIDE DEF known, spot, perp
      <4> QED BY <4>1, MaxOfTwo
    <3> QED BY <3>1, <3>2, <3>3
  <2>3. ~(Edge!Max(known) # Edge!None /\ Edge!Max(known) > MaxUnderlying)
    BY <2>1 DEF Edge!PolicyInput
  <2> HIDE DEF known
  <2>4. Edge!Max(known) # Edge!None /\ Edge!Max(known) \in Nat
    BY <1>1, <2>2 DEF known
  <2> QED BY <1>1, <2>2, <2>3, <2>4
<1>5. ASSUME NEW age \in {spot, perp} PROVE ~Edge!FeedStale(age)
  <2>1. CASE age = Edge!None
    BY <2>1 DEF Edge!FeedStale
  <2>2. CASE age # Edge!None
    <3>1. age \in known /\ age \in Nat
      BY <1>1, <2>2
    <3>2. age <= Edge!Max(known) /\ Edge!Max(known) <= MaxUnderlying /\ Edge!Max(known) \in Nat
      <4>1. known \subseteq Nat
        BY <1>1
      <4> HIDE DEF known
      <4> QED BY <1>3, <1>4, <3>1, <4>1
    <3> HIDE DEF known
    <3>3. age <= FeedMaxAge
      BY <1>1, <3>1, <3>2
    <3> QED BY <1>1, <3>1, <3>3 DEF Edge!FeedStale
  <2> QED BY <2>1, <2>2
<1> QED BY <1>2, <1>5

\* What the market thinks of a side is not above its ask, when the book is not
\* crossed.
LEMMA ImpliedFacts ==
    ASSUME NEW yes \in 1..99, NEW no \in 1..99, yes + no >= 100
    PROVE  LET implied == (10000 * yes) \div (yes + no)
           IN  /\ implied \in Int /\ implied <= 100 * yes /\ 10000 - implied <= 100 * no
<1> DEFINE d == yes + no
           implied == (10000 * yes) \div d
<1>1. d \in Nat \ {0} /\ 10000 * yes \in Int /\ d >= 100
  OBVIOUS
<1>2. implied \in Int /\ d * implied <= 10000 * yes /\ 10000 * yes < d * implied + d
  <2> HIDE DEF d
  <2> QED BY <1>1, DivFacts
<1> HIDE DEF implied
<1>3. \A x, y \in Int : d * x < d * y => x < y
  BY <1>1
<1>4. \A x \in Nat : 100 * x <= d * x
  BY <1>1
<1>5. implied <= 100 * yes
  <2>1. 100 * (100 * yes) <= d * (100 * yes)
    BY <1>4, 100 * yes \in Nat
  <2>2. d * implied <= d * (100 * yes)
    BY <1>2, <2>1
  <2>3. d * implied < d * (100 * yes) + d
    BY <1>1, <1>2, <2>2
  <2>4. d * (100 * yes) + d = d * (100 * yes + 1)
    BY <1>1
  <2>5. implied < 100 * yes + 1
    BY <1>2, <1>3, <2>3, <2>4
  <2> QED BY <1>2, <2>5
<1>6. 10000 - implied <= 100 * no
  <2>1. 100 * (100 * no) <= d * (100 * no)
    BY <1>4, 100 * no \in Nat
  <2>2. d * (10000 - implied) = 10000 * yes + 10000 * no - d * implied
    BY <1>2
  <2>3. d * (10000 - implied) < d * (100 * no) + d
    BY <1>1, <1>2, <2>1, <2>2
  <2>4. d * (100 * no) + d = d * (100 * no + 1)
    BY <1>1
  <2>5. 10000 - implied < 100 * no + 1
    BY <1>2, <1>3, <2>3, <2>4
  <2> QED BY <1>2, <2>5
<1> QED BY <1>2, <1>5, <1>6 DEF implied

\* Buffers only lower an edge.
LEMMA BuffersAreNat ==
    ASSUME NEW row, NEW side, NEW limits, limits.regime \in Nat
    PROVE  Edge!Buffers(row, side, limits) \in Nat
<1> DEFINE a == IF row.highVol THEN 100 * limits.regime ELSE 0
           b == IF Edge!Thin(row, side) THEN 100 * ThinBuffer ELSE 0
           c == IF row.bookAge # Edge!None /\ 2 * row.bookAge > MaxBookAge
                THEN 100 * StaleBuffer ELSE 0
           d == IF Edge!FeedStale(row.spotAge) \/ Edge!FeedStale(row.perpAge)
                THEN 100 * SourceBuffer ELSE 0
<1>1. a \in Nat /\ b \in Nat /\ c \in Nat /\ d \in Nat
  BY EdgeConstants
<1>2. Edge!Buffers(row, side, limits) = a + b + c + d
  BY DEF Edge!Buffers
<1> HIDE DEF a, b, c, d
<1> QED BY <1>1, <1>2

\* The two asks of a good book are prices and make up a dollar at least.
LEMMA AsksOfGoodBook ==
    ASSUME NEW row, Edge!SoundRow(row), row.bookOk
    PROVE  /\ Edge!Ask(row.bid, "YES") \in 1..99 /\ Edge!Ask(row.bid, "NO") \in 1..99
           /\ Edge!Ask(row.bid, "YES") + Edge!Ask(row.bid, "NO") >= 100
           /\ Edge!BothAsks(row)
<1>1. /\ row.bid["YES"] \in 1..99 /\ row.bid["NO"] \in 1..99
      /\ row.bid["YES"] + row.bid["NO"] <= 100
  BY DEF Edge!SoundRow, Edge!Sides
<1>2. Edge!Ask(row.bid, "YES") = 100 - row.bid["NO"] /\ Edge!Ask(row.bid, "NO") = 100 - row.bid["YES"]
  BY <1>1 DEF Edge!Ask, Edge!Other, Edge!None
<1>3. /\ Edge!Ask(row.bid, "YES") \in 1..99 /\ Edge!Ask(row.bid, "NO") \in 1..99
      /\ Edge!Ask(row.bid, "YES") + Edge!Ask(row.bid, "NO") >= 100
  <2> DEFINE p == row.bid["YES"]
             q == row.bid["NO"]
  <2>1. p \in 1..99 /\ q \in 1..99 /\ p + q <= 100
    BY <1>1
  <2>2. Edge!Ask(row.bid, "YES") = 100 - q /\ Edge!Ask(row.bid, "NO") = 100 - p
    BY <1>2
  <2> HIDE DEF p, q
  <2>3. 100 - p \in 1..99 /\ 100 - q \in 1..99 /\ (100 - q) + (100 - p) >= 100
    BY <2>1
  <2> QED BY <2>2, <2>3
<1>4. \A side \in Edge!Sides : Edge!Ask(row.bid, side) # Edge!None
  BY <1>3 DEF Edge!Sides, Edge!None
<1> QED BY <1>3, <1>4 DEF Edge!BothAsks

\* A side that the edge gate lets pass would not lose at the pessimistic end.
LEMMA CandidatePays ==
    ASSUME NEW row, Edge!SoundRow(row), row.bookOk, row.calibrated # Edge!None,
           NEW bs, Edge!MeansInBuckets(bs), DOMAIN bs # {}, NEW side \in Edge!Sides,
           Edge!SideBreakdown(row, side, bs, Edge!Limits).tradeable
    PROVE  LET bucket == bs[Edge!BucketOf(row.calibrated)]
               worst == IF side = "YES" THEN bucket.low ELSE 10000 - bucket.high
               ask == Edge!Ask(row.bid, side)
           IN  worst >= 100 * (ask + Edge!TakerFee(ask, 1))
<1> DEFINE c == row.calibrated
           b == Edge!BucketOf(c)
           bucket == bs[b]
           yes == Edge!Ask(row.bid, "YES")
           no == Edge!Ask(row.bid, "NO")
           implied == (10000 * yes) \div (yes + no)
           model == Edge!Disagreement(row)
           cal == Edge!CalibrationBuffer(bucket, side)
           buffers == Edge!Buffers(row, side, Edge!Limits)
           ask == Edge!Ask(row.bid, side)
           fee == Edge!TakerFee(ask, 1)
           h == IF side = "YES" THEN c ELSE 100 - c
           cons == Edge!Max({0, 100 * h - model})
<1>1. c \in 1..99
  BY EdgeConstants DEF Edge!SoundRow
<1>2. b \in 0..9 /\ 10 * b <= c /\ c <= 10 * b + 9
  <2> HIDE DEF c
  <2> QED BY <1>1, BucketFacts
<1>3. /\ yes \in 1..99 /\ no \in 1..99 /\ yes + no >= 100 /\ Edge!BothAsks(row)
  BY AsksOfGoodBook
<1>4. implied \in Int /\ implied <= 100 * yes /\ 10000 - implied <= 100 * no
  <2> HIDE DEF yes, no
  <2> QED BY <1>3, ImpliedFacts
<1>5. ask \in 1..99 /\ ask = IF side = "YES" THEN yes ELSE no
  BY <1>3 DEF Edge!Sides
<1>6. fee \in Nat \ {0}
  <2> HIDE DEF ask
  <2> QED BY <1>5, EdgeFee
<1>7. buffers \in Nat
  BY BuffersAreNat, EdgeConstants DEF Edge!Limits
<1>8. Edge!Calibrated(bs, c, Edge!Limits) /\ b \in DOMAIN bs
  BY DEF Edge!SideBreakdown, Edge!Calibrated
<1>9. bucket.low \in Int /\ bucket.high \in Int /\ bucket.pred \in 1000 * b .. 1000 * b + 900
  BY <1>8 DEF Edge!MeansInBuckets, Edge!Span
<1>10. /\ cal \in Nat
       /\ side = "YES" => cal >= bucket.pred - bucket.low
       /\ side # "YES" => cal >= bucket.high - bucket.pred
  <2> DEFINE lower == bucket.pred - bucket.low
             higher == bucket.high - bucket.pred
  <2>1. lower \in Int /\ higher \in Int /\ 0 \in Int
    BY <1>9
  <2>2. cal = IF side = "YES" THEN Edge!Max({0, lower}) ELSE Edge!Max({0, higher})
    BY DEF Edge!CalibrationBuffer
  <2> HIDE DEF lower, higher, cal
  <2>3. /\ Edge!Max({0, lower}) \in {0, lower} /\ 0 <= Edge!Max({0, lower})
        /\ lower <= Edge!Max({0, lower})
    BY <2>1, MaxOfTwo
  <2>4. /\ Edge!Max({0, higher}) \in {0, higher} /\ 0 <= Edge!Max({0, higher})
        /\ higher <= Edge!Max({0, higher})
    BY <2>1, MaxOfTwo
  <2>5. cal \in Nat /\ (side = "YES" => cal >= lower) /\ (side # "YES" => cal >= higher)
    BY <2>1, <2>2, <2>3, <2>4
  <2> QED BY <2>5 DEF lower, higher
<1>11. /\ model \in Int
       /\ 2 * model + 1 >= 100 * c - implied /\ 2 * model + 1 >= implied - 100 * c
  <2> DEFINE x == 100 * c - implied
  <2>1. model = Edge!Abs(x) \div 2
    BY DEF Edge!Disagreement
  <2>2. x \in Int
    BY <1>1, <1>4
  <2> HIDE DEF x, model
  <2>3. Edge!Abs(x) \in Int /\ Edge!Abs(x) >= x /\ Edge!Abs(x) >= -x
    BY <2>2 DEF Edge!Abs
  <2>4. model \in Int /\ 2 * model + 1 >= x /\ 2 * model + 1 >= -x
    BY <2>1, <2>2, <2>3
  <2>5. x \in Int /\ -x = implied - 100 * c
    BY <1>1, <1>4 DEF x
  <2> QED BY <2>4, <2>5 DEF x
<1>12. cons \in {0, 100 * h - model}
  <2> DEFINE y == 100 * h - model
  <2>1. y \in Int /\ 0 \in Int
    BY <1>1, <1>11
  <2> HIDE DEF y
  <2>2. Edge!Max({0, y}) \in {0, y}
    BY <2>1, MaxOfTwo
  <2> QED BY <2>2 DEF y
<1>13. cons - 100 * ask - 100 * fee - cal - buffers - 100 * MinProfit >= 100 * MinFinal
  <2>1. Edge!ModelBuffer(row) = model
    BY <1>3 DEF Edge!ModelBuffer
  <2>2. 100 * h = 100 * (IF side = "YES" THEN row.calibrated ELSE 100 - row.calibrated)
    OBVIOUS
  <2> HIDE DEF cal, buffers, fee, ask, model, h, bucket, b
  <2>3. Edge!SideBreakdown(row, side, bs, Edge!Limits).final
           = Edge!Max({0, 100 * h - model}) - 100 * ask - 100 * fee - cal - buffers - 100 * MinProfit
    BY <1>8, <2>1, <2>2 DEF Edge!SideBreakdown, ask, fee, cal, buffers, bucket, b
  <2>4. Edge!SideBreakdown(row, side, bs, Edge!Limits).final >= 100 * MinFinal
    BY DEF Edge!SideBreakdown
  <2> QED BY <2>3, <2>4
<1>14. MinFinal \in Nat /\ MinProfit \in Nat /\ MinProfit + MinFinal >= 4
  BY EdgeConstants
<1> HIDE DEF c, b, bucket, yes, no, implied, model, cal, buffers, ask, fee, cons
<1>15. CASE side = "YES"
  <2>1. /\ h \in Int /\ h = c /\ ask = yes /\ 10 * b \in Int /\ bucket.pred \in Int
        /\ implied <= 100 * ask /\ 2 * model + 1 >= 100 * h - implied
        /\ 100 * (10 * b) <= bucket.pred /\ h <= 10 * b + 9
        /\ bucket.low >= bucket.pred - cal
    BY <1>1, <1>2, <1>4, <1>5, <1>9, <1>10, <1>11, <1>15
  <2> HIDE DEF h
  <2>2. bucket.low >= 100 * (ask + fee)
    BY <1>4, <1>5, <1>6, <1>7, <1>9, <1>10, <1>11, <1>12, <1>13, <1>14, <2>1, MarginsSuffice
  <2> QED BY <1>15, <2>2 DEF bucket, b, c, ask, fee
<1>16. CASE side = "NO"
  <2> DEFINE other == 10000 - implied
             mean == 10000 - bucket.pred
             k == 91 - 10 * b
             worst == 10000 - bucket.high
  <2>1. /\ h \in Int /\ h = 100 - c /\ ask = no /\ other \in Int /\ k \in Int /\ mean \in Int
        /\ worst \in Int
        /\ other <= 100 * ask /\ 2 * model + 1 >= 100 * h - other
        /\ 100 * k <= mean /\ h <= k + 9 /\ worst >= mean - cal
    BY <1>1, <1>2, <1>4, <1>5, <1>9, <1>10, <1>11, <1>16
  <2> HIDE DEF h, other, mean, k, worst
  <2>2. worst >= 100 * (ask + fee)
    BY <1>5, <1>6, <1>7, <1>10, <1>11, <1>12, <1>13, <1>14, <2>1, MarginsSuffice
  <2> QED BY <1>16, <2>2 DEF bucket, b, c, ask, fee, worst
<1> QED BY <1>15, <1>16 DEF Edge!Sides

\* The edge of a side before the buffers that depend on the row's state.
EdgeBefore(row, side, bs, calibrated) ==
    LET ask == Edge!Ask(row.bid, side)
        hat == 100 * (IF side = "YES" THEN row.calibrated ELSE 100 - row.calibrated)
        calibration == IF calibrated
                       THEN Edge!CalibrationBuffer(bs[Edge!BucketOf(row.calibrated)], side)
                       ELSE 0
    IN  Edge!Max({0, hat - Edge!ModelBuffer(row)}) - 100 * ask
            - 100 * Edge!TakerFee(ask, 1) - calibration

LEMMA EdgeBeforeIsInt ==
    ASSUME NEW row, Edge!SoundRow(row), row.calibrated # Edge!None,
           NEW bs, Edge!MeansInBuckets(bs), NEW side \in Edge!Sides, NEW calibrated \in BOOLEAN,
           calibrated => Edge!BucketOf(row.calibrated) \in DOMAIN bs
    PROVE  EdgeBefore(row, side, bs, calibrated) \in Int
<1> DEFINE c == row.calibrated
           bucket == bs[Edge!BucketOf(c)]
           ask == Edge!Ask(row.bid, side)
           fee == Edge!TakerFee(ask, 1)
           hat == 100 * (IF side = "YES" THEN c ELSE 100 - c)
           model == Edge!ModelBuffer(row)
           calibration == IF calibrated THEN Edge!CalibrationBuffer(bucket, side) ELSE 0
           cons == Edge!Max({0, hat - model})
<1>1. c \in 1..99 /\ hat \in Int
  <2>1. c \in 1..99
    BY EdgeConstants DEF Edge!SoundRow
  <2> HIDE DEF c
  <2> QED BY <2>1
<1>2. \A s \in Edge!Sides : /\ Edge!Ask(row.bid, s) \in Int
                            /\ Edge!Ask(row.bid, s) # Edge!None => Edge!Ask(row.bid, s) \in 1..99
  <2> SUFFICES ASSUME NEW s \in Edge!Sides
               PROVE  /\ Edge!Ask(row.bid, s) \in Int
                      /\ Edge!Ask(row.bid, s) # Edge!None => Edge!Ask(row.bid, s) \in 1..99
    OBVIOUS
  <2>1. row.bid[Edge!Other(s)] \in 1..99 \cup {Edge!None}
    BY DEF Edge!SoundRow, Edge!Sides, Edge!Other
  <2>2. Edge!Ask(row.bid, s) = IF row.bid[Edge!Other(s)] = Edge!None THEN Edge!None
                                 ELSE 100 - row.bid[Edge!Other(s)]
    BY DEF Edge!Ask
  <2> QED BY <2>1, <2>2 DEF Edge!None
<1>3. ask \in Int
  BY <1>2
<1>4. fee \in Int
  <2> HIDE DEF ask
  <2> QED BY <1>3, EdgeFee
<1>5. model \in Int
  <2>1. CASE Edge!BothAsks(row)
    <3> DEFINE yes == Edge!Ask(row.bid, "YES")
               no == Edge!Ask(row.bid, "NO")
               implied == (10000 * yes) \div (yes + no)
               x == 100 * c - implied
    <3>1. yes \in 1..99 /\ no \in 1..99
      BY <1>2, <2>1 DEF Edge!BothAsks, Edge!Sides
    <3>2. implied \in Int
      <4>1. 10000 * yes \in Int /\ yes + no \in Nat \ {0}
        BY <3>1
      <4> HIDE DEF yes, no
      <4> QED BY <4>1, DivFacts
    <3>3. x \in Int
      BY <1>1, <3>2
    <3>4. model = Edge!Abs(x) \div 2
      BY <2>1 DEF Edge!ModelBuffer, Edge!Disagreement
    <3> HIDE DEF x, model
    <3>5. Edge!Abs(x) \in Int
      BY <3>3 DEF Edge!Abs
    <3> QED BY <3>4, <3>5
  <2>2. CASE ~Edge!BothAsks(row)
    BY <2>2, EdgeConstants DEF Edge!ModelBuffer
  <2> QED BY <2>1, <2>2
<1>6. cons \in Int
  <2> DEFINE y == hat - model
  <2>1. y \in Int /\ 0 \in Int
    BY <1>1, <1>5
  <2> HIDE DEF y
  <2>2. Edge!Max({0, y}) \in Int
    BY <2>1, MaxOfTwo
  <2> QED BY <2>2 DEF y
<1>7. calibration \in Int
  <2>1. CASE calibrated
    <3> DEFINE lower == bucket.pred - bucket.low
               higher == bucket.high - bucket.pred
    <3>1. bucket.low \in Int /\ bucket.high \in Int /\ bucket.pred \in Int
      BY <2>1 DEF Edge!MeansInBuckets, Edge!Span
    <3>2. lower \in Int /\ higher \in Int /\ 0 \in Int
      BY <3>1
    <3>3. calibration = IF side = "YES" THEN Edge!Max({0, lower}) ELSE Edge!Max({0, higher})
      BY <2>1 DEF Edge!CalibrationBuffer
    <3> HIDE DEF lower, higher, calibration
    <3>4. Edge!Max({0, lower}) \in Int
      BY <3>2, MaxOfTwo
    <3>5. Edge!Max({0, higher}) \in Int
      BY <3>2, MaxOfTwo
    <3> QED BY <3>3, <3>4, <3>5
  <2>2. CASE ~calibrated
    BY <2>2
  <2> QED BY <2>1, <2>2
<1>8. EdgeBefore(row, side, bs, calibrated) = cons - 100 * ask - 100 * fee - calibration
  BY DEF EdgeBefore
<1> HIDE DEF cons, ask, fee, calibration
<1> QED BY <1>3, <1>4, <1>6, <1>7, <1>8

\* A stricter limit tightens one of the four and leaves the others.
LEMMA StricterLimits ==
    ASSUME NEW axis \in {"minRaw", "rows", "width", "regime"}, NEW v \in Nat, NEW w \in Nat,
           Edge!Stricter(axis, v, w)
    PROVE  LET lv == [Edge!Limits EXCEPT ![axis] = v]
               lw == [Edge!Limits EXCEPT ![axis] = w]
           IN  /\ {lv.minRaw, lv.rows, lv.width, lv.regime} \subseteq Nat
               /\ {lw.minRaw, lw.rows, lw.width, lw.regime} \subseteq Nat
               /\ lv.minRaw <= lw.minRaw /\ lv.rows <= lw.rows
               /\ lw.width <= lv.width /\ lv.regime <= lw.regime
BY EdgeConstants DEF Edge!Stricter, Edge!Limits

\* Between two limits the edges of both sides move by the same amount, as long as
\* the prediction counts as calibrated under both or under neither.
LEMMA StricterSide ==
    ASSUME NEW row, Edge!SoundRow(row), row.calibrated # Edge!None,
           NEW bs, Edge!MeansInBuckets(bs), NEW lv, NEW lw,
           lv.minRaw \in Nat, lw.minRaw \in Nat, lv.regime \in Nat, lw.regime \in Nat,
           lv.minRaw <= lw.minRaw, lv.regime <= lw.regime,
           Edge!Calibrated(bs, row.calibrated, lv) <=> Edge!Calibrated(bs, row.calibrated, lw)
    PROVE  \E delta \in Nat : \A side \in Edge!Sides :
              LET v == Edge!SideBreakdown(row, side, bs, lv)
                  w == Edge!SideBreakdown(row, side, bs, lw)
              IN  /\ v.final \in Int /\ w.final \in Int /\ v.final = w.final + delta
                  /\ w.tradeable => v.tradeable
<1> DEFINE calibrated == Edge!Calibrated(bs, row.calibrated, lw)
           shift(regime) == IF row.highVol THEN 100 * regime ELSE 0
           delta == shift(lw.regime) - shift(lv.regime)
<1>1. delta \in Nat /\ shift(lv.regime) \in Nat /\ shift(lw.regime) \in Nat
  OBVIOUS
<1> SUFFICES ASSUME NEW side \in Edge!Sides
             PROVE  LET v == Edge!SideBreakdown(row, side, bs, lv)
                        w == Edge!SideBreakdown(row, side, bs, lw)
                    IN  /\ v.final \in Int /\ w.final \in Int /\ v.final = w.final + delta
                        /\ w.tradeable => v.tradeable
  BY <1>1
<1> DEFINE v == Edge!SideBreakdown(row, side, bs, lv)
           w == Edge!SideBreakdown(row, side, bs, lw)
           before == EdgeBefore(row, side, bs, calibrated)
           bv == Edge!Buffers(row, side, lv)
           bw == Edge!Buffers(row, side, lw)
<1>2. v.final = before - bv - 100 * MinProfit /\ w.final = before - bw - 100 * MinProfit
  BY DEF Edge!SideBreakdown, EdgeBefore
<1>3. before \in Int
  <2>1. calibrated \in BOOLEAN /\ (calibrated => Edge!BucketOf(row.calibrated) \in DOMAIN bs)
    BY DEF Edge!Calibrated
  <2> HIDE DEF calibrated
  <2> QED BY <2>1, EdgeBeforeIsInt
<1>4. bv \in Nat /\ bw \in Nat /\ bw = bv + delta
  <2> DEFINE thin == IF Edge!Thin(row, side) THEN 100 * ThinBuffer ELSE 0
             old == IF row.bookAge # Edge!None /\ 2 * row.bookAge > MaxBookAge
                    THEN 100 * StaleBuffer ELSE 0
             source == IF Edge!FeedStale(row.spotAge) \/ Edge!FeedStale(row.perpAge)
                       THEN 100 * SourceBuffer ELSE 0
  <2>1. bv = shift(lv.regime) + thin + old + source /\ bw = shift(lw.regime) + thin + old + source
    BY DEF Edge!Buffers
  <2>2. thin \in Nat /\ old \in Nat /\ source \in Nat
    BY EdgeConstants
  <2> HIDE DEF thin, old, source, shift, bv, bw
  <2> QED BY <1>1, <2>1, <2>2
<1>5. MinProfit \in Nat /\ MinFinal \in Nat
  BY EdgeConstants
<1>6. v.final \in Int /\ w.final \in Int /\ v.final = w.final + delta
  <2> HIDE DEF v, w, before, bv, bw, delta
  <2> QED BY <1>1, <1>2, <1>3, <1>4, <1>5
<1>7. w.tradeable => v.tradeable
  <2> DEFINE raw == 100 * (IF side = "YES" THEN row.calibrated ELSE 100 - row.calibrated)
                      - 100 * Edge!Ask(row.bid, side)
             rejected == \/ Edge!BothAsks(row) /\ Edge!Disagreement(row) > 100 * MaxDisagreement
                         \/ DOMAIN bs # {} /\ ~calibrated
                         \/ ~Edge!BothAsks(row) /\ ~calibrated
                         \/ Edge!Thin(row, side)
  <2>1. /\ w.tradeable <=> /\ ~rejected /\ raw >= 100 * lw.minRaw
                           /\ w.final >= 0 /\ w.final >= 100 * MinFinal
        /\ v.tradeable <=> /\ ~rejected /\ raw >= 100 * lv.minRaw
                           /\ v.final >= 0 /\ v.final >= 100 * MinFinal
    BY DEF Edge!SideBreakdown
  <2>2. raw \in Int
    <3>1. row.calibrated \in 1..99
      BY EdgeConstants DEF Edge!SoundRow
    <3>2. Edge!Ask(row.bid, side) \in Int
      <4>1. row.bid[Edge!Other(side)] \in 1..99 \cup {Edge!None}
        BY DEF Edge!SoundRow, Edge!Sides, Edge!Other
      <4>2. Edge!Ask(row.bid, side) = IF row.bid[Edge!Other(side)] = Edge!None THEN Edge!None
                                        ELSE 100 - row.bid[Edge!Other(side)]
        BY DEF Edge!Ask
      <4> QED BY <4>1, <4>2 DEF Edge!None
    <3> QED BY <3>1, <3>2
  <2> HIDE DEF raw, rejected, v, w, delta
  <2>3. raw >= 100 * lw.minRaw => raw >= 100 * lv.minRaw
    BY <2>2
  <2>4. /\ w.final >= 0 => v.final >= 0
        /\ w.final >= 100 * MinFinal => v.final >= 100 * MinFinal
    BY <1>1, <1>5, <1>6
  <2> QED BY <2>1, <2>3, <2>4
<1> QED BY <1>6, <1>7

\* A row that stricter limits admit is admitted by looser ones: the side that is
\* the better of the two stays the better one.
LEMMA StricterAdmits ==
    ASSUME NEW row, Edge!SoundRow(row), NEW bs, Edge!MeansInBuckets(bs),
           NEW axis \in {"minRaw", "rows", "width", "regime"}, NEW v \in Nat, NEW w \in Nat,
           Edge!Stricter(axis, v, w),
           Edge!EvaluateEdge(row, bs, [Edge!Limits EXCEPT ![axis] = w]).ok
    PROVE  Edge!EvaluateEdge(row, bs, [Edge!Limits EXCEPT ![axis] = v]).ok
<1> DEFINE lv == [Edge!Limits EXCEPT ![axis] = v]
           lw == [Edge!Limits EXCEPT ![axis] = w]
           V(side) == Edge!SideBreakdown(row, side, bs, lv)
           W(side) == Edge!SideBreakdown(row, side, bs, lw)
           offered == {side \in Edge!Sides : Edge!Ask(row.bid, side) # Edge!None}
           one == CHOOSE side \in offered : TRUE
           bestV == IF offered = Edge!Sides
                    THEN IF V("YES").final >= V("NO").final THEN "YES" ELSE "NO" ELSE one
           bestW == IF offered = Edge!Sides
                    THEN IF W("YES").final >= W("NO").final THEN "YES" ELSE "NO" ELSE one
<1>1. /\ {lv.minRaw, lv.rows, lv.width, lv.regime} \subseteq Nat
      /\ {lw.minRaw, lw.rows, lw.width, lw.regime} \subseteq Nat
      /\ lv.minRaw <= lw.minRaw /\ lv.rows <= lw.rows
      /\ lw.width <= lv.width /\ lv.regime <= lw.regime
  BY StricterLimits
<1> HIDE DEF lv, lw
<1>2. offered # {} /\ row.calibrated # Edge!None /\ W(bestW).tradeable
  <2>1. Edge!EvaluateEdge(row, bs, lw).ok
    BY DEF lw
  <2> QED BY <2>1 DEF Edge!EvaluateEdge
<1>3. bestW \in Edge!Sides /\ (offered # Edge!Sides => bestV = bestW)
  <2>1. one \in Edge!Sides
    BY <1>2
  <2> QED BY <2>1 DEF Edge!Sides
<1>4. Edge!Calibrated(bs, row.calibrated, lv) <=> Edge!Calibrated(bs, row.calibrated, lw)
  <2> DEFINE b == Edge!BucketOf(row.calibrated)
  <2>1. CASE DOMAIN bs = {}
    BY <2>1 DEF Edge!Calibrated
  <2>2. CASE DOMAIN bs # {}
    <3>1. Edge!Calibrated(bs, row.calibrated, lw)
      BY <1>2, <2>2 DEF Edge!SideBreakdown
    <3>2. b \in DOMAIN bs /\ bs[b].n >= lw.rows /\ bs[b].high - bs[b].low <= 100 * lw.width
      BY <3>1 DEF Edge!Calibrated
    <3>3. bs[b].n \in Int /\ bs[b].high \in Int /\ bs[b].low \in Int
      BY <3>2 DEF Edge!MeansInBuckets
    <3> HIDE DEF b
    <3>4. bs[b].n >= lv.rows /\ bs[b].high - bs[b].low <= 100 * lv.width
      BY <1>1, <3>2, <3>3
    <3> QED BY <3>1, <3>2, <3>4 DEF Edge!Calibrated, b
  <2> QED BY <2>1, <2>2
<1>5. PICK delta \in Nat : \A side \in Edge!Sides :
          /\ V(side).final \in Int /\ W(side).final \in Int
          /\ V(side).final = W(side).final + delta
          /\ W(side).tradeable => V(side).tradeable
  BY <1>1, <1>2, <1>4, StricterSide
<1>6. V("YES").final >= V("NO").final <=> W("YES").final >= W("NO").final
  BY <1>5 DEF Edge!Sides
<1>7. bestV = bestW
  BY <1>3, <1>6
<1>8. V(bestV).tradeable
  <2> HIDE DEF V, W, bestV, bestW
  <2> QED BY <1>2, <1>3, <1>5, <1>7
<1>9. Edge!EvaluateEdge(row, bs, lv).ok
  BY <1>2, <1>8 DEF Edge!EvaluateEdge
<1> QED BY <1>9 DEF lv

\* The instance's sizes of sets are the library's.
LEMMA SameSizes ==
    /\ \A S : Edge!IsFiniteSet(S) <=> IsFiniteSet(S)
    /\ \A S : Edge!Cardinality(S) = Cardinality(S)
BY DEF Edge!IsFiniteSet, IsFiniteSet, Edge!Cardinality, Cardinality

\* What the assumption says of the rows and of the axes.
LEMMA RowsAndAxes ==
    /\ IsFiniteSet(JudgedRows) /\ \A row \in JudgedRows : Edge!SoundRow(row)
    /\ \A axis \in DOMAIN SweepAxes :
          /\ axis \in {"minRaw", "rows", "width", "regime"} /\ SweepAxes[axis] \in Seq(Nat)
          /\ \A i \in DOMAIN SweepAxes[axis] : \A j \in 1..i :
                Edge!Stricter(axis, SweepAxes[axis][j], SweepAxes[axis][i])
<1>1. Edge!EdgeAssumption
  BY ResearchAssumption
<1>2. IsFiniteSet(JudgedRows) /\ \A row \in JudgedRows : Edge!SoundRow(row)
  BY <1>1, SameSizes DEF Edge!EdgeAssumption
<1>3. ASSUME NEW axis \in DOMAIN SweepAxes
      PROVE  /\ axis \in {"minRaw", "rows", "width", "regime"} /\ SweepAxes[axis] \in Seq(Nat)
             /\ \A i \in DOMAIN SweepAxes[axis] : \A j \in 1..i :
                   Edge!Stricter(axis, SweepAxes[axis][j], SweepAxes[axis][i])
  BY <1>1 DEF Edge!EdgeAssumption
<1> QED BY <1>2, <1>3

\* Hence a sweep over an axis admits fewer and fewer rows.
LEMMA SweepAdmitsFewer ==
    ASSUME NEW bs, Edge!MeansInBuckets(bs), NEW axis \in DOMAIN SweepAxes,
           NEW i \in DOMAIN SweepAxes[axis], NEW j \in 1..i
    PROVE  Cardinality(Edge!Admitted(bs, axis, SweepAxes[axis][j]))
               >= Cardinality(Edge!Admitted(bs, axis, SweepAxes[axis][i]))
<1> DEFINE admitted(x) == Edge!Admitted(bs, axis, x)
           v == SweepAxes[axis][j]
           w == SweepAxes[axis][i]
<1>1. /\ axis \in {"minRaw", "rows", "width", "regime"} /\ v \in Nat /\ w \in Nat
      /\ Edge!Stricter(axis, v, w)
  <2>1. SweepAxes[axis] \in Seq(Nat) /\ DOMAIN SweepAxes[axis] = 1..Len(SweepAxes[axis])
    BY RowsAndAxes
  <2>2. i \in 1..Len(SweepAxes[axis]) /\ Len(SweepAxes[axis]) \in Nat
    BY <2>1
  <2>3. j \in 1..Len(SweepAxes[axis])
    BY <2>2
  <2> QED BY <2>1, <2>2, <2>3, RowsAndAxes
<1> HIDE DEF v, w
<1>2. admitted(w) \subseteq admitted(v)
  BY <1>1, StricterAdmits, RowsAndAxes DEF Edge!Admitted
<1>3. IsFiniteSet(admitted(v))
  <2>1. admitted(v) \in SUBSET JudgedRows
    BY DEF Edge!Admitted
  <2> HIDE DEF admitted
  <2> QED BY <2>1, RowsAndAxes, FS_Subset
<1>4. admitted(w) \in SUBSET admitted(v)
  BY <1>2
<1> HIDE DEF admitted
<1>5. Cardinality(admitted(w)) <= Cardinality(admitted(v)) /\ IsFiniteSet(admitted(w))
  BY <1>3, <1>4, FS_Subset
<1>6. Cardinality(admitted(w)) \in Nat /\ Cardinality(admitted(v)) \in Nat
  BY <1>3, <1>5, FS_CardinalityType
<1>7. Cardinality(admitted(v)) >= Cardinality(admitted(w))
  BY <1>5, <1>6
<1> QED BY <1>7 DEF admitted, v, w

LEMMA EdgeInit == Edge!EdgeInit => Edge!EdgeInv
<1> SUFFICES ASSUME Edge!EdgeInit PROVE Edge!EdgeInv
  OBVIOUS
<1>1. s1 \in [Chances -> [Edge!Sides -> Nat]]
  BY DEF Edge!EdgeInit
<1>2. DOMAIN s2 = {}
  BY DEF Edge!EdgeInit
<1>3. s4.kind = "nothing"
  BY DEF Edge!EdgeInit, Edge!Nothing
<1>4. Edge!MeansInBuckets(s2)
  BY <1>2 DEF Edge!MeansInBuckets
<1>5. Edge!EdgeIsSound
  BY <1>3 DEF Edge!EdgeIsSound, Edge!PaysAtWorst, Edge!NoStaleFeed, Edge!StricterAdmitsFewer,
              Edge!IsCandidate
<1> QED BY <1>1, <1>4, <1>5 DEF Edge!EdgeInv

\* A step that decides nothing has nothing to answer for.
LEMMA NothingDecided ==
    ASSUME s4' = Edge!Nothing
    PROVE  Edge!EdgeIsSound'
<1>1. s4'.kind = "nothing"
  BY DEF Edge!Nothing
<1> QED BY <1>1 DEF Edge!EdgeIsSound, Edge!PaysAtWorst, Edge!NoStaleFeed,
                    Edge!StricterAdmitsFewer, Edge!IsCandidate

\* A row that is judged on the buckets of the run.
LEMMA EdgeGates ==
    ASSUME Edge!EdgeInv, NEW row \in JudgedRows, NEW noise, Edge!Gate(row, noise)
    PROVE  Edge!EdgeIsSound'
<1> DEFINE verdict == Edge!GateRow(row, s2, noise)
<1>1. s4' = [kind |-> "row", row |-> row, verdict |-> verdict] /\ s2' = s2
  BY DEF Edge!Gate
<1>2. s4'.kind = "row" /\ s4'.row = row /\ s4'.verdict = verdict
  <2> HIDE DEF verdict
  <2> QED BY <1>1
<1>3. Edge!SoundRow(row) /\ Edge!MeansInBuckets(s2)
  BY RowsAndAxes DEF Edge!EdgeInv
<1>4. CASE verdict.state = "PAPER_CANDIDATE"
  <2> DEFINE side == verdict.side
  <2>1. /\ side \in Edge!Sides /\ row.bookOk /\ row.calibrated # Edge!None
        /\ ~Edge!PolicyInput(row).underlyingOld /\ Edge!PaperCandidateFresh(row)
        /\ Edge!SideBreakdown(row, side, s2, Edge!Limits).tradeable
    BY <1>4, CandidatePassed
  <2>2. LET ages == {row.spotAge, row.perpAge}
        IN  ages # {Edge!None} /\ \A age \in ages : ~Edge!FeedStale(age)
    BY <1>3, <2>1, CandidateIsFresh
  <2>3. DOMAIN s2 # {} =>
            LET bucket == s2[Edge!BucketOf(row.calibrated)]
                worst == IF side = "YES" THEN bucket.low ELSE 10000 - bucket.high
                ask == Edge!Ask(row.bid, side)
            IN  worst >= 100 * (ask + Edge!TakerFee(ask, 1))
    <3> HIDE DEF side
    <3> QED BY <1>3, <2>1, CandidatePays
  <2> HIDE DEF verdict
  <2>4. Edge!NoStaleFeed'
    BY <1>2, <2>2 DEF Edge!NoStaleFeed, Edge!FeedStale
  <2>5. Edge!PaysAtWorst'
    BY <1>1, <1>2, <2>3 DEF Edge!PaysAtWorst
  <2>6. Edge!StricterAdmitsFewer'
    BY <1>2 DEF Edge!StricterAdmitsFewer
  <2> QED BY <2>4, <2>5, <2>6 DEF Edge!EdgeIsSound
<1>5. CASE verdict.state # "PAPER_CANDIDATE"
  <2> HIDE DEF verdict
  <2>1. ~Edge!IsCandidate'
    BY <1>2, <1>5 DEF Edge!IsCandidate
  <2> QED BY <1>2, <2>1 DEF Edge!EdgeIsSound, Edge!PaysAtWorst, Edge!NoStaleFeed,
                            Edge!StricterAdmitsFewer
<1> QED BY <1>4, <1>5

\* A study of the thresholds on what has been settled so far.
LEMMA EdgeSweeps ==
    ASSUME Edge!EdgeInv, NEW axis \in DOMAIN SweepAxes, Edge!Sweep(axis)
    PROVE  Edge!EdgeIsSound'
<1> DEFINE bs == Edge!BuildCalibrationBuckets(s1)
           count(v) == Cardinality(Edge!Admitted(bs, axis, v))
           counts == [i \in DOMAIN SweepAxes[axis] |-> count(SweepAxes[axis][i])]
<1>1. s4' = [kind |-> "sweep", edgeOk |-> counts]
  BY SameSizes DEF Edge!Sweep
<1>2. Edge!MeansInBuckets(bs)
  BY BucketsBuilt DEF Edge!EdgeInv, Histories
<1>3. \A i \in DOMAIN SweepAxes[axis] : \A j \in 1..i :
          count(SweepAxes[axis][j]) >= count(SweepAxes[axis][i])
  <2> HIDE DEF bs
  <2> QED BY <1>2, SweepAdmitsFewer
<1>4. \A i \in DOMAIN SweepAxes[axis] : \A j \in 1..i : j \in DOMAIN SweepAxes[axis]
  <2>1. SweepAxes[axis] \in Seq(Nat)
    BY RowsAndAxes
  <2>2. DOMAIN SweepAxes[axis] = 1..Len(SweepAxes[axis]) /\ Len(SweepAxes[axis]) \in Nat
    BY <2>1
  <2> QED BY <2>2
<1> HIDE DEF count
<1>5. /\ DOMAIN counts = DOMAIN SweepAxes[axis]
      /\ \A i \in DOMAIN counts : \A j \in 1..i : counts[j] >= counts[i]
  BY <1>3, <1>4
<1> HIDE DEF counts
<1>6. s4'.kind = "sweep" /\ s4'.edgeOk = counts
  BY <1>1
<1> QED BY <1>5, <1>6 DEF Edge!EdgeIsSound, Edge!PaysAtWorst, Edge!NoStaleFeed,
                          Edge!StricterAdmitsFewer, Edge!IsCandidate

LEMMA EdgeStep == Edge!EdgeInv /\ Edge!EdgeNext => Edge!EdgeInv'
<1> SUFFICES ASSUME Edge!EdgeInv, Edge!EdgeNext PROVE Edge!EdgeInv'
  OBVIOUS
<1>1. s1 \in [Chances -> [Edge!Sides -> Nat]] /\ Edge!MeansInBuckets(s2)
  BY DEF Edge!EdgeInv
<1>2. CASE \E chance \in Chances, label \in Edge!Sides : Edge!SettleWindow(chance, label)
  <2>1. PICK chance \in Chances, label \in Edge!Sides : Edge!SettleWindow(chance, label)
    BY <1>2
  <2>2. s1' = [s1 EXCEPT ![chance][label] = @ + 1] /\ s2' = s2 /\ s4' = Edge!Nothing
    BY <2>1 DEF Edge!SettleWindow
  <2>3. s1' \in [Chances -> [Edge!Sides -> Nat]]
    BY <1>1, <2>2
  <2> QED BY <1>1, <2>2, <2>3, NothingDecided DEF Edge!EdgeInv, Edge!MeansInBuckets
<1>3. CASE Edge!Prepare
  <2>1. s1' = s1 /\ s2' = Edge!BuildCalibrationBuckets(s1) /\ s4' = Edge!Nothing
    BY <1>3 DEF Edge!Prepare
  <2>2. Edge!MeansInBuckets(Edge!BuildCalibrationBuckets(s1))
    BY <1>1, BucketsBuilt DEF Histories
  <2>3. Edge!MeansInBuckets(s2)'
    BY <2>1, <2>2 DEF Edge!MeansInBuckets
  <2> QED BY <1>1, <2>1, <2>3, NothingDecided DEF Edge!EdgeInv
<1>4. CASE \E row \in JudgedRows, noise \in {{"net", "raw"}} : Edge!Gate(row, noise)
  <2>1. PICK row \in JudgedRows, noise \in {{"net", "raw"}} : Edge!Gate(row, noise)
    BY <1>4
  <2>2. s1' = s1 /\ s2' = s2
    BY <2>1 DEF Edge!Gate
  <2>3. Edge!EdgeIsSound'
    BY <2>1, EdgeGates
  <2> QED BY <1>1, <2>2, <2>3 DEF Edge!EdgeInv, Edge!MeansInBuckets
<1>5. CASE \E axis \in DOMAIN SweepAxes : Edge!Sweep(axis)
  <2>1. PICK axis \in DOMAIN SweepAxes : Edge!Sweep(axis)
    BY <1>5
  <2>2. s1' = s1 /\ s2' = s2
    BY <2>1 DEF Edge!Sweep
  <2>3. Edge!EdgeIsSound'
    BY <2>1, EdgeSweeps
  <2> QED BY <1>1, <2>2, <2>3 DEF Edge!EdgeInv, Edge!MeansInBuckets
<1> QED BY <1>2, <1>3, <1>4, <1>5 DEF Edge!EdgeNext

\* A step that changes nothing.
LEMMA EdgeStutter == Edge!EdgeInv /\ UNCHANGED <<s1, s2, s3, s4>> => Edge!EdgeInv'
<1> SUFFICES ASSUME Edge!EdgeInv, UNCHANGED <<s1, s2, s3, s4>> PROVE Edge!EdgeInv'
  OBVIOUS
<1>1. s1' = s1 /\ s2' = s2 /\ s4' = s4
  OBVIOUS
<1>2. Edge!MeansInBuckets(s2)'
  BY <1>1 DEF Edge!EdgeInv, Edge!MeansInBuckets
<1>3. Edge!IsCandidate' <=> Edge!IsCandidate
  BY <1>1 DEF Edge!IsCandidate
<1>4. Edge!PaysAtWorst'
  BY <1>1, <1>3 DEF Edge!EdgeInv, Edge!EdgeIsSound, Edge!PaysAtWorst
<1>5. Edge!NoStaleFeed'
  BY <1>1, <1>3 DEF Edge!EdgeInv, Edge!EdgeIsSound, Edge!NoStaleFeed
<1>6. Edge!StricterAdmitsFewer'
  BY <1>1 DEF Edge!EdgeInv, Edge!EdgeIsSound, Edge!StricterAdmitsFewer
<1> QED BY <1>1, <1>2, <1>4, <1>5, <1>6 DEF Edge!EdgeInv, Edge!EdgeIsSound
-----------------------------------------------------------------------------
(* The parts together.                                                     *)

ResearchInv ==
    /\ which = "maker" => Maker!MakerInv
    /\ which = "positions" => Positions!PositionsInv
    /\ which = "backtest" => Backtest!BacktestInv
    /\ which = "edge" => Edge!EdgeInv
    /\ which = "mining" => Mining!MiningInv
    /\ which = "training" => Training!TrainInv
    /\ which = "lag" => Lag!LagInv
    /\ which = "cycle" => Cycle!CycleInv

LEMMA ResearchInit == Init => ResearchInv
BY MakerInit, PositionsInit, BacktestInit, EdgeInit, MiningInit, TrainStart, LagStart,
   CycleStart
   DEF Init, ResearchInv

LEMMA ResearchStep == ResearchInv /\ [Next]_vars => ResearchInv'
<1> SUFFICES ASSUME ResearchInv, [Next]_vars PROVE ResearchInv'
  OBVIOUS
<1>1. CASE which = "maker"
  <2>1. which' = which /\ [Maker!Next]_(Maker!vars)
    BY <1>1 DEF Next, vars, Maker!vars, From9
  <2>2. Maker!MakerInv
    BY <1>1 DEF ResearchInv
  <2>3. Maker!MakerInv'
    BY <2>1, <2>2, MakerStep
  <2>4. QED BY <1>1, <2>1, <2>3 DEF ResearchInv
<1>2. CASE which = "positions"
  <2>1. /\ which' = which
        /\ Positions!Next \/ UNCHANGED <<s1, s2, s3, s4, s5, s6>>
    BY <1>2 DEF Next, vars, From7, From9
  <2>2. Positions!PositionsInv
    BY <1>2 DEF ResearchInv
  <2>3. Positions!PositionsInv'
    BY <2>1, <2>2, PositionsStep, PositionsStutter
  <2>4. QED BY <1>2, <2>1, <2>3 DEF ResearchInv
<1>3. CASE which = "backtest"
  <2>1. which' = which /\ [Backtest!Next]_(Backtest!vars)
    BY <1>3 DEF Next, vars, Backtest!vars
  <2>2. Backtest!BacktestInv
    BY <1>3 DEF ResearchInv
  <2>3. Backtest!BacktestInv'
    BY <2>1, <2>2, BacktestStep
  <2>4. QED BY <1>3, <2>1, <2>3 DEF ResearchInv
<1>4. CASE which = "edge"
  <2>1. which' = which /\ (Edge!EdgeNext \/ UNCHANGED <<s1, s2, s3, s4>>)
    <3>1. CASE Next
      <4>1. Edge!EdgeNext /\ UNCHANGED From5
        BY <1>4, <3>1 DEF Next
      <4> QED BY <4>1 DEF From5, From7, From9
    <3>2. CASE UNCHANGED vars
      BY <3>2 DEF vars
    <3> QED BY <3>1, <3>2
  <2>2. Edge!EdgeInv
    BY <1>4 DEF ResearchInv
  <2>3. Edge!EdgeInv'
    BY <2>1, <2>2, EdgeStep, EdgeStutter
  <2>4. QED BY <1>4, <2>1, <2>3 DEF ResearchInv
<1>5. CASE which = "mining"
  <2>1. which' = which /\ (Mining!Next \/ UNCHANGED <<s1, s2, s3, s4, s5>>)
    <3>1. CASE Next
      <4>1. Mining!Next /\ UNCHANGED <<s6, From7>>
        BY <1>5, <3>1 DEF Next
      <4> QED BY <4>1 DEF From7, From9
    <3>2. CASE UNCHANGED vars
      BY <3>2 DEF vars
    <3> QED BY <3>1, <3>2
  <2>2. Mining!MiningInv
    BY <1>5 DEF ResearchInv
  <2>3. Mining!MiningInv'
    BY <2>1, <2>2, MiningStep, MiningStutter
  <2>4. QED BY <1>5, <2>1, <2>3 DEF ResearchInv
<1>6. CASE which = "training"
  <2>1. which' = which /\ (Training!TrainNext \/ UNCHANGED Training!trainVars)
    <3>1. CASE Next
      <4>1. Training!TrainNext /\ UNCHANGED From4
        BY <1>6, <3>1 DEF Next
      <4> QED BY <4>1 DEF From4, From5, From7, From9
    <3>2. CASE UNCHANGED vars
      BY <3>2 DEF vars, Training!trainVars
    <3> QED BY <3>1, <3>2
  <2>2. Training!TrainInv
    BY <1>6 DEF ResearchInv
  <2>3. Training!TrainInv'
    BY <2>1, <2>2, TrainStep, TrainStutter
  <2>4. QED BY <1>6, <2>1, <2>3 DEF ResearchInv
<1>7. CASE which = "lag"
  <2>1. which' = which /\ (Lag!LagNext \/ UNCHANGED Lag!lagVars)
    <3>1. CASE Next
      <4>1. Lag!LagNext /\ UNCHANGED From4
        BY <1>7, <3>1 DEF Next
      <4> QED BY <4>1 DEF From4, From5, From7, From9
    <3>2. CASE UNCHANGED vars
      BY <3>2 DEF vars, Lag!lagVars
    <3> QED BY <3>1, <3>2
  <2>2. Lag!LagInv /\ Lag!LagAssumption
    BY <1>7, ResearchAssumption DEF ResearchInv
  <2>3. Lag!LagInv'
    BY <2>1, <2>2, LagStep, LagStutter
  <2>4. QED BY <1>7, <2>1, <2>3 DEF ResearchInv
<1>8. CASE which = "cycle"
  <2>1. which' = which /\ (Cycle!CycleNext \/ UNCHANGED Cycle!cycleVars)
    <3>1. CASE Next
      <4>1. Cycle!CycleNext /\ UNCHANGED From4
        BY <1>8, <3>1 DEF Next
      <4> QED BY <4>1 DEF From4, From5, From7, From9
    <3>2. CASE UNCHANGED vars
      BY <3>2 DEF vars, Cycle!cycleVars
    <3> QED BY <3>1, <3>2
  <2>2. Cycle!CycleInv /\ Cycle!CycleAssumption
    BY <1>8, ResearchAssumption DEF ResearchInv
  <2>3. Cycle!CycleInv'
    BY <2>1, <2>2, CycleStep, CycleStutter
  <2>4. QED BY <1>8, <2>1, <2>3 DEF ResearchInv
<1>9. CASE which \notin {"maker", "positions", "backtest", "edge", "mining", "training",
                       "lag", "cycle"}
  <2>1. which' = which
    BY <1>9 DEF Next, vars, From4, From5, From7, From9
  <2>2. QED BY <1>9, <2>1 DEF ResearchInv
<1>10. QED BY <1>1, <1>2, <1>3, <1>4, <1>5, <1>6, <1>7, <1>8, <1>9

\* The strengthening that the theorems below rest on: the inductive invariants
\* of the eight parts (MakerEntry, PaperPositions, ExecutableBacktest, EdgePolicy,
\* Discovery, WindowTraining, RepriceLag, CycleLag).
THEOREM ResearchInvariant == Spec => []ResearchInv
BY ResearchInit, ResearchStep, PTL DEF Spec

\* A pair of contracts that was locked never pays less than the minimum that was
\* promised for it, whatever was filled when, nor does the replay of the position
\* report less (lock_profit.py, position_lifecycle.py, cli.py).
THEOREM LocksPayTheMinimum == Spec => []LockKeepsItsPromise
<1>1. ResearchInv => LockKeepsItsPromise
  BY PromiseIsKept DEF ResearchInv, LockKeepsItsPromise, Positions!PositionsInv
<1>2. QED BY <1>1, ResearchInvariant, PTL

\* What a recorded lock said would be left of the position is what the next load
\* of the ledger finds (load_open_paper_positions, PositionState.from_lots).
THEOREM LocksAreReadBack == Spec => LockFillsReload
<1>1. ResearchInv /\ [Next]_vars =>
         [which = "positions" => Positions!LockFillReloads]_vars
  <2> SUFFICES ASSUME ResearchInv, Next, which = "positions"
               PROVE  Positions!LockFillReloads
    OBVIOUS
  <2>1. Positions!PositionsInv /\ Positions!Next
    BY DEF ResearchInv, Next
  <2>2. QED BY <2>1, FillsAreReloaded
<1>2. QED BY <1>1, ResearchInvariant, PTL DEF Spec, LockFillsReload

\* Under the backtest's limits the frontier takes its very trades; under any it
\* keeps its caps of a window and of a day and its cooldown (trade_frequency.py,
\* executable_backtest.py).  A fill that the maker study takes for certain, by a
\* quote or by a print that went through its price, is one the order would have
\* had in the market as it was (maker_entry.py, first_trade_through_ms and
\* first_print_fill_ms).
THEOREM ReplaysStayReal == Spec => []ReplaysAreReal
<1>1. ASSUME ResearchInv PROVE ReplaysAreReal
  <2>1. which = "backtest" =>
           Backtest!FrontierIsBacktest /\ Backtest!FrontierCapsHold
    BY <1>1 DEF ResearchInv, Backtest!BacktestInv
  <2>2. which = "maker" => Maker!FillsAreReal
    BY <1>1, MakerFills DEF ResearchInv
  <2>3. QED BY <2>1, <2>2 DEF ReplaysAreReal
<1>2. QED BY <1>1, ResearchInvariant, PTL

\* What the policy announces and acts on: nothing is entered that the summary
\* verdict excludes (policy_runtime.py, _can_emit), and on a row with enough
\* depth and a book that is not crossed the backtest takes the policy's side
\* (policy.py, evaluate_policy; executable_backtest.py, evaluate_row).  What the
\* edge gate lets pass would not lose at the pessimistic end of its calibration
\* and is not decided on an old feed, and stricter thresholds admit no more
\* (edge_policy.py, evaluate_edge; paper.py; edge_policy_runtime.py,
\* run_edge_threshold_sweep).
THEOREM CandidatesStaySupported == Spec => []CandidatesAreSupported
<1>1. ResearchInv => CandidatesAreSupported
  BY CandidatesWereTraded
     DEF ResearchInv, CandidatesAreSupported, Positions!PositionsInv, Edge!EdgeInv
<1>2. QED BY <1>1, ResearchInvariant, PTL

\* What survivors are validated on is out of reach of the search: between it and
\* what was searched lies the embargo, the same data is always divided at the same
\* place, and every trial on it is counted against a survivor (discovery/splits.py,
\* registry.py, pipeline.py).  What a model is judged on is out of reach of its
\* fitting, by the embargo at least and under labels that come late; a review of
\* calibrators compares on windows the served model was not fitted on; and every
\* window is judged in as many combinations as any other (splits.py, cpcv.py,
\* labeling.py, calibrator_replacement.py).
THEOREM VaultStaysSealed == Spec => []VaultHolds
<1>1. ResearchInv => VaultHolds
  BY VaultsHold DEF ResearchInv, VaultHolds, Training!TrainInv
<1>2. QED BY <1>1, ResearchInvariant, PTL

\* What a study of quotes left behind reports, it would have found at the time.  The
\* market's answer to a jump comes after it, and a longer horizon is answered no
\* earlier than a shorter one; a quote was worth taking then if its line was
\* recorded with it, by either venue's price (reprice_lag_hires.py, measure_response,
\* qualify_candidate, dedupe).  On feature rows a shock by a return or its volatility
\* is one whatever the day's flows turn out to be, none that reaches its default is
\* hidden by detecting with lower floors, and the opportunities of a side are apart
\* and count each row that qualified once (reprice_lag.py, detect_shock,
\* passes_default, dedup_events).
THEOREM StudiesStayHonest == Spec => []StudiesHold
<1>1. ASSUME ResearchInv PROVE StudiesHold
  <2>1. Lag!LagAssumption /\ Cycle!CycleAssumption
    BY ResearchAssumption
  <2>2. which = "lag" => Lag!LagIsSound
    BY <1>1, <2>1, LagHolds DEF ResearchInv
  <2>3. which = "cycle" => Cycle!CycleIsSound
    BY <1>1, <2>1, CycleHolds DEF ResearchInv
  <2>4. QED BY <2>2, <2>3 DEF StudiesHold
<1>2. QED BY <1>1, ResearchInvariant, PTL
=============================================================================
