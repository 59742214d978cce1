----------------------------- MODULE MakerEntry -----------------------------
(***************************************************************************)
(* The study of resting buy orders (maker_entry.py): an order is imagined  *)
(* at a recorded snapshot, and later snapshots or trade prints tell whether*)
(* it would have been filled.  The market here is the real one, in which   *)
(* the order never was; truth is when the first contract of the order, in  *)
(* the queue behind those that were there, would have been bought.  Sides  *)
(* are alike, the order is a buy of YES.                                   *)
(*                                                                         *)
(* Prices are 1 .. Top; the ask of a book without offers is Top + 1.  Every*)
(* event of the market has a time of its own.                              *)
(***************************************************************************)
EXTENDS Integers, SequencesExt, FiniteSetsExt

CONSTANTS
    Top, MaxSize,
    MinuteLength, Close,        \* the window is 0 .. Close - 1
    Improve                     \* improve_cents

VARIABLES
    clock,
    bids, offers,   \* price -> size
    snaps,          \* the recorded snapshots: [at, bid, ask]
    prints,         \* the set of trades: [at, taker, price]
    order,          \* the imagined order: [at, limit]
    ahead,          \* the size before it in the queue of its price
    truth           \* when it would have been filled, or Never

vars == <<clock, bids, offers, snaps, prints, order, ahead, truth>>

Prices == 1 .. Top
None == [at |-> 0, limit |-> 0]
Never == Close + 1

BestBid == Max({0} \cup {p \in Prices : bids[p] > 0})
BestAsk == Min({Top + 1} \cup {p \in Prices : offers[p] > 0})
Pending == order # None /\ truth = Never
-----------------------------------------------------------------------------
(* The study.                                                              *)

\* simulate_maker_entries keeps a decision whose limit would not cross.
WouldCross(limit, ask) == limit >= ask

\* Mutant: a fill is seen at an ask one cent above the limit.
FirstTradeThrough_near(o) ==
    Min({Never} \cup {s.at : s \in {t \in Range(snaps) :
                                       t.at > o.at /\ t.ask <= o.limit + 1}})
\* A later snapshot with an ask at or below the limit.
FirstTradeThrough(o) ==
    Min({Never} \cup {s.at : s \in {t \in Range(snaps) :
                                       t.at > o.at /\ t.ask <= o.limit}})

\* Mutant: every price at the limit or below is a certain fill.
Reaches_atLimit(queue, price, limit) == price <= limit
\* queue is "through", a price below the limit, or "front", one at the limit.
Reaches(queue, price, limit) ==
    IF queue = "through" THEN price < limit ELSE price <= limit

\* The prints of takers that sell YES, after the order and before the close.
FirstPrintFill(o, queue) ==
    Min({Never} \cup {p.at : p \in {t \in prints :
            /\ t.at > o.at /\ t.at < Close /\ t.taker = "no"
            /\ Reaches(queue, t.price, o.limit)}})

Minute(at) == at \div MinuteLength
\* The first snapshot of a minute; the order joins the best bid or improves it.
Snapshot(decide, mode) ==
    LET limit == BestBid + (IF mode = "improve" THEN Improve ELSE 0)
        isFirst == \A s \in Range(snaps) : Minute(s.at) # Minute(clock)
    IN  /\ clock < Close /\ BestBid > 0 /\ BestAsk <= Top
        /\ snaps' = Append(snaps, [at |-> clock, bid |-> BestBid, ask |-> BestAsk])
        /\ IF decide
           THEN /\ order = None /\ isFirst
                /\ ~WouldCross(limit, BestAsk)
                /\ order' = [at |-> clock, limit |-> limit]
                /\ ahead' = bids[limit]
           ELSE UNCHANGED <<order, ahead>>
        /\ clock' = clock + 1
        /\ UNCHANGED <<bids, offers, prints, truth>>
-----------------------------------------------------------------------------
(* The market.                                                             *)

Bid(price) ==
    /\ clock < Close /\ price < BestAsk /\ bids[price] < MaxSize
    /\ bids' = [bids EXCEPT ![price] = @ + 1]
    /\ clock' = clock + 1
    /\ UNCHANGED <<offers, snaps, prints, order, ahead, truth>>

\* A bid at the order's price is cancelled before or behind the order.
CancelBid(price, before) ==
    /\ clock < Close /\ bids[price] > 0
    /\ IF Pending /\ price = order.limit
       THEN IF before THEN ahead > 0 /\ ahead' = ahead - 1
            ELSE bids[price] > ahead /\ UNCHANGED ahead
       ELSE before /\ UNCHANGED ahead
    /\ bids' = [bids EXCEPT ![price] = @ - 1]
    /\ clock' = clock + 1
    /\ UNCHANGED <<offers, snaps, prints, order, truth>>

\* An offer that finds no bid rests; at or below the limit it would have found
\* the order.
Offer(price) ==
    /\ clock < Close /\ price > BestBid /\ offers[price] < MaxSize
    /\ offers' = [offers EXCEPT ![price] = @ + 1]
    /\ truth' = IF Pending /\ price <= order.limit THEN clock ELSE truth
    /\ clock' = clock + 1
    /\ UNCHANGED <<bids, snaps, prints, order, ahead>>

CancelOffer(price) ==
    /\ clock < Close /\ offers[price] > 0
    /\ offers' = [offers EXCEPT ![price] = @ - 1]
    /\ clock' = clock + 1
    /\ UNCHANGED <<bids, snaps, prints, order, ahead, truth>>

\* A taker sells at price or better: the bids above level and some of those at
\* level, or all of them, if it wanted more than the bids down to its price.  At
\* one price those that came first are taken first; what is left does not rest.
TakerSells(price, level, taken, more) ==
    LET soldAt == [p \in Prices |-> IF p > level THEN bids[p]
                                   ELSE IF p = level THEN taken ELSE 0]
    IN  /\ clock < Close /\ price <= level /\ taken \in 1 .. bids[level]
        /\ more => taken = bids[level] /\ \A p \in price .. level - 1 : bids[p] = 0
        /\ bids' = [p \in Prices |-> bids[p] - soldAt[p]]
        /\ prints' = prints \cup
               {[at |-> clock, taker |-> "no", price |-> p] :
                   p \in {q \in Prices : soldAt[q] > 0}}
        /\ IF Pending /\ price <= order.limit
           THEN /\ truth' = IF \/ level < order.limit \/ more
                               \/ level = order.limit /\ taken > ahead
                            THEN clock ELSE truth
                /\ ahead' = Max({0, ahead - soldAt[order.limit]})
           ELSE UNCHANGED <<truth, ahead>>
        /\ clock' = clock + 1
        /\ UNCHANGED <<offers, snaps, order>>

\* A taker buys the best offer.
TakerBuys ==
    /\ clock < Close /\ BestAsk <= Top
    /\ offers' = [offers EXCEPT ![BestAsk] = @ - 1]
    /\ prints' = prints \cup {[at |-> clock, taker |-> "yes", price |-> BestAsk]}
    /\ clock' = clock + 1
    /\ UNCHANGED <<bids, snaps, order, ahead, truth>>
-----------------------------------------------------------------------------
Init ==
    /\ clock = 0
    /\ bids \in [Prices -> 0 .. MaxSize] /\ offers \in [Prices -> 0 .. MaxSize]
    /\ BestBid < BestAsk
    /\ snaps = <<>> /\ prints = {}
    /\ order = None /\ ahead = 0 /\ truth = Never

Next ==
    \/ \E decide \in BOOLEAN, mode \in {"join", "improve"} :
          (decide \/ mode = "join") /\ Snapshot(decide, mode)
    \/ \E price \in Prices :
          \/ Bid(price) \/ Offer(price) \/ CancelOffer(price)
          \/ \E before \in BOOLEAN : CancelBid(price, before)
          \/ \E level \in Prices, taken \in 1 .. MaxSize, more \in BOOLEAN :
                TakerSells(price, level, taken, more)
    \/ TakerBuys

Spec == Init /\ [][Next]_vars
-----------------------------------------------------------------------------
\* A fill that the study takes for certain, an ask that came down to the limit
\* or a print below it, is one the order would have had by then, however many
\* were before it in the queue.
FillsAreReal ==
    order # None =>
        /\ truth <= FirstTradeThrough(order)
        /\ truth <= FirstPrintFill(order, "through")

MakerAssumption == {Top, MaxSize, Close, Improve} \subseteq Nat

Snapshots == [at : Nat, bid : Prices, ask : Prices]
Trades == [at : Nat, taker : {"no", "yes"}, price : Prices]
MakerTypeOK ==
    /\ clock \in Nat
    /\ bids \in [Prices -> Nat] /\ offers \in [Prices -> Nat]
    /\ snaps \in Seq(Snapshots)
    /\ prints \subseteq Trades
    /\ order \in {None} \cup [at : Nat, limit : Prices]
    /\ ahead \in Nat
    /\ truth \in 0 .. Never

\* What keeps FillsAreReal, an inductive invariant: all that happened lies in the
\* past; as long as the order waits every offer is above it, since it did not
\* cross and an offer at its price would have found it; and what the fill models
\* look for did not come before the fill.
MakerInv ==
    /\ MakerTypeOK
    /\ \A i \in DOMAIN snaps : snaps[i].at < clock
    /\ \A t \in prints : t.at < clock
    /\ truth # Never => truth < clock
    /\ Pending => \A p \in Prices : offers[p] > 0 => order.limit < p
    /\ order # None =>
          /\ \A i \in DOMAIN snaps :
                order.at < snaps[i].at /\ snaps[i].ask <= order.limit
                    => truth <= snaps[i].at
          /\ \A t \in prints :
                order.at < t.at /\ t.taker = "no" /\ t.price < order.limit
                    => truth <= t.at

\* maker_entry.py on the prints at the limit: an "optimistic upper bound", "Truth
\* lies between the two".
FrontIsUpperBound ==
    order # None /\ truth # Never => FirstPrintFill(order, "front") <= truth
=============================================================================
