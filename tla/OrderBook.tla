----------------------------- MODULE OrderBook -----------------------------
(***************************************************************************)
(* A binary market's book as the venue sends it, resting bids on both      *)
(* sides, and what can be executed against it (orderbook.py).  A side is a *)
(* function from prices, in cents, to sizes.                               *)
(***************************************************************************)
EXTENDS Integers, FiniteSetsExt, SequencesExt, Functions

Sides == {"yes", "no"}
Other(side) == IF side = "yes" THEN "no" ELSE "yes"
NoPrice == -1
EmptySide == <<>>

\* parse_levels: a level of no size is kept.
ParseLevels(levels) ==
    Restrict(levels, {p \in DOMAIN levels : p \in 0 .. 100 /\ levels[p] >= 0})

BestBid(levels) == IF DOMAIN levels = {} THEN NoPrice ELSE Max(DOMAIN levels)
\* A bid for one side is an offer of the other at the complement.
AsksFromOppositeBids(levels) ==
    [ask \in {100 - p : p \in DOMAIN levels} |-> levels[100 - ask]]
AskPrice(book, side) == IF DOMAIN book[Other(side)] = {} THEN NoPrice
                        ELSE 100 - BestBid(book[Other(side)])

\* normalize_orderbook: the top of the book and its flags.
Normalize(book) ==
    LET parsed == [side \in Sides |-> ParseLevels(book[side])]
        bid(side) == BestBid(parsed[side])
        ask(side) == AskPrice(parsed, side)
        crossed(side) == bid(side) # NoPrice /\ ask(side) # NoPrice
                         /\ ask(side) < bid(side)
    IN  [bid |-> [side \in Sides |-> bid(side)],
         ask |-> [side \in Sides |-> ask(side)],
         askSize |-> [side \in Sides |->
                         IF ask(side) = NoPrice THEN 0
                         ELSE parsed[Other(side)][bid(Other(side))]],
         incomplete |-> \E side \in Sides : bid(side) = NoPrice,
         crossed |-> {side \in Sides : crossed(side)}]
-----------------------------------------------------------------------------
\* depth_walk: the cheapest asks first, the last level taken in part.
DepthWalk(asks, qty) ==
    LET prices == SetToSortSeq(DOMAIN asks, <)
        Take(fill, price) ==
            LET want == qty - fill.size
                take == IF asks[price] < want THEN asks[price] ELSE want
            IN  [size |-> fill.size + take, cost |-> fill.cost + take * price]
    IN  FoldLeft(Take, [size |-> 0, cost |-> 0], prices)

ExecutableBuy(book, side, qty) ==
    DepthWalk(AsksFromOppositeBids(ParseLevels(book[Other(side)])), qty)
-----------------------------------------------------------------------------
(* What a walk should come to: of all ways to take qty contracts from the  *)
(* offers, as many as there are, none is cheaper.                          *)

Fills(asks, qty) ==
    LET total(fill) == MapThenSumSet(LAMBDA p : fill[p], DOMAIN fill)
        there == MapThenSumSet(LAMBDA p : asks[p], DOMAIN asks)
        size == IF there < qty THEN there ELSE qty
    IN  {fill \in [DOMAIN asks -> 0 .. qty] :
            (\A p \in DOMAIN asks : fill[p] <= asks[p]) /\ total(fill) = size}
CheapestFill(asks, qty) ==
    LET cost(fill) == MapThenSumSet(LAMBDA p : p * fill[p], DOMAIN fill)
    IN  Min({cost(fill) : fill \in Fills(asks, qty)})
=============================================================================
