------------------------------- MODULE MCPaper -------------------------------
(***************************************************************************)
(* What stands between a model and an order: the promotion of the pair     *)
(* that is served (PaperPromotion, three instances), how fresh what is     *)
(* decided on is and what it says, and the gates in front of a live order. *)
(* The parts share no state and each is checked by itself: a behaviour is  *)
(* one of `part`.  The variables of a part other than the promotion are    *)
(* the first of g1 .. g14, and the others are idle.                        *)
(*                                                                         *)
(*   two      two operators at a time, two families, one series            *)
(*   crash    one at a time, two series, files of one second may have one  *)
(*            name and backups may be deleted                              *)
(*   undo     one at a time, artifacts are staged as time passes           *)
(*   gates    the switches, keys and files before an order (LiveGates)     *)
(*   session  the orders of a session before the risk manager (LiveGates)  *)
(*   feeds    the collector's files and their readers (FeedFreshness)      *)
(*   rows     feature rows of feeds that may fail (FeatureRows)            *)
(*   cycle    the decisions of a cycle to its end (FeatureRows)            *)
(*   hot      the low-latency loop over two markets (HotPath)              *)
(***************************************************************************)
EXTENDS MCPaperPromotion, FiniteSets

CONSTANTS
    Require, MaxLiveSize, MaxLiveNotional, Cents, Quantities,
    MaxOrder, MaxPosition, MaxOpenRisk, MaxPerHour, Hour, MaxQuoteAge,
    Contracts, Orders, MaxSession, MaxTrades,
    Targets, Interval, MaxCall, BookMaxAge, FeedMaxAge, FeedRowMaxAge,
    AllowFallback, RequirePrimary, MaxFaults, MaxClock,
    Rows,               \* the constants of FeatureRows, and plays: what there
                        \* may be in "rows" and in "cycle"
    Hot                 \* those of HotPath

\* Prices are in cents of a dollar, and what is missing on file is told from the
\* switches and the keys.
ASSUME GatesConstants ==
    /\ {MaxOrder, MaxPosition, MaxOpenRisk, MaxPerHour, Hour, MaxSession, MaxTrades,
        MaxLiveSize, MaxLiveNotional, MaxQuoteAge} \subseteq Nat
    /\ Cents \subseteq 1 .. 99 /\ Quantities \subseteq Nat
    /\ Orders \subseteq [contract : Contracts, side : {"BUY", "SELL"}, size : Nat, price : Nat]
    /\ Require \cap {"LIVE_DISABLED", "KILL_SWITCH_ACTIVE", "MISSING_CREDENTIALS",
                     "MANUAL_CONFIRMATION_REQUIRED", "RISK_BLOCKED"} = {}
\* An iteration takes time, and a cycle has a market to record.
ASSUME FeedsConstants ==
    /\ {MaxCall, BookMaxAge, FeedMaxAge, FeedRowMaxAge, MaxFaults, MaxClock} \subseteq Nat
    /\ Interval \in Nat \ {0} /\ AllowFallback \in BOOLEAN /\ RequirePrimary \in BOOLEAN
    /\ Cardinality(Targets) \in Nat \ {0} /\ Targets = 1 .. Cardinality(Targets)
\* The loop has a market to decide on.
ASSUME HotConstants ==
    /\ Hot.targets \in Seq(Nat) /\ Hot.targets # <<>>
    /\ {Hot.length, Hot.tolerance, Hot.bookAge, Hot.underlyingAge, Hot.minSecs,
        Hot.minEdge, Hot.minDepth, Hot.deadline, Hot.maxClock} \subseteq Nat

\* Deribit is polled again before its last answer is too old to be used, and an
\* edge worth taking is positive.
ASSUME RowsConstants ==
    /\ {Rows.opens, Rows.closes, Rows.deribitLimit, Rows.grace, Rows.seconds} \subseteq Nat
    /\ {Rows.deribitEvery, Rows.maxSnapshots, Rows.minEdge, Rows.orderSize} \subseteq Nat \ {0}
    /\ Rows.deribitEvery <= Rows.deribitLimit
    /\ \A play \in {"rows", "cycle"} :
          /\ \A answers \in Rows.plays[play].answers :
                /\ answers.spot \in Seq(ToSet(answers.spot))
                /\ answers.perp \in Seq(ToSet(answers.perp))
          /\ Rows.plays[play].quotes \subseteq
                [yesBid : -1 .. 100, noBid : -1 .. 100, yesSize : Nat, noSize : Nat]

VARIABLES part, g1, g2, g3, g4, g5, g6, g7, g8, g9, g10, g11, g12, g13, g14

from9 == <<g9, g10, g11, g12, g13, g14>>
from6 == <<g6, g7, g8, from9>>
gs == <<g1, g2, g3, g4, g5, from6>>
allVars == <<vars, part, gs>>

Order(contract, side, size, price) ==
    [contract |-> contract, side |-> side, size |-> size, price |-> price]
SomeOrders == {Order("a", "BUY", 10, 300), Order("a", "SELL", 10, 500),
               Order("b", "BUY", 20, 300), Order("b", "SELL", 10, 300)}
Live == INSTANCE LiveGates WITH
    MaxTime <- MaxSession,
    on <- g1, keys <- g2, onFile <- g3, session <- g4, now <- g5

Feeds == INSTANCE FeedFreshness WITH
    RowMaxAge <- FeedRowMaxAge,
    clock <- g1, pc <- g2, since <- g3, target <- g4, lastPoll <- g5, held <- g6,
    book <- g7, buffered <- g8, disk <- g9, rows <- g10, visible <- g11,
    answered <- g12, cut <- g13, faults <- g14

\* Feature rows: "rows" with feeds that answer one way or the other, "cycle" with
\* none but with books and prices, to the end of the cycle.
Quote(bid, ask, price, bidSize, askSize) ==
    [type |-> "quote", value |-> [bid |-> bid, ask |-> ask, price |-> price,
                                  bidSize |-> bidSize, askSize |-> askSize]]
Trade(side) == [type |-> "trade", value |-> [side |-> side, size |-> 1]]
Answer(spot, perp) == [spot |-> spot, perp |-> perp]
SomeAnswers ==
    {Answer(<<>>, <<>>),
     Answer(<<Quote(1, 3, 2, -1, -1), Trade("buy")>>, <<Quote(1, 3, -1, 1, 2)>>),
     Answer(<<Quote(-1, -1, 4, -1, -1)>>, <<>>),
     Answer(<<>>, <<Quote(3, 3, -1, 2, 2), Trade("sell")>>)}
Book(yesBid, noBid, yesSize, noSize) ==
    [yesBid |-> yesBid, noBid |-> noBid, yesSize |-> yesSize, noSize |-> noSize]
SomeBooks == {Book(40, 55, 1, 3), Book(40, 55, 0, 3), Book(60, 60, 1, 1),
              Book(40, -1, 1, 0)}

TwoPlays ==
    [rows |-> [kinds |-> {"collector"}, lines |-> {-1}, prices |-> {-1},
               answers |-> SomeAnswers, answering |-> {{}, {"dvol"}},
               quotes |-> {Book(40, 55, 1, 3)}, maxRuns |-> 2, maxClock |-> 4],
     cycle |-> [kinds |-> {"collector", "pipeline"}, lines |-> {-1, 2},
                prices |-> {-1, 1, 3}, answers |-> {Answer(<<>>, <<>>)},
                answering |-> {{"book_summary"}}, quotes |-> SomeBooks,
                maxRuns |-> 1, maxClock |-> 5]]
OneMarket ==
    [opens |-> 1, closes |-> 4, maxAge |-> 2, horizons |-> {1, 2}, back |-> 1,
     minReturns |-> 2, staleAfter |-> 1, deribitEvery |-> 2, deribitLimit |-> 3,
     maxSnapshots |-> 2, minEdge |-> 2, orderSize |-> 2, grace |-> 1, seconds |-> 3,
     plays |-> TwoPlays]
RowPart == INSTANCE FeatureRows WITH
    Opens <- Rows.opens, Closes <- Rows.closes, MaxAge <- Rows.maxAge,
    Horizons <- Rows.horizons, Back <- Rows.back, MinReturns <- Rows.minReturns,
    StaleAfter <- Rows.staleAfter, DeribitEvery <- Rows.deribitEvery,
    DeribitLimit <- Rows.deribitLimit, MaxSnapshots <- Rows.maxSnapshots,
    MinEdge <- Rows.minEdge, OrderSize <- Rows.orderSize, Grace <- Rows.grace,
    Seconds <- Rows.seconds,
    clock <- g1, run <- g2, idle <- g3, buffers <- g4, last <- g5, snapshots <- g6,
    asked <- g7, samples <- g8, line <- g9, row <- g10, made <- g11, closing <- g12,
    received <- g13

\* A good book, a worse one and none.
HotQuotes ==
    {[ok |-> TRUE, cost |-> [YES |-> 45, NO |-> 60], depth |-> [YES |-> 1, NO |-> 1]],
     [ok |-> FALSE, cost |-> [YES |-> 101, NO |-> 101], depth |-> [YES |-> 0, NO |-> 0]]}
TwoMarkets ==
    [targets |-> <<1, 2>>, length |-> 4, tolerance |-> 1, quotes |-> HotQuotes,
     chances |-> {20, 80}, bookAge |-> 1, underlyingAge |-> 2, minSecs |-> 1,
     minEdge |-> 2, minDepth |-> 1, deadline |-> 3, maxClock |-> 5]
HotPart == INSTANCE HotPath WITH
    Targets <- Hot.targets, Length <- Hot.length, Tolerance <- Hot.tolerance,
    Quotes <- Hot.quotes, Chances <- Hot.chances, MaxBookAge <- Hot.bookAge,
    MaxUnderlyingAge <- Hot.underlyingAge, MinSecs <- Hot.minSecs,
    MinEdge <- Hot.minEdge, MinDepth <- Hot.minDepth, Deadline <- Hot.deadline,
    MaxClock <- Hot.maxClock,
    clock <- g1, pc <- g2, asked <- g3, flight <- g4, feeds <- g5, near <- g6,
    explicit <- g7, row <- g8
-----------------------------------------------------------------------------
IdleFrom9 == /\ g9 = "idle" /\ g10 = "idle" /\ g11 = "idle"
             /\ g12 = "idle" /\ g13 = "idle" /\ g14 = "idle"
IdleFrom6 == g6 = "idle" /\ g7 = "idle" /\ g8 = "idle" /\ IdleFrom9
AllIdle == /\ g1 = "idle" /\ g2 = "idle" /\ g3 = "idle" /\ g4 = "idle" /\ g5 = "idle"
           /\ IdleFrom6

PartInit ==
    \/ part \in {"two", "crash"} /\ StagedFirst(FirstStaged) /\ AllIdle
    \/ part = "undo" /\ StagedFirst(<<>>) /\ AllIdle
    \/ /\ StagedFirst(<<>>)
       /\ \/ part = "gates" /\ Live!GateInit /\ IdleFrom6
          \/ part = "session" /\ Live!SessionInit /\ IdleFrom6
          \/ part = "feeds" /\ Feeds!Init
          \/ part \in {"rows", "cycle"} /\ RowPart!Init(Rows.plays[part]) /\ g14 = "idle"
          \/ part = "hot" /\ HotPart!Init /\ IdleFrom9

\* Commands of the first series alone.
OneSeries == \A p \in Operators : op'[p] # Idle => op'[p].series = "BTC"
Promotion ==
    \/ part = "two" /\ UNCHANGED staged /\ Step /\ OneSeries
       /\ NamesOnce /\ Within(MaxStaged, MaxCopies, MaxTime)
    \/ part = "crash" /\ UNCHANGED staged /\ (Step \/ Lose) /\ Alone
       /\ Within(MaxStaged, 5, 2)
    \/ part = "undo" /\ Step /\ OneSeries /\ Alone
       /\ NamesOnce /\ Within(3, MaxCopies, MaxTime)
Decision ==
    \/ part = "gates" /\ Live!OperatorNext /\ UNCHANGED from6
    \/ part = "session" /\ Live!SessionNext /\ UNCHANGED from6
    \/ part = "feeds" /\ Feeds!Next
    \/ part \in {"rows", "cycle"} /\ RowPart!Next(Rows.plays[part]) /\ UNCHANGED g14
    \/ part = "hot" /\ HotPart!Next /\ UNCHANGED from9
PartNext ==
    /\ UNCHANGED part
    /\ \/ Promotion /\ UNCHANGED gs
       \/ Decision /\ UNCHANGED vars

PartSpec == PartInit /\ [][PartNext]_allVars
-----------------------------------------------------------------------------
(* Properties: ServedPairVetted in every part, and these.                   *)

\* What is in force stays so until it is replaced, if no two files get one name,
\* and a swap or a rollback keeps the model, if it is the only command
\* (PaperPromotion).
PromotionKept ==
    [][/\ part # "crash" => StaysUntilReplaced
       /\ part # "two" => KeepsModel]_allVars
\* See PaperPromotion: swaps can be rolled back, one after the other.
SwapsCanBeUndone == part = "undo" => CanUndo

\* What leads to an order is sound.  The lists of what locks live trading agree
\* and their headline survives slips, nothing is ever said to be ready for
\* submission, a valid plan is the one that was meant, and what the risk manager
\* approves stays within its limits taken together (LiveGates); a row's prices are
\* as fresh as the interval promises, and what passes by its own ages the health
\* of the sources does not contradict (FeedFreshness); the context of a row is the
\* newest, its decision one that pays, and what is told of it at the end of the
\* cycle true (FeatureRows); and the fast loop decides on the venue's book while the market is
\* open (HotPath).
NothingGoesLive ==
    /\ part \in {"gates", "session"} => Live!GatesHold
    /\ part = "feeds" => Feeds!FreshnessHolds
    /\ part \in {"rows", "cycle"} => RowPart!RowsHold
    /\ part = "hot" => HotPart!DecidesOnTheMarket

\* What a row says of the feeds is what all that was received says (FeatureRows).
RowsReadHistory == part \in {"rows", "cycle"} => RowPart!RowReadsHistory
=============================================================================
