----------------------------- MODULE MCRecorders -----------------------------
(***************************************************************************)
(* The recording processes that do not share any state, each checked by    *)
(* itself: a behaviour is one of part `which`.  The variables of a part    *)
(* other than the book feed are the first of s1 .. s13, and all others are *)
(* idle.                                                                   *)
(***************************************************************************)
EXTENDS KalshiBookFeed

CONSTANTS
    Rotate, Grace, RetainFor, MaxSegs, MaxRows, SegmentsClock,
    PollWindow, NearHandoff, Overrun, Pages, RediscoverNear, RediscoverFar,
    PollClock,
    MaxQueue, MaxBuffer, MinGap, UnitsPerSecond, MaxPerSecond, AggTrade,
    CollectorClock,
    Markets, Length, Lead, SettleAfter, CycleLength, DeadlineGrace, MaxMarkets,
    AvgWindow, Tolerance, MinAvg, MaxAge, MarketClock,
    BackOff, Late, PageCap, SeenCap, Chunk, MaxTrades, TradeClock,
    SettledMarkets, MaxLabels, LabelsClock

VARIABLES which, s1, s2, s3, s4, s5, s6, s7, s8, s9, s10, s11, s12, s13

ss == <<s1, s2, s3, s4, s5, s6, s7, s8, s9, s10, s11, s12, s13>>
allVars == <<feedVars, which, ss>>

MaxEvents == [s \in {"coinbase", "binance", "kalshi"} |->
                 IF s = "coinbase" THEN 1 ELSE 2]

Segments == INSTANCE HiResSegments WITH
    MaxClock <- SegmentsClock, clock <- s1, row <- s2, open <- s3, files <- s4,
    gz <- s5, queue <- s6, job <- s7, scan <- s8, torn <- s9
Poller == INSTANCE KalshiRestPoller WITH
    WindowLength <- PollWindow, MaxClock <- PollClock,
    clock <- s1, pc <- s2, began <- s3, since <- s4, page <- s5, found <- s6,
    active <- s7, lastDisc <- s8, row <- s9
Collector == INSTANCE HiResCollector WITH
    MaxClock <- CollectorClock, clock <- s1, log <- s2, taken <- s3, gone <- s4,
    buffers <- s5, lastJoined <- s6, join <- s7, over <- s8, pc <- s9
Market == INSTANCE MarketCollector WITH
    MaxClock <- MarketClock, clock <- s1, priced <- s2, pc <- s3, ref <- s4,
    found <- s5, punctual <- s6, targets <- s7, deadline <- s8, first <- s9,
    spot <- s10, perp <- s11, cache <- s12, start <- s13
Prints == INSTANCE TradePrints WITH
    MaxClock <- TradeClock, clock <- s1, tape <- s2, watermark <- s3, seen <- s4,
    disk <- s5, fill <- s6, cut <- s7
Labels == INSTANCE SettlementLabels WITH
    Markets <- SettledMarkets, MaxRows <- MaxLabels, MaxClock <- LabelsClock,
    venue <- s1, seen <- s2, recorded <- s3, features <- s4, job <- s5,
    labels <- s6, clock <- s7

IdleFrom10 == s10 = "idle" /\ s11 = "idle" /\ s12 = "idle" /\ s13 = "idle"
IdleFrom8 == s8 = "idle" /\ s9 = "idle" /\ IdleFrom10
IdleFrom7 == s7 = "idle" /\ IdleFrom8
AllIdle == /\ s1 = "idle" /\ s2 = "idle" /\ s3 = "idle" /\ s4 = "idle"
           /\ s5 = "idle" /\ s6 = "idle" /\ IdleFrom7
AllInit ==
    /\ Init
    /\ \/ which = "feed" /\ AllIdle
       \/ which = "segments" /\ Segments!Init /\ IdleFrom10
       \/ which = "poller" /\ Poller!Init /\ IdleFrom10
       \/ which = "collector" /\ Collector!Init /\ IdleFrom10
       \/ which = "market" /\ Market!Init
       \/ which = "prints" /\ Prints!Init /\ IdleFrom8
       \/ which = "labels" /\ Labels!Init /\ IdleFrom8

From10 == <<which, feedVars, s10, s11, s12, s13>>
From8 == <<s8, s9, From10>>
AllNext ==
    \/ which = "feed" /\ Next /\ UNCHANGED <<which, ss>>
    \/ which = "segments" /\ Segments!Next /\ UNCHANGED From10
    \/ which = "poller" /\ Poller!Next /\ UNCHANGED From10
    \/ which = "collector" /\ Collector!Next /\ UNCHANGED From10
    \/ which = "market" /\ Market!Next /\ UNCHANGED <<which, feedVars>>
    \/ which = "prints" /\ Prints!Next /\ UNCHANGED From8
    \/ which = "labels" /\ Labels!Next /\ UNCHANGED From8

AllSpec == AllInit /\ [][AllNext]_allVars

ASSUME RecordersAssumption ==
    /\ Poller!PollerAssumption /\ Collector!CollectorAssumption
    /\ Market!MarketAssumption /\ Prints!PrintsAssumption /\ Segments!SegmentsAssumption
    /\ Labels!LabelsAssumption
-----------------------------------------------------------------------------
(* Properties: BookWasTrue of the book feed, and those of all the parts.    *)

\* What a recorder has written or received is not lost: rows that were flushed
\* (HiResSegments), events that its sources delivered (HiResCollector), trades
\* that the poller has moved past or a backfill has gone over (TradePrints).
NothingIsLost ==
    /\ which = "segments" => Segments!RowsSurvive
    /\ which = "collector" => Collector!NothingLeftBehind
    /\ which = "prints" => Prints!PassedOnlyIfKept /\ Prints!BackfillCompletes
\* Rows are those of a market that is running, or that the venue has opened a
\* little early: the rows of both book sources, which may outlast the window by
\* the timeout of a receive call (KalshiBookFeed) or by the calls of a lookup
\* (KalshiRestPoller), and of the collector's cycle, which does not outlast the
\* window it follows (MarketCollector).
CyclesAreTimely ==
    /\ RowsAreTimely
    /\ which = "poller" => Poller!RowsAreTimely
    /\ which = "market" => Market!FollowsTheWindow /\ Market!ScoredInWindow
\* A row is joined with the newest samples received before it (HiResCollector).
JoinedPointInTime == which = "collector" => Collector!JoinedPointInTime
\* What repairs a recording does, and what is known stays known: a finished
\* compaction leaves no half-written copy (HiResSegments), the label command
\* leaves no market without its label that was settled when it began, and the
\* windows that count towards the gate are never fewer (SettlementLabels), and a
\* market's start price keeps the first source that answered (MarketCollector).
RepairsLast ==
    [][/\ which = "segments" => Segments!CompactionRepaired
       /\ which = "labels" => Labels!BackfillCaughtUp /\ Labels!GateHeld
       /\ which = "market" => Market!ReferenceIsKept]_allVars

\* The walk down the offers costs what the cheapest fill costs, and takes as
\* much as there is.
ASSUME DepthWalkIsCheapest ==
    \A prices \in SUBSET {2, 40, 97} : \A asks \in [prices -> 0 .. 2] :
        \A qty \in 1 .. 4 :
            /\ DepthWalk(asks, qty).cost = CheapestFill(asks, qty)
            /\ \E fill \in Fills(asks, qty) :
                  MapThenSumSet(LAMBDA p : fill[p], prices)
                      = DepthWalk(asks, qty).size
=============================================================================
