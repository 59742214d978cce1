------------------------------ MODULE MCResearch ------------------------------
(***************************************************************************)
(* The judging of models and strategies on recorded data.  The parts share *)
(* no state and each is checked by itself: a behaviour is one of part      *)
(* `which`.  The variables of a part are the first of s1 .. s10, and the   *)
(* others are idle.  The positions and the backtest see the same kinds of  *)
(* rows.                                                                   *)
(***************************************************************************)
EXTENDS EntryPolicy

CONSTANTS
    MinSell, HardSell, ExitBelow, LockBelow, AllowPartialExit,
    Tickers, LastRows, Size, LockMinSecs, MaxEntries, MaxFills,
    Day, MaxRows, MaxStep,
    Top, MaxSize, MinuteLength, Close, Improve,
    Miners, Spaces, NoTape, MaxWindow, Embargo, MinPanel, Offsets, MaxTrials,
    MaxRuns,
    LastWindow, Late, Embargoes, MinTrain, MinCalibration, WalkSplits, Groups,
    TestGroups,
    EdgeMinRaw, MinFinal, MinProfit, FixedBuffer, MaxDisagreement,
    MinBucketRows, MaxWidth, StaleBuffer, SourceBuffer, RegimeBuffer, ThinBuffer,
    MinBookDepth, MaxBookAge, FeedMaxAge, MaxUnderlying, AllowFallback,
    RequirePrimary, Chances, MaxSettled,
    FarBps, ShockBps, StudyDepth, StudyMinSecs, StudyMaxSecs,
    StudyBuffer, StudyMinEdge, DedupeTime, DedupePrice, WindowClose, Gap,
    MaxRecorded,
    CycleWindow, FlowPercent, CycleTolerance, MoveDetect, CycleClose, CycleGap, MaxCycleRows

VARIABLES which, s1, s2, s3, s4, s5, s6, s7, s8, s9, s10

vars == <<which, s1, s2, s3, s4, s5, s6, s7, s8, s9, s10>>
-----------------------------------------------------------------------------
(* A few rows, markets made of them, and what may be wrong with the model, *)
(* the calibrator or the backtest.                                         *)

\* A sound row at which YES is offered at yesAsk and NO at noAsk.
Row(yesAsk, noAsk, chance) ==
    [bid |-> [s \in Sides |-> 100 - (IF s = "YES" THEN noAsk ELSE yesAsk)],
     depth |-> [s \in Sides |-> 2], spread |-> yesAsk + noAsk - 100,
     raw |-> 60, calibrated |-> chance, secs |-> 100, at |-> 0,
     bookOk |-> TRUE, bookOld |-> FALSE, underlying |-> TRUE,
     underlyingOld |-> FALSE, reference |-> TRUE, healthy |-> TRUE,
     deribitOld |-> FALSE, sameSchema |-> TRUE]
Cheap == Row(45, 57, 60)        \* YES is worth buying
Risen == Row(62, 40, 62)        \* and, bought at 45, worth locking
Exact == Row(53, 49, 40)        \* the lock's minimum to the cent
Short == Row(52, 50, 40)        \* a cent short of it
Fallen == Row(60, 42, 30)       \* NO is worth buying
Unsure == Row(45, 57, 50)       \* just enough for the backtest
EarlyKinds == {Cheap, Risen, Fallen}
\* These are not entered, whatever follows.
FlawedKinds ==
    {[Cheap EXCEPT !.bookOld = TRUE], [Cheap EXCEPT !.deribitOld = TRUE],
     [Cheap EXCEPT !.calibrated = None]}
LateKinds ==
    {Cheap, Risen, Exact, Short, Fallen, [Risen EXCEPT !.depth["NO"] = 1],
     [Risen EXCEPT !.healthy = FALSE]}
AnyKinds ==
    {Cheap, Fallen, Short, Unsure, [Cheap EXCEPT !.underlyingOld = TRUE],
     [Fallen EXCEPT !.bookOld = TRUE], [Cheap EXCEPT !.depth["YES"] = 0],
     [Cheap EXCEPT !.calibrated = None]}

At(row, time) == [row EXCEPT !.at = time]
OneMarket(start) ==
    {[rows |-> <<At(a, start), At(b, start + 2)>>, label |-> l] :
        a \in EarlyKinds, b \in LateKinds, l \in Sides}
    \cup {[rows |-> <<At(a, start), At(Cheap, start + 2)>>, label |-> "YES"] :
             a \in FlawedKinds}
SecondMarket == [rows |-> <<At(Cheap, 2), At(Exact, 4)>>, label |-> "NO"]
TwoMarkets == {[t \in Tickers |-> IF t = "m1" THEN m ELSE SecondMarket] :
                  m \in OneMarket(1)}

Sound == [model |-> [exists |-> TRUE, trained |-> TRUE, diagnostic |-> FALSE],
          calibrator |-> [exists |-> TRUE, valid |-> TRUE, diagnostic |-> FALSE],
          backtest |-> [exists |-> TRUE, valid |-> TRUE, windows |-> MinWindows]]
OneFlawed ==
    {Sound, [Sound EXCEPT !.model.exists = FALSE, !.model.trained = FALSE],
     [Sound EXCEPT !.model.trained = FALSE],
     [Sound EXCEPT !.model.diagnostic = TRUE],
     [Sound EXCEPT !.calibrator.exists = FALSE, !.calibrator.valid = FALSE],
     [Sound EXCEPT !.calibrator.valid = FALSE],
     [Sound EXCEPT !.calibrator.diagnostic = TRUE],
     [Sound EXCEPT !.backtest.exists = FALSE, !.backtest.valid = FALSE],
     [Sound EXCEPT !.backtest.valid = FALSE]}
Exactness == {{}, {"min", "hard", "ride", "rideMin", "beats", "net", "raw"}}

\* The backtest's gates as configured; a scenario with the same limits, one
\* with cooldowns, and one that re-enters on the other side.
BacktestGates ==
    [fresh |-> {"book", "underlying"}, minSecs |-> MinSecs, maxSecs |-> MaxSecs,
     spread |-> 100, depth |-> 1, buffer |-> 0, net |-> MinNet]
Base == [base |-> TRUE, net |-> MinNet, minSecs |-> MinSecs, maxSecs |-> MaxSecs,
         spread |-> 10, depth |-> 1, perWindow |-> 1, several |-> FALSE,
         otherSide |-> FALSE, afterEntry |-> 0, afterReject |-> 0, daily |-> 100]
Frontier ==
    {Base,
     [Base EXCEPT !.base = FALSE, !.perWindow = 3, !.several = TRUE,
                  !.afterEntry = 2, !.daily = 2],
     [Base EXCEPT !.base = FALSE, !.perWindow = 2, !.several = TRUE,
                  !.otherSide = TRUE, !.afterReject = 1]}

\* Rows as the edge policy sees them: prices around every chance, and one
\* thing at a time that may be wrong with a row that is worth buying.
Quoted(yesAsk, noAsk, chance) ==
    [bid |-> [s \in Sides |-> IF s = "YES"
                              THEN IF noAsk = None THEN None ELSE 100 - noAsk
                              ELSE 100 - yesAsk],
     depth |-> [s \in Sides |-> 2], spread |-> 2, calibrated |-> chance,
     secs |-> 100, bookOk |-> noAsk # None, underlying |-> TRUE,
     bookAge |-> 3, spotAge |-> 20, perpAge |-> 20, highVol |-> FALSE]
Priced == {Quoted(p - d, 102 - p + d, p) : p \in Chances, d \in {-19, 0, 9, 13, 19}}
Doubtful(row) ==
    {[row EXCEPT !.spotAge = 60], [row EXCEPT !.perpAge = 60],
     [row EXCEPT !.spotAge = None], [row EXCEPT !.perpAge = None],
     [row EXCEPT !.spotAge = None, !.perpAge = None],
     [row EXCEPT !.bookAge = 8], [row EXCEPT !.bookAge = 12],
     [row EXCEPT !.bookAge = None], [row EXCEPT !.highVol = TRUE],
     [row EXCEPT !.depth["YES"] = 0], [row EXCEPT !.depth["NO"] = 0],
     [row EXCEPT !.calibrated = None]}
JudgedRows ==
    Priced \cup {Quoted(50, None, 69)}
    \cup Doubtful(Quoted(50, 52, 69)) \cup Doubtful(Quoted(60, 42, 41))
\* Few rows of one prediction, so that buckets are small, wide or neither.
RowsOf == [p \in Chances |-> IF p = 41 THEN 16 ELSE 40]
\* The sweep's axes, the loosest value first.
SweepAxes == [minRaw |-> <<2, 3, 5, 7, 10>>, rows |-> <<10, 20, 30, 50>>,
              width |-> <<20, 16, 12, 8>>, regime |-> <<0, 2, 4>>]

\* Joined rows: quiet, jumps up with the quotes left behind, and what may be
\* different.  Returns are in basis points, times in quarters of a second.
Quiet == [spotReturn |-> 0, perpReturn |-> 1, ask |-> [s \in Sides |-> 51],
          chances |-> {50, 52}, depth |-> [s \in Sides |-> 2], fresh |-> TRUE,
          line |-> TRUE, at |-> 0]
Jumped == [Quiet EXCEPT !.spotReturn = 12, !.perpReturn = 9, !.chances = {64, 70}]
JoinedKinds ==
    {Quiet, Jumped,
     [Jumped EXCEPT !.line = FALSE],            \* the line comes with the label
     [Jumped EXCEPT !.chances = {52, 70}],      \* the venues differ
     [Jumped EXCEPT !.ask["YES"] = 46],         \* a cheaper quote
     [Quiet EXCEPT !.perpReturn = -12, !.chances = {34, 36}],
     [Jumped EXCEPT !.fresh = FALSE]}
\* What HORIZON_TOL allows at 250, 500, 1000 and 2000 ms.
Studied == {1, 2, 4, 8}
Tolerances == [h \in Studied |->
                  CASE h = 1 -> 1 [] h = 2 -> 2 [] h = 4 -> 3 [] h = 8 -> 6]

\* Feature rows, every few seconds: times in half seconds, returns over 5 and
\* 15 s.  A long return that reaches its floor only, a flow against the return,
\* and a quote that has moved.
Calm == [returns |-> [h \in {5, 15} |-> 1], normed |-> {}, flow |-> 1,
         chance |-> 50, ask |-> [s \in Sides |-> 51],
         depth |-> [s \in Sides |-> 2], fresh |-> TRUE, at |-> 0]
Shocked == [Calm EXCEPT !.returns[5] = 6, !.chance = 64]
CycleKinds ==
    {Calm, Shocked,
     [Shocked EXCEPT !.returns[5] = 1, !.returns[15] = -6, !.chance = 36],
     [Shocked EXCEPT !.returns[5] = 5, !.returns[15] = 9, !.flow = -4],
     [Shocked EXCEPT !.returns[5] = 2, !.returns[15] = 3, !.flow = 3],  \* the flow
     [Shocked EXCEPT !.returns[5] = 2, !.normed = {5}, !.flow = 5],
     [Shocked EXCEPT !.ask["YES"] = 62, !.ask["NO"] = 40]}
CycleFloor == [h \in {5, 15} |-> IF h = 5 THEN 3 ELSE 4]
CycleDefault == [h \in {5, 15} |-> IF h = 5 THEN 5 ELSE 8]
-----------------------------------------------------------------------------
Positions == INSTANCE PaperPositions WITH
    Markets <- TwoMarkets, Knowns <- OneFlawed, Noises <- Exactness,
    markets <- s1, known <- s2, settled <- s3, entries <- s4, fills <- s5,
    replay <- s6
Backtest == INSTANCE ExecutableBacktest WITH
    Windows <- Tickers, RowKinds <- AnyKinds, Known <- Sound,
    Gates <- BacktestGates, Scenarios <- Frontier, Size <- 1,
    scenario <- s1, noise <- s2, clock <- s3, rows <- s4, last <- s5,
    trades <- s6, accepted <- s7, lastReject <- s8, days <- s9, odd <- s10
Maker == INSTANCE MakerEntry WITH
    clock <- s1, bids <- s2, offers <- s3, snaps <- s4, prints <- s5,
    order <- s6, ahead <- s7, truth <- s8
Mining == INSTANCE Discovery WITH
    FirstWindows <- 1 .. MinPanel, MinWindows <- MinPanel,
    labelled <- s1, draw <- s2, run <- s3, registry <- s4, validated <- s5

Training == INSTANCE WindowTraining WITH
    settled <- s1, promoted <- s2, study <- s3
Edge == INSTANCE EdgePolicy WITH
    MarketRows <- JudgedRows, WindowRows <- RowsOf, Axes <- SweepAxes,
    EdgeNoises <- {{"net", "raw"}},
    settled <- s1, buckets <- s2, running <- s3, last <- s4
Lag == INSTANCE RepriceLag WITH
    Kinds <- JoinedKinds, Horizons <- Studied, Tolerance <- Tolerances,
    joined <- s1, outcome <- s2, study <- s3
Cycle == INSTANCE CycleLag WITH
    Kinds <- CycleKinds, ReturnHorizons <- {5, 15}, Floor <- CycleFloor,
    Default <- CycleDefault, Horizons <- {2, 4, 10, 20},
    Tolerance <- CycleTolerance, DedupWindow <- CycleWindow,
    WindowClose <- CycleClose, Gap <- CycleGap, MaxRecorded <- MaxCycleRows,
    rows <- s1, outcome <- s2, study <- s3

IdleFrom9 == s9 = "idle" /\ s10 = "idle"
IdleFrom7 == s7 = "idle" /\ s8 = "idle" /\ IdleFrom9
IdleFrom5 == s5 = "idle" /\ s6 = "idle" /\ IdleFrom7
IdleFrom4 == s4 = "idle" /\ IdleFrom5
Init ==
    \/ /\ which = "positions" /\ Positions!Init /\ IdleFrom7
       /\ s2 # Sound => s1["m1"].rows[1] = At(Cheap, 1)   \* flaws matter there
    \/ which = "backtest" /\ Backtest!Init
    \/ which = "maker" /\ Maker!Init /\ IdleFrom9
    \/ which = "mining" /\ Mining!Init /\ s6 = "idle" /\ IdleFrom7
    \/ which = "training" /\ Training!TrainInit /\ IdleFrom4
    \/ which = "edge" /\ Edge!EdgeInit /\ IdleFrom5
    \/ which = "lag" /\ Lag!LagInit /\ IdleFrom4
    \/ which = "cycle" /\ Cycle!CycleInit /\ IdleFrom4

From9 == <<which, s9, s10>>
From7 == <<s7, s8, From9>>
From5 == <<s5, s6, From7>>
From4 == <<s4, From5>>
Next ==
    \/ which = "positions" /\ Positions!Next /\ UNCHANGED From7
    \/ which = "backtest" /\ Backtest!Next /\ UNCHANGED which
    \/ which = "maker" /\ Maker!Next /\ UNCHANGED From9
    \/ which = "mining" /\ Mining!Next /\ UNCHANGED <<s6, From7>>
    \/ which = "training" /\ Training!TrainNext /\ UNCHANGED From4
    \/ which = "edge" /\ Edge!EdgeNext /\ UNCHANGED From5
    \/ which = "lag" /\ Lag!LagNext /\ UNCHANGED From4
    \/ which = "cycle" /\ Cycle!CycleNext /\ UNCHANGED From4

Spec == Init /\ [][Next]_vars

ASSUME ResearchAssumption ==
    /\ Maker!MakerAssumption /\ Positions!PositionsAssumption
    /\ Backtest!BacktestAssumption /\ Edge!EdgeAssumption
    /\ Mining!MiningAssumption /\ Training!TrainingAssumption
    /\ Lag!LagAssumption /\ Cycle!CycleAssumption
-----------------------------------------------------------------------------
(* Properties: those of the parts.                                         *)

\* Locked pairs pay what was promised, in the account of positions and in the
\* replay of them (PaperPositions).
LockKeepsItsPromise ==
    which = "positions" =>
        Positions!LockKeepsItsPromise /\ Positions!ReplayRealisesMinimum
\* A lock that is recorded is read back as it was announced (PaperPositions).
LockFillsReload == [][which = "positions" => Positions!LockFillReloads]_vars
\* The policy acts on what was announced and on what the backtest has traded
\* (PaperPositions, ExecutableBacktest), and at run time on rows that pay at
\* worst (EdgePolicy).
CandidatesAreSupported ==
    /\ which = "edge" => Edge!EdgeIsSound
    /\ which = "positions" => Positions!CandidatesAreAnnounced
    /\ which = "backtest" => Backtest!CandidateIsBacktested
\* What is reported as traded on recorded rows would have been: the frontier
\* replays the backtest within its caps (ExecutableBacktest), and a fill of a
\* resting order that is taken for certain is one (MakerEntry).
ReplaysAreReal ==
    /\ which = "backtest" =>
          Backtest!FrontierIsBacktest /\ Backtest!FrontierCapsHold
    /\ which = "maker" => Maker!FillsAreReal
\* What a survivor is validated on is out of reach of the search, and it has
\* beaten every trial that was counted (Discovery); what a model is judged on
\* is out of reach of its fitting (WindowTraining).
VaultHolds ==
    /\ which = "mining" =>
          /\ Mining!SeamEmbargoed /\ Mining!SameDataSameSeal
          /\ Mining!BudgetCoversSameData
    /\ which = "training" => Training!DividedFairly
\* What a study of quotes left behind reports, it would have found at the time
\* (RepriceLag, CycleLag).
StudiesHold ==
    /\ which = "lag" => Lag!LagIsSound
    /\ which = "cycle" => Cycle!CycleIsSound
=============================================================================
