------------------------- MODULE ExecutableBacktest -------------------------
(***************************************************************************)
(* The evidence a model is judged by: the executable backtest              *)
(* (executable_backtest.py), which enters a window at the first row that   *)
(* passes its gates, and the frequency frontier (trade_frequency.py),      *)
(* which replays the same rows under caps and cooldowns.  Both pass once   *)
(* over the rows in order of time, so a state is a prefix of the rows with *)
(* what either has decided on it.  EntryPolicy decides on the same rows    *)
(* when the model is run.                                                  *)
(***************************************************************************)
EXTENDS EntryPolicy

CONSTANTS
    Windows,
    RowKinds,       \* the rows a market may show
    Known,          \* what EntryPolicy knows of model, calibrator, backtest
    Gates,          \* BacktestParams
    Scenarios,      \* FrequencyScenario, those that are swept
    Size,           \* contracts
    Day,            \* length of a day
    MaxRows, MaxStep    \* bounds: rows, time from one to the next

VARIABLES
    scenario, noise,
    clock, rows,    \* number of rows so far
    last,           \* the last one, if any: <<row>>
    trades,         \* window :> its trades in the backtest: [at, side]
    accepted,       \* window :> its trades in the frontier, likewise
    lastReject,     \* window :> time of the last row the scenario's gates refused
    days,           \* day :> trades accepted
    odd             \* windows where the two are not comparable

vars == <<scenario, noise, clock, rows, last, trades, accepted, lastReject, days, odd>>

\* A plausible mistake: the model's probability comes first.
ProbFor_raw(row) == IF row.raw # None THEN row.raw ELSE row.calibrated
\* The calibrated probability, or else the model's.
ProbFor(row) == IF row.calibrated # None THEN row.calibrated ELSE row.raw

\* gates: [fresh, minSecs, maxSecs, spread, depth, buffer, net], `fresh` being
\* the ages that are looked at.
Passes(row, gates) ==
    /\ ProbFor(row) # None
    /\ row.bookOk /\ \A side \in Sides : Ask(row.bid, side) # None
    /\ row.reference
    /\ row.secs > 0 /\ row.secs >= gates.minSecs /\ row.secs <= gates.maxSecs
    /\ "book" \in gates.fresh => ~row.bookOld
    /\ "underlying" \in gates.fresh => ~row.underlyingOld
    /\ row.healthy
    /\ row.spread <= gates.spread
    /\ row.depth["YES"] + row.depth["NO"] >= gates.depth

Net(row, side, gates) ==
    RawEdge(row, side, ProbFor(row)) - TakerFee(Ask(row.bid, side), 1) - gates.buffer

\* A plausible mistake: YES is tried first, and taken when it is good enough.
Best_first(row, gates) == IF Net(row, "YES", gates) >= gates.net THEN "YES" ELSE "NO"
Best(row, gates) ==
    IF Net(row, "YES", gates) >= Net(row, "NO", gates) THEN "YES" ELSE "NO"

\* A row the backtest would enter, on its better side.
EvaluateRow(row, gates, ties) ==
    /\ Passes(row, gates)
    /\ row.depth[Best(row, gates)] >= Size
    /\ Exceeds(Net(row, Best(row, gates), gates), gates.net, "net", ties)
-----------------------------------------------------------------------------
\* extract_candidates: the gates that no scenario loosens.
Permissive == [fresh |-> {}, minSecs |-> 0, maxSecs |-> 1000000, spread |-> 100,
               depth |-> 0, buffer |-> 0, net |-> -1000000]

\* The scenario's own gates; a refusal is remembered.
ScenarioPasses(row) ==
    LET side == Best(row, Permissive)
    IN /\ Net(row, side, Permissive) >= scenario.net /\ Net(row, side, Permissive) # 0
       /\ RawEdge(row, side, ProbFor(row)) > 0
       /\ row.secs >= scenario.minSecs /\ row.secs <= scenario.maxSecs
       /\ ~row.bookOld /\ row.spread <= scenario.spread
       /\ row.depth["YES"] + row.depth["NO"] >= scenario.depth

\* A plausible mistake: the cooldown is counted from the window's first entry.
Rested_fromFirst(window) ==
    accepted[window] # <<>> => clock - accepted[window][1].at >= scenario.afterEntry
Rested(window) ==
    accepted[window] # <<>> =>
        clock - accepted[window][Len(accepted[window])].at >= scenario.afterEntry

\* The caps and cooldowns of a window and of a day.
WithinCaps(window, side) ==
    /\ Len(accepted[window]) < scenario.perWindow
    /\ accepted[window] # <<>> =>
          /\ scenario.several
          /\ scenario.otherSide =>
                \A i \in DOMAIN accepted[window] : accepted[window][i].side # side
    /\ Rested(window)
    /\ lastReject[window] # None => clock - lastReject[window] >= scenario.afterReject
    /\ days[clock \div Day] < scenario.daily
-----------------------------------------------------------------------------
Init ==
    /\ scenario \in Scenarios
    /\ noise \in {{}, {"net"}}
    /\ clock = 0 /\ rows = 0
    /\ last = <<>>
    /\ trades = [w \in Windows |-> <<>>]
    /\ accepted = [w \in Windows |-> <<>>]
    /\ lastReject = [w \in Windows |-> None]
    /\ days = [d \in {t \div Day : t \in 0 .. MaxRows * MaxStep} |-> 0]
    /\ odd = {}

\* The backtest's look at the row.
BacktestRow(window, row) ==
    LET side == Best(row, Gates)
    IN trades' = IF trades[window] = <<>> /\ EvaluateRow(row, Gates, noise)
                 THEN [trades EXCEPT ![window] = <<[at |-> clock, side |-> side]>>]
                 ELSE trades

\* The frontier's.
FrontierRow(window, row) ==
    LET side == Best(row, Permissive)
        candidate == EvaluateRow(row, Permissive, noise)
        refused == candidate /\ ~ScenarioPasses(row)
        takes == candidate /\ ~refused /\ WithinCaps(window, side)
    IN /\ lastReject' = IF refused THEN [lastReject EXCEPT ![window] = clock] ELSE lastReject
       /\ accepted' = IF takes
                      THEN [accepted EXCEPT ![window] =
                                Append(@, [at |-> clock, side |-> side])]
                      ELSE accepted
       /\ days' = IF takes THEN [days EXCEPT ![clock \div Day] = @ + 1] ELSE days

\* Rows on which the two differ: they are exactly at the limit, their underlying
\* is old, which the frontier does not look at, their spread is within the
\* backtest's limit only, or the frontier has had the day's trades.
Incomparable(row) ==
    Passes(row, Permissive) /\
        \/ row.underlyingOld \/ Net(row, Best(row, Gates), Gates) = Gates.net
        \/ row.spread > scenario.spread \/ days[clock \div Day] >= scenario.daily

Row(window, row) ==
    /\ rows < MaxRows
    /\ rows' = rows + 1
    /\ last' = <<row>>
    /\ BacktestRow(window, row)
    /\ FrontierRow(window, row)
    /\ odd' = IF Incomparable(row) THEN odd \cup {window} ELSE odd
    /\ UNCHANGED <<scenario, noise, clock>>

Pass(step) ==
    /\ clock + step <= MaxRows * MaxStep
    /\ clock' = clock + step
    /\ UNCHANGED <<scenario, noise, rows, last, trades, accepted, lastReject, days, odd>>

Next ==
    \/ \E w \in Windows, row \in RowKinds : Row(w, row)
    \/ \E step \in 1 .. MaxStep : Pass(step)

Spec == Init /\ [][Next]_vars
-----------------------------------------------------------------------------
(* Properties.                                                             *)

\* With one entry a window and the backtest's limits, the frontier takes the
\* very trades of the backtest (simulate_frequency_policy, simulate_backtest).
FrontierIsBacktest ==
    scenario.base => \A w \in Windows \ odd : accepted[w] = trades[w]

\* What the policy would act on is a trade of the backtest, on the same side,
\* if the book is not crossed and offers enough: the evidence covers the
\* decisions taken on it (evaluate_policy, evaluate_row).
CandidateIsBacktested ==
    \A i \in DOMAIN last :
        LET row == last[i]
            verdict == EvaluatePolicy(Known, row, noise)
        IN /\ Ask(row.bid, "YES") + Ask(row.bid, "NO") >= 100
           /\ verdict.state = "PAPER_CANDIDATE"
           /\ row.depth[verdict.side] >= Size
           => /\ EvaluateRow(row, Gates, noise)
              /\ Best(row, Gates) = verdict.side

\* Whatever the scenario, its caps bound every prefix of the replay: entries of
\* a window are few and far enough apart, and so are those of a day.
DayTrades(day) ==
    {p \in Windows \X (1 .. scenario.perWindow) :
        p[2] \in DOMAIN accepted[p[1]] /\ accepted[p[1]][p[2]].at \div Day = day}
FrontierCapsHold ==
    /\ \A w \in Windows :
          /\ Len(accepted[w]) <= scenario.perWindow
          /\ \A i, j \in DOMAIN accepted[w] :
                i < j => /\ accepted[w][j].at - accepted[w][i].at >= scenario.afterEntry
                         /\ scenario.otherSide => accepted[w][i].side # accepted[w][j].side
    /\ \A day \in DOMAIN days : Cardinality(DayTrades(day)) <= scenario.daily

\* The base scenario has the backtest's limits, but for the spread and the day's
\* trades, and its edge no buffer; the policy's limits are not looser than the
\* backtest's (the defaults of FrequencyScenario, BacktestParams and the config).
BacktestAssumption ==
    /\ {FeeRate, MaxRows, MaxStep, MinRaw, Buffer} \subseteq Nat
    /\ {MinNet, MinSecs, MaxSecs, MaxSpread, MinTopDepth, Size} \subseteq Int
    /\ MinSecs > 0 /\ MinRaw > 0 /\ Day \in Nat \ {0}
    /\ \A row \in RowKinds :
          /\ row.bid \in [Sides -> Int] /\ row.depth \in [Sides -> Int]
          /\ {row.raw, row.calibrated, row.secs, row.spread} \subseteq Int
    /\ Gates.net \in Nat /\ Gates.net <= MinNet /\ Gates.buffer = 0
    /\ Gates.fresh = {"book", "underlying"}
    /\ Gates.minSecs \in Nat /\ Gates.minSecs <= MinSecs
    /\ Gates.maxSecs \in MaxSecs .. Permissive.maxSecs
    /\ Gates.spread \in MaxSpread .. Permissive.spread
    /\ Gates.depth \in 0 .. MinTopDepth
    /\ \A s \in Scenarios :
          /\ {s.perWindow, s.afterEntry, s.daily} \subseteq Nat
          /\ {s.spread, s.net, s.minSecs, s.maxSecs, s.depth, s.afterReject} \subseteq Int
          /\ s.base =>
                /\ s.net = Gates.net /\ s.depth = Gates.depth
                /\ s.minSecs = Gates.minSecs /\ s.maxSecs = Gates.maxSecs
                /\ s.spread <= Gates.spread
                /\ s.perWindow = 1 /\ s.afterEntry = 0 /\ s.afterReject = 0

EntrySeqs == [Windows -> Seq([at : Nat, side : Sides])]
BacktestTypeOK ==
    /\ scenario \in Scenarios /\ clock \in 0 .. MaxRows * MaxStep
    /\ trades \in EntrySeqs /\ accepted \in EntrySeqs
    /\ lastReject \in [Windows -> Int]
    /\ days \in [{t \div Day : t \in 0 .. MaxRows * MaxStep} -> Nat]
    /\ \A i \in DOMAIN last : last[i] \in RowKinds

\* An inductive invariant: entries are in order of time, and the frontier's count
\* of a day is the number of its entries on that day.
BacktestInv ==
    /\ BacktestTypeOK
    /\ \A w \in Windows :
          /\ Len(trades[w]) <= 1 /\ lastReject[w] <= clock
          /\ \A i \in DOMAIN accepted[w] :
                /\ accepted[w][i].at <= clock
                /\ \A j \in DOMAIN accepted[w] :
                      i < j => accepted[w][i].at <= accepted[w][j].at
    /\ \A day \in DOMAIN days :
          days[day] = Cardinality(DayTrades(day)) /\ IsFiniteSet(DayTrades(day))
    /\ FrontierIsBacktest /\ FrontierCapsHold
=============================================================================
