--------------------------- MODULE PaperPositions ---------------------------
(***************************************************************************)
(* The life of simulated positions: the policy simulation enters them from *)
(* the rows of settled markets (policy_runtime.py), the loader adds up the *)
(* ledgers' lots whatever run wrote them, the lock module and the          *)
(* lifecycle manage what is open, and two replays ask what managing would  *)
(* have changed (lock_runtime.py, position_lifecycle_runtime.py).          *)
(*                                                                         *)
(* A recorded row is a record of prices, flags and the time `at` it is     *)
(* about.  A market's rows reach the dataset when its outcome is known,    *)
(* all at once.                                                            *)
(***************************************************************************)
EXTENDS EntryPolicy, PositionLifecycle, SequencesExt

CONSTANTS
    Tickers,
    Markets,        \* the functions from tickers to [rows, label] to try
    Knowns,         \* what may be known of model, calibrator and backtest
    LastRows,       \* the simulation's limit on rows
    Size,           \* paper_default_size
    Noises,         \* which comparisons may hold on equality
    LockMinSecs, MaxEntries, MaxFills

VARIABLES
    markets, known, \* as recorded
    settled,        \* the tickers whose outcome is known
    entries,        \* the policy's paper ledger: a sequence of lots
    fills,          \* the lock ledger: a sequence of lots
    replay          \* ticker :> what the last lifecycle replay found

vars == <<markets, known, settled, entries, fills, replay>>

\* build_model_dataset, cut to the last rows: rows of settled markets, [ticker,
\* index], in time order; rows of one time may come in any.
LatestRows ==
    LET keys == UNION {{<<t, i>> : i \in DOMAIN markets[t].rows} : t \in settled}
        at(key) == markets[key[1]].rows[key[2]].at
    IN  {rows \in BoundedSeq(keys, LastRows) :
            /\ IsInjective(rows)
            /\ \A i, j \in DOMAIN rows : i < j => at(rows[i]) <= at(rows[j])
            /\ \A key \in keys \ Range(rows) :
                  Len(rows) = LastRows /\ at(key) <= at(rows[1])}

\* Mutant: the lock ledger is not read back.
Lots_entriesOnly == entries
\* The lots of both ledgers, whatever run wrote them.
Lots == entries \o fills
\* load_open_paper_positions, for one ticker
Position(ticker) == FromLots(Lots, ticker)

\* Calibrated P(YES), only with a trained, plain model and a valid calibrator.
CalibratedProb(row) ==
    IF known.model.exists /\ known.model.trained /\ ~known.model.diagnostic
       /\ known.calibrator.exists /\ known.calibrator.valid
    THEN row.calibrated ELSE None

\* The rows carry no size for either bid, so the depth to sell into is zero.
InputFromRow(pos, row) ==
    [bookOk |-> row.bookOk, bookOld |-> row.bookOld,
     tooClose |-> row.secs < LockMinSecs, wide |-> row.spread > MaxSpread,
     ask |-> Ask(row.bid, Other(pos.held)),
     askDepth |-> row.depth[Other(pos.held)],
     bid |-> row.bid[pos.held], bidDepth |-> 0,
     chance |-> CalibratedProb(row), healthy |-> row.healthy]

LatestRow(ticker) == Last(markets[ticker].rows)
\* lock_decisions_for_open_positions, for one ticker
LockDecision(ticker, noise) ==
    LET pos == Position(ticker)
    IN  EvaluateLock(pos, InputFromRow(pos, LatestRow(ticker)), noise)
-----------------------------------------------------------------------------
\* The outcome of a market is published.
Settle(ticker) ==
    /\ ticker \notin settled
    /\ settled' = settled \cup {ticker}
    /\ UNCHANGED <<markets, known, entries, fills, replay>>

\* run_paper_policy_sim: the first candidate of each window becomes a lot.
RunPaperPolicySim(rows, noise) ==
    LET row(i) == markets[rows[i][1]].rows[rows[i][2]]
        verdict == [i \in DOMAIN rows |-> EvaluatePolicy(known, row(i), noise)]
        candidates == {i \in DOMAIN rows : verdict[i].state = "PAPER_CANDIDATE"}
        first == {i \in candidates :
                     \A j \in candidates : rows[j][1] = rows[i][1] => i <= j}
        lot(i) == LET ask == Ask(row(i).bid, verdict[i].side)
                  IN  [ticker |-> rows[i][1], side |-> verdict[i].side,
                       qty |-> Size, price |-> ask, fee |-> TakerFee(ask, Size),
                       at |-> row(i).at]
    IN  \E order \in BoundedSeq(first, LastRows) :
            /\ Range(order) = first
            /\ \A k, l \in DOMAIN order : k < l => order[k] < order[l]
            /\ Len(entries) + Len(order) <= MaxEntries
            /\ entries' = entries \o [k \in DOMAIN order |-> lot(order[k])]
            /\ UNCHANGED <<markets, known, settled, fills, replay>>

\* A lock that lock_decisions_for_open_positions wants, on the latest row of
\* the position, recorded by its caller (lock_event_from_decision).
RecordLock(ticker, noise) ==
    LET pos == Position(ticker)
        row == LatestRow(ticker)
        inp == InputFromRow(pos, row)
        lock == LockDecision(ticker, noise)
    IN  /\ Len(fills) < MaxFills
        /\ Open(pos)
        /\ lock.state \in Locks
        /\ fills' = Append(fills,
              [ticker |-> ticker, side |-> Other(pos.held), qty |-> lock.qty,
               price |-> inp.ask, fee |-> lock.qty * TakerFee(inp.ask, 1),
               at |-> row.at, nakedAfter |-> pos.naked - lock.qty,
               lockedAfter |-> pos.locked + lock.qty])
        /\ UNCHANGED <<markets, known, settled, entries, replay>>

\* What qty contracts of the held leg come to, times the contracts held.
SettleNaked(pos, qty, label) ==
    qty * Worth(pos, IF label = pos.held THEN 100 ELSE 0)

Replayed(ticker, noise) ==
    LET pos == Position(ticker)
        rows == markets[ticker].rows
        decided == [i \in DOMAIN rows |->
                       EvaluateLifecycle(pos, InputFromRow(pos, rows[i]), noise)]
        acted == {i \in DOMAIN rows : decided[i].act \in Acts}
        first == Min(acted)
        naked == pos.naked
        label == markets[ticker].label
        ride == SettleNaked(pos, naked, label)
        \* A row on which nothing can be sold never leads to a sale.
        locked(i) == decided[i].qty
                     * LockWorth(pos, InputFromRow(pos, rows[i]).ask)
    IN  IF acted = {}
        THEN [act |-> "RIDE/WATCH", at |-> 0, qty |-> 0, naked |-> naked,
              held |-> pos.qty[pos.held], ride |-> ride, managed |-> ride]
        ELSE [act |-> decided[first].act, at |-> rows[first].at,
              qty |-> decided[first].qty, naked |-> naked,
              held |-> pos.qty[pos.held], ride |-> ride,
              managed |-> locked(first)
                          + SettleNaked(pos, naked - decided[first].qty, label)]

\* run_position_monitor_sim
RunPositionMonitorSim(noise) ==
    /\ entries # <<>>
    /\ replay' = [t \in {u \in Tickers : Open(Position(u))} |-> Replayed(t, noise)]
    /\ UNCHANGED <<markets, known, settled, entries, fills>>
-----------------------------------------------------------------------------
Init ==
    /\ markets \in Markets /\ known \in Knowns
    /\ settled = {} /\ entries = <<>> /\ fills = <<>>
    /\ replay = <<>>

Next ==
    \/ \E t \in Tickers : Settle(t)
    \/ \E noise \in Noises :
          \/ \E rows \in LatestRows : RunPaperPolicySim(rows, noise)
          \/ RunPositionMonitorSim(noise)
          \/ \E t \in Tickers : RecordLock(t, noise)

Spec == Init /\ [][Next]_vars
-----------------------------------------------------------------------------
(* Properties.                                                             *)

\* A lock that is recorded is read back as what its event announced: the
\* loader, which knows lots only, finds the same naked and locked contracts.
LockFillReloads ==
    fills' # fills =>
        \A t \in Tickers :
            LET fill == Last(fills')
                pos == Position(t)'
            IN  fill.ticker = t =>
                    /\ pos.naked = fill.nakedAfter
                    /\ pos.locked = fill.lockedAfter
                    /\ Open(pos) => pos.held # fill.side

\* Entry e is the only one of its ticker.
SoleEntry(t, e) ==
    \A i \in DOMAIN entries : entries[i].ticker = t <=> i = e

\* A position of one entry that was locked to the last contract pays at least
\* the lock's minimum for every pair, however its market resolves.
LockKeepsItsPromise ==
    \A t \in Tickers :
        LET pos == Position(t)
        IN  ( /\ \E e \in DOMAIN entries : SoleEntry(t, e)
              /\ \E i \in DOMAIN fills : fills[i].ticker = t
              /\ ~Open(pos) ) =>
                100 * pos.locked - pos.paid["YES"] - pos.paid["NO"]
                    >= MinLock * pos.locked

\* A window is entered only when the summary verdict, a second list of the
\* same gates, says that candidates are possible.
CandidatesAreAnnounced == entries # <<>> => CanEmit(known)

\* A replay that managed the whole position reports at least the minimum.
ReplayRealisesMinimum ==
    \A t \in DOMAIN replay :
        (replay[t].act \in Acts /\ replay[t].qty = replay[t].naked) =>
            replay[t].managed >= replay[t].naked * replay[t].held * MinLock

PositionsAssumption ==
    /\ {FeeRate, MinLock, LastRows} \subseteq Nat /\ Size \in Nat \ {0}
    /\ \A m \in Markets, t \in Tickers :
          LET rows == m[t].rows
          IN  /\ Len(rows) \in Nat \ {0} /\ DOMAIN rows = 1 .. Len(rows)
              /\ \A i \in DOMAIN rows :
                    /\ rows[i].bid \in [Sides -> Int] /\ rows[i].at \in Int
                    /\ rows[i].depth \in [Sides -> Nat]

EntryLots == [ticker : Tickers, side : Sides, qty : {Size}, price : Int, fee : Int,
              at : Int]
FillLots == [ticker : Tickers, side : Sides, qty : Nat, price : Int, fee : Int,
             at : Int, nakedAfter : Int, lockedAfter : Int]
PositionsTypeOK ==
    /\ markets \in Markets /\ settled \subseteq Tickers
    /\ entries \in Seq(EntryLots) /\ fills \in Seq(FillLots)

\* What keeps LockKeepsItsPromise, an inductive invariant: only what was entered
\* is locked; and the fills of a ticker with one entry buy its opposite leg, not
\* more of it than was entered, and what they leave of the pairs' payoff above the
\* minimum covers the share of the entry's cost that they lock.
LocksAreCovered(t, e) ==
    LET entry == entries[e]
        opposite == Other(entry.side)
        cost == entry.qty * entry.price + entry.fee
        locked == Total(LotCounts(fills, t, opposite))
        paid == Total(LotCosts(fills, t, opposite))
    IN  /\ \A i \in DOMAIN fills : fills[i].ticker = t => fills[i].side = opposite
        /\ locked \in 0 .. entry.qty
        /\ cost * locked <= entry.qty * ((100 - MinLock) * locked - paid)
FillsFollowEntries ==
    \A i \in DOMAIN fills : \E e \in DOMAIN entries : entries[e].ticker = fills[i].ticker
PositionsInv ==
    /\ PositionsTypeOK
    /\ FillsFollowEntries
    /\ \A t \in Tickers : \A e \in DOMAIN entries :
          SoleEntry(t, e) => LocksAreCovered(t, e)
    /\ ReplayRealisesMinimum
    /\ CandidatesAreAnnounced

\* (Not so.)  Whatever the replay counts as managed has a size.
ActsHaveSize ==
    \A t \in DOMAIN replay : replay[t].act \in Acts => replay[t].qty > 0

\* (Not so.)  The replay acts on rows later than the position's entry only.
ReplayLooksForward ==
    \A t \in DOMAIN replay :
        replay[t].act \in Acts =>
            \E i \in DOMAIN entries :
                entries[i].ticker = t /\ entries[i].at < replay[t].at
=============================================================================
