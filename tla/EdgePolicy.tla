----------------------------- MODULE EdgePolicy -----------------------------
(***************************************************************************)
(* The second opinion a row needs to become a paper candidate at run time: *)
(* the conservative edge policy (edge_policy.py, uncertainty.py), the      *)
(* freshness gate (freshness.py) and their order after the policy          *)
(* (paper_runtime.py, _gate_rows); and the sweep that asks offline what    *)
(* other thresholds would admit (edge_policy_runtime.py).                  *)
(*                                                                         *)
(* Probabilities are whole cents, edges hundredths of a cent.  A run       *)
(* builds its calibration buckets once, when it is prepared, from all rows *)
(* recorded and labelled by then.  No code writes the model's own bounds   *)
(* (model_p_yes_lower, _upper), so the bound always comes from the         *)
(* disagreement with the market or, with one ask only, a fixed buffer.     *)
(* The caps on how often to trade come after this and are PaperRuntime's.  *)
(***************************************************************************)
EXTENDS EntryPolicy, Functions

CONSTANTS
    EdgeMinRaw, MinFinal, MinProfit, FixedBuffer, MaxDisagreement,  \* cents
    MinBucketRows, MaxWidth,                    \* rows, cents
    StaleBuffer, SourceBuffer, RegimeBuffer, ThinBuffer,    \* cents
    MinBookDepth,
    MaxBookAge, FeedMaxAge, MaxUnderlying,      \* in 100 ms
    AllowFallback, RequirePrimary,              \* may Binance stand in
    Chances,        \* calibrated P(YES) the model may answer
    WindowRows,     \* rows recorded in a window predicted so
    MarketRows,     \* the rows to judge
    EdgeNoises, Axes,
    MaxSettled      \* bound: windows settled

\* w is at least as strict as v: an interval may be narrower, all else more.
Stricter(axis, v, w) == IF axis = "width" THEN w <= v ELSE v <= w

\* Prices are whole cents within the range, and a book that is called good has
\* both sides, uncrossed (paper.py, book_ok).
SoundRow(row) ==
    /\ row.bid \in [Sides -> 1 .. 99 \cup {None}] /\ row.depth \in [Sides -> Nat]
    /\ row.calibrated \in Chances \cup {None} /\ row.highVol \in BOOLEAN
    /\ {row.bookAge, row.spotAge, row.perpAge} \subseteq Nat \cup {None}
    /\ row.bookOk => None \notin {row.bid[side] : side \in Sides}
                     /\ row.bid["YES"] + row.bid["NO"] <= 100

\* The two margins are 2 cents each by default, which is just enough; the
\* policy's limit on the age of the underlying is not above the feed's own.
EdgeAssumption ==
    /\ Chances \subseteq 1 .. 99 /\ WindowRows \in [Chances -> Nat]
    /\ {MinFinal, MinProfit, FixedBuffer, StaleBuffer, SourceBuffer, RegimeBuffer,
        ThinBuffer, MinBookDepth, MaxBookAge, FeedMaxAge, MaxUnderlying} \subseteq Nat
    /\ FeeRate \in Nat \ {0} /\ MinFinal + MinProfit >= 4
    /\ MaxUnderlying <= FeedMaxAge
    /\ {EdgeMinRaw, MinBucketRows, MaxWidth, MaxDisagreement} \subseteq Nat
    /\ IsFiniteSet(MarketRows) /\ \A row \in MarketRows : SoundRow(row)
    /\ DOMAIN Axes \subseteq {"minRaw", "rows", "width", "regime"}
    /\ \A axis \in DOMAIN Axes :
          /\ Axes[axis] \in Seq(Nat)
          /\ \A i \in DOMAIN Axes[axis] : \A j \in 1 .. i :
                Stricter(axis, Axes[axis][j], Axes[axis][i])

VARIABLES
    settled,        \* how many windows were predicted so and ended so
    buckets,        \* calibration buckets of the run, a partial function
    running,        \* has a run been prepared
    last            \* what the last step decided or studied

edgeVars == <<settled, buckets, running, last>>
Nothing == [kind |-> "nothing"]

EdgeInit ==
    /\ settled = [p \in Chances |-> [label \in Sides |-> 0]]
    /\ buckets = <<>> /\ running = FALSE /\ last = Nothing
-----------------------------------------------------------------------------
(* Calibration buckets with a Wilson interval at 80 % (z = 1.2816), over    *)
(* rows, not windows.                                                      *)

Root(n) == CHOOSE r \in 0 .. n : r * r <= n /\ n < (r + 1) * (r + 1)

WilsonInterval(yes, n) ==
    LET mid == (10000 * (100 * yes + 82)) \div (100 * n + 164)
        half == (10000 * Root((16424 * yes * (n - yes)) \div n + 6744))
                  \div (100 * n + 164)
    IN  [low |-> Max({0, mid - half}), high |-> Min({10000, mid + half})]

BucketOf(chance) == Min({9, chance \div 10})

\* The rows predicted so, and the predictions of a bucket that have some.
RowCount(history, p) == WindowRows[p] * (history[p]["YES"] + history[p]["NO"])
Seen(history, b) == {p \in Chances : BucketOf(p) = b /\ RowCount(history, p) > 0}
TotalOf(counts) == FoldFunction(+, 0, counts)

BuildCalibrationBuckets(history) ==
    LET bucket(b) ==
            LET seen == Seen(history, b)
                n == TotalOf([p \in seen |-> RowCount(history, p)])
                wilson == WilsonInterval(
                              TotalOf([p \in seen |-> WindowRows[p] * history[p]["YES"]]), n)
            IN  [n |-> n, low |-> wilson.low, high |-> wilson.high,
                 pred |-> (100 * TotalOf([p \in seen |-> p * RowCount(history, p)])) \div n]
    IN  [b \in {c \in 0 .. 9 : Seen(history, c) # {}} |-> bucket(b)]

\* Mutant: a bucket with too few rows is skipped instead of rejected.
Calibrated_skipsSmall(bs, chance, limits) ==
    LET b == BucketOf(chance)
    IN  /\ b \in DOMAIN bs
        /\ bs[b].n >= limits.rows => bs[b].high - bs[b].low <= 100 * limits.width
Calibrated(bs, chance, limits) ==
    LET b == BucketOf(chance)
    IN  /\ b \in DOMAIN bs
        /\ bs[b].n >= limits.rows
        /\ bs[b].high - bs[b].low <= 100 * limits.width

\* What is feared is that YES came true less often than predicted, for NO that
\* it did more often.  Mutant: the same fear for both sides.
CalibrationBuffer_sameFear(bucket, side) == Max({0, bucket.pred - bucket.low})
CalibrationBuffer(bucket, side) ==
    IF side = "YES" THEN Max({0, bucket.pred - bucket.low})
                    ELSE Max({0, bucket.high - bucket.pred})
-----------------------------------------------------------------------------
(* The edge of a side.                                                     *)

Abs(n) == IF n < 0 THEN -n ELSE n
BothAsks(row) == \A side \in Sides : Ask(row.bid, side) # None

\* Half the distance between the model and the market, the standard deviation
\* of the two.
Disagreement(row) ==
    LET yes == Ask(row.bid, "YES") IN
    Abs(100 * row.calibrated - (10000 * yes) \div (yes + Ask(row.bid, "NO"))) \div 2

FeedStale(age) == age # None /\ age > FeedMaxAge
Thin(row, side) == row.depth[side] < MinBookDepth

Buffers(row, side, limits) ==
    (IF row.highVol THEN 100 * limits.regime ELSE 0)
    + (IF Thin(row, side) THEN 100 * ThinBuffer ELSE 0)
    + (IF row.bookAge # None /\ 2 * row.bookAge > MaxBookAge
       THEN 100 * StaleBuffer ELSE 0)
    + (IF FeedStale(row.spotAge) \/ FeedStale(row.perpAge)
       THEN 100 * SourceBuffer ELSE 0)

\* Mutant: what the market thinks is left out of the bound.
ModelBuffer_fixed(row) == 100 * FixedBuffer
ModelBuffer(row) == IF BothAsks(row) THEN Disagreement(row) ELSE 100 * FixedBuffer

SideBreakdown(row, side, bs, limits) ==
    LET ask == Ask(row.bid, side)
        hat == 100 * (IF side = "YES" THEN row.calibrated ELSE 100 - row.calibrated)
        calibrated == Calibrated(bs, row.calibrated, limits)
        calibration == IF calibrated
                       THEN CalibrationBuffer(bs[BucketOf(row.calibrated)], side)
                       ELSE 0
        raw == hat - 100 * ask
        final == Max({0, hat - ModelBuffer(row)}) - 100 * ask
                   - 100 * TakerFee(ask, 1) - calibration
                   - Buffers(row, side, limits) - 100 * MinProfit
        rejected ==
            \/ BothAsks(row) /\ Disagreement(row) > 100 * MaxDisagreement
            \/ DOMAIN bs # {} /\ ~calibrated    \* no buckets at all: no objection
            \/ ~BothAsks(row) /\ ~calibrated
            \/ Thin(row, side)
    IN  [side |-> side, final |-> final,
         tradeable |-> /\ ~rejected /\ raw >= 100 * limits.minRaw
                       /\ final >= 0 /\ final >= 100 * MinFinal]

\* The better side, YES if they are equal, is the one judged.
EvaluateEdge(row, bs, limits) ==
    LET offered == {side \in Sides : Ask(row.bid, side) # None}
        judged(side) == SideBreakdown(row, side, bs, limits)
        best == IF offered = Sides
                THEN IF judged("YES").final >= judged("NO").final
                     THEN "YES" ELSE "NO"
                ELSE CHOOSE side \in offered : TRUE
    IN  IF offered = {} \/ row.calibrated = None THEN [ok |-> FALSE, side |-> None]
        ELSE [ok |-> judged(best).tradeable, side |-> best]

Limits == [minRaw |-> EdgeMinRaw, rows |-> MinBucketRows, width |-> MaxWidth,
           regime |-> RegimeBuffer]
-----------------------------------------------------------------------------
(* Freshness and the gates in their order.                                 *)

Stale(age, limit) == age = None \/ age > limit

\* resolve_underlying: Coinbase, or Binance where it may stand in.
UnderlyingStale(row) ==
    /\ Stale(row.spotAge, FeedMaxAge)
    /\ RequirePrimary \/ ~AllowFallback \/ Stale(row.perpAge, FeedMaxAge)

PaperCandidateFresh(row) ==
    ~Stale(row.bookAge, MaxBookAge) /\ ~UnderlyingStale(row)

\* The older of the ages that are known.  Mutant: the younger.
UnderlyingAge_younger(row) ==
    LET known == {row.spotAge, row.perpAge} \ {None}
    IN  IF known = {} THEN None ELSE Min(known)
UnderlyingAge(row) ==
    LET known == {row.spotAge, row.perpAge} \ {None}
    IN  IF known = {} THEN None ELSE Max(known)

\* What the policy is told of a row.
PolicyInput(row) ==
    [bid |-> row.bid, depth |-> row.depth, spread |-> row.spread,
     raw |-> row.calibrated, calibrated |-> row.calibrated, secs |-> row.secs,
     bookOk |-> row.bookOk,
     bookOld |-> row.bookAge # None /\ row.bookAge > MaxBookAge,
     underlying |-> row.underlying, reference |-> TRUE,
     underlyingOld |-> UnderlyingAge(row) # None /\ UnderlyingAge(row) > MaxUnderlying,
     healthy |-> ~(FeedStale(row.spotAge) /\ FeedStale(row.perpAge)),
     deribitOld |-> FALSE, sameSchema |-> TRUE]

\* A promotion that is valid, as load_runtime has checked.
Promoted == [model |-> [exists |-> TRUE, trained |-> TRUE, diagnostic |-> FALSE],
             calibrator |-> [exists |-> TRUE, valid |-> TRUE, diagnostic |-> FALSE],
             backtest |-> [exists |-> TRUE, valid |-> TRUE, windows |-> MinWindows]]

GateRow(row, bs, noise) ==
    LET policy == EvaluatePolicy(Promoted, PolicyInput(row), noise)
        edge == EvaluateEdge(row, bs, Limits)
    IN  IF policy.state # "PAPER_CANDIDATE" THEN policy
        ELSE IF ~PaperCandidateFresh(row) THEN Verdict("REJECTED", None)
        ELSE IF ~edge.ok \/ edge.side # policy.side THEN Verdict("WATCH", None)
        ELSE policy
-----------------------------------------------------------------------------
\* A window ends: its rows and their label are data from now on.
SettleWindow(chance, label) ==
    /\ MapThenSumSet(LAMBDA p : settled[p]["YES"] + settled[p]["NO"], Chances)
         < MaxSettled
    /\ settled' = [settled EXCEPT ![chance][label] = @ + 1]
    /\ last' = Nothing
    /\ UNCHANGED <<buckets, running>>

\* _prepare_runtime
Prepare ==
    /\ buckets' = BuildCalibrationBuckets(settled)
    /\ running' = TRUE /\ last' = Nothing
    /\ UNCHANGED settled

Gate(row, noise) ==
    /\ running /\ last = Nothing
    /\ last' = [kind |-> "row", row |-> row, verdict |-> GateRow(row, buckets, noise)]
    /\ UNCHANGED <<settled, buckets, running>>

Admitted(bs, axis, v) ==
    {row \in MarketRows : EvaluateEdge(row, bs, [Limits EXCEPT ![axis] = v]).ok}

\* run_edge_threshold_sweep: along one axis, loosest first, how many of the
\* recorded rows each value admits.  It shares nothing with a run, and is
\* tried before one is prepared.
Sweep(axis) ==
    /\ ~running /\ last = Nothing
    /\ last' = [kind |-> "sweep",
                edgeOk |-> [i \in DOMAIN Axes[axis] |->
                               Cardinality(Admitted(BuildCalibrationBuckets(settled),
                                                    axis, Axes[axis][i]))]]
    /\ UNCHANGED <<settled, buckets, running>>

EdgeNext ==
    \/ \E chance \in Chances, label \in Sides : SettleWindow(chance, label)
    \/ Prepare
    \/ \E row \in MarketRows, noise \in EdgeNoises : Gate(row, noise)
    \/ \E axis \in DOMAIN Axes : Sweep(axis)
-----------------------------------------------------------------------------
(* Properties.                                                             *)

IsCandidate == last.kind = "row" /\ last.verdict.state = "PAPER_CANDIDATE"

\* A candidate would not lose, after its fee, even if its side came true only
\* as often as the pessimistic end of what rows predicted alike did when the
\* run was prepared: the fixed margins and the distance to the market outweigh
\* how far a prediction may lie from the mean of its bucket.
PaysAtWorst ==
    IsCandidate /\ DOMAIN buckets # {} =>
        LET row == last.row
            side == last.verdict.side
            bucket == buckets[BucketOf(row.calibrated)]
            worst == IF side = "YES" THEN bucket.low ELSE 10000 - bucket.high
            ask == Ask(row.bid, side)
        IN  worst >= 100 * (ask + TakerFee(ask, 1))

\* A candidate is never decided on a feed that is known to be too old, though
\* the freshness gate alone would let the other feed stand in for it.
NoStaleFeed ==
    IsCandidate =>
        LET ages == {last.row.spotAge, last.row.perpAge}
        IN  ages # {None} /\ \A age \in ages : ~FeedStale(age)

\* A stricter threshold admits no more than a looser one (the sweep's axes).
StricterAdmitsFewer ==
    last.kind = "sweep" =>
        \A i \in DOMAIN last.edgeOk : \A j \in 1 .. i : last.edgeOk[j] >= last.edgeOk[i]

EdgeIsSound == PaysAtWorst /\ NoStaleFeed /\ StricterAdmitsFewer
-----------------------------------------------------------------------------
(* The inductive invariant behind the theorem in ResearchProofs: the mean   *)
(* prediction of a bucket lies in it.                                      *)

Span(b) == 1000 * b .. 1000 * b + 900
MeansInBuckets(bs) ==
    \A b \in DOMAIN bs : /\ b \in 0 .. 9 /\ bs[b].pred \in Span(b)
                         /\ {bs[b].n, bs[b].low, bs[b].high} \subseteq Int
EdgeInv ==
    /\ settled \in [Chances -> [Sides -> Nat]]
    /\ MeansInBuckets(buckets) /\ EdgeIsSound
=============================================================================
