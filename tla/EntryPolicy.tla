---------------------------- MODULE EntryPolicy ----------------------------
(***************************************************************************)
(* Whether a recorded row of a market is a paper candidate (policy.py), and *)
(* the summary verdict its reports print beforehand (policy_runtime.py,     *)
(* _can_emit).  Both read what is known of the model, the calibrator and   *)
(* the backtest; the verdict on a row reads the row as well.               *)
(*                                                                         *)
(* Edges are in cents.  Where an edge equals its limit the code's answer   *)
(* depends on rounding: `noise` is the set of comparisons that hold then.  *)
(***************************************************************************)
EXTENDS LockProfit

CONSTANTS
    PolicyOn,                   \* paper_policy.enabled
    Required,                   \* the require_* switches that are on
    MinNet, MinRaw, Buffer,     \* cents
    PriceCap, MaxSpread,        \* cents, for both sides
    MinTopDepth, MinSecs, MaxSecs, MinWindows

\* What is known: a model [exists, trained, diagnostic], a calibrator [exists,
\* valid, diagnostic], a backtest [exists, valid, windows].
\* Mutant: a diagnostic calibrator is let through.
RejectInfra_calibrator(known, row) ==
    \/ "plain" \in Required /\ known.model.exists /\ known.model.diagnostic
    \/ /\ "backtest" \in Required /\ known.backtest.exists
       /\ ~known.backtest.valid \/ known.backtest.windows < MinWindows

RejectInfra(known, row) ==
    \/ "plain" \in Required /\ known.model.exists /\ known.model.diagnostic
    \/ /\ "calibrated" \in Required /\ known.calibrator.exists
       /\ known.calibrator.diagnostic \/ ~known.calibrator.valid
    \/ /\ "backtest" \in Required /\ known.backtest.exists
       /\ ~known.backtest.valid \/ known.backtest.windows < MinWindows
    \/ known.model.exists /\ ~row.sameSchema

WatchInfra(known, chance) ==
    \/ ~known.model.exists
    \/ "trained" \in Required /\ ~known.model.trained
    \/ "calibrated" \in Required /\ (~known.calibrator.exists \/ chance = None)
    \/ "backtest" \in Required /\ ~known.backtest.exists

CanEmit(known) ==
    /\ PolicyOn
    /\ "trained" \in Required => known.model.exists /\ known.model.trained
    /\ "plain" \in Required => known.model.exists /\ ~known.model.diagnostic
    /\ "calibrated" \in Required =>
          /\ known.calibrator.exists /\ known.calibrator.valid
          /\ ~known.calibrator.diagnostic
    /\ "backtest" \in Required => known.backtest.valid

\* The probability the policy uses: the raw one when there is no calibrator.
PolicyChance(known, row) ==
    IF ~known.model.exists THEN None
    ELSE IF known.calibrator.exists THEN row.calibrated ELSE row.raw
-----------------------------------------------------------------------------
\* The limits on open positions and on trades in a window see no count here:
\* the callers leave both at zero.
RowRejected(row) ==
    \/ ~row.bookOk \/ \E side \in Sides : Ask(row.bid, side) = None
    \/ ~row.underlying \/ ~row.reference
    \/ row.bookOld \/ row.underlyingOld \/ ~row.healthy
    \/ "deribit" \in Required /\ row.deribitOld
    \/ row.spread > MaxSpread
    \/ row.depth["YES"] + row.depth["NO"] < MinTopDepth
    \/ row.secs < MinSecs \/ row.secs > MaxSecs

RawEdge(row, side, chance) ==
    (IF side = "YES" THEN chance ELSE 100 - chance) - Ask(row.bid, side)
NetEdge(row, side, chance) ==
    RawEdge(row, side, chance) - TakerFee(Ask(row.bid, side), 1) - Buffer

Eligible(row, side, chance, noise) ==
    /\ chance # None
    /\ Ask(row.bid, side) <= PriceCap
    /\ Exceeds(NetEdge(row, side, chance), MinNet, "net", noise)
    /\ Exceeds(RawEdge(row, side, chance), MinRaw, "raw", noise)

Verdict(state, side) == [state |-> state, side |-> side]
EvaluatePolicy(known, row, noise) ==
    LET chance == PolicyChance(known, row)
        eligible == {side \in Sides : Eligible(row, side, chance, noise)}
        side == CHOOSE s \in eligible : TRUE
        better == IF NetEdge(row, "YES", chance) >= NetEdge(row, "NO", chance)
                  THEN "YES" ELSE "NO"
    IN  IF ~PolicyOn THEN Verdict("WATCH", None)
        ELSE IF RejectInfra(known, row) THEN Verdict("REJECTED", None)
        ELSE IF WatchInfra(known, chance) THEN Verdict("WATCH", None)
        ELSE IF RowRejected(row) THEN Verdict("REJECTED", None)
        ELSE IF eligible = {} THEN Verdict("WATCH", None)
        ELSE IF eligible = Sides THEN Verdict("MANUAL_REVIEW", better)
        ELSE IF row.deribitOld THEN Verdict("MANUAL_REVIEW", side)
        ELSE Verdict("PAPER_CANDIDATE", side)
=============================================================================
