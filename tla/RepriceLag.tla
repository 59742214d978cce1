----------------------------- MODULE RepriceLag -----------------------------
(***************************************************************************)
(* The study of late repricing on the joined high-resolution rows of one   *)
(* market (reprice_lag_hires.py): jumps of the underlying, how the market  *)
(* answers at fixed horizons, quotes that were left stale, and what they   *)
(* would have paid.  The study may be run again at any time, on whatever   *)
(* rows there are by then; the data set is taken to be large enough for it *)
(* (V2_MIN_ROWS, V2_MIN_WINDOWS).                                          *)
(*                                                                         *)
(* A row's chances are what its Coinbase and its Binance price make of     *)
(* P(YES), in cents, given the line.  A row may be recorded without the    *)
(* line, which the market's label supplies later on.  Returns are in basis *)
(* points.                                                                 *)
(***************************************************************************)
EXTENDS LockProfit, SequencesExt

CONSTANTS
    Kinds,          \* what may be recorded, its time to be set
    Horizons,       \* after which the market's answer is looked for
    Tolerance,      \* of each horizon
    FarBps, ShockBps,           \* a jump worth measuring, one worth counting
    StudyDepth, StudyMinSecs, StudyMaxSecs, StudyBuffer, StudyMinEdge,
    DedupeTime, DedupePrice,
    WindowClose, Gap, MaxRecorded   \* bounds: gaps between rows, rows

VARIABLES
    joined,         \* the rows, in time order
    outcome,        \* "none", or the side that paid
    study           \* what the last study reported

lagVars == <<joined, outcome, study>>
NoStudy == [opps |-> <<>>, answers |-> {}]

LagInit == joined = <<>> /\ outcome = "none" /\ study = NoStudy
-----------------------------------------------------------------------------
Distance(a, b) == IF a < b THEN b - a ELSE a - b

\* The row nearest to a time and within its tolerance, the earlier of two as
\* near.  Mutant: the row the jump is in may answer it itself.
Nearest_itself(rows, at, horizon) ==
    LET target == at + horizon
        near == {i \in DOMAIN rows : Distance(rows[i].at, target) <= Tolerance[horizon]}
    IN  IF near = {} THEN 0
        ELSE CHOOSE i \in near : \A j \in near :
                LET d == Distance(rows[i].at, target)
                    e == Distance(rows[j].at, target)
                IN  d < e \/ (d = e /\ i <= j)
Nearest(rows, at, horizon) ==
    LET target == at + horizon
        near == {i \in DOMAIN rows : /\ rows[i].at > at
                                     /\ Distance(rows[i].at, target) <= Tolerance[horizon]}
    IN  IF near = {} THEN 0
        ELSE CHOOSE i \in near : \A j \in near :
                LET d == Distance(rows[i].at, target)
                    e == Distance(rows[j].at, target)
                IN  d < e \/ (d = e /\ i <= j)

\* The larger of the two returns; Coinbase's if they are equal.
Jump(row) ==
    IF Distance(row.spotReturn, 0) >= Distance(row.perpReturn, 0)
    THEN row.spotReturn ELSE row.perpReturn
JumpSide(row) == IF Jump(row) > 0 THEN "YES" ELSE "NO"
IsShock(row, bps) == Distance(Jump(row), 0) >= bps

Implied(row) == (100 * row.ask["YES"]) \div (row.ask["YES"] + row.ask["NO"])

\* measure_response: at each horizon that some row is near enough to.
Response(rows, i) ==
    LET answer(h) == Nearest(rows, rows[i].at, h)
    IN  [h \in {g \in Horizons : answer(g) # 0} |->
            [at |-> rows[answer(h)].at,
             change |-> Implied(rows[answer(h)]) - Implied(rows[i])]]

\* The less favourable of what the two prices say, for the side.
\* Mutant: the more favourable.
ChanceOf_favourable(row, side) ==
    IF side = "YES" THEN Max(row.chances)
                    ELSE 100 - Min(row.chances)
ChanceOf(row, side) ==
    IF side = "YES" THEN Min(row.chances)
                    ELSE 100 - Max(row.chances)

\* load_joined fills the line in from the label of the market.
HasLine(row, settledAs) == row.line \/ settledAs # "none"

\* qualify_candidate
Qualifies(row, settledAs) ==
    LET side == JumpSide(row)
        secs == WindowClose - row.at
    IN  /\ secs > 0 /\ secs >= StudyMinSecs /\ secs <= StudyMaxSecs
        /\ HasLine(row, settledAs)
        /\ row.ask[side] \in 1 .. 99
        /\ row.depth[side] >= StudyDepth
        /\ row.fresh
        /\ ChanceOf(row, side) - row.ask[side] - TakerFee(row.ask[side], 1)
             - StudyBuffer >= StudyMinEdge

\* dedupe: an opportunity lasts while candidates of its side follow each other
\* soon enough, at about its price; it has the price and time of the first.
Same(opp, row) ==
    /\ row.at - opp.lastAt <= DedupeTime
    /\ Distance(row.ask[opp.side], opp.price) <= DedupePrice
Opened(row, side) ==
    [side |-> side, price |-> row.ask[side], at |-> row.at, lastAt |-> row.at,
     line |-> row.line, seen |-> 1]
Seen(opp, row) == [opp EXCEPT !.lastAt = row.at, !.seen = @ + 1]
Added(opps, row, side) ==
    IF opps # <<>> /\ Same(Last(opps), row)
    THEN [opps EXCEPT ![Len(opps)] = Seen(opps[Len(opps)], row)]
    ELSE Append(opps, Opened(row, side))
\* `candidates` are places in the rows; the first is added first.
Dedupe(rows, candidates, side) ==
    MapThenFoldSet(LAMBDA i, opps : Added(opps, rows[i], side), <<>>,
                   LAMBDA i : i, LAMBDA s : Max(s), candidates)

\* _compute and _shape_results.  Mutant: what counts as a jump depends on the
\* day's jumps, the way the first version of the study takes a percentile.
Opportunities_relative(rows, settledAs) ==
    LET sizes == [i \in DOMAIN rows |-> Distance(Jump(rows[i]), 0)]
        total == FoldLeft(LAMBDA a, b : a + b, 0, sizes)
        of(side) == {i \in DOMAIN rows :
                        /\ 2 * Len(rows) * Distance(Jump(rows[i]), 0) > 3 * total
                        /\ JumpSide(rows[i]) = side /\ Qualifies(rows[i], settledAs)}
    IN  Dedupe(rows, of("YES"), "YES") \o Dedupe(rows, of("NO"), "NO")
Candidates(rows, settledAs, side) ==
    {i \in DOMAIN rows : /\ IsShock(rows[i], FarBps) /\ IsShock(rows[i], ShockBps)
                         /\ JumpSide(rows[i]) = side /\ Qualifies(rows[i], settledAs)}
Opportunities(rows, settledAs) ==
    Dedupe(rows, Candidates(rows, settledAs, "YES"), "YES")
        \o Dedupe(rows, Candidates(rows, settledAs, "NO"), "NO")

\* score_outcomes
Scored(opp) ==
    [opp |-> opp,
     net |-> IF outcome = "none" THEN None
             ELSE (IF opp.side = outcome THEN 100 ELSE 0) - opp.price
                    - TakerFee(opp.price, 1)]
-----------------------------------------------------------------------------
LastAt == IF joined = <<>> THEN 0 ELSE Last(joined).at

\* The joiner writes a row; the book is polled at its own pace, so a row's
\* answer to a jump may be any time away.
RecordRow(kind, gap) ==
    /\ Len(joined) < MaxRecorded /\ outcome = "none"
    /\ joined' = Append(joined, [kind EXCEPT !.at = LastAt + gap])
    /\ UNCHANGED <<outcome, study>>

PublishLabel(side) ==
    /\ joined # <<>> /\ outcome = "none"
    /\ outcome' = side
    /\ UNCHANGED <<joined, study>>

\* run_hires_v2_study
RunStudy ==
    /\ study' = [opps |-> [i \in DOMAIN Opportunities(joined, outcome) |->
                              Scored(Opportunities(joined, outcome)[i])],
                 answers |-> {Response(joined, i) : i \in
                                 {j \in DOMAIN joined : IsShock(joined[j], FarBps)}}]
    /\ study' # study
    /\ UNCHANGED <<joined, outcome>>

LagNext ==
    \/ \E kind \in Kinds, gap \in Gap : RecordRow(kind, gap)
    \/ \E side \in Sides : PublishLabel(side)
    \/ RunStudy
-----------------------------------------------------------------------------
(* Properties.                                                             *)

\* A market's answer to a jump is one that came after it, and a longer horizon
\* is never answered by an earlier row than a shorter one is.
AnswersFollow ==
    \A i \in {j \in DOMAIN joined : IsShock(joined[j], FarBps)} :
        LET answers == Response(joined, i)
        IN  \A h \in DOMAIN answers :
                /\ answers[h].at > joined[i].at
                /\ \A g \in DOMAIN answers : g <= h => answers[g].at <= answers[h].at

\* What a study reports of a row whose line was recorded with it, the study
\* would have seen at that moment: neither later rows nor the outcome make a
\* quote worth taking.  They may split an opportunity: a row whose line comes
\* with the label, at another price, makes the next row a new one.
FoundInTime ==
    \A n \in DOMAIN study.opps :
        LET opp == study.opps[n].opp IN
        \E m \in DOMAIN joined :
            LET then == Opportunities(SubSeq(joined, 1, m), "none")
            IN  /\ joined[m].at = opp.at
                /\ opp.line =>
                      \E k \in DOMAIN then :
                          /\ then[k].side = opp.side /\ then[k].lastAt = opp.at
                          /\ (\A i \in DOMAIN joined : joined[i].line) =>
                                then[k].at = opp.at /\ then[k].price = opp.price

\* If either venue's price is right about the chances, an opportunity is worth
\* at least the buffer after its fee.
WorthItForBoth ==
    \A n \in DOMAIN study.opps :
        LET opp == study.opps[n].opp IN
        \E row \in ToSet(joined) :
            /\ row.at = opp.at
            /\ \A chance \in row.chances :
                  (IF opp.side = "YES" THEN chance ELSE 100 - chance)
                     >= opp.price + TakerFee(opp.price, 1) + StudyBuffer

LagIsSound == AnswersFollow /\ FoundInTime /\ WorthItForBoth
-----------------------------------------------------------------------------
(* For the proofs.                                                         *)

JoinedRow ==
    [spotReturn : Int, perpReturn : Int, ask : [Sides -> Int],
     chances : (SUBSET (0 .. 100)) \ {{}}, depth : [Sides -> Int],
     fresh : BOOLEAN, line : BOOLEAN, at : Nat]
LagAssumption ==
    /\ Kinds \subseteq JoinedRow
    /\ Horizons \subseteq Nat /\ Tolerance \in [Horizons -> Nat]
    /\ Gap \subseteq Nat \ {0}
    /\ FeeRate \in Nat /\ {StudyBuffer, StudyMinEdge} \subseteq Nat

\* What keeps LagIsSound, an inductive invariant: the times go up, and the last
\* study was made of the first rows, with the label or before it was out.
InOrder == \A i, j \in DOMAIN joined : i < j => joined[i].at < joined[j].at
StudyOf(m, settledAs) ==
    LET opps == Opportunities(SubSeq(joined, 1, m), settledAs)
    IN  /\ DOMAIN study.opps = DOMAIN opps
        /\ \A n \in DOMAIN opps : study.opps[n].opp = opps[n]
LagInv ==
    /\ joined \in Seq(JoinedRow) /\ outcome \in Sides \cup {"none"}
    /\ InOrder
    /\ study = NoStudy \/ \E m \in DOMAIN joined, settledAs \in {"none", outcome} :
                                StudyOf(m, settledAs)
=============================================================================
