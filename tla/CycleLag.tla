------------------------------- MODULE CycleLag -------------------------------
(***************************************************************************)
(* The first study of late repricing (reprice_lag.py), on the feature rows *)
(* that the collector records every few seconds, of one market on one day: *)
(* shocks of the underlying by its returns over several horizons, by the   *)
(* same returns against its volatility or by the order flow, how the       *)
(* market answers, and quotes left stale.  A permissive detection comes    *)
(* first and the threshold asked for is a filter on what it found; the     *)
(* sensitivity grid filters the same events by another rule.               *)
(*                                                                         *)
(* A row's returns are in basis points, by horizon; `normed` are the       *)
(* horizons whose return is large for the volatility; `chance` is what the *)
(* underlying makes of P(YES), in cents, if the line is known.  A jump of  *)
(* the basis is left out: it gives no direction, so it decides nothing.    *)
(* RepriceLag is the later study, on the high-resolution rows.             *)
(***************************************************************************)
EXTENDS LockProfit, SequencesExt

CONSTANTS
    Kinds,                      \* what may be recorded, its time to be set
    ReturnHorizons,
    Floor, Default,             \* by horizon: detected, and a shock by default
    FlowPercent,                \* of the day's flows are below an impulse
    Horizons, Tolerance,        \* of the market's answer
    MoveDetect,                 \* cents that are a move
    StudyDepth, StudyMinSecs, StudyBuffer, StudyMinEdge,
    DedupWindow,
    WindowClose, Gap, MaxRecorded   \* bounds: gaps between rows, rows

VARIABLES
    rows,           \* in time order
    outcome,        \* "none", or the side that paid
    study           \* what the last study reported

cycleVars == <<rows, outcome, study>>
NoStudy == [opps |-> <<>>, moves |-> {}]

CycleInit == rows = <<>> /\ outcome = "none" /\ study = NoStudy
-----------------------------------------------------------------------------
Distance(a, b) == IF a < b THEN b - a ELSE a - b
Extent(x) == Distance(x, 0)
SideOf(x) == IF x > 0 THEN "YES" ELSE "NO"

\* Python's round: a half goes to the even neighbour.
Rounded(hundredths) ==
    LET down == hundredths \div 100
        rest == hundredths % 100
    IN  IF rest > 50 \/ (rest = 50 /\ down % 2 = 1) THEN down + 1 ELSE down
\* _percentile of the day's flows: nobody knows it before the day is over.
FlowThreshold(day) ==
    LET sizes == SortSeq([i \in DOMAIN day |-> Extent(day[i].flow)], <)
    IN  sizes[1 + Rounded(FlowPercent * (Len(sizes) - 1))]

\* detect_shock, of the largest return that reaches its floor, the shorter
\* horizon's if two are equal; without one of the first that is large for the
\* volatility, and else of the flow.
Reached(row) ==
    {h \in ReturnHorizons : Extent(row.returns[h]) >= Floor[h]}
Best(row) ==
    LET largest == CHOOSE h \in Reached(row) : \A g \in Reached(row) :
                       LET a == Extent(row.returns[h])
                           b == Extent(row.returns[g])
                       IN  a > b \/ (a = b /\ h <= g)
    IN  IF Reached(row) = {} THEN 0 ELSE row.returns[largest]
AbsReturn(row) == Max({Extent(row.returns[h]) : h \in ReturnHorizons})
IsShock(row, flow) ==
    Reached(row) # {} \/ row.normed # {} \/ Extent(row.flow) >= flow
Direction(row) ==
    CASE Reached(row) # {} -> SideOf(Best(row))
      [] Reached(row) = {} /\ row.normed # {} -> SideOf(row.returns[Min(row.normed)])
      [] Reached(row) = {} /\ row.normed = {} -> SideOf(row.flow)

\* Mutant: the filter of the sensitivity grid, which an event found by its flow
\* passes with any small return.
Counts_grid(row) == AbsReturn(row) >= 3
\* passes_default: by a return that was detected, whatever its horizon, or
\* because it is large for the volatility.
Counts(row) == Extent(Best(row)) >= Default[Min(ReturnHorizons)] \/ row.normed # {}
-----------------------------------------------------------------------------
(* The market's answer.                                                     *)

\* _TickerSeries.nearest: the row itself may be its own answer.
Nearest(at) ==
    LET near == {i \in DOMAIN rows : Distance(rows[i].at, at) <= Tolerance}
    IN  IF near = {} THEN 0
        ELSE CHOOSE i \in near : \A j \in near :
                LET d == Distance(rows[i].at, at)
                    e == Distance(rows[j].at, at)
                IN  d < e \/ (d = e /\ i <= j)
Implied(row) == (100 * row.ask["YES"]) \div (row.ask["YES"] + row.ask["NO"])
\* measure_response: when the market is first seen to have moved, or None.
Answers(i) ==
    LET answer(h) == Nearest(rows[i].at + h)
    IN  [h \in {g \in Horizons : answer(g) # 0} |-> answer(h)]
TimeToMove(i) ==
    LET moved == {h \in DOMAIN Answers(i) :
                    Distance(Implied(rows[Answers(i)[h]]), Implied(rows[i])) >= MoveDetect}
    IN  IF moved = {} THEN None ELSE rows[Answers(i)[Min(moved)]].at - rows[i].at
-----------------------------------------------------------------------------
(* Opportunities.                                                           *)

\* qualify_opportunity
Qualifies(row) ==
    LET side == Direction(row)
        chance == IF side = "YES" THEN row.chance ELSE 100 - row.chance
        secs == WindowClose - row.at
    IN  /\ secs > 0 /\ secs >= StudyMinSecs
        /\ row.chance # None
        /\ row.ask[side] \in 1 .. 99 /\ row.depth[side] >= StudyDepth
        /\ row.fresh
        /\ chance - row.ask[side] - TakerFee(row.ask[side], 1) - StudyBuffer
              >= StudyMinEdge

Opened(row) ==
    [side |-> Direction(row), price |-> row.ask[Direction(row)], at |-> row.at,
     lastAt |-> row.at, seen |-> 1]
\* dedup_events of one direction.  Mutant: an opportunity lasts for so long after
\* it began, not after it was last seen.
Same_sinceOpened(opp, row) == row.at - opp.at <= DedupWindow
Same(opp, row) == row.at - opp.lastAt <= DedupWindow
Seen(opp, row) == [opp EXCEPT !.lastAt = row.at, !.seen = @ + 1]
Added(opps, row) ==
    IF opps # <<>> /\ Same(Last(opps), row)
    THEN [opps EXCEPT ![Len(opps)] = Seen(opps[Len(opps)], row)]
    ELSE Append(opps, Opened(row))
\* `events` are places in the rows of the day; the first is added first.
Dedup(day, events) ==
    MapThenFoldSet(LAMBDA i, opps : Added(opps, day[i]), <<>>,
                   LAMBDA i : i, LAMBDA s : Max(s), events)
\* _process_day, and what run_reprice_lag_study makes of the events
Qualified(day, side) ==
    LET flow == FlowThreshold(day)
    IN  {i \in DOMAIN day : /\ IsShock(day[i], flow) /\ Counts(day[i])
                            /\ Direction(day[i]) = side /\ Qualifies(day[i])}
Opportunities(day) ==
    Dedup(day, Qualified(day, "YES")) \o Dedup(day, Qualified(day, "NO"))
\* _attach_outcomes
Scored(opp) ==
    [opp |-> opp,
     net |-> IF outcome = "none" THEN None
             ELSE (IF opp.side = outcome THEN 100 ELSE 0) - opp.price
                    - TakerFee(opp.price, 1)]
-----------------------------------------------------------------------------
LastAt == IF rows = <<>> THEN 0 ELSE Last(rows).at
RecordRow(kind, gap) ==
    /\ Len(rows) < MaxRecorded /\ outcome = "none"
    /\ rows' = Append(rows, [kind EXCEPT !.at = LastAt + gap])
    /\ UNCHANGED <<outcome, study>>
PublishLabel(side) ==
    /\ rows # <<>> /\ outcome = "none"
    /\ outcome' = side
    /\ UNCHANGED <<rows, study>>
\* run_reprice_lag_study
RunStudy ==
    /\ rows # <<>>
    /\ LET opps == Opportunities(rows)
           shocks == {i \in DOMAIN rows : /\ IsShock(rows[i], FlowThreshold(rows))
                                          /\ Counts(rows[i])}
       IN  study' = [opps |-> [n \in DOMAIN opps |-> Scored(opps[n])],
                     moves |-> {TimeToMove(i) : i \in shocks}]
    /\ study' # study
    /\ UNCHANGED <<rows, outcome>>

CycleNext ==
    \/ \E kind \in Kinds, gap \in Gap : RecordRow(kind, gap)
    \/ \E side \in Sides : PublishLabel(side)
    \/ RunStudy
-----------------------------------------------------------------------------
(* Properties.                                                             *)

\* "no look-ahead" (reprice_lag.py:9): what the study reports it would have
\* reported at that moment, although a shock of the flow alone is one by the
\* flows of the whole day: the filter drops those, and where something else is
\* a shock as well, the flow gives no direction.
FoundAtTheTime ==
    \A n \in DOMAIN study.opps :
        LET opp == study.opps[n].opp IN
        \E m \in DOMAIN rows :
            /\ rows[m].at = opp.at
            /\ [opp EXCEPT !.lastAt = opp.at, !.seen = 1]
                  \in ToSet(Opportunities(SubSeq(rows, 1, m)))
\* Opportunities of one side are apart, and between them they account for each
\* row that qualified: what is reported is neither counted twice nor merged.
Apart ==
    \A side \in Sides :
        LET mine == Dedup(rows, Qualified(rows, side))
        IN  /\ \A n \in DOMAIN mine :
                  /\ mine[n].side = side
                  /\ n > 1 => mine[n].at - mine[n - 1].lastAt > DedupWindow
            /\ FoldFunction(+, 0, [n \in DOMAIN mine |-> mine[n].seen])
                  = Cardinality(Qualified(rows, side))
\* A return that reaches its own default is counted, in its direction or that of a
\* larger one: detecting with the lower floors hides none.  (That it counts more
\* than those, any longer return that reaches the shortest one's default, is not
\* what the comment at 693 says.)
NoShockHidden ==
    \A i \in DOMAIN rows : \A h \in ReturnHorizons :
        Extent(rows[i].returns[h]) >= Default[h] =>
            /\ IsShock(rows[i], FlowThreshold(rows)) /\ Counts(rows[i])
            /\ \E g \in ReturnHorizons :
                  /\ Extent(rows[i].returns[g]) >= Extent(rows[i].returns[h])
                  /\ Direction(rows[i]) = SideOf(rows[i].returns[g])
\* The market is never seen to move before or at the shock, and a longer horizon
\* is not answered by an earlier row.
MovesFollow ==
    \A i \in DOMAIN rows :
        /\ TimeToMove(i) # None => TimeToMove(i) > 0
        /\ \A g, h \in DOMAIN Answers(i) : g <= h => Answers(i)[g] <= Answers(i)[h]

CycleIsSound == FoundAtTheTime /\ Apart /\ NoShockHidden /\ MovesFollow
-----------------------------------------------------------------------------
(* For the proofs.                                                         *)

CycleRow ==
    [returns : [ReturnHorizons -> Int], normed : SUBSET ReturnHorizons, flow : Int,
     chance : Int, ask : [Sides -> 1 .. 100], depth : [Sides -> Int],
     fresh : BOOLEAN, at : Nat]
CycleAssumption ==
    /\ Kinds \subseteq CycleRow
    /\ ReturnHorizons \in (SUBSET Nat) \ {{}} /\ IsFiniteSet(ReturnHorizons)
    /\ Floor \in [ReturnHorizons -> Nat \ {0}] /\ Default \in [ReturnHorizons -> Nat \ {0}]
    /\ \A h \in ReturnHorizons :
          Floor[h] <= Default[h] /\ Default[Min(ReturnHorizons)] <= Default[h]
    /\ Horizons \subseteq Nat /\ IsFiniteSet(Horizons)
    /\ Tolerance \in Nat /\ DedupWindow \in Nat /\ MoveDetect \in Nat \ {0}
    /\ Gap \subseteq Nat \ {0}

\* What keeps CycleIsSound, an inductive invariant: the times go up, and the last
\* study was made of the first rows.
InOrder == \A i, j \in DOMAIN rows : i < j => rows[i].at < rows[j].at
StudyOf(m) ==
    LET opps == Opportunities(SubSeq(rows, 1, m))
    IN  /\ DOMAIN study.opps = DOMAIN opps
        /\ \A n \in DOMAIN opps : study.opps[n].opp = opps[n]
CycleInv ==
    /\ rows \in Seq(CycleRow) /\ outcome \in Sides \cup {"none"}
    /\ InOrder
    /\ study = NoStudy \/ \E m \in DOMAIN rows : StudyOf(m)
=============================================================================
