----------------------------- MODULE FeatureRows -----------------------------
(***************************************************************************)
(* What a feature row says and what is decided on it at once: the state    *)
(* kept of the price feeds (features.py, underlying.py), the Deribit       *)
(* context joined to it (deribit_client.py, deribit_features.py), the      *)
(* diagnostic decision (paper.py, baseline.py) and, at the end of a cycle, *)
(* the ledger, the counts and the notifications (collector.py, and         *)
(* run-kalshi-paper-pipeline in cli.py, which has a cycle only once).      *)
(*                                                                         *)
(* One market is followed.  Start references and the targets of a cycle    *)
(* are in MarketCollector and the time that calls take in FeedFreshness:   *)
(* here an iteration takes no time, and one may come late.                 *)
(***************************************************************************)
EXTENDS Integers, SequencesExt, Functions

CONSTANTS
    Opens, Closes,          \* the market's window
    MaxAge,                 \* _MAX_AGE_MS
    Horizons, Back,         \* of returns and volatilities; of flow and basis
    MinReturns, StaleAfter,
    DeribitEvery, DeribitLimit, MaxSnapshots,
    MinEdge, OrderSize,
    Grace, Seconds          \* how long a collector's and a pipeline's cycle is

None == -1
Feeds == {"spot", "perp"}
Buffers == Feeds \X {"mid", "quote", "trade"}

VARIABLES
    clock,
    run,            \* [kind, allows, until, count] of the process
    idle,           \* there was no iteration at this time yet
    buffers,        \* buffer :> its samples [at, value], oldest first
    last,           \* feed :> when its last event was received
    snapshots,      \* of Deribit
    asked,          \* when Deribit was last polled
    samples,        \* [at, value] of the line's source, for sigma
    line,           \* the target price in the metadata the cycle began with
    row,            \* last_feature
    made,           \* the decisions of this cycle, the last is last_decision
    closing,        \* what the cycle's end left: [ledger, counted, notified]
    received        \* history: all that this process received, in order

vars == <<clock, run, idle, buffers, last, snapshots, asked, samples, line, row,
          made, closing, received>>

NoRow == [asOf |-> None]
NoClosing == [ledger |-> <<>>, counted |-> 0, notified |-> FALSE]
Down(count) == [kind |-> "down", allows |-> FALSE, until |-> 0, count |-> count]
-----------------------------------------------------------------------------
(* UnderlyingMicrostructureState.  What cannot be computed is <<>>.         *)

\* The mid of a quote, or the price that came with it if a side is missing.
MidOf(q) ==
    IF q.bid # None /\ q.ask # None THEN <<(q.bid + q.ask) \div 2>>
    ELSE IF q.price # None THEN <<q.price>> ELSE <<>>
\* What of an event goes to a buffer.
KeptIn(b, e) ==
    CASE e.feed # b[1] -> <<>>
      [] e.feed = b[1] /\ e.type = "trade" ->
            IF b[2] = "trade" THEN <<e.value>> ELSE <<>>
      [] e.feed = b[1] /\ e.type = "quote" ->
            CASE b[2] = "mid" -> MidOf(e.value) [] b[2] = "quote" -> <<e.value>>
              [] b[2] = "trade" -> <<>>

\* Mutant: at most as many samples are kept as there are horizons.
Trim_count(list, now) ==
    IF Len(list) > Cardinality(Horizons) THEN Tail(list) ELSE list
\* _trim, from the front while it is too old, whatever feed the event is of.
Trim(list, now) ==
    LET young == {i \in DOMAIN list : list[i].at >= now - MaxAge}
    IN  IF young = {} THEN <<>> ELSE SubSeq(list, Min(young), Len(list))
Ingest(all, e) ==
    [b \in Buffers |->
        LET new == KeptIn(b, e)
        IN  Trim(all[b] \o [i \in DOMAIN new |-> [at |-> e.at, value |-> new[i]]], e.at)]

IngestAll(all, events) == FoldLeft(Ingest, all, events)

\* Mutant: the sample of exactly that age is left out.
AtOrBefore_strict(list, t) ==
    LET young == {i \in DOMAIN list : list[i].at >= t}
        n == IF young = {} THEN Len(list) ELSE Min(young) - 1
    IN  IF n = 0 THEN <<>> ELSE <<list[n]>>
\* _at_or_before: from the oldest on until one is too young.
AtOrBefore(list, t) ==
    LET young == {i \in DOMAIN list : list[i].at > t}
        n == IF young = {} THEN Len(list) ELSE Min(young) - 1
    IN  IF n = 0 THEN <<>> ELSE <<list[n]>>
Between(list, lo, hi) == SelectSeq(list, LAMBDA s : lo <= s.at /\ s.at <= hi)

\* _sigma_per_sqrt_s, known by the returns it is made of: there must be enough,
\* and not all alike.
Sigma(list) ==
    LET steps == SelectSeq([i \in 1 .. Len(list) - 1 |-> <<list[i], list[i + 1]>>],
                           LAMBDA s : s[2].at > s[1].at)
        rets == [i \in DOMAIN steps |-> IF steps[i][1].value = steps[i][2].value THEN <<>>
                    ELSE <<steps[i][1].value, steps[i][2].value, steps[i][2].at - steps[i][1].at>>]
    IN  IF Len(rets) < MinReturns \/ Cardinality(Range(rets)) = 1 THEN <<>> ELSE rets

\* _best_level_ofi between two quotes.
OrderFlow(p, q) ==
    (IF q.bid > p.bid THEN q.bidSize
     ELSE IF q.bid = p.bid THEN q.bidSize - p.bidSize ELSE -p.bidSize)
    - (IF q.ask < p.ask THEN q.askSize
       ELSE IF q.ask = p.ask THEN q.askSize - p.askSize ELSE -p.askSize)
Complete(q) == None \notin {q.bid, q.ask, q.bidSize, q.askSize}
Sum(list, side) ==
    FoldLeft(LAMBDA sum, s : sum + IF s.value.side = side THEN s.value.size ELSE 0, 0, list)

\* features.  A logarithm of a ratio is the pair; so is a quotient.
Features(all, newest, t) ==
    LET spot == AtOrBefore(all[<<"spot", "mid">>], t)
        perp == AtOrBefore(all[<<"perp", "mid">>], t)
        spotAt(u) == AtOrBefore(all[<<"spot", "mid">>], u)
        perpAt(u) == AtOrBefore(all[<<"perp", "mid">>], u)
        return(from) == IF spot = <<>> \/ from = <<>> THEN <<>>
                        ELSE <<from[1].value, spot[1].value>>
        opening == IF spotAt(Opens) # <<>> THEN spotAt(Opens)
                   ELSE SubSeq(all[<<"spot", "mid">>], 1, Len(spot))
        quotes == Between(all[<<"perp", "quote">>], 0, t)
        quote == AtOrBefore(all[<<"perp", "quote">>], t)
        sized == quote # <<>> /\ Complete(quote[1].value)
        flow(f) == LET trades == Between(all[<<f, "trade">>], t - Back, t)
                   IN  IF trades = <<>> THEN <<>>
                       ELSE <<Sum(trades, "buy"), Sum(trades, "sell"), Len(trades)>>
    IN  [returns |-> [h \in Horizons |-> return(spotAt(t - h))],
         sinceOpen |-> return(opening),
         vols |-> [h \in Horizons |-> Sigma(Between(all[<<"spot", "mid">>], t - h, t))],
         basis |-> IF spot = <<>> \/ perp = <<>> THEN <<>>
                   ELSE <<perp[1].value - spot[1].value>>,
         basisChange |-> IF <<>> \in {spot, perp, spotAt(t - Back), perpAt(t - Back)}
                         THEN <<>>
                         ELSE <<perp[1].value - spot[1].value
                                - (perpAt(t - Back)[1].value - spotAt(t - Back)[1].value)>>,
         imbalance |-> IF ~sized \/ quote[1].value.bidSize + quote[1].value.askSize = 0
                       THEN <<>>
                       ELSE <<quote[1].value.bidSize - quote[1].value.askSize,
                              quote[1].value.bidSize + quote[1].value.askSize>>,
         ofi |-> IF ~sized \/ Len(quotes) < 2 \/ ~Complete(quotes[Len(quotes) - 1].value)
                 THEN <<>>
                 ELSE <<OrderFlow(quotes[Len(quotes) - 1].value, Last(quotes).value)>>,
         flow |-> [f \in Feeds |-> flow(f)],
         age |-> [f \in Feeds |-> IF newest[f] = None THEN None ELSE t - newest[f]],
         stale |-> {f \in Feeds : newest[f] # None /\ t - newest[f] > StaleAfter}]
-----------------------------------------------------------------------------
(* The Deribit context.                                                     *)

\* Mutant: a snapshot that nothing was parsed of is not ingested.
Heard_parsed(list, snapshot) ==
    LET grown == IF snapshot.got = {} THEN list ELSE Append(list, snapshot)
    IN  IF Len(grown) > MaxSnapshots THEN Tail(grown) ELSE grown
\* DeribitState.ingest.
Heard(list, snapshot) ==
    LET grown == Append(list, snapshot)
    IN  IF Len(grown) > MaxSnapshots THEN Tail(grown) ELSE grown
\* latest_at_or_before, the later of two of one time.
LatestAtOrBefore(list, t) ==
    LET known == {i \in DOMAIN list : list[i].at <= t}
        newest == {i \in known : \A j \in known : list[j].at <= list[i].at}
    IN  IF newest = {} THEN <<>> ELSE <<list[Max(newest)]>>

\* deribit_feature_fields: which of the endpoints a value comes from.
Context(list, t) ==
    LET found == LatestAtOrBefore(list, t)
        s == Last(found)
        first(a, b) == IF a \in s.got THEN a ELSE IF b \in s.got THEN b ELSE "none"
    IN  IF found = <<>>
        THEN [used |-> FALSE, age |-> None, iv |-> "none", regime |-> "none",
              missing |-> "no snapshot"]
        ELSE [used |-> t - s.at <= DeribitLimit, age |-> t - s.at,
              iv |-> first("book_summary", "dvol"),
              regime |-> first("dvol", "book_summary"),
              missing |-> IF t - s.at > DeribitLimit THEN "stale"
                          ELSE IF s.got = {} THEN "nothing parsed" ELSE "none"]
-----------------------------------------------------------------------------
(* The decision, in cents.                                                  *)

\* The baseline's chance of YES: without a price or a line it answers 50.
Chance(price, sigma) ==
    CASE price = None \/ line = None -> 50
      [] price # None /\ line # None /\ (sigma = <<>> \/ clock >= Closes) ->
            IF price >= line THEN 100 ELSE 0
      [] price # None /\ line # None /\ sigma # <<>> /\ clock < Closes ->
            IF price > line THEN 80 ELSE IF price = line THEN 50 ELSE 20

Fee(ask) == IF ask \in 1 .. 99 THEN (7 * ask * (100 - ask) + 9999) \div 10000 ELSE 0
\* A side is bought at what the other's best bid leaves, up to its size.
Asks(q) == [YES |-> IF q.noBid = None THEN None ELSE 100 - q.noBid,
            NO |-> IF q.yesBid = None THEN None ELSE 100 - q.yesBid]
Depths(q) == [YES |-> q.noSize, NO |-> q.yesSize]
\* Mutant: a book of two sides is good.
BookOk_twoSided(q) == None \notin {q.yesBid, q.noBid}
BookOk(q) == None \notin {q.yesBid, q.noBid} /\ q.yesBid + q.noBid <= 100

\* decision_window_skip_reason; the status is that of the cycle's beginning.
Skipped == clock >= Closes \/ clock < Opens

Decided(state, side, chance, fill) ==
    [at |-> clock, state |-> state, side |-> side, chance |-> chance, fill |-> fill]
\* What a contract brings, at that chance of YES, after its price and fee.
Edge(q, side, chance) ==
    (IF side = "YES" THEN chance ELSE 100 - chance)
    - Asks(q)[side] - Fee(Asks(q)[side])
\* decide_kalshi and _result.  Over REST a quote has no age that could be stale,
\* and the baseline is never calibrated.
Decide(q, chance) ==
    LET side == IF Edge(q, "YES", chance) >= Edge(q, "NO", chance) THEN "YES" ELSE "NO"
        best == Edge(q, side, chance)
        decided(state, fill) == Decided(state, side, chance, fill)
    IN  IF Skipped THEN Decided("SKIPPED", "none", chance, 0)
        ELSE IF chance = None THEN Decided("WATCH", "none", chance, 0)
        ELSE IF ~BookOk(q) THEN Decided("REJECTED", "none", chance, 0)
        ELSE IF best < MinEdge THEN decided(IF best <= 0 THEN "NO_ACTION" ELSE "WATCH", 0)
        ELSE IF ~run.allows THEN decided("MANUAL_REVIEW", 0)
        ELSE decided("PAPER_CANDIDATE", Min({OrderSize, Depths(q)[side]}))
-----------------------------------------------------------------------------
(* The process.                                                             *)

\* It begins with nothing in memory.  The collector's cycle ends soon after the
\* market it follows has closed, the pipeline's when its time is up.
Start(kind, allows) ==
    /\ run.kind = "down" /\ clock < Closes
    /\ run' = [kind |-> kind, allows |-> allows, count |-> run.count + 1,
               until |-> IF kind = "collector" THEN Closes + Grace ELSE clock + Seconds]
    /\ buffers' = [b \in Buffers |-> <<>>] /\ last' = [f \in Feeds |-> None]
    /\ snapshots' = <<>> /\ asked' = None /\ samples' = <<>>
    /\ row' = NoRow /\ made' = <<>> /\ closing' = NoClosing /\ received' = <<>>
    /\ idle' = TRUE
    /\ UNCHANGED <<clock, line>>

\* A poll of both feeds, each with the events of its answer; one that raised
\* gave none, whatever had arrived.
Stamped(answers) ==
    LET of(f) == [i \in DOMAIN answers[f] |->
                    [feed |-> f, at |-> clock, type |-> answers[f][i].type,
                     value |-> answers[f][i].value]]
    IN  of("spot") \o of("perp")
\* A poll of Deribit: what each endpoint answered, an error counting as nothing.
Polled(got) == [feed |-> "deribit", at |-> clock, got |-> got]
\* Mutant: Deribit is polled when more than its interval has passed.
Due_later == asked = None \/ clock - asked > DeribitEvery
Due == asked = None \/ clock - asked >= DeribitEvery

\* One iteration: the line's source, the feeds, Deribit if it is due, the book,
\* and a row with its decision if there is one.
Iterate(price, answers, got, book) ==
    /\ run.kind # "down" /\ idle /\ clock < run.until
    /\ idle' = FALSE
    /\ LET events == Stamped(answers)
           snapshot == Polled(got)
           chance == IF Skipped /\ run.kind = "collector" THEN None
                     ELSE IF line = None /\ run.kind = "pipeline" THEN None
                     ELSE Chance(price, Sigma(samples'))
       IN  /\ samples' = IF price = None THEN samples
                         ELSE Append(samples, [at |-> clock, value |-> price])
           /\ buffers' = IngestAll(buffers, events)
           /\ last' = [f \in Feeds |-> IF answers[f] = <<>> THEN last[f] ELSE clock]
           /\ snapshots' = IF Due THEN Heard(snapshots, snapshot) ELSE snapshots
           /\ asked' = IF Due THEN clock ELSE asked
           /\ received' = received \o events \o IF Due THEN <<snapshot>> ELSE <<>>
           /\ IF book = {} THEN UNCHANGED <<row, made>>
              ELSE \E q \in book :
                  /\ row' = [asOf |-> clock, price |-> price, book |-> q,
                             under |-> Features(buffers', last', clock),
                             deribit |-> Context(snapshots', clock)]
                  /\ made' = Append(made, Decide(q, chance))
    /\ UNCHANGED <<clock, run, line, closing>>

\* The end of the cycle: the last decision goes to the ledger and, if it is a
\* candidate, out to the operator; the session's summary counts them all.
EndCycle ==
    /\ run.kind # "down" /\ clock >= run.until
    /\ closing' = [ledger |-> IF made = <<>> THEN <<>> ELSE <<Last(made)>>,
                   counted |-> Cardinality({i \in DOMAIN made :
                                               made[i].state = "PAPER_CANDIDATE"}),
                   notified |-> made # <<>> /\ Last(made).state = "PAPER_CANDIDATE"]
    /\ run' = Down(run.count)
    /\ UNCHANGED <<clock, idle, buffers, last, snapshots, asked, samples, line, row,
                   made, received>>
\* Ctrl+C, or the end of the process: nothing of that is written.
Interrupt ==
    /\ run.kind # "down"
    /\ run' = Down(run.count)
    /\ UNCHANGED <<clock, idle, buffers, last, snapshots, asked, samples, line, row,
                   made, closing, received>>
Tick ==
    /\ clock' = clock + 1 /\ idle' = TRUE
    /\ UNCHANGED <<run, buffers, last, snapshots, asked, samples, line, row, made,
                   closing, received>>

\* What there may be: the kinds of a process and how many processes, the target
\* prices and the answers of the line's source (prices), of the feeds (answers, a
\* feed :> its events), of Deribit's endpoints (answering, sets of those that do)
\* and of the venue (quotes, order books), and until when.
Init(play) ==
    /\ clock = 1 /\ run = Down(0) /\ idle = TRUE /\ line \in play.lines
    /\ buffers = [b \in Buffers |-> <<>>] /\ last = [f \in Feeds |-> None]
    /\ snapshots = <<>> /\ asked = None /\ samples = <<>>
    /\ row = NoRow /\ made = <<>> /\ closing = NoClosing /\ received = <<>>
Next(play) ==
    \/ \E kind \in play.kinds, allows \in BOOLEAN :
          run.count < play.maxRuns /\ Start(kind, allows)
    \/ \E price \in play.prices, got \in play.answering,
          book \in {{q} : q \in play.quotes} \cup {{}},
          answers \in play.answers : Iterate(price, answers, got, book)
    \/ EndCycle \/ Interrupt
    \/ clock < play.maxClock /\ Tick
-----------------------------------------------------------------------------
(* Properties.                                                              *)

\* The events that said something to a buffer by u, as the process that builds a
\* row at t knew them: those not longer than MaxAge before its newest.
Known(b, t, u) ==
    LET until(v) == SelectSeq(received, LAMBDA e : e.feed # "deribit" /\ e.at <= v)
        said == SelectSeq(until(u), LAMBDA e :
                    Last(until(t)).at - e.at <= MaxAge /\ KeptIn(b, e) # <<>>)
    IN  [i \in DOMAIN said |-> KeptIn(b, said[i])[1]]

\* "every value is derived only from data already observed at/before as_of_ms" and
\* "if a feature cannot be computed [...], it is emitted as None": what the
\* bounded buffers give is what the whole history would, as far as it is young
\* enough; flows count every trade received, and one feed's outage leaves the
\* other's values as they are.
RowReadsHistory ==
    row # NoRow =>
        LET t == row.asOf
            mid(f, u) == LET known == Known(<<f, "mid">>, t, u)
                         IN  IF known = <<>> THEN <<>> ELSE <<Last(known)>>
            recent(f) == SelectSeq(received, LAMBDA e : /\ e.feed = f /\ e.at <= t
                                                        /\ e.at >= t - Back)
            size(f, side) == Len(SelectSeq(recent(f), LAMBDA e :
                                 e.type = "trade" /\ e.value.side = side))
        IN  /\ \A h \in Horizons : row.under.returns[h] =
                  IF mid("spot", t) = <<>> \/ mid("spot", t - h) = <<>> THEN <<>>
                  ELSE mid("spot", t - h) \o mid("spot", t)
            /\ \A f \in Feeds : row.under.flow[f] # <<>> =>
                  /\ row.under.flow[f][1] = size(f, "buy")
                  /\ row.under.flow[f][2] = size(f, "sell")
            /\ row.under.ofi # <<>> =>
                  LET quotes == Known(<<"perp", "quote">>, t, t) IN
                  Len(quotes) > 1 /\ row.under.ofi[1] = OrderFlow(quotes[Len(quotes) - 1], Last(quotes))
            /\ \A f \in Feeds : row.under.age[f] =
                  LET of(e) == e.feed = f /\ e.at <= t IN
                  IF SelectSeq(received, of) = <<>> THEN None
                  ELSE t - Last(SelectSeq(received, of)).at

\* The context of a row is that of the newest snapshot, which is younger than the
\* interval, even if its requests were answered with errors; then an older one
\* that was answered does not count.
ContextIsCurrent ==
    row # NoRow =>
        LET polls == {i \in DOMAIN received : /\ received[i].feed = "deribit"
                                              /\ received[i].at <= row.asOf}
            newest == received[Max(polls)]
        IN  /\ row.deribit.used /\ row.deribit.age \in 0 .. DeribitEvery - 1
            /\ newest.at = row.asOf - row.deribit.age
            /\ row.deribit.missing = "none" <=> newest.got # {}

\* Where a side is worth buying the other is not; and no fill is larger than what
\* was offered.
DecisionsAreSound ==
    made # <<>> /\ Last(made).side # "none" =>
        LET d == Last(made)
            other == IF d.side = "YES" THEN "NO" ELSE "YES"
        IN  /\ d.state \in {"MANUAL_REVIEW", "PAPER_CANDIDATE"} =>
                  Edge(row.book, other, d.chance) < 0
            /\ d.fill <= Depths(row.book)[d.side]

\* The ledger holds the last decision of the cycle only.  What the operator is
\* told of is in it, was counted and can be bought, unless the venue lists a level
\* of no size; but once a book was recorded after the close nothing is told,
\* whatever the cycle decided before.
LedgerTellsTheEnd ==
    closing # NoClosing =>
        /\ closing.notified =>
              /\ closing.counted > 0 /\ closing.ledger # <<>>
              /\ \/ closing.ledger[1].fill > 0
                 \/ Depths(row.book)[closing.ledger[1].side] = 0
        /\ closing.ledger # <<>> =>
              /\ closing.ledger[1].at = row.asOf
              /\ row.asOf >= Closes => ~closing.notified

RowsHold ==
    ContextIsCurrent /\ DecisionsAreSound /\ LedgerTellsTheEnd
=============================================================================
