---------------------------- MODULE FeedFreshness ----------------------------
(***************************************************************************)
(* How fresh is what is acted on?  One process records (collector.py): an  *)
(* iteration polls the price feeds, fetches the book of each target, polls *)
(* the feeds again if that took long, builds a feature row that carries    *)
(* the ages of what it used, and at its end writes the rows and flushes    *)
(* the recorder's files.  Others read the files whenever they like: the    *)
(* runtime judges a row by the ages in it (paper_runtime.py,               *)
(* freshness.py), the preflight judges the sources by the last lines of    *)
(* the recorder's files (source_health.py).                                *)
(*                                                                         *)
(* MarketCollector says which markets are recorded and takes an iteration  *)
(* for a moment; here it is the calls that take time, up to MaxCall each.  *)
(***************************************************************************)
EXTENDS Integers, FiniteSetsExt

CONSTANTS
    Targets,            \* 1 .. n, the markets of the cycle in their order
    Interval,           \* between iterations, and between two polls
    MaxCall,            \* the longest a call takes
    BookMaxAge, FeedMaxAge, RowMaxAge,      \* fresh enough to decide
    AllowFallback, RequirePrimary,
    MaxFaults,          \* requests that fail, and crashes
    MaxClock

None == -1
Feeds == {"coinbase", "binance"}
Sources == Feeds \cup {"kalshi"}

VARIABLES
    clock,
    pc,         \* the call it waits for, or what it does next
    since,      \* when that call began
    target,     \* whose book it records
    lastPoll,   \* when the feeds were last polled
    held,       \* when the last event of each feed was received, in memory
    book,       \* when the book at hand was received
    buffered,   \* the newest line of each source: handed to the files,
    disk,       \*  and visible in them
    rows,       \* target :> its row of this iteration
    visible,    \* target :> its newest row in the file
    answered,   \* history: every poll of this process was answered
    cut,        \* history: targets whose row was written, but not flushed with,
                \*  by a process that died in between
    faults      \* how many there were

vars == <<clock, pc, since, target, lastPoll, held, book, buffered, disk, rows,
          visible, answered, cut, faults>>
history == <<answered, cut, faults>>

Nothing == [s \in Sources |-> None]
NoRow == [asOf |-> None]

ForgetAll ==
    /\ pc' = "down" /\ since' = clock /\ target' = 1 /\ lastPoll' = 0
    /\ held' = [f \in Feeds |-> None] /\ book' = None
    /\ rows' = [t \in Targets |-> NoRow]
Init ==
    /\ clock = 0 /\ pc = "down" /\ since = 0 /\ target = 1 /\ lastPoll = 0
    /\ held = [f \in Feeds |-> None] /\ book = None
    /\ rows = [t \in Targets |-> NoRow] /\ visible = rows
    /\ buffered = Nothing /\ disk = Nothing /\ answered = TRUE /\ cut = {}
    /\ faults = 0
-----------------------------------------------------------------------------
(* Ages.                                                                    *)

Age(received, at) == IF received = None THEN None ELSE at - received
Stale(age, limit) == age = None \/ age > limit

\* effective_book_age: what the venue's timestamp said on receipt comes first,
\* then an age worked out before, the venue's timestamp and, for a snapshot that
\* has none, its receipt.  A timestamp of the future counts as none.
EffectiveBookAge(snapshot, asOf) ==
    LET since_(t) == IF t > asOf THEN None ELSE asOf - t
    IN  CASE snapshot.quoteAge # None -> Max({0, snapshot.quoteAge})
          [] snapshot.quoteAge = None /\ snapshot.bookAge # None ->
                Max({0, snapshot.bookAge})
          [] snapshot.quoteAge = None /\ snapshot.bookAge = None
                /\ snapshot.sourceTs # None -> since_(snapshot.sourceTs)
          [] snapshot.quoteAge = None /\ snapshot.bookAge = None
                /\ snapshot.sourceTs = None ->
                IF snapshot.recv = None THEN None ELSE since_(snapshot.recv)

\* resolve_underlying: Coinbase, or Binance if it may stand in.
UnderlyingStale(coinbase, binance) ==
    /\ Stale(coinbase, FeedMaxAge)
    /\ RequirePrimary \/ ~AllowFallback \/ Stale(binance, FeedMaxAge)
-----------------------------------------------------------------------------
(* The iteration.                                                           *)

Call(next) == pc' = next /\ since' = clock

\* A book over the public REST interface carries no timestamp of the venue.
Snapshot == [quoteAge |-> None, bookAge |-> None, sourceTs |-> None, recv |-> book]
\* build_feature_row, with the ages that the feeds' state gives
Row(received, snapshot) ==
    [asOf |-> clock,
     book |-> EffectiveBookAge(snapshot, clock),
     feed |-> [f \in Feeds |-> Age(received[f], clock)]]
\* ... and on to the next market or, after the last, to writing the rows.
Build(received, snapshot) ==
    /\ rows' = [rows EXCEPT ![target] = Row(received, snapshot)]
    /\ IF target + 1 \in Targets
       THEN target' = target + 1 /\ Call("book")
       ELSE target' = 1 /\ Call("write")

Fault == faults < MaxFaults /\ faults' = faults + 1
Begin ==
    /\ \/ pc = "down"
       \/ pc = "sleep" /\ clock - since >= Interval
    /\ Call("coinbase")
    /\ rows' = [t \in Targets |-> NoRow] /\ target' = 1
    /\ UNCHANGED <<clock, lastPoll, held, book, buffered, disk, visible, history>>

\* A line goes to the buffer of its file; a buffer that is full goes to the file.
Record(s) == buffered' = [buffered EXCEPT ![s] = clock]
Spill(s, full) == disk' = IF full THEN [disk EXCEPT ![s] = buffered'[s]] ELSE disk
\* poll() of one client: its events are recorded and held, or it raised and
\* there are none.
Received(feed, ok) ==
    /\ IF ok THEN Record(feed) /\ UNCHANGED faults ELSE Fault /\ UNCHANGED buffered
    /\ held' = IF ok THEN [held EXCEPT ![feed] = clock] ELSE held
    /\ answered' = (answered /\ ok)
\* _poll_underlying_once: Coinbase, then Binance.  The trades' and Deribit's polls
\* that follow are part of the first book's call.
PollCoinbase(ok, full) ==
    /\ pc \in {"coinbase", "coinbase again"}
    /\ Received("coinbase", ok) /\ Spill("coinbase", full)
    /\ Call(IF pc = "coinbase" THEN "binance" ELSE "binance again")
    /\ UNCHANGED <<clock, target, lastPoll, book, rows, visible, cut>>
PollBinance(ok, full) ==
    /\ pc = "binance"
    /\ Received("binance", ok) /\ Spill("binance", full)
    /\ lastPoll' = clock /\ Call("book")
    /\ UNCHANGED <<clock, target, book, rows, visible, cut>>

\* Mutant: another poll only when more than the interval has passed.
Due_later == clock - lastPoll > Interval
\* Is it time to poll the feeds again?
Due == clock - lastPoll >= Interval
\* get_orderbook of the target.  A second poll counts from when it begins.
BookArrives(full) ==
    /\ pc = "book"
    /\ book' = clock /\ Record("kalshi") /\ Spill("kalshi", full)
    /\ IF Due THEN lastPoll' = clock /\ Call("coinbase again") /\ UNCHANGED <<rows, target>>
       ELSE Build(held, [Snapshot EXCEPT !.recv = clock]) /\ UNCHANGED lastPoll
    /\ UNCHANGED <<clock, held, visible, history>>
\* ... or it failed, and this market is left out.
BookFails ==
    /\ pc = "book" /\ Fault
    /\ IF target + 1 \in Targets THEN target' = target + 1 /\ Call("book")
       ELSE target' = 1 /\ Call("write")
    /\ UNCHANGED <<clock, lastPoll, held, book, buffered, disk, rows, visible,
                   answered, cut>>
\* The second poll ends: flush, and build the row.
PollBinanceAgain(ok) ==
    /\ pc = "binance again"
    /\ Received("binance", ok)
    /\ disk' = buffered'
    /\ Build(held', Snapshot)
    /\ UNCHANGED <<clock, lastPoll, book, visible, cut>>

\* _write_features: a file opened and closed for it, before the recorder flushes.
WriteFeatures ==
    /\ pc = "write"
    /\ visible' = [t \in Targets |-> IF rows[t] = NoRow THEN visible[t] ELSE rows[t]]
    /\ cut' = {t \in cut : rows[t] = NoRow}
    /\ Call("flush")
    /\ UNCHANGED <<clock, target, lastPoll, held, book, buffered, disk, rows,
                   answered, faults>>
\* Mutant: the recorder is flushed when it re-polled, and else when it closes.
Flush_whenClosed ==
    /\ pc = "flush"
    /\ Call("sleep")
    /\ rows' = [t \in Targets |-> NoRow] /\ book' = None
    /\ UNCHANGED <<clock, target, lastPoll, held, buffered, disk, visible, history>>
Flush ==
    /\ pc = "flush"
    /\ disk' = buffered /\ Call("sleep")
    /\ rows' = [t \in Targets |-> NoRow] /\ book' = None
    /\ UNCHANGED <<clock, target, lastPoll, held, buffered, visible, history>>
-----------------------------------------------------------------------------
(* The process and the clock.                                               *)

\* The process dies and is started again some time.
Crash ==
    /\ pc # "down" /\ Fault
    /\ ForgetAll
    /\ buffered' = disk /\ answered' = TRUE
    /\ cut' = IF pc = "flush" THEN cut \cup {t \in Targets : rows[t] # NoRow} ELSE cut
    /\ UNCHANGED <<clock, disk, visible>>
Tick ==
    /\ clock < MaxClock
    /\ \/ pc \in {"down", "sleep"}
       \/ pc \notin {"down", "sleep", "write", "flush"} /\ clock - since < MaxCall
    /\ clock' = clock + 1
    /\ UNCHANGED <<pc, since, target, lastPoll, held, book, buffered, disk, rows,
                   visible, history>>

Next ==
    \/ Begin \/ BookFails \/ WriteFeatures \/ Flush
    \/ \E full \in BOOLEAN : BookArrives(full)
    \/ \E ok, full \in BOOLEAN : PollCoinbase(ok, full) \/ PollBinance(ok, full)
    \/ \E ok \in BOOLEAN : PollBinanceAgain(ok)
    \/ Crash \/ Tick
Spec == Init /\ [][Next]_vars
-----------------------------------------------------------------------------
(* The readers, at any time.                                                *)

\* _decision_eligibility and paper_candidate_freshness: the age of the row is
\* the runtime's, those of its sources are the row's.
Passes(row) ==
    /\ row # NoRow
    /\ ~Stale(Age(row.asOf, clock), RowMaxAge)
    /\ ~Stale(row.book, BookMaxAge)
    /\ ~UnderlyingStale(row.feed["coinbase"], row.feed["binance"])

\* assess_source_health: one age, from the newest line, and two thresholds.
DataAge(s) == Age(disk[s], clock)
DecisionOk(slack) ==
    /\ ~Stale(DataAge("kalshi"), BookMaxAge + slack)
    /\ \/ ~Stale(DataAge("coinbase"), FeedMaxAge + slack)
       \/ /\ ~RequirePrimary /\ AllowFallback
          /\ ~Stale(DataAge("binance"), FeedMaxAge + slack)

\* "the within-row source ages [...] stay decision-fresh" (collector.py): while the
\* feeds answer, a row's price is never older than the interval and one request.
RowsFollowFeeds ==
    answered => \A t \in Targets : rows[t] # NoRow =>
        \A f \in Feeds : rows[t].feed[f] \in 0 .. Interval - 1 + MaxCall
\* What the runtime lets pass, the health of the sources does not contradict: it
\* sees them no older than a row may be on top of their own limits.  Between the
\* rows and the flush, or after a crash there, it may.
HealthKeepsUp ==
    pc # "flush" => \A t \in Targets \ cut : Passes(visible[t]) =>
        /\ DecisionOk(RowMaxAge)
        /\ \A f \in Feeds : visible[t].feed[f] # None =>
              disk[f] >= visible[t].asOf - visible[t].feed[f]

FreshnessHolds == RowsFollowFeeds /\ HealthKeepsUp
=============================================================================
