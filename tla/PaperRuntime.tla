---------------------------- MODULE PaperRuntime ----------------------------
(***************************************************************************)
(* The live loop of the shadow and paper runtime (paper_runtime.py,        *)
(* run_live_shadow): it polls the feature file the collector appends to,   *)
(* picks the rows that are executable now, and passes each of them through *)
(* the gates that may make it a paper candidate.  One process runs the     *)
(* loop; the collector writes and time passes between any two of its       *)
(* steps.  What the policy, the edge policy and the freshness gate say of  *)
(* a row depends on the row alone and is part of it (its kind); how a run  *)
(* begins and ends, and what becomes of its decisions, is PaperExperiment. *)
(***************************************************************************)
EXTENDS Integers, Sequences, FiniteSets, SequencesExt

CONSTANTS
    Tickers,        \* the markets, each one window
    CloseAt,        \* close_ms of each
    Kinds,          \* what the gates that look at a row alone say of it
    Duration,       \* market_duration_seconds
    MinToClose, MaxToClose,     \* min_/max_seconds_to_close
    RowMaxAge,      \* feature_row_max_age_ms
    MaxPerWindow,   \* max_trades_per_window
    MaxDaily,       \* max_daily_trades
    Cooldown,       \* entry_cooldown_seconds
    Limit,          \* eligible rows scored per poll
    Lines,          \* lines read from the end of the feature file
    MaxTime,        \* bound: the clock
    MaxRows         \* bound: feature rows recorded

Candidate == "PAPER_CANDIDATE"
PolicyStates == {Candidate, "WATCH", "REJECTED", "MANUAL_REVIEW"}

ASSUME RuntimeAssumption ==
    /\ IsFiniteSet(Tickers)
    /\ CloseAt \in [Tickers -> Nat]
    /\ Kinds \subseteq [usable : BOOLEAN, policy : PolicyStates,
                        fresh : BOOLEAN, edge : BOOLEAN]
    /\ {Duration, MinToClose, MaxToClose, RowMaxAge, MaxPerWindow, MaxDaily,
        MaxRows} \subseteq Nat
    /\ {Cooldown, Limit, Lines, MaxTime} \subseteq Nat \ {0}

VARIABLES
    clock,      \* now_ms
    feed,       \* the feature file
    pc,         \* where the process is; "idle" when there is none
    mode,       \* "shadow" or "paper"
    pollNow,    \* now, read once at the start of a poll
    loopEnd,    \* when the loop stops polling
    seen,       \* the (ticker, as_of) pairs looked at in this run
    batch,      \* eligible rows of this poll, still to be gated
    decided,    \* decisions of this poll
    decisions,  \* all_decisions: those of the polls before
    trades,     \* trades_window
    today,      \* trades_today
    lastEntry   \* last_entry_ms, 0 for None

tradeState == <<trades, today, lastEntry>>
world == <<clock, feed>>
run == <<mode, pollNow, loopEnd, seen, batch, decided, decisions, tradeState>>
runtimeVars == <<world, pc, run>>

Rows == [ticker : Tickers, asOf : Nat \ {0}, kind : Kinds]
Decisions == [ticker : Tickers, asOf : Nat \ {0}, state : PolicyStates \cup {"SHADOW_DECISION"},
              fresh : BOOLEAN, at : Nat]

RuntimeTypeOK ==
    /\ clock \in 1 .. MaxTime /\ feed \in Seq(Rows)
    /\ pc \in {"idle", "starting", "loading", "poll", "read", "gate", "sleep", "ending"}
    /\ mode \in {"shadow", "paper"}
    /\ pollNow \in Nat /\ loopEnd \in Nat
    /\ seen \subseteq Tickers \X Nat
    /\ batch \in Seq(Rows)
    /\ decided \in Seq(Decisions) /\ decisions \in Seq(Decisions)
    /\ trades \in [Tickers -> Nat] /\ today \in Nat /\ lastEntry \in Nat

\* A process that has not begun: _new_trade_state and the locals of the loop.
Fresh ==
    /\ pollNow = 0 /\ loopEnd = 0 /\ seen = {}
    /\ batch = <<>> /\ decided = <<>> /\ decisions = <<>>
    /\ trades = [t \in Tickers |-> 0] /\ today = 0 /\ lastEntry = 0

RuntimeInit == clock = 1 /\ feed = <<>> /\ pc = "idle" /\ mode = "shadow" /\ Fresh
-----------------------------------------------------------------------------
(* The collector and the clock.                                             *)

LastAsOf == IF feed = <<>> THEN 0 ELSE Last(feed).asOf

\* A row is written some time after the moment it describes, rows in the order
\* of their moments; the flush of an iteration's rows is one Record after another.
Record(t, k) ==
    /\ Len(feed) < MaxRows
    /\ \E asOf \in {clock - 1, clock} :
          /\ asOf >= LastAsOf /\ asOf > 0
          /\ feed' = Append(feed, [ticker |-> t, asOf |-> asOf, kind |-> k])
    /\ UNCHANGED <<clock, pc, run>>

Tick ==
    /\ clock < MaxTime
    /\ clock' = clock + 1
    /\ UNCHANGED <<feed, pc, run>>
-----------------------------------------------------------------------------
(* Row selection.                                                           *)

LastOf(s, n) == IF Len(s) <= n THEN s ELSE SubSeq(s, Len(s) - n + 1, Len(s))

\* The numbers of a finite set in ascending order, and the elements of a sequence
\* at these places (a loop that keeps some of what it passes).
Ascending(I) ==
    [n \in 1 .. Cardinality(I) |-> CHOOSE i \in I : Cardinality({j \in I : j <= i}) = n]
At(s, I) == [n \in 1 .. Cardinality(I) |-> s[Ascending(I)[n]]]

\* Of the rows of a ticker the newest, the later line if two are as new.
Newest(rows, t) ==
    CHOOSE i \in DOMAIN rows :
        /\ rows[i].ticker = t
        /\ \A j \in DOMAIN rows : rows[j].ticker = t =>
              \/ rows[j].asOf < rows[i].asOf
              \/ rows[j].asOf = rows[i].asOf /\ j <= i

\* latest_feature_rows: of the last lines, the newest row of each ticker, tickers
\* in the order of their first line (a dict keeps it).
LatestRows(file) ==
    LET tail == LastOf(file, Lines)
        first == {i \in DOMAIN tail : \A j \in 1 .. i - 1 : tail[j].ticker # tail[i].ticker}
    IN  At([i \in DOMAIN tail |-> tail[Newest(tail, tail[i].ticker)]], first)

Key(r) == <<r.ticker, r.asOf>>

\* mutant: the time to close that was recorded, not the one left now
ToClose_recorded(r, now) == CloseAt[r.ticker] - r.asOf
ToClose(r, now) == CloseAt[r.ticker] - now

\* Older than feature_row_max_age_ms; a row from the future is not.
IsStale(r, now) == now - r.asOf > RowMaxAge

\* _decision_eligibility: an open market, inside its window and the policy's,
\* with book, reference and depth (usable), and a row that is not stale.
Eligible(r, now) ==
    /\ r.kind.usable
    /\ ToClose(r, now) > 0 /\ ToClose(r, now) <= Duration
    /\ ToClose(r, now) >= MinToClose /\ ToClose(r, now) <= MaxToClose
    /\ ~IsStale(r, now)

\* The eligible rows not looked at before, the last of them if they are many.
Batch(rows) ==
    LastOf(At(rows, {i \in DOMAIN rows :
                        Key(rows[i]) \notin seen /\ Eligible(rows[i], pollNow)}), Limit)

Poll ==
    /\ pc = "poll"
    /\ pollNow' = clock /\ pc' = "read"
    /\ UNCHANGED <<world, mode, loopEnd, seen, batch, decided, decisions, tradeState>>

\* mutant: rows are not remembered
Read_forgetting ==
    /\ pc = "read"
    /\ batch' = Batch(LatestRows(feed))
    /\ pc' = IF batch' = <<>> THEN "sleep" ELSE "gate"
    /\ UNCHANGED <<world, mode, pollNow, loopEnd, seen, decided, decisions, tradeState>>

\* The rows not seen in this run; those over the limit are not looked at again.
Read ==
    /\ pc = "read"
    /\ seen' = seen \cup {Key(r) : r \in ToSet(LatestRows(feed))}
    /\ batch' = Batch(LatestRows(feed))
    /\ pc' = IF batch' = <<>> THEN "sleep" ELSE "gate"
    /\ UNCHANGED <<world, mode, pollNow, loopEnd, decided, decisions, tradeState>>
-----------------------------------------------------------------------------
(* The gates (_gate_rows).                                                  *)

\* mutant: the cooldown is measured as a distance
RateBlocked_abs(r) ==
    \/ trades[r.ticker] >= MaxPerWindow
    \/ today >= MaxDaily
    \/ /\ lastEntry # 0
       /\ r.asOf - lastEntry < Cooldown /\ lastEntry - r.asOf < Cooldown

RateBlocked(r) ==
    \/ trades[r.ticker] >= MaxPerWindow
    \/ today >= MaxDaily
    \/ lastEntry # 0 /\ r.asOf - lastEntry < Cooldown

\* The state a row gets before shadow mode rewrites it.
Gated(r) ==
    IF r.kind.policy # Candidate THEN r.kind.policy
    ELSE IF ~r.kind.fresh \/ IsStale(r, pollNow) THEN "REJECTED"
    ELSE IF ~r.kind.edge \/ RateBlocked(r) THEN "WATCH"
    ELSE Candidate

\* mutant: shadow mode rewrites nothing
Recorded_plain(state) == state

\* Shadow mode rewrites all states but MANUAL_REVIEW.
Recorded(state) ==
    IF mode = "shadow" /\ state # "MANUAL_REVIEW" THEN "SHADOW_DECISION" ELSE state

Decision(r) == [ticker |-> r.ticker, asOf |-> r.asOf, state |-> Recorded(Gated(r)),
                fresh |-> r.kind.fresh, at |-> pollNow]

Enter(r) ==
    /\ trades' = [trades EXCEPT ![r.ticker] = @ + 1]
    /\ today' = today + 1 /\ lastEntry' = r.asOf

Gate ==
    /\ pc = "gate" /\ batch # <<>>
    /\ LET r == Head(batch)
       IN  /\ decided' = Append(decided, Decision(r))
           /\ IF mode = "paper" /\ Gated(r) = Candidate THEN Enter(r)
                                                        ELSE UNCHANGED tradeState
    /\ batch' = Tail(batch)
    /\ UNCHANGED <<world, pc, mode, pollNow, loopEnd, seen, decisions>>

\* The poll's decisions join the others; abort_check may end the loop.
Report(abort) ==
    /\ pc = "gate" /\ batch = <<>>
    /\ decisions' = decisions \o decided /\ decided' = <<>>
    /\ pc' = IF abort THEN "ending" ELSE "sleep"
    /\ UNCHANGED <<world, mode, pollNow, loopEnd, seen, batch, tradeState>>

\* mutant: it sleeps until there is a row it has not seen
Sleep_forNews ==
    /\ pc = "sleep" /\ clock > pollNow
    /\ \E r \in ToSet(feed) : Key(r) \notin seen
    /\ pc' = IF clock >= loopEnd THEN "ending" ELSE "poll"
    /\ UNCHANGED <<world, run>>

\* The time is up, or the loop sleeps, at least until the clock has moved.
Sleep ==
    /\ pc = "sleep"
    /\ IF clock >= loopEnd THEN pc' = "ending" ELSE clock > pollNow /\ pc' = "poll"
    /\ UNCHANGED <<world, run>>
-----------------------------------------------------------------------------
(* What the loop promises of every run, here of the one that is going on.   *)

Taken == decisions \o decided
Entries == {i \in DOMAIN Taken : Taken[i].state = Candidate}

\* "cooldown / per-window / daily caps hold over time" (_gate_rows): whatever
\* polls, late rows and markets interleave, the candidates of a run are no more
\* than the caps allow, and any two are at least a cooldown apart in as_of.
RateCapsHold ==
    /\ Cardinality(Entries) <= MaxDaily
    /\ \A t \in Tickers :
          Cardinality({i \in Entries : Taken[i].ticker = t}) <= MaxPerWindow
    /\ \A i, j \in Entries : i < j => Taken[j].asOf >= Taken[i].asOf + Cooldown

\* "evaluating only NEW (ticker, as_of) rows" (run_live_shadow): however often a
\* row is read again from the file, a run decides on it once.
DecidedOnce ==
    \A i, j \in DOMAIN Taken :
        Taken[i].ticker = Taken[j].ticker /\ Taken[i].asOf = Taken[j].asOf => i = j

\* No decision was taken, in either mode, on a row that was stale or whose
\* market was not in its trading window when its poll began.
DecidedInTime ==
    \A i \in DOMAIN Taken :
        /\ Taken[i].at - Taken[i].asOf <= RowMaxAge
        /\ LET left == CloseAt[Taken[i].ticker] - Taken[i].at
           IN  left >= MinToClose /\ left <= MaxToClose /\ left \in 1 .. Duration
=============================================================================
